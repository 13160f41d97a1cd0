----------------------------- MODULE RateLimit ------------------------------
(***************************************************************************)
(* The sliding-window limiter in front of POST /login.  A login attempt    *)
(* asks it twice, for its client IP and then for its username.  Allow      *)
(* reads the time before it takes the lock, so the events of a key are     *)
(* recorded, and the inline janitor runs, with times that are out of       *)
(* order.                                                                  *)
(*                                                                         *)
(* Time is Go's monotonic reading: it never goes back.  A limit or a       *)
(* window of zero gives a nil limiter, which allows everything; only a     *)
(* real limiter is modelled.  A restart empties the map and is left out.   *)
(***************************************************************************)
EXTENDS Integers, Sequences, FiniteSets

CONSTANTS
    Logins,      \* concurrent POST /login handlers
    IPs, Users,  \* limiter keys "ip:..." and "user:..."
    Max,         \* requests of GFS_LOGIN_RATE_LIMIT
    Window,      \* its duration, in ticks
    MaxLag,      \* bound on the time between reading the clock and the lock
    MaxTime,     \* bound on the clock
    None         \* no key

Keys == IPs \cup Users

ASSUME LimitAssumption == Max \in Nat \ {0} /\ Window \in Nat \ {0}
ASSUME TimeAssumption == MaxTime \in Nat /\ MaxLag \in 0..(Window - 1)
ASSUME KeysAssumption == None \notin Keys

VARIABLES
    clock,       \* time.Now
    events,      \* Limiter.events; an absent key is the empty sequence
    lastSweep,   \* Limiter.lastSweep
    login,       \* the handlers
    admitted     \* history: the times of all events ever let through, by key

vars == <<clock, events, lastSweep, login, admitted>>

Time == 0..MaxTime
LoginPC == {"idle", "ip", "next", "user"}

TypeOK ==
    /\ clock \in Time
    /\ events \in [Keys -> Seq(Time)]
    /\ lastSweep \in Time \cup {-Window}
    /\ login \in [Logins -> [pc : LoginPC, ip : IPs \cup {None},
                             user : Users \cup {None}, now : Time]]
    /\ admitted \in [Keys -> Seq(Time)]

Idle == [pc |-> "idle", ip |-> None, user |-> None, now |-> 0]

\* New: the zero lastSweep is before every window.
Init ==
    /\ clock = 0
    /\ events = [k \in Keys |-> <<>>]
    /\ lastSweep = -Window
    /\ login = [l \in Logins |-> Idle]
    /\ admitted = [k \in Keys |-> <<>>]

-----------------------------------------------------------------------------
(* Limiter.Allow, under its lock, with the time t read before *)

\* What the loop over the events of a key has kept after n rounds.
Loop(s, t) ==
    LET kept[n \in 0..Len(s)] ==
          IF n = 0 THEN <<>>
          ELSE IF s[n] > t - Window THEN Append(kept[n - 1], s[n]) ELSE kept[n - 1]
    IN  kept

\* The events of a key after the cutoff.
Recent(s, t) == Loop(s, t)[Len(s)]

\* Mutant: only the key that is asked for is ever pruned.
Swept_Never(t) == events

\* sweepLocked: at most once per window, every key is pruned.
Swept(t) ==
    IF t - lastSweep < Window THEN events ELSE [k \in Keys |-> Recent(events[k], t)]

SweptAt(t) == IF t - lastSweep < Window THEN lastSweep ELSE t

\* Mutant: the cap is tested after the event is counted out.
UnderCap_OffByOne(kept) == Len(kept) <= Max

UnderCap(kept) == Len(kept) < Max

\* Mutant: a refused attempt prolongs the lockout.
Record_Refused(kept, t) == Append(kept, t)

\* A refused event is not recorded.
Record(kept, t) == IF UnderCap(kept) THEN Append(kept, t) ELSE kept

Kept(k, t) == Recent(Swept(t)[k], t)

Allow(k, t) ==
    /\ events' = [Swept(t) EXCEPT ![k] = Record(Kept(k, t), t)]
    /\ lastSweep' = SweptAt(t)
    /\ admitted' = IF UnderCap(Kept(k, t))
                     THEN [admitted EXCEPT ![k] = Append(@, t)] ELSE admitted

-----------------------------------------------------------------------------
(* handleLoginPOST and allowLoginAttempt *)

Begin(l, i, u) ==
    /\ login[l].pc = "idle"
    /\ login' = [login EXCEPT ![l] = [pc |-> "ip", ip |-> i, user |-> u, now |-> clock]]
    /\ UNCHANGED <<clock, events, lastSweep, admitted>>

\* A refused IP ends the attempt with 429, the username is not asked for.
AllowIP(l) ==
    /\ login[l].pc = "ip"
    /\ Allow(login[l].ip, login[l].now)
    /\ login' = [login EXCEPT ![l] =
          IF UnderCap(Kept(login[l].ip, login[l].now)) THEN [@ EXCEPT !.pc = "next"] ELSE Idle]
    /\ UNCHANGED clock

ReadClock(l) ==
    /\ login[l].pc = "next"
    /\ login' = [login EXCEPT ![l] = [pc |-> "user", ip |-> login[l].ip,
                                      user |-> login[l].user, now |-> clock]]
    /\ UNCHANGED <<clock, events, lastSweep, admitted>>

\* Refused, or on to the password check: the IP keeps its event either way.
AllowUser(l) ==
    /\ login[l].pc = "user"
    /\ Allow(login[l].user, login[l].now)
    /\ login' = [login EXCEPT ![l] = Idle]
    /\ UNCHANGED clock

\* No handler waits for the lock longer than MaxLag.
Tick ==
    /\ clock < MaxTime
    /\ \A l \in Logins : login[l].pc \in {"ip", "user"} => clock < login[l].now + MaxLag
    /\ clock' = clock + 1
    /\ UNCHANGED <<events, lastSweep, login, admitted>>

Next ==
    \/ \E l \in Logins, i \in IPs, u \in Users : Begin(l, i, u)
    \/ \E l \in Logins : AllowIP(l) \/ ReadClock(l) \/ AllowUser(l)
    \/ Tick

Spec == Init /\ [][Next]_vars

-----------------------------------------------------------------------------
(* Properties *)

\* The key a handler is about to ask for, under the lock.
Asked(l) == IF login[l].pc = "ip" THEN login[l].ip ELSE login[l].user

\* The cap of GFS_LOGIN_RATE_LIMIT: however the handlers' clock readings and
\* lock acquisitions interleave, no interval as long as the window less the
\* lag holds more than Max events of a key. (With a lag, an interval of the
\* whole window can hold more: a late event is pruned against a newer time.)
WindowCap ==
    \A k \in Keys, t \in -1..MaxTime :
        Cardinality({n \in DOMAIN admitted[k] :
            t < admitted[k][n] /\ admitted[k][n] <= t + Window - MaxLag}) <= Max

\* 429 is only answered while Max events of the key that were let through lie
\* within the window, so whoever waits for Retry-After undisturbed gets in:
\* refused attempts, other keys and the janitor never prolong a lockout.
RefusalIsEarned ==
    [][\A l \in Logins :
          /\ login[l].pc \in {"ip", "user"}
          /\ login'[l].pc = "idle"
          /\ admitted'[Asked(l)] = admitted[Asked(l)]
          => Cardinality({n \in DOMAIN admitted[Asked(l)] :
                 admitted[Asked(l)][n] > login[l].now - Window}) >= Max]_vars

\* Memory is bounded without a background goroutine: whichever keys the calls
\* are for, and with whatever delay they get the lock, the events in the map
\* lie less than a window before or after the last sweep, so that they never
\* span more than two windows.
KeptIsRecent ==
    \A k \in Keys : \A n \in DOMAIN events[k] :
        lastSweep - Window < events[k][n] /\ events[k][n] < lastSweep + Window
=============================================================================
