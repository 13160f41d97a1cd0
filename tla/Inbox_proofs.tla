---------------------------- MODULE Inbox_proofs ----------------------------
(***************************************************************************)
(* Proofs about Inbox, for any number of names, contents, sizes, ids and   *)
(* crashes: the inductive invariant behind "what was sent is kept" and     *)
(* "what could not be removed is not stored twice".                        *)
(***************************************************************************)
EXTENDS Inbox, TLAPS

\* A content is delivered once, under one name, and is complete when sent.
DeliveryOK(c) ==
    /\ delivery[c] = "new" => \A f \in Names : inbox[f] # c
    /\ delivery[c] = "sent" => written[c] = Size[c]
    /\ \A f, g \in Names : inbox[f] = c /\ inbox[g] = c => f = g

\* The remembered size is that of the file that has the name now, and older
\* than the writes since the last poll, unless the name was reused.
SeenOK(f, c) ==
    inbox[f] = c /\ seen[f] # None /\ c \notin exposed =>
        /\ seen[f] <= written[c]
        /\ c \in active => seen[f] < written[c]

Busy == watch.pc \in {"copy", "add", "remove"}
Copied == watch.pc \in {"add", "remove"}

\* The file that the watcher works on was complete when it was taken, or its
\* client has exposed it.
TakenOK(c) ==
    Busy /\ inbox[watch.name] = c /\ c \notin exposed =>
        delivery[c] = "sent" /\ (Copied => watch.bytes = <<c, Size[c]>>)

\* The bytes come from a file that has the name that is about to be removed,
\* and nowhere another one.
CopiedOK ==
    Copied =>
        /\ watch.bytes \in Bytes
        /\ delivery[watch.bytes[1]] # "new"
        /\ \A f \in Names : inbox[f] = watch.bytes[1] => f = watch.name

WatchOK ==
    /\ Busy => watch.name \in Names
    /\ CopiedOK
    /\ watch.pc = "remove" => watch.bytes \in accepted
    /\ watch.pc = "add" /\ watch.bytes \in accepted =>
          watch.bytes[1] \in stuck /\ watch.bytes \in gone

\* Accepted bytes are in the store or left it by a delete; their file has
\* left the inbox, is about to, or could not be removed.
AcceptedOK(b) ==
    /\ delivery[b[1]] # "new"
    /\ Duplicate(b) \/ b \in gone
    /\ \/ b[1] \in stuck
       \/ \A f \in Names : inbox[f] # b[1]
       \/ watch.pc = "remove" /\ watch.bytes[1] = b[1]

\* SentIsKept, from the first byte of a delivery on.
KeptOK(c) ==
    delivery[c] # "new" =>
        \/ \E f \in Names : inbox[f] = c
        \/ <<c, Size[c]>> \in accepted
        \/ c \in exposed

\* The inductive invariant.
Inv ==
    /\ TypeOK
    /\ \A c \in Contents : DeliveryOK(c) /\ TakenOK(c) /\ KeptOK(c)
    /\ \A f \in Names, c \in Contents : SeenOK(f, c)
    /\ WatchOK
    /\ \A b \in accepted : AcceptedOK(b)

-----------------------------------------------------------------------------
(* Type correctness *)

WatchState == [pc : WatchPC, todo : SUBSET Names, live : SUBSET Names,
               name : Maybe(Names), bytes : Maybe(Bytes)]

\* The parts of the type invariant, one by one.
LEMMA Typing ==
    ASSUME TypeOK
    PROVE  /\ inbox \in [Names -> Maybe(Contents)] /\ written \in [Contents -> Nat]
           /\ delivery \in [Contents -> {"new", "writing", "sent"}]
           /\ seen \in [Names -> Maybe(Nat)] /\ watch \in WatchState
           /\ stored \in [Ids -> Maybe(Bytes)] /\ retired \subseteq Ids
           /\ accepted \subseteq Bytes /\ gone \subseteq Bytes
           /\ active \subseteq Contents /\ exposed \subseteq Contents /\ stuck \subseteq Contents
           /\ crashes \in 0..MaxCrashes
  BY DEF TypeOK, WatchState

\* The parts put together after a step.
LEMMA TypingBack ==
    ASSUME inbox' \in [Names -> Maybe(Contents)] /\ written' \in [Contents -> Nat],
           delivery' \in [Contents -> {"new", "writing", "sent"}],
           seen' \in [Names -> Maybe(Nat)] /\ watch' \in WatchState,
           stored' \in [Ids -> Maybe(Bytes)] /\ retired' \subseteq Ids,
           accepted' \subseteq Bytes /\ gone' \subseteq Bytes,
           active' \subseteq Contents /\ exposed' \subseteq Contents /\ stuck' \subseteq Contents,
           crashes' \in 0..MaxCrashes
    PROVE  TypeOK'
  BY DEF TypeOK, WatchState

\* Ending the work on a file resets the watcher's name and bytes.
LEMMA LeaveTyped ==
    ASSUME watch \in WatchState
    PROVE  /\ Leave \in WatchState
           /\ Leave.pc = "scan" /\ Leave.name = None /\ Leave.bytes = None
  BY DEF Leave, WatchState, WatchPC, Maybe

\* An idle watcher is well typed.
LEMMA IdleTyped ==
    /\ WatchIdle \in WatchState
    /\ WatchIdle.pc = "idle" /\ WatchIdle.name = None /\ WatchIdle.bytes = None
  BY DEF WatchIdle, WatchState, WatchPC, Maybe

-----------------------------------------------------------------------------
(* What each group of steps does to the watcher *)

\* The steps of the watcher that look at one file or end its work; they
\* leave a watcher that holds no file.
LEMMA ScanWatch ==
    ASSUME TypeOK, Poll \/ EndScan \/ Crash \/ FailIngest \/ RemoveFile \/ FailRemove
    PROVE  watch' \in WatchState /\ watch'.pc \in {"idle", "scan"}
<1>0. watch \in WatchState
  BY Typing
<1>1. CASE FailIngest \/ RemoveFile \/ FailRemove
  BY <1>0, <1>1, LeaveTyped DEF FailIngest, RemoveFile, FailRemove
<1>2. CASE EndScan \/ Crash
  BY <1>2, IdleTyped DEF EndScan, Crash
<1>3. CASE Poll
  <2>1. {f \in Names : inbox[f] # None} \in SUBSET Names
    OBVIOUS
  <2> QED
    BY <1>3, <2>1, IdleTyped DEF Poll, WatchState, WatchPC
<1> QED
  BY <1>1, <1>2, <1>3

\* Looking at a file and leaving it where it is.
LEMMA LookWatch ==
    ASSUME TypeOK, NEW f \in Names, Remember(f) \/ Skip(f)
    PROVE  watch' \in WatchState /\ watch'.pc = "scan"
  BY Typing DEF Remember, Skip, WatchState

\* Taking a file.
LEMMA TakeWatch ==
    ASSUME TypeOK, NEW f \in Names, Take(f)
    PROVE  watch' \in WatchState /\ watch'.pc = "copy" /\ watch'.name = f
  BY Typing DEF Take, WatchState, WatchPC, Maybe

\* Copying it: the bytes are those of the file at that moment.
LEMMA CopyWatch ==
    ASSUME Inv, Copy
    PROVE  /\ watch.name \in Names /\ inbox[watch.name] \in Contents
           /\ FileBytes(watch.name) \in Bytes
           /\ watch' \in WatchState
           /\ watch'.name = watch.name /\ watch'.bytes = FileBytes(watch.name)
           /\ watch'.pc = IF Duplicate(FileBytes(watch.name)) THEN "remove" ELSE "add"
           /\ accepted' = IF Duplicate(FileBytes(watch.name))
                            THEN accepted \cup {FileBytes(watch.name)} ELSE accepted
           /\ gone' = IF Duplicate(FileBytes(watch.name))
                        THEN gone \ {FileBytes(watch.name)} ELSE gone
           /\ UNCHANGED <<inbox, client, seen, store, exposed, stuck, crashes>>
<1>0. /\ watch \in WatchState /\ inbox \in [Names -> Maybe(Contents)]
      /\ written \in [Contents -> Nat] /\ WatchOK
  BY Typing DEF Inv
<1>1. watch.name \in Names /\ inbox[watch.name] \in Contents
  BY <1>0 DEF Copy, WatchOK, Busy, Maybe
<1>2. FileBytes(watch.name) \in Bytes
  BY <1>0, <1>1 DEF FileBytes, Bytes
<1> DEFINE b == FileBytes(watch.name)
<1>3. b \in Maybe(Bytes)
  BY <1>2 DEF Maybe
<1>4. /\ watch' = [watch EXCEPT !.pc = IF Duplicate(b) THEN "remove" ELSE "add", !.bytes = b]
      /\ accepted' = IF Duplicate(b) THEN accepted \cup {b} ELSE accepted
      /\ gone' = IF Duplicate(b) THEN gone \ {b} ELSE gone
      /\ UNCHANGED <<inbox, client, seen, store, exposed, stuck, crashes>>
  BY DEF Copy, Accept, taken
<1> HIDE DEF b
<1>5. /\ watch' \in WatchState
      /\ watch'.name = watch.name /\ watch'.bytes = b
      /\ watch'.pc = IF Duplicate(b) THEN "remove" ELSE "add"
  BY <1>0, <1>3, <1>4 DEF WatchState, WatchPC
<1> QED
  BY <1>1, <1>2, <1>4, <1>5 DEF b

\* Committing it.
LEMMA CommitWatch ==
    ASSUME Inv, NEW i \in Ids, Commit(i)
    PROVE  /\ watch.bytes \in Bytes /\ watch.name \in Names
           /\ watch' \in WatchState /\ watch'.pc = "remove"
           /\ watch'.name = watch.name /\ watch'.bytes = watch.bytes
           /\ accepted' = accepted \cup {watch.bytes} /\ gone' = gone \ {watch.bytes}
           /\ stored[i] = None /\ stored' = [stored EXCEPT ![i] = watch.bytes]
           /\ retired' = retired
           /\ UNCHANGED <<inbox, client, seen, exposed, stuck, crashes>>
<1>0. watch \in WatchState /\ WatchOK
  BY Typing DEF Inv
<1>1. watch.bytes \in Bytes /\ watch.name \in Names
  BY <1>0 DEF Commit, WatchOK, CopiedOK, Copied, Busy
<1>2. /\ watch' = [watch EXCEPT !.pc = "remove"]
      /\ accepted' = accepted \cup {watch.bytes} /\ gone' = gone \ {watch.bytes}
      /\ stored[i] = None /\ stored' = [stored EXCEPT ![i] = watch.bytes]
      /\ retired' = retired
      /\ UNCHANGED <<inbox, client, seen, exposed, stuck, crashes>>
  BY DEF Commit, C!Add, Accept
<1>3. /\ watch' \in WatchState /\ watch'.pc = "remove"
      /\ watch'.name = watch.name /\ watch'.bytes = watch.bytes
  BY <1>0, <1>2 DEF WatchState, WatchPC
<1> QED
  BY <1>1, <1>2, <1>3

\* A client that puts a content under a name is about to deliver it.
LEMMA OccupyEffect ==
    ASSUME TypeOK, NEW d \in Contents, NEW f \in Names, OpenFile(d, f) \/ MoveIn(d, f)
    PROVE  /\ delivery[d] = "new" /\ delivery'[d] \in {"writing", "sent"}
           /\ delivery'[d] = "sent" => written'[d] = Size[d]
           /\ inbox'[f] = d
           /\ \A g \in Names : g # f => inbox'[g] = inbox[g]
           /\ \A c \in Contents : c # d => delivery'[c] = delivery[c] /\ written'[c] = written[c]
           /\ exposed \subseteq exposed'
           /\ inbox[f] # None => inbox[f] \in exposed'
           /\ Known(f) => d \in exposed'
           /\ inbox' \in [Names -> Maybe(Contents)] /\ written' \in [Contents -> Nat]
           /\ delivery' \in [Contents -> {"new", "writing", "sent"}]
           /\ exposed' \subseteq Contents
           /\ UNCHANGED <<active, seen, watch, store, taken, stuck, crashes>>
<1>0. /\ inbox \in [Names -> Maybe(Contents)] /\ written \in [Contents -> Nat]
      /\ delivery \in [Contents -> {"new", "writing", "sent"}] /\ exposed \subseteq Contents
  BY Typing
<1>1. /\ delivery[d] = "new" /\ inbox' = [inbox EXCEPT ![f] = d]
      /\ exposed' = exposed \cup ({inbox[f]} \ {None}) \cup {c \in {d} : Known(f)}
      /\ UNCHANGED <<active, seen, watch, store, taken, stuck, crashes>>
  BY DEF OpenFile, MoveIn, Occupy
<1>2. /\ delivery'[d] \in {"writing", "sent"}
      /\ delivery'[d] = "sent" => written'[d] = Size[d]
      /\ \A c \in Contents : c # d => delivery'[c] = delivery[c] /\ written'[c] = written[c]
      /\ written' \in [Contents -> Nat]
      /\ delivery' \in [Contents -> {"new", "writing", "sent"}]
  BY <1>0, SizeAssumption DEF OpenFile, MoveIn
<1>3. exposed' \subseteq Contents
  BY <1>0, <1>1 DEF Maybe
<1> QED
  BY <1>0, <1>1, <1>2, <1>3 DEF Maybe

\* No other step puts a file under a name; a client's own step lets its file
\* grow to its size or ends the delivery; nobody else touches it.
LEMMA OthersEffect ==
    ASSUME TypeOK, [Next]_vars,
           ~ \E d \in Contents, f \in Names : OpenFile(d, f) \/ MoveIn(d, f)
    PROVE  /\ \A f \in Names : inbox'[f] \in {inbox[f], None}
           /\ inbox' \in [Names -> Maybe(Contents)] /\ written' \in [Contents -> Nat]
           /\ delivery' \in [Contents -> {"new", "writing", "sent"}]
           /\ \A c \in Contents : delivery[c] # "writing" =>
                 delivery'[c] = delivery[c] /\ written'[c] = written[c]
           /\ \A c \in Contents : delivery[c] = "writing" =>
                 \/ delivery'[c] = "writing"
                 \/ delivery'[c] = "sent" /\ written'[c] = Size[c]
<1>0. /\ inbox \in [Names -> Maybe(Contents)] /\ written \in [Contents -> Nat]
      /\ delivery \in [Contents -> {"new", "writing", "sent"}]
  BY Typing
<1>1. CASE \E c \in Contents : Write(c) \/ Close(c)
  BY <1>0, <1>1 DEF Write, Close
<1>2. CASE UNCHANGED <<written, delivery>> /\ \E f \in Names : inbox' = [inbox EXCEPT ![f] = None]
  BY <1>0, <1>2 DEF Maybe
<1>3. CASE UNCHANGED <<inbox, written, delivery>>
  BY <1>0, <1>3
<1>4. ASSUME NEW f \in Names, Withdraw(f)
      PROVE  UNCHANGED <<written, delivery>> /\ \E g \in Names : inbox' = [inbox EXCEPT ![g] = None]
  BY <1>4 DEF Withdraw, client
<1>5. ASSUME RemoveFile, watch.name \notin Names
      PROVE  UNCHANGED <<inbox, written, delivery>>
  BY <1>0, <1>5 DEF RemoveFile, client
<1>6. ASSUME RemoveFile, watch.name \in Names
      PROVE  UNCHANGED <<written, delivery>> /\ \E g \in Names : inbox' = [inbox EXCEPT ![g] = None]
  BY <1>6 DEF RemoveFile, client
<1> QED
  BY <1>1, <1>2, <1>3, <1>4, <1>5, <1>6 DEF Next, WatchStep, vars, client, Poll, Copy,
     FailIngest, FailRemove, EndScan, Remember, Skip, Take, Commit, DeleteArchive,
     HttpUpload, Crash

\* What a client wrote, and where, is only ever changed by the client.
LEMMA DeliveryStep ==
    ASSUME Inv, [Next]_vars, NEW c \in Contents
    PROVE  DeliveryOK(c)'
<1>0. TypeOK /\ DeliveryOK(c)
  BY DEF Inv
<1>1. ASSUME NEW d \in Contents, NEW f \in Names, OpenFile(d, f) \/ MoveIn(d, f)
      PROVE  DeliveryOK(c)'
  <2>1. DeliveryOK(d)
    BY DEF Inv
  <2>2. /\ delivery[d] = "new" /\ delivery'[d] \in {"writing", "sent"}
        /\ delivery'[d] = "sent" => written'[d] = Size[d]
        /\ inbox'[f] = d
        /\ \A g \in Names : g # f => inbox'[g] = inbox[g]
        /\ \A e \in Contents : e # d => delivery'[e] = delivery[e] /\ written'[e] = written[e]
    BY <1>0, <1>1, OccupyEffect
  <2>3. CASE c = d
    BY <2>1, <2>2, <2>3 DEF DeliveryOK
  <2>4. CASE c # d
    BY <1>0, <2>2, <2>4 DEF DeliveryOK
  <2> QED
    BY <2>3, <2>4
<1>2. CASE ~ \E d \in Contents, f \in Names : OpenFile(d, f) \/ MoveIn(d, f)
  <2>1. \A f \in Names : inbox'[f] \in {inbox[f], None}
    BY <1>0, <1>2, OthersEffect
  <2>2. /\ delivery[c] # "writing" => delivery'[c] = delivery[c] /\ written'[c] = written[c]
        /\ delivery[c] = "writing" => \/ delivery'[c] = "writing"
                                      \/ delivery'[c] = "sent" /\ written'[c] = Size[c]
    BY <1>0, <1>2, OthersEffect
  <2> QED
    BY <1>0, <2>1, <2>2, NoneAssumption DEF DeliveryOK
<1> QED
  BY <1>1, <1>2

\* An exposure, an acceptance and a failed removal are never taken back.
LEMMA HistoryGrows ==
    ASSUME Inv, [Next]_vars
    PROVE  /\ exposed \subseteq exposed' /\ accepted \subseteq accepted' /\ stuck \subseteq stuck'
<1>1. ASSUME NEW d \in Contents, NEW f \in Names, OpenFile(d, f) \/ MoveIn(d, f)
      PROVE  exposed \subseteq exposed' /\ UNCHANGED <<accepted, stuck>>
  BY <1>1, OccupyEffect DEF Inv, taken
<1>2. CASE Copy
  BY <1>2, CopyWatch
<1> QED
  BY <1>1, <1>2 DEF Next, WatchStep, vars, taken, Accept, client, Write, Close, Withdraw, Poll,
     FailIngest, RemoveFile, FailRemove, EndScan, Remember, Skip, Take, Commit,
     DeleteArchive, HttpUpload, Crash

\* Sizes that the watcher remembers never run ahead of their file.
LEMMA SeenStep ==
    ASSUME Inv, [Next]_vars, NEW f \in Names, NEW c \in Contents
    PROVE  SeenOK(f, c)'
<1> USE NoneAssumption
<1>0. /\ TypeOK /\ SeenOK(f, c) /\ exposed \subseteq exposed' /\ DeliveryOK(c)
      /\ inbox \in [Names -> Maybe(Contents)] /\ written \in [Contents -> Nat]
      /\ delivery \in [Contents -> {"new", "writing", "sent"}] /\ seen \in [Names -> Maybe(Nat)]
  BY Typing, HistoryGrows DEF Inv
<1>1. ASSUME NEW d \in Contents, NEW g \in Names, OpenFile(d, g) \/ MoveIn(d, g)
      PROVE  SeenOK(f, c)'
  <2>1. /\ seen' = seen /\ active' = active
        /\ inbox'[g] = d /\ delivery[d] = "new"
        /\ \A h \in Names : h # g => inbox'[h] = inbox[h]
        /\ Known(g) => d \in exposed'
        /\ c # d => written'[c] = written[c]
    BY <1>0, <1>1, OccupyEffect
  <2>2. CASE f = g
    BY <1>0, <2>1, <2>2 DEF SeenOK, Known
  <2>3. CASE f # g
    BY <1>0, <2>1, <2>3 DEF SeenOK, DeliveryOK
  <2> QED
    BY <2>2, <2>3
<1>2. ASSUME NEW d \in Contents, Write(d)
      PROVE  SeenOK(f, c)'
  <2>1. /\ inbox' = inbox /\ seen' = seen /\ exposed' = exposed
        /\ active' = active \cup {d}
        /\ written'[d] = written[d] + 1
        /\ c # d => written'[c] = written[c]
    BY <1>0, <1>2 DEF Write
  <2>2. written[c] \in Nat /\ seen[f] \in Maybe(Nat)
    BY <1>0
  <2>3. CASE inbox[f] = c /\ seen[f] # None /\ c \notin exposed
    <3>1. seen[f] \in Nat /\ seen[f] <= written[c] /\ (c \in active => seen[f] < written[c])
      BY <1>0, <2>2, <2>3 DEF SeenOK, Maybe
    <3> QED
      BY <2>1, <2>2, <3>1 DEF SeenOK
  <2>4. CASE ~(inbox[f] = c /\ seen[f] # None /\ c \notin exposed)
    BY <2>1, <2>4 DEF SeenOK
  <2> QED
    BY <2>3, <2>4
<1>3. ASSUME NEW g \in Names, Remember(g)
      PROVE  SeenOK(f, c)'
  <2>1. /\ inbox' = inbox /\ written' = written /\ exposed' = exposed
        /\ seen' = [seen EXCEPT ![g] = written[inbox[g]]]
        /\ active' = active \ {inbox[g]}
    BY <1>3 DEF Remember
  <2>2. CASE f = g
    BY <1>0, <2>1, <2>2 DEF SeenOK
  <2>3. CASE f # g
    BY <1>0, <2>1, <2>3 DEF SeenOK
  <2> QED
    BY <2>2, <2>3
<1>4. CASE /\ inbox'[f] \in {inbox[f], None} /\ written' = written
           /\ seen'[f] \in {seen[f], None} /\ active' \subseteq active
  BY <1>0, <1>4 DEF SeenOK
<1>5. ASSUME NEW g \in Names, Take(g) \/ Skip(g) \/ Withdraw(g)
      PROVE  /\ inbox'[f] \in {inbox[f], None} /\ written' = written
             /\ seen'[f] \in {seen[f], None} /\ active' \subseteq active
  BY <1>0, <1>5 DEF Take, Skip, Withdraw, client
<1>6. ASSUME Poll \/ Copy \/ FailIngest \/ RemoveFile \/ FailRemove \/ EndScan \/ Crash
      PROVE  /\ inbox'[f] \in {inbox[f], None} /\ written' = written
             /\ seen'[f] \in {seen[f], None} /\ active' \subseteq active
  BY <1>0, <1>6 DEF Poll, Copy, FailIngest, RemoveFile, FailRemove, EndScan, Crash, client,
     SeenNothing
<1>7. ASSUME NEW i \in Ids, Commit(i) \/ DeleteArchive(i) \/ \E d \in Others : HttpUpload(i, d)
      PROVE  UNCHANGED <<inbox, client, seen>>
  BY <1>7 DEF Commit, DeleteArchive, HttpUpload
<1>8. ASSUME NEW d \in Contents, Close(d)
      PROVE  UNCHANGED <<inbox, written, active, seen>>
  BY <1>8 DEF Close
<1>9. CASE UNCHANGED vars
  BY <1>4, <1>9 DEF vars, client
<1> QED
  BY <1>1, <1>2, <1>3, <1>4, <1>5, <1>6, <1>7, <1>8, <1>9 DEF Next, WatchStep, client

\* The steps that leave the watcher as it is.
LEMMA WatchUnmoved ==
    ASSUME [Next]_vars, ~WatchStep, ~Crash
    PROVE  watch' = watch
  BY DEF Next, vars, client, Write, Close, OpenFile, MoveIn, Withdraw, DeleteArchive, HttpUpload

\* A step of the watcher, by what it leaves in the watcher's hands.
LEMMA WatchCases ==
    ASSUME Inv, [Next]_vars
    PROVE  \/ watch' = watch /\ ~WatchStep /\ ~Crash
           \/ watch'.pc \in {"idle", "scan"}
           \/ \E f \in Names : Take(f)
           \/ Copy
           \/ \E i \in Ids : Commit(i)
<1>0. TypeOK
  BY DEF Inv
<1>1. ASSUME Poll \/ EndScan \/ Crash \/ FailIngest \/ RemoveFile \/ FailRemove
      PROVE  watch'.pc \in {"idle", "scan"}
  BY <1>0, <1>1, ScanWatch
<1>2. ASSUME NEW f \in Names, Remember(f) \/ Skip(f)
      PROVE  watch'.pc = "scan"
  BY <1>0, <1>2, LookWatch
<1> QED
  BY <1>1, <1>2, WatchUnmoved DEF WatchStep

\* A file is taken only when it is complete, or after its client paused for
\* a whole poll: two equal sizes in a row are two sizes of the same file.
LEMMA TakenStep ==
    ASSUME Inv, [Next]_vars, NEW c \in Contents
    PROVE  TakenOK(c)'
<1> USE NoneAssumption
<1>0. /\ TypeOK /\ TakenOK(c) /\ DeliveryOK(c) /\ WatchOK /\ exposed \subseteq exposed'
      /\ inbox \in [Names -> Maybe(Contents)] /\ written \in [Contents -> Nat]
      /\ delivery \in [Contents -> {"new", "writing", "sent"}] /\ seen \in [Names -> Maybe(Nat)]
  BY Typing, HistoryGrows DEF Inv
<1>1. ASSUME watch' = watch, ~WatchStep, ~Crash
      PROVE  TakenOK(c)'
  <2> SUFFICES ASSUME Busy, inbox'[watch.name] = c, c \notin exposed'
               PROVE  delivery'[c] = "sent" /\ (Copied => watch.bytes = <<c, Size[c]>>)
    BY <1>1 DEF TakenOK, Busy, Copied
  <2>1. watch.name \in Names
    BY <1>0 DEF WatchOK
  <2>2. inbox[watch.name] = c
    <3>1. ASSUME NEW d \in Contents, NEW f \in Names, OpenFile(d, f) \/ MoveIn(d, f)
          PROVE  inbox[watch.name] = c
      <4>1. /\ inbox'[f] = d /\ \A g \in Names : g # f => inbox'[g] = inbox[g]
            /\ Known(f) => d \in exposed'
        BY <1>0, <3>1, OccupyEffect
      <4>2. watch.name # f
        BY <4>1 DEF Known
      <4> QED
        BY <2>1, <4>1, <4>2
    <3>2. CASE ~ \E d \in Contents, f \in Names : OpenFile(d, f) \/ MoveIn(d, f)
      <4>1. inbox'[watch.name] \in {inbox[watch.name], None}
        BY <1>0, <2>1, <3>2, OthersEffect
      <4> QED
        BY <4>1
    <3> QED
      BY <3>1, <3>2
  <2>3. delivery[c] = "sent" /\ (Copied => watch.bytes = <<c, Size[c]>>)
    BY <1>0, <2>2 DEF TakenOK
  <2>4. delivery'[c] = "sent"
    <3>1. ASSUME NEW d \in Contents, NEW f \in Names, OpenFile(d, f) \/ MoveIn(d, f)
          PROVE  delivery'[c] = "sent"
      <4>1. delivery[d] = "new" /\ (c # d => delivery'[c] = delivery[c])
        BY <1>0, <3>1, OccupyEffect
      <4> QED
        BY <2>3, <4>1
    <3>2. CASE ~ \E d \in Contents, f \in Names : OpenFile(d, f) \/ MoveIn(d, f)
      BY <1>0, <2>3, <3>2, OthersEffect
    <3> QED
      BY <3>1, <3>2
  <2> QED
    BY <2>3, <2>4
<1>2. CASE watch'.pc \in {"idle", "scan"}
  BY <1>2 DEF TakenOK, Busy
<1>3. ASSUME NEW f \in Names, Take(f)
      PROVE  TakenOK(c)'
  <2>1. watch'.pc = "copy" /\ watch'.name = f
    BY <1>0, <1>3, TakeWatch
  <2> SUFFICES ASSUME inbox[f] = c, c \notin exposed'
               PROVE  delivery[c] = "sent"
    BY <1>3, <2>1 DEF TakenOK, Take, Copied
  <2>2. seen[f] = written[c] /\ written[c] \in Nat /\ seen[f] # None
    BY <1>0, <1>3 DEF Take, Stable
  <2>3. c \notin exposed /\ ~(delivery[c] = "writing" /\ c \notin active)
    BY <1>0, <1>3 DEF Take
  <2>4. c \notin active
    BY <2>2, <2>3 DEF Inv, SeenOK
  <2> QED
    BY <1>0, <2>3, <2>4 DEF DeliveryOK
<1>4. CASE Copy
  <2>1. /\ watch.name \in Names /\ watch'.name = watch.name
        /\ watch'.bytes = <<inbox[watch.name], written[inbox[watch.name]]>>
        /\ UNCHANGED <<inbox, client, exposed>>
    BY <1>4, CopyWatch DEF FileBytes
  <2>2. inbox[watch.name] = c /\ c \notin exposed => delivery[c] = "sent"
    BY <1>0, <1>4 DEF TakenOK, Busy, Copy
  <2>3. delivery[c] = "sent" => written[c] = Size[c]
    BY <1>0 DEF DeliveryOK
  <2> QED
    BY <2>1, <2>2, <2>3 DEF TakenOK, client
<1>5. ASSUME NEW i \in Ids, Commit(i)
      PROVE  TakenOK(c)'
  <2>1. /\ watch'.name = watch.name /\ watch'.bytes = watch.bytes
        /\ UNCHANGED <<inbox, client, exposed>> /\ watch.pc = "add"
    BY <1>5, CommitWatch DEF Commit
  <2> QED
    BY <1>0, <2>1 DEF TakenOK, Busy, Copied, client
<1> QED
  BY <1>1, <1>2, <1>3, <1>4, <1>5, WatchCases

\* The watcher's own state: a name while it works on a file, the bytes once
\* they are copied, and no second copy of what a failed removal left behind.
LEMMA WatchOKStep ==
    ASSUME Inv, [Next]_vars
    PROVE  WatchOK'
<1> USE NoneAssumption
<1>0. /\ TypeOK /\ WatchOK /\ stuck \subseteq stuck'
      /\ accepted \subseteq accepted' /\ accepted \subseteq Bytes
      /\ \A c \in Contents : DeliveryOK(c) /\ DeliveryOK(c)'
  BY Typing, HistoryGrows, DeliveryStep DEF Inv
<1>1. ASSUME watch' = watch, ~WatchStep, ~Crash
      PROVE  WatchOK'
  <2>1. accepted' = accepted /\ gone \subseteq gone'
    BY <1>1 DEF Next, vars, taken, client, Write, Close, OpenFile, MoveIn, Withdraw,
       DeleteArchive, HttpUpload
  <2>2. CASE Copied
    <3>1. PICK c \in Contents, n \in Nat : watch.bytes = <<c, n>>
      BY <1>0, <2>2 DEF WatchOK, CopiedOK, Bytes
    <3>2. delivery[c] # "new" /\ \A f \in Names : inbox[f] = c => f = watch.name
      BY <1>0, <2>2, <3>1 DEF WatchOK, CopiedOK
    <3>3. delivery'[c] # "new" /\ \A f \in Names : inbox'[f] = c => f = watch.name
      <4>1. ASSUME NEW d \in Contents, NEW f \in Names, OpenFile(d, f) \/ MoveIn(d, f)
            PROVE  delivery'[c] # "new" /\ \A g \in Names : inbox'[g] = c => g = watch.name
        <5>1. /\ delivery[d] = "new" /\ inbox'[f] = d
              /\ \A g \in Names : g # f => inbox'[g] = inbox[g]
              /\ \A e \in Contents : e # d => delivery'[e] = delivery[e]
          BY <1>0, <4>1, OccupyEffect
        <5> QED
          BY <3>2, <5>1
      <4>2. CASE ~ \E d \in Contents, f \in Names : OpenFile(d, f) \/ MoveIn(d, f)
        <5>1. /\ \A f \in Names : inbox'[f] \in {inbox[f], None}
              /\ delivery[c] # "writing" => delivery'[c] = delivery[c]
              /\ delivery[c] = "writing" => delivery'[c] \in {"writing", "sent"}
          BY <1>0, <4>2, OthersEffect
        <5> QED
          BY <3>2, <5>1
      <4> QED
        BY <4>1, <4>2
    <3> QED
      BY <1>0, <1>1, <2>1, <3>1, <3>3 DEF WatchOK, CopiedOK, Copied, Busy
  <2>3. CASE ~Copied
    BY <1>0, <1>1, <2>3 DEF WatchOK, CopiedOK, Copied, Busy
  <2> QED
    BY <2>2, <2>3
<1>2. CASE watch'.pc \in {"idle", "scan"}
  BY <1>2 DEF WatchOK, CopiedOK, Copied, Busy
<1>3. ASSUME NEW f \in Names, Take(f)
      PROVE  WatchOK'
  <2>1. watch'.pc = "copy" /\ watch'.name = f
    BY <1>0, <1>3, TakeWatch
  <2> QED
    BY <2>1 DEF WatchOK, CopiedOK, Copied, Busy
<1>4. CASE Copy
  <2> DEFINE c == inbox[watch.name]
             b == FileBytes(watch.name)
  <2>1. /\ watch.name \in Names /\ c \in Contents /\ b \in Bytes
        /\ watch'.name = watch.name /\ watch'.bytes = b
        /\ watch'.pc = IF Duplicate(b) THEN "remove" ELSE "add"
        /\ accepted' = IF Duplicate(b) THEN accepted \cup {b} ELSE accepted
        /\ gone' = IF Duplicate(b) THEN gone \ {b} ELSE gone
        /\ UNCHANGED <<inbox, client, stuck, store>>
    BY <1>4, CopyWatch
  <2>2. b[1] = c
    BY DEF FileBytes
  <2>3. delivery[c] # "new" /\ \A f \in Names : inbox[f] = c => f = watch.name
    BY <1>0, <2>1 DEF DeliveryOK
  <2>4. CASE Duplicate(b)
    <3>1. watch'.pc = "remove" /\ b \in accepted'
      BY <2>1, <2>4
    <3> QED
      BY <2>1, <2>2, <2>3, <3>1 DEF WatchOK, CopiedOK, Copied, Busy, client
  <2>5. CASE ~Duplicate(b)
    <3>1. watch'.pc = "add" /\ accepted' = accepted /\ gone' = gone
      BY <2>1, <2>5
    <3>2. b \in accepted => b[1] \in stuck /\ b \in gone
      BY <1>4, <2>1, <2>2, <2>5 DEF Inv, AcceptedOK, Copy
    <3> QED
      BY <2>1, <2>2, <2>3, <3>1, <3>2 DEF WatchOK, CopiedOK, Copied, Busy, client, store
  <2> QED
    BY <2>4, <2>5
<1>5. ASSUME NEW i \in Ids, Commit(i)
      PROVE  WatchOK'
  <2>1. /\ watch.name \in Names /\ watch'.pc = "remove"
        /\ watch'.name = watch.name /\ watch'.bytes = watch.bytes
        /\ watch.bytes \in accepted'
        /\ UNCHANGED <<inbox, client>> /\ watch.pc = "add"
    BY <1>5, CommitWatch DEF Commit
  <2> QED
    BY <1>0, <2>1 DEF WatchOK, CopiedOK, Copied, Busy, client
<1> QED
  BY <1>1, <1>2, <1>3, <1>4, <1>5, WatchCases

\* Once a delivery has begun it is never new again, and its file enters no
\* name a second time.
LEMMA BegunStays ==
    ASSUME Inv, [Next]_vars, NEW c \in Contents, delivery[c] # "new"
    PROVE  delivery'[c] # "new" /\ \A f \in Names : inbox'[f] = c => inbox[f] = c
<1>0. TypeOK
  BY DEF Inv
<1>1. ASSUME NEW d \in Contents, NEW f \in Names, OpenFile(d, f) \/ MoveIn(d, f)
      PROVE  delivery'[c] # "new" /\ \A g \in Names : inbox'[g] = c => inbox[g] = c
  <2>1. /\ delivery[d] = "new" /\ inbox'[f] = d
        /\ \A g \in Names : g # f => inbox'[g] = inbox[g]
        /\ \A e \in Contents : e # d => delivery'[e] = delivery[e]
    BY <1>0, <1>1, OccupyEffect
  <2> QED
    BY <2>1
<1>2. CASE ~ \E d \in Contents, f \in Names : OpenFile(d, f) \/ MoveIn(d, f)
  <2>1. /\ \A f \in Names : inbox'[f] \in {inbox[f], None}
        /\ delivery[c] # "writing" => delivery'[c] = delivery[c]
        /\ delivery[c] = "writing" => delivery'[c] \in {"writing", "sent"}
    BY <1>0, <1>2, OthersEffect
  <2> QED
    BY <2>1, NoneAssumption
<1> QED
  BY <1>1, <1>2

\* The store loses bytes only by a delete of the last archive of them, and
\* that is forgotten only when they are in the store again.
LEMMA StoredStays ==
    ASSUME Inv, [Next]_vars, NEW b \in Bytes, Duplicate(b) \/ b \in gone
    PROVE  (Duplicate(b) \/ b \in gone)'
<1>0. stored \in [Ids -> Maybe(Bytes)] /\ b # None
  BY Typing, NoneAssumption DEF Inv, Bytes
<1>1. CASE Copy
  <2>1. /\ stored' = stored
        /\ gone' = IF Duplicate(FileBytes(watch.name)) THEN gone \ {FileBytes(watch.name)} ELSE gone
    BY <1>1, CopyWatch DEF store
  <2> QED
    BY <2>1 DEF Duplicate
<1>2. ASSUME NEW j \in Ids, NEW x, C!Add(j, x), gone \subseteq gone' \cup {x}
      PROVE  (Duplicate(b) \/ b \in gone)'
  <2>1. stored[j] = None /\ stored' = [stored EXCEPT ![j] = x]
    BY <1>2 DEF C!Add
  <2>2. stored'[j] = x /\ \A i \in Ids : stored[i] = b => stored'[i] = b
    BY <1>0, <2>1
  <2> QED
    BY <1>2, <2>2 DEF Duplicate
<1>3. ASSUME NEW j \in Ids, DeleteArchive(j)
      PROVE  (Duplicate(b) \/ b \in gone)'
  <2>1. /\ stored' = [stored EXCEPT ![j] = None]
        /\ gone' = gone \cup ({stored[j]} \ {stored[k] : k \in Ids \ {j}})
    BY <1>3 DEF DeleteArchive, C!Remove
  <2>2. \A k \in Ids \ {j} : stored'[k] = stored[k]
    BY <1>0, <2>1
  <2>3. CASE \E k \in Ids \ {j} : stored[k] = b
    BY <2>2, <2>3 DEF Duplicate
  <2>4. CASE ~ \E k \in Ids \ {j} : stored[k] = b
    <3>1. b \in gone \/ stored[j] = b
      BY <2>4 DEF Duplicate
    <3> QED
      BY <2>1, <2>4, <3>1
  <2> QED
    BY <2>3, <2>4
<1>4. ASSUME NEW i \in Ids, Commit(i)
      PROVE  C!Add(i, watch.bytes) /\ gone \subseteq gone' \cup {watch.bytes}
  BY <1>4, CommitWatch DEF Commit
<1>5. ASSUME NEW i \in Ids, NEW c \in Others, HttpUpload(i, c)
      PROVE  C!Add(i, <<c, Size[c]>>) /\ gone' = gone
  BY <1>5 DEF HttpUpload, taken
<1>6. CASE UNCHANGED <<stored, gone>>
  BY <1>6 DEF Duplicate
<1>7. CASE \E i \in Ids : Commit(i)
  BY <1>2, <1>4, <1>7
<1>8. CASE \E i \in Ids, c \in Others : HttpUpload(i, c)
  BY <1>2, <1>5, <1>8
<1> QED
  BY <1>1, <1>3, <1>6, <1>7, <1>8 DEF Next, WatchStep, vars, store, taken, client, Write,
     Close, OpenFile, MoveIn, Withdraw, Poll, FailIngest, RemoveFile, FailRemove, EndScan,
     Remember, Skip, Take, Crash

\* The file of accepted bytes goes, or is known to be stuck.
LEMMA AcceptedStep ==
    ASSUME Inv, [Next]_vars, NEW b \in accepted'
    PROVE  AcceptedOK(b)'
<1> USE NoneAssumption
<1>0. /\ TypeOK /\ WatchOK /\ watch \in WatchState /\ inbox \in [Names -> Maybe(Contents)]
      /\ stored \in [Ids -> Maybe(Bytes)] /\ stuck \subseteq stuck' /\ accepted \subseteq Bytes
  BY Typing, HistoryGrows DEF Inv
<1>1. CASE b \in accepted
  <2>1. PICK c \in Contents, n \in Nat : b = <<c, n>>
    BY <1>0, <1>1 DEF Bytes
  <2>2. b[1] = c /\ AcceptedOK(b) /\ b \in Bytes
    BY <1>0, <1>1, <2>1 DEF Inv
  <2>3. delivery'[c] # "new" /\ \A f \in Names : inbox'[f] = c => inbox[f] = c
    BY <2>2, BegunStays DEF AcceptedOK
  <2>4. (Duplicate(b) \/ b \in gone)'
    BY <2>2, StoredStays DEF AcceptedOK
  <2>5. CASE c \in stuck \/ \A f \in Names : inbox[f] # c
    BY <1>0, <2>2, <2>3, <2>4, <2>5 DEF AcceptedOK
  <2>6. CASE watch.pc = "remove" /\ watch.bytes[1] = c
    <3>1. CASE watch' = watch
      BY <2>2, <2>3, <2>4, <2>6, <3>1 DEF AcceptedOK
    <3>2. CASE RemoveFile
      <4>1. \A f \in Names : inbox[f] = c => f = watch.name
        BY <1>0, <2>6 DEF WatchOK, CopiedOK, Copied
      <4>2. \A f \in Names : inbox'[f] # c
        BY <1>0, <2>3, <3>2, <4>1 DEF RemoveFile
      <4> QED
        BY <2>2, <2>3, <2>4, <4>2 DEF AcceptedOK
    <3>3. CASE FailRemove \/ Crash
      <4>1. c \in stuck'
        BY <2>6, <3>3 DEF FailRemove, Crash
      <4> QED
        BY <2>2, <2>3, <2>4, <4>1 DEF AcceptedOK
    <3>4. WatchStep => RemoveFile \/ FailRemove
      BY <2>6 DEF WatchStep, Poll, Copy, FailIngest, EndScan, Remember, Skip, Take, Commit
    <3> QED
      BY <3>1, <3>2, <3>3, <3>4, WatchUnmoved
  <2> QED
    BY <2>2, <2>5, <2>6 DEF AcceptedOK
<1>2. CASE b \notin accepted
  <2>1. CASE Copy
    <3>1. /\ watch.name \in Names /\ inbox[watch.name] \in Contents
          /\ watch'.bytes = FileBytes(watch.name)
          /\ watch'.pc = IF Duplicate(FileBytes(watch.name)) THEN "remove" ELSE "add"
          /\ accepted' = IF Duplicate(FileBytes(watch.name))
                           THEN accepted \cup {FileBytes(watch.name)} ELSE accepted
          /\ UNCHANGED <<client, store>>
      BY <2>1, CopyWatch
    <3>2. b = FileBytes(watch.name) /\ Duplicate(b) /\ watch'.pc = "remove"
      BY <1>2, <3>1
    <3>3. b[1] = inbox[watch.name]
      BY <3>2 DEF FileBytes
    <3>4. delivery[b[1]] # "new"
      BY <3>1, <3>3 DEF Inv, DeliveryOK
    <3> QED
      BY <3>1, <3>2, <3>4 DEF AcceptedOK, Duplicate, client, store
  <2>2. ASSUME NEW i \in Ids, Commit(i)
        PROVE  AcceptedOK(b)'
    <3>1. /\ watch'.pc = "remove" /\ watch'.bytes = watch.bytes
          /\ b = watch.bytes
          /\ stored' = [stored EXCEPT ![i] = watch.bytes]
          /\ UNCHANGED client
      BY <1>2, <2>2, CommitWatch
    <3>2. delivery[b[1]] # "new"
      BY <1>0, <2>2, <3>1 DEF WatchOK, CopiedOK, Copied, Commit
    <3>3. stored'[i] = b
      BY <1>0, <3>1
    <3> QED
      BY <3>1, <3>2, <3>3 DEF AcceptedOK, Duplicate, client
  <2> QED
    BY <1>2, <2>1, <2>2 DEF Next, WatchStep, vars, taken, client, Write, Close, OpenFile, MoveIn,
       Withdraw, Poll, FailIngest, RemoveFile, FailRemove, EndScan, Remember, Skip, Take,
       DeleteArchive, HttpUpload, Crash
<1> QED
  BY <1>1, <1>2

\* A delivered file leaves its name by a removal of the watcher that has
\* accepted all of it, or by a step of a client that exposes it.
LEMMA KeptStep ==
    ASSUME Inv, [Next]_vars, NEW c \in Contents
    PROVE  KeptOK(c)'
<1> USE NoneAssumption
<1>0. /\ TypeOK /\ KeptOK(c) /\ TakenOK(c) /\ WatchOK /\ inbox \in [Names -> Maybe(Contents)]
      /\ accepted \subseteq accepted' /\ exposed \subseteq exposed'
  BY Typing, HistoryGrows DEF Inv
<1>1. CASE delivery[c] = "new"
  <2>1. ASSUME NEW d \in Contents, NEW f \in Names, OpenFile(d, f) \/ MoveIn(d, f)
        PROVE  KeptOK(c)'
    <3>1. inbox'[f] = d /\ (c # d => delivery'[c] = delivery[c])
      BY <1>0, <2>1, OccupyEffect
    <3> QED
      BY <1>1, <3>1 DEF KeptOK
  <2>2. CASE ~ \E d \in Contents, f \in Names : OpenFile(d, f) \/ MoveIn(d, f)
    <3>1. delivery'[c] = "new"
      BY <1>0, <1>1, <2>2, OthersEffect
    <3> QED
      BY <3>1 DEF KeptOK
  <2> QED
    BY <2>1, <2>2
<1>2. CASE <<c, Size[c]>> \in accepted \/ c \in exposed
  BY <1>0, <1>2 DEF KeptOK
<1>3. ASSUME NEW f \in Names, inbox[f] = c
      PROVE  KeptOK(c)'
  <2>1. CASE inbox'[f] = c
    BY <2>1 DEF KeptOK
  <2>2. ASSUME NEW d \in Contents, NEW g \in Names, OpenFile(d, g) \/ MoveIn(d, g)
        PROVE  inbox'[f] = c \/ c \in exposed'
    <3>1. /\ \A h \in Names : h # g => inbox'[h] = inbox[h]
          /\ inbox[g] # None => inbox[g] \in exposed'
      BY <1>0, <2>2, OccupyEffect
    <3> QED
      BY <1>3, <3>1
  <2>3. ASSUME NEW g \in Names, Withdraw(g)
        PROVE  inbox'[f] = c \/ c \in exposed'
    BY <1>0, <1>3, <2>3 DEF Withdraw
  <2>4. CASE RemoveFile
    <3>1. CASE f = watch.name
      <4>1. c \in exposed \/ <<c, Size[c]>> \in accepted
        BY <1>0, <1>3, <2>4, <3>1 DEF RemoveFile, TakenOK, WatchOK, Busy, Copied
      <4> QED
        BY <1>0, <4>1 DEF KeptOK
    <3>2. CASE f # watch.name
      <4>1. inbox'[f] = c
        BY <1>0, <1>3, <2>4, <3>2 DEF RemoveFile
      <4> QED
        BY <4>1 DEF KeptOK
    <3> QED
      BY <3>1, <3>2
  <2>5. CASE UNCHANGED inbox
    BY <1>3, <2>1, <2>5
  <2>6. c \in exposed' => KeptOK(c)'
    BY DEF KeptOK
  <2> QED
    BY <2>1, <2>2, <2>3, <2>4, <2>5, <2>6 DEF Next, WatchStep, vars, Write, Close, Poll, Copy,
       FailIngest, FailRemove, EndScan, Remember, Skip, Take, Commit, DeleteArchive,
       HttpUpload, Crash
<1> QED
  BY <1>0, <1>1, <1>2, <1>3 DEF KeptOK

\* Every step keeps directory, watcher and store well typed; what is copied
\* and stored are the bytes of a file.
LEMMA TypeStep == Inv /\ [Next]_vars => TypeOK'
<1> SUFFICES ASSUME Inv, [Next]_vars
             PROVE  TypeOK'
  OBVIOUS
<1>0. /\ TypeOK /\ WatchOK
      /\ inbox \in [Names -> Maybe(Contents)] /\ written \in [Contents -> Nat]
      /\ delivery \in [Contents -> {"new", "writing", "sent"}]
      /\ seen \in [Names -> Maybe(Nat)] /\ watch \in WatchState
      /\ stored \in [Ids -> Maybe(Bytes)] /\ retired \subseteq Ids
      /\ accepted \subseteq Bytes /\ gone \subseteq Bytes
      /\ active \subseteq Contents /\ exposed \subseteq Contents /\ stuck \subseteq Contents
      /\ crashes \in 0..MaxCrashes
  BY Typing DEF Inv
<1>1. inbox' \in [Names -> Maybe(Contents)] /\ written' \in [Contents -> Nat]
        /\ delivery' \in [Contents -> {"new", "writing", "sent"}]
  <2>1. ASSUME NEW d \in Contents, NEW f \in Names, OpenFile(d, f) \/ MoveIn(d, f)
        PROVE  inbox' \in [Names -> Maybe(Contents)] /\ written' \in [Contents -> Nat]
                 /\ delivery' \in [Contents -> {"new", "writing", "sent"}]
    BY <1>0, <2>1, OccupyEffect
  <2> QED
    BY <1>0, <2>1, OthersEffect
<1>2. watch' \in WatchState
  <2>1. CASE \E i \in Ids : Commit(i)
    BY <2>1, CommitWatch
  <2>2. CASE \E f \in Names : Remember(f) \/ Skip(f)
    BY <1>0, <2>2, LookWatch
  <2>3. CASE \E f \in Names : Take(f)
    BY <1>0, <2>3, TakeWatch
  <2>4. CASE Poll \/ EndScan \/ Crash \/ FailIngest \/ RemoveFile \/ FailRemove
    BY <1>0, <2>4, ScanWatch
  <2>5. CASE Copy
    BY <2>5, CopyWatch
  <2> QED
    BY <1>0, <2>1, <2>2, <2>3, <2>4, <2>5, WatchUnmoved DEF WatchStep
<1>3. seen' \in [Names -> Maybe(Nat)]
  <2>1. ASSUME NEW f \in Names, Remember(f)
        PROVE  seen' \in [Names -> Maybe(Nat)]
    <3>1. written[inbox[f]] \in Nat
      BY <1>0, <2>1 DEF Remember, Maybe
    <3> QED
      BY <1>0, <2>1, <3>1 DEF Remember, Maybe
  <2>2. CASE RemoveFile
    BY <1>0, <2>2 DEF RemoveFile, Maybe
  <2>3. CASE EndScan
    BY <1>0, <2>3 DEF EndScan, Maybe
  <2>4. CASE Crash
    BY <2>4 DEF Crash, SeenNothing, Maybe
  <2>5. CASE UNCHANGED seen
    BY <1>0, <2>5
  <2> QED
    BY <2>1, <2>2, <2>3, <2>4, <2>5 DEF Next, WatchStep, vars, Write, Close, OpenFile, MoveIn,
       Withdraw, Poll, Copy, FailIngest, FailRemove, Skip, Take, Commit, DeleteArchive,
       HttpUpload
<1>4. stored' \in [Ids -> Maybe(Bytes)] /\ retired' \subseteq Ids
  <2>1. ASSUME NEW i \in Ids, NEW b \in Bytes, C!Add(i, b)
        PROVE  stored' \in [Ids -> Maybe(Bytes)] /\ retired' \subseteq Ids
    BY <1>0, <2>1 DEF C!Add, Maybe
  <2>2. ASSUME NEW i \in Ids, DeleteArchive(i)
        PROVE  stored' \in [Ids -> Maybe(Bytes)] /\ retired' \subseteq Ids
    BY <1>0, <2>2 DEF DeleteArchive, C!Remove, Maybe
  <2>3. ASSUME NEW i \in Ids, Commit(i)
        PROVE  C!Add(i, watch.bytes) /\ watch.bytes \in Bytes
    BY <2>3, CommitWatch DEF Commit
  <2>4. ASSUME NEW i \in Ids, NEW c \in Others, HttpUpload(i, c)
        PROVE  C!Add(i, <<c, Size[c]>>) /\ <<c, Size[c]>> \in Bytes
    BY <2>4, OthersAssumption, SizeAssumption DEF HttpUpload, Bytes
  <2>5. CASE UNCHANGED store
    BY <1>0, <2>5 DEF store
  <2>6. CASE \E i \in Ids : Commit(i)
    BY <2>1, <2>3, <2>6
  <2>7. CASE \E i \in Ids, c \in Others : HttpUpload(i, c)
    BY <2>1, <2>4, <2>7
  <2> QED
    BY <2>2, <2>5, <2>6, <2>7 DEF Next, WatchStep, vars, Write, Close, OpenFile, MoveIn,
       Withdraw, Poll, Copy, FailIngest, RemoveFile, FailRemove, EndScan, Remember, Skip,
       Take, Crash
<1>5. accepted' \subseteq Bytes /\ gone' \subseteq Bytes
  <2>1. CASE \E i \in Ids : Commit(i)
    BY <1>0, <2>1, CommitWatch
  <2>2. CASE Copy
    BY <1>0, <2>2, CopyWatch
  <2>3. CASE UNCHANGED taken
    BY <1>0, <2>3 DEF taken
  <2>4. ASSUME NEW i \in Ids, DeleteArchive(i)
        PROVE  accepted' \subseteq Bytes /\ gone' \subseteq Bytes
    <3>1. stored[i] \in Bytes
      BY <1>0, <2>4 DEF DeleteArchive, C!Remove, Maybe
    <3> QED
      BY <1>0, <2>4, <3>1 DEF DeleteArchive
  <2> QED
    BY <2>1, <2>2, <2>3, <2>4 DEF Next, WatchStep, vars, Write, Close, OpenFile, MoveIn,
       Withdraw, Poll, FailIngest, RemoveFile, FailRemove, EndScan, Remember, Skip,
       Take, HttpUpload, Crash
<1>6. active' \subseteq Contents
  BY <1>0 DEF Next, WatchStep, vars, client, Write, Close, OpenFile, MoveIn,
     Withdraw, Poll, Copy, FailIngest, RemoveFile, FailRemove, EndScan, Remember, Skip,
     Take, Commit, DeleteArchive, HttpUpload, Crash
<1>7. exposed' \subseteq Contents
  <2>1. ASSUME NEW d \in Contents, NEW f \in Names, OpenFile(d, f) \/ MoveIn(d, f)
        PROVE  exposed' \subseteq Contents
    BY <1>0, <2>1, OccupyEffect
  <2>2. ASSUME NEW f \in Names, Withdraw(f) \/ Take(f)
        PROVE  exposed' \subseteq Contents
    BY <1>0, <2>2 DEF Withdraw, Take, Maybe
  <2>3. CASE UNCHANGED exposed
    BY <1>0, <2>3
  <2> QED
    BY <2>1, <2>2, <2>3 DEF Next, WatchStep, vars, Write, Close, Poll, Copy,
       FailIngest, RemoveFile, FailRemove, EndScan, Remember, Skip,
       Commit, DeleteArchive, HttpUpload, Crash
<1>8. stuck' \subseteq Contents
  <2>1. CASE FailRemove \/ Crash
    <3>1. watch.pc = "remove" => watch.bytes[1] \in Contents
      BY <1>0 DEF WatchOK, CopiedOK, Copied, Bytes
    <3> QED
      BY <1>0, <2>1, <3>1 DEF FailRemove, Crash
  <2>2. CASE UNCHANGED stuck
    BY <1>0, <2>2
  <2> QED
    BY <2>1, <2>2 DEF Next, WatchStep, vars, Write, Close, OpenFile, MoveIn,
       Withdraw, Poll, Copy, FailIngest, RemoveFile, EndScan, Remember, Skip,
       Take, Commit, DeleteArchive, HttpUpload
<1>9. crashes' \in 0..MaxCrashes
  <2>1. CASE Crash
    BY <1>0, <2>1, CrashAssumption DEF Crash
  <2>2. CASE UNCHANGED crashes
    BY <1>0, <2>2
  <2> QED
    BY <2>1, <2>2 DEF Next, WatchStep, vars, Write, Close, OpenFile, MoveIn,
       Withdraw, Poll, Copy, FailIngest, RemoveFile, FailRemove, EndScan, Remember, Skip,
       Take, Commit, DeleteArchive, HttpUpload
<1> QED
  BY <1>1, <1>2, <1>3, <1>4, <1>5, <1>6, <1>7, <1>8, <1>9, TypingBack

-----------------------------------------------------------------------------
(* Results *)

\* An empty inbox satisfies the invariant.
LEMMA InitInv == Init => Inv
<1> SUFFICES ASSUME Init
             PROVE  Inv
  OBVIOUS
<1>1. TypeOK
  BY CrashAssumption DEF Init, TypeOK, C!Init, SeenNothing, WatchIdle, WatchPC, Maybe
<1>2. \A c \in Contents : DeliveryOK(c) /\ TakenOK(c) /\ KeptOK(c)
  BY NoneAssumption DEF Init, DeliveryOK, TakenOK, KeptOK, Busy, WatchIdle
<1>3. \A f \in Names, c \in Contents : SeenOK(f, c)
  BY DEF Init, SeenOK, SeenNothing
<1>4. WatchOK
  BY DEF Init, WatchOK, CopiedOK, Copied, Busy, WatchIdle
<1> QED
  BY <1>1, <1>2, <1>3, <1>4 DEF Init, Inv

\* The invariant is inductive.
LEMMA InvStep == Inv /\ [Next]_vars => Inv'
<1> SUFFICES ASSUME Inv, [Next]_vars
             PROVE  Inv'
  OBVIOUS
<1>1. \A c \in Contents : DeliveryOK(c)' /\ TakenOK(c)' /\ KeptOK(c)'
  BY DeliveryStep, TakenStep, KeptStep
<1>2. \A f \in Names, c \in Contents : SeenOK(f, c)'
  BY SeenStep
<1>3. \A b \in accepted' : AcceptedOK(b)'
  BY AcceptedStep
<1> QED
  BY <1>1, <1>2, <1>3, TypeStep, WatchOKStep DEF Inv

\* The inductive invariant holds in every reachable state of the inbox and
\* its watcher.
THEOREM InvCorrect == Spec => []Inv
  BY InitInv, InvStep, PTL DEF Spec

\* Directory, remembered sizes, watcher and store stay well typed.
THEOREM TypeCorrect == Spec => []TypeOK
<1>1. Inv => TypeOK
  BY DEF Inv
<1> QED
  BY <1>1, InvCorrect, PTL

\* processInboxEntry removes a file only after ingestWithSource has stored
\* all of it, or found all of it stored: whatever clients write, rename and
\* withdraw between its steps, and wherever it crashes, nothing that was sent
\* is lost, save what its own client exposed.
THEOREM SentIsKeptCorrect == Spec => []SentIsKept
<1>1. Inv => SentIsKept
  BY DEF Inv, KeptOK, SentIsKept
<1> QED
  BY <1>1, InvCorrect, PTL

\* A file that os.Remove left behind, or a crash, is not stored again at a
\* later poll while any archive of these bytes has stayed in the store:
\* FindExistingSHA256 sees it.
THEOREM StoredOnceCorrect == Spec => StoredOnce
<1>1. ASSUME Inv, [Next]_vars, watch.pc = "add", watch.bytes \in accepted
      PROVE  watch.bytes[1] \in stuck /\ watch.bytes \in gone
  BY <1>1 DEF Inv, WatchOK
<1>2. Inv /\ [Next]_vars =>
        [watch.pc = "add" /\ watch'.pc = "remove" /\ watch.bytes \in accepted =>
           watch.bytes[1] \in stuck /\ watch.bytes \in gone]_vars
  BY <1>1
<1> QED
  BY <1>2, InvCorrect, PTL DEF Spec, StoredOnce
=============================================================================
