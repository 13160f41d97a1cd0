------------------------------- MODULE Retain -------------------------------
(***************************************************************************)
(* retain.Pick, the retention policy as a pure function: which archives of *)
(* a list violate keep_last or max_age_days.  The rank of an archive is    *)
(* its index, so the list must be newest first.                            *)
(***************************************************************************)
EXTENDS Integers, Sequences, FiniteSets

DefaultKeepLast == 20
DefaultMaxAge == 90

Limit(n, default) == IF n < 0 THEN default ELSE n

\* Mutant: the newest archive beyond the limit survives.
BeyondRank_OffByOne(k, keepLast) == keepLast > 0 /\ k > keepLast + 1

BeyondRank(k, keepLast) == keepLast > 0 /\ k > keepLast

\* at = 0 is Go's zero time: a date that could not be parsed never expires.
TooOld(at, maxAge, t) == maxAge > 0 /\ at # 0 /\ at < t - maxAge

\* items: archive ids, newest first; born: their creation times.
Pick(items, born, keepLast, maxAge, t) ==
    LET kl == Limit(keepLast, DefaultKeepLast)
        ma == Limit(maxAge, DefaultMaxAge)
    IN  {items[k] : k \in {n \in DOMAIN items :
            BeyondRank(n, kl) \/ TooOld(born[items[n]], ma, t)}}
=============================================================================
