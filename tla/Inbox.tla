------------------------------- MODULE Inbox --------------------------------
(***************************************************************************)
(* The SFTP inbox watcher.  Clients write files into a directory; the      *)
(* watcher polls it and takes a file whose size is the one it saw at the   *)
(* previous poll: it copies the file into the archive store (or finds it   *)
(* is already there) and removes it.  Watcher, clients and file system     *)
(* share nothing but the directory.                                        *)
(*                                                                         *)
(* The store (topology vps) is the Catalog that LocalCatalog implements.   *)
(* The bytes of a file are the content a client delivers and how much of   *)
(* it has been written; each content is delivered once, names are reused.  *)
(* The copy reads the file at one moment.  Directories, dotfiles and       *)
(* other names are skipped by isInboxTar and are left out, as is a         *)
(* directory that cannot be read (the poll does nothing).                  *)
(***************************************************************************)
EXTENDS Naturals

CONSTANTS
    Names,       \* names of *.tar.gz files in the inbox
    Contents,    \* what clients deliver, each once
    Size,        \* the size of each content
    Others,      \* the contents that other uploads store, too
    MaxUpload,   \* MaxUploadBytes
    Ids,         \* archive ids
    None,        \* no file, no size, no archive
    MaxCrashes   \* bound on the number of server crashes

ASSUME SizeAssumption == Size \in [Contents -> Nat \ {0}] /\ MaxUpload \in Nat
ASSUME OthersAssumption == Others \subseteq Contents
ASSUME NoneAssumption ==
    None \notin Contents \cup Nat \cup Names \cup Ids \cup (Contents \X Nat)
ASSUME CrashAssumption == MaxCrashes \in Nat

VARIABLES
    inbox,       \* the directory: the content being delivered under each name
    written,     \* how much of a content has been written
    delivery,    \* clients: "new", "writing", "sent"
    seen,        \* WatchLoop's map: the size at the last poll
    watch,       \* WatchOnce
    stored,      \* the archive store, see Catalog
    retired,
    accepted,    \* history: bytes the watcher stored or found stored
    gone,        \* history: bytes that left the store since they were accepted
    active,      \* history: contents written to since their last poll
    exposed,     \* history: contents a client exposed to a loss, see SentIsKept
    stuck,       \* history: contents that could not be removed after the copy
    crashes      \* number of crashes so far

client == <<written, delivery, active>>
store == <<stored, retired>>
taken == <<accepted, gone>>
vars == <<inbox, client, seen, watch, store, taken, exposed, stuck, crashes>>

Maybe(S) == S \cup {None}
Bytes == Contents \X Nat
WatchPC == {"idle", "scan", "copy", "add", "remove"}

\* Whom a delete is confirmed to does not matter here.
C == INSTANCE Catalog WITH Contents <- Bytes, Deletes <- {},
                           confirmed <- [i \in Ids |-> {}]

TypeOK ==
    /\ inbox \in [Names -> Maybe(Contents)]
    /\ written \in [Contents -> Nat]
    /\ delivery \in [Contents -> {"new", "writing", "sent"}]
    /\ seen \in [Names -> Maybe(Nat)]
    /\ watch \in [pc : WatchPC, todo : SUBSET Names, live : SUBSET Names,
                  name : Maybe(Names), bytes : Maybe(Bytes)]
    /\ stored \in [Ids -> Maybe(Bytes)]
    /\ retired \subseteq Ids
    /\ accepted \subseteq Bytes /\ gone \subseteq Bytes
    /\ {active, exposed, stuck} \subseteq SUBSET Contents
    /\ crashes \in 0..MaxCrashes

WatchIdle == [pc |-> "idle", todo |-> {}, live |-> {}, name |-> None,
              bytes |-> None]
SeenNothing == [f \in Names |-> None]

Init ==
    /\ inbox = [f \in Names |-> None]
    /\ written = [c \in Contents |-> 0]
    /\ delivery = [c \in Contents |-> "new"]
    /\ seen = SeenNothing
    /\ watch = WatchIdle
    /\ C!Init
    /\ accepted = {} /\ gone = {} /\ active = {} /\ exposed = {} /\ stuck = {}
    /\ crashes = 0

-----------------------------------------------------------------------------
(* Clients *)

\* The watcher remembers a size for the name, or is working on it.
Known(f) == seen[f] # None \/ watch.name = f

\* A client puts c under f, over whatever is there.
Occupy(c, f) ==
    /\ delivery[c] = "new"
    /\ inbox' = [inbox EXCEPT ![f] = c]
    /\ exposed' = exposed \cup ({inbox[f]} \ {None}) \cup {d \in {c} : Known(f)}

OpenFile(c, f) ==
    /\ Occupy(c, f)
    /\ delivery' = [delivery EXCEPT ![c] = "writing"]
    /\ UNCHANGED <<written, active, seen, watch, store, taken, stuck, crashes>>

\* The client wrote elsewhere and renames the complete file in.
MoveIn(c, f) ==
    /\ Occupy(c, f)
    /\ delivery' = [delivery EXCEPT ![c] = "sent"]
    /\ written' = [written EXCEPT ![c] = Size[c]]
    /\ UNCHANGED <<active, seen, watch, store, taken, stuck, crashes>>

\* Writing goes on whether or not the name still leads to the file.
Write(c) ==
    /\ delivery[c] = "writing"
    /\ written[c] < Size[c]
    /\ written' = [written EXCEPT ![c] = @ + 1]
    /\ active' = active \cup {c}
    /\ UNCHANGED <<inbox, delivery, seen, watch, store, taken, exposed, stuck, crashes>>

Close(c) ==
    /\ delivery[c] = "writing"
    /\ written[c] = Size[c]
    /\ delivery' = [delivery EXCEPT ![c] = "sent"]
    /\ UNCHANGED <<inbox, written, active, seen, watch, store, taken, exposed,
                   stuck, crashes>>

Withdraw(f) ==
    /\ inbox[f] # None
    /\ inbox' = [inbox EXCEPT ![f] = None]
    /\ exposed' = exposed \cup {inbox[f]}
    /\ UNCHANGED <<client, seen, watch, store, taken, stuck, crashes>>

-----------------------------------------------------------------------------
(* The watcher *)

\* ReadDir
Poll ==
    /\ watch.pc = "idle"
    /\ LET names == {f \in Names : inbox[f] # None}
       IN  watch' = [WatchIdle EXCEPT !.pc = "scan", !.todo = names, !.live = names]
    /\ UNCHANGED <<inbox, client, seen, store, taken, exposed, stuck, crashes>>

\* Mutant: a file is taken at first sight.
Stable_FirstSight(f) == written[inbox[f]] > 0

\* The size is the one of the last poll, and positive.
Stable(f) == seen[f] = written[inbox[f]] /\ written[inbox[f]] > 0

\* processInboxEntry sees a new size.
Remember(f) ==
    /\ watch.pc = "scan" /\ f \in watch.todo
    /\ inbox[f] # None
    /\ ~Stable(f)
    /\ seen' = [seen EXCEPT ![f] = written[inbox[f]]]
    /\ watch' = [watch EXCEPT !.todo = @ \ {f}]
    /\ active' = active \ {inbox[f]}
    /\ UNCHANGED <<inbox, written, delivery, store, taken, exposed, stuck, crashes>>

\* Stat fails, the file is too large, or it cannot be opened: it stays.
Skip(f) ==
    /\ watch.pc = "scan" /\ f \in watch.todo
    /\ watch' = [watch EXCEPT !.todo = @ \ {f}]
    /\ UNCHANGED <<inbox, client, seen, store, taken, exposed, stuck, crashes>>

\* processInboxEntry goes on to ingestSFTPPath.
Take(f) ==
    /\ watch.pc = "scan" /\ f \in watch.todo
    /\ inbox[f] # None
    /\ Stable(f) /\ written[inbox[f]] <= MaxUpload
    /\ watch' = [watch EXCEPT !.pc = "copy", !.todo = @ \ {f}, !.name = f]
    /\ exposed' = exposed \cup
          {c \in Contents : c = inbox[f] /\ delivery[c] = "writing" /\ c \notin active}
    /\ active' = active \ {inbox[f]}
    /\ UNCHANGED <<inbox, written, delivery, seen, store, taken, stuck, crashes>>

Leave == [watch EXCEPT !.pc = "scan", !.name = None, !.bytes = None]

\* ingestWithSource fails at any of its steps: the file and its size stay.
FailIngest ==
    /\ watch.pc \in {"copy", "add"}
    /\ watch' = Leave
    /\ UNCHANGED <<inbox, client, seen, store, taken, exposed, stuck, crashes>>

FileBytes(f) == <<inbox[f], written[inbox[f]]>>

Duplicate(b) == \E i \in Ids : stored[i] = b

\* The watcher has the store's word for b, and may remove the file.
Accept(b) ==
    /\ accepted' = accepted \cup {b}
    /\ gone' = gone \ {b}

\* Mutant: the duplicate check is left out.
Copy_Unchecked ==
    /\ watch.pc = "copy"
    /\ inbox[watch.name] # None
    /\ watch' = [watch EXCEPT !.pc = "add", !.bytes = FileBytes(watch.name)]
    /\ UNCHANGED <<inbox, client, seen, store, taken, exposed, stuck, crashes>>

\* Open, read to the end into the staging area, FindExistingSHA256. A
\* duplicate is removed like a stored file.
Copy ==
    /\ watch.pc = "copy"
    /\ inbox[watch.name] # None
    /\ LET b == FileBytes(watch.name)
       IN  /\ watch' = [watch EXCEPT !.pc = IF Duplicate(b) THEN "remove" ELSE "add",
                                     !.bytes = b]
           /\ IF Duplicate(b) THEN Accept(b) ELSE UNCHANGED taken
    /\ UNCHANGED <<inbox, client, seen, store, exposed, stuck, crashes>>

\* CommitLocal; the audit row that follows (a failed insert is only logged)
\* is the recordAudit of Pages.
Commit(i) ==
    /\ watch.pc = "add"
    /\ C!Add(i, watch.bytes)
    /\ watch' = [watch EXCEPT !.pc = "remove"]
    /\ Accept(watch.bytes)
    /\ UNCHANGED <<inbox, client, seen, exposed, stuck, crashes>>

\* os.Remove of the path, whatever it names by now; then delete(seen, path).
RemoveFile ==
    /\ watch.pc = "remove"
    /\ inbox[watch.name] # None
    /\ inbox' = [inbox EXCEPT ![watch.name] = None]
    /\ seen' = [seen EXCEPT ![watch.name] = None]
    /\ watch' = Leave
    /\ UNCHANGED <<client, store, taken, exposed, stuck, crashes>>

\* os.Remove fails, or the file is gone: the size stays in seen.
FailRemove ==
    /\ watch.pc = "remove"
    /\ watch' = Leave
    /\ stuck' = stuck \cup {watch.bytes[1]}
    /\ UNCHANGED <<inbox, client, seen, store, taken, exposed, crashes>>

\* Mutant: WatchLoop returns after one poll.
EndScan_Once ==
    /\ watch.pc = "scan" /\ watch.todo = {}
    /\ seen' = [f \in Names |-> IF f \in watch.live THEN seen[f] ELSE None]
    /\ watch' = [WatchIdle EXCEPT !.pc = "stopped"]
    /\ UNCHANGED <<inbox, client, store, taken, exposed, stuck, crashes>>

\* Mutant: live holds names and seen paths, so every size is forgotten.
EndScan_OtherKey ==
    /\ watch.pc = "scan" /\ watch.todo = {}
    /\ seen' = SeenNothing
    /\ watch' = WatchIdle
    /\ UNCHANGED <<inbox, client, store, taken, exposed, stuck, crashes>>

\* Sizes of files that were not there at ReadDir are forgotten.
EndScan ==
    /\ watch.pc = "scan" /\ watch.todo = {}
    /\ seen' = [f \in Names |-> IF f \in watch.live THEN seen[f] ELSE None]
    /\ watch' = WatchIdle
    /\ UNCHANGED <<inbox, client, store, taken, exposed, stuck, crashes>>

-----------------------------------------------------------------------------
(* Everybody else *)

\* Another upload stores a content that a client delivers too.
HttpUpload(i, c) ==
    /\ C!Add(i, <<c, Size[c]>>)
    /\ UNCHANGED <<inbox, client, seen, watch, taken, exposed, stuck, crashes>>

DeleteArchive(i) ==
    /\ C!Remove(i)
    /\ gone' = gone \cup ({stored[i]} \ {stored[j] : j \in Ids \ {i}})
    /\ UNCHANGED <<inbox, client, seen, watch, accepted, exposed, stuck, crashes>>

\* The process dies and is started again: seen is in memory only.
Crash ==
    /\ crashes < MaxCrashes
    /\ crashes' = crashes + 1
    /\ watch' = WatchIdle
    /\ seen' = SeenNothing
    /\ stuck' = IF watch.pc = "remove" THEN stuck \cup {watch.bytes[1]} ELSE stuck
    /\ UNCHANGED <<inbox, client, store, taken, exposed>>

WatchStep ==
    \/ Poll \/ Copy \/ FailIngest
    \/ RemoveFile \/ FailRemove \/ EndScan
    \/ \E f \in Names : Remember(f) \/ Skip(f) \/ Take(f)
    \/ \E i \in Ids : Commit(i)

Next ==
    \/ WatchStep
    \/ \E c \in Contents : Write(c) \/ Close(c) \/ \E f \in Names : OpenFile(c, f) \/ MoveIn(c, f)
    \/ \E f \in Names : Withdraw(f)
    \/ \E i \in Ids : DeleteArchive(i) \/ \E c \in Others : HttpUpload(i, c)
    \/ Crash

Spec == Init /\ [][Next]_vars

\* WatchLoop's ticker goes on, and no file is refused forever: looking at it,
\* copying, storing and removing it succeed if they are tried again and again.
FairSpec ==
    /\ Spec
    /\ WF_vars(WatchStep)
    /\ \A f \in Names : SF_vars(Remember(f)) /\ SF_vars(Take(f))
    /\ SF_vars(Copy) /\ SF_vars(\E i \in Ids : Commit(i))
    /\ SF_vars(RemoveFile)

-----------------------------------------------------------------------------
(* Properties *)

\* What a client sent is not lost: it is in the inbox, or all of it is in the
\* store, unless its client withdrew it, made a pause of a whole poll while
\* writing it, or put it under a name the watcher still had to do with.
SentIsKept ==
    \A c \in Contents : delivery[c] = "sent" =>
        \/ \E f \in Names : inbox[f] = c
        \/ <<c, Size[c]>> \in accepted
        \/ c \in exposed

\* A file that could not be removed, or whose removal a crash prevented, is
\* not stored a second time beside the first copy at a later poll; it comes
\* back only if, since the watcher last stored or found these very bytes, the
\* last archive of them was deleted. Deletes of other archives are no excuse.
StoredOnce ==
    [][watch.pc = "add" /\ watch'.pc = "remove" /\ watch.bytes \in accepted =>
          watch.bytes[1] \in stuck /\ watch.bytes \in gone]_vars

\* All ids are used up: a bound of the model, the code's ids are fresh.
Exhausted == \A i \in Ids : stored[i] # None \/ i \in retired

\* A complete file of an accepted size does not stay in the inbox, whatever
\* failed at the first attempts and whatever happens to other files.
SentIsTaken ==
    \A c \in Contents, f \in Names :
        (inbox[f] = c /\ delivery[c] = "sent" /\ Size[c] <= MaxUpload)
            ~> (inbox[f] # c \/ Exhausted)
=============================================================================
