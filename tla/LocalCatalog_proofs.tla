------------------------ MODULE LocalCatalog_proofs -------------------------
(***************************************************************************)
(* Proofs about LocalCatalog, for any number of ids, contents, uploads,    *)
(* deletes and crashes: the inductive invariant behind its safety          *)
(* properties, and the refinement of Catalog.                              *)
(***************************************************************************)
EXTENDS LocalCatalog, TLAPS

Requested(i) == \E d \in Deletes : del[d].id = i

\* What the handler of an upload, or what it left behind, says about its
\* staging file, its home file and its row.  The sweep may take the staging
\* file at any time; nobody but a delete touches the rest.
UploadOK(u) ==
    LET i == up[u].id  c == up[u].content  pc == up[u].pc IN
    IF pc = "idle" THEN i = None
    ELSE
      /\ i \in Ids /\ c \in Contents
      /\ pc = "writing" => staging[i] \in {None, Partial}
      /\ pc \in {"check", "rename"} => staging[i] \in {None, c}
      /\ pc \in {"writing", "check", "rename", "duplicate", "error"} => home[i] = None
      /\ pc \in {"insert", "stranded"} => home[i] = c
      /\ pc # "created" => rows[i] = None
      /\ pc = "created" =>
            /\ rows[i] \in {None, c} /\ home[i] \in {None, c}
            /\ home[i] = c => rows[i] = c
            /\ home[i] = None => Requested(i)

UniqueIds ==
    \A u, v \in Uploads : u # v /\ up[u].id # None => up[u].id # up[v].id

\* A delete works on an archive that was created, takes its row only after
\* its file, and is confirmed when both are gone.
DeleteOK(d) ==
    IF del[d].pc = "idle" THEN del[d].id = None
    ELSE
      /\ del[d].id \in Ids
      /\ \E u \in Uploads : up[u].id = del[d].id /\ up[u].pc = "created"
      /\ del[d].pc \in {"row", "deleted"} => home[del[d].id] = None
      /\ del[d].pc = "deleted" => rows[del[d].id] = None

\* Files in home and rows stem from uploads.
FilesAreUploaded ==
    \A i \in Ids : rows[i] # None \/ home[i] # None => \E u \in Uploads : up[u].id = i

\* A link or pin that exists, or is being inserted, has its archive's row,
\* or the row went away under the insertion.
LinksAreBound == \A i \in resolving \cup deps : rows[i] # None \/ i \in raced

\* The inductive invariant.
Inv ==
    /\ TypeOK
    /\ \A u \in Uploads : UploadOK(u)
    /\ UniqueIds
    /\ \A d \in Deletes : DeleteOK(d)
    /\ FilesAreUploaded
    /\ LinksAreBound

-----------------------------------------------------------------------------
(* Type correctness *)

UploadState == [pc : UploadPC, id : Ids \cup {None}, content : Contents \cup {None}]
DeleteState == [pc : DeletePC, id : Ids \cup {None}]

\* Moving a handler on keeps its state well typed.
LEMMA GoUpTyped ==
    ASSUME TypeOK, NEW u \in Uploads, NEW pc \in UploadPC, GoUp(u, pc)
    PROVE  /\ up' \in [Uploads -> UploadState]
           /\ up'[u] = [up[u] EXCEPT !.pc = pc]
           /\ \A v \in Uploads : v # u => up'[v] = up[v]
<1>1. up \in [Uploads -> UploadState]
  BY DEF TypeOK, UploadState
<1>2. [up[u] EXCEPT !.pc = pc] \in UploadState
  BY <1>1 DEF UploadState
<1> QED
  BY <1>1, <1>2 DEF GoUp

\* The same for a delete handler.
LEMMA GoDelTyped ==
    ASSUME TypeOK, NEW d \in Deletes, NEW pc \in DeletePC, GoDel(d, pc)
    PROVE  /\ del' \in [Deletes -> DeleteState]
           /\ del'[d] = [del[d] EXCEPT !.pc = pc]
           /\ \A e \in Deletes : e # d => del'[e] = del[e]
<1>1. del \in [Deletes -> DeleteState]
  BY DEF TypeOK, DeleteState
<1>2. [del[d] EXCEPT !.pc = pc] \in DeleteState
  BY <1>1 DEF DeleteState
<1> QED
  BY <1>1, <1>2 DEF GoDel

\* An upload that has begun has an id and a content.
LEMMA UploadBegun ==
    ASSUME Inv, NEW u \in Uploads, up[u].pc # "idle"
    PROVE  up[u].id \in Ids /\ up[u].content \in Contents
  BY DEF Inv, UploadOK

\* A staging file is moved home only once it is complete.
LEMMA RenamedIsComplete ==
    ASSUME Inv, NEW u \in Uploads, RenameHome(u)
    PROVE  staging[up[u].id] = up[u].content
  BY DEF Inv, UploadOK, RenameHome

\* Every step of a handler, the sweep or a crash keeps files, rows and
\* handlers well typed; in particular no partial file ever gets home.
LEMMA TypeStep == Inv /\ [Next]_vars => TypeOK'
<1> SUFFICES ASSUME Inv, [Next]_vars
             PROVE  TypeOK'
  OBVIOUS
<1> USE SentinelAssumption, IdAssumption, CrashAssumption
<1>0. TypeOK
  BY DEF Inv
<1>1. ASSUME NEW u \in Uploads, NEW i \in Ids, NEW c \in Contents, BeginStage(u, i, c)
      PROVE  TypeOK'
  BY <1>0, <1>1 DEF BeginStage, TypeOK, UploadPC
<1>2. ASSUME NEW u \in Uploads, FinishStage(u)
      PROVE  TypeOK'
  <2>1. up[u].id \in Ids /\ up[u].content \in Contents
    BY <1>2, UploadBegun DEF FinishStage
  <2>2. up' \in [Uploads -> UploadState]
    BY <1>0, <1>2, GoUpTyped DEF FinishStage, UploadPC
  <2>3. staging' \in [Ids -> Contents \cup {None, Partial}]
    <3>1. PICK x \in {None, up[u].content} : staging' = [staging EXCEPT ![up[u].id] = x]
      BY <1>0, <1>2, <2>1 DEF FinishStage, TypeOK
    <3> QED
      BY <1>0, <2>1, <3>1 DEF TypeOK
  <2> QED
    BY <1>0, <1>2, <2>2, <2>3 DEF FinishStage, TypeOK, UploadState, DeleteState
<1>3. ASSUME NEW u \in Uploads, FailStage(u) \/ FailCheck(u) \/ FailRename(u)
      PROVE  TypeOK'
  <2>1. up' \in [Uploads -> UploadState]
    BY <1>0, <1>3, GoUpTyped DEF FailStage, FailCheck, FailRename, UploadPC
  <2> QED
    BY <1>0, <1>3, <2>1 DEF FailStage, FailCheck, FailRename, Discard, Unstage, TypeOK,
       UploadState, DeleteState
<1>4. ASSUME NEW u \in Uploads, CheckDuplicate(u)
      PROVE  TypeOK'
  <2>1. up' \in [Uploads -> UploadState]
    BY <1>0, <1>4, GoUpTyped DEF CheckDuplicate, UploadPC
  <2> QED
    BY <1>0, <1>4, <2>1 DEF CheckDuplicate, Discard, Unstage, TypeOK, UploadState, DeleteState
<1>5. ASSUME NEW u \in Uploads, RenameHome(u)
      PROVE  TypeOK'
  <2>1. up[u].id \in Ids /\ up[u].content \in Contents
    BY <1>5, UploadBegun DEF RenameHome
  <2>2. up' \in [Uploads -> UploadState]
    BY <1>0, <1>5, GoUpTyped DEF RenameHome, UploadPC
  <2> QED
    BY <1>0, <1>5, <2>1, <2>2, RenamedIsComplete DEF RenameHome, Unstage,
       TypeOK, UploadState, DeleteState
<1>6. ASSUME NEW u \in Uploads, InsertRow(u) \/ FailInsert(u)
      PROVE  TypeOK'
  <2>1. up[u].id \in Ids /\ up[u].content \in Contents
    BY <1>6, UploadBegun DEF InsertRow, FailInsert
  <2>2. up' \in [Uploads -> UploadState]
    BY <1>0, <1>6, GoUpTyped DEF InsertRow, FailInsert, UploadPC
  <2> QED
    BY <1>0, <1>6, <2>1, <2>2 DEF InsertRow, FailInsert, TypeOK, UploadState, DeleteState
<1>7. ASSUME NEW d \in Deletes, NEW i \in Ids, BeginDelete(d, i)
      PROVE  TypeOK'
  BY <1>0, <1>7 DEF BeginDelete, TypeOK, DeletePC
<1>8. ASSUME NEW d \in Deletes, DeleteStep(d)
      PROVE  TypeOK'
  <2>1. del' \in [Deletes -> DeleteState]
    BY <1>0, <1>8, GoDelTyped DEF DeleteStep, RemoveBlob, FailRemoveBlob, DropRow,
       FailDropRow, DeletePC
  <2> QED
    BY <1>0, <1>8, <2>1 DEF DeleteStep, RemoveBlob, FailRemoveBlob, DropRow, FailDropRow,
       TypeOK, UploadState, DeleteState
<1>9. ASSUME NEW i \in Ids, \/ ResolveDependent(i) \/ InsertDependent(i)
                            \/ AgeStaging(i) \/ SweepStaging(i)
      PROVE  TypeOK'
  BY <1>0, <1>9 DEF ResolveDependent, InsertDependent, AgeStaging, SweepStaging,
     Unstage, TypeOK
<1>10. CASE Crash
  <2>1. up' \in [Uploads -> UploadState]
    BY <1>0, <1>10 DEF Crash, TypeOK, UploadPC, UploadState
  <2>2. del' \in [Deletes -> DeleteState]
    BY <1>0, <1>10 DEF Crash, TypeOK, DeletePC, DeleteState
  <2> QED
    BY <1>0, <1>10, <2>1, <2>2 DEF Crash, TypeOK, UploadState, DeleteState
<1>11. CASE UNCHANGED vars
  BY <1>0, <1>11 DEF vars, TypeOK
<1> QED
  BY <1>1, <1>2, <1>3, <1>4, <1>5, <1>6, <1>7, <1>8, <1>9, <1>10, <1>11
  DEF Next, UploadStep

-----------------------------------------------------------------------------
(* Uploads *)

\* A delete request is never forgotten.
LEMMA RequestedStays ==
    ASSUME Inv, [Next]_vars, NEW i \in Ids, Requested(i)
    PROVE  Requested(i)'
<1>0. TypeOK /\ \A d \in Deletes : DeleteOK(d)
  BY DEF Inv
<1>1. CASE UNCHANGED del
  BY <1>1 DEF Requested
<1>2. ASSUME NEW d \in Deletes, DeleteStep(d)
      PROVE  Requested(i)'
  BY <1>0, <1>2 DEF DeleteStep, RemoveBlob, FailRemoveBlob, DropRow, FailDropRow,
     GoDel, Requested, TypeOK
<1>3. ASSUME NEW d \in Deletes, NEW j \in Ids, BeginDelete(d, j)
      PROVE  Requested(i)'
  BY <1>0, <1>3, IdAssumption DEF BeginDelete, DeleteOK, Requested, TypeOK
<1>4. CASE Crash
  BY <1>0, <1>4 DEF Crash, Requested, TypeOK
<1> QED
  BY <1>1, <1>2, <1>3, <1>4 DEF Next, UploadStep, vars, BeginStage, FinishStage,
     FailStage, CheckDuplicate, FailCheck, RenameHome, FailRename, InsertRow,
     FailInsert, ResolveDependent, InsertDependent, AgeStaging, SweepStaging

\* An upload is not disturbed by steps that leave its handler, its home file
\* and its row alone, the sweep of its staging file included.
LEMMA UploadKept ==
    ASSUME Inv, [Next]_vars, NEW u \in Uploads, up'[u] = up[u],
           up[u].pc # "idle" =>
              /\ staging'[up[u].id] \in {staging[up[u].id], None}
              /\ home'[up[u].id] = home[up[u].id]
              /\ rows'[up[u].id] = rows[up[u].id]
    PROVE  UploadOK(u)'
<1>1. UploadOK(u)
  BY DEF Inv
<1>2. CASE up[u].pc = "idle"
  BY <1>1, <1>2 DEF UploadOK
<1>3. CASE up[u].pc # "idle"
  <2>1. PICK i \in Ids : i = up[u].id
    BY <1>3, UploadBegun
  <2>2. Requested(i) => Requested(i)'
    BY RequestedStays
  <2>3. (\E d \in Deletes : del[d].id = up[u].id) =>
           (\E d \in Deletes : del'[d].id = up[u].id)
    BY <2>1, <2>2 DEF Requested
  <2> QED
    BY <1>1, <1>3, <2>3 DEF UploadOK, Requested
<1> QED
  BY <1>2, <1>3

\* A handler's own steps: it stages, checks, renames and inserts in the
\* order the invariant relies on, and cleans up after each failure.
LEMMA UploadActs ==
    ASSUME Inv, NEW u \in Uploads, UploadStep(u)
    PROVE  UploadOK(u)'
<1> USE SentinelAssumption, IdAssumption DEF UploadPC
<1> DEFINE i == up[u].id
           c == up[u].content
<1>0. TypeOK /\ UploadOK(u)
  BY DEF Inv
<1>1. up[u].pc # "idle" /\ i \in Ids /\ c \in Contents
  BY UploadBegun DEF UploadStep, FinishStage, FailStage, CheckDuplicate, FailCheck,
     RenameHome, FailRename, InsertRow, FailInsert
<1>2. up[u] = [pc |-> up[u].pc, id |-> i, content |-> c]
  BY <1>0 DEF TypeOK
<1>3. CASE FinishStage(u)
  <2>1. up'[u] = [up[u] EXCEPT !.pc = "check"]
    BY <1>0, <1>3, GoUpTyped DEF FinishStage
  <2>2. staging'[i] \in {None, c} /\ home'[i] = None /\ rows'[i] = None
    BY <1>0, <1>1, <1>3 DEF FinishStage, UploadOK, TypeOK
  <2> QED
    BY <1>1, <1>2, <2>1, <2>2 DEF UploadOK
<1>4. CASE FailStage(u) \/ FailCheck(u) \/ FailRename(u)
  <2>1. up'[u] = [up[u] EXCEPT !.pc = "error"]
    BY <1>0, <1>4, GoUpTyped DEF FailStage, FailCheck, FailRename
  <2>2. home'[i] = None /\ rows'[i] = None
    BY <1>0, <1>4 DEF FailStage, FailCheck, FailRename, UploadOK
  <2> QED
    BY <1>1, <1>2, <2>1, <2>2 DEF UploadOK
<1>5. CASE CheckDuplicate(u)
  <2>1. /\ home'[i] = None /\ rows'[i] = None
        /\ staging[i] \in {None, c}
    BY <1>0, <1>5 DEF CheckDuplicate, UploadOK
  <2>2. CASE Existing(c) # {}
    <3>1. up'[u] = [up[u] EXCEPT !.pc = "duplicate"]
      BY <1>0, <1>5, <2>2, GoUpTyped DEF CheckDuplicate
    <3> QED
      BY <1>1, <1>2, <2>1, <3>1 DEF UploadOK
  <2>3. CASE Existing(c) = {}
    <3>1. up'[u] = [up[u] EXCEPT !.pc = "rename"] /\ staging' = staging
      BY <1>0, <1>5, <2>3, GoUpTyped DEF CheckDuplicate
    <3> QED
      BY <1>1, <1>2, <2>1, <3>1 DEF UploadOK
  <2> QED
    BY <2>2, <2>3
<1>6. CASE RenameHome(u)
  <2>1. up'[u] = [up[u] EXCEPT !.pc = "insert"]
    BY <1>0, <1>6, GoUpTyped DEF RenameHome
  <2>2. home'[i] = c /\ rows'[i] = None
    BY <1>0, <1>1, <1>6 DEF RenameHome, UploadOK, TypeOK
  <2> QED
    BY <1>1, <1>2, <2>1, <2>2 DEF UploadOK
<1>7. CASE InsertRow(u)
  <2>1. up'[u] = [up[u] EXCEPT !.pc = "created"]
    BY <1>0, <1>7, GoUpTyped DEF InsertRow
  <2>2. home'[i] = c /\ rows'[i] = c
    BY <1>0, <1>1, <1>7 DEF InsertRow, UploadOK, TypeOK
  <2> QED
    BY <1>1, <1>2, <2>1, <2>2 DEF UploadOK
<1>8. CASE FailInsert(u)
  <2>1. home[i] = c /\ rows'[i] = None
    BY <1>0, <1>1, <1>8 DEF FailInsert, UploadOK
  <2>2. CASE GoUp(u, "error") /\ home' = [home EXCEPT ![i] = None]
    <3>1. up'[u] = [up[u] EXCEPT !.pc = "error"]
      BY <1>0, <2>2, GoUpTyped
    <3>2. home'[i] = None
      BY <1>0, <1>1, <2>2 DEF TypeOK
    <3> QED
      BY <1>1, <1>2, <2>1, <3>1, <3>2 DEF UploadOK
  <2>3. CASE GoUp(u, "stranded") /\ UNCHANGED home
    <3>1. up'[u] = [up[u] EXCEPT !.pc = "stranded"]
      BY <1>0, <2>3, GoUpTyped
    <3> QED
      BY <1>1, <1>2, <2>1, <2>3, <3>1 DEF UploadOK
  <2> QED
    BY <1>8, <2>2, <2>3 DEF FailInsert
<1> QED
  BY <1>3, <1>4, <1>5, <1>6, <1>7, <1>8 DEF UploadStep

\* A step of one upload touches the files and the row of its own id only.
LEMMA UploadFrame ==
    ASSUME Inv, NEW u \in Uploads, UploadStep(u)
    PROVE  /\ \A v \in Uploads : v # u => up'[v] = up[v]
           /\ up'[u].id = up[u].id /\ up'[u].content = up[u].content
           /\ \A j \in Ids : j # up[u].id =>
                 staging'[j] = staging[j] /\ home'[j] = home[j] /\ rows'[j] = rows[j]
           /\ UNCHANGED <<resolving, deps, raced, del>>
<1>0. TypeOK
  BY DEF Inv
<1>1. PICK pc \in UploadPC : GoUp(u, pc)
  BY DEF UploadStep, FinishStage, FailStage, CheckDuplicate, FailCheck, RenameHome,
     FailRename, InsertRow, FailInsert, UploadPC
<1>2. /\ \A v \in Uploads : v # u => up'[v] = up[v]
      /\ up'[u] = [up[u] EXCEPT !.pc = pc]
  BY <1>0, <1>1, GoUpTyped
<1>3. up'[u].id = up[u].id /\ up'[u].content = up[u].content
  BY <1>0, <1>2 DEF TypeOK
<1>4. ASSUME NEW j \in Ids, j # up[u].id
      PROVE  staging'[j] = staging[j] /\ home'[j] = home[j] /\ rows'[j] = rows[j]
  BY <1>0, <1>4 DEF TypeOK, UploadStep, FinishStage, FailStage, CheckDuplicate, FailCheck,
     RenameHome, FailRename, InsertRow, FailInsert, Discard, Unstage
<1>5. UNCHANGED <<resolving, deps, raced, del>>
  BY DEF UploadStep, FinishStage, FailStage, CheckDuplicate, FailCheck,
     RenameHome, FailRename, InsertRow, FailInsert
<1> QED
  BY <1>2, <1>3, <1>4, <1>5

\* What a step of a delete may do: take the home file, or take the row of an
\* archive whose home file is gone, and with it its links and pins.
LEMMA DeleteEffect ==
    ASSUME Inv, NEW d \in Deletes, DeleteStep(d)
    PROVE  /\ del[d].id \in Ids
           /\ \E u \in Uploads : up[u].id = del[d].id /\ up[u].pc = "created"
           /\ \A e \in Deletes : del'[e].id = del[e].id
           /\ \A e \in Deletes : e # d => del'[e] = del[e]
           /\ del'[d].pc # "idle"
           /\ \A j \in Ids : j # del[d].id => home'[j] = home[j] /\ rows'[j] = rows[j]
           /\ UNCHANGED <<up, staging, resolving>>
           /\ \/ /\ home'[del[d].id] = None /\ del'[d].pc = "row"
                 /\ UNCHANGED <<rows, deps, raced>>
              \/ /\ home[del[d].id] = None /\ rows'[del[d].id] = None /\ home' = home
                 /\ del'[d].pc = "deleted"
                 /\ deps' = deps \ {del[d].id}
                 /\ raced' = IF del[d].id \in resolving THEN raced \cup {del[d].id} ELSE raced
              \/ /\ UNCHANGED <<home, rows, deps, raced>>
                 /\ del'[d].pc \notin {"row", "deleted"}
<1>0. TypeOK /\ DeleteOK(d)
  BY DEF Inv
<1>1. PICK pc \in {"row", "deleted", "notfound", "error"} : GoDel(d, pc)
  BY DEF DeleteStep, RemoveBlob, FailRemoveBlob, DropRow, FailDropRow
<1>2. /\ del'[d] = [del[d] EXCEPT !.pc = pc]
      /\ \A e \in Deletes : e # d => del'[e] = del[e]
  BY <1>0, <1>1, GoDelTyped DEF DeletePC
<1>3. del'[d].pc = pc /\ \A e \in Deletes : del'[e].id = del[e].id
  BY <1>0, <1>2 DEF TypeOK
<1>4. /\ del[d].id \in Ids
      /\ \E u \in Uploads : up[u].id = del[d].id /\ up[u].pc = "created"
      /\ del[d].pc = "row" => home[del[d].id] = None
  BY <1>0 DEF DeleteOK, DeleteStep, RemoveBlob, FailRemoveBlob, DropRow, FailDropRow
<1>5. CASE RemoveBlob(d)
  <2>1. del'[d].pc = "row"
    BY <1>0, <1>5, GoDelTyped DEF RemoveBlob, DeletePC, TypeOK
  <2> QED
    BY <1>0, <1>2, <1>3, <1>4, <1>5, <2>1 DEF RemoveBlob, TypeOK
<1>6. CASE DropRow(d)
  <2>1. del'[d].pc = "deleted"
    BY <1>0, <1>6, GoDelTyped DEF DropRow, DeletePC, TypeOK
  <2> QED
    BY <1>0, <1>2, <1>3, <1>4, <1>6, <2>1 DEF DropRow, TypeOK
<1>7. CASE FailRemoveBlob(d) \/ FailDropRow(d)
  <2>1. del'[d].pc \in {"notfound", "error"}
    BY <1>0, <1>7, GoDelTyped DEF FailRemoveBlob, FailDropRow, DeletePC, TypeOK
  <2> QED
    BY <1>2, <1>3, <1>4, <1>7, <2>1 DEF FailRemoveBlob, FailDropRow
<1> QED
  BY <1>5, <1>6, <1>7 DEF DeleteStep

\* Every step preserves what is known about every upload.
LEMMA UploadsStep ==
    ASSUME Inv, [Next]_vars, NEW u \in Uploads
    PROVE  UploadOK(u)'
<1> USE SentinelAssumption, IdAssumption
<1>0. TypeOK /\ UploadOK(u) /\ UniqueIds /\ FilesAreUploaded
  BY DEF Inv
<1>1. ASSUME NEW v \in Uploads, UploadStep(v)
      PROVE  UploadOK(u)'
  <2>1. CASE v = u
    BY <1>1, <2>1, UploadActs
  <2>2. CASE v # u
    <3>1. up[u].pc # "idle" => up[u].id \in Ids /\ up[u].id # up[v].id
      BY <1>0, <2>2, UploadBegun DEF UniqueIds
    <3> QED
      BY <1>1, <2>2, <3>1, UploadFrame, UploadKept
  <2> QED
    BY <2>1, <2>2
<1>2. ASSUME NEW v \in Uploads, NEW i \in Ids, NEW c \in Contents, BeginStage(v, i, c)
      PROVE  UploadOK(u)'
  <2>1. CASE v = u
    <3>1. home[i] = None /\ rows[i] = None
      BY <1>0, <1>2 DEF BeginStage, Fresh, FilesAreUploaded
    <3>2. /\ up'[u] = [pc |-> "writing", id |-> i, content |-> c]
          /\ staging'[i] = Partial /\ home' = home /\ rows' = rows
      BY <1>0, <1>2, <2>1 DEF BeginStage, TypeOK
    <3> QED
      BY <3>1, <3>2 DEF UploadOK
  <2>2. CASE v # u
    <3>1. /\ up'[u] = up[u] /\ up[u].id # i /\ home' = home /\ rows' = rows
          /\ staging' = [staging EXCEPT ![i] = Partial]
      BY <1>0, <1>2, <2>2 DEF BeginStage, Fresh, TypeOK
    <3>2. up[u].pc # "idle" => staging'[up[u].id] = staging[up[u].id]
      BY <1>0, <3>1, UploadBegun DEF TypeOK
    <3> QED
      BY <3>1, <3>2, UploadKept
  <2> QED
    BY <2>1, <2>2
<1>3. ASSUME NEW d \in Deletes, DeleteStep(d)
      PROVE  UploadOK(u)'
  <2>1. CASE up[u].id # del[d].id
    <3>1. up[u].pc # "idle" => home'[up[u].id] = home[up[u].id] /\ rows'[up[u].id] = rows[up[u].id]
      BY <1>3, <2>1, DeleteEffect, UploadBegun
    <3> QED
      BY <1>3, <3>1, DeleteEffect, UploadKept
  <2>2. CASE up[u].id = del[d].id
    <3>1. up[u].pc = "created"
      BY <1>0, <1>3, <2>2, DeleteEffect DEF UniqueIds
    <3>2. up' = up /\ \E e \in Deletes : del'[e].id = up[u].id
      BY <1>3, <2>2, DeleteEffect
    <3>3. \/ home'[del[d].id] = None /\ rows' = rows
          \/ home[del[d].id] = None /\ home' = home /\ rows'[del[d].id] = None
          \/ home' = home /\ rows' = rows
      BY <1>3, DeleteEffect
    <3> QED
      BY <1>0, <2>2, <3>1, <3>2, <3>3 DEF UploadOK, Requested
  <2> QED
    BY <2>1, <2>2
<1>4. ASSUME NEW i \in Ids, \/ ResolveDependent(i) \/ InsertDependent(i)
                            \/ AgeStaging(i) \/ SweepStaging(i)
      PROVE  UploadOK(u)'
  <2>1. up' = up /\ home' = home /\ rows' = rows
    BY <1>4 DEF ResolveDependent, InsertDependent, AgeStaging, SweepStaging
  <2>2. \A j \in Ids : staging'[j] \in {staging[j], None}
    BY <1>0, <1>4 DEF ResolveDependent, InsertDependent, AgeStaging, SweepStaging,
       Unstage, TypeOK
  <2> QED
    BY <2>1, <2>2, UploadKept, UploadBegun
<1>5. ASSUME NEW d \in Deletes, NEW i \in Ids, BeginDelete(d, i)
      PROVE  UploadOK(u)'
  BY <1>5, UploadKept DEF BeginDelete
<1>6. CASE Crash
  <2>1. CASE up[u].pc \in {"writing", "check", "rename", "insert"}
    <3>1. up'[u] = [up[u] EXCEPT !.pc = "crashed"] /\ rows' = rows
      BY <1>6, <2>1 DEF Crash
    <3>2. up'[u].pc = "crashed" /\ up'[u].id = up[u].id /\ up'[u].content = up[u].content
      BY <1>0, <3>1 DEF TypeOK
    <3> QED
      BY <1>0, <2>1, <3>1, <3>2 DEF UploadOK
  <2>2. CASE up[u].pc \notin {"writing", "check", "rename", "insert"}
    <3>1. up'[u] = up[u]
      BY <1>6, <2>2 DEF Crash
    <3> QED
      BY <1>6, <3>1, UploadKept DEF Crash
  <2> QED
    BY <2>1, <2>2
<1>7. CASE UNCHANGED vars
  BY <1>7, UploadKept DEF vars
<1> QED
  BY <1>1, <1>2, <1>3, <1>4, <1>5, <1>6, <1>7 DEF Next

-----------------------------------------------------------------------------
(* The other conjuncts *)

\* An upload keeps its id and content, and a 201 is final.
LEMMA UploadIds ==
    ASSUME Inv, [Next]_vars, NEW u \in Uploads
    PROVE  /\ up[u].pc # "idle" => up'[u].id = up[u].id /\ up'[u].content = up[u].content
           /\ up[u].pc = "created" => up'[u].pc = "created"
<1>0. TypeOK
  BY DEF Inv
<1>1. ASSUME NEW v \in Uploads, UploadStep(v)
      PROVE  /\ up'[u].id = up[u].id /\ up'[u].content = up[u].content
             /\ up[u].pc = "created" => up'[u].pc = "created"
  <2>1. up[v].pc # "created"
    BY <1>1 DEF UploadStep, FinishStage, FailStage, CheckDuplicate, FailCheck, RenameHome,
       FailRename, InsertRow, FailInsert
  <2> QED
    BY <1>1, <2>1, UploadFrame
<1>2. ASSUME NEW v \in Uploads, NEW i \in Ids, NEW c \in Contents, BeginStage(v, i, c)
      PROVE  up[u].pc # "idle" => up'[u] = up[u]
  BY <1>0, <1>2 DEF BeginStage, TypeOK
<1>3. CASE Crash
  <2>1. up'[u] = up[u] \/ (up[u].pc # "created" /\ up'[u] = [up[u] EXCEPT !.pc = "crashed"])
    BY <1>3 DEF Crash
  <2> QED
    BY <1>0, <2>1 DEF TypeOK
<1>4. CASE UNCHANGED up
  BY <1>4
<1> QED
  BY <1>1, <1>2, <1>3, <1>4 DEF Next, DeleteStep, vars, RemoveBlob, FailRemoveBlob,
     DropRow, FailDropRow, BeginDelete, ResolveDependent, InsertDependent, AgeStaging,
     SweepStaging

\* Ids are drawn afresh (NewArchiveID) and never handed on.
LEMMA UniqueStep ==
    ASSUME Inv, [Next]_vars
    PROVE  UniqueIds'
<1>0. TypeOK /\ UniqueIds /\ \A u \in Uploads : UploadOK(u)
  BY DEF Inv
<1>1. ASSUME NEW v \in Uploads, NEW i \in Ids, NEW c \in Contents, BeginStage(v, i, c)
      PROVE  UniqueIds'
  <2>1. /\ up'[v].id = i /\ \A u \in Uploads : u # v => up'[u] = up[u]
        /\ \A u \in Uploads : up[u].id # i
    BY <1>0, <1>1 DEF BeginStage, Fresh, TypeOK
  <2> QED
    BY <1>0, <2>1 DEF UniqueIds
<1>2. CASE \A u \in Uploads : up'[u].id = up[u].id
  BY <1>0, <1>2 DEF UniqueIds
<1>3. ASSUME NEW v \in Uploads, UploadStep(v)
      PROVE  \A u \in Uploads : up'[u].id = up[u].id
  BY <1>3, UploadFrame
<1>4. CASE Crash
  <2>1. \A u \in Uploads : up'[u] = up[u] \/ up'[u] = [up[u] EXCEPT !.pc = "crashed"]
    BY <1>4 DEF Crash
  <2> QED
    BY <1>0, <1>2, <2>1 DEF TypeOK
<1> QED
  BY <1>1, <1>2, <1>3, <1>4 DEF Next, DeleteStep, vars, RemoveBlob, FailRemoveBlob,
     DropRow, FailDropRow, BeginDelete, ResolveDependent, InsertDependent, AgeStaging,
     SweepStaging

\* Every file in home and every row still belongs to an upload.
LEMMA FilesStep ==
    ASSUME Inv, [Next]_vars
    PROVE  FilesAreUploaded'
<1> SUFFICES ASSUME NEW i \in Ids, rows'[i] # None \/ home'[i] # None
             PROVE  \E u \in Uploads : up'[u].id = i
  BY DEF FilesAreUploaded
<1>0. TypeOK /\ FilesAreUploaded /\ \A u \in Uploads : UploadOK(u)
  BY DEF Inv
<1>1. CASE rows[i] # None \/ home[i] # None
  <2>1. PICK u \in Uploads : up[u].id = i
    BY <1>0, <1>1 DEF FilesAreUploaded
  <2>2. up'[u].id = i
    BY <1>0, <2>1, UploadIds, IdAssumption DEF UploadOK
  <2> QED
    BY <2>2
<1>2. CASE rows[i] = None /\ home[i] = None
  <2>1. PICK u \in Uploads : UploadStep(u)
    <3>1. ASSUME NEW d \in Deletes, DeleteStep(d)
          PROVE  FALSE
      BY <1>2, <3>1, DeleteEffect
    <3> QED
      BY <1>2, <3>1 DEF Next, vars, BeginStage, BeginDelete, ResolveDependent,
         InsertDependent, AgeStaging, SweepStaging, Crash
  <2>2. i = up[u].id
    BY <1>2, <2>1, UploadFrame
  <2> QED
    BY <2>1, <2>2, UploadFrame
<1> QED
  BY <1>1, <1>2

\* Every step preserves what is known about every delete: nothing comes back
\* to home after the delete took it.
LEMMA DeletesStep ==
    ASSUME Inv, [Next]_vars, NEW d \in Deletes
    PROVE  DeleteOK(d)'
<1> USE SentinelAssumption, IdAssumption
<1>0. TypeOK /\ DeleteOK(d) /\ UniqueIds /\ \A u \in Uploads : UploadOK(u)
  BY DEF Inv
<1>1. ASSUME NEW i \in Ids, NEW v \in Uploads, up[v].id = i, up[v].pc = "created"
      PROVE  /\ \E u \in Uploads : up'[u].id = i /\ up'[u].pc = "created"
             /\ home[i] = None => home'[i] = None
             /\ rows[i] = None => rows'[i] = None
  <2>1. up'[v].id = i /\ up'[v].pc = "created"
    BY <1>1, UploadIds
  <2>2. ASSUME NEW u \in Uploads, UploadStep(u)
        PROVE  home'[i] = home[i] /\ rows'[i] = rows[i]
    <3>1. up[u].pc # "created"
      BY <2>2 DEF UploadStep, FinishStage, FailStage, CheckDuplicate, FailCheck,
         RenameHome, FailRename, InsertRow, FailInsert
    <3>2. up[u].id # i
      BY <1>0, <1>1, <3>1 DEF UniqueIds
    <3> QED
      BY <2>2, <3>2, UploadFrame
  <2>3. ASSUME NEW e \in Deletes, DeleteStep(e)
        PROVE  /\ home[i] = None => home'[i] = None
               /\ rows[i] = None => rows'[i] = None
    BY <2>3, DeleteEffect
  <2>4. /\ home[i] = None => home'[i] = None
        /\ rows[i] = None => rows'[i] = None
    BY <2>2, <2>3 DEF Next, vars, BeginStage, BeginDelete, ResolveDependent,
       InsertDependent, AgeStaging, SweepStaging, Crash
  <2> QED
    BY <2>1, <2>4
<1>2. CASE del'[d] = del[d]
  BY <1>0, <1>1, <1>2 DEF DeleteOK
<1>3. ASSUME NEW i \in Ids, BeginDelete(d, i)
      PROVE  DeleteOK(d)'
  <2>1. del'[d] = [pc |-> "blob", id |-> i] /\ up' = up
    BY <1>0, <1>3 DEF BeginDelete, TypeOK
  <2>2. PICK u \in Uploads : up[u].id = i
    BY <1>3 DEF BeginDelete, Inv, FilesAreUploaded
  <2>3. up[u].pc = "created"
    BY <1>0, <1>3, <2>2 DEF BeginDelete, UploadOK
  <2> QED
    BY <2>1, <2>2, <2>3 DEF DeleteOK
<1>4. CASE DeleteStep(d)
  <2>1. del'[d].id = del[d].id /\ del'[d].pc # "idle" /\ del[d].id \in Ids /\ up' = up
    BY <1>4, DeleteEffect
  <2>2. /\ del'[d].pc \in {"row", "deleted"} => home'[del[d].id] = None
        /\ del'[d].pc = "deleted" => rows'[del[d].id] = None
    BY <1>4, DeleteEffect
  <2>3. \E u \in Uploads : up[u].id = del[d].id /\ up[u].pc = "created"
    BY <1>4, DeleteEffect
  <2> QED
    BY <2>1, <2>2, <2>3 DEF DeleteOK
<1>5. CASE Crash
  <2>1. del'[d] = del[d] \/ (del[d].pc # "idle" /\ del'[d] = [del[d] EXCEPT !.pc = "crashed"])
    BY <1>5 DEF Crash
  <2>2. CASE del[d].pc # "idle" /\ del'[d] = [del[d] EXCEPT !.pc = "crashed"]
    <3>1. del'[d].pc = "crashed" /\ del'[d].id = del[d].id
      BY <1>0, <2>2 DEF TypeOK
    <3> QED
      BY <1>0, <1>1, <2>2, <3>1 DEF DeleteOK
  <2> QED
    BY <1>2, <2>1, <2>2
<1>6. ASSUME NEW e \in Deletes, e # d, DeleteStep(e) \/ \E i \in Ids : BeginDelete(e, i)
      PROVE  del'[d] = del[d]
  BY <1>0, <1>6, DeleteEffect DEF BeginDelete, TypeOK
<1>7. ASSUME NEW u \in Uploads, UploadStep(u)
      PROVE  del' = del
  BY <1>7, UploadFrame
<1> QED
  BY <1>2, <1>3, <1>4, <1>5, <1>6, <1>7 DEF Next, vars, BeginStage, ResolveDependent,
     InsertDependent, AgeStaging, SweepStaging

\* Links and pins lose their row only in the delete transaction, which takes
\* the inserted ones along and marks the ones being inserted.
LEMMA LinksStep ==
    ASSUME Inv, [Next]_vars
    PROVE  LinksAreBound'
<1>0. TypeOK /\ LinksAreBound /\ \A u \in Uploads : UploadOK(u)
  BY DEF Inv
<1>1. ASSUME NEW u \in Uploads, UploadStep(u)
      PROVE  LinksAreBound'
  <2>1. ASSUME NEW i \in Ids, rows[i] # None
        PROVE  rows'[i] # None
    BY <1>0, <1>1, <2>1, UploadBegun, SentinelAssumption DEF TypeOK, UploadStep, FinishStage,
       FailStage, CheckDuplicate, FailCheck, RenameHome, FailRename, InsertRow, FailInsert
  <2>2. resolving \subseteq Ids /\ deps \subseteq Ids
    BY <1>0 DEF TypeOK
  <2> QED
    BY <1>0, <1>1, <2>1, <2>2, UploadFrame DEF LinksAreBound
<1>2. ASSUME NEW d \in Deletes, DeleteStep(d)
      PROVE  LinksAreBound'
  <2>1. resolving \subseteq Ids /\ deps \subseteq Ids /\ del[d].id \in Ids
    BY <1>0, <1>2, DeleteEffect DEF TypeOK
  <2>2. resolving' = resolving
    BY <1>2, DeleteEffect
  <2>3. CASE rows' = rows /\ deps' = deps /\ raced' = raced
    BY <1>0, <2>2, <2>3 DEF LinksAreBound
  <2>4. CASE /\ deps' = deps \ {del[d].id}
             /\ raced' = IF del[d].id \in resolving THEN raced \cup {del[d].id} ELSE raced
    <3>1. \A j \in Ids : j # del[d].id => rows'[j] = rows[j]
      BY <1>2, DeleteEffect
    <3> QED
      BY <1>0, <2>1, <2>2, <2>4, <3>1 DEF LinksAreBound
  <2> QED
    BY <1>2, <2>3, <2>4, DeleteEffect
<1>3. ASSUME NEW i \in Ids, ResolveDependent(i) \/ InsertDependent(i)
      PROVE  LinksAreBound'
  BY <1>0, <1>3 DEF ResolveDependent, InsertDependent, LinksAreBound
<1>4. CASE Crash
  BY <1>0, <1>4 DEF Crash, LinksAreBound
<1>5. CASE UNCHANGED <<rows, resolving, deps, raced>>
  BY <1>0, <1>5 DEF LinksAreBound
<1> QED
  BY <1>1, <1>2, <1>3, <1>4, <1>5 DEF Next, vars, BeginStage, BeginDelete, AgeStaging,
     SweepStaging

-----------------------------------------------------------------------------
(* The theorems *)

\* The inductive invariant holds of the empty store.
LEMMA InitInv == Init => Inv
<1> USE SentinelAssumption, IdAssumption, CrashAssumption
<1>1. Init => TypeOK
  BY DEF Init, TypeOK, UploadPC, DeletePC
<1>2. Init => /\ \A u \in Uploads : UploadOK(u)
              /\ \A d \in Deletes : DeleteOK(d)
  BY DEF Init, UploadOK, DeleteOK
<1>3. Init => UniqueIds /\ FilesAreUploaded /\ LinksAreBound
  BY DEF Init, UniqueIds, FilesAreUploaded, LinksAreBound
<1> QED
  BY <1>1, <1>2, <1>3 DEF Inv

\* The inductive invariant holds in every reachable state.
LEMMA Invariance == Spec => []Inv
<1>1. Inv /\ [Next]_vars => Inv'
  <2> SUFFICES ASSUME Inv, [Next]_vars
               PROVE  Inv'
    OBVIOUS
  <2>1. TypeOK'
    BY TypeStep
  <2>2. (\A u \in Uploads : UploadOK(u))'
    BY UploadsStep
  <2>3. UniqueIds'
    BY UniqueStep
  <2>4. (\A d \in Deletes : DeleteOK(d))'
    BY DeletesStep
  <2>5. FilesAreUploaded'
    BY FilesStep
  <2>6. LinksAreBound'
    BY LinksStep
  <2> QED
    BY <2>1, <2>2, <2>3, <2>4, <2>5, <2>6 DEF Inv
<1>2. QED
  BY InitInv, <1>1, PTL DEF Spec

\* Files, rows and handlers are well typed; no partial file ever reaches
\* home (TypeOK).
THEOREM TypeCorrect == Spec => []TypeOK
<1>1. Inv => TypeOK
  BY DEF Inv
<1>2. QED
  BY <1>1, Invariance, PTL

\* A 201 is durable until a delete is asked for, across crashes, sweeps,
\* failed duplicates and concurrent uploads (CreatedIsKept, CommitLocal).
THEOREM CreatedIsKeptCorrect == Spec => []CreatedIsKept
<1>1. Inv => CreatedIsKept
  BY IdAssumption DEF Inv, UploadOK, Requested, CreatedIsKept, DeleteRequested
<1>2. QED
  BY <1>1, Invariance, PTL

\* A file in home without a row is an unfinished upload, or one whose INSERT
\* and clean-up both failed, never the leftover of a delete, whatever failed
\* in it (OrphanBlobIsUnfinishedUpload, DeleteArchive, CommitLocal).
THEOREM OrphanBlobCorrect == Spec => []OrphanBlobIsUnfinishedUpload
<1>1. Inv => OrphanBlobIsUnfinishedUpload
  <2> SUFFICES ASSUME Inv, NEW i \in Ids, home[i] # None, rows[i] = None
               PROVE  \E u \in Uploads : up[u].id = i /\ up[u].pc \in {"insert", "crashed", "stranded"}
    BY DEF OrphanBlobIsUnfinishedUpload
  <2>1. PICK u \in Uploads : up[u].id = i
    BY DEF Inv, FilesAreUploaded
  <2>2. UploadOK(u) /\ up[u].pc \in UploadPC
    BY DEF Inv, TypeOK
  <2>3. up[u].pc \in {"insert", "crashed", "stranded"}
    BY <2>1, <2>2, IdAssumption, SentinelAssumption DEF UploadOK, UploadPC
  <2> QED
    BY <2>1, <2>3
<1>2. QED
  BY <1>1, Invariance, PTL

\* A link or pin without its archive was being inserted while the archive
\* was deleted (OrphanDependentsRaced, deleteDependents).
THEOREM OrphanDependentsCorrect == Spec => []OrphanDependentsRaced
<1>1. Inv => OrphanDependentsRaced
  BY DEF Inv, LinksAreBound, OrphanDependentsRaced
<1>2. QED
  BY <1>1, Invariance, PTL

\* 409 is only answered when an archive of that content is stored, or is
\* being deleted (DuplicateIsHonest, FindExistingSHA256).
THEOREM DuplicateCorrect == Spec => DuplicateIsHonest
<1> DEFINE P == \A u \in Uploads : up[u].pc = "check" /\ up'[u].pc = "duplicate" =>
                  \E i \in Ids : /\ rows[i] = up[u].content
                                 /\ home[i] = up[u].content \/ i \in DeleteRequested
<1>1. Inv /\ [Next]_vars => [P]_vars
  <2> SUFFICES ASSUME Inv, [Next]_vars, NEW u \in Uploads,
                      up[u].pc = "check", up'[u].pc = "duplicate"
               PROVE  \E i \in Ids : /\ rows[i] = up[u].content
                                     /\ home[i] = up[u].content \/ i \in DeleteRequested
    OBVIOUS
  <2>0. TypeOK
    BY DEF Inv
  <2>1. CheckDuplicate(u)
    <3>1. ASSUME NEW v \in Uploads, v # u, UploadStep(v)
          PROVE  FALSE
      BY <3>1, UploadFrame
    <3>2. ASSUME NEW v \in Uploads, NEW i \in Ids, NEW c \in Contents, BeginStage(v, i, c)
          PROVE  FALSE
      BY <2>0, <3>2 DEF BeginStage, TypeOK
    <3>3. ~FailCheck(u)
      BY <2>0, GoUpTyped DEF FailCheck, UploadPC, TypeOK
    <3>4. ~Crash
      BY <2>0 DEF Crash, TypeOK
    <3> QED
      BY <3>1, <3>2, <3>3, <3>4 DEF Next, UploadStep, DeleteStep, vars, FinishStage,
         FailStage, RenameHome, FailRename, InsertRow, FailInsert, RemoveBlob,
         FailRemoveBlob, DropRow, FailDropRow, BeginDelete, ResolveDependent,
         InsertDependent, AgeStaging, SweepStaging
  <2>2. PICK i \in Ids : rows[i] = up[u].content
    <3>1. Existing(up[u].content) # {}
      <4>1. CASE Existing(up[u].content) = {}
        <5>1. up'[u] = [up[u] EXCEPT !.pc = "rename"]
          BY <2>0, <2>1, <4>1, GoUpTyped DEF CheckDuplicate, UploadPC
        <5> QED
          BY <2>0, <5>1 DEF TypeOK
      <4> QED
        BY <4>1
    <3> QED
      BY <3>1 DEF Existing
  <2>3. rows[i] # None
    BY <2>2, UploadBegun, SentinelAssumption
  <2>4. PICK v \in Uploads : up[v].id = i
    BY <2>3 DEF Inv, FilesAreUploaded
  <2>5. UploadOK(v)
    BY DEF Inv
  <2>6. home[i] = rows[i] \/ Requested(i)
    BY <2>3, <2>4, <2>5, IdAssumption DEF UploadOK
  <2> QED
    BY <2>2, <2>6, IdAssumption DEF Requested, DeleteRequested
<1>2. QED
  BY <1>1, Invariance, PTL DEF Spec, DuplicateIsHonest

-----------------------------------------------------------------------------
(* Refinement *)

\* A step that changes no home file of a stored archive, no row of an archive
\* with a file, and creates nothing is invisible.
LEMMA Invisible ==
    ASSUME Created' = Created,
           \A i \in Ids : Downloadable'[i] = Downloadable[i]
    PROVE  Downloadable' = Downloadable /\ Retired' = Retired
<1>1. Downloadable' = Downloadable
  BY DEF Downloadable
<1> QED
  BY <1>1 DEF Retired

\* A step that confirms no delete: every delete keeps its answer.
LEMMA ConfirmsNothing ==
    ASSUME \A d \in Deletes : \/ del'[d] = del[d]
                              \/ del'[d].pc # "deleted" /\ del[d].pc # "deleted"
    PROVE  Confirmed' = Confirmed
<1>1. ASSUME NEW i \in Ids
      PROVE  {d \in Deletes : del'[d].id = i /\ del'[d].pc = "deleted"}
               = {d \in Deletes : del[d].id = i /\ del[d].pc = "deleted"}
  OBVIOUS
<1> QED
  BY <1>1 DEF Confirmed

\* The INSERT that answers 201 adds the archive.
LEMMA InsertAdds ==
    ASSUME Inv, NEW u \in Uploads, InsertRow(u)
    PROVE  Abstract!Add(up[u].id, up[u].content)
<1> DEFINE i == up[u].id
           c == up[u].content
<1> USE SentinelAssumption, IdAssumption
<1>0. TypeOK /\ UploadOK(u) /\ UniqueIds
  BY DEF Inv
<1>1. /\ i \in Ids /\ c \in Contents /\ home[i] = c /\ rows[i] = None /\ up[u].pc = "insert"
  BY <1>0 DEF InsertRow, UploadOK
<1>2. /\ up'[u] = [up[u] EXCEPT !.pc = "created"]
      /\ \A v \in Uploads : v # u => up'[v] = up[v]
      /\ home' = home /\ rows' = [rows EXCEPT ![i] = c]
  BY <1>0, GoUpTyped DEF InsertRow, UploadPC
<1>3. Downloadable[i] = None /\ Downloadable' = [Downloadable EXCEPT ![i] = c]
  <2>1. Downloadable[i] = None
    BY <1>1 DEF Downloadable
  <2>2. ASSUME NEW j \in Ids
        PROVE  Downloadable'[j] = [Downloadable EXCEPT ![i] = c][j]
    BY <1>0, <1>1, <1>2 DEF Downloadable, TypeOK
  <2> QED
    BY <2>1, <2>2 DEF Downloadable
<1>4. i \notin Created
  BY <1>0, <1>1 DEF Created, UniqueIds
<1>5. Created' = Created \cup {i}
  <2>1. up'[u].id = i /\ up'[u].pc = "created"
    BY <1>0, <1>2 DEF TypeOK
  <2>2. ASSUME NEW j \in Ids, NEW v \in Uploads
        PROVE  (up'[v].id = j /\ up'[v].pc = "created")
                  <=> (up[v].id = j /\ up[v].pc = "created") \/ (v = u /\ j = i)
    BY <1>1, <1>2, <2>1
  <2>3. ASSUME NEW j \in Ids
        PROVE  j \in Created' <=> j \in Created \cup {i}
    BY <2>2 DEF Created
  <2> QED
    BY <1>1, <2>3 DEF Created
<1>6. Retired' = Retired
  <2>1. \A j \in Ids : j # i => Downloadable'[j] = Downloadable[j]
    BY <1>3 DEF Downloadable
  <2>2. Downloadable'[i] = c /\ c # None
    BY <1>1, <1>3 DEF Downloadable
  <2>3. Created \subseteq Ids
    BY DEF Created
  <2> QED
    BY <1>4, <1>5, <2>1, <2>2, <2>3 DEF Retired
<1>7. Confirmed' = Confirmed
  BY ConfirmsNothing DEF InsertRow
<1>8. i \notin Retired
  BY <1>4 DEF Retired
<1> QED
  BY <1>3, <1>6, <1>7, <1>8 DEF Abstract!Add

\* Removing the file of an archive removes it from the catalog, or is
\* invisible when another delete was faster.
LEMMA RemoveRemoves ==
    ASSUME Inv, NEW d \in Deletes, RemoveBlob(d)
    PROVE  Abstract!Remove(del[d].id) \/ UNCHANGED <<Downloadable, Retired, Confirmed>>
<1> DEFINE i == del[d].id
<1> USE SentinelAssumption, IdAssumption
<1>0. TypeOK /\ DeleteOK(d) /\ UniqueIds
  BY DEF Inv
<1>1. /\ i \in Ids /\ home' = [home EXCEPT ![i] = None] /\ rows' = rows /\ up' = up
  BY <1>0 DEF DeleteOK, RemoveBlob
<1>2. PICK u \in Uploads : up[u].id = i /\ up[u].pc = "created"
  BY <1>0 DEF DeleteOK, RemoveBlob
<1>3. UploadOK(u)
  BY DEF Inv
<1>4. i \in Created /\ Created' = Created /\ Created \subseteq Ids
  BY <1>1, <1>2 DEF Created
<1>5. Downloadable' = [Downloadable EXCEPT ![i] = None]
  <2>1. ASSUME NEW j \in Ids
        PROVE  Downloadable'[j] = [Downloadable EXCEPT ![i] = None][j]
    BY <1>0, <1>1 DEF Downloadable, TypeOK
  <2> QED
    BY <2>1 DEF Downloadable
<1>6. Downloadable'[i] = None /\ \A j \in Ids : j # i => Downloadable'[j] = Downloadable[j]
  BY <1>1, <1>5 DEF Downloadable
<1>7. Confirmed' = Confirmed
  <2>1. /\ del'[d] = [del[d] EXCEPT !.pc = "row"] /\ del[d].pc = "blob"
        /\ \A e \in Deletes : e # d => del'[e] = del[e]
    BY <1>0, GoDelTyped DEF RemoveBlob, DeletePC
  <2>2. del'[d].pc = "row"
    BY <1>0, <2>1 DEF TypeOK
  <2> QED
    BY <2>1, <2>2, ConfirmsNothing
<1>8. CASE Downloadable[i] # None
  <2>1. Retired' = Retired \cup {i}
    BY <1>4, <1>6 DEF Retired
  <2> QED
    BY <1>5, <1>7, <1>8, <2>1 DEF Abstract!Remove
<1>9. CASE Downloadable[i] = None
  BY <1>4, <1>6, <1>7, <1>9, Invisible
<1> QED
  BY <1>8, <1>9

\* The transaction that takes the row confirms the delete; it is the only one
\* to do so, for the row is gone afterwards.
LEMMA DropConfirms ==
    ASSUME Inv, NEW d \in Deletes, DropRow(d)
    PROVE  Abstract!Confirm(del[d].id, d)
<1> DEFINE i == del[d].id
<1> USE SentinelAssumption, IdAssumption
<1>0. TypeOK /\ \A e \in Deletes : DeleteOK(e)
  BY DEF Inv
<1>1. /\ i \in Ids /\ home[i] = None /\ home' = home /\ up' = up
      /\ rows[i] # None /\ rows' = [rows EXCEPT ![i] = None]
      /\ i \in Created
  BY <1>0 DEF DropRow, DeleteOK, Created
<1>2. i \in Retired
  BY <1>1 DEF Retired, Downloadable
<1>3. Confirmed[i] = {}
  BY <1>0, <1>1 DEF Confirmed, DeleteOK
<1>4. /\ del'[d].id = i /\ del'[d].pc = "deleted" /\ del[d].pc = "row"
      /\ \A e \in Deletes : e # d => del'[e] = del[e]
  <2>1. del'[d] = [del[d] EXCEPT !.pc = "deleted"] /\ \A e \in Deletes : e # d => del'[e] = del[e]
    BY <1>0, GoDelTyped DEF DropRow, DeletePC
  <2> QED
    BY <1>0, <2>1 DEF DropRow, TypeOK
<1>5. Confirmed' = [Confirmed EXCEPT ![i] = {d}]
  <2>1. ASSUME NEW j \in Ids
        PROVE  {e \in Deletes : del'[e].id = j /\ del'[e].pc = "deleted"}
                 = IF j = i THEN {d} ELSE Confirmed[j]
    <3>1. CASE j = i
      <4>1. ASSUME NEW e \in Deletes, e # d
            PROVE  ~ (del'[e].id = i /\ del'[e].pc = "deleted")
        BY <1>3, <1>4, <4>1, <1>1 DEF Confirmed
      <4> QED
        BY <3>1, <4>1, <1>4
    <3>2. CASE j # i
      BY <3>2, <1>4 DEF Confirmed
    <3> QED
      BY <3>1, <3>2
  <2> QED
    BY <1>1, <2>1 DEF Confirmed
<1>6. Downloadable' = Downloadable /\ Retired' = Retired
  <2>1. \A j \in Ids : Downloadable'[j] = Downloadable[j]
    BY <1>0, <1>1 DEF Downloadable, TypeOK
  <2>2. Created' = Created
    BY <1>1 DEF Created
  <2> QED
    BY <2>1, <2>2, Invisible
<1> QED
  BY <1>2, <1>3, <1>5, <1>6 DEF Abstract!Confirm

\* Every step is an Add, a Remove or a Confirm of the catalog, or invisible.
LEMMA StepRefines ==
    ASSUME Inv, [Next]_vars
    PROVE  [Abstract!Next]_<<Downloadable, Retired, Confirmed>>
<1> USE SentinelAssumption, IdAssumption
<1>0. TypeOK /\ UniqueIds /\ \A u \in Uploads : UploadOK(u)
  BY DEF Inv
<1>1. ASSUME NEW u \in Uploads, InsertRow(u)
      PROVE  Abstract!Next
  <2>1. up[u].id \in Ids /\ up[u].content \in Contents
    BY <1>1, UploadBegun DEF InsertRow
  <2> QED
    BY <1>1, <2>1, InsertAdds DEF Abstract!Next
<1>2. ASSUME NEW d \in Deletes, RemoveBlob(d) \/ DropRow(d)
      PROVE  Abstract!Next \/ UNCHANGED <<Downloadable, Retired, Confirmed>>
  <2>1. del[d].id \in Ids
    BY <1>2, DeleteEffect DEF DeleteStep
  <2>2. CASE Abstract!Remove(del[d].id) \/ Abstract!Confirm(del[d].id, d)
    BY <2>1, <2>2 DEF Abstract!Next
  <2> QED
    BY <1>2, <2>2, RemoveRemoves, DropConfirms
<1>3. ASSUME NEW u \in Uploads, UploadStep(u), ~InsertRow(u)
      PROVE  UNCHANGED <<Downloadable, Retired, Confirmed>>
  <2>1. up[u].pc # "created" /\ up[u].pc # "idle" /\ rows' = rows
    BY <1>3 DEF UploadStep, FinishStage, FailStage, CheckDuplicate, FailCheck, RenameHome,
       FailRename, FailInsert
  <2>2. rows[up[u].id] = None
    BY <1>0, <2>1 DEF UploadOK
  <2>3. \A j \in Ids : Downloadable'[j] = Downloadable[j]
    BY <1>3, <2>1, <2>2, UploadFrame DEF Downloadable
  <2>4. up'[u].pc # "created"
    <3>1. PICK pc \in UploadPC \ {"created"} : GoUp(u, pc)
      BY <1>3 DEF UploadStep, FinishStage, FailStage, CheckDuplicate, FailCheck, RenameHome,
         FailRename, FailInsert, UploadPC
    <3>2. up'[u] = [up[u] EXCEPT !.pc = pc]
      BY <1>0, <3>1, GoUpTyped
    <3> QED
      BY <1>0, <3>1, <3>2 DEF TypeOK
  <2>5. Created' = Created
    BY <1>3, <2>1, <2>4, UploadFrame DEF Created
  <2>6. Confirmed' = Confirmed
    BY <1>3, UploadFrame, ConfirmsNothing
  <2> QED
    BY <2>3, <2>5, <2>6, Invisible
<1>4. ASSUME NEW d \in Deletes, FailRemoveBlob(d) \/ FailDropRow(d)
      PROVE  UNCHANGED <<Downloadable, Retired, Confirmed>>
  <2>1. up' = up /\ home' = home /\ rows' = rows
    BY <1>4 DEF FailRemoveBlob, FailDropRow
  <2>2. PICK pc \in {"notfound", "error"} : GoDel(d, pc)
    BY <1>4 DEF FailRemoveBlob, FailDropRow
  <2>3. /\ del'[d] = [del[d] EXCEPT !.pc = pc] /\ del[d].pc # "deleted"
        /\ \A e \in Deletes : e # d => del'[e] = del[e]
    BY <1>0, <1>4, <2>2, GoDelTyped DEF DeletePC, FailRemoveBlob, FailDropRow
  <2>4. del'[d].pc # "deleted"
    BY <1>0, <2>2, <2>3 DEF TypeOK
  <2>5. Confirmed' = Confirmed
    BY <2>3, <2>4, ConfirmsNothing
  <2>6. (\A j \in Ids : Downloadable'[j] = Downloadable[j]) /\ Created' = Created
    BY <2>1 DEF Downloadable, Created
  <2> QED
    BY <2>5, <2>6, Invisible
<1>5. ASSUME home' = home, rows' = rows,
             \A u \in Uploads : \/ up'[u] = up[u]
                                \/ up[u].pc # "created" /\ up'[u].pc # "created",
             \A d \in Deletes : \/ del'[d] = del[d]
                                \/ del[d].pc # "deleted" /\ del'[d].pc # "deleted"
      PROVE  UNCHANGED <<Downloadable, Retired, Confirmed>>
  <2>1. \A j \in Ids : Downloadable'[j] = Downloadable[j]
    BY <1>5 DEF Downloadable
  <2>2. Created' = Created
    BY <1>5 DEF Created
  <2>3. Confirmed' = Confirmed
    BY <1>5, ConfirmsNothing
  <2> QED
    BY <2>1, <2>2, <2>3, Invisible
<1>6. ASSUME NEW u \in Uploads, NEW i \in Ids, NEW c \in Contents, BeginStage(u, i, c)
      PROVE  UNCHANGED <<Downloadable, Retired, Confirmed>>
  <2>1. \A v \in Uploads : up'[v] = up[v] \/ (up[v].pc # "created" /\ up'[v].pc # "created")
    BY <1>0, <1>6 DEF BeginStage, TypeOK
  <2> QED
    BY <1>5, <1>6, <2>1 DEF BeginStage
<1>7. CASE Crash
  <2>1. \A v \in Uploads : up'[v] = up[v] \/ (up[v].pc # "created" /\ up'[v].pc # "created")
    BY <1>0, <1>7 DEF Crash, TypeOK
  <2>2. \A d \in Deletes : del'[d] = del[d] \/ (del[d].pc # "deleted" /\ del'[d].pc # "deleted")
    BY <1>0, <1>7 DEF Crash, TypeOK
  <2> QED
    BY <1>5, <1>7, <2>1, <2>2 DEF Crash
<1>8. ASSUME NEW d \in Deletes, NEW i \in Ids, BeginDelete(d, i)
      PROVE  UNCHANGED <<Downloadable, Retired, Confirmed>>
  <2>1. \A e \in Deletes : del'[e] = del[e] \/ (del[e].pc # "deleted" /\ del'[e].pc # "deleted")
    BY <1>0, <1>8 DEF BeginDelete, TypeOK
  <2> QED
    BY <1>5, <1>8, <2>1 DEF BeginDelete
<1>9. CASE UNCHANGED <<home, rows, up, del>>
  BY <1>5, <1>9
<1> QED
  BY <1>1, <1>2, <1>3, <1>4, <1>6, <1>7, <1>8, <1>9 DEF Next, vars, DeleteStep,
     ResolveDependent, InsertDependent, AgeStaging, SweepStaging

\* The store of files and rows implements the catalog: archives appear whole
\* under fresh ids, keep their content, never come back once removed, and
\* their removal is confirmed to one delete at most (ImplementsCatalog).
THEOREM RefinesCatalog == Spec => ImplementsCatalog
<1>1. Init => Abstract!Init
  <2> SUFFICES ASSUME Init
               PROVE  Abstract!Init
    OBVIOUS
  <2>1. Downloadable = [i \in Ids |-> None]
    BY DEF Init, Downloadable
  <2>2. Retired = {}
    BY DEF Init, Created, Retired
  <2>3. Confirmed = [i \in Ids |-> {}]
    BY DEF Init, Confirmed
  <2> QED
    BY <2>1, <2>2, <2>3 DEF Abstract!Init
<1>2. Inv /\ [Next]_vars => [Abstract!Next]_(Abstract!vars)
  BY StepRefines DEF Abstract!vars
<1>3. QED
  BY <1>1, <1>2, Invariance, PTL DEF Spec, ImplementsCatalog, Abstract!Spec

=============================================================================
