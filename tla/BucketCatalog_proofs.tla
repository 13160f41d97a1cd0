------------------------ MODULE BucketCatalog_proofs ------------------------
(***************************************************************************)
(* Proofs about BucketCatalog, for any number of ids, contents, handlers   *)
(* and crashes: the inductive invariant behind its safety properties.      *)
(***************************************************************************)
EXTENDS BucketCatalog, TLAPS

\* What excuses a loss: a delete was asked for, or the grace ran out.
Excused(i) == i \in Expired \/ \E d \in Deletes : del[d].id = i

\* What the handler of an upload, or what it left behind, says about its
\* file, its object and its rows.  Every copy holds the content of the
\* upload; a transit row stems from a handler that answered "transit", an
\* index row from one that answered "s3".
UploadOK(u) ==
    LET i == up[u].id  c == up[u].content  pc == up[u].pc IN
    IF i = None THEN pc \in {"idle", "error"}
    ELSE
      /\ pc # "idle" /\ i \in Ids /\ c \in Contents
      /\ staging[i] \in {None, c} /\ bucket[i] \in {None, c}
      /\ transit[i] \in {None, c} /\ meta[i] \in {None, c}
      /\ transit[i] # None => pc = "transit" /\ (staging[i] = c \/ Excused(i))
      /\ meta[i] # None => pc = "s3"
      /\ pc \in {"check", "put", "save"} => staging[i] = c \/ Excused(i)
      /\ pc \in {"meta", "s3"} => bucket[i] = c \/ Excused(i)
      /\ pc = "transit" => Kept(i, c) \/ Excused(i)

UniqueIds ==
    \A u, v \in Uploads : u # v /\ up[u].id # None => up[u].id # up[v].id

\* Nothing is stored under an id that no upload has taken.
StoredIsUploaded ==
    \A i \in Ids :
        \/ bucket[i] # None \/ staging[i] # None \/ transit[i] # None \/ meta[i] # None
        => \E u \in Uploads : up[u].id = i

\* The upload of id i was answered "transit".
InTransit(i) == i \in Ids /\ \E u \in Uploads : up[u].id = i /\ up[u].pc = "transit"

\* RetryOnce works on uploads that were answered "transit" only, with their
\* content, and clears a row only when the object is in the bucket.
RetryOK ==
    /\ \A i \in retry.todo : InTransit(i)
    /\ retry.pc \in {"put", "clean"} =>
         /\ retry.id \in Ids
         /\ \E u \in Uploads : /\ up[u].id = retry.id /\ up[u].pc = "transit"
                               /\ up[u].content = retry.content
    /\ retry.pc = "clean" => bucket[retry.id] = retry.content \/ Excused(retry.id)

DeleteOK(d) == del[d].pc \notin {"idle", "error"} => del[d].id \in Ids
IdleDelete(d) == del[d].pc = "idle" => del[d].id = None

\* A download that missed the bucket looks for an upload in transit.
DownloadOK(w) ==
    /\ down[w].pc \in {"lookup", "file", "notfound"} => InTransit(down[w].id)
    /\ down[w].pc = "notfound" => bucket[down[w].id] # None \/ Excused(down[w].id)

\* The inductive invariant.
Inv ==
    /\ TypeOK
    /\ \A u \in Uploads : UploadOK(u)
    /\ UniqueIds
    /\ StoredIsUploaded
    /\ RetryOK
    /\ \A d \in Deletes : DeleteOK(d) /\ IdleDelete(d)
    /\ \A w \in Downloads : DownloadOK(w)

-----------------------------------------------------------------------------
(* Type correctness *)

UploadState == [pc : UploadPC, id : Maybe(Ids), content : Maybe(Contents)]
DeleteState == [pc : DeletePC, id : Maybe(Ids)]
DownloadState == [pc : DownloadPC, id : Maybe(Ids)]

\* The parts of the type invariant, one by one.
LEMMA Typing ==
    ASSUME TypeOK
    PROVE  /\ bucket \in [Ids -> Maybe(Contents)] /\ staging \in [Ids -> Maybe(Contents)]
           /\ transit \in [Ids -> Maybe(Contents)] /\ meta \in [Ids -> Maybe(Contents)]
           /\ deps \subseteq Ids /\ agedFile \subseteq Ids /\ agedRow \subseteq Ids
           /\ up \in [Uploads -> UploadState]
           /\ del \in [Deletes -> DeleteState]
           /\ down \in [Downloads -> DownloadState]
           /\ retry \in [pc : RetryPC, todo : SUBSET Ids, id : Maybe(Ids),
                         content : Maybe(Contents)]
           /\ crashes \in 0..MaxCrashes
  BY DEF TypeOK, UploadState, DeleteState, DownloadState

\* Moving an upload on changes its program counter only.
LEMMA GoUpTyped ==
    ASSUME TypeOK, NEW u \in Uploads, NEW pc \in UploadPC, GoUp(u, pc)
    PROVE  /\ up' \in [Uploads -> UploadState]
           /\ up'[u].pc = pc /\ up'[u].id = up[u].id /\ up'[u].content = up[u].content
           /\ \A v \in Uploads : v # u => up'[v] = up[v]
<1>1. up \in [Uploads -> UploadState]
  BY Typing
<1>2. [up[u] EXCEPT !.pc = pc] \in UploadState
  BY <1>1 DEF UploadState
<1>3. up'[u] = [up[u] EXCEPT !.pc = pc] /\ up[u] \in UploadState
  BY <1>1 DEF GoUp
<1>4. up'[u].pc = pc /\ up'[u].id = up[u].id /\ up'[u].content = up[u].content
  BY <1>3 DEF UploadState
<1> QED
  BY <1>1, <1>2, <1>4 DEF GoUp

\* The same for a delete handler.
LEMMA GoDelTyped ==
    ASSUME TypeOK, NEW d \in Deletes, NEW pc \in DeletePC, GoDel(d, pc)
    PROVE  /\ del' \in [Deletes -> DeleteState]
           /\ del'[d].pc = pc
           /\ \A e \in Deletes : del'[e].id = del[e].id
           /\ \A e \in Deletes : e # d => del'[e] = del[e]
<1>1. del \in [Deletes -> DeleteState]
  BY Typing
<1>2. [del[d] EXCEPT !.pc = pc] \in DeleteState
  BY <1>1 DEF DeleteState
<1>3. del'[d] = [del[d] EXCEPT !.pc = pc] /\ del[d] \in DeleteState
  BY <1>1 DEF GoDel
<1>4. del'[d].pc = pc /\ del'[d].id = del[d].id
  BY <1>3 DEF DeleteState
<1> QED
  BY <1>1, <1>2, <1>4 DEF GoDel

\* The parts put together after a step.
LEMMA TypingBack ==
    ASSUME /\ bucket' \in [Ids -> Maybe(Contents)] /\ staging' \in [Ids -> Maybe(Contents)]
           /\ transit' \in [Ids -> Maybe(Contents)] /\ meta' \in [Ids -> Maybe(Contents)],
           deps' \subseteq Ids /\ agedFile' \subseteq Ids /\ agedRow' \subseteq Ids,
           up' \in [Uploads -> UploadState],
           del' \in [Deletes -> DeleteState],
           down' \in [Downloads -> DownloadState],
           retry' \in [pc : RetryPC, todo : SUBSET Ids, id : Maybe(Ids),
                       content : Maybe(Contents)],
           crashes' \in 0..MaxCrashes
    PROVE  TypeOK'
  BY DEF TypeOK, UploadState, DeleteState, DownloadState

\* An upload past its first step has an id and a content.
LEMMA UploadBegun ==
    ASSUME Inv, NEW u \in Uploads, UploadStep(u)
    PROVE  up[u].id \in Ids /\ up[u].content \in Contents
  BY DEF Inv, UploadOK, UploadStep, CheckDuplicate, FailCheck, PutObject, FailPut,
     FinishUpload, SaveTransit, FailSave

\* A step of an upload moves its handler on, touches what is stored under
\* its own id only, and writes its own content or nothing there.
LEMMA UploadFrame ==
    ASSUME Inv, NEW u \in Uploads, UploadStep(u)
    PROVE  /\ up' \in [Uploads -> UploadState]
           /\ up'[u].id = up[u].id /\ up'[u].content = up[u].content
           /\ \A v \in Uploads : v # u => up'[v] = up[v]
           /\ up[u].pc \in {"check", "put", "meta", "save"}
           /\ \A j \in Ids : j # up[u].id =>
                 /\ bucket'[j] = bucket[j] /\ staging'[j] = staging[j]
                 /\ transit'[j] = transit[j] /\ meta'[j] = meta[j]
           /\ bucket' \in [Ids -> Maybe(Contents)] /\ staging' \in [Ids -> Maybe(Contents)]
           /\ transit' \in [Ids -> Maybe(Contents)] /\ meta' \in [Ids -> Maybe(Contents)]
           /\ UNCHANGED <<deps, ages, del, down, retry, crashes>>
<1>0. TypeOK
  BY DEF Inv
<1>1. PICK pc \in UploadPC : GoUp(u, pc)
  BY DEF UploadStep, CheckDuplicate, FailCheck, PutObject, FailPut,
     FinishUpload, SaveTransit, FailSave, UploadPC
<1>2. /\ up' \in [Uploads -> UploadState]
      /\ up'[u].id = up[u].id /\ up'[u].content = up[u].content
      /\ \A v \in Uploads : v # u => up'[v] = up[v]
  BY <1>0, <1>1, GoUpTyped
<1>3. up[u].pc \in {"check", "put", "meta", "save"}
  BY DEF UploadStep, CheckDuplicate, FailCheck, PutObject, FailPut,
     FinishUpload, SaveTransit, FailSave
<1>4. UNCHANGED <<deps, ages, del, down, retry, crashes>>
  BY DEF UploadStep, CheckDuplicate, FailCheck, PutObject, FailPut,
     FinishUpload, SaveTransit, FailSave, stores, ages
<1>5. up[u].id \in Ids /\ up[u].content \in Contents
  BY UploadBegun
<1>6. /\ \E x \in Maybe(Contents) : bucket' = [bucket EXCEPT ![up[u].id] = x]
      /\ \E x \in Maybe(Contents) : staging' = [staging EXCEPT ![up[u].id] = x]
      /\ \E x \in Maybe(Contents) : transit' = [transit EXCEPT ![up[u].id] = x]
      /\ \E x \in Maybe(Contents) : meta' = [meta EXCEPT ![up[u].id] = x]
  <2>1. /\ bucket = [bucket EXCEPT ![up[u].id] = bucket[up[u].id]]
        /\ staging = [staging EXCEPT ![up[u].id] = staging[up[u].id]]
        /\ transit = [transit EXCEPT ![up[u].id] = transit[up[u].id]]
        /\ meta = [meta EXCEPT ![up[u].id] = meta[up[u].id]]
        /\ bucket[up[u].id] \in Maybe(Contents) /\ staging[up[u].id] \in Maybe(Contents)
        /\ transit[up[u].id] \in Maybe(Contents) /\ meta[up[u].id] \in Maybe(Contents)
    BY <1>0, <1>5, Typing
  <2>2. None \in Maybe(Contents) /\ up[u].content \in Maybe(Contents)
    BY <1>5 DEF Maybe
  <2> QED
    BY <2>1, <2>2 DEF UploadStep, CheckDuplicate, FailCheck, PutObject, FailPut,
       FinishUpload, SaveTransit, FailSave, Discard, stores
<1>7. /\ bucket \in [Ids -> Maybe(Contents)] /\ staging \in [Ids -> Maybe(Contents)]
      /\ transit \in [Ids -> Maybe(Contents)] /\ meta \in [Ids -> Maybe(Contents)]
  BY <1>0, Typing
<1> QED
  BY <1>2, <1>3, <1>4, <1>5, <1>6, <1>7

-----------------------------------------------------------------------------
(* What never comes back: requests, ages, answers *)

\* The steps of the handlers and loops other than uploads and crashes.
Background ==
    \/ \E d \in Deletes : DeleteStep(d) \/ FailHead(d) \/ \E i \in Ids : HeadObject(d, i)
    \/ \E w \in Downloads : OpenTransit(w) \/ \E i \in Ids : GetObject(w, i)
    \/ RetryStep
    \/ \E i \in Ids : \/ AddDependent(i) \/ AgeFile(i) \/ AgeRow(i)
                      \/ SweepRow(i) \/ SweepFile(i)

\* A delete handler keeps its id, and one that begins had none.
LEMMA DeletesStay ==
    ASSUME Inv, [Next]_vars, NEW d \in Deletes, del[d].id \in Ids
    PROVE  del'[d].id = del[d].id
<1> USE NoneAssumption
<1>0. TypeOK /\ IdleDelete(d) /\ del \in [Deletes -> DeleteState]
  BY Typing DEF Inv
<1>1. CASE UNCHANGED del
  BY <1>1
<1>2. ASSUME NEW e \in Deletes, DeleteStep(e)
      PROVE  del'[d].id = del[d].id
  <2>1. PICK pc \in DeletePC : GoDel(e, pc)
    BY <1>2 DEF DeleteStep, RemoveObject, FailRemoveObject, LookupTransit,
       RemoveTransit, DropDependents, DeletePC
  <2> QED
    BY <1>0, <2>1, GoDelTyped
<1>3. ASSUME NEW e \in Deletes, NEW j \in Ids, HeadObject(e, j)
      PROVE  del'[d].id = del[d].id
  <2>1. e # d
    BY <1>0, <1>3 DEF HeadObject, IdleDelete
  <2> QED
    BY <1>0, <1>3, <2>1 DEF HeadObject
<1>4. CASE Crash
  BY <1>0, <1>4 DEF Crash, DeleteState
<1>5. ASSUME NEW e \in Deletes, FailHead(e)
      PROVE  del'[d].id = del[d].id
  BY <1>0, <1>5, GoDelTyped DEF FailHead, DeletePC
<1> QED
  BY <1>1, <1>2, <1>3, <1>4, <1>5 DEF Next, UploadStep, vars, handlers, FailStage, StageUpload,
     CheckDuplicate, FailCheck, PutObject, FailPut, FinishUpload, SaveTransit, FailSave,
     OpenTransit, GetObject, RetryStep, RetryList, FailRetryPut, RetryClean, RetryEnd,
     RetryOpen, RetryPut, AddDependent, AgeFile, AgeRow, SweepRow, SweepFile

\* The sweep and the clock never make an expired archive young again.
LEMMA ExpiredStays ==
    ASSUME [Next]_vars
    PROVE  agedFile \subseteq agedFile' /\ agedRow \subseteq agedRow'
  BY DEF Next, UploadStep, vars, ages, FailStage, StageUpload,
     CheckDuplicate, FailCheck, PutObject, FailPut, FinishUpload, SaveTransit, FailSave,
     OpenTransit, GetObject, RetryStep, RetryList, FailRetryPut, RetryClean, RetryEnd,
     RetryOpen, RetryPut, AddDependent, AgeFile, AgeRow, SweepRow, SweepFile,
     DeleteStep, RemoveObject, FailRemoveObject, LookupTransit,
     RemoveTransit, DropDependents, HeadObject, FailHead, Crash

\* An excuse is for good.
LEMMA ExcusedStays ==
    ASSUME Inv, [Next]_vars, NEW i \in Ids, Excused(i)
    PROVE  Excused(i)'
  BY DeletesStay, ExpiredStays DEF Excused, Expired

\* Only uploads and crashes move upload handlers, and no other step writes
\* the index.
LEMMA BackgroundFrame ==
    ASSUME Background
    PROVE  UNCHANGED <<up, meta, crashes>>
  BY DEF Background, stores, handlers, DeleteStep, RemoveObject, FailRemoveObject,
     LookupTransit, RemoveTransit, DropDependents, HeadObject, FailHead,
     OpenTransit, GetObject, RetryStep, RetryList, FailRetryPut, RetryClean, RetryEnd,
     RetryOpen, RetryPut, AddDependent, AgeFile, AgeRow, SweepRow, SweepFile

\* A crash leaves the stores alone and cuts handlers short.
LEMMA CrashEffect ==
    ASSUME Inv, Crash
    PROVE  /\ UNCHANGED <<stores, ages>> /\ retry' = RetryIdle
           /\ up' \in [Uploads -> UploadState]
           /\ \A u \in Uploads :
                 /\ up'[u].id = up[u].id /\ up'[u].content = up[u].content
                 /\ \/ up'[u].pc = up[u].pc
                    \/ up'[u].pc = "crashed" /\ up[u].pc \notin {"idle", "s3", "transit", "error"}
           /\ del' \in [Deletes -> DeleteState]
           /\ \A d \in Deletes :
                 /\ del'[d].id = del[d].id
                 /\ \A pc \in {"idle", "error"} : del'[d].pc = pc <=> del[d].pc = pc
           /\ down' \in [Downloads -> DownloadState]
           /\ \A w \in Downloads :
                 down'[w] = down[w] \/ down'[w].pc = "crashed"
<1>0. /\ up \in [Uploads -> UploadState] /\ del \in [Deletes -> DeleteState]
      /\ down \in [Downloads -> DownloadState]
  BY Typing DEF Inv
<1>1. UNCHANGED <<stores, ages>> /\ retry' = RetryIdle
  BY DEF Crash
<1>2. ASSUME NEW u \in Uploads
      PROVE  /\ up'[u] \in UploadState
             /\ up'[u].id = up[u].id /\ up'[u].content = up[u].content
             /\ \/ up'[u].pc = up[u].pc
                \/ up'[u].pc = "crashed" /\ up[u].pc \notin {"idle", "s3", "transit", "error"}
  BY <1>0 DEF Crash, UploadState, UploadPC
<1>3. ASSUME NEW d \in Deletes
      PROVE  /\ del'[d] \in DeleteState
             /\ del'[d].id = del[d].id
             /\ \A pc \in {"idle", "error"} : del'[d].pc = pc <=> del[d].pc = pc
  BY <1>0 DEF Crash, DeleteState, DeletePC
<1>4. ASSUME NEW w \in Downloads
      PROVE  /\ down'[w] \in DownloadState
             /\ down'[w] = down[w] \/ down'[w].pc = "crashed"
  BY <1>0 DEF Crash, DownloadState, DownloadPC
<1>5. /\ up' = [u \in Uploads |-> up'[u]] /\ del' = [d \in Deletes |-> del'[d]]
      /\ down' = [w \in Downloads |-> down'[w]]
  BY DEF Crash
<1> QED
  BY <1>1, <1>2, <1>3, <1>4, <1>5

\* An upload that was answered "transit" stays so answered.
LEMMA TransitAnswerStays ==
    ASSUME Inv, [Next]_vars, NEW u \in Uploads, up[u].pc = "transit"
    PROVE  up'[u].pc = "transit" /\ up'[u].id = up[u].id /\ up'[u].content = up[u].content
<1>0. TypeOK /\ up \in [Uploads -> UploadState]
  BY Typing DEF Inv
<1>1. ASSUME NEW v \in Uploads, UploadStep(v)
      PROVE  up'[u] = up[u]
  BY <1>1, UploadFrame
<1>2. ASSUME NEW v \in Uploads, FailStage(v)
      PROVE  up'[u] = up[u]
  BY <1>0, <1>2, GoUpTyped DEF FailStage, UploadPC
<1>3. ASSUME NEW v \in Uploads, NEW i \in Ids, NEW c \in Contents, StageUpload(v, i, c)
      PROVE  up'[u] = up[u]
  BY <1>0, <1>3 DEF StageUpload
<1>4. CASE Crash
  BY <1>4, CrashEffect
<1>5. CASE Background
  BY <1>5, BackgroundFrame
<1>6. CASE UNCHANGED vars
  BY <1>6 DEF vars, handlers
<1> QED
  BY <1>1, <1>2, <1>3, <1>4, <1>5, <1>6 DEF Next, Background

\* So does the id it was answered with.
LEMMA InTransitStays ==
    ASSUME Inv, [Next]_vars, NEW i, InTransit(i)
    PROVE  InTransit(i)'
  BY TransitAnswerStays DEF InTransit

-----------------------------------------------------------------------------
(* What the deletes, the retry loop and the sweep do to one archive *)

Same(j) == bucket'[j] = bucket[j] /\ staging'[j] = staging[j] /\ transit'[j] = transit[j]

\* A delete or the sweep takes something away.
Loses(j) ==
    /\ Excused(j)
    /\ bucket'[j] \in {None, bucket[j]} /\ staging'[j] \in {None, staging[j]}
    /\ transit'[j] \in {None, transit[j]}

\* The retry loop copies the file, whether or not it hears of the success.
Copies(j) ==
    /\ retry.pc = "put" /\ retry.id = j /\ bucket'[j] = retry.content
    /\ staging'[j] = staging[j] /\ transit'[j] = transit[j]

\* The retry loop drops the row of a copied archive, and its file if it can.
Clears(j) ==
    /\ retry.pc = "clean" /\ retry.id = j /\ bucket'[j] = bucket[j]
    /\ staging'[j] \in {None, staging[j]} /\ transit'[j] = None

\* These are all the ways in which they touch an archive; DeleteTransit in
\* particular takes a file only together with the row it belongs to.
LEMMA BackgroundEffect ==
    ASSUME Inv, Background, NEW j \in Ids
    PROVE  Same(j) \/ Loses(j) \/ Copies(j) \/ Clears(j)
<1>0. /\ bucket \in [Ids -> Maybe(Contents)] /\ staging \in [Ids -> Maybe(Contents)]
      /\ transit \in [Ids -> Maybe(Contents)] /\ meta \in [Ids -> Maybe(Contents)]
  BY Typing DEF Inv
<1>1. ASSUME NEW d \in Deletes, DeleteStep(d)
      PROVE  Same(j) \/ Loses(j)
  <2>1. del[d].id = j => Excused(j)
    BY DEF Excused
  <2> QED
    BY <1>0, <1>1, <2>1 DEF DeleteStep, RemoveObject, FailRemoveObject, LookupTransit,
       RemoveTransit, DropDependents, ClearTransit, Discard, stores, Same, Loses
<1>2. ASSUME NEW d \in Deletes, FailHead(d) \/ \E i \in Ids : HeadObject(d, i)
      PROVE  Same(j)
  BY <1>2 DEF FailHead, HeadObject, stores, Same
<1>3. ASSUME NEW w \in Downloads, OpenTransit(w) \/ \E i \in Ids : GetObject(w, i)
      PROVE  Same(j)
  BY <1>3 DEF OpenTransit, GetObject, stores, Same
<1>4. CASE RetryStep
  BY <1>0, <1>4 DEF RetryStep, RetryList, FailRetryPut, RetryClean, RetryEnd,
     RetryOpen, RetryPut, ClearTransit, Discard, stores, Same, Copies, Clears
<1>5. ASSUME NEW i \in Ids, AddDependent(i) \/ AgeFile(i) \/ AgeRow(i)
      PROVE  Same(j)
  BY <1>5 DEF AddDependent, AgeFile, AgeRow, stores, Same
<1>6. ASSUME NEW i \in Ids, SweepRow(i) \/ SweepFile(i)
      PROVE  Same(j) \/ Loses(j)
  <2>1. i = j => Excused(j)
    BY <1>6 DEF SweepRow, SweepFile, Excused, Expired
  <2> QED
    BY <1>0, <1>6, <2>1 DEF SweepRow, SweepFile, ClearTransit, Discard, Same, Loses
<1> QED
  BY <1>1, <1>2, <1>3, <1>4, <1>5, <1>6 DEF Background

\* What the retry loop has at hand is the content of the upload of that id.
LEMMA RetryContent ==
    ASSUME Inv, NEW u \in Uploads, up[u].id \in Ids, retry.id = up[u].id,
           retry.pc \in {"put", "clean"}
    PROVE  retry.content = up[u].content /\ up[u].pc = "transit"
<1>1. PICK v \in Uploads : /\ up[v].id = retry.id /\ up[v].pc = "transit"
                           /\ up[v].content = retry.content
  BY DEF Inv, RetryOK
<1>2. v = u
  BY <1>1, NoneAssumption DEF Inv, UniqueIds
<1> QED
  BY <1>1, <1>2

-----------------------------------------------------------------------------
(* Uploads *)

\* An upload is not disturbed by a step that leaves its handler and what is
\* stored under its id alone.
LEMMA UploadKept ==
    ASSUME Inv, [Next]_vars, NEW u \in Uploads, up'[u] = up[u],
           up[u].id \in Ids => Same(up[u].id) /\ meta'[up[u].id] = meta[up[u].id]
    PROVE  UploadOK(u)'
<1>1. UploadOK(u)
  BY DEF Inv
<1>2. ASSUME NEW i \in Ids, up[u].id = i
      PROVE  UploadOK(u)'
  <2>1. Excused(i) => Excused(i)'
    BY ExcusedStays
  <2> QED
    BY <1>1, <1>2, <2>1 DEF UploadOK, Same, Kept, Excused, Expired
<1>3. CASE up[u].id = None
  BY <1>1, <1>3, NoneAssumption DEF UploadOK
<1> QED
  BY <1>1, <1>2, <1>3 DEF UploadOK

\* A handler's own steps: stage, check, put, and the row after a failed put
\* or the index after a successful one, in the order the invariant relies on.
LEMMA UploadActs ==
    ASSUME Inv, [Next]_vars, NEW u \in Uploads, UploadStep(u)
    PROVE  UploadOK(u)'
<1> USE NoneAssumption DEF UploadPC
<1>0. TypeOK /\ UploadOK(u)
  BY DEF Inv
<1>1. PICK i \in Ids, c \in Contents : up[u].id = i /\ up[u].content = c
  BY UploadBegun
<1>2. up'[u].id = i /\ up'[u].content = c
  BY <1>1, UploadFrame
<1>3. Excused(i) => Excused(i)'
  BY ExcusedStays
<1>4. /\ bucket \in [Ids -> Maybe(Contents)] /\ staging \in [Ids -> Maybe(Contents)]
      /\ transit \in [Ids -> Maybe(Contents)] /\ meta \in [Ids -> Maybe(Contents)]
  BY <1>0, Typing
<1>5. /\ staging[i] \in {None, c} /\ bucket[i] \in {None, c}
      /\ transit[i] = None /\ meta[i] = None
      /\ up[u].pc # "meta" => staging[i] = c \/ Excused(i)
      /\ up[u].pc = "meta" => bucket[i] = c \/ Excused(i)
  BY <1>0, <1>1, UploadFrame DEF UploadOK
<1> DEFINE OK(pc) ==
      /\ pc # "idle"
      /\ staging'[i] \in {None, c} /\ bucket'[i] \in {None, c}
      /\ transit'[i] \in {None, c} /\ meta'[i] \in {None, c}
      /\ transit'[i] # None => pc = "transit" /\ (staging'[i] = c \/ Excused(i)')
      /\ meta'[i] # None => pc = "s3"
      /\ pc \in {"check", "put", "save"} => staging'[i] = c \/ Excused(i)'
      /\ pc \in {"meta", "s3"} => bucket'[i] = c \/ Excused(i)'
      /\ pc = "transit" => \/ bucket'[i] = c \/ Excused(i)'
                           \/ transit'[i] = c /\ staging'[i] = c
<1>6. OK(up'[u].pc)
  <2>1. CASE CheckDuplicate(u)
    <3>1. CASE Known(c) # {}
      <4>1. up'[u].pc = "duplicate"
        BY <1>0, <1>1, <2>1, <3>1, GoUpTyped DEF CheckDuplicate
      <4> QED
        BY <1>1, <1>4, <1>5, <2>1, <3>1, <4>1 DEF CheckDuplicate, Discard
    <3>2. CASE Known(c) = {}
      <4>1. up'[u].pc = "put"
        BY <1>0, <1>1, <2>1, <3>2, GoUpTyped DEF CheckDuplicate
      <4> QED
        BY <1>1, <1>3, <1>5, <2>1, <3>2, <4>1 DEF CheckDuplicate
    <3> QED
      BY <3>1, <3>2
  <2>2. CASE FailCheck(u)
    <3>1. up'[u].pc = "error"
      BY <1>0, <2>2, GoUpTyped DEF FailCheck
    <3> QED
      BY <1>1, <1>4, <1>5, <2>2, <3>1 DEF FailCheck, Discard
  <2>3. CASE PutObject(u)
    <3>1. up'[u].pc = "meta"
      BY <1>0, <2>3, GoUpTyped DEF PutObject
    <3> QED
      BY <1>1, <1>4, <1>5, <2>3, <3>1 DEF PutObject
  <2>4. CASE FailPut(u)
    <3>1. up'[u].pc = "save"
      BY <1>0, <2>4, GoUpTyped DEF FailPut
    <3> QED
      BY <1>1, <1>3, <1>4, <1>5, <2>4, <3>1 DEF FailPut
  <2>5. CASE FinishUpload(u)
    <3>1. up'[u].pc = "s3"
      BY <1>0, <2>5, GoUpTyped DEF FinishUpload
    <3> QED
      BY <1>1, <1>3, <1>4, <1>5, <2>5, <3>1 DEF FinishUpload, Discard
  <2>6. CASE SaveTransit(u)
    <3>1. up'[u].pc = "transit"
      BY <1>0, <2>6, GoUpTyped DEF SaveTransit
    <3> QED
      BY <1>1, <1>3, <1>4, <1>5, <2>6, <3>1 DEF SaveTransit
  <2>7. CASE FailSave(u)
    <3>1. up'[u].pc = "error"
      BY <1>0, <2>7, GoUpTyped DEF FailSave
    <3> QED
      BY <1>5, <2>7, <3>1 DEF FailSave, stores
  <2> QED
    BY <2>1, <2>2, <2>3, <2>4, <2>5, <2>6, <2>7 DEF UploadStep
<1> QED
  BY <1>2, <1>6 DEF UploadOK, Kept, Excused, Expired

\* Deletes, retries and the sweep leave each upload explained: what they
\* take is excused or is in the bucket, what they write is its content.
LEMMA BackgroundKeeps ==
    ASSUME Inv, [Next]_vars, Background, NEW u \in Uploads
    PROVE  UploadOK(u)'
<1> USE NoneAssumption
<1>0. UploadOK(u) /\ up' = up /\ meta' = meta
  BY BackgroundFrame DEF Inv
<1>1. CASE up[u].id = None
  BY <1>0, <1>1 DEF UploadOK
<1>2. ASSUME NEW i \in Ids, up[u].id = i
      PROVE  UploadOK(u)'
  <2>1. Excused(i) => Excused(i)'
    BY ExcusedStays
  <2>2. CASE Same(i)
    BY <1>0, <1>2, <2>2, UploadKept
  <2>3. CASE Loses(i)
    BY <1>0, <1>2, <2>1, <2>3 DEF Loses, UploadOK, Kept, Excused, Expired
  <2>4. CASE Copies(i)
    <3>1. retry.content = up[u].content /\ up[u].pc = "transit"
      BY <1>2, <2>4, RetryContent DEF Copies
    <3> QED
      BY <1>0, <1>2, <2>1, <2>4, <3>1 DEF Copies, UploadOK, Kept, Excused, Expired
  <2>5. CASE Clears(i)
    <3>1. retry.content = up[u].content /\ up[u].pc = "transit"
      BY <1>2, <2>5, RetryContent DEF Clears
    <3>2. bucket[i] = up[u].content \/ Excused(i)
      BY <1>2, <2>5, <3>1 DEF Clears, Inv, RetryOK
    <3> QED
      BY <1>0, <1>2, <2>1, <2>5, <3>1, <3>2 DEF Clears, UploadOK, Kept, Excused, Expired
  <2> QED
    BY <2>2, <2>3, <2>4, <2>5, BackgroundEffect
<1> QED
  BY <1>0, <1>1, <1>2 DEF UploadOK

\* What staging does: it takes an id under which nothing is stored.
LEMMA StageEffect ==
    ASSUME Inv, NEW v \in Uploads, NEW i \in Ids, NEW c \in Contents, StageUpload(v, i, c)
    PROVE  /\ \A u \in Uploads : up[u].id # i
           /\ bucket[i] = None /\ transit[i] = None /\ meta[i] = None
           /\ up'[v].pc = "check" /\ up'[v].id = i /\ up'[v].content = c
           /\ up[v].id = None
           /\ \A u \in Uploads : u # v => up'[u] = up[u]
           /\ up' \in [Uploads -> UploadState]
           /\ staging' \in [Ids -> Maybe(Contents)] /\ staging'[i] = c
           /\ \A j \in Ids : j # i => staging'[j] = staging[j]
           /\ UNCHANGED <<bucket, transit, meta, deps, ages, del, down, retry, crashes>>
<1>0. /\ up \in [Uploads -> UploadState] /\ staging \in [Ids -> Maybe(Contents)]
      /\ UploadOK(v) /\ StoredIsUploaded
  BY Typing DEF Inv
<1>1. \A u \in Uploads : up[u].id # i
  BY DEF StageUpload
<1>2. bucket[i] = None /\ transit[i] = None /\ meta[i] = None
  BY <1>0, <1>1 DEF StoredIsUploaded
<1>3. up[v].id = None
  BY <1>0 DEF StageUpload, UploadOK
<1>4. [pc |-> "check", id |-> i, content |-> c] \in UploadState
  BY DEF UploadState, UploadPC, Maybe
<1>5. /\ UNCHANGED <<bucket, transit, meta, deps, ages, del, down, retry, crashes>>
      /\ up' = [up EXCEPT ![v] = [pc |-> "check", id |-> i, content |-> c]]
      /\ staging' = [staging EXCEPT ![i] = c]
  BY DEF StageUpload
<1> QED
  BY <1>0, <1>1, <1>2, <1>3, <1>4, <1>5 DEF Maybe

\* Every step preserves what is known about every upload.
LEMMA UploadsStep ==
    ASSUME Inv, [Next]_vars, NEW u \in Uploads
    PROVE  UploadOK(u)'
<1> USE NoneAssumption
<1>0. TypeOK /\ UploadOK(u) /\ UniqueIds
  BY DEF Inv
<1>1. ASSUME NEW v \in Uploads, UploadStep(v)
      PROVE  UploadOK(u)'
  <2>1. CASE v = u
    BY <1>1, <2>1, UploadActs
  <2>2. CASE v # u
    <3>1. up[u].id \in Ids => up[u].id # up[v].id
      BY <1>0, <2>2 DEF UniqueIds
    <3> QED
      BY <1>1, <2>2, <3>1, UploadFrame, UploadKept DEF Same
  <2> QED
    BY <2>1, <2>2
<1>2. ASSUME NEW v \in Uploads, FailStage(v)
      PROVE  UploadOK(u)'
  <2>1. UNCHANGED stores
    BY <1>2 DEF FailStage
  <2>2. CASE v = u
    <3>1. up'[u].pc = "error" /\ up'[u].id = up[u].id
      BY <1>0, <1>2, <2>2, GoUpTyped DEF FailStage, UploadPC
    <3>2. up[u].id = None
      BY <1>0, <1>2, <2>2 DEF FailStage, UploadOK
    <3> QED
      BY <3>1, <3>2 DEF UploadOK
  <2>3. CASE v # u
    <3>1. up'[u] = up[u]
      BY <1>0, <1>2, <2>3, GoUpTyped DEF FailStage, UploadPC
    <3> QED
      BY <2>1, <3>1, UploadKept DEF stores, Same
  <2> QED
    BY <2>2, <2>3
<1>3. ASSUME NEW v \in Uploads, NEW i \in Ids, NEW c \in Contents, StageUpload(v, i, c)
      PROVE  UploadOK(u)'
  <2>0. /\ \A w \in Uploads : up[w].id # i
        /\ bucket[i] = None /\ transit[i] = None /\ meta[i] = None
        /\ up'[v].pc = "check" /\ up'[v].id = i /\ up'[v].content = c
        /\ \A w \in Uploads : w # v => up'[w] = up[w]
        /\ staging'[i] = c
        /\ \A j \in Ids : j # i => staging'[j] = staging[j]
        /\ bucket' = bucket /\ transit' = transit /\ meta' = meta
    BY <1>3, StageEffect
  <2>1. CASE v = u
    BY <2>0, <2>1 DEF UploadOK
  <2>2. CASE v # u
    <3>1. up'[u] = up[u] /\ up[u].id # i
      BY <2>0, <2>2
    <3>2. up[u].id \in Ids => Same(up[u].id) /\ meta'[up[u].id] = meta[up[u].id]
      BY <2>0, <3>1 DEF Same
    <3> QED
      BY <3>1, <3>2, UploadKept
  <2> QED
    BY <2>1, <2>2
<1>4. CASE Crash
  <2>1. CASE up'[u] = up[u]
    BY <1>4, <2>1, CrashEffect, UploadKept DEF stores, Same
  <2>2. CASE up'[u].pc = "crashed" /\ up[u].pc \notin {"idle", "s3", "transit", "error"}
    <3>1. UNCHANGED stores /\ up'[u].id = up[u].id /\ up'[u].content = up[u].content
      BY <1>4, CrashEffect
    <3> QED
      BY <1>0, <2>2, <3>1 DEF UploadOK, stores
  <2>3. up[u] \in UploadState /\ up'[u] \in UploadState
    BY <1>0, <1>4, CrashEffect, Typing
  <2>4. up'[u].id = up[u].id /\ up'[u].content = up[u].content
    BY <1>4, CrashEffect
  <2>5. up'[u].pc = up[u].pc => up'[u] = up[u]
    BY <2>3, <2>4 DEF UploadState
  <2>6. \/ up'[u].pc = up[u].pc
        \/ up'[u].pc = "crashed" /\ up[u].pc \notin {"idle", "s3", "transit", "error"}
    BY <1>4, CrashEffect
  <2> QED
    BY <2>1, <2>2, <2>5, <2>6
<1>5. CASE Background
  BY <1>5, BackgroundKeeps
<1>6. CASE UNCHANGED vars
  BY <1>6, UploadKept DEF vars, stores, handlers, Same
<1> QED
  BY <1>1, <1>2, <1>3, <1>4, <1>5, <1>6 DEF Next, Background

-----------------------------------------------------------------------------
(* The other conjuncts of the invariant *)

\* How a step changes the ids of uploads: not at all, or one upload takes a
\* free id for a file of its own.
LEMMA IdsStep ==
    ASSUME Inv, [Next]_vars
    PROVE  \/ \A u \in Uploads : up'[u].id = up[u].id
           \/ \E v \in Uploads, i \in Ids, c \in Contents : StageUpload(v, i, c)
<1>0. TypeOK
  BY DEF Inv
<1>1. ASSUME NEW v \in Uploads, UploadStep(v)
      PROVE  \A u \in Uploads : up'[u].id = up[u].id
  BY <1>1, UploadFrame
<1>2. ASSUME NEW v \in Uploads, FailStage(v)
      PROVE  \A u \in Uploads : up'[u].id = up[u].id
  BY <1>0, <1>2, GoUpTyped DEF FailStage, UploadPC
<1>3. CASE Crash
  BY <1>3, CrashEffect
<1>4. CASE Background
  BY <1>4, BackgroundFrame
<1>5. CASE UNCHANGED vars
  BY <1>5 DEF vars, handlers
<1> QED
  BY <1>1, <1>2, <1>3, <1>4, <1>5 DEF Next, Background

\* uniqueObjectKey and the fresh archive id keep uploads apart.
LEMMA UniqueIdsStep ==
    ASSUME Inv, [Next]_vars
    PROVE  UniqueIds'
<1>0. UniqueIds
  BY DEF Inv
<1>1. CASE \A u \in Uploads : up'[u].id = up[u].id
  BY <1>0, <1>1 DEF UniqueIds
<1>2. ASSUME NEW v \in Uploads, NEW i \in Ids, NEW c \in Contents, StageUpload(v, i, c)
      PROVE  UniqueIds'
  <2>1. /\ \A w \in Uploads : up[w].id # i
        /\ up'[v].id = i
        /\ \A w \in Uploads : w # v => up'[w].id = up[w].id
    BY <1>2, StageEffect
  <2> QED
    BY <1>0, <2>1 DEF UniqueIds
<1> QED
  BY <1>1, <1>2, IdsStep

\* No store gets a file, an object or a row of an id that no upload has.
LEMMA StoredStep ==
    ASSUME Inv, [Next]_vars
    PROVE  StoredIsUploaded'
<1>0. StoredIsUploaded
  BY DEF Inv
<1> SUFFICES ASSUME NEW j \in Ids, \A u \in Uploads : up'[u].id # j
             PROVE  /\ bucket'[j] = None /\ staging'[j] = None
                    /\ transit'[j] = None /\ meta'[j] = None
  BY DEF StoredIsUploaded
<1>1. CASE \A u \in Uploads : up'[u].id = up[u].id
  <2>1. /\ bucket[j] = None /\ staging[j] = None /\ transit[j] = None /\ meta[j] = None
        /\ \A u \in Uploads : up[u].id # j
    BY <1>0, <1>1 DEF StoredIsUploaded
  <2>2. ASSUME NEW v \in Uploads, UploadStep(v)
        PROVE  Same(j) /\ meta'[j] = meta[j]
    BY <2>1, <2>2, UploadFrame DEF Same
  <2>3. ASSUME NEW v \in Uploads, FailStage(v)
        PROVE  Same(j) /\ meta'[j] = meta[j]
    BY <2>3 DEF FailStage, stores, Same
  <2>4. ASSUME NEW v \in Uploads, NEW i \in Ids, NEW c \in Contents, StageUpload(v, i, c)
        PROVE  Same(j) /\ meta'[j] = meta[j]
    <3>1. up'[v].id = i
      BY <2>4, StageEffect
    <3>2. i # j
      BY <3>1
    <3> QED
      BY <2>4, <3>2, StageEffect DEF Same
  <2>5. CASE Crash
    BY <2>1, <2>5 DEF Crash, stores
  <2>6. CASE Background
    <3>1. ~Copies(j)
      BY <2>1 DEF Copies, Inv, RetryOK
    <3>2. Same(j) \/ Loses(j) \/ Clears(j)
      BY <2>6, <3>1, BackgroundEffect
    <3> QED
      BY <2>1, <2>6, <3>2, BackgroundFrame DEF Same, Loses, Clears
  <2>7. CASE UNCHANGED vars
    BY <2>1, <2>7 DEF vars, stores
  <2> QED
    BY <2>1, <2>2, <2>3, <2>4, <2>5, <2>6, <2>7 DEF Next, Background, Same
<1>2. ASSUME NEW v \in Uploads, NEW i \in Ids, NEW c \in Contents, StageUpload(v, i, c)
      PROVE  /\ bucket'[j] = None /\ staging'[j] = None
             /\ transit'[j] = None /\ meta'[j] = None
  <2>1. /\ up'[v].id = i /\ up[v].id = None
        /\ \A w \in Uploads : w # v => up'[w] = up[w]
        /\ \A k \in Ids : k # i => staging'[k] = staging[k]
        /\ bucket' = bucket /\ transit' = transit /\ meta' = meta
    BY <1>2, StageEffect
  <2>2. j # i /\ \A u \in Uploads : up[u].id # j
    BY <2>1, NoneAssumption
  <2> QED
    BY <1>0, <2>1, <2>2 DEF StoredIsUploaded
<1> QED
  BY <1>1, <1>2, IdsStep

\* An object goes away by a delete only.
LEMMA ObjectLeaves ==
    ASSUME Inv, [Next]_vars, NEW j \in Ids, bucket[j] # None, bucket'[j] # bucket[j],
           InTransit(j)
    PROVE  Excused(j)
<1>0. PICK u \in Uploads : up[u].id = j /\ up[u].pc = "transit"
  BY DEF InTransit
<1>1. ASSUME NEW v \in Uploads, UploadStep(v)
      PROVE  FALSE
  <2>1. v # u /\ up[v].id = j
    BY <1>0, <1>1, UploadFrame
  <2> QED
    BY <1>0, <2>1, NoneAssumption DEF Inv, UniqueIds
<1>2. CASE Background
  <2>1. ~Copies(j)
    <3>1. SUFFICES ASSUME Copies(j) PROVE FALSE
      OBVIOUS
    <3>2. bucket'[j] = up[u].content
      BY <1>0, <3>1, RetryContent DEF Copies
    <3>3. bucket[j] = up[u].content
      BY <1>0, NoneAssumption DEF Inv, UploadOK
    <3> QED
      BY <3>2, <3>3
  <2> QED
    BY <1>2, <2>1, BackgroundEffect DEF Same, Loses, Clears
<1> QED
  BY <1>1, <1>2 DEF Next, Background, vars, stores, FailStage, StageUpload, Crash

\* RetryOnce lists, opens, puts and cleans in an order in which nothing it
\* holds becomes wrong, whatever the handlers and the sweep do meanwhile.
LEMMA RetryStepOK ==
    ASSUME Inv, [Next]_vars
    PROVE  RetryOK'
<1> USE NoneAssumption
<1>0. /\ TypeOK /\ RetryOK
      /\ retry \in [pc : RetryPC, todo : SUBSET Ids, id : Maybe(Ids), content : Maybe(Contents)]
  BY Typing DEF Inv
<1>1. CASE UNCHANGED retry
  <2>1. ASSUME NEW i \in retry'.todo
        PROVE  InTransit(i)'
    BY <1>0, <1>1, <2>1, InTransitStays DEF RetryOK
  <2>2. ASSUME retry'.pc \in {"put", "clean"}
        PROVE  /\ retry'.id \in Ids
               /\ \E u \in Uploads : /\ up'[u].id = retry'.id /\ up'[u].pc = "transit"
                                     /\ up'[u].content = retry'.content
    BY <1>0, <1>1, <2>2, TransitAnswerStays DEF RetryOK
  <2>3. ASSUME retry'.pc = "clean"
        PROVE  bucket'[retry'.id] = retry'.content \/ Excused(retry.id)'
    <3>1. PICK i \in Ids : i = retry.id
      BY <1>0, <1>1, <2>3 DEF RetryOK
    <3>2. Excused(i) => Excused(i)'
      BY ExcusedStays
    <3>3. CASE bucket[i] = retry.content
      <4>1. PICK u \in Uploads : /\ up[u].id = i /\ up[u].pc = "transit"
                                 /\ up[u].content = retry.content
        BY <1>0, <1>1, <2>3, <3>1 DEF RetryOK
      <4>2. InTransit(i) /\ up[u].content \in Contents
        BY <4>1 DEF InTransit, Inv, UploadOK
      <4>3. bucket'[i] # bucket[i] => Excused(i)
        BY <3>3, <4>1, <4>2, ObjectLeaves
      <4> QED
        BY <1>1, <3>1, <3>2, <3>3, <4>3 DEF Excused, Expired
    <3>4. CASE Excused(i)
      BY <1>1, <3>1, <3>2, <3>4 DEF Excused, Expired
    <3> QED
      BY <1>0, <1>1, <2>3, <3>1, <3>3, <3>4 DEF RetryOK
  <2> QED
    BY <2>1, <2>2, <2>3 DEF RetryOK
<1>2. CASE RetryList
  <2>1. retry'.pc = "next" /\ retry'.todo = {i \in Ids : transit[i] # None}
    BY <1>2 DEF RetryList, RetryIdle
  <2>2. ASSUME NEW i \in Ids, transit[i] # None
        PROVE  InTransit(i)'
    <3>1. PICK u \in Uploads : up[u].id = i
      BY <2>2 DEF Inv, StoredIsUploaded
    <3>2. InTransit(i)
      BY <2>2, <3>1 DEF Inv, UploadOK, InTransit
    <3> QED
      BY <3>2, InTransitStays
  <2> QED
    BY <2>1, <2>2 DEF RetryOK
<1>3. ASSUME NEW i \in Ids, RetryOpen(i)
      PROVE  RetryOK'
  <2>1. InTransit(i)
    BY <1>0, <1>3 DEF RetryOpen, RetryOK
  <2>2. PICK u \in Uploads : up[u].id = i /\ up[u].pc = "transit"
    BY <2>1 DEF InTransit
  <2>3. up' = up /\ staging[i] \in {None, up[u].content}
    BY <1>3, <2>2 DEF RetryOpen, Inv, UploadOK
  <2>4. \A j \in retry.todo : InTransit(j)'
    BY <1>0, InTransitStays DEF RetryOK
  <2>5. CASE staging[i] = None
    <3>1. retry'.pc = "next" /\ retry'.todo \subseteq retry.todo
      BY <1>0, <1>3, <2>5 DEF RetryOpen
    <3> QED
      BY <2>4, <3>1 DEF RetryOK
  <2>6. CASE staging[i] # None
    <3>1. /\ retry'.pc = "put" /\ retry'.todo \subseteq retry.todo
          /\ retry'.id = i /\ retry'.content = staging[i]
      BY <1>0, <1>3, <2>6 DEF RetryOpen
    <3> QED
      BY <2>2, <2>3, <2>4, <2>6, <3>1 DEF RetryOK
  <2> QED
    BY <2>5, <2>6
<1>4. ASSUME NEW i \in Ids, RetryPut(i)
      PROVE  RetryOK'
  <2>1. /\ retry'.pc = "clean" /\ retry'.todo = retry.todo
        /\ retry'.id = i /\ retry'.content = retry.content
        /\ up' = up /\ bucket'[i] = retry.content
    BY <1>0, <1>4, Typing DEF RetryPut
  <2>2. \A j \in retry.todo : InTransit(j)'
    BY <1>0, InTransitStays DEF RetryOK
  <2>3. /\ retry.id = i
        /\ \E u \in Uploads : /\ up[u].id = i /\ up[u].pc = "transit"
                              /\ up[u].content = retry.content
    BY <1>0, <1>4 DEF RetryPut, RetryOK
  <2> QED
    BY <2>1, <2>2, <2>3 DEF RetryOK
<1>5. CASE FailRetryPut \/ RetryClean
  <2>1. retry'.pc = "next" /\ retry'.todo = retry.todo
    BY <1>0, <1>5 DEF FailRetryPut, RetryClean
  <2> QED
    BY <1>0, <2>1, InTransitStays DEF RetryOK
<1>6. CASE RetryEnd \/ Crash
  <2>1. retry' = RetryIdle
    BY <1>6 DEF RetryEnd, Crash
  <2> QED
    BY <2>1 DEF RetryOK, RetryIdle
<1> QED
  BY <1>1, <1>2, <1>3, <1>4, <1>5, <1>6 DEF Next, UploadStep, vars, handlers,
     FailStage, StageUpload, CheckDuplicate, FailCheck, PutObject, FailPut, FinishUpload,
     SaveTransit, FailSave, OpenTransit, GetObject, RetryStep, AddDependent, AgeFile,
     AgeRow, SweepRow, SweepFile, DeleteStep, RemoveObject, FailRemoveObject,
     LookupTransit, RemoveTransit, DropDependents, HeadObject, FailHead

\* A delete request has an id from its first step on, and for good.
LEMMA DeletesStep ==
    ASSUME Inv, [Next]_vars, NEW d \in Deletes
    PROVE  DeleteOK(d)' /\ IdleDelete(d)'
<1>0. TypeOK /\ DeleteOK(d) /\ IdleDelete(d) /\ del \in [Deletes -> DeleteState]
  BY Typing DEF Inv
<1>1. CASE UNCHANGED del
  BY <1>0, <1>1 DEF DeleteOK, IdleDelete
<1>2. ASSUME NEW e \in Deletes, DeleteStep(e)
      PROVE  DeleteOK(d)' /\ IdleDelete(d)'
  <2>1. PICK pc \in DeletePC \ {"idle"} : GoDel(e, pc)
    BY <1>2 DEF DeleteStep, RemoveObject, FailRemoveObject, LookupTransit,
       RemoveTransit, DropDependents, DeletePC
  <2>2. del[e].pc \notin {"idle", "error"}
    BY <1>2 DEF DeleteStep, RemoveObject, FailRemoveObject, LookupTransit,
       RemoveTransit, DropDependents
  <2>3. /\ del'[e].pc # "idle"
        /\ \A f \in Deletes : del'[f].id = del[f].id
        /\ \A f \in Deletes : f # e => del'[f] = del[f]
    BY <1>0, <2>1, GoDelTyped
  <2> QED
    BY <1>0, <2>2, <2>3 DEF DeleteOK, IdleDelete
<1>3. ASSUME NEW e \in Deletes, NEW i \in Ids, HeadObject(e, i)
      PROVE  DeleteOK(d)' /\ IdleDelete(d)'
  BY <1>0, <1>3 DEF HeadObject, DeleteOK, IdleDelete
<1>4. CASE Crash
  BY <1>0, <1>4, CrashEffect DEF DeleteOK, IdleDelete
<1>5. ASSUME NEW e \in Deletes, FailHead(e)
      PROVE  DeleteOK(d)' /\ IdleDelete(d)'
  <2>1. /\ del'[e].pc = "error"
        /\ \A f \in Deletes : f # e => del'[f] = del[f]
    BY <1>0, <1>5, GoDelTyped DEF FailHead, DeletePC
  <2> QED
    BY <1>0, <2>1 DEF DeleteOK, IdleDelete
<1> QED
  BY <1>1, <1>2, <1>3, <1>4, <1>5 DEF Next, UploadStep, vars, handlers, FailStage, StageUpload,
     CheckDuplicate, FailCheck, PutObject, FailPut, FinishUpload, SaveTransit, FailSave,
     OpenTransit, GetObject, RetryStep, RetryList, FailRetryPut, RetryClean, RetryEnd,
     RetryOpen, RetryPut, AddDependent, AgeFile, AgeRow, SweepRow, SweepFile

\* While the upload of an archive is in transit and nothing excuses a loss,
\* the archive is in the bucket, or its row and its file are both there.
LEMMA TransitIsSomewhere ==
    ASSUME Inv, NEW i \in Ids, InTransit(i), bucket[i] = None, ~Excused(i)
    PROVE  transit[i] # None /\ staging[i] # None
<1>1. PICK u \in Uploads : up[u].id = i /\ up[u].pc = "transit"
  BY DEF InTransit
<1> QED
  BY <1>1, NoneAssumption DEF Inv, UploadOK, Kept

\* Each look of openVPSS3 that misses, after the one before, tells the truth
\* or is excused, and the object that arrived meanwhile stays.
LEMMA DownloadsStep ==
    ASSUME Inv, [Next]_vars, NEW w \in Downloads
    PROVE  DownloadOK(w)'
<1> USE NoneAssumption
<1>0. TypeOK /\ DownloadOK(w) /\ down \in [Downloads -> DownloadState]
  BY Typing DEF Inv
<1>1. CASE down'[w] = down[w]
  <2>1. CASE down[w].pc \in {"lookup", "file", "notfound"}
    <3>1. PICK i \in Ids : i = down[w].id /\ InTransit(i)
      BY <1>0, <2>1 DEF DownloadOK, InTransit
    <3>2. InTransit(i)' /\ (Excused(i) => Excused(i)')
      BY <3>1, InTransitStays, ExcusedStays
    <3>3. bucket[i] # None /\ bucket'[i] = None => Excused(i)
      BY <3>1, ObjectLeaves
    <3>4. down[w].pc = "notfound" => bucket'[i] # None \/ Excused(i)'
      BY <1>0, <3>1, <3>2, <3>3 DEF DownloadOK
    <3> QED
      BY <1>1, <3>1, <3>2, <3>4 DEF DownloadOK, InTransit, Excused, Expired
  <2>2. CASE down[w].pc \notin {"lookup", "file", "notfound"}
    BY <1>1, <2>2 DEF DownloadOK
  <2> QED
    BY <2>1, <2>2
<1>2. ASSUME NEW i \in Ids, GetObject(w, i)
      PROVE  DownloadOK(w)'
  <2>0. /\ down'[w].pc \in {IF bucket[i] # None THEN "ok" ELSE "lookup", "failed"}
        /\ down'[w].id = i /\ (bucket[i] # None \/ transit[i] # None)
    BY <1>0, <1>2 DEF GetObject
  <2>1. CASE down'[w].pc # "lookup"
    BY <2>0, <2>1 DEF DownloadOK
  <2>2. CASE down'[w].pc = "lookup"
    <3>1. transit[i] # None
      BY <2>0, <2>2
    <3>2. PICK u \in Uploads : up[u].id = i
      BY <3>1 DEF Inv, StoredIsUploaded
    <3>3. InTransit(i)
      BY <3>1, <3>2 DEF Inv, UploadOK, InTransit
    <3>4. InTransit(i)'
      BY <3>3, InTransitStays
    <3> QED
      BY <2>0, <2>2, <3>4 DEF DownloadOK, InTransit
  <2> QED
    BY <2>1, <2>2
<1>3. CASE OpenTransit(w)
  <2>1. PICK i \in Ids : i = down[w].id /\ InTransit(i)
    BY <1>0, <1>3 DEF OpenTransit, DownloadOK, InTransit
  <2>2. /\ bucket' = bucket /\ up' = up
        /\ down'[w].id = i
        /\ down'[w].pc = "notfound" => transit[i] = None \/ staging[i] = None
    BY <1>0, <1>3, <2>1 DEF OpenTransit, GoDown, stores, DownloadState
  <2>3. InTransit(i)' /\ (Excused(i) => Excused(i)')
    BY <2>1, InTransitStays, ExcusedStays
  <2>4. down'[w].pc = "notfound" => bucket'[i] # None \/ Excused(i)'
    BY <2>1, <2>2, <2>3, TransitIsSomewhere
  <2> QED
    BY <2>2, <2>3, <2>4 DEF DownloadOK, InTransit, Excused, Expired
<1>4. CASE Crash
  <2>1. down'[w] = down[w] \/ down'[w].pc = "crashed"
    BY <1>4, CrashEffect
  <2>2. down'[w].pc = "crashed" => DownloadOK(w)'
    BY DEF DownloadOK
  <2> QED
    BY <1>1, <2>1, <2>2
<1>5. ASSUME NEW x \in Downloads, x # w, OpenTransit(x) \/ \E i \in Ids : GetObject(x, i)
      PROVE  down'[w] = down[w]
  BY <1>0, <1>5 DEF OpenTransit, GoDown, GetObject
<1>6. CASE UNCHANGED down
  BY <1>1, <1>6
<1> QED
  BY <1>1, <1>2, <1>3, <1>4, <1>5, <1>6 DEF Next, UploadStep, vars, handlers,
     FailStage, StageUpload, CheckDuplicate, FailCheck, PutObject, FailPut, FinishUpload,
     SaveTransit, FailSave, RetryStep, RetryList, FailRetryPut, RetryClean, RetryEnd,
     RetryOpen, RetryPut, AddDependent, AgeFile,
     AgeRow, SweepRow, SweepFile, DeleteStep, RemoveObject, FailRemoveObject,
     LookupTransit, RemoveTransit, DropDependents, HeadObject, FailHead

\* Every step keeps stores and handlers well typed: what is written is a
\* content or nothing, under an id.
LEMMA TypeStep == Inv /\ [Next]_vars => TypeOK'
<1> SUFFICES ASSUME Inv, [Next]_vars
             PROVE  TypeOK'
  OBVIOUS
<1> USE CrashAssumption
<1> DEFINE Store == [Ids -> Maybe(Contents)]
           Retry == [pc : RetryPC, todo : SUBSET Ids, id : Maybe(Ids),
                     content : Maybe(Contents)]
<1>0. /\ TypeOK
      /\ bucket \in Store /\ staging \in Store /\ transit \in Store /\ meta \in Store
      /\ deps \subseteq Ids /\ agedFile \subseteq Ids /\ agedRow \subseteq Ids
      /\ up \in [Uploads -> UploadState] /\ del \in [Deletes -> DeleteState]
      /\ down \in [Downloads -> DownloadState] /\ retry \in Retry
      /\ crashes \in 0..MaxCrashes
  BY Typing DEF Inv
<1>1. ASSUME NEW u \in Uploads, UploadStep(u)
      PROVE  TypeOK'
  BY <1>0, <1>1, UploadFrame, TypingBack DEF ages
<1>2. ASSUME NEW u \in Uploads, FailStage(u)
      PROVE  TypeOK'
  <2>1. up' \in [Uploads -> UploadState]
    BY <1>0, <1>2, GoUpTyped DEF FailStage, UploadPC
  <2> QED
    BY <1>0, <1>2, <2>1, TypingBack DEF FailStage, stores, ages
<1>3. ASSUME NEW u \in Uploads, NEW i \in Ids, NEW c \in Contents, StageUpload(u, i, c)
      PROVE  TypeOK'
  <2>1. /\ up' \in [Uploads -> UploadState] /\ staging' \in Store
        /\ UNCHANGED <<bucket, transit, meta, deps, ages, del, down, retry, crashes>>
    BY <1>3, StageEffect
  <2> QED
    BY <1>0, <2>1, TypingBack DEF ages
<1>4. ASSUME NEW d \in Deletes, DeleteStep(d)
      PROVE  TypeOK'
  <2>1. PICK pc \in DeletePC : GoDel(d, pc)
    BY <1>4 DEF DeleteStep, RemoveObject, FailRemoveObject, LookupTransit,
       RemoveTransit, DropDependents, DeletePC
  <2>2. del' \in [Deletes -> DeleteState]
    BY <1>0, <2>1, GoDelTyped
  <2>3. bucket' \in Store /\ staging' \in Store /\ transit' \in Store /\ deps' \subseteq Ids
    BY <1>0, <1>4 DEF DeleteStep, RemoveObject, FailRemoveObject, LookupTransit,
       RemoveTransit, DropDependents, ClearTransit, Discard, stores, Maybe
  <2>4. UNCHANGED <<meta, ages, up, down, retry, crashes>>
    BY <1>4 DEF DeleteStep, RemoveObject, FailRemoveObject, LookupTransit,
       RemoveTransit, DropDependents, stores
  <2> QED
    BY <1>0, <2>2, <2>3, <2>4, TypingBack DEF ages
<1>5. ASSUME NEW d \in Deletes, NEW i \in Ids, HeadObject(d, i)
      PROVE  TypeOK'
  <2>1. ASSUME NEW pc \in DeletePC
        PROVE  [pc |-> pc, id |-> i] \in DeleteState
    BY DEF DeleteState, Maybe
  <2>2. del' \in [Deletes -> DeleteState]
    BY <1>0, <1>5, <2>1 DEF HeadObject, DeletePC
  <2> QED
    BY <1>0, <1>5, <2>2, TypingBack DEF HeadObject, stores, ages
<1>12. ASSUME NEW d \in Deletes, FailHead(d)
      PROVE  TypeOK'
  <2>1. del' \in [Deletes -> DeleteState]
    BY <1>0, <1>12, GoDelTyped DEF FailHead, DeletePC
  <2> QED
    BY <1>0, <1>12, <2>1, TypingBack DEF FailHead, stores, ages
<1>6. ASSUME NEW w \in Downloads, OpenTransit(w)
      PROVE  TypeOK'
  <2>1. ASSUME NEW pc \in DownloadPC
        PROVE  [down[w] EXCEPT !.pc = pc] \in DownloadState
    BY <1>0 DEF DownloadState
  <2>2. PICK pc \in DownloadPC : down' = [down EXCEPT ![w].pc = pc]
    BY <1>6 DEF OpenTransit, GoDown, DownloadPC
  <2>3. down' \in [Downloads -> DownloadState]
    BY <1>0, <2>1, <2>2
  <2> QED
    BY <1>0, <1>6, <2>3, TypingBack DEF OpenTransit, stores, ages
<1>7. ASSUME NEW w \in Downloads, NEW i \in Ids, GetObject(w, i)
      PROVE  TypeOK'
  <2>1. ASSUME NEW pc \in DownloadPC
        PROVE  [pc |-> pc, id |-> i] \in DownloadState
    BY DEF DownloadState, Maybe
  <2>2. down' \in [Downloads -> DownloadState]
    BY <1>0, <1>7, <2>1 DEF GetObject, DownloadPC
  <2> QED
    BY <1>0, <1>7, <2>2, TypingBack DEF GetObject, stores, ages
<1>8. CASE RetryStep
  <2>1. retry' \in Retry
    <3>0. RetryIdle \in Retry
      BY DEF RetryIdle, RetryPC, Maybe
    <3>1. CASE RetryList \/ RetryEnd
      BY <3>0, <3>1 DEF RetryList, RetryEnd, RetryPC
    <3>2. CASE FailRetryPut \/ RetryClean \/ \E i \in Ids : RetryPut(i)
      BY <1>0, <3>2 DEF FailRetryPut, RetryClean, RetryPut, RetryPC
    <3>3. ASSUME NEW i \in Ids, RetryOpen(i)
          PROVE  retry' \in Retry
      <4>1. i \in Maybe(Ids) /\ staging[i] \in Maybe(Contents)
        BY <1>0 DEF Maybe
      <4>2. CASE staging[i] = None
        BY <1>0, <3>3, <4>2 DEF RetryOpen, RetryPC
      <4>3. CASE staging[i] # None
        BY <1>0, <3>3, <4>1, <4>3 DEF RetryOpen, RetryPC
      <4> QED
        BY <4>2, <4>3
    <3> QED
      BY <1>8, <3>1, <3>2, <3>3 DEF RetryStep
  <2>2. retry.pc = "put" => retry.id \in Ids /\ retry.content \in Maybe(Contents)
    BY <1>0 DEF Inv, RetryOK
  <2>3. bucket' \in Store /\ staging' \in Store /\ transit' \in Store
    BY <1>0, <1>8, <2>2 DEF RetryStep, RetryList, FailRetryPut, RetryClean, RetryEnd,
       RetryOpen, RetryPut, ClearTransit, Discard, stores, Maybe
  <2>4. UNCHANGED <<meta, deps, ages, up, del, down, crashes>>
    BY <1>8 DEF RetryStep, RetryList, FailRetryPut, RetryClean, RetryEnd,
       RetryOpen, RetryPut, stores
  <2> QED
    BY <1>0, <2>1, <2>3, <2>4, TypingBack DEF ages
<1>9. ASSUME NEW i \in Ids, \/ AddDependent(i) \/ AgeFile(i) \/ AgeRow(i)
                            \/ SweepRow(i) \/ SweepFile(i)
      PROVE  TypeOK'
  <2>1. None \in Maybe(Contents)
    BY DEF Maybe
  <2>2. staging' \in Store /\ transit' \in Store
    BY <1>0, <1>9, <2>1 DEF AddDependent, AgeFile, AgeRow, SweepRow, SweepFile,
       ClearTransit, Discard, stores
  <2>3. deps' \subseteq Ids /\ agedFile' \subseteq Ids /\ agedRow' \subseteq Ids
    BY <1>0, <1>9 DEF AddDependent, AgeFile, AgeRow, SweepRow, SweepFile, stores, ages
  <2>4. UNCHANGED <<bucket, meta, up, del, down, retry, crashes>>
    BY <1>9 DEF AddDependent, AgeFile, AgeRow, SweepRow, SweepFile, stores, handlers
  <2> QED
    BY <1>0, <2>2, <2>3, <2>4, TypingBack
<1>10. CASE Crash
  <2>1. RetryIdle \in Retry
    BY DEF RetryIdle, RetryPC, Maybe
  <2>2. crashes' \in 0..MaxCrashes
    BY <1>0, <1>10 DEF Crash
  <2>3. /\ UNCHANGED <<stores, ages>> /\ retry' = RetryIdle
        /\ up' \in [Uploads -> UploadState] /\ del' \in [Deletes -> DeleteState]
        /\ down' \in [Downloads -> DownloadState]
    BY <1>10, CrashEffect
  <2> QED
    BY <1>0, <2>1, <2>2, <2>3, TypingBack DEF stores, ages
<1>11. CASE UNCHANGED vars
  BY <1>0, <1>11 DEF vars, stores, ages, handlers, TypeOK
<1> QED
  BY <1>1, <1>2, <1>3, <1>4, <1>5, <1>6, <1>7, <1>8, <1>9, <1>10, <1>11, <1>12 DEF Next

-----------------------------------------------------------------------------
(* Results *)

\* An empty store satisfies the invariant.
LEMMA InitInv == Init => Inv
<1> SUFFICES ASSUME Init
             PROVE  Inv
  OBVIOUS
<1>1. TypeOK
  BY CrashAssumption DEF Init, TypeOK, Empty, RetryIdle, Maybe, UploadPC, DeletePC,
     DownloadPC, RetryPC
<1>2. \A u \in Uploads : UploadOK(u) /\ up[u].id = None
  BY DEF Init, UploadOK
<1>3. UniqueIds
  BY <1>2 DEF UniqueIds
<1>4. StoredIsUploaded
  BY DEF Init, StoredIsUploaded, Empty
<1>5. RetryOK
  BY DEF Init, RetryOK, RetryIdle
<1>6. \A d \in Deletes : DeleteOK(d) /\ IdleDelete(d)
  BY DEF Init, DeleteOK, IdleDelete
<1>7. \A w \in Downloads : DownloadOK(w)
  BY DEF Init, DownloadOK
<1> QED
  BY <1>1, <1>2, <1>3, <1>4, <1>5, <1>6, <1>7 DEF Inv

\* The invariant is inductive.
LEMMA InvStep == Inv /\ [Next]_vars => Inv'
<1> SUFFICES ASSUME Inv, [Next]_vars
             PROVE  Inv'
  OBVIOUS
<1> QED
  BY TypeStep, UploadsStep, UniqueIdsStep, StoredStep, RetryStepOK, DeletesStep,
     DownloadsStep DEF Inv

\* The inductive invariant holds in every reachable state of the vps-s3
\* store: each copy of an archive, in staging, in the bucket or as a row,
\* holds what its upload sent, and only an upload that was answered
\* "transit" has a transit row.
THEOREM InvCorrect == Spec => []Inv
  BY InitInv, InvStep, PTL DEF Spec

\* Stores and handlers stay well typed; in particular every object and every
\* row of the vps-s3 store is that of an id and holds a content.
THEOREM TypeCorrect == Spec => []TypeOK
<1>1. Inv => TypeOK
  BY DEF Inv
<1> QED
  BY <1>1, InvCorrect, PTL

\* An excuse is a delete that was asked for, or an expired grace period.
LEMMA ExcusedIs ==
    ASSUME NEW i \in Ids
    PROVE  Excused(i) <=> i \in DeleteRequested \cup Expired
  BY NoneAssumption DEF Excused, DeleteRequested

\* Every 201, "s3" or "transit", is durable: between copyOrTransit, RetryOnce,
\* DeleteTransit, the sweep, failing Puts and crashes at every point the
\* archive is in the bucket, or in staging with its transit row.
THEOREM AcceptedIsKeptCorrect == Spec => []AcceptedIsKept
<1>1. Inv => AcceptedIsKept
  <2> SUFFICES ASSUME Inv, NEW u \in Uploads, up[u].pc \in {"s3", "transit"}
               PROVE  \/ Kept(up[u].id, up[u].content)
                      \/ up[u].id \in DeleteRequested \cup Expired
    BY DEF AcceptedIsKept
  <2>1. UploadOK(u) /\ up[u].id \in Ids
    BY DEF Inv, UploadOK
  <2>2. Kept(up[u].id, up[u].content) \/ Excused(up[u].id)
    BY <2>1, NoneAssumption DEF UploadOK, Kept
  <2> QED
    BY <2>1, <2>2, ExcusedIs
<1> QED
  BY <1>1, InvCorrect, PTL

\* RetryOnce is never stuck on a row without its file, unless the grace ran
\* out or a delete came between.
THEOREM TransitHasFileCorrect == Spec => []TransitHasFile
<1>1. Inv => TransitHasFile
  <2> SUFFICES ASSUME Inv, NEW i \in Ids, transit[i] # None
               PROVE  staging[i] = transit[i] \/ i \in DeleteRequested \cup Expired
    BY DEF TransitHasFile
  <2>1. PICK u \in Uploads : up[u].id = i
    BY DEF Inv, StoredIsUploaded
  <2>2. UploadOK(u)
    BY DEF Inv
  <2>3. staging[i] = transit[i] \/ Excused(i)
    BY <2>1, <2>2, NoneAssumption DEF UploadOK
  <2> QED
    BY <2>3, ExcusedIs
<1> QED
  BY <1>1, InvCorrect, PTL

\* A 404 of openVPSS3 none of whose calls failed is no loss, however the
\* retry loop moves the archive between its three looks.
THEOREM MissIsNoLossCorrect == Spec => []MissIsNoLoss
<1>1. Inv => MissIsNoLoss
  <2> SUFFICES ASSUME Inv, NEW w \in Downloads, down[w].pc = "notfound"
               PROVE  bucket[down[w].id] # None \/ down[w].id \in DeleteRequested \cup Expired
    BY DEF MissIsNoLoss
  <2>1. DownloadOK(w) /\ down[w].id \in Ids
    BY DEF Inv, DownloadOK, InTransit
  <2> QED
    BY <2>1, ExcusedIs DEF DownloadOK
<1> QED
  BY <1>1, InvCorrect, PTL

\* A 409 names a content that is kept under an id that the index or the
\* transit rows know, up to deletes and expired transits: FindExistingSHA256
\* never refuses an upload because of one that failed or crashed.
THEOREM DuplicateIsHonestCorrect == Spec => DuplicateIsHonest
<1> DEFINE Honest(u) ==
      \E i \in Ids : /\ meta[i] = up[u].content \/ transit[i] = up[u].content
                     /\ \/ Kept(i, up[u].content)
                        \/ i \in DeleteRequested \cup Expired
<1>1. ASSUME Inv, [Next]_vars, NEW u \in Uploads,
             up[u].pc = "check", up'[u].pc = "duplicate"
      PROVE  Honest(u)
  <2>0. TypeOK /\ UploadOK(u)
    BY <1>1 DEF Inv
  <2>1. CheckDuplicate(u) => Honest(u)
    <3> SUFFICES ASSUME CheckDuplicate(u) PROVE Honest(u)
      OBVIOUS
    <3>1. Known(up[u].content) # {}
      BY <1>1, <2>0, GoUpTyped DEF CheckDuplicate, UploadPC
    <3>2. PICK i \in Ids : meta[i] = up[u].content \/ transit[i] = up[u].content
      BY <3>1 DEF Known
    <3>3. up[u].content \in Contents
      BY <1>1, <2>0 DEF UploadOK
    <3>4. PICK v \in Uploads : up[v].id = i
      BY <1>1, <3>2, <3>3, NoneAssumption DEF Inv, StoredIsUploaded
    <3>5. Kept(i, up[u].content) \/ Excused(i)
      <4>1. UploadOK(v) /\ up[v].id # None
        BY <1>1, <3>4, NoneAssumption DEF Inv
      <4>2. up[v].content = up[u].content /\ up[v].pc \in {"s3", "transit"}
        BY <3>2, <3>3, <3>4, <4>1, NoneAssumption DEF UploadOK
      <4> QED
        BY <3>4, <4>1, <4>2 DEF UploadOK, Kept
    <3> QED
      BY <3>2, <3>5, ExcusedIs
  <2>2. ASSUME NEW v \in Uploads, UploadStep(v), ~CheckDuplicate(u)
        PROVE  FALSE
    <3>1. v = u
      BY <1>1, <2>2, UploadFrame
    <3>2. FailCheck(u)
      BY <1>1, <2>2, <3>1 DEF UploadStep, PutObject, FailPut, FinishUpload, SaveTransit,
         FailSave
    <3>3. up'[u].pc = "error"
      BY <2>0, <3>2, GoUpTyped DEF FailCheck, UploadPC
    <3> QED
      BY <1>1, <3>3
  <2>3. ASSUME NEW v \in Uploads, FailStage(v)
        PROVE  FALSE
    <3>1. v = u => up'[u].pc = "error"
      BY <2>0, <2>3, GoUpTyped DEF FailStage, UploadPC
    <3>2. v # u => up'[u] = up[u]
      BY <2>0, <2>3, GoUpTyped DEF FailStage, UploadPC
    <3> QED
      BY <1>1, <3>1, <3>2
  <2>4. ASSUME NEW v \in Uploads, NEW i \in Ids, NEW c \in Contents, StageUpload(v, i, c)
        PROVE  FALSE
    <3>1. up'[v].pc = "check" /\ (v # u => up'[u] = up[u])
      BY <1>1, <2>4, StageEffect
    <3> QED
      BY <1>1, <3>1
  <2>5. CASE Crash
    BY <1>1, <2>5, CrashEffect
  <2>6. CASE Background
    BY <1>1, <2>6, BackgroundFrame
  <2>7. CASE UNCHANGED vars
    BY <1>1, <2>7 DEF vars, handlers
  <2> QED
    BY <1>1, <2>1, <2>2, <2>3, <2>4, <2>5, <2>6, <2>7 DEF Next, Background
<1>2. Inv /\ [Next]_vars =>
        [\A u \in Uploads : up[u].pc = "check" /\ up'[u].pc = "duplicate" => Honest(u)]_vars
  BY <1>1
<1> QED
  BY <1>2, InvCorrect, PTL DEF Spec, DuplicateIsHonest
=============================================================================
