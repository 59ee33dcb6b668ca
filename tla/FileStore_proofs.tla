-------------------------- MODULE FileStore_proofs --------------------------
(***************************************************************************)
(* What holds of FileStore for any number of files, jobs and purges.       *)
(***************************************************************************)
EXTENDS FileStore, FiniteSetTheorems, TLAPS

(* A content is only ever written before its row, and an upload that waits *)
(* to insert the row has its content.                                      *)
UploadOrder ==
    \A f \in Files :
        /\ up[f] \in {"idle", "upload", "insert"} => files[f] = "none"
        /\ up[f] = "insert" => f \in blobs

(* A purge only holds rows that were archived, which never come back, and  *)
(* what it has done stays done.                                            *)
PurgeProgress(a) ==
    /\ purge[a].todo \subseteq purge[a].listed
    /\ \A f \in purge[a].listed : files[f] \in {"archived", "gone"}
    /\ \A f \in purge[a].listed \ purge[a].todo : files[f] = "gone" /\ f \notin blobs
    /\ purge[a].pc = "row" => purge[a].file \in purge[a].todo /\ purge[a].file \notin blobs
    /\ purge[a].pc \in {"jobs", "done"} => purge[a].todo = {}

(* A junit upload past its comparison has saved its results. *)
ResultsSaved ==
    \A f \in Junit :
        up[f] \in {"touch", "created"} /\ files[f] # "gone" => f \in results

IInv ==
    /\ TypeOK
    /\ UploadOrder
    /\ ActiveHasContent
    /\ \A a \in Admins : PurgeProgress(a)
    /\ ResultsSaved

-----------------------------------------------------------------------------
LEMMA InitInv == Init => IInv
<1> SUFFICES ASSUME Init PROVE IInv
  OBVIOUS
<1>1. TypeOK
  BY DEF Init, TypeOK, Ended, NoPurge, PurgeRecord
<1>2. UploadOrder /\ ActiveHasContent /\ ResultsSaved
  BY JunitAssumption DEF Init, UploadOrder, ActiveHasContent, ResultsSaved
<1>3. \A a \in Admins : PurgeProgress(a)
  BY DEF Init, NoPurge, PurgeProgress
<1> QED
  BY <1>1, <1>2, <1>3 DEF IInv

(* An upload moves on without writing a row. *)
LEMMA UploadMoves ==
    ASSUME IInv, NEW f \in Files, NEW label \in {"upload", "insert", "failed", "lost",
                                               "created", "crashed"},
           NextStep(f, label),
           up[f] \in {"idle", "upload", "insert", "results", "touch"},
           label = "upload" => up[f] = "idle",
           label = "insert" => up[f] = "upload" /\ f \in blobs',
           label = "created" => up[f] = "touch",
           blobs' = blobs \/ (up[f] = "upload" /\ blobs' = blobs \union {f}),
           owner' \in [Files -> Jobs \union {0}],
           UNCHANGED <<rows, purge, deleted>>
    PROVE  IInv'
<1> USE DEF rows, NextStep
<1>1. TypeOK'
  BY DEF IInv, TypeOK, Ended
<1>2. UploadOrder'
  BY DEF IInv, TypeOK, UploadOrder
<1>3. ActiveHasContent'
  BY DEF IInv, ActiveHasContent
<1>4. ASSUME NEW a \in Admins PROVE PurgeProgress(a)'
  <2>1. PurgeProgress(a) /\ purge'[a] = purge[a] /\ files' = files
    BY DEF IInv
  <2>2. up[f] = "upload" => f \notin purge[a].listed
    BY <2>1 DEF IInv, UploadOrder, PurgeProgress
  <2> QED
    BY <2>1, <2>2 DEF PurgeProgress
<1>5. ResultsSaved'
  BY JunitAssumption DEF IInv, TypeOK, ResultsSaved
<1> QED
  BY <1>1, <1>2, <1>3, <1>4, <1>5 DEF IInv

LEMMA UploadStep ==
    ASSUME IInv, NEW f \in Files, Upload(f)
    PROVE  IInv'
<1> USE DEF rows
<1>0. ASSUME Fail(f), up[f] \in {"insert", "results", "touch"} PROVE IInv'
  BY <1>0, UploadMoves DEF Fail, IInv, TypeOK
<1>1. CASE CreateFile(f)
  <2>1. owner' \in [Files -> Jobs \union {0}]
    BY <1>1 DEF CreateFile, IInv, TypeOK
  <2> QED
    BY <1>1, <2>1, UploadMoves DEF CreateFile
<1>2. CASE StoreUpload(f)
  <2>1. owner' \in [Files -> Jobs \union {0}]
    BY <1>2 DEF StoreUpload, IInv, TypeOK
  <2> QED
    BY <1>2, <2>1, UploadMoves DEF StoreUpload
<1>3. CASE InsertFile(f)
  <2>1. CASE jobs[owner[f]] # "gone"
    <3>1. /\ up[f] = "insert" /\ files' = [files EXCEPT ![f] = "active"]
          /\ \E label \in {"results", "touch"} :
               /\ up' = [up EXCEPT ![f] = label]
               /\ label = "touch" => f \notin Junit
          /\ UNCHANGED <<jobs, results, blobs, owner, purge, deleted>>
      BY <1>3, <2>1 DEF InsertFile, NextStep
    <3>2. files[f] = "none" /\ f \in blobs
      BY <3>1 DEF IInv, UploadOrder
    <3>3. TypeOK'
      BY <3>1 DEF IInv, TypeOK, Ended
    <3>4. UploadOrder' /\ ActiveHasContent'
      BY <3>1, <3>2 DEF IInv, TypeOK, UploadOrder, ActiveHasContent
    <3>5. ResultsSaved'
      BY <3>1, JunitAssumption DEF IInv, TypeOK, ResultsSaved
    <3>6. ASSUME NEW a \in Admins PROVE PurgeProgress(a)'
      <4>1. PurgeProgress(a) /\ purge[a].listed \subseteq Files
        BY DEF IInv, TypeOK, PurgeRecord
      <4>2. f \notin purge[a].listed
        BY <3>2, <4>1 DEF PurgeProgress
      <4> QED
        BY <3>1, <4>1, <4>2 DEF IInv, TypeOK, PurgeProgress
    <3> QED
      BY <3>3, <3>4, <3>5, <3>6 DEF IInv
  <2> QED
    BY <1>0, <1>3, <2>1 DEF InsertFile
<1>4. CASE SaveResults(f)
  <2>1. CASE Fail(f)
    BY <1>0, <1>4, <2>1 DEF SaveResults
  <2>2. CASE ~Fail(f)
    <3>1. /\ up[f] = "results" /\ up' = [up EXCEPT ![f] = "touch"]
          /\ results' = results \union {f}
          /\ UNCHANGED <<jobs, files, blobs, owner, purge, deleted>>
      BY <1>4, <2>2 DEF SaveResults, NextStep
    <3>2. TypeOK'
      BY <3>1 DEF IInv, TypeOK, Ended
    <3>3. UploadOrder' /\ ActiveHasContent'
      BY <3>1 DEF IInv, TypeOK, UploadOrder, ActiveHasContent
    <3>4. ResultsSaved'
      BY <3>1, JunitAssumption DEF IInv, TypeOK, ResultsSaved
    <3>5. \A a \in Admins : PurgeProgress(a)'
      BY <3>1 DEF IInv, PurgeProgress
    <3> QED
      BY <3>2, <3>3, <3>4, <3>5 DEF IInv
  <2> QED
    BY <2>1, <2>2
<1>5. CASE TouchJob(f)
  <2>1. owner' \in [Files -> Jobs \union {0}]
    BY <1>5 DEF TouchJob, Fail, IInv, TypeOK
  <2> QED
    BY <1>0, <1>5, <2>1, UploadMoves DEF TouchJob
<1> QED
  BY <1>1, <1>2, <1>3, <1>4, <1>5 DEF Upload

(* The three deletions mark active rows and touch nothing else. *)
LEMMA ArchiveStep ==
    ASSUME IInv,
           files' \in [Files -> {"none", "active", "archived", "gone"}],
           jobs' \in [Jobs -> {"active", "archived", "gone"}], deleted' \subseteq Jobs,
           \A f \in Files : \/ files'[f] = files[f]
                            \/ files[f] = "active" /\ files'[f] = "archived",
           UNCHANGED <<results, blobs, owner, up, purge>>
    PROVE  IInv'
<1>1. TypeOK'
  BY DEF IInv, TypeOK
<1>2. UploadOrder'
  BY DEF IInv, UploadOrder
<1>3. ActiveHasContent'
  BY DEF IInv, ActiveHasContent
<1>4. ASSUME NEW a \in Admins PROVE PurgeProgress(a)'
  <2>1. PurgeProgress(a) /\ purge[a].listed \subseteq Files
    BY DEF IInv, TypeOK, PurgeRecord
  <2> QED
    BY <2>1 DEF PurgeProgress
<1>5. ResultsSaved'
  BY JunitAssumption DEF IInv, ResultsSaved
<1> QED
  BY <1>1, <1>2, <1>3, <1>4, <1>5 DEF IInv

LEMMA DeleteStep ==
    ASSUME IInv,
           \/ \E f \in Files : DeleteFile(f)
           \/ \E j \in Jobs : DeleteJob(j) \/ ArchiveJob(j)
    PROVE  IInv'
<1>1. CASE \E f \in Files : DeleteFile(f)
  BY <1>1, ArchiveStep DEF DeleteFile, IInv, TypeOK
<1>2. CASE \E j \in Jobs : DeleteJob(j)
  BY <1>2, ArchiveStep DEF DeleteJob, IInv, TypeOK
<1>3. CASE \E j \in Jobs : ArchiveJob(j)
  BY <1>3, ArchiveStep DEF ArchiveJob, IInv, TypeOK, rows
<1> QED
  BY <1>1, <1>2, <1>3

(* A purge that fails forgets what it listed; the rows and the contents    *)
(* stay as they are.                                                       *)
LEMMA PurgeFailsStep ==
    ASSUME IInv, NEW a \in Admins, PurgeFails(a)
    PROVE  IInv'
<1> USE DEF PurgeFails, rows
<1>1. TypeOK'
  BY DEF IInv, TypeOK, NoPurge, PurgeRecord
<1>2. UploadOrder' /\ ActiveHasContent' /\ ResultsSaved'
  BY DEF IInv, UploadOrder, ActiveHasContent, ResultsSaved
<1>3. \A b \in Admins : PurgeProgress(b)'
  BY DEF IInv, TypeOK, PurgeProgress, NoPurge
<1> QED
  BY <1>1, <1>2, <1>3 DEF IInv

LEMMA PurgeRecordField ==
    ASSUME NEW p \in PurgeRecord, NEW f \in Files
    PROVE  /\ [p EXCEPT !.pc = "row", !.file = f] \in PurgeRecord
           /\ [p EXCEPT !.pc = "next", !.todo = @ \ {f}] \in PurgeRecord
BY DEF PurgeRecord

LEMMA PurgeStepInv ==
    ASSUME IInv, NEW a \in Admins, PurgeStep(a)
    PROVE  IInv'
<1> USE DEF rows
<1>1. CASE PurgeStart(a)
  <2>1. PICK scope \in {"files", "jobs"} :
          purge' = [purge EXCEPT ![a] =
                      [pc |-> "next", scope |-> scope, listed |-> Listed,
                       todo |-> Listed, file |-> None]]
    BY <1>1 DEF PurgeStart
  <2>2. TypeOK'
    BY <1>1, <2>1 DEF PurgeStart, IInv, TypeOK, PurgeRecord, Listed
  <2>3. UploadOrder' /\ ActiveHasContent' /\ ResultsSaved'
    BY <1>1 DEF PurgeStart, IInv, UploadOrder, ActiveHasContent, ResultsSaved
  <2>4. \A b \in Admins : PurgeProgress(b)'
    BY <1>1, <2>1 DEF PurgeStart, IInv, TypeOK, PurgeProgress, Listed
  <2> QED
    BY <2>2, <2>3, <2>4 DEF IInv
<1>2. CASE PurgeContent(a)
  <2>1. CASE PurgeFails(a)
    BY <2>1, PurgeFailsStep
  <2>2. CASE ~PurgeFails(a)
    <3>1. PICK f \in purge[a].todo :
            /\ blobs' = blobs \ {f}
            /\ purge' = [purge EXCEPT ![a].pc = "row", ![a].file = f]
            /\ UNCHANGED <<jobs, files, results, owner, up, deleted>>
      BY <1>2, <2>2 DEF PurgeContent
    <3>2. f \in Files /\ files[f] \in {"archived", "gone"} /\ f \in purge[a].listed
      BY DEF IInv, TypeOK, PurgeRecord, PurgeProgress
    <3>3. TypeOK'
      <4>1. purge' \in [Admins -> PurgeRecord]
        BY <3>1, <3>2, PurgeRecordField DEF IInv, TypeOK
      <4> QED
        BY <3>1, <3>2, <4>1 DEF IInv, TypeOK
    <3>4. UploadOrder' /\ ActiveHasContent' /\ ResultsSaved'
      BY <3>1, <3>2 DEF IInv, UploadOrder, ActiveHasContent, ResultsSaved
    <3>5. \A b \in Admins : PurgeProgress(b)'
      BY <3>1, <3>2 DEF IInv, TypeOK, PurgeProgress
    <3> QED
      BY <3>3, <3>4, <3>5 DEF IInv
  <2> QED
    BY <2>1, <2>2
<1>3. CASE PurgeRow(a)
  <2>1. CASE PurgeFails(a)
    BY <2>1, PurgeFailsStep
  <2>2. CASE ~PurgeFails(a)
    <3> DEFINE f == purge[a].file
    <3>1. /\ files' = [files EXCEPT ![f] = "gone"]
          /\ results' = results \ {f}
          /\ purge' = [purge EXCEPT ![a].pc = "next", ![a].todo = @ \ {f}]
          /\ UNCHANGED <<jobs, blobs, owner, up, deleted>>
      BY <1>3, <2>2 DEF PurgeRow
    <3>2. f \in Files /\ files[f] \in {"archived", "gone"} /\ f \notin blobs
      BY <1>3 DEF PurgeRow, IInv, TypeOK, PurgeRecord, PurgeProgress
    <3> HIDE DEF f
    <3>3. TypeOK'
      <4>1. purge' \in [Admins -> PurgeRecord]
        BY <3>1, <3>2, PurgeRecordField DEF IInv, TypeOK
      <4> QED
        BY <3>1, <3>2, <4>1 DEF IInv, TypeOK
    <3>4. UploadOrder' /\ ActiveHasContent' /\ ResultsSaved'
      BY <3>1, <3>2, JunitAssumption
      DEF IInv, TypeOK, UploadOrder, ActiveHasContent, ResultsSaved
    <3>5. \A b \in Admins : PurgeProgress(b)'
      BY <3>1, <3>2 DEF IInv, TypeOK, PurgeProgress
    <3> QED
      BY <3>3, <3>4, <3>5 DEF IInv
  <2> QED
    BY <2>1, <2>2
<1>4. CASE PurgeFilesDone(a)
  <2>1. TypeOK'
    BY <1>4 DEF PurgeFilesDone, IInv, TypeOK, PurgeRecord
  <2>2. UploadOrder' /\ ActiveHasContent' /\ ResultsSaved'
    BY <1>4 DEF PurgeFilesDone, IInv, UploadOrder, ActiveHasContent, ResultsSaved
  <2>3. \A b \in Admins : PurgeProgress(b)'
    BY <1>4 DEF PurgeFilesDone, IInv, TypeOK, PurgeProgress
  <2> QED
    BY <2>1, <2>2, <2>3 DEF IInv
<1>5. CASE PurgeJobs(a)
  <2>1. CASE PurgeFails(a)
    BY <2>1, PurgeFailsStep
  <2>2. CASE ~PurgeFails(a)
    <3>1. /\ purge[a].pc = "jobs"
          /\ jobs' = [j \in Jobs |-> IF jobs[j] = "archived" THEN "gone" ELSE jobs[j]]
          /\ files' = [f \in Files |-> IF Cascaded(f) THEN "gone" ELSE files[f]]
          /\ results' = {f \in results : ~Cascaded(f)}
          /\ purge' = [purge EXCEPT ![a].pc = "done"]
          /\ UNCHANGED <<blobs, owner, up, deleted>>
      BY <1>5, <2>2 DEF PurgeJobs
    <3>2. \A f \in Files : Cascaded(f) => files[f] # "none"
      BY DEF Cascaded
    <3>3. TypeOK'
      <4>1. purge' \in [Admins -> PurgeRecord]
        BY <3>1 DEF IInv, TypeOK, PurgeRecord
      <4> QED
        BY <3>1, <4>1 DEF IInv, TypeOK
    <3>4. UploadOrder' /\ ActiveHasContent' /\ ResultsSaved'
      BY <3>1, <3>2, JunitAssumption
      DEF IInv, TypeOK, UploadOrder, ActiveHasContent, ResultsSaved
    <3>5. ASSUME NEW b \in Admins PROVE PurgeProgress(b)'
      <4>1. PurgeProgress(b) /\ purge[b] \in PurgeRecord /\ purge \in [Admins -> PurgeRecord]
        BY DEF IInv, TypeOK
      <4>2. /\ b # a => purge'[b] = purge[b]
            /\ b = a => purge'[b] = [purge[b] EXCEPT !.pc = "done"]
        <5>1. purge' = [purge EXCEPT ![a].pc = "done"]
          BY <3>1
        <5> QED
          BY <4>1, <5>1
      <4>3. /\ purge'[b].listed = purge[b].listed
            /\ purge'[b].todo = purge[b].todo
            /\ purge'[b].file = purge[b].file
            /\ b # a => purge'[b].pc = purge[b].pc
            /\ b = a => purge[b].pc = "jobs" /\ purge'[b].pc = "done"
        <5>1. purge[a].pc = "jobs"
          BY <3>1
        <5>2. CASE b = a
          BY <4>1, <4>2, <5>1, <5>2 DEF PurgeRecord
        <5>3. CASE b # a
          BY <4>2, <5>3
        <5> QED
          BY <5>2, <5>3
      <4>4. purge[b].listed \subseteq Files
        BY <4>1 DEF PurgeRecord
      <4> QED
        BY <3>1, <4>1, <4>3, <4>4 DEF PurgeProgress
    <3> QED
      BY <3>3, <3>4, <3>5 DEF IInv
  <2> QED
    BY <2>1, <2>2
<1> QED
  BY <1>1, <1>2, <1>3, <1>4, <1>5 DEF PurgeStep

LEMMA CrashStep ==
    ASSUME IInv, Crash
    PROVE  IInv'
<1>1. CASE \E a \in Purging : PurgeFails(a)
  BY <1>1, PurgeFailsStep DEF Purging
<1>2. ASSUME NEW f \in Uploading,
             NextStep(f, "crashed"), UNCHANGED <<rows, blobs, owner, purge, deleted>>
      PROVE  IInv'
  <2>1. f \in Files /\ up[f] \in {"upload", "insert", "results", "touch"}
    BY <1>2 DEF Uploading, IInv, TypeOK, Ended
  <2>2. owner' \in [Files -> Jobs \union {0}]
    BY <1>2 DEF IInv, TypeOK
  <2> QED
    BY <1>2, <2>1, <2>2, UploadMoves
<1> QED
  BY <1>1, <1>2 DEF Crash

-----------------------------------------------------------------------------
LEMMA IInvInvariant == Spec => []IInv
<1>1. IInv /\ [Next]_vars => IInv'
  <2> SUFFICES ASSUME IInv, [Next]_vars PROVE IInv'
    OBVIOUS
  <2>1. CASE \E a \in Admins : PurgeAgain(a)
    BY <2>1, PurgeFailsStep DEF PurgeAgain
  <2>2. CASE UNCHANGED vars
    BY <2>2 DEF vars, rows, IInv, TypeOK, UploadOrder, ActiveHasContent, PurgeProgress,
                ResultsSaved
  <2> QED
    BY <2>1, <2>2, UploadStep, DeleteStep, PurgeStepInv, CrashStep DEF Next, Deletion, Round
<1> QED
  BY InitInv, <1>1, PTL DEF Spec

(* Rows, contents, uploads and purges keep their shape. *)
THEOREM TypeCorrect == Spec => []TypeOK
<1>1. IInv => TypeOK
  BY DEF IInv
<1> QED
  BY <1>1, IInvInvariant, PTL

(* A file the API lists can be downloaded, whatever uploads, deletions and *)
(* purges run together or die (create_files, purge_archived_files).        *)
THEOREM ActiveIsDownloadable == Spec => []ActiveHasContent
<1>1. IInv => ActiveHasContent
  BY DEF IInv
<1> QED
  BY <1>1, IInvInvariant, PTL

(* A purge that answers 204 leaves nothing of what it listed, even when    *)
(* other purges work on the same rows or died half way.                    *)
THEOREM PurgeRemovesAll == Spec => []PurgeIsComplete
<1>1. IInv => PurgeIsComplete
  BY DEF IInv, TypeOK, PurgeProgress, PurgeIsComplete
<1> QED
  BY <1>1, IInvInvariant, PTL

(* A junit upload that answers 201 has its tests_results.                  *)
THEOREM JunitResultsKept == Spec => []CreatedJunitHasResults
<1>1. IInv => CreatedJunitHasResults
  BY DEF IInv, ResultsSaved, CreatedJunitHasResults
<1> QED
  BY <1>1, IInvInvariant, PTL

-----------------------------------------------------------------------------
(* Contents are not leaked.  While no two requests have overlapped, the    *)
(* one in flight is alone ...                                              *)
Alone ==
    /\ \A f, g \in Uploading : f = g
    /\ \A a, b \in Purging : a = b
    /\ Uploading = {} \/ Purging = {}

(* ... so what it read is still true: the job of an upload is active, and  *)
(* a purge has listed every archived row.                                  *)
UploadJobActive ==
    \A f \in Uploading : owner[f] \in Jobs /\ jobs[owner[f]] = "active"

PurgeListedAll ==
    \A a \in Purging : Listed \subseteq purge[a].listed

NotStoredYet ==
    \A f \in Files :
        /\ up[f] \in {"idle", "upload"} => f \notin blobs
        /\ up[f] # "idle" => owner[f] \in Jobs

(* delete_job_by_id leaves the job no active file, and none comes later. *)
DeletedHasNoActive ==
    \A j \in deleted :
        /\ jobs[j] # "active"
        /\ \A f \in Files : owner[f] = j => files[f] # "active"

Kept(f) ==
    \/ files[f] \in {"active", "archived"}
    \/ up[f] \in {"insert", "lost", "crashed"}
    \/ jobs[owner[f]] = "gone" /\ owner[f] \notin deleted

SoloInv ==
    /\ UploadJobActive
    /\ PurgeListedAll
    /\ NotStoredYet
    /\ DeletedHasNoActive
    /\ \A f \in blobs : Kept(f)

InFlightFinite == IsFiniteSet(Uploading) /\ IsFiniteSet(Purging)

LeakInv ==
    /\ IInv
    /\ InFlightFinite
    /\ ~overlapped => Alone /\ SoloInv

LEMMA AtMostOne ==
    ASSUME NEW U, NEW P, IsFiniteSet(U), IsFiniteSet(P),
           ~(Cardinality(U) + Cardinality(P) > 1)
    PROVE  /\ \A x, y \in U : x = y
           /\ \A x, y \in P : x = y
           /\ U = {} \/ P = {}
<1>1. Cardinality(U) \in Nat /\ Cardinality(P) \in Nat
  BY FS_CardinalityType
<1>2. (Cardinality(U) = 0 <=> U = {}) /\ (Cardinality(P) = 0 <=> P = {})
  BY FS_EmptySet
<1>3. \A S : IsFiniteSet(S) => (Cardinality(S) = 1 <=> \E x : S = {x})
  BY FS_Singleton
<1>4. (Cardinality(U) = 1 => \E x : U = {x}) /\ (Cardinality(P) = 1 => \E x : P = {x})
  BY <1>3
<1>5. \/ Cardinality(U) = 0 /\ Cardinality(P) = 0
      \/ Cardinality(U) = 1 /\ Cardinality(P) = 0
      \/ Cardinality(U) = 0 /\ Cardinality(P) = 1
  BY <1>1
<1> QED
  BY <1>2, <1>4, <1>5

LEMMA NoneInFlight ==
    ASSUME InFlightFinite, ~(Serving > 0)
    PROVE  Uploading = {} /\ Purging = {}
<1>1. Cardinality(Uploading) \in Nat /\ Cardinality(Purging) \in Nat
  BY FS_CardinalityType DEF InFlightFinite
<1>2. Cardinality(Uploading) = 0 /\ Cardinality(Purging) = 0
  BY <1>1 DEF Serving
<1> QED
  BY <1>2, FS_EmptySet DEF InFlightFinite

(* A step of an upload only changes that upload, a step of a purge only    *)
(* that purge; a deletion starts and ends in one action.                   *)
LEMMA OneMoves ==
    ASSUME IInv, Next
    PROVE  /\ \/ up' = up
              \/ \E f \in Files : \E label : up' = [up EXCEPT ![f] = label]
           /\ \/ purge' = purge
              \/ \E a \in Admins : \E p : purge' = [purge EXCEPT ![a] = p]
<1>1. CASE Deletion
  BY <1>1 DEF Deletion, DeleteFile, DeleteJob, ArchiveJob
<1>2. ASSUME NEW f \in Files, Upload(f)
      PROVE  /\ purge' = purge
             /\ \E label : up' = [up EXCEPT ![f] = label]
  <2>1. CASE CreateFile(f)
    BY <2>1 DEF CreateFile, NextStep
  <2>2. CASE StoreUpload(f)
    BY <2>2 DEF StoreUpload, NextStep
  <2>3. CASE InsertFile(f)
    BY <2>3 DEF InsertFile, Fail, NextStep
  <2>4. CASE SaveResults(f)
    BY <2>4 DEF SaveResults, Fail, NextStep
  <2>5. CASE TouchJob(f)
    BY <2>5 DEF TouchJob, Fail, NextStep
  <2> QED
    BY <1>2, <2>1, <2>2, <2>3, <2>4, <2>5 DEF Upload
<1>3. ASSUME NEW a \in Admins, PurgeStep(a) \/ PurgeAgain(a) \/ PurgeFails(a)
      PROVE  up' = up /\ \E p : purge' = [purge EXCEPT ![a] = p]
  <2>1. CASE PurgeFails(a)
    BY <2>1 DEF PurgeFails
  <2>2. CASE PurgeStart(a)
    BY <2>2 DEF PurgeStart
  <2>3. CASE PurgeContent(a)
    <3>1. CASE \E f \in purge[a].todo :
                 up' = up /\ purge' = [purge EXCEPT ![a].pc = "row", ![a].file = f]
      <4>1. PICK f \in purge[a].todo :
                 up' = up /\ purge' = [purge EXCEPT ![a].pc = "row", ![a].file = f]
        BY <3>1
      <4>2. purge' = [purge EXCEPT ![a] = [purge[a] EXCEPT !.pc = "row", !.file = f]]
        BY <4>1 DEF IInv, TypeOK
      <4> QED
        BY <4>1, <4>2
    <3> QED
      BY <2>1, <2>3, <3>1 DEF PurgeContent
  <2>4. CASE PurgeRow(a)
    <3>1. CASE /\ up' = up
               /\ purge' = [purge EXCEPT ![a].pc = "next",
                                         ![a].todo = @ \ {purge[a].file}]
      <4>1. purge' = [purge EXCEPT ![a] = [purge[a] EXCEPT !.pc = "next",
                                              !.todo = @ \ {purge[a].file}]]
        BY <3>1 DEF IInv, TypeOK, PurgeRecord
      <4> QED
        BY <3>1, <4>1
    <3> QED
      BY <2>1, <2>4, <3>1 DEF PurgeRow
  <2>5. CASE PurgeFilesDone(a)
    BY <2>5 DEF PurgeFilesDone
  <2>6. CASE PurgeJobs(a)
    BY <2>1, <2>6 DEF PurgeJobs
  <2>7. CASE PurgeAgain(a)
    BY <2>1, <2>7 DEF PurgeAgain
  <2> QED
    BY <1>3, <2>1, <2>2, <2>3, <2>4, <2>5, <2>6, <2>7 DEF PurgeStep
<1>4. CASE Crash
  <2>1. CASE \E f \in Uploading :
               NextStep(f, "crashed") /\ UNCHANGED <<rows, blobs, owner, purge, deleted>>
    BY <2>1 DEF Uploading, NextStep
  <2>2. CASE \E a \in Purging : PurgeFails(a)
    BY <1>3, <2>2 DEF Purging
  <2> QED
    BY <1>4, <2>1, <2>2 DEF Crash
<1> QED
  BY <1>1, <1>2, <1>3, <1>4 DEF Next, Round

LEMMA StaysFinite ==
    ASSUME IInv, InFlightFinite, Next
    PROVE  InFlightFinite'
<1>1. IsFiniteSet(Uploading')
  <2>1. \E f : Uploading' \subseteq Uploading \union {f}
    BY OneMoves DEF Uploading, IInv, TypeOK
  <2>2. PICK f : Uploading' \subseteq Uploading \union {f}
    BY <2>1
  <2>3. IsFiniteSet(Uploading \union {f})
    BY FS_AddElement DEF InFlightFinite
  <2> QED
    BY <2>2, <2>3, FS_Subset
<1>2. IsFiniteSet(Purging')
  <2>1. \E a : Purging' \subseteq Purging \union {a}
    BY OneMoves DEF Purging, IInv, TypeOK
  <2>2. PICK a : Purging' \subseteq Purging \union {a}
    BY <2>1
  <2>3. IsFiniteSet(Purging \union {a})
    BY FS_AddElement DEF InFlightFinite
  <2> QED
    BY <2>2, <2>3, FS_Subset
<1> QED
  BY <1>1, <1>2 DEF InFlightFinite

LEMMA AloneNext ==
    ASSUME LeakInv, Next, ~overlapped'
    PROVE  ~overlapped /\ Alone /\ Alone'
<1>1. ~overlapped /\ Alone
  BY DEF LeakInv, Next
<1>2. CASE Deletion /\ ~(Serving > 0)
  <2>1. Uploading = {} /\ Purging = {}
    BY <1>2, NoneInFlight DEF LeakInv
  <2>2. Uploading' = Uploading /\ Purging' = Purging
    BY <1>2 DEF Deletion, DeleteFile, DeleteJob, ArchiveJob, rows, Uploading, Purging
  <2> QED
    BY <1>1, <2>1, <2>2 DEF Alone
<1>3. CASE ~(Serving' > 1)
  <2>1. IsFiniteSet(Uploading') /\ IsFiniteSet(Purging')
    BY StaysFinite DEF LeakInv, InFlightFinite
  <2>2. ~(Cardinality(Uploading') + Cardinality(Purging') > 1)
    BY <1>3 DEF Serving
  <2>3. /\ \A x, y \in Uploading' : x = y
        /\ \A x, y \in Purging' : x = y
        /\ Uploading' = {} \/ Purging' = {}
    BY <2>1, <2>2, AtMostOne
  <2> QED
    BY <1>1, <2>3 DEF Alone
<1> QED
  BY <1>1, <1>2, <1>3 DEF Next

(* One request at a time: what each step keeps. *)
LEMMA SoloUpload ==
    ASSUME IInv, SoloInv, Alone, Alone', NEW f \in Files, Upload(f)
    PROVE  SoloInv'
<1>1. Purging = {} /\ Purging' = {}
  <2>1. up[f] \notin Ended \/ up'[f] \notin Ended
    BY DEF Upload, CreateFile, StoreUpload, InsertFile, SaveResults, TouchJob, NextStep,
           Ended, IInv, TypeOK
  <2>2. Purging' = Purging
    BY DEF Upload, CreateFile, StoreUpload, InsertFile, SaveResults, TouchJob, Fail, Purging
  <2> QED
    BY <2>1, <2>2 DEF Alone, Uploading
<1>2. PurgeListedAll'
  BY <1>1 DEF PurgeListedAll
<1>3. \A g \in Files \ {f} : up'[g] = up[g] /\ owner'[g] = owner[g] /\ files'[g] = files[g]
  BY DEF Upload, CreateFile, StoreUpload, InsertFile, SaveResults, TouchJob, Fail, NextStep,
         rows, IInv, TypeOK
<1>4. jobs' = jobs /\ deleted' = deleted /\ TypeOK'
  <2>1. TypeOK'
    BY UploadStep DEF IInv
  <2> QED
    BY <2>1 DEF Upload, CreateFile, StoreUpload, InsertFile, SaveResults, TouchJob, Fail, rows
<1>5. up[f] = "idle" \/ (owner[f] \in Jobs /\ jobs[owner[f]] = "active" /\ owner' = owner)
  <2>1. up[f] = "idle" \/ (f \in Uploading /\ owner' = owner)
    BY DEF Upload, CreateFile, StoreUpload, InsertFile, SaveResults, TouchJob, Fail,
           Uploading, Ended
  <2> QED
    BY <2>1 DEF SoloInv, UploadJobActive
<1>6. up[f] = "idle" => /\ owner'[f] \in Jobs /\ jobs[owner'[f]] = "active"
                        /\ up'[f] = "upload" /\ files' = files /\ blobs' = blobs
  BY DEF Upload, CreateFile, StoreUpload, InsertFile, SaveResults, TouchJob, Fail, NextStep,
         rows, IInv, TypeOK
<1>7. UploadJobActive'
  BY <1>3, <1>4, <1>5, <1>6 DEF SoloInv, UploadJobActive, Uploading
<1>8. /\ blobs' \subseteq blobs \union {f}
      /\ f \in blobs' => Kept(f)' /\ up'[f] \notin {"idle", "upload"}
  <2>1. CASE CreateFile(f)
    BY <2>1 DEF CreateFile, SoloInv, NotStoredYet
  <2>2. CASE StoreUpload(f)
    BY <2>2 DEF StoreUpload, NextStep, Kept, SoloInv, NotStoredYet, IInv, TypeOK
  <2>3. CASE InsertFile(f)
    BY <2>3, <1>5 DEF InsertFile, NextStep, Kept, IInv, TypeOK
  <2>4. CASE SaveResults(f) \/ TouchJob(f)
    <3>1. /\ blobs' = blobs /\ files' = files /\ owner' = owner
          /\ up[f] \in {"results", "touch"}
          /\ up'[f] \in {"touch", "created", "failed"}
      BY <2>4 DEF SaveResults, TouchJob, Fail, NextStep, rows, IInv, TypeOK
    <3> QED
      BY <1>4, <3>1 DEF SoloInv, Kept
  <2> QED
    BY <2>1, <2>2, <2>3, <2>4 DEF Upload
<1>9. NotStoredYet' /\ \A g \in blobs' : Kept(g)'
  <2>1. owner'[f] \in Jobs
    BY <1>5, <1>6
  <2>2. NotStoredYet'
    BY <1>3, <1>8, <2>1 DEF SoloInv, NotStoredYet
  <2> QED
    BY <1>3, <1>4, <1>8, <2>2 DEF SoloInv, Kept, IInv, TypeOK
<1>10. DeletedHasNoActive'
  <2>1. owner'[f] \notin deleted
    BY <1>5, <1>6 DEF SoloInv, DeletedHasNoActive
  <2> QED
    BY <1>3, <1>4, <2>1 DEF SoloInv, DeletedHasNoActive
<1> QED
  BY <1>2, <1>7, <1>9, <1>10 DEF SoloInv

LEMMA SoloDeletion ==
    ASSUME IInv, SoloInv, Uploading = {}, Purging = {}, Deletion
    PROVE  SoloInv'
<1>1. /\ up' = up /\ purge' = purge /\ blobs' = blobs /\ owner' = owner
      /\ Uploading' = {} /\ Purging' = {}
  BY DEF Deletion, DeleteFile, DeleteJob, ArchiveJob, rows, Uploading, Purging
<1>2. /\ \A f \in Files : \/ files'[f] = files[f]
                          \/ files[f] = "active" /\ files'[f] = "archived"
      /\ \A j \in Jobs : \/ jobs'[j] = jobs[j]
                         \/ jobs[j] = "active" /\ jobs'[j] = "archived"
      /\ \A j \in deleted' \ deleted :
           /\ jobs'[j] = "archived" /\ jobs[j] = "active"
           /\ \A f \in Files : owner[f] = j => files'[f] # "active"
      /\ deleted \subseteq deleted'
  BY DEF Deletion, DeleteFile, DeleteJob, ArchiveJob, rows, IInv, TypeOK
<1>3. UploadJobActive' /\ PurgeListedAll' /\ NotStoredYet'
  BY <1>1 DEF SoloInv, UploadJobActive, PurgeListedAll, NotStoredYet
<1>4. DeletedHasNoActive'
  BY <1>1, <1>2 DEF SoloInv, DeletedHasNoActive, IInv, TypeOK
<1>5. ASSUME NEW f \in blobs PROVE Kept(f)'
  <2>1. f \in Files /\ up[f] \notin {"idle", "upload"} /\ owner[f] \in Jobs
    BY DEF IInv, TypeOK, SoloInv, NotStoredYet
  <2>2. CASE jobs[owner[f]] = "gone" /\ owner[f] \notin deleted
    <3>1. jobs'[owner[f]] = "gone" /\ owner[f] \notin deleted'
      BY <1>2, <2>1, <2>2
    <3> QED
      BY <1>1, <3>1 DEF Kept
  <2> QED
    BY <1>1, <1>2, <2>1, <2>2 DEF SoloInv, Kept
<1> QED
  BY <1>1, <1>3, <1>4, <1>5 DEF SoloInv

(* A purge that fails, or a worker that dies, leaves the rows as they are. *)
LEMMA SoloPurgeFails ==
    ASSUME IInv, SoloInv, NEW a \in Admins, PurgeFails(a)
    PROVE  SoloInv'
<1>1. /\ UNCHANGED <<jobs, files, blobs, owner, up, deleted>>
      /\ \A b \in Purging' : b \in Purging /\ purge'[b] = purge[b]
  BY DEF PurgeFails, rows, Purging, NoPurge, IInv, TypeOK
<1>2. PurgeListedAll'
  BY <1>1 DEF SoloInv, PurgeListedAll, Listed
<1> QED
  BY <1>1, <1>2 DEF SoloInv, UploadJobActive, Uploading, NotStoredYet, DeletedHasNoActive, Kept

LEMMA SoloPurge ==
    ASSUME IInv, SoloInv, Alone, Alone', NEW a \in Admins, PurgeStep(a)
    PROVE  SoloInv'
<1>1. CASE PurgeFails(a)
  BY <1>1, SoloPurgeFails
<1>2. CASE PurgeStart(a)
  <2>1. UNCHANGED <<jobs, files, blobs, owner, up, deleted>>
    BY <1>2 DEF PurgeStart, rows
  <2>2. \A b \in Purging' : purge'[b].listed = Listed \/ (b \in Purging /\ purge'[b] = purge[b])
    BY <1>2 DEF PurgeStart, Purging, IInv, TypeOK
  <2>3. PurgeListedAll'
    BY <2>1, <2>2 DEF SoloInv, PurgeListedAll, Listed
  <2> QED
    BY <2>1, <2>3
    DEF SoloInv, UploadJobActive, Uploading, NotStoredYet, DeletedHasNoActive, Kept
<1>3. CASE ~PurgeFails(a) /\ ~PurgeStart(a)
  <2>1. a \in Purging /\ up' = up /\ owner' = owner /\ deleted' = deleted
    BY <1>3 DEF PurgeStep, PurgeContent, PurgeRow, PurgeFilesDone, PurgeJobs, rows, Purging
  <2>2. Uploading = {} /\ Uploading' = {}
    BY <2>1 DEF Alone, Uploading
  <2>3. Purging \subseteq {a} /\ Purging' \subseteq {a}
    <3>1. Purging' \subseteq Purging
      BY <1>3, <2>1 DEF PurgeStep, PurgeContent, PurgeRow, PurgeFilesDone, PurgeJobs,
         Purging, IInv, TypeOK
    <3> QED
      BY <2>1, <3>1 DEF Alone
  <2>4. purge'[a].listed = purge[a].listed
    <3>1. CASE PurgeContent(a)
      BY <1>3, <3>1 DEF PurgeContent, IInv, TypeOK, PurgeRecord
    <3>2. CASE PurgeRow(a)
      BY <1>3, <3>2 DEF PurgeRow, IInv, TypeOK, PurgeRecord
    <3>3. CASE PurgeFilesDone(a)
      BY <1>3, <3>3 DEF PurgeFilesDone, IInv, TypeOK, PurgeRecord
    <3>4. CASE PurgeJobs(a)
      BY <1>3, <3>4 DEF PurgeJobs, IInv, TypeOK, PurgeRecord
    <3> QED
      BY <1>3, <3>1, <3>2, <3>3, <3>4 DEF PurgeStep
  <2>5. Listed \subseteq purge[a].listed /\ PurgeProgress(a)
    BY <2>1 DEF SoloInv, PurgeListedAll, IInv
  <2>6. /\ blobs' \subseteq blobs
        /\ \A f \in Files : files'[f] \in {files[f], "gone"}
        /\ \A j \in Jobs : jobs'[j] = jobs[j] \/ (jobs[j] = "archived" /\ jobs'[j] = "gone")
    BY <1>3 DEF PurgeStep, PurgeContent, PurgeRow, PurgeFilesDone, PurgeJobs, rows, IInv, TypeOK
  <2>7. UploadJobActive' /\ NotStoredYet'
    BY <2>1, <2>2, <2>6 DEF SoloInv, UploadJobActive, NotStoredYet
  <2>8. PurgeListedAll'
    BY <2>3, <2>4, <2>5, <2>6 DEF PurgeListedAll, Listed
  <2>9. DeletedHasNoActive'
    BY <2>1, <2>6 DEF SoloInv, DeletedHasNoActive, IInv, TypeOK
  <2>10. ASSUME NEW f \in blobs' PROVE Kept(f)'
    <3>1. f \in Files /\ f \in blobs /\ Kept(f) /\ up[f] \notin {"idle", "upload"}
      BY <2>6 DEF SoloInv, NotStoredYet, IInv, TypeOK
    <3>2. CASE PurgeJobs(a)
      <4>1. /\ purge[a].pc = "jobs"
            /\ jobs' = [j \in Jobs |-> IF jobs[j] = "archived" THEN "gone" ELSE jobs[j]]
            /\ files' = [g \in Files |-> IF Cascaded(g) THEN "gone" ELSE files[g]]
        BY <1>3, <3>2 DEF PurgeJobs
      <4>2. files[f] # "archived"
        BY <2>5, <3>1, <4>1 DEF PurgeProgress, Listed
      <4>3. CASE Cascaded(f)
        <5>1. owner[f] \in Jobs /\ jobs[owner[f]] = "archived" /\ jobs'[owner[f]] = "gone"
          BY <4>1, <4>3 DEF Cascaded
        <5>2. owner[f] \in deleted => files[f] # "active"
          BY <3>1 DEF SoloInv, DeletedHasNoActive
        <5> QED
          BY <2>1, <3>1, <4>2, <5>1, <5>2 DEF Kept
      <4>4. CASE ~Cascaded(f)
        <5>1. files'[f] = files[f]
          BY <3>1, <4>1, <4>4
        <5>2. jobs[owner[f]] = "gone" => jobs'[owner[f]] = "gone"
          BY <2>6, <3>1 DEF SoloInv, NotStoredYet
        <5> QED
          BY <2>1, <3>1, <5>1, <5>2 DEF Kept
      <4> QED
        BY <4>3, <4>4
    <3>3. CASE ~PurgeJobs(a)
      <4>1. jobs' = jobs /\ files'[f] = files[f]
        BY <1>3, <2>5, <3>1, <3>3 DEF PurgeStep, PurgeContent, PurgeRow, PurgeFilesDone, rows,
           PurgeProgress, IInv, TypeOK
      <4> QED
        BY <2>1, <3>1, <4>1 DEF Kept
    <3> QED
      BY <3>2, <3>3
  <2> QED
    BY <2>7, <2>8, <2>9, <2>10 DEF SoloInv
<1> QED
  BY <1>1, <1>2, <1>3

LEMMA SoloCrash ==
    ASSUME IInv, SoloInv, Crash
    PROVE  SoloInv'
<1>1. ASSUME NEW f \in Uploading, NextStep(f, "crashed"),
             UNCHANGED <<rows, blobs, owner, purge, deleted>>
      PROVE  SoloInv'
  <2>1. /\ Uploading' \subseteq Uploading /\ Purging' = Purging
        /\ \A g \in Files : up'[g] = up[g] \/ (g \in Uploading /\ up'[g] = "crashed")
    BY <1>1 DEF NextStep, Uploading, Purging, Ended, IInv, TypeOK
  <2> QED
    BY <1>1, <2>1 DEF rows, SoloInv, UploadJobActive, PurgeListedAll, Listed, NotStoredYet,
       DeletedHasNoActive, Kept, IInv, TypeOK
<1> QED
  BY <1>1, SoloPurgeFails DEF Crash, Purging

LEMMA LeakInvInvariant == Spec => []LeakInv
<1>1. Init => LeakInv
  <2> SUFFICES ASSUME Init PROVE LeakInv
    OBVIOUS
  <2>1. Uploading = {} /\ Purging = {} /\ blobs = {} /\ deleted = {}
    BY DEF Init, Uploading, Purging, Ended, NoPurge
  <2>2. InFlightFinite
    BY <2>1, FS_EmptySet DEF InFlightFinite
  <2>3. Alone /\ SoloInv
    BY <2>1 DEF Init, Alone, SoloInv, UploadJobActive, PurgeListedAll, NotStoredYet,
                DeletedHasNoActive
  <2> QED
    BY <2>2, <2>3, InitInv DEF LeakInv
<1>2. LeakInv /\ IInv' /\ [Next]_vars => LeakInv'
  <2> SUFFICES ASSUME LeakInv, IInv', [Next]_vars PROVE LeakInv'
    OBVIOUS
  <2>1. CASE UNCHANGED vars
    BY <2>1 DEF vars, rows, LeakInv, InFlightFinite, Uploading, Purging, Alone, SoloInv,
       UploadJobActive, PurgeListedAll, Listed, NotStoredYet, DeletedHasNoActive, Kept
  <2>2. CASE Next
    <3>1. InFlightFinite'
      BY <2>2, StaysFinite DEF LeakInv
    <3>2. ASSUME ~overlapped' PROVE Alone' /\ SoloInv'
      <4>1. ~overlapped /\ Alone /\ Alone'
        BY <2>2, <3>2, AloneNext
      <4>2. IInv /\ SoloInv
        BY <4>1 DEF LeakInv
      <4>3. CASE Deletion /\ ~(Serving > 0)
        BY <4>1, <4>2, <4>3, NoneInFlight, SoloDeletion DEF LeakInv
      <4>4. CASE \E f \in Files : Upload(f)
        BY <4>1, <4>2, <4>4, SoloUpload
      <4>5. CASE \E a \in Admins : PurgeStep(a)
        BY <4>1, <4>2, <4>5, SoloPurge
      <4>6. CASE \E a \in Admins : PurgeAgain(a)
        BY <4>1, <4>2, <4>6, SoloPurgeFails DEF PurgeAgain
      <4>7. CASE Crash
        BY <4>1, <4>2, <4>7, SoloCrash
      <4> QED
        BY <2>2, <3>2, <4>3, <4>4, <4>5, <4>6, <4>7 DEF Next, Round
    <3> QED
      BY <3>1, <3>2 DEF LeakInv
  <2> QED
    BY <2>1, <2>2
<1> QED
  BY <1>1, <1>2, IInvInvariant, PTL DEF Spec

(* As long as no two requests have overlapped, a content whose row is not  *)
(* there is the trace of a failure of the store, of a worker that died, or *)
(* of a job purged after it was archived without its files (create_files,  *)
(* purge_archived_files, purge_archived_jobs).                             *)
THEOREM ContentsAreNotLeaked == Spec => []NoLeak
<1>1. LeakInv => NoLeak
  <2> SUFFICES ASSUME LeakInv, ~overlapped, Uploading = {}, NEW f \in blobs
      PROVE  \/ files[f] \in {"active", "archived"}
             \/ up[f] \in {"lost", "crashed"}
             \/ jobs[owner[f]] = "gone" /\ owner[f] \notin deleted
    BY DEF NoLeak
  <2>1. f \in Files /\ Kept(f)
    BY DEF LeakInv, SoloInv, IInv, TypeOK
  <2>2. up[f] # "insert"
    BY <2>1 DEF Uploading, Ended
  <2> QED
    BY <2>1, <2>2 DEF Kept
<1> QED
  BY <1>1, LeakInvInvariant, PTL
=============================================================================
