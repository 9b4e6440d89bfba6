---------------------------- MODULE Jobs_proofs -----------------------------
(*************************************************************************)
(* Proofs about the queued jobs of an account: imports, the Google       *)
(* connection and company enrichment, for any number of jobs, files, rows, *)
(* consents, pages, runs and workers.                                    *)
(*************************************************************************)
EXTENDS ImportJob, GoogleConnect, Enrichment, TLAPS

-----------------------------------------------------------------------------
(***************************************************************************)
(* Proofs about import jobs: types and the source file for every           *)
(* behaviour; that a row is written once and a finished job is locked when *)
(* no commit starts while a dry-run of the job is in flight.               *)
(***************************************************************************)
-----------------------------------------------------------------------------
(* Types.                                                                  *)

\* Every job and request has its type in the initial state.
LEMMA ImportInitTyped == Init => TypeOK
BY ImportAssumption
   DEF Init, TypeOK, Statuses, Editable, Finished, Gone, Steps, FileRows

\* Every step keeps the types.
LEMMA ImportStepTyped == TypeOK /\ [Next]_vars => TypeOK'
<1> SUFFICES ASSUME TypeOK, [Next]_vars
             PROVE  TypeOK'
  OBVIOUS
<1> USE ImportAssumption
    DEF TypeOK, Statuses, Editable, Gone, Finished, Steps, Goto, End, SetStatus,
        jobVars, runVars
<1>1. ASSUME NEW q \in Requests, NEW j \in Jobs, Start(q, j)
      PROVE  TypeOK'
  <2>1. CASE PutSource(q, j)
    BY <2>1 DEF PutSource
  <2>2. CASE DryRun(q, j)
    BY <2>2 DEF DryRun
  <2>3. CASE Commit(q, j)
    BY <2>3 DEF Commit
  <2>4. CASE DeleteCheck(q, j)
    BY <2>4 DEF DeleteCheck
  <2> QED
    BY <1>1, <2>1, <2>2, <2>3, <2>4 DEF Start
<1>2. ASSUME NEW q \in Requests, NEW j \in Jobs, Continue(q, j)
      PROVE  TypeOK'
  <2>1. CASE CreateRow(q, j)
    BY <2>1 DEF CreateRow
  <2>2. CASE CreateRowFails(q, j)
    BY <2>2 DEF CreateRowFails
  <2>3. CASE UndoPut(q, j) \/ DeleteSource(q, j)
    <3>1. stored' = stored \/ stored' = [stored EXCEPT ![j] = FALSE]
      BY <2>3 DEF UndoPut, DeleteSource, DropSource
    <3>2. End(q) /\ UNCHANGED <<status, applied, report, crashes>>
      BY <2>3 DEF UndoPut, DeleteSource, DropSource
    <3>3. CASE stored' = stored
      BY <3>2, <3>3
    <3>4. CASE stored' = [stored EXCEPT ![j] = FALSE]
      BY <3>2, <3>4
    <3> QED
      BY <3>1, <3>3, <3>4
  <2>4. CASE DryRunThrows(q, j)
    BY <2>4 DEF DryRunThrows
  <2>5. CASE FinishDryRun(q, j)
    BY <2>5 DEF FinishDryRun
  <2>6. CASE LoadSource(q, j)
    BY <2>6 DEF LoadSource
  <2>7. CASE RejectFile(q, j)
    BY <2>7 DEF RejectFile
  <2>8. CASE CommitThrows(q, j)
    BY <2>8 DEF CommitThrows
  <2>9. CASE WriteRow(q, j)
    BY <2>9 DEF WriteRow
  <2>10. CASE RejectRow(q, j)
    BY <2>10 DEF RejectRow
  <2>11. CASE FinishCommit(q, j)
    BY <2>11 DEF FinishCommit
  <2>12. CASE DeleteRow(q, j)
    <3>1. CASE HasRow(j)
      <4>1. /\ status' = [status EXCEPT ![j] = "deleted"]
            /\ Goto(q, "deleteSource", j)
            /\ UNCHANGED <<stored, applied, report, runVars, crashes>>
        BY <2>12, <3>1 DEF DeleteRow
      <4> QED
        BY <4>1
    <3>2. CASE ~HasRow(j)
      <4>1. End(q) /\ UNCHANGED <<jobVars, crashes>>
        BY <2>12, <3>2 DEF DeleteRow
      <4> QED
        BY <4>1
    <3> QED
      BY <3>1, <3>2
  <2> QED
    BY <1>2, <2>1, <2>2, <2>3, <2>4, <2>5, <2>6, <2>7, <2>8, <2>9, <2>10,
       <2>11, <2>12 DEF Continue
<1>3. ASSUME NEW q \in Requests, Crash(q)
      PROVE  TypeOK'
  BY <1>3 DEF Crash
<1>4. CASE UNCHANGED vars
  BY <1>4 DEF vars
<1> QED
  BY <1>1, <1>2, <1>3, <1>4 DEF Next

-----------------------------------------------------------------------------
(* The source file.                                                        *)

\* An upload alone knows its job's id, and a row has its source.
LEMMA StepKeepsSource == TypeOK /\ SourceInv /\ [Next]_vars => SourceInv'
<1> SUFFICES ASSUME TypeOK, SourceInv, [Next]_vars
             PROVE  SourceInv'
  OBVIOUS
<1> USE ImportAssumption
    DEF TypeOK, SourceInv, RequestHasTarget, UploadOwnsId, Uploading,
        SourceOutlivesRow, HasRow, At, Goto, End, SetStatus, Editable, Gone,
        jobVars, runVars
<1>1. ASSUME NEW q \in Requests, NEW j \in Jobs, Start(q, j)
      PROVE  SourceInv'
  <2>1. CASE PutSource(q, j)
    BY <2>1 DEF PutSource
  <2>2. CASE DryRun(q, j)
    BY <2>2 DEF DryRun, Claimable
  <2>3. CASE Commit(q, j)
    BY <2>3 DEF Commit, Claimable
  <2>4. CASE DeleteCheck(q, j)
    BY <2>4 DEF DeleteCheck
  <2> QED
    BY <1>1, <2>1, <2>2, <2>3, <2>4 DEF Start
<1>2. ASSUME NEW q \in Requests, NEW j \in Jobs, Continue(q, j)
      PROVE  SourceInv'
  <2>1. CASE CreateRow(q, j)
    BY <2>1 DEF CreateRow
  <2>2. CASE CreateRowFails(q, j)
    BY <2>2 DEF CreateRowFails
  <2>3. CASE UndoPut(q, j)
    BY <2>3 DEF UndoPut, DropSource
  <2>4. CASE DryRunThrows(q, j)
    BY <2>4 DEF DryRunThrows
  <2>5. CASE FinishDryRun(q, j)
    BY <2>5 DEF FinishDryRun
  <2>6. CASE LoadSource(q, j)
    BY <2>6 DEF LoadSource
  <2>7. CASE RejectFile(q, j)
    BY <2>7 DEF RejectFile
  <2>8. CASE CommitThrows(q, j)
    BY <2>8 DEF CommitThrows
  <2>9. CASE WriteRow(q, j)
    BY <2>9 DEF WriteRow
  <2>10. CASE RejectRow(q, j)
    BY <2>10 DEF RejectRow
  <2>11. CASE FinishCommit(q, j)
    BY <2>11 DEF FinishCommit
  <2>12. CASE DeleteRow(q, j)
    <3>1. CASE HasRow(j)
      <4>1. /\ status' = [status EXCEPT ![j] = "deleted"]
            /\ Goto(q, "deleteSource", j)
            /\ UNCHANGED <<stored, applied, report, runVars, crashes>>
        BY <2>12, <3>1 DEF DeleteRow
      <4> QED
        BY <3>1, <4>1
    <3>2. CASE ~HasRow(j)
      <4>1. End(q) /\ UNCHANGED <<jobVars, crashes>>
        BY <2>12, <3>2 DEF DeleteRow
      <4> QED
        BY <4>1
    <3> QED
      BY <3>1, <3>2
  <2>13. CASE DeleteSource(q, j)
    BY <2>13 DEF DeleteSource, DropSource
  <2> QED
    BY <1>2, <2>1, <2>2, <2>3, <2>4, <2>5, <2>6, <2>7, <2>8, <2>9, <2>10,
       <2>11, <2>12, <2>13 DEF Continue
<1>3. ASSUME NEW q \in Requests, Crash(q)
      PROVE  SourceInv'
  BY <1>3 DEF Crash
<1>4. CASE UNCHANGED vars
  BY <1>4 DEF vars
<1> QED
  BY <1>1, <1>2, <1>3, <1>4 DEF Next

-----------------------------------------------------------------------------
(* The commit.                                                             *)

\* Without overlap one request at a time writes a job's rows, in order, and
\* only while the job is committing or after its row was deleted.
LEMMA StepKeepsCommit ==
    ~Overlap /\ TypeOK /\ SourceInv /\ CommitInv /\ [Next]_vars => CommitInv'
<1> SUFFICES ASSUME ~Overlap, TypeOK, SourceInv, CommitInv, [Next]_vars
             PROVE  CommitInv'
  OBVIOUS
<1> USE ImportAssumption
    DEF TypeOK, SourceInv, RequestHasTarget, UploadOwnsId, Uploading, CommitInv,
        OneCommitter, ClaimHolds, UnwrittenAhead, RowsWrittenOnce, Committing,
        HasRow, At, Goto, End, SetStatus, Editable, Gone, jobVars, runVars
<1>1. ASSUME NEW q \in Requests, NEW j \in Jobs, Start(q, j)
      PROVE  CommitInv'
  <2>1. CASE PutSource(q, j)
    BY <2>1 DEF PutSource
  <2>2. CASE DryRun(q, j)
    BY <2>2 DEF DryRun, Claimable
  <2>3. CASE Commit(q, j)
    BY <2>3 DEF Commit, Claimable, DryRunning
  <2>4. CASE DeleteCheck(q, j)
    BY <2>4 DEF DeleteCheck
  <2> QED
    BY <1>1, <2>1, <2>2, <2>3, <2>4 DEF Start
<1>2. ASSUME NEW q \in Requests, NEW j \in Jobs, Continue(q, j)
      PROVE  CommitInv'
  <2>1. CASE CreateRow(q, j)
    BY <2>1 DEF CreateRow
  <2>2. CASE CreateRowFails(q, j)
    BY <2>2 DEF CreateRowFails
  <2>3. CASE UndoPut(q, j)
    BY <2>3 DEF UndoPut, DropSource
  <2>4. CASE DryRunThrows(q, j)
    BY <2>4 DEF DryRunThrows
  <2>5. CASE FinishDryRun(q, j)
    BY <2>5 DEF FinishDryRun
  <2>6. CASE LoadSource(q, j)
    BY <2>6 DEF LoadSource
  <2>7. CASE RejectFile(q, j)
    BY <2>7 DEF RejectFile, FileRows
  <2>8. CASE CommitThrows(q, j)
    BY <2>8 DEF CommitThrows
  <2>9. CASE WriteRow(q, j)
    <3> DEFINE i0 == pos[q]
    <3>1. /\ i0 \in FileRows /\ Committing(q) /\ target[q] = j /\ applied[j][i0] = 0
          /\ applied' = [applied EXCEPT ![j][i0] = @ + 1]
          /\ pos' = [pos EXCEPT ![q] = i0 + 1]
          /\ UNCHANGED <<status, pc, target>>
      BY <2>9 DEF WriteRow, FileRows
    <3>2. \A k \in Jobs, i \in FileRows :
            applied'[k][i] = IF k = j /\ i = i0 THEN 1 ELSE applied[k][i]
      BY <3>1
    <3>3. \A p \in Requests : Committing(p) /\ target[p] = j => p = q
      BY <3>1
    <3>4. OneCommitter' /\ ClaimHolds' /\ RowsWrittenOnce'
      BY <3>1, <3>2
    <3>5. UnwrittenAhead'
      BY <3>1, <3>2, <3>3 DEF FileRows
    <3> QED
      BY <3>4, <3>5
  <2>10. CASE RejectRow(q, j)
    BY <2>10 DEF RejectRow, FileRows
  <2>11. CASE FinishCommit(q, j)
    BY <2>11 DEF FinishCommit
  <2>12. CASE DeleteRow(q, j)
    <3>1. CASE HasRow(j)
      <4>1. /\ status' = [status EXCEPT ![j] = "deleted"]
            /\ Goto(q, "deleteSource", j)
            /\ UNCHANGED <<stored, applied, report, runVars, crashes>>
        BY <2>12, <3>1 DEF DeleteRow
      <4> QED
        BY <3>1, <4>1
    <3>2. CASE ~HasRow(j)
      <4>1. End(q) /\ UNCHANGED <<jobVars, crashes>>
        BY <2>12, <3>2 DEF DeleteRow
      <4> QED
        BY <4>1
    <3> QED
      BY <3>1, <3>2
  <2>13. CASE DeleteSource(q, j)
    BY <2>13 DEF DeleteSource, DropSource
  <2> QED
    BY <1>2, <2>1, <2>2, <2>3, <2>4, <2>5, <2>6, <2>7, <2>8, <2>9, <2>10,
       <2>11, <2>12, <2>13 DEF Continue
<1>3. ASSUME NEW q \in Requests, Crash(q)
      PROVE  CommitInv'
  BY <1>3 DEF Crash
<1>4. CASE UNCHANGED vars
  BY <1>4 DEF vars
<1> QED
  BY <1>1, <1>2, <1>3, <1>4 DEF Next

\* Without overlap a job that finished is only ever deleted.
LEMMA StepLocksFinished ==
    ~Overlap /\ TypeOK /\ SourceInv /\ CommitInv /\ [Next]_vars =>
        \A j \in Jobs :
            status[j] \in Finished => status'[j] \in {status[j], "deleted"}
<1> SUFFICES ASSUME TypeOK, SourceInv, CommitInv, [Next]_vars,
                    NEW i \in Jobs, status[i] \in Finished
             PROVE  status'[i] \in {status[i], "deleted"}
  OBVIOUS
<1> USE DEF TypeOK, SourceInv, UploadOwnsId, Uploading, CommitInv, ClaimHolds,
            Committing, At, SetStatus, Editable, Finished, jobVars
<1>1. ASSUME NEW q \in Requests, NEW j \in Jobs, Start(q, j)
      PROVE  status'[i] \in {status[i], "deleted"}
  BY <1>1 DEF Start, PutSource, DryRun, Commit, DeleteCheck, Claimable
<1>2. ASSUME NEW q \in Requests, NEW j \in Jobs, Continue(q, j)
      PROVE  status'[i] \in {status[i], "deleted"}
  <2>1. CASE CreateRow(q, j)
    BY <2>1 DEF CreateRow
  <2>2. CASE FinishDryRun(q, j)
    BY <2>2 DEF FinishDryRun
  <2>3. CASE CommitThrows(q, j) \/ FinishCommit(q, j)
    BY <2>3 DEF CommitThrows, FinishCommit
  <2>4. CASE DeleteRow(q, j)
    BY <2>4 DEF DeleteRow
  <2>5. CASE UNCHANGED status
    BY <2>5
  <2> QED
    BY <1>2, <2>1, <2>2, <2>3, <2>4, <2>5
       DEF Continue, CreateRowFails, UndoPut, DryRunThrows, LoadSource,
           RejectFile, WriteRow, RejectRow, DeleteSource, DropSource
<1>3. ASSUME NEW q \in Requests, Crash(q)
      PROVE  status'[i] \in {status[i], "deleted"}
  BY <1>3 DEF Crash
<1>4. CASE UNCHANGED vars
  BY <1>4 DEF vars
<1> QED
  BY <1>1, <1>2, <1>3, <1>4 DEF Next

-----------------------------------------------------------------------------
(* Every row is accounted for.                                             *)

\* A commit passes a row only when it wrote it or noted it as bad, and what
\* was written stays written: a job that completes covers its file.
LEMMA StepKeepsCover == TypeOK /\ CoverInv /\ [Next]_vars => CoverInv'
<1> SUFFICES ASSUME TypeOK, CoverInv, [Next]_vars
             PROVE  CoverInv'
  OBVIOUS
<1> USE ImportAssumption
    DEF TypeOK, CoverInv, PassedRowsAccounted, CompletedCoversFile,
        HasRow, At, Goto, End, SetStatus, Editable, Gone, FileRows, jobVars, runVars
<1>1. ASSUME NEW q \in Requests, NEW j \in Jobs, Start(q, j)
      PROVE  CoverInv'
  <2>1. CASE PutSource(q, j)
    BY <2>1 DEF PutSource
  <2>2. CASE DryRun(q, j)
    BY <2>2 DEF DryRun
  <2>3. CASE Commit(q, j)
    BY <2>3 DEF Commit
  <2>4. CASE DeleteCheck(q, j)
    BY <2>4 DEF DeleteCheck
  <2> QED
    BY <1>1, <2>1, <2>2, <2>3, <2>4 DEF Start
<1>2. ASSUME NEW q \in Requests, NEW j \in Jobs, Continue(q, j)
      PROVE  CoverInv'
  <2>1. CASE CreateRow(q, j)
    BY <2>1 DEF CreateRow
  <2>2. CASE CreateRowFails(q, j)
    BY <2>2 DEF CreateRowFails
  <2>3. CASE UndoPut(q, j) \/ DeleteSource(q, j)
    <3>1. End(q) /\ UNCHANGED <<status, applied, report>>
      BY <2>3 DEF UndoPut, DeleteSource, DropSource
    <3> QED
      BY <3>1
  <2>4. CASE DryRunThrows(q, j)
    BY <2>4 DEF DryRunThrows
  <2>5. CASE FinishDryRun(q, j)
    BY <2>5 DEF FinishDryRun
  <2>6. CASE LoadSource(q, j)
    BY <2>6 DEF LoadSource
  <2>7. CASE RejectFile(q, j)
    BY <2>7 DEF RejectFile
  <2>8. CASE CommitThrows(q, j)
    BY <2>8 DEF CommitThrows
  <2>9. CASE WriteRow(q, j)
    <3> DEFINE i0 == pos[q]
    <3>1. /\ i0 \in FileRows /\ pc[q] = "rows" /\ target[q] = j
          /\ applied' = [applied EXCEPT ![j][i0] = @ + 1]
          /\ pos' = [pos EXCEPT ![q] = i0 + 1]
          /\ UNCHANGED <<status, report, pc, target, bad>>
      BY <2>9 DEF WriteRow
    <3>2. \A k \in Jobs, i \in FileRows :
            applied'[k][i] = IF k = j /\ i = i0 THEN applied[k][i] + 1
                                                ELSE applied[k][i]
      BY <3>1
    <3>3. /\ applied[j][i0] \in Nat
          /\ \A k \in Jobs, i \in FileRows :
               applied[k][i] >= 1 => applied'[k][i] >= 1
      BY <3>1, <3>2
    <3>4. applied'[j][i0] >= 1
      BY <3>1, <3>2, <3>3
    <3>5. CompletedCoversFile'
      BY <3>1, <3>3
    <3>6. PassedRowsAccounted'
      <4> SUFFICES ASSUME NEW p \in Requests
                   PROVE  /\ pc'[p] # "rows" => pos'[p] = 1
                          /\ pc'[p] = "rows" => \A i \in FileRows :
                               i < pos'[p] => applied'[target'[p]][i] >= 1
                                              \/ i \in bad'[p]
        BY DEF PassedRowsAccounted
      <4>1. CASE p = q
        BY <4>1, <3>1, <3>3, <3>4
      <4>2. CASE p # q
        <5>1. pos'[p] = pos[p]
          BY <4>2, <3>1
        <5>2. ASSUME NEW i \in FileRows, pc[p] = "rows", i < pos[p],
                     applied[target[p]][i] >= 1
              PROVE  applied'[target[p]][i] >= 1
          <6>1. CASE target[p] \in Jobs
            BY <6>1, <5>2, <3>3
          <6>2. CASE target[p] = NoJob
            BY <6>2, <5>2, <3>1
          <6> QED
            BY <6>1, <6>2
        <5> QED
          BY <5>1, <5>2, <3>1
      <4> QED
        BY <4>1, <4>2
    <3> QED
      BY <3>5, <3>6
  <2>10. CASE RejectRow(q, j)
    BY <2>10 DEF RejectRow
  <2>11. CASE FinishCommit(q, j)
    BY <2>11 DEF FinishCommit
  <2>12. CASE DeleteRow(q, j)
    <3>1. CASE HasRow(j)
      <4>1. /\ pc[q] = "deleteRow"
            /\ status' = [status EXCEPT ![j] = "deleted"]
            /\ Goto(q, "deleteSource", j)
            /\ UNCHANGED <<applied, report, runVars>>
        BY <2>12, <3>1 DEF DeleteRow
      <4> QED
        BY <4>1
    <3>2. CASE ~HasRow(j)
      <4>1. End(q) /\ UNCHANGED jobVars
        BY <2>12, <3>2 DEF DeleteRow
      <4> QED
        BY <4>1
    <3> QED
      BY <3>1, <3>2
  <2> QED
    BY <1>2, <2>1, <2>2, <2>3, <2>4, <2>5, <2>6, <2>7, <2>8, <2>9, <2>10,
       <2>11, <2>12 DEF Continue
<1>3. ASSUME NEW q \in Requests, Crash(q)
      PROVE  CoverInv'
  BY <1>3 DEF Crash
<1>4. CASE UNCHANGED vars
  BY <1>4 DEF vars
<1> QED
  BY <1>1, <1>2, <1>3, <1>4 DEF Next

-----------------------------------------------------------------------------
(* The theorems.                                                           *)

\* Jobs and requests always have their types.
THEOREM ImportTyping == Spec => []TypeOK
BY ImportInitTyped, ImportStepTyped, PTL DEF Spec

\* A job's row always has its source file, whatever overlaps, fails or
\* crashes.
THEOREM RowHasSource == Spec => []SourceOutlivesRow
<1>1. Init => SourceInv
  BY DEF Init, SourceInv, RequestHasTarget, UploadOwnsId, Uploading,
         SourceOutlivesRow, HasRow, Gone
<1>2. SourceInv => SourceOutlivesRow
  BY DEF SourceInv
<1> QED
  BY ImportTyping, <1>1, <1>2, StepKeepsSource, PTL DEF Spec

\* A completed job accounts for its whole file, whatever overlaps, fails or
\* crashes: each row was written or is in the persisted report.
THEOREM FileCovered == Spec => []CompletedCoversFile
<1>1. Init => CoverInv
  BY DEF Init, CoverInv, PassedRowsAccounted, CompletedCoversFile
<1>2. CoverInv => CompletedCoversFile
  BY DEF CoverInv
<1> QED
  BY ImportTyping, <1>1, <1>2, StepKeepsCover, PTL DEF Spec

\* The inductive invariant holds when commits and dry-runs do not overlap.
LEMMA Inductive == ~Overlap => (Spec => []IInv)
<1> SUFFICES ASSUME ~Overlap
             PROVE  Spec => []IInv
  OBVIOUS
<1>1. Init => SourceInv /\ CommitInv
  BY DEF Init, SourceInv, RequestHasTarget, UploadOwnsId, Uploading,
         SourceOutlivesRow, HasRow, Gone, CommitInv, OneCommitter, ClaimHolds,
         Committing, UnwrittenAhead, RowsWrittenOnce
<1>2. IInv /\ [Next]_vars => IInv'
  BY ImportStepTyped, StepKeepsSource, StepKeepsCommit DEF IInv
<1> QED
  BY ImportInitTyped, <1>1, <1>2, PTL DEF Spec, IInv

\* No row of a file is written twice for its job when no commit starts while
\* a dry-run of the job is in flight.
THEOREM WrittenOnce == ~Overlap => (Spec => []RowsWrittenOnce)
<1> SUFFICES ASSUME ~Overlap
             PROVE  Spec => []RowsWrittenOnce
  OBVIOUS
<1>1. IInv => RowsWrittenOnce
  BY DEF IInv, CommitInv
<1> QED
  BY Inductive, <1>1, PTL

\* Under the same condition a completed or failed job stays as it is until
\* it is deleted.
THEOREM Locked == ~Overlap => (Spec => FinishedIsLocked)
<1> SUFFICES ASSUME ~Overlap
             PROVE  Spec => FinishedIsLocked
  OBVIOUS
<1>1. IInv /\ [Next]_vars =>
        [\A j \in Jobs :
           status[j] \in Finished => status'[j] \in {status[j], "deleted"}]_vars
  BY StepLocksFinished DEF IInv
<1> QED
  BY Inductive, <1>1, PTL DEF Spec, FinishedIsLocked

-----------------------------------------------------------------------------
(***************************************************************************)
(* Proofs about the Google connection, for any number of consents, of      *)
(* callback requests and of settings pages: the types, and that one        *)
(* consent never connects twice.                                           *)
(***************************************************************************)
USE ConnectAssumption

\* The steps that leave the consent rows and the callbacks alone.
Elsewhere ==
    \/ \E t \in Cards : LoadStatus(t) \/ Resync(t) \/ Disconnect(t)
    \/ LeaveStep \/ Revoke \/ Worker \/ ApiBoot
    \/ \E kind \in Kinds : JobForgotten(kind)
    \/ RedisLost \/ GrantWithdrawn

\* The steps of a consent.
Consenting ==
    \/ \E t \in Cards, intent \in Intents : StartConsent(t, intent)
    \/ \E s \in StateIds : StateExpires(s)
    \/ \E c \in Callbacks, s \in StateIds : Claim(c, s)

LEMMA NextCases ==
    ASSUME ConnectNext
    PROVE  Elsewhere \/ Consenting \/ (\E c \in Callbacks : CallbackStep(c))
BY Zenon DEF ConnectNext, Elsewhere, Consenting

LEMMA ElsewhereSame == Elsewhere => oauthSame
BY DEF Elsewhere, LoadStatus, Resync, Disconnect, LeaveStep, Revoke, Worker, RunPull,
       ApiBoot, JobForgotten, RedisLost, GrantWithdrawn

-----------------------------------------------------------------------------
(* The types.                                                              *)

\* What the steps of a callback write into it leaves it one.
LEMMA CallbackChanged ==
    ASSUME NEW run \in CallbackRuns, NEW got \in SUBSET Intents, NEW s \in StateIds
    PROVE  /\ IdleCallback \in CallbackRuns
           /\ [IdleCallback EXCEPT !.pc = "exchange", !.of = s] \in CallbackRuns
           /\ [run EXCEPT !.pc = "account", !.got = got] \in CallbackRuns
           /\ [run EXCEPT !.pc = "child"] \in CallbackRuns
           /\ [run EXCEPT !.pc = "enqueue"] \in CallbackRuns
BY DEF CallbackRuns, IdleCallback

\* The same of a state row.
LEMMA OAuthChanged ==
    ASSUME NEW row \in OAuthRows, NEW intent \in Intents
    PROVE  /\ [row EXCEPT !.state = "gone"] \in OAuthRows
           /\ [row EXCEPT !.state = "used"] \in OAuthRows
           /\ [state |-> "open", intent |-> intent] \in OAuthRows
BY DEF OAuthRows

\* A callback request writes itself.
LEMMA CallbackWritten ==
    ASSUME ConnectTypeOK, NEW c \in Callbacks, NEW run \in CallbackRuns,
           run.pc # "rest" => run.of \in StateIds,
           callback' = [callback EXCEPT ![c] = run]
    PROVE  /\ callback' \in [Callbacks -> CallbackRuns]
           /\ \A d \in Callbacks : callback'[d].pc # "rest" => callback'[d].of \in StateIds
<1>1. callback \in [Callbacks -> CallbackRuns]
  BY DEF ConnectTypeOK
<1>2. \A d \in Callbacks : callback'[d] = IF d = c THEN run ELSE callback[d]
  BY <1>1
<1> QED
  BY <1>1, <1>2 DEF ConnectTypeOK

LEMMA ConnectInitTyped == ConnectInit => ConnectTypeOK
<1> SUFFICES ASSUME ConnectInit PROVE ConnectTypeOK
  OBVIOUS
<1> USE DEF ConnectInit
<1>1. oauth \in [StateIds -> OAuthRows] /\ uses \in [StateIds -> Nat]
  BY DEF OAuthRows, Intents
<1>2. IdleCallback \in CallbackRuns /\ IdleCallback.pc = "rest"
  BY DEF IdleCallback, CallbackRuns
<1>3. account \in [state : {"none", "on", "off"}, scopes : SUBSET Intents]
  BY DEF NoRow
<1>4. card \in [Cards -> BOOLEAN]
  BY DEF Status, NoRow
<1>5. /\ contactsRow \in [row : BOOLEAN, inbound : BOOLEAN, full : BOOLEAN]
      /\ calendarRow \in [row : BOOLEAN, enabled : BOOLEAN]
      /\ revoking \in BOOLEAN /\ wanted \in BOOLEAN /\ synced \in BOOLEAN
  OBVIOUS
<1>6. callback \in [Callbacks -> CallbackRuns] /\ \A c \in Callbacks : callback[c].pc = "rest"
  BY <1>2
<1>7. /\ crons \subseteq Intents /\ pulls \subseteq Kinds /\ retained \subseteq Kinds
      /\ granted \subseteq Intents /\ linkFaults \in 0..MaxLinkFaults
      /\ leaving \in {"no", "contacts", "calendar", "uncron", "uncal"}
  OBVIOUS
<1> HIDE DEF ConnectInit
<1> QED
  BY <1>1, <1>3, <1>4, <1>5, <1>6, <1>7 DEF ConnectTypeOK

\* A step elsewhere.
LEMMA ElsewhereTyped ==
    ASSUME ConnectTypeOK, Elsewhere
    PROVE  ConnectTypeOK'
<1> USE DEF ConnectTypeOK, LinkFault, rowsSame, queueSame, oauthSame, pageSame, Status
<1>1. ASSUME NEW t \in Cards, LoadStatus(t) \/ Resync(t) \/ Disconnect(t)
      PROVE  ConnectTypeOK'
  <2>1. CASE LoadStatus(t)
    <3>1. card' \in [Cards -> BOOLEAN]
      BY <2>1 DEF LoadStatus
    <3> QED
      BY <2>1, <3>1 DEF LoadStatus
  <2>2. CASE Resync(t)
    BY <2>2 DEF Resync, AddPull, Kinds
  <2>3. CASE Disconnect(t)
    BY <2>3 DEF Disconnect
  <2> QED
    BY <1>1, <2>1, <2>2, <2>3
<1>2. CASE LeaveStep
  <2>1. /\ [contactsRow EXCEPT !.inbound = FALSE] \in
              [row : BOOLEAN, inbound : BOOLEAN, full : BOOLEAN]
        /\ [calendarRow EXCEPT !.enabled = FALSE] \in [row : BOOLEAN, enabled : BOOLEAN]
    OBVIOUS
  <2>2. crons' \subseteq Intents /\ linkFaults' \in 0..MaxLinkFaults
    BY <1>2 DEF LeaveStep, Unschedule
  <2>3. leaving' \in {"no", "contacts", "calendar", "uncron", "uncal"} /\ wanted' \in BOOLEAN
    BY <1>2 DEF LeaveStep
  <2>4. /\ contactsRow' \in [row : BOOLEAN, inbound : BOOLEAN, full : BOOLEAN]
        /\ calendarRow' \in [row : BOOLEAN, enabled : BOOLEAN]
    BY <1>2, <2>1 DEF LeaveStep
  <2>5. UNCHANGED <<account, pulls, retained, granted, revoking, card, synced, oauth, uses,
                    callback>>
    BY <1>2 DEF LeaveStep
  <2> QED
    BY <2>2, <2>3, <2>4, <2>5
<1>3. CASE Revoke
  BY <1>3 DEF Revoke
<1>4. CASE Worker
  BY <1>4 DEF Worker, RunPull
<1>5. CASE ApiBoot
  BY <1>5 DEF ApiBoot, BootSchedules, Intents
<1>6. CASE \E kind \in Kinds : JobForgotten(kind)
  BY <1>6 DEF JobForgotten
<1>7. CASE RedisLost \/ GrantWithdrawn
  BY <1>7 DEF RedisLost, GrantWithdrawn
<1> QED
  BY <1>1, <1>2, <1>3, <1>4, <1>5, <1>6, <1>7 DEF Elsewhere

\* A consent is started, claimed, or expires.
LEMMA ConsentingTyped ==
    ASSUME ConnectTypeOK, Consenting
    PROVE  ConnectTypeOK'
<1> USE DEF ConnectTypeOK, rowsSame, queueSame, pageSame
<1>1. ASSUME NEW t \in Cards, NEW intent \in Intents, StartConsent(t, intent)
      PROVE  ConnectTypeOK'
  <2>1. oauth' \in [StateIds -> OAuthRows]
    BY <1>1, OAuthChanged DEF StartConsent
  <2>2. UNCHANGED <<uses, callback, granted, synced, linkFaults, account, contactsRow,
                    calendarRow, crons, pulls, retained, card, leaving, revoking, wanted>>
    BY <1>1 DEF StartConsent
  <2> QED
    BY <2>1, <2>2
<1>2. ASSUME NEW s \in StateIds, StateExpires(s)
      PROVE  ConnectTypeOK'
  <2>1. [oauth[s] EXCEPT !.state = "gone"] \in OAuthRows
    BY OAuthChanged DEF Intents
  <2> QED
    BY <1>2, <2>1 DEF StateExpires
<1>3. ASSUME NEW c \in Callbacks, NEW s \in StateIds, Claim(c, s)
      PROVE  ConnectTypeOK'
  <2>1. [oauth[s] EXCEPT !.state = "used"] \in OAuthRows
    BY OAuthChanged DEF Intents
  <2>2. [IdleCallback EXCEPT !.pc = "exchange", !.of = s] \in CallbackRuns
    BY CallbackChanged
  <2>3. [IdleCallback EXCEPT !.pc = "exchange", !.of = s].of = s
    BY DEF IdleCallback
  <2> QED
    BY <1>3, <2>1, <2>2, <2>3 DEF Claim
<1> QED
  BY <1>1, <1>2, <1>3 DEF Consenting

\* A callback request takes a step.
LEMMA CallbackTyped ==
    ASSUME ConnectTypeOK, NEW c \in Callbacks, CallbackStep(c)
    PROVE  ConnectTypeOK'
<1> DEFINE s == callback[c].of
<1> USE DEF ConnectTypeOK, LinkFault, rowsSame, queueSame, pageSame
<1>1. callback[c] \in CallbackRuns
  OBVIOUS
<1>2. s \in StateIds /\ oauth[s].intent \in Intents
  BY DEF CallbackStep, Exchange, UpsertAccount, InitChild, EnqueueFirst, OAuthRows
<1>3. callback[c].got \in SUBSET Intents
  BY DEF CallbackRuns
<1>4. CASE Exchange(c)
  <2>1. granted' \subseteq Intents /\ linkFaults' \in 0..MaxLinkFaults
    BY <1>2, <1>4 DEF Exchange
  <2>2. PICK run \in CallbackRuns : /\ run = IdleCallback \/ run.of = s
                                   /\ callback' = [callback EXCEPT ![c] = run]
    <3>1. [callback[c] EXCEPT !.pc = "account", !.got = granted'] \in CallbackRuns
      BY <1>1, <1>2, <2>1, CallbackChanged
    <3>2. [callback[c] EXCEPT !.pc = "account", !.got = granted'].of = s
      BY <1>1 DEF CallbackRuns
    <3> QED
      BY <1>1, <1>2, <1>3, <1>4, <3>1, <3>2, CallbackChanged DEF Exchange
  <2>3. /\ callback' \in [Callbacks -> CallbackRuns]
        /\ \A d \in Callbacks : callback'[d].pc # "rest" => callback'[d].of \in StateIds
    BY <1>2, <2>2, CallbackWritten DEF IdleCallback
  <2>4. UNCHANGED <<oauth, uses, account, contactsRow, calendarRow, crons, pulls, retained,
                    leaving, revoking, card, wanted, synced>>
    BY <1>4 DEF Exchange
  <2> QED
    BY <2>1, <2>3, <2>4
<1>5. CASE UpsertAccount(c)
  <2>1. [callback[c] EXCEPT !.pc = "child"] \in CallbackRuns
    BY <1>1, <1>2, <1>3, CallbackChanged
  <2>2. [callback[c] EXCEPT !.pc = "child"].of = s
    BY <1>1 DEF CallbackRuns
  <2>3. /\ callback' \in [Callbacks -> CallbackRuns]
        /\ \A d \in Callbacks : callback'[d].pc # "rest" => callback'[d].of \in StateIds
    BY <1>2, <1>5, <2>1, <2>2, CallbackWritten DEF UpsertAccount
  <2> QED
    BY <1>2, <1>3, <1>5, <2>3 DEF UpsertAccount, Connected
<1>6. CASE InitChild(c)
  <2>1. [callback[c] EXCEPT !.pc = "enqueue"] \in CallbackRuns
    BY <1>1, <1>2, <1>3, CallbackChanged
  <2>2. [callback[c] EXCEPT !.pc = "enqueue"].of = s
    BY <1>1 DEF CallbackRuns
  <2>3. /\ callback' \in [Callbacks -> CallbackRuns]
        /\ \A d \in Callbacks : callback'[d].pc # "rest" => callback'[d].of \in StateIds
    BY <1>2, <1>6, <2>1, <2>2, CallbackWritten DEF InitChild
  <2>4. /\ contactsRow' \in [row : BOOLEAN, inbound : BOOLEAN, full : BOOLEAN]
        /\ calendarRow' \in [row : BOOLEAN, enabled : BOOLEAN]
    <3>1. Resumed(contactsRow) \in [row : BOOLEAN, inbound : BOOLEAN, full : BOOLEAN]
      BY DEF Resumed
    <3>2. [row |-> TRUE, enabled |-> TRUE] \in [row : BOOLEAN, enabled : BOOLEAN]
      OBVIOUS
    <3>3. /\ contactsRow' \in {contactsRow, Resumed(contactsRow)}
          /\ calendarRow' \in {calendarRow, [row |-> TRUE, enabled |-> TRUE]}
      BY <1>6 DEF InitChild
    <3> QED
      BY <3>1, <3>2, <3>3
  <2>5. wanted' \in BOOLEAN /\ synced' \in BOOLEAN
    BY <1>6 DEF InitChild
  <2>6. UNCHANGED <<oauth, uses, account, granted, card, leaving, revoking, linkFaults, crons,
                    pulls, retained>>
    BY <1>6 DEF InitChild
  <2> QED
    BY <2>3, <2>4, <2>5, <2>6
<1>7. CASE EnqueueFirst(c)
  <2>1. pulls' \subseteq Kinds /\ crons' \subseteq Intents /\ linkFaults' \in 0..MaxLinkFaults
    <3>1. pulls' \in {pulls, pulls \cup ({"initial"} \ retained)}
      BY <1>7, Zenon DEF EnqueueFirst, AddPull
    <3>2. crons' \in {crons, crons \cup {oauth[s].intent}}
      BY <1>7, Zenon DEF EnqueueFirst, Schedule
    <3>3. linkFaults' \in 0..MaxLinkFaults
      BY <1>7 DEF EnqueueFirst
    <3> QED
      BY <1>2, <3>1, <3>2, <3>3 DEF Kinds
  <2>2. /\ callback' \in [Callbacks -> CallbackRuns]
        /\ \A d \in Callbacks : callback'[d].pc # "rest" => callback'[d].of \in StateIds
    <3>1. IdleCallback \in CallbackRuns /\ IdleCallback.pc = "rest"
      BY DEF IdleCallback, CallbackRuns
    <3> QED
      BY <1>7, <3>1, CallbackWritten DEF EnqueueFirst
  <2> QED
    BY <1>7, <2>1, <2>2 DEF EnqueueFirst
<1> QED
  BY <1>4, <1>5, <1>6, <1>7 DEF CallbackStep

LEMMA ConnectStepTyped == ConnectTypeOK /\ [ConnectNext]_connectVars => ConnectTypeOK'
<1> SUFFICES ASSUME ConnectTypeOK, [ConnectNext]_connectVars
             PROVE  ConnectTypeOK'
  OBVIOUS
<1>1. CASE ConnectNext
  BY <1>1, NextCases, ElsewhereTyped, ConsentingTyped, CallbackTyped
<1>2. CASE UNCHANGED connectVars
  BY <1>2 DEF connectVars, ConnectTypeOK
<1> QED
  BY <1>1, <1>2

\* The state of the connection keeps its types (routes/integrations/google.ts).
THEOREM ConnectTyping == ConnectSpec => []ConnectTypeOK
BY ConnectInitTyped, ConnectStepTyped, PTL DEF ConnectSpec

-----------------------------------------------------------------------------
(* One consent connects once.                                              *)

\* Callback c has claimed the row s and not yet connected by it.
ConnectHolds(c, s) == callback[c].pc \in {"exchange", "account"} /\ callback[c].of = s

\* StateConnectsOnce alone is not inductive: that a callback about to connect
\* finds its row unused rests on nobody else having claimed it.
ClaimedOnce ==
    /\ \A s \in StateIds : uses[s] \in {0, 1}
    /\ \A s \in StateIds : oauth[s].state \in {"free", "open"} => uses[s] = 0
    /\ \A c \in Callbacks, s \in StateIds :
          ConnectHolds(c, s) => oauth[s].state = "used" /\ uses[s] = 0
    /\ \A c, d \in Callbacks, s \in StateIds : ConnectHolds(c, s) /\ ConnectHolds(d, s) => c = d

LEMMA InitClaimed == ConnectInit => ClaimedOnce
BY DEF ConnectInit, ClaimedOnce, ConnectHolds, IdleCallback

LEMMA StepClaimed == ConnectTypeOK /\ ClaimedOnce /\ [ConnectNext]_connectVars => ClaimedOnce'
<1> SUFFICES ASSUME ConnectTypeOK, ClaimedOnce, [ConnectNext]_connectVars
             PROVE  ClaimedOnce'
  OBVIOUS
<1> USE DEF ClaimedOnce, ConnectHolds
<1>t. /\ oauth \in [StateIds -> OAuthRows]
      /\ uses \in [StateIds -> Nat]
      /\ callback \in [Callbacks -> CallbackRuns]
  BY DEF ConnectTypeOK
<1>1. CASE Elsewhere \/ UNCHANGED connectVars
  BY <1>1, ElsewhereSame DEF oauthSame, connectVars
<1>2. ASSUME NEW t \in Cards, NEW intent \in Intents, StartConsent(t, intent)
      PROVE  ClaimedOnce'
  <2>1. Drawn \in StateIds /\ oauth[Drawn].state = "free"
    BY <1>2 DEF StartConsent, Drawn
  <2>2. \A s \in StateIds : /\ oauth[s].state = "used" => oauth'[s].state = "used"
                            /\ oauth'[s].state \in {"free", "open"} =>
                                 oauth[s].state \in {"free", "open"}
    BY <1>2, <1>t, <2>1 DEF StartConsent, OAuthRows
  <2> QED
    BY <1>2, <2>2 DEF StartConsent
<1>3. ASSUME NEW s \in StateIds, StateExpires(s)
      PROVE  ClaimedOnce'
  <2>1. \A r \in StateIds : oauth'[r].state = IF r = s THEN "gone" ELSE oauth[r].state
    BY <1>3, <1>t DEF StateExpires, OAuthRows
  <2> QED
    BY <1>3, <2>1 DEF StateExpires
<1>4. ASSUME NEW c \in Callbacks, NEW s \in StateIds, Claim(c, s)
      PROVE  ClaimedOnce'
  <2>1. oauth[s].state = "open" /\ uses' = uses
    BY <1>4 DEF Claim, StateClaimable
  <2>2. \A r \in StateIds : oauth'[r].state = IF r = s THEN "used" ELSE oauth[r].state
    BY <1>4, <1>t DEF Claim, OAuthRows
  <2>3. \A d \in Callbacks : /\ d # c => callback'[d] = callback[d]
                             /\ callback'[c].of = s
    BY <1>4, <1>t DEF Claim, IdleCallback
  <2>4. \A d \in Callbacks : ~ConnectHolds(d, s)
    BY <2>1
  <2> QED
    BY <2>1, <2>2, <2>3, <2>4
<1>5. ASSUME NEW c \in Callbacks, CallbackStep(c)
      PROVE  ClaimedOnce'
  <2>o. oauth' = oauth
    BY <1>5 DEF CallbackStep, Exchange, UpsertAccount, InitChild, EnqueueFirst
  <2>1. CASE Exchange(c) \/ InitChild(c) \/ EnqueueFirst(c)
    <3>1. uses' = uses
      BY <2>1 DEF Exchange, InitChild, EnqueueFirst
    <3>2. \A d \in Callbacks, s \in StateIds : ConnectHolds(d, s)' => ConnectHolds(d, s)
      BY <1>t, <2>1 DEF Exchange, InitChild, EnqueueFirst, IdleCallback, CallbackRuns
    <3> QED
      BY <2>o, <3>1, <3>2
  <2>2. CASE UpsertAccount(c)
    <3> DEFINE s == callback[c].of
    <3>1. s \in StateIds /\ ConnectHolds(c, s)
      BY <2>2 DEF UpsertAccount, ConnectTypeOK
    <3>a. uses[s] = 0 /\ 0 + 1 = 1
      BY <3>1
    <3>b. uses' = [uses EXCEPT ![s] = uses[s] + 1]
      BY <2>2 DEF UpsertAccount
    <3>2. uses[s] = 0 /\ uses' = [uses EXCEPT ![s] = 1]
      BY <3>a, <3>b
    <3>3. \A d \in Callbacks, r \in StateIds : ConnectHolds(d, r)' => d # c /\ ConnectHolds(d, r)
      BY <1>t, <2>2 DEF UpsertAccount, CallbackRuns
    <3>4. \A d \in Callbacks : d # c => ~ConnectHolds(d, s)
      BY <3>1
    <3> HIDE DEF s
    <3> QED
      BY <1>t, <2>o, <3>1, <3>2, <3>3, <3>4
  <2> QED
    BY <1>5, <2>1, <2>2 DEF CallbackStep
<1> QED
  BY <1>1, <1>2, <1>3, <1>4, <1>5, NextCases DEF Consenting

\* A state row of Google's redirect connects at most once, however often the
\* browser follows it and however requests overlap (google.ts, state claim).
THEOREM ConsentOnce == ConnectSpec => []StateConnectsOnce
<1>1. ConnectTypeOK /\ ClaimedOnce => StateConnectsOnce
  BY DEF ClaimedOnce, StateConnectsOnce
<1> QED
  BY <1>1, ConnectTyping, InitClaimed, StepClaimed, PTL DEF ConnectSpec

HIDE ConnectAssumption

-----------------------------------------------------------------------------
(***************************************************************************)
(* Enrichment runs.                                                        *)
(***************************************************************************)

Fields == {"empty", "user", "claude"}
EnrichStatuses == {"none", "pending", "error", "proposed", "applied", "skipped"}
Guarding == [at : {"guard"}, run : EnrichRuns]
Calling == [at : {"call"}, run : EnrichRuns, seen : Fields]
Answered == [at : {"bump", "write", "finish"}, run : EnrichRuns, seen : Fields,
             ambiguous : BOOLEAN, count : Nat]

EnrichTypeOK ==
    /\ switchedOn \in BOOLEAN
    /\ firm \in [here : BOOLEAN, field : Fields, stamped : BOOLEAN]
    /\ runRow \in [EnrichRuns -> [status : EnrichStatuses, trigger : {"none"} \cup Triggers]]
    /\ runNotes \in [EnrichRuns -> Nat]
    /\ enrichQueue \subseteq EnrichRuns /\ tries \in [EnrichRuns -> Nat]
    /\ work \in [EnrichSlots -> {NoWork} \cup Guarding \cup Calling \cup Answered]
    /\ usage \in Nat /\ applying \subseteq EnrichRuns \X Tabs /\ enrichFaults \in Nat

EnrichHolds(s, r) == work[s].at # "idle" /\ work[s].run = r
Jobless(r) == r \notin enrichQueue /\ \A s \in EnrichSlots : ~EnrichHolds(s, r)

\* A run has one job, waiting or in one slot.
OneJob(r) ==
    /\ \A s, t \in EnrichSlots : EnrichHolds(s, r) /\ EnrichHolds(t, r) => s = t
    /\ r \in enrichQueue => \A s \in EnrichSlots : ~EnrichHolds(s, r)

\* A proposal has no job any more and no note yet, and only proposals are
\* applied; an automatic run that wrote its note stamped the company with it,
\* so that it does not come past the guards again.
NoteOnce(r) ==
    /\ runNotes[r] <= 1
    /\ runRow[r].trigger = "none" => runRow[r].status = "none"
    /\ runRow[r].status = "none" => Jobless(r) /\ runNotes[r] = 0
    /\ runRow[r].status = "proposed" =>
         Jobless(r) /\ runNotes[r] = 0 /\ runRow[r].trigger = "manual"
    /\ \A t \in Tabs : <<r, t>> \in applying => runRow[r].status = "proposed"
    /\ runRow[r].trigger = "manual" /\ runNotes[r] = 1 => Jobless(r)
    /\ runRow[r].trigger = "auto" /\ runNotes[r] = 1 =>
         /\ firm.stamped
         /\ \A s \in EnrichSlots : EnrichHolds(s, r) => work[s].at \in {"guard", "finish"}

RunsKept == \A r \in EnrichRuns : OneJob(r) /\ NoteOnce(r)

EnrichInv == EnrichTypeOK /\ RunsKept

\* What the theorem asks of the settings and of the users.
OneTab == \A t, u \in Tabs : t = u

LEMMA InitEnrich == EnrichInit => EnrichInv
<1> SUFFICES ASSUME EnrichInit PROVE EnrichInv
  OBVIOUS
<1>1. EnrichTypeOK
  BY DEF EnrichInit, EnrichTypeOK, Fields, EnrichStatuses, NoRun, NoWork
<1>2. \A s \in EnrichSlots : \A r : ~EnrichHolds(s, r)
  BY DEF EnrichInit, EnrichHolds, NoWork
<1>3. \A r \in EnrichRuns : runRow[r] = NoRun /\ runNotes[r] = 0
  BY DEF EnrichInit
<1>4. RunsKept
  BY <1>2, <1>3 DEF EnrichInit, RunsKept, OneJob, NoteOnce, Jobless, NoRun
<1> QED
  BY <1>1, <1>4 DEF EnrichInv

LEMMA RunsUntouched ==
    ASSUME EnrichInv, EnrichTypeOK',
           UNCHANGED <<runRow, runNotes, enrichQueue, work, applying>>,
           firm.stamped => firm'.stamped
    PROVE  EnrichInv'
BY DEF EnrichInv, RunsKept, OneJob, NoteOnce, Jobless, EnrichHolds

\* A step of the slot that has run r: to the other runs nothing happens.
LEMMA OtherRuns ==
    ASSUME EnrichInv, EnrichTypeOK', NEW s \in EnrichSlots, NEW r \in EnrichRuns, EnrichHolds(s, r),
           \A t \in EnrichSlots : t # s => work'[t] = work[t],
           EnrichHolds(s, r)' \/ work'[s] = NoWork,
           enrichQueue' = enrichQueue \/ (work'[s] = NoWork /\ enrichQueue' = enrichQueue \cup {r}),
           \A q \in EnrichRuns : q # r => runRow'[q] = runRow[q] /\ runNotes'[q] = runNotes[q],
           applying' = applying, firm.stamped => firm'.stamped, NoteOnce(r)'
    PROVE  EnrichInv'
<1>1. \A t \in EnrichSlots : \A q \in EnrichRuns :
        q # r => (EnrichHolds(t, q)' <=> EnrichHolds(t, q)) /\ (EnrichHolds(t, q) => work'[t] = work[t])
  BY DEF EnrichHolds, NoWork
<1>2. \A t \in EnrichSlots : EnrichHolds(t, r)' => t = s /\ work'[s] # NoWork
  BY DEF EnrichInv, RunsKept, OneJob, EnrichHolds, NoWork
<1>3. OneJob(r)'
  BY <1>2 DEF EnrichInv, RunsKept, OneJob
<1>4. ASSUME NEW q \in EnrichRuns, q # r
      PROVE  OneJob(q)' /\ NoteOnce(q)'
  <2>1. OneJob(q) /\ NoteOnce(q)
    BY DEF EnrichInv, RunsKept
  <2>2. (q \in enrichQueue' <=> q \in enrichQueue) /\ (Jobless(q) => Jobless(q)')
    BY <1>1, <1>4 DEF Jobless
  <2> QED
    BY <1>1, <1>4, <2>1, <2>2 DEF OneJob, NoteOnce
<1> QED
  BY <1>3, <1>4 DEF EnrichInv, RunsKept

\* A run that has a job is no proposal, and no proposal is applied for it.
LEMMA InWork ==
    ASSUME EnrichInv, NEW s \in EnrichSlots, NEW r \in EnrichRuns, EnrichHolds(s, r)
    PROVE  /\ runRow[r].status \notin {"none", "proposed"}
           /\ runRow[r].trigger \in Triggers
           /\ runRow[r].trigger = "manual" => runNotes[r] = 0
           /\ runRow[r].trigger = "auto" /\ work[s].at \notin {"guard", "finish"} =>
                runNotes[r] = 0
           /\ \A t \in Tabs : <<r, t>> \notin applying
           /\ r \notin enrichQueue
<1>1. NoteOnce(r) /\ OneJob(r) /\ runNotes[r] \in Nat /\ ~Jobless(r)
  BY DEF EnrichInv, EnrichTypeOK, RunsKept, Jobless
<1>2. runRow[r].trigger \in {"none"} \cup Triggers
  BY DEF EnrichInv, EnrichTypeOK
<1>3. /\ runRow[r].status \notin {"none", "proposed"}
      /\ runRow[r].trigger = "manual" => runNotes[r] = 0
      /\ \A t \in Tabs : <<r, t>> \notin applying
      /\ runRow[r].trigger # "none"
  BY <1>1 DEF NoteOnce
<1>4. runRow[r].trigger = "auto" /\ work[s].at \notin {"guard", "finish"} => runNotes[r] = 0
  BY <1>1 DEF NoteOnce
<1>5. r \notin enrichQueue
  BY <1>1 DEF OneJob
<1> QED
  BY <1>2, <1>3, <1>4, <1>5

LEMMA WhoseWork ==
    ASSUME EnrichInv, NEW s \in EnrichSlots, work[s].at # "idle"
    PROVE  \E r \in EnrichRuns : EnrichHolds(s, r) /\ r = work[s].run
BY DEF EnrichInv, EnrichTypeOK, NoWork, Guarding, Calling, Answered, EnrichHolds

\* A slot that goes on, or gives up, with no note written and no proposal made.
LEMMA SlotStep ==
    ASSUME EnrichInv, EnrichTypeOK', NEW s \in EnrichSlots, NEW r \in EnrichRuns, EnrichHolds(s, r),
           \A t \in EnrichSlots : t # s => work'[t] = work[t],
           EnrichHolds(s, r)' \/ work'[s] = NoWork,
           enrichQueue' = enrichQueue \/ (work'[s] = NoWork /\ enrichQueue' = enrichQueue \cup {r}),
           NEW final \in EnrichStatuses \ {"none", "proposed"},
           runRow' = runRow \/ runRow' = [runRow EXCEPT ![r].status = final],
           UNCHANGED <<runNotes, applying>>, firm.stamped => firm'.stamped,
           \/ work'[s] = NoWork \/ work[s].at \notin {"guard", "finish"}
           \/ ~(runNotes[r] = 1 /\ runRow[r].trigger = "auto")
           \/ work'[s].at \in {"guard", "finish"}
    PROVE  EnrichInv'
<1>1. /\ runRow[r].status \notin {"none", "proposed"}
      /\ runRow[r].trigger \in Triggers
      /\ runRow[r].trigger = "manual" => runNotes[r] = 0
      /\ runRow[r].trigger = "auto" /\ work[s].at \notin {"guard", "finish"} => runNotes[r] = 0
      /\ \A t \in Tabs : <<r, t>> \notin applying
  BY InWork
<1>2. /\ \A q \in EnrichRuns : q # r => runRow'[q] = runRow[q]
      /\ runRow'[r].trigger = runRow[r].trigger
      /\ runRow'[r].status \notin {"none", "proposed"}
  BY <1>1 DEF EnrichInv, EnrichTypeOK
<1>3. NoteOnce(r) /\ OneJob(r)
  BY DEF EnrichInv, RunsKept
<1>4. \A t \in EnrichSlots : EnrichHolds(t, r)' => t = s /\ work'[s] # NoWork
  BY <1>3 DEF OneJob, EnrichHolds, NoWork
<1>5. runRow[r].trigger = "auto" /\ runNotes[r] = 1 =>
        \A t \in EnrichSlots : EnrichHolds(t, r)' => work'[t].at \in {"guard", "finish"}
  BY <1>1, <1>4
<1>6. NoteOnce(r)'
  BY <1>1, <1>2, <1>3, <1>5 DEF NoteOnce, Triggers
<1> QED
  BY <1>2, <1>6, OtherRuns

LEMMA GuardStep ==
    ASSUME EnrichInv, Debounces, NEW s \in EnrichSlots, GuardRun(s)
    PROVE  EnrichInv'
<1>1. PICK r \in EnrichRuns : EnrichHolds(s, r) /\ r = work[s].run
  BY WhoseWork DEF GuardRun
<1>2. /\ work[s].at = "guard"
      /\ UNCHANGED <<companyVars, runNotes, enrichQueue, tries, usage, applying, enrichFaults>>
  BY DEF GuardRun
<1>3. CASE GuardFails(r)
  <2>1. /\ runRow' = [runRow EXCEPT ![r].status = "skipped"]
        /\ work' = [work EXCEPT ![s] = NoWork]
    BY <1>1, <1>3 DEF GuardRun, SkipRun, SetRunStatus
  <2>2. EnrichTypeOK'
    BY <1>2, <2>1 DEF EnrichInv, EnrichTypeOK, companyVars, EnrichStatuses
  <2>3. /\ work'[s] = NoWork
        /\ \A t \in EnrichSlots : t # s => work'[t] = work[t]
    BY <2>1 DEF EnrichInv, EnrichTypeOK
  <2> QED
    BY <1>1, <1>2, <2>1, <2>2, <2>3, SlotStep DEF EnrichStatuses, companyVars
<1>4. CASE ~GuardFails(r)
  <2> DEFINE new == [at |-> "call", run |-> r, seen |-> firm.field]
  <2>1. /\ runRow' = [runRow EXCEPT ![r].status = "pending"]
        /\ work' = [work EXCEPT ![s] = new]
    BY <1>1, <1>4 DEF GuardRun, SetRunStatus
  <2>2. new \in Calling
    BY DEF Calling, EnrichInv, EnrichTypeOK
  <2>3. EnrichTypeOK'
    BY <1>2, <2>1, <2>2 DEF EnrichInv, EnrichTypeOK, companyVars, EnrichStatuses
  <2>4. /\ work'[s] = new /\ EnrichHolds(s, r)'
        /\ \A t \in EnrichSlots : t # s => work'[t] = work[t]
    BY <2>1 DEF EnrichInv, EnrichTypeOK, EnrichHolds
  <2>5. ~(runNotes[r] = 1 /\ runRow[r].trigger = "auto")
    BY <1>4 DEF GuardFails, Debounced, EnrichInv, RunsKept, NoteOnce
  <2> QED
    BY <1>1, <1>2, <2>1, <2>3, <2>4, <2>5, SlotStep DEF EnrichStatuses, companyVars
<1> QED
  BY <1>3, <1>4

\* The call and the counter: the slot goes on with the same run.
LEMMA CallStep ==
    ASSUME EnrichInv, NEW s \in EnrichSlots, CallClaude(s) \/ BumpUsage(s)
    PROVE  EnrichInv'
<1>1. PICK r \in EnrichRuns : EnrichHolds(s, r) /\ r = work[s].run
  BY WhoseWork DEF CallClaude, BumpUsage
<1>2. /\ work[s].at \in {"call", "bump"}
      /\ UNCHANGED <<companyVars, enrichRunVars, applying, enrichFaults>>
  BY DEF CallClaude, BumpUsage
<1>3. \E new \in Answered :
        /\ work' = [work EXCEPT ![s] = new]
        /\ new.run = r /\ new.at \in {"bump", "write"}
  <2>1. CASE CallClaude(s)
    <3>1. PICK ambiguous \in BOOLEAN :
            work' = [work EXCEPT ![s] = [at |-> "bump", run |-> r, seen |-> work[s].seen,
                                         ambiguous |-> ambiguous, count |-> usage]]
      BY <1>1, <2>1 DEF CallClaude
    <3>2. work[s].seen \in Fields /\ usage \in Nat
      BY <2>1 DEF CallClaude, EnrichInv, EnrichTypeOK, NoWork, Guarding, Calling, Answered
    <3>3. [at |-> "bump", run |-> r, seen |-> work[s].seen,
           ambiguous |-> ambiguous, count |-> usage] \in Answered
      BY <3>2 DEF Answered
    <3> QED
      BY <3>1, <3>3
  <2>2. CASE BumpUsage(s)
    <3>1. work' = [work EXCEPT ![s] = [work[s] EXCEPT !.at = "write"]] /\ work[s] \in Answered
      BY <2>2 DEF BumpUsage, EnrichInv, EnrichTypeOK, NoWork, Guarding, Calling, Answered
    <3>2. /\ [work[s] EXCEPT !.at = "write"] \in Answered
          /\ [work[s] EXCEPT !.at = "write"].run = r /\ [work[s] EXCEPT !.at = "write"].at = "write"
      BY <1>1, <3>1 DEF Answered
    <3> QED
      BY <3>1, <3>2
  <2> QED
    BY <2>1, <2>2
<1>4. PICK new \in Answered :
        work' = [work EXCEPT ![s] = new] /\ new.run = r /\ new.at \in {"bump", "write"}
  BY <1>3
<1>5. usage' \in Nat
  BY DEF CallClaude, BumpUsage, EnrichInv, EnrichTypeOK, NoWork, Guarding, Calling, Answered
<1>6. EnrichTypeOK'
  BY <1>2, <1>4, <1>5 DEF EnrichInv, EnrichTypeOK, companyVars, enrichRunVars
<1>7. /\ EnrichHolds(s, r)'
      /\ \A t \in EnrichSlots : t # s => work'[t] = work[t]
  BY <1>4 DEF EnrichInv, EnrichTypeOK, EnrichHolds
<1>8. "error" \in EnrichStatuses \ {"none", "proposed"} /\ work[s].at \notin {"guard", "finish"}
  BY <1>2 DEF EnrichStatuses
<1> QED
  BY <1>1, <1>2, <1>6, <1>7, <1>8, SlotStep DEF companyVars, enrichRunVars

\* The end of a job, by its last write, an error or a crash.
LEMMA EndOfJob ==
    ASSUME EnrichInv, NEW s \in EnrichSlots, CallFails(s) \/ FinishAuto(s) \/ EnrichCrash(s)
    PROVE  EnrichInv'
<1>1. PICK r \in EnrichRuns : EnrichHolds(s, r) /\ r = work[s].run
  BY WhoseWork DEF CallFails, FinishAuto, EnrichCrash, EnrichInv, EnrichTypeOK, NoWork,
     Guarding, Calling, Answered
<1>2. /\ work' = [work EXCEPT ![s] = NoWork]
      /\ UNCHANGED <<companyVars, runNotes, usage, applying>>
      /\ enrichFaults' \in Nat
  BY DEF CallFails, FinishAuto, EnrichCrash, EnrichFault, EnrichInv, EnrichTypeOK
<1>3. /\ tries' \in [EnrichRuns -> Nat]
      /\ enrichQueue' = enrichQueue \/ enrichQueue' = enrichQueue \cup {r}
  <2>1. Again(r) \/ UNCHANGED <<tries, enrichQueue>>
    BY <1>1 DEF CallFails, FinishAuto, EnrichCrash
  <2> QED
    BY <2>1 DEF Again, EnrichInv, EnrichTypeOK
<1>4. \E final \in EnrichStatuses \ {"none", "proposed"} :
        runRow' = runRow \/ runRow' = [runRow EXCEPT ![r].status = final]
  <2>1. \/ runRow' = runRow
        \/ runRow' = [runRow EXCEPT ![r].status = "error"]
        \/ runRow' = [runRow EXCEPT ![r].status = "skipped"]
        \/ runRow' = [runRow EXCEPT ![r].status = "applied"]
    BY <1>1 DEF CallFails, FinishAuto, EnrichCrash, SetRunStatus
  <2>2. {"error", "skipped", "applied"} \subseteq EnrichStatuses \ {"none", "proposed"}
    BY DEF EnrichStatuses
  <2> QED
    BY <2>1, <2>2
<1>5. PICK final \in EnrichStatuses \ {"none", "proposed"} :
        runRow' = runRow \/ runRow' = [runRow EXCEPT ![r].status = final]
  BY <1>4
<1>6. EnrichTypeOK'
  BY <1>2, <1>3, <1>5 DEF EnrichInv, EnrichTypeOK, companyVars
<1>7. /\ work'[s] = NoWork
      /\ \A t \in EnrichSlots : t # s => work'[t] = work[t]
  BY <1>2 DEF EnrichInv, EnrichTypeOK
<1> QED
  BY <1>1, <1>2, <1>3, <1>5, <1>6, <1>7, SlotStep DEF companyVars

LEMMA ProposeStep ==
    ASSUME EnrichInv, NEW s \in EnrichSlots, Propose(s)
    PROVE  EnrichInv'
<1>1. PICK r \in EnrichRuns : EnrichHolds(s, r) /\ r = work[s].run
  BY WhoseWork DEF Propose
<1>2. /\ runRow[r].trigger = "manual"
      /\ runRow' = [runRow EXCEPT ![r].status = "proposed"]
      /\ work' = [work EXCEPT ![s] = NoWork]
      /\ UNCHANGED <<companyVars, runNotes, enrichQueue, tries, usage, applying, enrichFaults>>
  BY <1>1 DEF Propose, SetRunStatus
<1>3. EnrichTypeOK'
  BY <1>2 DEF EnrichInv, EnrichTypeOK, companyVars, EnrichStatuses
<1>4. /\ work'[s] = NoWork
      /\ \A t \in EnrichSlots : t # s => work'[t] = work[t]
  BY <1>2 DEF EnrichInv, EnrichTypeOK
<1>5. /\ runNotes[r] = 0 /\ r \notin enrichQueue
      /\ \A t \in Tabs : <<r, t>> \notin applying
  BY <1>1, <1>2, InWork
<1>6. /\ runRow'[r].status = "proposed" /\ runRow'[r].trigger = "manual"
      /\ \A q \in EnrichRuns : q # r => runRow'[q] = runRow[q]
  BY <1>2 DEF EnrichInv, EnrichTypeOK
<1>7. Jobless(r)'
  BY <1>1, <1>2, <1>4, <1>5 DEF Jobless, EnrichHolds, NoWork, EnrichInv, RunsKept, OneJob
<1>8. NoteOnce(r)'
  BY <1>2, <1>5, <1>6, <1>7 DEF NoteOnce
<1> QED
  BY <1>1, <1>2, <1>3, <1>4, <1>6, <1>8, OtherRuns DEF companyVars

\* The note and the stamp are one transaction.
LEMMA ApplyAutoStep ==
    ASSUME EnrichInv, NEW s \in EnrichSlots, ApplyAuto(s)
    PROVE  EnrichInv'
<1>1. PICK r \in EnrichRuns : EnrichHolds(s, r) /\ r = work[s].run
  BY WhoseWork DEF ApplyAuto
<1>2. /\ runRow[r].trigger = "auto" /\ work[s].at = "write" /\ work[s] \in Answered
      /\ UNCHANGED <<switchedOn, runRow, usage, applying, enrichFaults>>
  BY <1>1 DEF ApplyAuto, EnrichInv, EnrichTypeOK, NoWork, Guarding, Calling, Answered
<1>3. runNotes[r] = 0 /\ runRow[r].status \notin {"none", "proposed"}
      /\ \A t \in Tabs : <<r, t>> \notin applying
  BY <1>1, <1>2, InWork
<1>4. CASE firm.here
  <2> DEFINE new == [work[s] EXCEPT !.at = "finish"]
  <2>1. /\ firm' = [firm EXCEPT !.field = IF Fills(work[s]) THEN "claude" ELSE @,
                                !.stamped = TRUE]
        /\ runNotes' = [runNotes EXCEPT ![r] = @ + 1]
        /\ work' = [work EXCEPT ![s] = new]
        /\ UNCHANGED <<tries, enrichQueue>>
    BY <1>1, <1>4 DEF ApplyAuto, StampAfter
  <2>2. new \in Answered /\ new.at = "finish" /\ new.run = r
    BY <1>1, <1>2 DEF Answered
  <2> HIDE DEF new
  <2>3. firm' \in [here : BOOLEAN, field : Fields, stamped : BOOLEAN] /\ firm'.stamped
    BY <2>1 DEF EnrichInv, EnrichTypeOK, Fields
  <2>4. /\ runNotes'[r] = 1 /\ runNotes' \in [EnrichRuns -> Nat]
        /\ \A q \in EnrichRuns : q # r => runNotes'[q] = runNotes[q]
    BY <1>3, <2>1 DEF EnrichInv, EnrichTypeOK
  <2>5. /\ work'[s] = new
        /\ \A t \in EnrichSlots : t # s => work'[t] = work[t]
    BY <2>1 DEF EnrichInv, EnrichTypeOK
  <2>6. EnrichTypeOK'
    BY <1>2, <2>1, <2>2, <2>3, <2>4 DEF EnrichInv, EnrichTypeOK
  <2>7. \A t \in EnrichSlots : EnrichHolds(t, r)' => work'[t].at = "finish"
    BY <1>1, <2>2, <2>5 DEF EnrichHolds, EnrichInv, RunsKept, OneJob
  <2>8. NoteOnce(r)'
    BY <1>2, <1>3, <2>3, <2>4, <2>7 DEF NoteOnce
  <2>9. EnrichHolds(s, r)'
    BY <2>2, <2>5 DEF EnrichHolds
  <2> QED
    BY <1>1, <1>2, <2>1, <2>3, <2>4, <2>5, <2>6, <2>8, <2>9, OtherRuns
<1>5. CASE ~firm.here
  <2>1. /\ work' = [work EXCEPT ![s] = NoWork] /\ Again(r)
        /\ UNCHANGED <<firm, runNotes>>
    BY <1>1, <1>5 DEF ApplyAuto
  <2>2. /\ tries' \in [EnrichRuns -> Nat]
        /\ enrichQueue' = enrichQueue \/ enrichQueue' = enrichQueue \cup {r}
    BY <2>1 DEF Again, EnrichInv, EnrichTypeOK
  <2>3. EnrichTypeOK'
    BY <1>2, <2>1, <2>2 DEF EnrichInv, EnrichTypeOK
  <2>4. /\ work'[s] = NoWork
        /\ \A t \in EnrichSlots : t # s => work'[t] = work[t]
    BY <2>1 DEF EnrichInv, EnrichTypeOK
  <2>5. "error" \in EnrichStatuses \ {"none", "proposed"}
    BY DEF EnrichStatuses
  <2> QED
    BY <1>1, <1>2, <2>1, <2>2, <2>3, <2>4, <2>5, SlotStep
<1> QED
  BY <1>4, <1>5

LEMMA TakeRunStep ==
    ASSUME EnrichInv, NEW s \in EnrichSlots, NEW r \in EnrichRuns, TakeRun(s, r)
    PROVE  EnrichInv'
<1> DEFINE new == [at |-> "guard", run |-> r]
<1>1. /\ work[s] = NoWork /\ r \in enrichQueue
      /\ enrichQueue' = enrichQueue \ {r} /\ work' = [work EXCEPT ![s] = new]
      /\ UNCHANGED <<companyVars, runRow, runNotes, tries, usage, applying, enrichFaults>>
  BY DEF TakeRun
<1>2. EnrichTypeOK'
  BY <1>1 DEF EnrichInv, EnrichTypeOK, companyVars, Guarding
<1>3. /\ work'[s] = new
      /\ \A t \in EnrichSlots : t # s => work'[t] = work[t]
  BY <1>1 DEF EnrichInv, EnrichTypeOK
<1>4. \A t \in EnrichSlots : \A q \in EnrichRuns :
        EnrichHolds(t, q)' <=> EnrichHolds(t, q) \/ (t = s /\ q = r)
  BY <1>1, <1>3 DEF EnrichHolds, NoWork
<1>5. \A t \in EnrichSlots : ~EnrichHolds(t, r)
  BY <1>1 DEF EnrichInv, RunsKept, OneJob
<1>6. ASSUME NEW q \in EnrichRuns
      PROVE  OneJob(q)' /\ NoteOnce(q)'
  <2>1. OneJob(q) /\ NoteOnce(q) /\ (q = r => ~Jobless(q))
    BY <1>1 DEF EnrichInv, RunsKept, Jobless
  <2>2. OneJob(q)'
    BY <1>1, <1>4, <1>5, <2>1 DEF OneJob
  <2>3. q # r => (Jobless(q)' <=> Jobless(q))
    BY <1>1, <1>4 DEF Jobless
  <2>4. \A t \in EnrichSlots : EnrichHolds(t, q)' =>
          work'[t].at = "guard" \/ (EnrichHolds(t, q) /\ work'[t] = work[t])
    BY <1>3, <1>4, <1>1 DEF EnrichHolds, NoWork
  <2>5. NoteOnce(q)'
    BY <1>1, <2>1, <2>3, <2>4 DEF NoteOnce, companyVars
  <2> QED
    BY <2>2, <2>5
<1> QED
  BY <1>2, <1>6 DEF EnrichInv, RunsKept

LEMMA KickoffStep ==
    ASSUME EnrichInv, NEW r \in EnrichRuns, NEW trigger \in Triggers,
           Kickoff(r, trigger) \/ KickoffFails(r, trigger)
    PROVE  EnrichInv'
<1>1. /\ runRow[r] = NoRun
      /\ enrichQueue' = enrichQueue \/ enrichQueue' = enrichQueue \cup {r}
      /\ UNCHANGED <<companyVars, runNotes, tries, work, usage, applying>>
      /\ enrichFaults' \in Nat
  BY DEF Kickoff, KickoffFails, EnrichFault, EnrichInv, EnrichTypeOK
<1>2. PICK new \in [status : {"pending", "error"}, trigger : Triggers] :
        runRow' = [runRow EXCEPT ![r] = new]
  BY DEF Kickoff, KickoffFails
<1>3. EnrichTypeOK'
  BY <1>1, <1>2 DEF EnrichInv, EnrichTypeOK, companyVars, EnrichStatuses
<1>4. /\ runRow'[r] = new
      /\ \A q \in EnrichRuns : q # r => runRow'[q] = runRow[q]
  BY <1>2 DEF EnrichInv, EnrichTypeOK
<1>5. NoteOnce(r) /\ Jobless(r) /\ runNotes[r] = 0
  BY <1>1 DEF EnrichInv, RunsKept, NoteOnce, NoRun
<1>6. ASSUME NEW q \in EnrichRuns
      PROVE  OneJob(q)' /\ NoteOnce(q)'
  <2>1. OneJob(q) /\ NoteOnce(q)
    BY DEF EnrichInv, RunsKept
  <2>2. \A s \in EnrichSlots : EnrichHolds(s, q)' <=> EnrichHolds(s, q)
    BY <1>1 DEF EnrichHolds
  <2>3. OneJob(q)'
    BY <1>1, <1>5, <2>1, <2>2 DEF OneJob, Jobless
  <2>4. CASE q = r
    <3>1. \A t \in Tabs : <<q, t>> \notin applying
      BY <1>1, <2>1, <2>4 DEF NoteOnce, NoRun
    <3> QED
      BY <1>1, <1>4, <1>5, <2>3, <2>4, <3>1 DEF NoteOnce, Triggers
  <2>5. CASE q # r
    <3>1. Jobless(q) => Jobless(q)'
      BY <1>1, <2>2, <2>5 DEF Jobless
    <3> QED
      BY <1>1, <1>4, <2>1, <2>2, <2>3, <2>5, <3>1 DEF NoteOnce, companyVars
  <2> QED
    BY <2>3, <2>4, <2>5
<1> QED
  BY <1>3, <1>6 DEF EnrichInv, RunsKept

LEMMA ApplyStep ==
    ASSUME EnrichInv, OneTab, NEW r \in EnrichRuns, NEW t \in Tabs, NEW selected \in BOOLEAN,
           Apply(r, t, selected)
    PROVE  EnrichInv'
<1>1. /\ <<r, t>> \in applying /\ applying' = applying \ {<<r, t>>}
      /\ UNCHANGED <<switchedOn, enrichQueue, tries, work, usage, enrichFaults>>
  BY DEF Apply
<1>2. /\ NoteOnce(r) /\ runRow[r].status = "proposed" /\ runNotes[r] = 0
      /\ runRow[r].trigger = "manual" /\ Jobless(r)
  BY <1>1 DEF EnrichInv, RunsKept, NoteOnce
<1>3. \A q \in EnrichRuns : OneJob(q)' /\ (Jobless(q)' <=> Jobless(q))
  BY <1>1 DEF EnrichInv, RunsKept, OneJob, Jobless, EnrichHolds
<1>4. \A u \in Tabs : <<r, u>> \notin applying'
  BY <1>1 DEF OneTab
<1>5. CASE firm.here
  <2>1. /\ firm' = [firm EXCEPT !.field = IF selected THEN "claude" ELSE @, !.stamped = TRUE]
        /\ runNotes' = [runNotes EXCEPT ![r] = @ + 1]
        /\ runRow' = [runRow EXCEPT ![r].status = "applied"]
    BY <1>5 DEF Apply, SetRunStatus
  <2>2. EnrichTypeOK' /\ firm'.stamped
    <3>1. firm' \in [here : BOOLEAN, field : Fields, stamped : BOOLEAN] /\ firm'.stamped
      BY <2>1 DEF EnrichInv, EnrichTypeOK, Fields
    <3>2. runNotes' \in [EnrichRuns -> Nat]
      BY <2>1 DEF EnrichInv, EnrichTypeOK
    <3>3. runRow' \in [EnrichRuns -> [status : EnrichStatuses, trigger : {"none"} \cup Triggers]]
      BY <2>1 DEF EnrichInv, EnrichTypeOK, EnrichStatuses
    <3> QED
      BY <1>1, <3>1, <3>2, <3>3 DEF EnrichInv, EnrichTypeOK
  <2>3. /\ runNotes'[r] = 1 /\ runRow'[r].status = "applied" /\ runRow'[r].trigger = "manual"
        /\ \A q \in EnrichRuns : q # r => runNotes'[q] = runNotes[q] /\ runRow'[q] = runRow[q]
    BY <1>2, <2>1 DEF EnrichInv, EnrichTypeOK
  <2>4. NoteOnce(r)'
    BY <1>2, <1>3, <1>4, <2>3 DEF NoteOnce
  <2>5. ASSUME NEW q \in EnrichRuns, q # r
        PROVE  NoteOnce(q)'
    <3>1. NoteOnce(q) /\ \A s \in EnrichSlots : EnrichHolds(s, q)' <=> EnrichHolds(s, q)
      BY <1>1 DEF EnrichInv, RunsKept, EnrichHolds
    <3> QED
      BY <1>1, <1>3, <2>2, <2>3, <2>5, <3>1 DEF NoteOnce
  <2> QED
    BY <1>3, <2>2, <2>4, <2>5 DEF EnrichInv, RunsKept
<1>6. CASE ~firm.here
  <2>1. UNCHANGED <<firm, runNotes, runRow>>
    BY <1>6 DEF Apply
  <2>2. EnrichTypeOK'
    BY <1>1, <2>1 DEF EnrichInv, EnrichTypeOK
  <2>3. \A q \in EnrichRuns : NoteOnce(q)'
    BY <1>1, <1>3, <2>1 DEF EnrichInv, RunsKept, NoteOnce, EnrichHolds
  <2> QED
    BY <1>3, <2>2, <2>3 DEF EnrichInv, RunsKept
<1> QED
  BY <1>5, <1>6

LEMMA StepEnrich == Debounces /\ OneTab /\ EnrichInv /\ [EnrichNext]_enrichVars => EnrichInv'
<1> SUFFICES ASSUME Debounces, OneTab, EnrichInv, [EnrichNext]_enrichVars
             PROVE  EnrichInv'
  OBVIOUS
<1>1. CASE ToggleEnrichment \/ UserFills \/ DeleteCompany \/ UNCHANGED enrichVars
  <2>1. UNCHANGED <<runRow, runNotes, enrichQueue, tries, work, usage, applying>>
    BY <1>1 DEF ToggleEnrichment, UserFills, DeleteCompany, enrichVars, companyVars, enrichRunVars
  <2>2. /\ firm' \in [here : BOOLEAN, field : Fields, stamped : BOOLEAN]
        /\ firm.stamped => firm'.stamped
    BY <1>1 DEF ToggleEnrichment, UserFills, DeleteCompany, EnrichInv, EnrichTypeOK, Fields,
       enrichVars, companyVars
  <2>3. enrichFaults' \in Nat
    BY <1>1 DEF ToggleEnrichment, UserFills, DeleteCompany, EnrichFault, EnrichInv, EnrichTypeOK,
       enrichVars, companyVars
  <2>4. switchedOn' = ~switchedOn \/ switchedOn' = switchedOn
    BY <1>1 DEF ToggleEnrichment, UserFills, DeleteCompany, enrichVars, companyVars
  <2>5. switchedOn' \in BOOLEAN
    BY <2>4 DEF EnrichInv, EnrichTypeOK
  <2>6. EnrichTypeOK'
    BY <2>1, <2>2, <2>3, <2>5 DEF EnrichInv, EnrichTypeOK
  <2> QED
    BY <2>1, <2>2, <2>6, RunsUntouched
<1>2. ASSUME NEW r \in EnrichRuns, NEW trigger \in Triggers,
             Kickoff(r, trigger) \/ KickoffFails(r, trigger)
      PROVE  EnrichInv'
  BY <1>2, KickoffStep
<1>3. ASSUME NEW r \in EnrichRuns, NEW t \in Tabs, StartApply(r, t)
      PROVE  EnrichInv'
  <2>1. /\ runRow[r].status = "proposed" /\ applying' = applying \cup {<<r, t>>}
        /\ UNCHANGED <<companyVars, enrichRunVars, work, usage, enrichFaults>>
    BY <1>3 DEF StartApply
  <2>2. EnrichTypeOK'
    BY <2>1 DEF EnrichInv, EnrichTypeOK, companyVars, enrichRunVars
  <2>3. \A q \in EnrichRuns : OneJob(q)' /\ NoteOnce(q)'
    BY <2>1 DEF EnrichInv, RunsKept, OneJob, NoteOnce, Jobless, EnrichHolds, companyVars, enrichRunVars
  <2> QED
    BY <2>2, <2>3 DEF EnrichInv, RunsKept
<1>4. ASSUME NEW r \in EnrichRuns, NEW t \in Tabs, NEW selected \in BOOLEAN, Apply(r, t, selected)
      PROVE  EnrichInv'
  BY <1>4, ApplyStep
<1>5. ASSUME NEW s \in EnrichSlots, EnrichStep(s) \/ CallFails(s) \/ EnrichCrash(s)
      PROVE  EnrichInv'
  BY <1>5, GuardStep, CallStep, EndOfJob, ProposeStep, ApplyAutoStep, TakeRunStep DEF EnrichStep
<1> QED
  BY <1>1, <1>2, <1>3, <1>4, <1>5 DEF EnrichNext

\* With a debounce window and one dialog open at a time: a run writes its note
\* once, whatever crashes, stalls and repeats, and an automatic one overwrites
\* only what it saw empty (jobs/enrichCompany.ts, routes/enrichment.ts).
THEOREM EnrichmentKept ==
    Debounces /\ OneTab => (EnrichSpec => EnrichmentSafe)
<1> SUFFICES ASSUME Debounces, OneTab
             PROVE  EnrichSpec => EnrichmentSafe
  OBVIOUS
<1>1. EnrichInv /\ [EnrichNext]_enrichVars => EnrichInv'
  BY StepEnrich
<1>2. EnrichInv => OneNotePerRun
  BY DEF EnrichInv, RunsKept, NoteOnce, OneNotePerRun
<1>3. EnrichInv =>
        [\A s \in EnrichSlots :
           ApplyAuto(s) /\ firm.field = "user" /\ firm'.field = "claude"
             => work[s].seen = "empty"]_enrichVars
  <2> SUFFICES ASSUME EnrichInv, NEW s \in EnrichSlots, ApplyAuto(s), firm.field = "user",
                      firm'.field = "claude"
               PROVE  work[s].seen = "empty"
    OBVIOUS
  <2> QED
    BY DEF ApplyAuto, Fills, EnrichInv, EnrichTypeOK
<1> QED
  BY InitEnrich, <1>1, <1>2, <1>3, PTL DEF EnrichSpec, EnrichmentSafe, UserValueStands
=============================================================================
