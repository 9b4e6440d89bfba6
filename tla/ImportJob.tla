------------------------------ MODULE ImportJob ------------------------------
(***************************************************************************)
(* CSV imports: an ImportJob row and its source file in S3, and the        *)
(* requests that upload, dry-run, commit and delete it.  A request is one  *)
(* Express handler in flight; each database or S3 call it awaits is a step *)
(* of its own, so two tabs, a double click or a reload overlap as they do  *)
(* in the server.                                                          *)
(*                                                                         *)
(* A commit writes the file row by row, each in its own statement.         *)
(* Parsing, mapping and validation are pure and left out: a row is a       *)
(* number, and writing it either succeeds or is reported as an error.      *)
(***************************************************************************)
EXTENDS Naturals

CONSTANTS
    Jobs,          \* import job ids
    Requests,      \* handlers in flight
    NoJob,
    NRows,         \* data rows of the file
    Overlap,       \* may a commit start while a dry-run of the job runs?
    MaxCrashes     \* bound on requests lost with the api process

ASSUME ImportAssumption ==
    /\ NoJob \notin Jobs
    /\ NRows \in Nat
    /\ Overlap \in BOOLEAN
    /\ MaxCrashes \in Nat

VARIABLES
    status,        \* ImportJob.status, "absent" before and "deleted" after the row
    stored,        \* is the source file in S3?
    applied,       \* times each row of the job's file was written to the CRM
    report,        \* rows the persisted errors name (files of at most ERROR_CAP errors)
    pc, target,    \* a request's next step and the job it works on
    pos, bad,      \* next row of a commit and the rows it could not write
    crashes

jobVars == <<status, stored, applied, report>>
runVars == <<pos, bad>>
vars == <<jobVars, pc, target, runVars, crashes>>

FileRows  == 1..NRows
Editable  == {"pending", "validating", "validated"}
Finished  == {"completed", "failed"}
Gone      == {"absent", "deleted"}
Statuses  == Editable \cup Finished \cup Gone \cup {"committing"}
Steps     == {"idle", "createRow", "undoPut", "dryRun", "load", "rows",
              "deleteRow", "deleteSource"}

TypeOK ==
    /\ status \in [Jobs -> Statuses]
    /\ stored \in [Jobs -> BOOLEAN]
    /\ applied \in [Jobs -> [FileRows -> Nat]]
    /\ report \in [Jobs -> SUBSET FileRows]
    /\ pc \in [Requests -> Steps]
    /\ target \in [Requests -> Jobs \cup {NoJob}]
    /\ pos \in [Requests -> Nat]
    /\ bad \in [Requests -> SUBSET FileRows]
    /\ crashes \in Nat

Init ==
    /\ status = [j \in Jobs |-> "absent"]
    /\ stored = [j \in Jobs |-> FALSE]
    /\ applied = [j \in Jobs |-> [i \in FileRows |-> 0]]
    /\ report = [j \in Jobs |-> {}]
    /\ pc = [q \in Requests |-> "idle"]
    /\ target = [q \in Requests |-> NoJob]
    /\ pos = [q \in Requests |-> 1]
    /\ bad = [q \in Requests |-> {}]
    /\ crashes = 0

HasRow(j) == status[j] \notin Gone

\* q starts working on j at step s, or goes on there.
At(q, s, j) == pc[q] = s /\ target[q] = j

Goto(q, s, j) ==
    /\ pc' = [pc EXCEPT ![q] = s]
    /\ target' = [target EXCEPT ![q] = j]

\* The handler returned or threw.
End(q) ==
    /\ Goto(q, "idle", NoJob)
    /\ pos' = [pos EXCEPT ![q] = 1]
    /\ bad' = [bad EXCEPT ![q] = {}]

\* A Prisma update of the job's row; it throws when the row is gone.
SetStatus(j, s) ==
    status' = IF HasRow(j) THEN [status EXCEPT ![j] = s] ELSE status

-----------------------------------------------------------------------------
(* Upload: the file goes to S3 under a fresh id, then the row is created.  *)

PutSource(q, j) ==
    /\ pc[q] = "idle"
    /\ status[j] = "absent" /\ ~stored[j]
    /\ \A p \in Requests : target[p] # j
    /\ stored' = [stored EXCEPT ![j] = TRUE]
    /\ Goto(q, "createRow", j)
    /\ UNCHANGED <<status, applied, report, runVars, crashes>>

CreateRow(q, j) ==
    /\ At(q, "createRow", j)
    /\ status' = [status EXCEPT ![j] = "pending"]
    /\ End(q)
    /\ UNCHANGED <<stored, applied, report, crashes>>

CreateRowFails(q, j) ==
    /\ At(q, "createRow", j)
    /\ Goto(q, "undoPut", j)
    /\ UNCHANGED <<jobVars, runVars, crashes>>

\* deleteImportSource swallows a failed delete.
DropSource(q, j) ==
    /\ stored' = [stored EXCEPT ![j] = FALSE] \/ UNCHANGED stored
    /\ End(q)
    /\ UNCHANGED <<status, applied, report, crashes>>

UndoPut(q, j) == At(q, "undoPut", j) /\ DropSource(q, j)

-----------------------------------------------------------------------------
(* Dry-run and commit: each claims the row with one conditional update.    *)

\* Mutants: a job being committed, or any job, counts as editable.
Claimable_Committing(j) == status[j] \in Editable \cup {"committing"}
Claimable_Any(j) == HasRow(j)

Claimable(j) == status[j] \in Editable

DryRun(q, j) ==
    /\ pc[q] = "idle"
    /\ Claimable(j)
    /\ status' = [status EXCEPT ![j] = "validating"]
    /\ Goto(q, "dryRun", j)
    /\ UNCHANGED <<stored, applied, report, runVars, crashes>>

\* The run threw, or its final update found no row: nothing is written and
\* the job stays as it is.
DryRunThrows(q, j) ==
    /\ At(q, "dryRun", j)
    /\ End(q)
    /\ UNCHANGED <<jobVars, crashes>>

\* The final update does not look at the status it replaces.
FinishDryRun(q, j) ==
    /\ At(q, "dryRun", j)
    /\ HasRow(j)
    /\ SetStatus(j, "validated")
    /\ \E errs \in SUBSET FileRows : report' = [report EXCEPT ![j] = errs]
    /\ End(q)
    /\ UNCHANGED <<stored, applied, crashes>>

DryRunning(j) == \E p \in Requests : At(p, "dryRun", j)

Commit(q, j) ==
    /\ pc[q] = "idle"
    /\ Claimable(j)
    /\ Overlap \/ ~DryRunning(j)
    /\ status' = [status EXCEPT ![j] = "committing"]
    /\ Goto(q, "load", j)
    /\ UNCHANGED <<stored, applied, report, runVars, crashes>>

LoadSource(q, j) ==
    /\ At(q, "load", j)
    /\ stored[j]
    /\ Goto(q, "rows", j)
    /\ UNCHANGED <<jobVars, runVars, crashes>>

\* More rows than MAX_ROWS, or a deal file with an unmapped stage: one row-0
\* error stands for every row, and none is tried.
RejectFile(q, j) ==
    /\ At(q, "load", j)
    /\ stored[j]
    /\ bad' = [bad EXCEPT ![q] = FileRows]
    /\ pos' = [pos EXCEPT ![q] = NRows + 1]
    /\ Goto(q, "rows", j)
    /\ UNCHANGED <<jobVars, crashes>>

\* Mutant: a failed run leaves the job as it is.
CommitThrows_Kept(q, j) ==
    /\ At(q, "load", j)
    /\ End(q)
    /\ UNCHANGED <<jobVars, crashes>>

\* Loading the file or resolving the stages threw.
CommitThrows(q, j) ==
    /\ At(q, "load", j)
    /\ SetStatus(j, "failed")
    /\ End(q)
    /\ UNCHANGED <<stored, applied, report, crashes>>

WriteRow(q, j) ==
    /\ At(q, "rows", j)
    /\ pos[q] \in FileRows
    /\ applied' = [applied EXCEPT ![j][pos[q]] = @ + 1]
    /\ pos' = [pos EXCEPT ![q] = @ + 1]
    /\ UNCHANGED <<status, stored, report, pc, target, bad, crashes>>

\* Mutant: one bad row stops the rest.
RejectRow_Stops(q, j) ==
    /\ At(q, "rows", j)
    /\ pos[q] \in FileRows
    /\ bad' = [bad EXCEPT ![q] = @ \cup {pos[q]}]
    /\ pos' = [pos EXCEPT ![q] = NRows + 1]
    /\ UNCHANGED <<jobVars, pc, target, crashes>>

RejectRow(q, j) ==
    /\ At(q, "rows", j)
    /\ pos[q] \in FileRows
    /\ bad' = [bad EXCEPT ![q] = @ \cup {pos[q]}]
    /\ pos' = [pos EXCEPT ![q] = @ + 1]
    /\ UNCHANGED <<jobVars, pc, target, crashes>>

FinishCommit(q, j) ==
    /\ At(q, "rows", j)
    /\ pos[q] > NRows
    /\ SetStatus(j, "completed")
    /\ report' = IF HasRow(j) THEN [report EXCEPT ![j] = bad[q]] ELSE report
    /\ End(q)
    /\ UNCHANGED <<stored, applied, crashes>>

-----------------------------------------------------------------------------
(* Delete: the status is checked on a row read earlier.                    *)

DeleteCheck(q, j) ==
    /\ pc[q] = "idle"
    /\ HasRow(j)
    /\ status[j] \notin {"committing", "validating"}
    /\ Goto(q, "deleteRow", j)
    /\ UNCHANGED <<jobVars, runVars, crashes>>

\* Mutant: the source goes before the row.
DeleteRow_SourceFirst(q, j) ==
    /\ At(q, "deleteRow", j)
    /\ stored' = [stored EXCEPT ![j] = FALSE]
    /\ Goto(q, "deleteSource", j)
    /\ UNCHANGED <<status, applied, report, runVars, crashes>>

DeleteRow(q, j) ==
    /\ At(q, "deleteRow", j)
    /\ \/ HasRow(j) /\ SetStatus(j, "deleted")
          /\ Goto(q, "deleteSource", j) /\ UNCHANGED runVars
       \/ ~HasRow(j) /\ End(q) /\ UNCHANGED status
    /\ UNCHANGED <<stored, applied, report, crashes>>

DeleteSource(q, j) == At(q, "deleteSource", j) /\ DropSource(q, j)

-----------------------------------------------------------------------------
\* The api process dies with the request in flight.
Crash(q) ==
    /\ pc[q] # "idle"
    /\ crashes < MaxCrashes
    /\ crashes' = crashes + 1
    /\ End(q)
    /\ UNCHANGED jobVars

Start(q, j) == PutSource(q, j) \/ DryRun(q, j) \/ Commit(q, j) \/ DeleteCheck(q, j)

Continue(q, j) ==
    \/ CreateRow(q, j) \/ CreateRowFails(q, j) \/ UndoPut(q, j)
    \/ DryRunThrows(q, j) \/ FinishDryRun(q, j)
    \/ LoadSource(q, j) \/ RejectFile(q, j) \/ CommitThrows(q, j)
    \/ WriteRow(q, j) \/ RejectRow(q, j) \/ FinishCommit(q, j)
    \/ DeleteRow(q, j) \/ DeleteSource(q, j)

Next == \E q \in Requests : Crash(q) \/ \E j \in Jobs : Start(q, j) \/ Continue(q, j)

Spec == Init /\ [][Next]_vars

\* A handler that is running goes on; no one has to send a request.
FairSpec ==
    Spec /\ \A q \in Requests : WF_vars(\E j \in Jobs : Continue(q, j))

-----------------------------------------------------------------------------
(***************************************************************************)
(* Properties.                                                             *)
(***************************************************************************)

\* A row of the file is written at most once for its job, however many
\* commits, dry-runs and deletes of the job are in flight.
RowsWrittenOnce == \A j \in Jobs, i \in FileRows : applied[j][i] <= 1

\* A completed or failed job is locked: only its deletion changes it.
FinishedIsLocked ==
    [][\A j \in Jobs :
         status[j] \in Finished => status'[j] \in {status[j], "deleted"}]_vars

\* A job that reads completed accounts for the whole file: each row was
\* written or is in the persisted error report, bad rows notwithstanding
\* (a row-0 error covers them all; errors past ERROR_CAP are cut off).
CompletedCoversFile ==
    \A j \in Jobs : status[j] = "completed" =>
        \A i \in FileRows : applied[j][i] >= 1 \/ i \in report[j]

\* A job's row always has its source file: upload writes the file first,
\* deletion removes it last, and a failure or crash between leaves at most
\* an orphan file.
SourceOutlivesRow == \A j \in Jobs : HasRow(j) => stored[j]

\* A commit that started ends with the job out of "committing", unless the
\* process died: nothing then takes the job out of that status.
CommitEnds ==
    \A j \in Jobs :
        status[j] = "committing" /\ crashes = 0
            ~> status[j] # "committing" \/ crashes > 0

-----------------------------------------------------------------------------
(***************************************************************************)
(* Why they hold: the inductive invariant of the proofs, by parts.  The    *)
(* commit's part needs ~Overlap, the source's part does not.               *)
(***************************************************************************)

Committing(q) == pc[q] \in {"load", "rows"}
Uploading(q)  == pc[q] \in {"createRow", "undoPut"}

RequestHasTarget == \A q \in Requests : pc[q] # "idle" => target[q] \in Jobs

\* An upload alone knows its job's id until the row exists; a source is
\* deleted only when the row is already gone.
UploadOwnsId ==
    \A q \in Requests :
        /\ Uploading(q) =>
             /\ status[target[q]] = "absent"
             /\ \A p \in Requests : target[p] = target[q] => p = q
        /\ pc[q] = "createRow" => stored[target[q]]
        /\ pc[q] = "deleteSource" => status[target[q]] = "deleted"

SourceInv == RequestHasTarget /\ UploadOwnsId /\ SourceOutlivesRow

\* A commit accounts for the rows before its position, from its first row on.
PassedRowsAccounted ==
    \A q \in Requests :
        /\ pc[q] # "rows" => pos[q] = 1
        /\ pc[q] = "rows" => \A i \in FileRows :
             i < pos[q] => applied[target[q]][i] >= 1 \/ i \in bad[q]

CoverInv == PassedRowsAccounted /\ CompletedCoversFile

OneCommitter ==
    \A p, q \in Requests :
        Committing(p) /\ Committing(q) /\ target[p] = target[q] => p = q

\* What a running request may assume of its job's status.
ClaimHolds ==
    \A q \in Requests :
        /\ Committing(q) => status[target[q]] \in {"committing", "deleted"}
        /\ pc[q] = "dryRun" => status[target[q]] \in {"validating", "validated", "deleted"}

\* Nothing is written before the commit, and a commit has written at most
\* the rows before its position.
UnwrittenAhead ==
    /\ \A j \in Jobs : status[j] \in Editable \cup {"absent"} =>
         \A i \in FileRows : applied[j][i] = 0
    /\ \A q \in Requests : Committing(q) =>
         \A i \in FileRows : i >= pos[q] => applied[target[q]][i] = 0

CommitInv == OneCommitter /\ ClaimHolds /\ UnwrittenAhead /\ RowsWrittenOnce

IInv == TypeOK /\ SourceInv /\ CommitInv
=============================================================================
