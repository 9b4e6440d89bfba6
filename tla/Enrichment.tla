------------------------------ MODULE Enrichment ------------------------------
(***************************************************************************)
(* Enrichment of a company by an LLM: the pre-created run row, the job     *)
(* with its guards, the call, the daily counter, the write of empty fields *)
(* with a note for automatic runs, and the proposal a user applies for     *)
(* manual ones.  One company with one writable field; runs of the others   *)
(* would only add to the counter.                                          *)
(***************************************************************************)
EXTENDS Integers, FiniteSets

CONSTANTS
    EnrichRuns,      \* EnrichmentRun rows
    EnrichSlots,     \* concurrent jobs of the worker
    DailyCap,        \* settings.dailyCap
    Debounces,       \* whether settings.debounceDays is positive
    Tabs,            \* dialogs that can apply a proposal
    MaxEnrichFaults  \* failed calls and enqueues, crashes, deletions

ASSUME EnrichmentAssumption ==
    DailyCap \in Nat /\ MaxEnrichFaults \in Nat /\ Debounces \in BOOLEAN

VARIABLES
    switchedOn,      \* settings.enabled
    firm,            \* the company: existence, its field, whether it is stamped
    runRow,          \* the run rows
    runNotes,        \* summary notes appended by a run
    enrichQueue,     \* runs whose job waits
    tries,           \* attempts and stalls a job has behind it
    work,            \* what each slot does
    usage,           \* the daily counter
    applying,        \* requests that apply a run, past their check
    enrichFaults

companyVars == <<switchedOn, firm>>
enrichRunVars == <<runRow, runNotes, enrichQueue, tries>>
enrichVars == <<companyVars, enrichRunVars, work, usage, applying, enrichFaults>>

Triggers == {"auto", "manual"}
NoRun == [status |-> "none", trigger |-> "none"]
NoWork == [at |-> "idle"]

EnrichInit ==
    /\ switchedOn = TRUE
    /\ firm = [here |-> TRUE, field |-> "empty", stamped |-> FALSE]
    /\ runRow = [r \in EnrichRuns |-> NoRun]
    /\ runNotes = [r \in EnrichRuns |-> 0]
    /\ enrichQueue = {} /\ tries = [r \in EnrichRuns |-> 0]
    /\ work = [s \in EnrichSlots |-> NoWork]
    /\ usage = 0 /\ applying = {} /\ enrichFaults = 0

EnrichFault == enrichFaults < MaxEnrichFaults /\ enrichFaults' = enrichFaults + 1

SetRunStatus(r, status) == runRow' = [runRow EXCEPT ![r].status = status]

-----------------------------------------------------------------------------
(* Users: settings, the company, kick-off and apply.                       *)

ToggleEnrichment ==
    /\ switchedOn' = ~switchedOn
    /\ UNCHANGED <<firm, enrichRunVars, work, usage, applying, enrichFaults>>

UserFills ==
    /\ firm.here /\ firm.field = "empty"
    /\ firm' = [firm EXCEPT !.field = "user"]
    /\ UNCHANGED <<switchedOn, enrichRunVars, work, usage, applying, enrichFaults>>

DeleteCompany ==
    /\ firm.here /\ EnrichFault
    /\ firm' = [firm EXCEPT !.here = FALSE]
    /\ UNCHANGED <<switchedOn, enrichRunVars, work, usage, applying>>

\* The row is written, then the job is added under the run's own id.
Kickoff(r, trigger) ==
    /\ runRow[r] = NoRun /\ switchedOn /\ firm.here
    /\ runRow' = [runRow EXCEPT ![r] = [status |-> "pending", trigger |-> trigger]]
    /\ enrichQueue' = enrichQueue \cup {r}
    /\ UNCHANGED <<companyVars, runNotes, tries, work, usage, applying, enrichFaults>>

KickoffFails(r, trigger) ==
    /\ runRow[r] = NoRun /\ switchedOn /\ firm.here /\ EnrichFault
    /\ runRow' = [runRow EXCEPT ![r] = [status |-> "error", trigger |-> trigger]]
    /\ UNCHANGED <<companyVars, runNotes, enrichQueue, tries, work, usage, applying>>

StartApply(r, t) ==
    /\ runRow[r].status = "proposed" /\ firm.here
    /\ \A a \in applying : a[2] # t
    /\ applying' = applying \cup {<<r, t>>}
    /\ UNCHANGED <<companyVars, enrichRunVars, work, usage, enrichFaults>>

\* One transaction; it fails when the company has gone meanwhile.
Apply(r, t, selected) ==
    /\ <<r, t>> \in applying
    /\ applying' = applying \ {<<r, t>>}
    /\ IF firm.here
         THEN /\ firm' = [firm EXCEPT !.field = IF selected THEN "claude" ELSE @,
                                      !.stamped = TRUE]
              /\ runNotes' = [runNotes EXCEPT ![r] = @ + 1]
              /\ SetRunStatus(r, "applied")
         ELSE UNCHANGED <<firm, runNotes, runRow>>
    /\ UNCHANGED <<switchedOn, enrichQueue, tries, work, usage, enrichFaults>>

-----------------------------------------------------------------------------
(* The worker.                                                             *)

TakeRun(s, r) ==
    /\ work[s] = NoWork /\ r \in enrichQueue
    /\ enrichQueue' = enrichQueue \ {r}
    /\ work' = [work EXCEPT ![s] = [at |-> "guard", run |-> r]]
    /\ UNCHANGED <<companyVars, runRow, runNotes, tries, usage, applying, enrichFaults>>

\* Mutant: the company is not stamped after an ambiguous answer.
StampAfter_Clear(ambiguous) == ~ambiguous

StampAfter(ambiguous) == TRUE

Debounced(r) == runRow[r].trigger = "auto" /\ Debounces /\ firm.stamped

GuardFails(r) == ~switchedOn \/ usage >= DailyCap \/ Debounced(r) \/ ~firm.here

\* Mutant: a run the guards refuse returns without a word.
SkipRun_Silent(r) == UNCHANGED runRow

SkipRun(r) == SetRunStatus(r, "skipped")

\* The guards, the snapshot of the company and the in-flight mark.
GuardRun(s) ==
    /\ work[s].at = "guard"
    /\ LET r == work[s].run
       IN  IF GuardFails(r)
             THEN SkipRun(r) /\ work' = [work EXCEPT ![s] = NoWork]
             ELSE /\ SetRunStatus(r, "pending")
                  /\ work' = [work EXCEPT ![s] = [at |-> "call", run |-> r, seen |-> firm.field]]
    /\ UNCHANGED <<companyVars, runNotes, enrichQueue, tries, usage, applying, enrichFaults>>

\* The answer names one company or is ambiguous.  The counter is read and
\* written back plus one.
CallClaude(s) ==
    /\ work[s].at = "call"
    /\ \E ambiguous \in BOOLEAN :
         work' = [work EXCEPT ![s] = [at |-> "bump", run |-> work[s].run, seen |-> work[s].seen,
                                      ambiguous |-> ambiguous, count |-> usage]]
    /\ UNCHANGED <<companyVars, enrichRunVars, usage, applying, enrichFaults>>

BumpUsage(s) ==
    /\ work[s].at = "bump"
    /\ usage' = work[s].count + 1
    /\ work' = [work EXCEPT ![s].at = "write"]
    /\ UNCHANGED <<companyVars, enrichRunVars, applying, enrichFaults>>

\* BullMQ runs a failed attempt once more.
Again(r) ==
    /\ tries' = [tries EXCEPT ![r] = @ + 1]
    /\ enrichQueue' = IF tries[r] = 0 THEN enrichQueue \cup {r} ELSE enrichQueue

CallFails(s) ==
    /\ work[s].at = "call" /\ EnrichFault
    /\ SetRunStatus(work[s].run, "error")
    /\ Again(work[s].run)
    /\ work' = [work EXCEPT ![s] = NoWork]
    /\ UNCHANGED <<companyVars, runNotes, usage, applying>>

Propose(s) ==
    /\ work[s].at = "write" /\ runRow[work[s].run].trigger = "manual"
    /\ SetRunStatus(work[s].run, "proposed")
    /\ work' = [work EXCEPT ![s] = NoWork]
    /\ UNCHANGED <<companyVars, runNotes, enrichQueue, tries, usage, applying, enrichFaults>>

\* Mutant: an automatic run writes every field it was told.
Fills_All(w) == ~w.ambiguous

\* Empty-fill, by the snapshot.
Fills(w) == ~w.ambiguous /\ w.seen = "empty"

\* applyAuto in one transaction; without the company it throws.
ApplyAuto(s) ==
    /\ work[s].at = "write" /\ runRow[work[s].run].trigger = "auto"
    /\ IF firm.here
         THEN /\ firm' = [firm EXCEPT !.field = IF Fills(work[s]) THEN "claude" ELSE @,
                                      !.stamped = @ \/ StampAfter(work[s].ambiguous)]
              /\ runNotes' = [runNotes EXCEPT ![work[s].run] = @ + 1]
              /\ work' = [work EXCEPT ![s].at = "finish"]
              /\ UNCHANGED <<tries, enrichQueue>>
         ELSE /\ work' = [work EXCEPT ![s] = NoWork]
              /\ Again(work[s].run)
              /\ UNCHANGED <<firm, runNotes>>
    /\ UNCHANGED <<switchedOn, runRow, usage, applying, enrichFaults>>

FinishAuto(s) ==
    /\ work[s].at = "finish"
    /\ SetRunStatus(work[s].run, IF work[s].ambiguous THEN "skipped" ELSE "applied")
    /\ work' = [work EXCEPT ![s] = NoWork]
    /\ UNCHANGED <<companyVars, runNotes, enrichQueue, tries, usage, applying, enrichFaults>>

\* The worker dies: the job stalls and is run again, once.
EnrichCrash(s) ==
    /\ work[s] # NoWork /\ EnrichFault
    /\ Again(work[s].run)
    /\ work' = [work EXCEPT ![s] = NoWork]
    /\ UNCHANGED <<companyVars, runRow, runNotes, usage, applying>>

-----------------------------------------------------------------------------
EnrichStep(s) ==
    \/ GuardRun(s) \/ CallClaude(s) \/ BumpUsage(s) \/ Propose(s) \/ ApplyAuto(s) \/ FinishAuto(s)
    \/ \E r \in EnrichRuns : TakeRun(s, r)

EnrichNext ==
    \/ ToggleEnrichment \/ UserFills \/ DeleteCompany
    \/ \E r \in EnrichRuns :
         \/ \E trigger \in Triggers : Kickoff(r, trigger) \/ KickoffFails(r, trigger)
         \/ \E t \in Tabs : StartApply(r, t) \/ (\E selected \in BOOLEAN : Apply(r, t, selected))
    \/ \E s \in EnrichSlots : EnrichStep(s) \/ CallFails(s) \/ EnrichCrash(s)

EnrichFair == \A s \in EnrichSlots : WF_enrichVars(EnrichStep(s))

EnrichSpec == EnrichInit /\ [][EnrichNext]_enrichVars /\ EnrichFair

-----------------------------------------------------------------------------
(***************************************************************************)
(* Properties.                                                             *)
(***************************************************************************)

\* An automatic run overwrites what a user typed only if the user typed it
\* after the run had read the company.
UserValueStands ==
    [][\A s \in EnrichSlots :
         ApplyAuto(s) /\ firm.field = "user" /\ firm'.field = "claude"
           => work[s].seen = "empty"]_enrichVars

\* A run appends its note once, though its job may be run again after it did.
OneNotePerRun == \A r \in EnrichRuns : runNotes[r] <= 1

\* Again and again no run is pending: the dialog that polls one stops.
RunSettles == []<>(\A r \in EnrichRuns : runRow[r].status # "pending")

\* What a run may do to a company: one note, and nothing a user has filled in.
EnrichmentSafe == []OneNotePerRun /\ UserValueStands
=============================================================================
