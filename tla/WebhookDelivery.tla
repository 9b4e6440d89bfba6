--------------------------- MODULE WebhookDelivery ---------------------------
(***************************************************************************)
(* Outbound webhooks: the api writes one WebhookDelivery row per event and *)
(* enabled endpoint and enqueues a BullMQ job for it; the worker runs the  *)
(* job, posts to the receiver, records the attempt, and keeps the          *)
(* endpoint's consecutive-failure counter, which disables the endpoint at  *)
(* a threshold.                                                            *)
(*                                                                         *)
(* Every await of processWebhookDelivery is a separate step of a runner,   *)
(* because the admin's PATCH and DELETE, the other runners and a crash can *)
(* happen between any two of them.  BullMQ (the job's state, its lock, the *)
(* retry ladder and the stalled-job check) is external and modelled from   *)
(* how the code uses it.                                                   *)
(***************************************************************************)
EXTENDS Naturals, FiniteSets

CONSTANTS
    Endpoints,       \* webhook endpoint rows
    Deliveries,      \* webhook delivery rows
    EndpointOf,      \* the endpoint a delivery row belongs to
    Runners,         \* the worker's concurrency slots
    Emitters,        \* api requests that emit an event, test or redeliver
    NoRunner, NoDelivery,
    Threshold,       \* AUTO_DISABLE_THRESHOLD
    MaxAttempts,     \* the job option `attempts`
    MaxStalled,      \* BullMQ's maxStalledCount
    MaxCrashes,      \* bound on worker crashes
    LockLoss         \* may a live runner lose its job lock?

ASSUME WebhookAssumption ==
    /\ IsFiniteSet(Deliveries)
    /\ EndpointOf \in [Deliveries -> Endpoints]
    /\ NoRunner \notin Runners
    /\ NoDelivery \notin Deliveries
    /\ Threshold \in Nat \ {0}
    /\ MaxAttempts \in Nat \ {0}
    /\ MaxStalled \in Nat
    /\ MaxCrashes \in Nat
    /\ LockLoss \in BOOLEAN

VARIABLES
    life,            \* endpoint row: absent, live or deleted
    enabled,         \* endpoint.enabled
    failures,        \* endpoint.consecutiveFailures
    autoDisabled,    \* endpoint.disabledReason is set
    status,          \* delivery.status; "none" before the row, "gone" after
    attempts,        \* delivery.attemptCount
    result,          \* delivery.responseStatus and errorMessage
    job,             \* state of the delivery's BullMQ job
    made,            \* job.attemptsMade
    stalls,          \* BullMQ's stalled counter of the job
    lock,            \* runner whose token holds the job's lock
    todo,            \* endpoints an emitter has still to write rows for
    fresh,           \* row an emitter has written and not yet enqueued
    pc, work,        \* a runner's next step and the delivery it is on
    outcome,         \* a runner's receiver answer
    tries,           \* job.attemptsMade as the runner's job object has it
    crashes,         \* worker crashes so far
    charged          \* history: deliveries credited by markEndpointFailure

endpointVars == <<life, enabled, failures, autoDisabled>>
rowVars      == <<status, attempts, result>>
jobVars      == <<job, made, stalls, lock>>
emitVars     == <<todo, fresh>>
runVars      == <<pc, work, outcome, tries>>
vars == <<endpointVars, rowVars, jobVars, emitVars, runVars, crashes, charged>>

Life     == {"absent", "live", "deleted"}
Statuses == {"none", "pending", "success", "failed", "gone"}
Answers  == {"ok", "retry", "perm"}
Results  == Answers \cup {"none", "disabled"}
JobState == {"none", "waiting", "active", "delayed", "completed", "failed"}
Steps    == {"idle", "readRow", "readEndpoint", "missing", "skip", "send",
             "record", "reset", "settle", "credit",
             "ackDone", "ackRetry", "ackDiscard"}

TypeOK ==
    /\ life \in [Endpoints -> Life]
    /\ enabled \in [Endpoints -> BOOLEAN]
    /\ failures \in [Endpoints -> Nat]
    /\ autoDisabled \in [Endpoints -> BOOLEAN]
    /\ status \in [Deliveries -> Statuses]
    /\ attempts \in [Deliveries -> Nat]
    /\ result \in [Deliveries -> Results]
    /\ job \in [Deliveries -> JobState]
    /\ made \in [Deliveries -> Nat]
    /\ stalls \in [Deliveries -> Nat]
    /\ lock \in [Deliveries -> Runners \cup {NoRunner}]
    /\ todo \in [Emitters -> SUBSET Endpoints]
    /\ fresh \in [Emitters -> Deliveries \cup {NoDelivery}]
    /\ pc \in [Runners -> Steps]
    /\ work \in [Runners -> Deliveries \cup {NoDelivery}]
    /\ outcome \in [Runners -> Answers]
    /\ tries \in [Runners -> Nat]
    /\ crashes \in Nat
    /\ charged \in SUBSET Deliveries

Init ==
    /\ life = [e \in Endpoints |-> "absent"]
    /\ enabled = [e \in Endpoints |-> FALSE]
    /\ failures = [e \in Endpoints |-> 0]
    /\ autoDisabled = [e \in Endpoints |-> FALSE]
    /\ status = [d \in Deliveries |-> "none"]
    /\ attempts = [d \in Deliveries |-> 0]
    /\ result = [d \in Deliveries |-> "none"]
    /\ job = [d \in Deliveries |-> "none"]
    /\ made = [d \in Deliveries |-> 0]
    /\ stalls = [d \in Deliveries |-> 0]
    /\ lock = [d \in Deliveries |-> NoRunner]
    /\ todo = [m \in Emitters |-> {}]
    /\ fresh = [m \in Emitters |-> NoDelivery]
    /\ pc = [r \in Runners |-> "idle"]
    /\ work = [r \in Runners |-> NoDelivery]
    /\ outcome = [r \in Runners |-> "ok"]
    /\ tries = [r \in Runners |-> 0]
    /\ crashes = 0
    /\ charged = {}

HasRow(d) == status[d] \notin {"none", "gone"}

-----------------------------------------------------------------------------
(***************************************************************************)
(* The api: endpoint administration.                                       *)
(***************************************************************************)

CreateEndpoint(e) ==
    /\ life[e] = "absent"
    /\ life' = [life EXCEPT ![e] = "live"]
    /\ \E on \in BOOLEAN : enabled' = [enabled EXCEPT ![e] = on]
    /\ UNCHANGED <<failures, autoDisabled, rowVars, jobVars, emitVars, runVars,
                   crashes, charged>>

\* PATCH enabled: true gives a clean slate, false keeps counter and reason.
EnableEndpoint(e) ==
    /\ life[e] = "live"
    /\ enabled' = [enabled EXCEPT ![e] = TRUE]
    /\ autoDisabled' = [autoDisabled EXCEPT ![e] = FALSE]
    /\ failures' = [failures EXCEPT ![e] = 0]
    /\ UNCHANGED <<life, rowVars, jobVars, emitVars, runVars, crashes, charged>>

DisableEndpoint(e) ==
    /\ life[e] = "live"
    /\ enabled' = [enabled EXCEPT ![e] = FALSE]
    /\ UNCHANGED <<life, failures, autoDisabled, rowVars, jobVars, emitVars,
                   runVars, crashes, charged>>

\* The foreign key cascades: the endpoint's delivery rows go in the same
\* statement; their jobs stay in Redis.
DeleteEndpoint(e) ==
    /\ life[e] = "live"
    /\ life' = [life EXCEPT ![e] = "deleted"]
    /\ status' = [d \in Deliveries |->
                     IF EndpointOf[d] = e /\ HasRow(d) THEN "gone" ELSE status[d]]
    /\ UNCHANGED <<enabled, failures, autoDisabled, attempts, result, jobVars,
                   emitVars, runVars, crashes, charged>>

(***************************************************************************)
(* The api: emission.  emitWebhookEvent reads the enabled endpoints once,  *)
(* then writes and enqueues a row for each subscribed one; the test and    *)
(* redeliver routes do the same for one endpoint they found enabled.       *)
(***************************************************************************)

Idle(m) == todo[m] = {} /\ fresh[m] = NoDelivery
Active(e) == life[e] = "live" /\ enabled[e]

BeginEmission(m, es) ==
    /\ Idle(m)
    /\ todo' = [todo EXCEPT ![m] = es]
    /\ UNCHANGED <<endpointVars, rowVars, jobVars, fresh, runVars, crashes, charged>>

EmitEvent(m) ==
    \E es \in SUBSET {e \in Endpoints : Active(e)} :
        es # {} /\ BeginEmission(m, es)

SendTest(m, e) == Active(e) /\ BeginEmission(m, {e})

Redeliver(m, d) ==
    HasRow(d) /\ Active(EndpointOf[d]) /\ BeginEmission(m, {EndpointOf[d]})

WriteRow(m, e, d) ==
    /\ fresh[m] = NoDelivery
    /\ e \in todo[m]
    /\ EndpointOf[d] = e
    /\ status[d] = "none"
    /\ life[e] = "live"
    /\ status' = [status EXCEPT ![d] = "pending"]
    /\ fresh' = [fresh EXCEPT ![m] = d]
    /\ todo' = [todo EXCEPT ![m] = @ \ {e}]
    /\ UNCHANGED <<endpointVars, attempts, result, jobVars, runVars, crashes, charged>>

\* The endpoint was deleted after the emitter read it: the insert violates
\* the foreign key and the per-endpoint catch goes on with the next one.
WriteRowFails(m, e) ==
    /\ fresh[m] = NoDelivery
    /\ e \in todo[m]
    /\ life[e] # "live"
    /\ todo' = [todo EXCEPT ![m] = @ \ {e}]
    /\ UNCHANGED <<endpointVars, rowVars, jobVars, fresh, runVars, crashes, charged>>

Enqueue(m) ==
    /\ fresh[m] # NoDelivery
    /\ job' = [job EXCEPT ![fresh[m]] = "waiting"]
    /\ fresh' = [fresh EXCEPT ![m] = NoDelivery]
    /\ UNCHANGED <<endpointVars, rowVars, made, stalls, lock, todo, runVars,
                   crashes, charged>>

\* Redis refused the job: the row stays pending and nobody will run it.
EnqueueFails(m) ==
    /\ fresh[m] # NoDelivery
    /\ fresh' = [fresh EXCEPT ![m] = NoDelivery]
    /\ UNCHANGED <<endpointVars, rowVars, jobVars, todo, runVars, crashes, charged>>

\* The api process dies between two awaits of an emission.
EmitterDies(m) ==
    /\ ~Idle(m)
    /\ todo' = [todo EXCEPT ![m] = {}]
    /\ fresh' = [fresh EXCEPT ![m] = NoDelivery]
    /\ UNCHANGED <<endpointVars, rowVars, jobVars, runVars, crashes, charged>>

-----------------------------------------------------------------------------
(***************************************************************************)
(* The worker: one runner per concurrency slot.                            *)
(***************************************************************************)

\* r is about to take step s, on delivery d.
At(r, s, d) == pc[r] = s /\ work[r] = d

Goto(r, s) == pc' = [pc EXCEPT ![r] = s]

Take(r, d) ==
    /\ pc[r] = "idle"
    /\ job[d] = "waiting"
    /\ job' = [job EXCEPT ![d] = "active"]
    /\ lock' = [lock EXCEPT ![d] = r]
    /\ work' = [work EXCEPT ![r] = d]
    /\ tries' = [tries EXCEPT ![r] = made[d]]
    /\ Goto(r, "readRow")
    /\ UNCHANGED <<endpointVars, rowVars, made, stalls, emitVars, outcome,
                   crashes, charged>>

\* Mutant: a re-run of a settled delivery posts again.
ReadRow_NoStatusCheck(r, d) ==
    /\ At(r, "readRow", d)
    /\ Goto(r, IF HasRow(d) THEN "readEndpoint" ELSE "ackDone")
    /\ UNCHANGED <<endpointVars, rowVars, jobVars, emitVars, work, outcome,
                   tries, crashes, charged>>

\* Only a pending row goes on; a missing or settled one completes the job.
ReadRow(r, d) ==
    /\ At(r, "readRow", d)
    /\ Goto(r, IF status[d] = "pending" THEN "readEndpoint" ELSE "ackDone")
    /\ UNCHANGED <<endpointVars, rowVars, jobVars, emitVars, work, outcome,
                   tries, crashes, charged>>

ReadEndpoint(r, d) ==
    LET e == EndpointOf[d] IN
    /\ At(r, "readEndpoint", d)
    /\ Goto(r, IF life[e] # "live" THEN "missing"
               ELSE IF enabled[e] THEN "send" ELSE "skip")
    /\ UNCHANGED <<endpointVars, rowVars, jobVars, emitVars, work, outcome,
                   tries, crashes, charged>>

\* Settles the row as failed and goes on at step next.  An update of a row
\* that is gone throws before discard() is reached: the job retries.
FailRow(r, d, next) ==
    /\ IF HasRow(d)
         THEN status' = [status EXCEPT ![d] = "failed"] /\ Goto(r, next)
         ELSE Goto(r, "ackRetry") /\ UNCHANGED status
    /\ UNCHANGED <<endpointVars, attempts, jobVars, emitVars, work, outcome,
                   tries, crashes, charged>>

EndpointMissing(r, d) ==
    /\ At(r, "missing", d)
    /\ FailRow(r, d, "ackDiscard")
    /\ result' = IF HasRow(d) THEN [result EXCEPT ![d] = "disabled"] ELSE result

SkipDisabled(r, d) ==
    /\ At(r, "skip", d)
    /\ FailRow(r, d, "ackDiscard")
    /\ result' = IF HasRow(d) THEN [result EXCEPT ![d] = "disabled"] ELSE result

\* The POST: 2xx, a retryable failure (5xx, 408, 429, network, timeout), or
\* a permanent one.
Send(r, d) ==
    /\ At(r, "send", d)
    /\ \E a \in Answers : outcome' = [outcome EXCEPT ![r] = a]
    /\ Goto(r, "record")
    /\ UNCHANGED <<endpointVars, rowVars, jobVars, emitVars, work, tries,
                   crashes, charged>>

\* Mutants: the ladder ends one attempt early, or one late.
IsFinalAttempt_Early(r) == tries[r] + 2 >= MaxAttempts
IsFinalAttempt_Late(r) == tries[r] >= MaxAttempts

IsFinalAttempt(r) == tries[r] + 1 >= MaxAttempts

AfterRecord(r) ==
    CASE outcome[r] = "ok" -> "reset"
      [] outcome[r] = "perm" \/ (outcome[r] = "retry" /\ IsFinalAttempt(r)) -> "settle"
      [] OTHER -> "ackRetry"

RecordAttempt(r, d) ==
    /\ At(r, "record", d)
    /\ IF HasRow(d)
         THEN /\ attempts' = [attempts EXCEPT ![d] = @ + 1]
              /\ result' = [result EXCEPT ![d] = outcome[r]]
              /\ status' = IF outcome[r] = "ok"
                             THEN [status EXCEPT ![d] = "success"] ELSE status
              /\ Goto(r, AfterRecord(r))
         ELSE Goto(r, "ackRetry") /\ UNCHANGED rowVars
    /\ UNCHANGED <<endpointVars, jobVars, emitVars, work, outcome, tries,
                   crashes, charged>>

\* Mutant: a success resets the counter of a disabled endpoint too.
ResetCounter_Unguarded(r, d) ==
    LET e == EndpointOf[d] IN
    /\ At(r, "reset", d)
    /\ failures' = [failures EXCEPT ![e] = 0]
    /\ Goto(r, "ackDone")
    /\ UNCHANGED <<life, enabled, autoDisabled, rowVars, jobVars, emitVars, work,
                   outcome, tries, crashes, charged>>

\* updateMany(where enabled): a late success leaves a disabled endpoint alone.
ResetCounter(r, d) ==
    LET e == EndpointOf[d] IN
    /\ At(r, "reset", d)
    /\ IF Active(e)
         THEN /\ failures' = [failures EXCEPT ![e] = 0]
              /\ autoDisabled' = [autoDisabled EXCEPT ![e] = FALSE]
         ELSE UNCHANGED <<failures, autoDisabled>>
    /\ Goto(r, "ackDone")
    /\ UNCHANGED <<life, enabled, rowVars, jobVars, emitVars, work, outcome,
                   tries, crashes, charged>>

SettleFailed(r, d) ==
    At(r, "settle", d) /\ FailRow(r, d, "credit") /\ UNCHANGED result

\* Mutants: one failure too many is tolerated; the reason is rewritten for an
\* endpoint an admin had already switched off.
Disables_Above(e) == failures[e] + 1 > Threshold /\ enabled[e]
Disables_Regardless(e) == failures[e] + 1 >= Threshold

\* markEndpointFailure: one transaction under the endpoint's row lock.
Disables(e) == failures[e] + 1 >= Threshold /\ enabled[e]

MarkEndpointFailure(r, d) ==
    LET e == EndpointOf[d] IN
    /\ At(r, "credit", d)
    /\ IF life[e] = "live"
         THEN /\ failures' = [failures EXCEPT ![e] = @ + 1]
              /\ enabled' = [enabled EXCEPT ![e] = @ /\ ~Disables(e)]
              /\ autoDisabled' = [autoDisabled EXCEPT ![e] = @ \/ Disables(e)]
              /\ charged' = charged \cup {d}
              /\ Goto(r, IF outcome[r] = "perm" THEN "ackDiscard" ELSE "ackRetry")
         ELSE /\ Goto(r, "ackRetry")
              /\ UNCHANGED <<failures, enabled, autoDisabled, charged>>
    /\ UNCHANGED <<life, rowVars, jobVars, emitVars, work, outcome, tries, crashes>>

-----------------------------------------------------------------------------
(***************************************************************************)
(* BullMQ (external).  The runner's result moves the job only while the    *)
(* runner still holds its lock.                                            *)
(***************************************************************************)

Finish(r) ==
    /\ Goto(r, "idle")
    /\ work' = [work EXCEPT ![r] = NoDelivery]
    /\ outcome' = [outcome EXCEPT ![r] = "ok"]
    /\ tries' = [tries EXCEPT ![r] = 0]

Release(d, s) ==
    /\ job' = [job EXCEPT ![d] = s]
    /\ lock' = [lock EXCEPT ![d] = NoRunner]

AckDone(r, d) ==
    /\ At(r, "ackDone", d)
    /\ IF lock[d] = r THEN Release(d, "completed") ELSE UNCHANGED <<job, lock>>
    /\ Finish(r)
    /\ UNCHANGED <<endpointVars, rowVars, made, stalls, emitVars, crashes, charged>>

\* The processor threw: retry after a backoff unless the job was discarded
\* or has used its attempts.
AckFail(r, d) ==
    /\ At(r, "ackRetry", d) \/ At(r, "ackDiscard", d)
    /\ IF lock[d] = r
         THEN /\ Release(d, IF pc[r] = "ackRetry" /\ made[d] + 1 < MaxAttempts
                              THEN "delayed" ELSE "failed")
              /\ made' = [made EXCEPT ![d] = @ + 1]
         ELSE UNCHANGED <<job, lock, made>>
    /\ Finish(r)
    /\ UNCHANGED <<endpointVars, rowVars, stalls, emitVars, crashes, charged>>

BackoffElapses(d) ==
    /\ job[d] = "delayed"
    /\ job' = [job EXCEPT ![d] = "waiting"]
    /\ UNCHANGED <<endpointVars, rowVars, made, stalls, lock, emitVars, runVars,
                   crashes, charged>>

\* The worker process dies: the slot loses its job object, the lock remains.
Crash(r) ==
    /\ pc[r] # "idle"
    /\ crashes < MaxCrashes
    /\ crashes' = crashes + 1
    /\ Finish(r)
    /\ UNCHANGED <<endpointVars, rowVars, jobVars, emitVars, charged>>

\* Mutant: a running job counts as abandoned.
Abandoned_Always(d) == lock[d] # NoRunner

Abandoned(d) == lock[d] # NoRunner => work[lock[d]] # d

\* The stalled check finds an active job whose lock expired: its runner died
\* or, with LockLoss, its event loop stalled past the lock's renewal.
StalledCheck(d) ==
    /\ job[d] = "active"
    /\ Abandoned(d) \/ LockLoss
    /\ stalls' = [stalls EXCEPT ![d] = @ + 1]
    /\ Release(d, IF stalls[d] + 1 > MaxStalled THEN "failed" ELSE "waiting")
    /\ UNCHANGED <<endpointVars, rowVars, made, emitVars, runVars, crashes, charged>>

-----------------------------------------------------------------------------
Admin == \E e \in Endpoints :
    \/ CreateEndpoint(e) \/ EnableEndpoint(e) \/ DisableEndpoint(e)
    \/ DeleteEndpoint(e)

Emitter(m) ==
    \/ EmitEvent(m)
    \/ \E e \in Endpoints : SendTest(m, e) \/ WriteRowFails(m, e)
    \/ \E d \in Deliveries : Redeliver(m, d)
    \/ \E e \in Endpoints, d \in Deliveries : WriteRow(m, e, d)
    \/ Enqueue(m) \/ EnqueueFails(m) \/ EmitterDies(m)

Process(r, d) ==
    \/ ReadRow(r, d) \/ ReadEndpoint(r, d) \/ EndpointMissing(r, d)
    \/ SkipDisabled(r, d) \/ Send(r, d) \/ RecordAttempt(r, d)
    \/ ResetCounter(r, d) \/ SettleFailed(r, d) \/ MarkEndpointFailure(r, d)
    \/ AckDone(r, d) \/ AckFail(r, d)

Next ==
    \/ Admin
    \/ \E m \in Emitters : Emitter(m)
    \/ \E r \in Runners : Crash(r) \/ \E d \in Deliveries : Take(r, d) \/ Process(r, d)
    \/ \E d \in Deliveries : BackoffElapses(d) \/ StalledCheck(d)

Spec == Init /\ [][Next]_vars

\* BullMQ keeps serving: a busy slot goes on, a waiting job is taken, timers
\* fire and the stalled check runs.  Nothing is assumed of the api.
Fairness ==
    /\ \A r \in Runners : WF_vars(\E d \in Deliveries : Process(r, d))
    /\ \A d \in Deliveries : /\ WF_vars(\E r \in Runners : Take(r, d))
                             /\ WF_vars(BackoffElapses(d))
                             /\ WF_vars(StalledCheck(d))

FairSpec == Spec /\ Fairness

-----------------------------------------------------------------------------
(***************************************************************************)
(* Properties.                                                             *)
(***************************************************************************)

\* An enabled endpoint's counter is below the threshold, whatever PATCH,
\* success resets and parallel failure transactions interleave: an endpoint
\* that reached the threshold never goes on receiving.
EnabledBelowThreshold ==
    \A e \in Endpoints : enabled[e] => failures[e] < Threshold

\* A disabledReason always explains a disabled endpoint that reached the
\* threshold; a late success must not wipe the counter behind the reason.
ReasonExplainsDisable ==
    \A e \in Endpoints :
        autoDisabled[e] => ~enabled[e] /\ failures[e] >= Threshold

\* A row that does not exist yet carries no failures.
AbsentIsClean ==
    \A e \in Endpoints :
        life[e] = "absent" => ~enabled[e] /\ failures[e] = 0 /\ ~autoDisabled[e]

ThresholdInv == EnabledBelowThreshold /\ ReasonExplainsDisable /\ AbsentIsClean

ChargedFailed == \A d \in charged : status[d] \in {"failed", "gone"}

ChargedOf(e) == {d \in charged : EndpointOf[d] = e}

\* The counter never exceeds the number of distinct deliveries that ended
\* failed, so retries, crashes and re-runs of a stalled job cannot count one
\* delivery twice.
CounterBackedByFailures ==
    /\ ChargedFailed
    /\ \A e \in Endpoints : failures[e] <= Cardinality(ChargedOf(e))

\* A delivery that failed retryably is given up only after its whole ladder
\* of attempts was recorded, however often its job was re-run.
NoEarlyGiveUp ==
    \A d \in Deliveries :
        status[d] = "failed" /\ result[d] = "retry" => attempts[d] >= MaxAttempts

\* A delivery whose job was enqueued does not stay pending, one worker crash
\* included.
EnqueuedSettles ==
    \A d \in Deliveries : job[d] # "none" ~> status[d] # "pending"

-----------------------------------------------------------------------------
(***************************************************************************)
(* Why they hold while a live runner keeps its lock: the inductive         *)
(* invariant of the proofs, by parts.                                      *)
(***************************************************************************)

\* A busy runner holds the lock of an active job, so no two share a row.
RunnerOwnsJob ==
    \A r \in Runners :
        /\ pc[r] = "idle" <=> work[r] = NoDelivery
        /\ pc[r] # "idle" =>
             job[work[r]] = "active" /\ lock[work[r]] = r /\ tries[r] = made[work[r]]

\* What a runner knows of its row from the steps it has done: it is as the
\* runner left it unless the endpoint's deletion took it away.
RunnerKnowsRow ==
    \A r \in Runners :
        /\ pc[r] \in {"readEndpoint", "missing", "skip", "send", "record", "settle"}
             => status[work[r]] \in {"pending", "gone"}
        /\ pc[r] = "credit" =>
             status[work[r]] \in {"failed", "gone"} /\ work[r] \notin charged
        /\ pc[r] = "ackDiscard" => status[work[r]] # "pending"

RowsFollowEndpoint ==
    \A d \in Deliveries :
        /\ HasRow(d) => life[EndpointOf[d]] = "live"
        /\ status[d] = "gone" => life[EndpointOf[d]] = "deleted"

\* A row is enqueued once, by the emitter that wrote it.
EmitterOwnsFresh ==
    /\ \A d \in Deliveries : status[d] = "none" => job[d] = "none" /\ made[d] = 0
    /\ \A m \in Emitters : fresh[m] # NoDelivery =>
         job[fresh[m]] = "none" /\ status[fresh[m]] # "none"
    /\ \A m, n \in Emitters :
         fresh[m] = fresh[n] /\ fresh[m] # NoDelivery => m = n

\* Every retry BullMQ counted was recorded on the row before.
AttemptsKeepPace ==
    /\ \A d \in Deliveries : status[d] = "pending" => attempts[d] >= made[d]
    /\ \A r \in Runners : pc[r] # "idle" /\ status[work[r]] = "pending" =>
         /\ pc[r] = "ackRetry" => attempts[work[r]] > made[work[r]]
         /\ pc[r] = "settle" =>
              /\ result[work[r]] = outcome[r]
              /\ outcome[r] = "retry" => attempts[work[r]] >= MaxAttempts

RowInv ==
    /\ RunnerOwnsJob
    /\ RunnerKnowsRow
    /\ RowsFollowEndpoint
    /\ EmitterOwnsFresh
    /\ AttemptsKeepPace
    /\ NoEarlyGiveUp
    /\ ChargedFailed

IInv == TypeOK /\ ThresholdInv /\ RowInv /\ CounterBackedByFailures

=============================================================================
