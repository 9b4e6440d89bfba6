----------------------- MODULE WebhookDelivery_proofs -----------------------
(***************************************************************************)
(* Proofs about the webhook delivery pipeline: its types, the threshold of *)
(* the failure counter for every behaviour, and, while a live runner keeps *)
(* its job's lock, the accounting of failures and the contract.            *)
(***************************************************************************)
EXTENDS WebhookRefinement, TLAPS, FiniteSetTheorems

-----------------------------------------------------------------------------
(***************************************************************************)
(* Types.                                                                  *)
(***************************************************************************)

\* Every row, job and runner keeps its type in the initial state.
LEMMA InitTyped == Init => TypeOK
BY WebhookAssumption
   DEF Init, TypeOK, Life, Statuses, Results, Answers, JobState, Steps

\* The admin's requests keep every type.
LEMMA AdminTyped == TypeOK /\ Admin => TypeOK'
<1> SUFFICES ASSUME TypeOK, NEW e \in Endpoints,
                    \/ CreateEndpoint(e) \/ EnableEndpoint(e)
                    \/ DisableEndpoint(e) \/ DeleteEndpoint(e)
             PROVE  TypeOK'
  BY DEF Admin
<1> USE DEF TypeOK, Life, Statuses, rowVars, jobVars, emitVars, runVars
<1>1. CASE CreateEndpoint(e)
  BY <1>1 DEF CreateEndpoint
<1>2. CASE EnableEndpoint(e)
  BY <1>2 DEF EnableEndpoint
<1>3. CASE DisableEndpoint(e)
  BY <1>3 DEF DisableEndpoint
<1>4. CASE DeleteEndpoint(e)
  BY <1>4 DEF DeleteEndpoint
<1> QED
  BY <1>1, <1>2, <1>3, <1>4

\* The steps of an emitter, by what they write.
LEMMA EmitterSteps ==
    ASSUME NEW m \in Emitters, Emitter(m)
    PROVE  \/ \E es \in SUBSET Endpoints : BeginEmission(m, es)
           \/ \E e \in Endpoints : WriteRowFails(m, e)
           \/ \E e \in Endpoints, d \in Deliveries : WriteRow(m, e, d)
           \/ Enqueue(m) \/ EnqueueFails(m) \/ EmitterDies(m)
<1> EndpointOf \in [Deliveries -> Endpoints]
  BY WebhookAssumption
<1> QED
  BY DEF Emitter, EmitEvent, SendTest, Redeliver

\* Emission keeps every type.
LEMMA EmitterTyped ==
    ASSUME TypeOK, NEW m \in Emitters, Emitter(m)
    PROVE  TypeOK'
<1> USE DEF TypeOK, Statuses, JobState, endpointVars, rowVars, jobVars, runVars
<1>1. CASE \E es \in SUBSET Endpoints : BeginEmission(m, es)
  BY <1>1 DEF BeginEmission
<1>2. CASE \E e \in Endpoints : WriteRowFails(m, e)
  BY <1>2 DEF WriteRowFails
<1>3. CASE \E e \in Endpoints, d \in Deliveries : WriteRow(m, e, d)
  BY <1>3 DEF WriteRow
<1>4. CASE Enqueue(m)
  BY <1>4 DEF Enqueue
<1>5. CASE EnqueueFails(m)
  BY <1>5 DEF EnqueueFails
<1>6. CASE EmitterDies(m)
  BY <1>6 DEF EmitterDies
<1> HIDE DEF TypeOK
<1> QED
  BY EmitterSteps, <1>1, <1>2, <1>3, <1>4, <1>5, <1>6

\* The runner's steps keep every type.
LEMMA ProcessTyped ==
    ASSUME TypeOK, NEW r \in Runners, NEW d \in Deliveries, Process(r, d)
    PROVE  TypeOK'
<1> USE WebhookAssumption
    DEF TypeOK, Statuses, JobState, Steps, Answers, Results, At, Goto,
        endpointVars, rowVars, jobVars, emitVars, runVars
<1>1. CASE ReadRow(r, d)
  BY <1>1 DEF ReadRow
<1>2. CASE ReadEndpoint(r, d)
  BY <1>2 DEF ReadEndpoint
<1>3. CASE EndpointMissing(r, d)
  BY <1>3 DEF EndpointMissing, FailRow
<1>4. CASE SkipDisabled(r, d)
  BY <1>4 DEF SkipDisabled, FailRow
<1>5. CASE Send(r, d)
  BY <1>5 DEF Send
<1>6. CASE RecordAttempt(r, d)
  BY <1>6 DEF RecordAttempt, AfterRecord
<1>7. CASE ResetCounter(r, d)
  <2>1. CASE Active(EndpointOf[d])
    <3>1. /\ failures' = [failures EXCEPT ![EndpointOf[d]] = 0]
          /\ autoDisabled' = [autoDisabled EXCEPT ![EndpointOf[d]] = FALSE]
      BY <1>7, <2>1, Zenon DEF ResetCounter
    <3>2. failures' \in [Endpoints -> Nat] /\ autoDisabled' \in [Endpoints -> BOOLEAN]
      BY <3>1
    <3> QED
      BY <1>7, <2>1, <3>2 DEF ResetCounter
  <2>2. CASE ~Active(EndpointOf[d])
    BY <1>7, <2>2 DEF ResetCounter
  <2> QED
    BY <2>1, <2>2
<1>8. CASE SettleFailed(r, d)
  BY <1>8 DEF SettleFailed, FailRow
<1>9. CASE MarkEndpointFailure(r, d)
  <2> DEFINE e == EndpointOf[d]
             off == enabled[e] /\ ~Disables(e)
             why == autoDisabled[e] \/ Disables(e)
  <2>1. CASE life[e] = "live"
    <3>1. /\ enabled' = [enabled EXCEPT ![e] = off]
          /\ autoDisabled' = [autoDisabled EXCEPT ![e] = why]
      BY <1>9, <2>1, Zenon DEF MarkEndpointFailure
    <3>2. off \in BOOLEAN /\ why \in BOOLEAN
      OBVIOUS
    <3>3. enabled' \in [Endpoints -> BOOLEAN] /\ autoDisabled' \in [Endpoints -> BOOLEAN]
      <4> HIDE DEF off, why
      <4> QED  BY <3>1, <3>2
    <3> QED
      BY <1>9, <2>1, <3>3 DEF MarkEndpointFailure
  <2>2. CASE life[e] # "live"
    BY <1>9, <2>2 DEF MarkEndpointFailure
  <2> QED
    BY <2>1, <2>2
<1>10. CASE AckDone(r, d)
  BY <1>10 DEF AckDone, Finish, Release
<1>11. CASE AckFail(r, d)
  BY <1>11 DEF AckFail, Finish, Release
<1> HIDE DEF TypeOK
<1> QED
  BY Process(r, d), <1>1, <1>2, <1>3, <1>4, <1>5, <1>6, <1>7, <1>8, <1>9, <1>10, <1>11 DEF Process

\* BullMQ's steps and a crash keep every type.
LEMMA QueueTyped ==
    ASSUME TypeOK
    PROVE  /\ \A r \in Runners : Crash(r) => TypeOK'
           /\ \A r \in Runners, d \in Deliveries : Take(r, d) => TypeOK'
           /\ \A d \in Deliveries : BackoffElapses(d) \/ StalledCheck(d) => TypeOK'
<1> USE WebhookAssumption
    DEF TypeOK, JobState, Steps, Answers, Goto, endpointVars, rowVars, jobVars,
        emitVars, runVars
<1>1. ASSUME NEW r \in Runners, Crash(r)  PROVE TypeOK'
  BY <1>1 DEF Crash, Finish
<1>2. ASSUME NEW r \in Runners, NEW d \in Deliveries, Take(r, d)  PROVE TypeOK'
  BY <1>2 DEF Take
<1>3. ASSUME NEW d \in Deliveries, BackoffElapses(d)  PROVE TypeOK'
  BY <1>3 DEF BackoffElapses
<1>4. ASSUME NEW d \in Deliveries, StalledCheck(d)  PROVE TypeOK'
  BY <1>4 DEF StalledCheck, Release
<1> HIDE DEF TypeOK
<1> QED
  BY <1>1, <1>2, <1>3, <1>4

\* Every variable of the pipeline keeps its type in every behaviour.
THEOREM Typing == Spec => []TypeOK
<1>1. TypeOK /\ [Next]_vars => TypeOK'
  <2> SUFFICES ASSUME TypeOK, [Next]_vars  PROVE TypeOK'
    OBVIOUS
  <2>1. CASE UNCHANGED vars
    BY <2>1 DEF TypeOK, vars, endpointVars, rowVars, jobVars, emitVars, runVars
  <2>2. CASE Next
    BY <2>2, AdminTyped, EmitterTyped, ProcessTyped, QueueTyped DEF Next
  <2> QED
    BY <2>1, <2>2
<1> QED
  BY InitTyped, <1>1, PTL DEF Spec

-----------------------------------------------------------------------------
(***************************************************************************)
(* The threshold, for every behaviour: also when a live runner loses its   *)
(* lock and its job runs twice at once.                                    *)
(***************************************************************************)

flags == <<enabled, failures, autoDisabled>>

\* Only five operations write an endpoint's flag, counter or reason.
LEMMA WhoWritesFlags ==
    ASSUME [Next]_vars
    PROVE  \/ UNCHANGED <<flags, life>>
           \/ \E e \in Endpoints :
                 CreateEndpoint(e) \/ EnableEndpoint(e) \/ DisableEndpoint(e)
                   \/ DeleteEndpoint(e)
           \/ \E r \in Runners, d \in Deliveries :
                 ResetCounter(r, d) \/ MarkEndpointFailure(r, d)
<1> USE DEF endpointVars, flags
<1>1. CASE Admin
  BY <1>1 DEF Admin
<1>2. ASSUME NEW m \in Emitters, Emitter(m)  PROVE UNCHANGED <<flags, life>>
  BY <1>2 DEF Emitter, EmitEvent, SendTest, Redeliver, BeginEmission, WriteRow,
     WriteRowFails, Enqueue, EnqueueFails, EmitterDies
<1>3. ASSUME NEW r \in Runners, NEW d \in Deliveries, Process(r, d)
      PROVE  \/ UNCHANGED <<flags, life>>
             \/ ResetCounter(r, d) \/ MarkEndpointFailure(r, d)
  BY <1>3 DEF Process, ReadRow, ReadEndpoint, EndpointMissing, SkipDisabled,
     FailRow, Send, RecordAttempt, SettleFailed, AckDone, AckFail
<1>4. /\ \A r \in Runners : Crash(r) => UNCHANGED <<flags, life>>
      /\ \A r \in Runners, d \in Deliveries : Take(r, d) => UNCHANGED <<flags, life>>
      /\ \A d \in Deliveries :
           BackoffElapses(d) \/ StalledCheck(d) => UNCHANGED <<flags, life>>
  BY DEF Crash, Take, BackoffElapses, StalledCheck
<1>5. CASE UNCHANGED vars
  BY <1>5 DEF vars
<1> QED
  BY <1>1, <1>2, <1>3, <1>4, <1>5 DEF Next

\* The transaction that counts a failure disables at the threshold.
LEMMA MarkKeepsThreshold ==
    ASSUME TypeOK, ThresholdInv, NEW r \in Runners, NEW d \in Deliveries,
           MarkEndpointFailure(r, d)
    PROVE  ThresholdInv'
<1> DEFINE e == EndpointOf[d]
<1> USE DEF ThresholdInv, EnabledBelowThreshold, ReasonExplainsDisable, AbsentIsClean
<1>1. CASE life[e] = "live"
  <2>1. /\ failures' = [failures EXCEPT ![e] = @ + 1]
        /\ enabled' = [enabled EXCEPT ![e] = @ /\ ~Disables(e)]
        /\ autoDisabled' = [autoDisabled EXCEPT ![e] = @ \/ Disables(e)]
        /\ life' = life
    BY <1>1, MarkEndpointFailure(r, d) DEF MarkEndpointFailure
  <2>2. e \in Endpoints /\ Threshold \in Nat \ {0} /\ failures[e] \in Nat
    BY WebhookAssumption DEF TypeOK
  <2>3. failures'[e] = failures[e] + 1
    BY <2>1, <2>2 DEF TypeOK
  <2>4. enabled'[e] <=> enabled[e] /\ ~Disables(e)
    BY <2>1, <2>2, Zenon DEF TypeOK
  <2>5. autoDisabled'[e] <=> autoDisabled[e] \/ Disables(e)
    BY <2>1, <2>2, Zenon DEF TypeOK
  <2>6. enabled'[e] => failures'[e] < Threshold
    <3>1. Disables(e) <=> failures[e] + 1 >= Threshold /\ enabled[e]
      BY DEF Disables
    <3> QED
      BY <2>2, <2>3, <2>4, <3>1
  <2>7. autoDisabled'[e] => ~enabled'[e] /\ failures'[e] >= Threshold
    <3>1. CASE autoDisabled[e]
      BY <2>2, <2>3, <2>4, <3>1
    <3>2. CASE Disables(e)
      BY <2>3, <2>4, <3>2 DEF Disables
    <3> QED
      BY <2>5, <3>1, <3>2
  <2>8. ASSUME NEW f \in Endpoints, f # e
        PROVE  /\ failures'[f] = failures[f]
               /\ enabled'[f] = enabled[f]
               /\ autoDisabled'[f] = autoDisabled[f]
    BY <2>1, <2>8, Zenon DEF TypeOK
  <2> QED
    BY <1>1, <2>1, <2>6, <2>7, <2>8
<1>2. CASE life[e] # "live"
  BY <1>2, MarkEndpointFailure(r, d) DEF MarkEndpointFailure
<1> QED
  BY <1>1, <1>2

\* The reset after a success leaves a disabled endpoint's counter alone.
LEMMA ResetKeepsThreshold ==
    ASSUME TypeOK, ThresholdInv, NEW r \in Runners, NEW d \in Deliveries,
           ResetCounter(r, d)
    PROVE  ThresholdInv'
<1> DEFINE e == EndpointOf[d]
<1> USE DEF ThresholdInv, EnabledBelowThreshold, ReasonExplainsDisable, AbsentIsClean
<1>0. UNCHANGED <<life, enabled>>
  BY ResetCounter(r, d) DEF ResetCounter
<1>1. CASE Active(e)
  <2>1. /\ failures' = [failures EXCEPT ![e] = 0]
        /\ autoDisabled' = [autoDisabled EXCEPT ![e] = FALSE]
    BY <1>1, ResetCounter(r, d), Zenon DEF ResetCounter
  <2>2. e \in Endpoints /\ Threshold \in Nat \ {0}
    BY WebhookAssumption
  <2>3. failures'[e] = 0 /\ ~autoDisabled'[e]
    BY <2>1, <2>2 DEF TypeOK
  <2>4. \A f \in Endpoints \ {e} :
          failures'[f] = failures[f] /\ autoDisabled'[f] = autoDisabled[f]
    BY <2>1 DEF TypeOK
  <2> QED
    BY <1>0, <2>2, <2>3, <2>4
<1>2. CASE ~Active(e)
  BY <1>0, <1>2, ResetCounter(r, d) DEF ResetCounter
<1> QED
  BY <1>1, <1>2

\* Creating, switching and deleting endpoints keeps the threshold.
LEMMA AdminKeepsThreshold ==
    ASSUME TypeOK, ThresholdInv, NEW e \in Endpoints,
           \/ CreateEndpoint(e) \/ EnableEndpoint(e)
           \/ DisableEndpoint(e) \/ DeleteEndpoint(e)
    PROVE  ThresholdInv'
<1> USE WebhookAssumption
    DEF TypeOK, ThresholdInv, EnabledBelowThreshold, ReasonExplainsDisable, AbsentIsClean
<1>1. CASE CreateEndpoint(e)
  BY <1>1 DEF CreateEndpoint
<1>2. CASE EnableEndpoint(e)
  BY <1>2 DEF EnableEndpoint
<1>3. CASE DisableEndpoint(e)
  BY <1>3 DEF DisableEndpoint
<1>4. CASE DeleteEndpoint(e)
  BY <1>4 DEF DeleteEndpoint
<1> QED
  BY <1>1, <1>2, <1>3, <1>4

\* No interleaving of switches, resets and parallel failures leaves an
\* enabled endpoint at the threshold or a reason without its cause.
THEOREM ThresholdHolds == Spec => [](EnabledBelowThreshold /\ ReasonExplainsDisable)
<1>1. Init => ThresholdInv
  BY WebhookAssumption
     DEF Init, ThresholdInv, EnabledBelowThreshold, ReasonExplainsDisable, AbsentIsClean
<1>2. TypeOK /\ ThresholdInv /\ [Next]_vars => ThresholdInv'
  <2> SUFFICES ASSUME TypeOK, ThresholdInv, [Next]_vars  PROVE ThresholdInv'
    OBVIOUS
  <2>1. CASE UNCHANGED <<flags, life>>
    BY <2>1 DEF flags, ThresholdInv, EnabledBelowThreshold,
       ReasonExplainsDisable, AbsentIsClean
  <2> QED
    BY <2>1, WhoWritesFlags, AdminKeepsThreshold, ResetKeepsThreshold,
       MarkKeepsThreshold
<1>3. ThresholdInv => EnabledBelowThreshold /\ ReasonExplainsDisable
  BY DEF ThresholdInv
<1> QED
  BY <1>1, <1>2, <1>3, Typing, PTL DEF Spec

\* A disabledReason is always true of its endpoint, also when workers lose
\* their locks and late successes arrive.
THEOREM ReasonTrue == Spec => []ReasonExplainsDisable
BY ThresholdHolds, PTL

-----------------------------------------------------------------------------
(***************************************************************************)
(* Rows, jobs and runners while a live runner keeps its lock.              *)
(***************************************************************************)

\* The rows' invariant holds initially.
LEMMA InitRows == Init => RowInv
BY WebhookAssumption
   DEF Init, RowInv, RunnerOwnsJob, RunnerKnowsRow, RowsFollowEndpoint, HasRow,
       EmitterOwnsFresh, AttemptsKeepPace, NoEarlyGiveUp, ChargedFailed

\* Administration keeps the rows' invariant.
LEMMA AdminKeepsRows ==
    ASSUME TypeOK, RowInv, NEW e \in Endpoints,
           \/ CreateEndpoint(e) \/ EnableEndpoint(e)
           \/ DisableEndpoint(e) \/ DeleteEndpoint(e)
    PROVE  RowInv'
<1> USE WebhookAssumption
    DEF RowInv, RunnerOwnsJob, RunnerKnowsRow, RowsFollowEndpoint, HasRow,
        EmitterOwnsFresh, AttemptsKeepPace, NoEarlyGiveUp, ChargedFailed, TypeOK,
        rowVars, jobVars, emitVars, runVars
<1>1. CASE CreateEndpoint(e)
  BY <1>1 DEF CreateEndpoint
<1>2. CASE EnableEndpoint(e)
  BY <1>2 DEF EnableEndpoint
<1>3. CASE DisableEndpoint(e)
  BY <1>3 DEF DisableEndpoint
<1>4. CASE DeleteEndpoint(e)
  BY <1>4 DEF DeleteEndpoint
<1> QED
  BY <1>1, <1>2, <1>3, <1>4

\* Emission keeps the rows' invariant.
LEMMA EmitterKeepsRows ==
    ASSUME TypeOK, RowInv, NEW m \in Emitters, Emitter(m)
    PROVE  RowInv'
<1> USE DEF RowInv, RunnerOwnsJob, RunnerKnowsRow, RowsFollowEndpoint, HasRow,
        EmitterOwnsFresh, AttemptsKeepPace, NoEarlyGiveUp, ChargedFailed, TypeOK,
        endpointVars, rowVars, jobVars, runVars
<1>0. EndpointOf \in [Deliveries -> Endpoints] /\ NoDelivery \notin Deliveries
  BY WebhookAssumption
<1>1. CASE \E es \in SUBSET Endpoints : BeginEmission(m, es)
  BY <1>1 DEF BeginEmission
<1>2. CASE \E e \in Endpoints : WriteRowFails(m, e)
  BY <1>2 DEF WriteRowFails
<1>3. CASE \E e \in Endpoints, d \in Deliveries : WriteRow(m, e, d)
  BY <1>0, <1>3 DEF WriteRow
<1>4. CASE Enqueue(m)
  BY <1>0, <1>4 DEF Enqueue
<1>5. CASE EnqueueFails(m)
  BY <1>0, <1>5 DEF EnqueueFails
<1>6. CASE EmitterDies(m)
  BY <1>0, <1>6 DEF EmitterDies
<1> HIDE DEF RowInv
<1> QED
  BY EmitterSteps, <1>1, <1>2, <1>3, <1>4, <1>5, <1>6

\* A runner's steps keep the rows' invariant.
LEMMA ProcessKeepsRows ==
    ASSUME TypeOK, RowInv, NEW r \in Runners, NEW d \in Deliveries, Process(r, d)
    PROVE  RowInv'
<1> USE WebhookAssumption
    DEF RowInv, RunnerOwnsJob, RunnerKnowsRow, RowsFollowEndpoint, HasRow,
        EmitterOwnsFresh, AttemptsKeepPace, NoEarlyGiveUp, ChargedFailed, TypeOK, At, Goto,
        endpointVars, rowVars, jobVars, emitVars, runVars
<1>1. CASE ReadRow(r, d)
  BY <1>1 DEF ReadRow
<1>2. CASE ReadEndpoint(r, d)
  BY <1>2 DEF ReadEndpoint
<1>3. CASE EndpointMissing(r, d)
  BY <1>3 DEF EndpointMissing, FailRow
<1>4. CASE SkipDisabled(r, d)
  BY <1>4 DEF SkipDisabled, FailRow
<1>5. CASE Send(r, d)
  BY <1>5 DEF Send
<1>6. CASE RecordAttempt(r, d)
  <2>1. CASE ~HasRow(d)
    BY <1>6, <2>1 DEF RecordAttempt
  <2>2. CASE HasRow(d)
    <3>1. /\ pc[r] = "record" /\ work[r] = d
          /\ attempts' = [attempts EXCEPT ![d] = @ + 1]
          /\ result' = [result EXCEPT ![d] = outcome[r]]
          /\ pc' = [pc EXCEPT ![r] = AfterRecord(r)]
          /\ UNCHANGED <<life, job, made, lock, fresh, work, outcome, tries, charged>>
      BY <1>6, <2>2 DEF RecordAttempt
    <3>2. status' = IF outcome[r] = "ok" THEN [status EXCEPT ![d] = "success"] ELSE status
      BY <1>6, <2>2 DEF RecordAttempt
    <3>3. status[d] = "pending" /\ tries[r] = made[d] /\ attempts[d] >= made[d]
      BY <2>2, <3>1
    <3>4. \A q \in Runners : q # r /\ pc[q] # "idle" => work[q] # d
      BY <3>1
    <3>5. AfterRecord(r) \in {"reset", "settle", "ackRetry"}
      BY DEF AfterRecord
    <3>6. AfterRecord(r) = "settle" /\ outcome[r] = "retry" =>
            attempts[d] + 1 >= MaxAttempts
      BY <3>3 DEF AfterRecord, IsFinalAttempt
    <3>7. status'[d] = "pending" \/ (outcome[r] = "ok" /\ AfterRecord(r) = "reset")
      BY <3>2, <3>3 DEF AfterRecord
    <3>8. RunnerOwnsJob' /\ RowsFollowEndpoint' /\ EmitterOwnsFresh' /\ ChargedFailed'
      BY <3>1, <3>2, <3>3, <3>5
    <3>9. RunnerKnowsRow'
      BY <3>1, <3>2, <3>3, <3>4, <3>5, <3>7
    <3>10. NoEarlyGiveUp'
      BY <3>1, <3>2, <3>3
    <3>11. AttemptsKeepPace'
      BY <3>1, <3>2, <3>3, <3>4, <3>5, <3>6
    <3> QED
      BY <3>8, <3>9, <3>10, <3>11
  <2> QED
    BY <2>1, <2>2
<1>7. CASE ResetCounter(r, d)
  BY <1>7 DEF ResetCounter
<1>8. CASE SettleFailed(r, d)
  BY <1>8 DEF SettleFailed, FailRow
<1>9. CASE MarkEndpointFailure(r, d)
  BY <1>9 DEF MarkEndpointFailure
<1>10. CASE AckDone(r, d)
  BY <1>10 DEF AckDone, Finish, Release
<1>11. CASE AckFail(r, d)
  <2>1. /\ pc[r] \in {"ackRetry", "ackDiscard"} /\ work[r] = d /\ lock[d] = r
        /\ pc' = [pc EXCEPT ![r] = "idle"]
        /\ work' = [work EXCEPT ![r] = NoDelivery]
        /\ outcome' = [outcome EXCEPT ![r] = "ok"]
        /\ tries' = [tries EXCEPT ![r] = 0]
        /\ lock' = [lock EXCEPT ![d] = NoRunner]
        /\ made' = [made EXCEPT ![d] = @ + 1]
        /\ \E s \in {"delayed", "failed"} : job' = [job EXCEPT ![d] = s]
        /\ UNCHANGED <<life, status, attempts, result, fresh, charged>>
    BY <1>11 DEF AckFail, Finish, Release
  <2>2. \A q \in Runners : q # r /\ pc[q] # "idle" => work[q] # d
    BY <2>1
  <2>3. status[d] = "pending" => attempts[d] > made[d]
    BY <2>1
  <2>4. RunnerOwnsJob'
    BY <2>1, <2>2
  <2>5. RunnerKnowsRow' /\ RowsFollowEndpoint' /\ NoEarlyGiveUp' /\ ChargedFailed'
    BY <2>1, <2>2
  <2>6. EmitterOwnsFresh'
    BY <2>1
  <2>7. AttemptsKeepPace'
    BY <2>1, <2>2, <2>3
  <2> QED
    BY <2>4, <2>5, <2>6, <2>7
<1> HIDE DEF RowInv
<1> QED
  BY Process(r, d), <1>1, <1>2, <1>3, <1>4, <1>5, <1>6, <1>7, <1>8, <1>9, <1>10, <1>11 DEF Process

\* Taking a job, crashing, a backoff and the stalled check keep the rows'
\* invariant: the check only frees a job whose runner is gone.
LEMMA QueueKeepsRows ==
    ASSUME TypeOK, RowInv, ~LockLoss
    PROVE  /\ \A r \in Runners : Crash(r) => RowInv'
           /\ \A r \in Runners, d \in Deliveries : Take(r, d) => RowInv'
           /\ \A d \in Deliveries : BackoffElapses(d) \/ StalledCheck(d) => RowInv'
<1> USE WebhookAssumption
    DEF RowInv, RunnerOwnsJob, RunnerKnowsRow, RowsFollowEndpoint, HasRow,
        EmitterOwnsFresh, AttemptsKeepPace, NoEarlyGiveUp, ChargedFailed, TypeOK, Goto,
        endpointVars, rowVars, jobVars, emitVars, runVars
<1>1. ASSUME NEW r \in Runners, Crash(r)  PROVE RowInv'
  BY <1>1 DEF Crash, Finish
<1>2. ASSUME NEW r \in Runners, NEW d \in Deliveries, Take(r, d)  PROVE RowInv'
  BY <1>2 DEF Take
<1>3. ASSUME NEW d \in Deliveries, BackoffElapses(d)  PROVE RowInv'
  BY <1>3 DEF BackoffElapses
<1>4. ASSUME NEW d \in Deliveries, StalledCheck(d)  PROVE RowInv'
  BY <1>4 DEF StalledCheck, Release, Abandoned
<1> HIDE DEF RowInv
<1> QED
  BY <1>1, <1>2, <1>3, <1>4

-----------------------------------------------------------------------------
(***************************************************************************)
(* The failure counter counts distinct failed deliveries.                  *)
(***************************************************************************)

\* The deliveries counted against an endpoint are finitely many.
LEMMA ChargedFinite ==
    ASSUME TypeOK, NEW e \in Endpoints
    PROVE  IsFiniteSet(ChargedOf(e)) /\ Cardinality(ChargedOf(e)) \in Nat
<1>1. ChargedOf(e) \subseteq Deliveries /\ IsFiniteSet(Deliveries)
  BY WebhookAssumption DEF ChargedOf, TypeOK
<1> QED
  BY <1>1, FS_Subset, FS_CardinalityType

\* Counting a failure adds a delivery that was not counted before.
LEMMA MarkKeepsCounter ==
    ASSUME TypeOK, TypeOK', RowInv, CounterBackedByFailures,
           NEW r \in Runners, NEW d \in Deliveries, MarkEndpointFailure(r, d)
    PROVE  \A e \in Endpoints : failures'[e] <= Cardinality(ChargedOf(e)')
<1> DEFINE t == EndpointOf[d]
<1>1. CASE life[t] = "live"
  <2>1. /\ failures' = [failures EXCEPT ![t] = @ + 1]
        /\ charged' = charged \cup {d}
        /\ d \notin charged
    BY <1>1, MarkEndpointFailure(r, d)
       DEF MarkEndpointFailure, At, RowInv, RunnerKnowsRow
  <2>2. t \in Endpoints
    BY WebhookAssumption
  <2>3. ASSUME NEW e \in Endpoints  PROVE failures'[e] <= Cardinality(ChargedOf(e)')
    <3>1. failures[e] \in Nat /\ failures[e] <= Cardinality(ChargedOf(e))
      BY DEF TypeOK, CounterBackedByFailures
    <3>2. IsFiniteSet(ChargedOf(e)) /\ Cardinality(ChargedOf(e)) \in Nat
      BY ChargedFinite
    <3>3. CASE e = t
      <4>1. ChargedOf(e)' = ChargedOf(e) \cup {d} /\ d \notin ChargedOf(e)
        BY <2>1, <3>3 DEF ChargedOf
      <4>2. Cardinality(ChargedOf(e)') = Cardinality(ChargedOf(e)) + 1
        BY <4>1, <3>2, FS_AddElement
      <4>3. failures'[e] = failures[e] + 1
        BY <2>1, <2>2, <3>3 DEF TypeOK
      <4> QED
        BY <3>1, <3>2, <4>2, <4>3
    <3>4. CASE e # t
      <4>1. ChargedOf(e)' = ChargedOf(e)
        BY <2>1, <3>4 DEF ChargedOf
      <4>2. failures'[e] = failures[e]
        BY <2>1, <3>4 DEF TypeOK
      <4> QED
        BY <3>1, <4>1, <4>2
    <3> QED
      BY <3>3, <3>4
  <2> QED
    BY <2>3
<1>2. CASE life[t] # "live"
  BY <1>2, MarkEndpointFailure(r, d)
     DEF MarkEndpointFailure, CounterBackedByFailures, ChargedOf
<1> QED
  BY <1>1, <1>2

\* Nothing else raises a counter or forgets a counted delivery.
LEMMA OthersKeepCounter ==
    ASSUME TypeOK, TypeOK', CounterBackedByFailures, UNCHANGED charged,
           \A e \in Endpoints : failures'[e] \in {0, failures[e]}
    PROVE  \A e \in Endpoints : failures'[e] <= Cardinality(ChargedOf(e)')
<1> TAKE e \in Endpoints
<1>1. ChargedOf(e)' = ChargedOf(e)
  BY DEF ChargedOf
<1>2. Cardinality(ChargedOf(e)) \in Nat
  BY ChargedFinite
<1> QED
  BY <1>1, <1>2 DEF CounterBackedByFailures, TypeOK

\* Only the failure transaction writes the counted deliveries.
LEMMA WhoCharges ==
    ASSUME [Next]_vars
    PROVE  \/ UNCHANGED charged
           \/ \E r \in Runners, d \in Deliveries : MarkEndpointFailure(r, d)
<1>1. CASE Admin
  BY <1>1 DEF Admin, CreateEndpoint, EnableEndpoint, DisableEndpoint, DeleteEndpoint
<1>2. ASSUME NEW m \in Emitters, Emitter(m)  PROVE UNCHANGED charged
  BY <1>2, EmitterSteps DEF BeginEmission, WriteRow, WriteRowFails, Enqueue,
     EnqueueFails, EmitterDies
<1>3. ASSUME NEW r \in Runners, NEW d \in Deliveries, Process(r, d)
      PROVE  UNCHANGED charged \/ MarkEndpointFailure(r, d)
  BY <1>3 DEF Process, ReadRow, ReadEndpoint, EndpointMissing, SkipDisabled,
     FailRow, Send, RecordAttempt, ResetCounter, SettleFailed, AckDone, AckFail
<1>4. /\ \A r \in Runners : Crash(r) => UNCHANGED charged
      /\ \A r \in Runners, d \in Deliveries : Take(r, d) => UNCHANGED charged
      /\ \A d \in Deliveries :
           BackoffElapses(d) \/ StalledCheck(d) => UNCHANGED charged
  BY DEF Crash, Take, BackoffElapses, StalledCheck
<1>5. CASE UNCHANGED vars
  BY <1>5 DEF vars
<1> QED
  BY <1>1, <1>2, <1>3, <1>4, <1>5 DEF Next

\* The inductive invariant holds in every behaviour in which a live runner
\* keeps its lock.
LEMMA Inductive == ~LockLoss => (Spec => []IInv)
<1> SUFFICES ASSUME ~LockLoss  PROVE Spec => []IInv
  OBVIOUS
<1>1. Init => ThresholdInv /\ RowInv /\ CounterBackedByFailures
  <2> SUFFICES ASSUME Init  PROVE ThresholdInv /\ RowInv /\ CounterBackedByFailures
    OBVIOUS
  <2>1. ThresholdInv
    BY WebhookAssumption
       DEF Init, ThresholdInv, EnabledBelowThreshold, ReasonExplainsDisable, AbsentIsClean
  <2>2. \A e \in Endpoints : failures[e] = 0 /\ Cardinality(ChargedOf(e)) \in Nat
    BY InitTyped, ChargedFinite DEF Init
  <2> QED
    BY <2>1, <2>2, InitRows DEF CounterBackedByFailures, RowInv
<1>2. TypeOK /\ TypeOK' /\ ThresholdInv /\ RowInv /\ CounterBackedByFailures /\ [Next]_vars
        => (ThresholdInv /\ RowInv /\ CounterBackedByFailures)'
  <2> SUFFICES ASSUME TypeOK, TypeOK', ThresholdInv, RowInv,
                      CounterBackedByFailures, [Next]_vars
               PROVE  (ThresholdInv /\ RowInv /\ CounterBackedByFailures)'
    OBVIOUS
  <2>1. ThresholdInv'
    <3>1. CASE UNCHANGED <<flags, life>>
      BY <3>1 DEF flags, ThresholdInv, EnabledBelowThreshold,
         ReasonExplainsDisable, AbsentIsClean
    <3> QED
      BY <3>1, WhoWritesFlags, AdminKeepsThreshold, ResetKeepsThreshold,
         MarkKeepsThreshold
  <2>2. RowInv'
    <3>1. CASE UNCHANGED vars
      BY <3>1 DEF vars, endpointVars, rowVars, jobVars, emitVars, runVars,
         RowInv, RunnerOwnsJob, RunnerKnowsRow, RowsFollowEndpoint, HasRow,
         EmitterOwnsFresh, AttemptsKeepPace, NoEarlyGiveUp, ChargedFailed
    <3>2. CASE Admin
      BY <3>2, AdminKeepsRows DEF Admin
    <3> QED
      BY <3>1, <3>2, EmitterKeepsRows, ProcessKeepsRows, QueueKeepsRows DEF Next
  <2>3. \A e \in Endpoints : failures'[e] <= Cardinality(ChargedOf(e)')
    <3>1. CASE \E r \in Runners, d \in Deliveries : MarkEndpointFailure(r, d)
      BY <3>1, MarkKeepsCounter
    <3>2. CASE ~\E r \in Runners, d \in Deliveries : MarkEndpointFailure(r, d)
      <4>1. UNCHANGED charged
        BY <3>2, WhoCharges
      <4>2. \A e \in Endpoints : failures'[e] \in {0, failures[e]}
        BY <3>2, WhoWritesFlags
           DEF flags, CreateEndpoint, EnableEndpoint, DisableEndpoint,
               DeleteEndpoint, ResetCounter, TypeOK
      <4> QED
        BY <4>1, <4>2, OthersKeepCounter
    <3> QED
      BY <3>1, <3>2
  <2>4. ChargedFailed'
    BY <2>2 DEF RowInv
  <2> QED
    BY <2>1, <2>2, <2>3, <2>4 DEF CounterBackedByFailures
<1> QED
  BY <1>1, <1>2, Typing, PTL DEF Spec, IInv

\* A failure counter never exceeds the number of distinct deliveries that
\* ended failed, through any crash and re-run of a job.
THEOREM FailuresCountedOnce == ~LockLoss => (Spec => []CounterBackedByFailures)
BY Inductive, PTL DEF IInv

\* A delivery that fails retryably is given up only after its whole ladder.
THEOREM LadderExhausted == ~LockLoss => (Spec => []NoEarlyGiveUp)
<1>1. IInv => NoEarlyGiveUp
  BY DEF IInv, RowInv
<1> QED
  BY <1>1, Inductive, PTL

-----------------------------------------------------------------------------
(***************************************************************************)
(* Refinement of the contract.                                             *)
(***************************************************************************)

\* An admin's request is a switch, a clear or a drop of the contract.
LEMMA AdminRefines ==
    ASSUME TypeOK, ThresholdInv, NEW e \in Endpoints,
           \/ CreateEndpoint(e) \/ EnableEndpoint(e)
           \/ DisableEndpoint(e) \/ DeleteEndpoint(e)
    PROVE  Contract!Next
<1>1. CASE CreateEndpoint(e)
  <2>1. PICK on \in BOOLEAN : enabled' = [enabled EXCEPT ![e] = on]
    BY <1>1 DEF CreateEndpoint
  <2>2. /\ UNCHANGED <<failures, autoDisabled, status, charged>>
        /\ failures[e] = 0 /\ autoDisabled[e] = FALSE
    BY <1>1 DEF CreateEndpoint, rowVars, ThresholdInv, AbsentIsClean, TypeOK
  <2>3. CASE on = TRUE
    <3>1. /\ failures' = [failures EXCEPT ![e] = 0]
          /\ autoDisabled' = [autoDisabled EXCEPT ![e] = FALSE]
      BY <2>2 DEF TypeOK
    <3> QED
      BY <2>1, <2>2, <2>3, <3>1 DEF Contract!Next, Contract!Clear
  <2>4. CASE on = FALSE
    BY <2>1, <2>2, <2>4 DEF Contract!Next, Contract!SwitchOff
  <2> QED
    BY <2>3, <2>4
<1>2. CASE EnableEndpoint(e)
  BY <1>2 DEF EnableEndpoint, rowVars, Contract!Next, Contract!Clear
<1>3. CASE DisableEndpoint(e)
  BY <1>3 DEF DisableEndpoint, rowVars, Contract!Next, Contract!SwitchOff
<1>4. CASE DeleteEndpoint(e)
  <2>1. status' = [d \in Deliveries |->
                     IF EndpointOf[d] = e /\ status[d] # "none"
                       THEN "gone" ELSE status[d]]
    BY <1>4 DEF DeleteEndpoint, HasRow
  <2> QED
    BY <1>4, <2>1 DEF DeleteEndpoint, Contract!Next, Contract!Drop, Contract!flags
<1> QED
  BY <1>1, <1>2, <1>3, <1>4

\* Writing a row accepts a delivery; the emitter's other steps are invisible.
LEMMA EmitterRefines ==
    ASSUME NEW m \in Emitters, Emitter(m)
    PROVE  Contract!Next \/ UNCHANGED Contract!vars
<1>1. CASE \E e \in Endpoints, d \in Deliveries : WriteRow(m, e, d)
  BY <1>1 DEF WriteRow, endpointVars, Contract!Next, Contract!Accept,
     Contract!Move, Contract!flags
<1>2. CASE ~\E e \in Endpoints, d \in Deliveries : WriteRow(m, e, d)
  BY <1>2, EmitterSteps DEF BeginEmission, WriteRowFails, Enqueue, EnqueueFails,
     EmitterDies, endpointVars, rowVars, Contract!vars, Contract!flags
<1> QED
  BY <1>1, <1>2

\* A runner's write of a row settles it; the failure transaction counts it.
LEMMA ProcessRefines ==
    ASSUME TypeOK, RowInv, NEW r \in Runners, NEW d \in Deliveries, Process(r, d)
    PROVE  Contract!Next \/ UNCHANGED Contract!vars
<1> USE DEF endpointVars, rowVars, Contract!vars, Contract!flags
<1>1. CASE ReadRow(r, d) \/ ReadEndpoint(r, d) \/ Send(r, d) \/ AckDone(r, d) \/ AckFail(r, d)
  BY <1>1 DEF ReadRow, ReadEndpoint, Send, AckDone, AckFail
<1>2. CASE EndpointMissing(r, d) \/ SkipDisabled(r, d) \/ SettleFailed(r, d)
  <2>1. UNCHANGED <<failures, enabled, autoDisabled, charged>>
    BY <1>2 DEF EndpointMissing, SkipDisabled, SettleFailed, FailRow
  <2>2. CASE HasRow(d)
    <3>1. status[d] = "pending"
      BY <1>2, <2>2 DEF EndpointMissing, SkipDisabled, SettleFailed, At, HasRow,
         RowInv, RunnerKnowsRow
    <3>2. status' = [status EXCEPT ![d] = "failed"]
      BY <1>2, <2>2 DEF EndpointMissing, SkipDisabled, SettleFailed, FailRow
    <3> QED
      BY <2>1, <3>1, <3>2 DEF Contract!Next, Contract!Settle, Contract!Move
  <2>3. CASE ~HasRow(d)
    BY <1>2, <2>1, <2>3 DEF EndpointMissing, SkipDisabled, SettleFailed, FailRow
  <2> QED
    BY <2>2, <2>3
<1>3. CASE RecordAttempt(r, d)
  <2>1. UNCHANGED <<failures, enabled, autoDisabled, charged>>
    BY <1>3 DEF RecordAttempt
  <2>2. CASE HasRow(d) /\ outcome[r] = "ok"
    <3>1. status[d] = "pending"
      BY <1>3, <2>2 DEF RecordAttempt, At, HasRow, RowInv, RunnerKnowsRow
    <3>2. status' = [status EXCEPT ![d] = "success"]
      BY <1>3, <2>2 DEF RecordAttempt
    <3> QED
      BY <2>1, <3>1, <3>2 DEF Contract!Next, Contract!Settle, Contract!Move
  <2>3. CASE ~(HasRow(d) /\ outcome[r] = "ok")
    BY <1>3, <2>1, <2>3 DEF RecordAttempt
  <2> QED
    BY <2>2, <2>3
<1>4. CASE ResetCounter(r, d)
  <2> DEFINE e == EndpointOf[d]
  <2>1. e \in Endpoints
    BY WebhookAssumption
  <2>2. CASE Active(e)
    <3>1. /\ failures' = [failures EXCEPT ![e] = 0]
          /\ autoDisabled' = [autoDisabled EXCEPT ![e] = FALSE]
          /\ UNCHANGED <<enabled, status, charged>>
      BY <1>4, <2>2, Zenon DEF ResetCounter
    <3>2. enabled[e] = TRUE
      BY <2>1, <2>2 DEF Active, TypeOK
    <3>3. enabled' = [enabled EXCEPT ![e] = TRUE]
      BY <2>1, <3>1, <3>2 DEF TypeOK
    <3> QED
      BY <2>1, <3>1, <3>3 DEF Contract!Next, Contract!Clear
  <2>3. CASE ~Active(e)
    BY <1>4, <2>3 DEF ResetCounter
  <2> QED
    BY <2>2, <2>3
<1>5. CASE MarkEndpointFailure(r, d)
  <2> DEFINE e == EndpointOf[d]
  <2>1. CASE life[e] = "live"
    <3>1. status[d] = "failed" /\ d \notin charged
      BY <1>5, <2>1 DEF MarkEndpointFailure, At, RowInv, RunnerKnowsRow, RowsFollowEndpoint
    <3>2. /\ charged' = charged \cup {d}
          /\ failures' = [failures EXCEPT ![e] = @ + 1]
          /\ UNCHANGED status
      BY <1>5, <2>1 DEF MarkEndpointFailure
    <3>3. /\ enabled' = [enabled EXCEPT ![e] = @ /\ ~Disables(e)]
          /\ autoDisabled' = [autoDisabled EXCEPT ![e] = @ \/ Disables(e)]
      BY <1>5, <2>1, Zenon DEF MarkEndpointFailure
    <3>4. Disables(e) = Contract!Reaches(e)
      BY DEF Disables, Contract!Reaches
    <3>5. Contract!Count(d)
      BY <3>1, <3>2, <3>3, <3>4, Zenon DEF Contract!Count
    <3> QED
      BY <3>5 DEF Contract!Next
  <2>2. CASE life[e] # "live"
    BY <1>5, <2>2 DEF MarkEndpointFailure
  <2> QED
    BY <2>1, <2>2
<1> QED
  BY Process(r, d), <1>1, <1>2, <1>3, <1>4, <1>5 DEF Process

\* While a live runner keeps its lock, the pipeline implements the contract:
\* a delivery settles once and is counted at most once.
THEOREM Refinement == ~LockLoss => (Spec => ImplementsContract)
<1> SUFFICES ASSUME ~LockLoss  PROVE Spec => ImplementsContract
  OBVIOUS
<1>1. Init => Contract!Init
  BY DEF Init, Contract!Init
<1>2. IInv /\ [Next]_vars => [Contract!Next]_(Contract!vars)
  <2> SUFFICES ASSUME IInv, [Next]_vars  PROVE Contract!Next \/ UNCHANGED Contract!vars
    OBVIOUS
  <2>1. TypeOK /\ ThresholdInv /\ RowInv
    BY DEF IInv
  <2>2. CASE UNCHANGED vars
    BY <2>2 DEF vars, endpointVars, rowVars, Contract!vars, Contract!flags
  <2>3. CASE Admin
    BY <2>1, <2>3, AdminRefines DEF Admin
  <2>4. /\ \A r \in Runners : Crash(r) => UNCHANGED Contract!vars
        /\ \A r \in Runners, d \in Deliveries : Take(r, d) => UNCHANGED Contract!vars
        /\ \A d \in Deliveries :
             BackoffElapses(d) \/ StalledCheck(d) => UNCHANGED Contract!vars
    BY DEF Crash, Take, BackoffElapses, StalledCheck, endpointVars, rowVars,
       Contract!vars, Contract!flags
  <2> QED
    BY <2>1, <2>2, <2>3, <2>4, EmitterRefines, ProcessRefines DEF Next
<1> QED
  BY <1>1, <1>2, Inductive, PTL DEF Spec, ImplementsContract, Contract!Spec

=============================================================================
