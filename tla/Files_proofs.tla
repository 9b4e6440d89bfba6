---------------------------- MODULE Files_proofs ----------------------------
(*************************************************************************)
(* Proofs about uploaded files and reviewed proposals: the dialog        *)
(* that applies an enrichment, the wizard page of an import, what its    *)
(* columns are read as and what its rows become, for any number of       *)
(* fields, columns, stages, requests, rows and records.                  *)
(*************************************************************************)
EXTENDS EnrichReview, ImportWizard, ImportColumns, ImportRows, WellFoundedInduction, TLAPS

-----------------------------------------------------------------------------
(***************************************************************************)
(* The review of a proposal.                                               *)
(***************************************************************************)

RunStatuses == {"none", "pending", "proposed", "error", "applied"}
MaybeRun == ReviewRuns \cup {NoReview}
Diffs == [offered : SUBSET ReviewFields, current : [ReviewFields -> RecordValues]]

ReviewTypeOK ==
    /\ record \in [ReviewFields -> RecordValues]
    /\ proposals \in [ReviewRuns -> [status : RunStatuses, payload : Payloads \cup {NoReview}]]
    /\ review \in [open : BOOLEAN, run : MaybeRun, status : RunStatuses,
                   diff : Diffs \cup {NoReview}, selected : SUBSET ReviewFields,
                   summary : BOOLEAN, starting : MaybeRun]
    /\ applyCall \in {NoReview} \cup
         [at : {"sent", "done", "failed"}, run : ReviewRuns, fields : SUBSET ReviewFields,
          allowed : SUBSET ReviewFields]
    /\ byHand \in SUBSET ReviewFields /\ shownBlank \in SUBSET ReviewFields
    /\ recordEdits \in Nat

\* The selection holds nothing but what the user checked and what was shown as
\* blank, a request carries a selection as it was, and a shown difference is one
\* of a run.
SelectionExplained ==
    /\ review.selected \subseteq byHand \cup shownBlank
    /\ review.diff # NoReview => review.run # NoReview
    /\ FilledNeedsAHand

ReviewInv == ReviewTypeOK /\ SelectionExplained

\* What both sides make of a payload agrees: the route writes only what the
\* dialog would offer for the record as it is, or what the record has anyway.
LEMMA RouteFollowsOffer ==
    ASSUME NEW payload, NEW fields \in SUBSET ReviewFields, NEW now,
           NEW f \in Writable(payload, fields), now[f] # payload[f]
    PROVE  f \in fields /\ f \in Offered(payload, now)
BY DEF Writable, Offered

\* What a selection starts from was shown as blank.
LEMMA DefaultsAreBlank ==
    ASSUME NEW payload, NEW now \in [ReviewFields -> RecordValues]
    PROVE  LET diff == DiffOf(payload, now)
           IN  /\ diff \in Diffs
               /\ SelectedByDefault(diff) \subseteq {f \in ReviewFields : diff.current[f] = "blank"}
BY DEF DiffOf, Offered, Diffs, SelectedByDefault

LEMMA InitReview == ReviewInit => ReviewInv
<1> SUFFICES ASSUME ReviewInit PROVE ReviewInv
  OBVIOUS
<1>1. record \in [ReviewFields -> RecordValues]
  BY DEF ReviewInit, RecordValues
<1>2. ReviewTypeOK
  BY <1>1 DEF ReviewInit, ReviewTypeOK, NoDialog, NoProposal, RunStatuses, MaybeRun
<1> QED
  BY <1>2 DEF ReviewInit, ReviewInv, SelectionExplained, FilledNeedsAHand, NoDialog

LEMMA StepReview == ReviewInv /\ [ReviewNext]_reviewVars => ReviewInv'
<1> SUFFICES ASSUME ReviewInv, [ReviewNext]_reviewVars PROVE ReviewInv'
  OBVIOUS
<1> USE DEF ReviewInv
<1>1. CASE OpenReview
  BY <1>1 DEF OpenReview, ReviewTypeOK, SelectionExplained, FilledNeedsAHand, NoDialog,
     RunStatuses, MaybeRun
<1>2. CASE CloseReview
  BY <1>2 DEF CloseReview, ReviewTypeOK, SelectionExplained, FilledNeedsAHand
<1>3. CASE RunStarted
  BY <1>3 DEF RunStarted, ReviewTypeOK, SelectionExplained, FilledNeedsAHand, MaybeRun
<1>4. CASE RunFails
  BY <1>4 DEF RunFails, ReviewTypeOK, SelectionExplained, FilledNeedsAHand, MaybeRun
<1>5. CASE PollReview
  <2> DEFINE row == proposals[review.run]
             diff == IF row.status = "proposed" THEN DiffOf(row.payload, record) ELSE NoReview
             blank == {f \in ReviewFields : diff.current[f] = "blank"}
  <2>1. PICK ticked \in {review.selected, SelectedByDefault(diff)} :
          /\ review' = [review EXCEPT !.status = row.status, !.diff = diff, !.selected = ticked]
          /\ diff = NoReview => ticked = review.selected
          /\ shownBlank' = IF diff = NoReview THEN shownBlank ELSE shownBlank \cup blank
    BY <1>5 DEF PollReview
  <2>2. review.run \in ReviewRuns /\ row.status \in RunStatuses
    BY <1>5 DEF PollReview, ReviewTypeOK, MaybeRun
  <2>3. /\ diff \in Diffs \cup {NoReview}
        /\ diff # NoReview => SelectedByDefault(diff) \subseteq blank
    BY DefaultsAreBlank DEF ReviewTypeOK
  <2> HIDE DEF diff
  <2>4. ticked \in SUBSET ReviewFields /\ ticked \subseteq byHand \cup shownBlank'
    BY <2>1, <2>3 DEF ReviewTypeOK, SelectionExplained
  <2>5. shownBlank' \in SUBSET ReviewFields
    BY <2>1 DEF ReviewTypeOK
  <2>6. UNCHANGED <<record, proposals, applyCall, byHand, recordEdits>>
    BY <1>5 DEF PollReview
  <2>7. review.run # NoReview
    BY <1>5 DEF PollReview
  <2> QED
    BY <2>1, <2>2, <2>3, <2>4, <2>5, <2>6, <2>7 DEF ReviewTypeOK, SelectionExplained,
       FilledNeedsAHand
<1>6. CASE ToggleSummary
  BY <1>6 DEF ToggleSummary, ReviewTypeOK, SelectionExplained, FilledNeedsAHand
<1>7. CASE PressApply
  <2>1. review.run \in ReviewRuns
    BY <1>7 DEF PressApply, Reviewing, SelectionExplained, ReviewTypeOK, MaybeRun
  <2> QED
    BY <1>7, <2>1 DEF PressApply, ReviewTypeOK, SelectionExplained, FilledNeedsAHand
<1>8. CASE ServeApply
  <2>1. UNCHANGED <<review, byHand, shownBlank, recordEdits>> /\ applyCall # NoReview
    BY <1>8 DEF ServeApply
  <2>2. applyCall' = [applyCall EXCEPT !.at = "done"] \/ applyCall' = [applyCall EXCEPT !.at = "failed"]
    BY <1>8 DEF ServeApply
  <2>3. record' \in [ReviewFields -> RecordValues]
    BY <1>8 DEF ServeApply, ReviewTypeOK, Writable, RecordValues
  <2>4. proposals' \in [ReviewRuns -> [status : RunStatuses, payload : Payloads \cup {NoReview}]]
    BY <1>8 DEF ServeApply, ReviewTypeOK, RunStatuses
  <2> QED
    BY <2>1, <2>2, <2>3, <2>4 DEF ReviewTypeOK, SelectionExplained, FilledNeedsAHand
<1>9. CASE ApplyAnswered
  BY <1>9 DEF ApplyAnswered, ReviewTypeOK, SelectionExplained, FilledNeedsAHand
<1>10. ASSUME NEW r \in ReviewRuns, PressRun(r)
       PROVE  ReviewInv'
  BY <1>10 DEF PressRun, ReviewTypeOK, SelectionExplained, FilledNeedsAHand, MaybeRun, RunStatuses
<1>11. ASSUME NEW r \in ReviewRuns, RunEnds(r)
       PROVE  ReviewInv'
  BY <1>11 DEF RunEnds, ReviewTypeOK, SelectionExplained, FilledNeedsAHand, RunStatuses
<1>12. ASSUME NEW f \in ReviewFields, ToggleField(f)
       PROVE  ReviewInv'
  BY <1>12 DEF ToggleField, Reviewing, ReviewTypeOK, SelectionExplained, FilledNeedsAHand
<1>13. ASSUME NEW f \in ReviewFields, EditRecord(f)
       PROVE  ReviewInv'
  BY <1>13 DEF EditRecord, ReviewTypeOK, SelectionExplained, FilledNeedsAHand
<1>14. CASE UNCHANGED reviewVars
  BY <1>14 DEF reviewVars, ReviewTypeOK, SelectionExplained, FilledNeedsAHand
<1> QED
  BY <1>1, <1>2, <1>3, <1>4, <1>5, <1>6, <1>7, <1>8, <1>9, <1>10, <1>11, <1>12, <1>13, <1>14
     DEF ReviewNext

\* A value someone typed is overwritten only by a field the user checked or the
\* dialog had shown as blank, and what the apply route changes was selected and
\* is what the dialog would offer for the record as it is then (routes/
\* enrichment.ts, EnrichDialog.tsx), for any number of runs and edits.
THEOREM ReviewIsRespected == ReviewSpec => ReviewRespected
<1>1. ReviewInv => FilledNeedsAHand
  BY DEF ReviewInv, SelectionExplained
<1>2. ReviewInv /\ [ReviewNext]_reviewVars =>
        [ServeApply =>
           {f \in ReviewFields : record'[f] # record[f]}
             \subseteq applyCall.fields \cap Offered(proposals[applyCall.run].payload, record)]_reviewVars
  <2> SUFFICES ASSUME ReviewInv, ServeApply,
                      NEW f \in ReviewFields, record'[f] # record[f]
               PROVE  f \in applyCall.fields \cap Offered(proposals[applyCall.run].payload, record)
    OBVIOUS
  <2>1. applyCall.fields \in SUBSET ReviewFields
    BY DEF ServeApply, ReviewInv, ReviewTypeOK
  <2>2. /\ f \in Writable(proposals[applyCall.run].payload, applyCall.fields)
        /\ record'[f] = proposals[applyCall.run].payload[f]
    BY DEF ServeApply
  <2> QED
    BY <2>1, <2>2, RouteFollowsOffer
<1> QED
  BY <1>1, <1>2, InitReview, StepReview, PTL DEF ReviewSpec, ReviewRespected, AppliesWhatIsOffered

-----------------------------------------------------------------------------
(***************************************************************************)
(* The wizard's page, its requests and the job rows.                       *)
(***************************************************************************)

Mappings == [Columns -> Targeted \cup {Unset}]
Picks == [SourceStages -> StageIds \cup {Unset}]
Runs == [distinct : SUBSET SourceStages, unmapped : SUBSET SourceStages, auto : Picks]
Ran == {"validating", "validated", "committing", "completed"}
JobRows == [status : {"none", "pending", "gone"} \cup Ran, mapping : Mappings, picks : Picks,
            run : Runs \cup {Unset}, unbound : SUBSET SourceStages]
Pages == [step : 1..3, job : WizardJobs \cup {Unset}, mapping : Mappings, picks : Picks,
          dryRun : Runs \cup {Unset}, done : BOOLEAN]
Calls == [id : Nat, kind : {"dryRun", "commit"}, job : WizardJobs, mapping : Mappings,
          picks : Picks, at : {"sent", "running", "refused", "answered"}, heard : BOOLEAN,
          run : Runs \cup {Unset}]

\* An answer carries its run's summary.
WizardTypeOK ==
    /\ wizard \in Pages /\ wizardCalls \subseteq Calls /\ sentCalls \in Nat
    /\ jobRow \in [WizardJobs -> JobRows]
    /\ pipeline \subseteq StageIds /\ chosen \in Picks
    /\ \A c \in wizardCalls : c.at = "answered" => c.run \in Runs
    /\ wizard.step # 1 => wizard.job \in WizardJobs

Complete(mapping) == RequiredMissing(mapping) = {}

\* The third step is only shown, and a job only ever run, with a mapping that
\* has its required fields: a validated job takes a resumed page there.
CompleteBeyondMapping ==
    /\ wizard.step = 3 => Complete(wizard.mapping)
    /\ \A j \in WizardJobs : jobRow[j].status \in Ran => Complete(jobRow[j].mapping)
    /\ \A c \in wizardCalls : c.at = "running" => jobRow[c.job].status \in Ran \cup {"gone"}

WizardInv == WizardTypeOK /\ CompleteBeyondMapping /\ ChoicesStand

\* Laying picks over picks keeps those on top.
LEMMA OverKeeps ==
    ASSUME NEW below \in Picks, NEW over \in Picks
    PROVE  /\ Over(below, over) \in Picks
           /\ \A s \in SourceStages : over[s] # Unset => Over(below, over)[s] = over[s]
BY DEF Over, Picks

LEMMA RunOfTyped ==
    ASSUME WizardTypeOK, NEW c \in Calls
    PROVE  RunOf(c) \in Runs
<1>1. DistinctStages(c.mapping) \subseteq SourceStages
  BY DEF DistinctStages, StageColumns, SourceStages
<1>2. AutoMapped(c) \in Picks
  BY DEF AutoMapped, IsBound, Picks, WizardTypeOK
<1> QED
  BY <1>1, <1>2 DEF RunOf, Runs

LEMMA InitWizard == WizardInit => WizardInv
<1> SUFFICES ASSUME WizardInit PROVE WizardInv
  OBVIOUS
<1>1. NoPicks \in Picks /\ Nothing \in Mappings
  BY DEF NoPicks, Nothing, Picks, Mappings
<1>2. WizardTypeOK
  BY <1>1 DEF WizardInit, WizardTypeOK, FreshPage, Pages, NoJobRow, JobRows
<1>3. CompleteBeyondMapping
  BY DEF WizardInit, CompleteBeyondMapping, FreshPage, NoJobRow, Ran
<1>4. ChoicesStand
  BY DEF WizardInit, ChoicesStand, UserPickStands, SentWithRequired, NoPicks
<1> QED
  BY <1>2, <1>3, <1>4 DEF WizardInv

\* Steps that leave the page and the user's choices alone.
LEMMA PageUntouched ==
    ASSUME UserPickStands, UNCHANGED <<wizard, chosen>>
    PROVE  UserPickStands'
BY DEF UserPickStands

LEMMA TakeStep ==
    ASSUME WizardInv, NEW c \in wizardCalls, TakeCall(c)
    PROVE  WizardInv'
<1>1. /\ c \in Calls /\ c.at = "sent" /\ Complete(c.mapping) /\ c.job \in WizardJobs
      /\ UNCHANGED <<wizard, sentCalls, pipeline, chosen>>
  BY DEF TakeCall, WizardInv, WizardTypeOK, ChoicesStand, SentWithRequired, Complete, Calls
<1>2. CASE jobRow[c.job].status \in EditableStatuses
  <2> DEFINE row == [jobRow[c.job] EXCEPT
                       !.status = IF c.kind = "dryRun" THEN "validating" ELSE "committing",
                       !.mapping = c.mapping, !.picks = c.picks]
             call == [c EXCEPT !.at = "running"]
  <2>1. /\ jobRow' = [jobRow EXCEPT ![c.job] = row]
        /\ wizardCalls' = (wizardCalls \ {c}) \cup {call}
    BY <1>1, <1>2 DEF TakeCall, WizardInv, WizardTypeOK
  <2>2. jobRow[c.job] \in JobRows /\ c.mapping \in Mappings /\ c.picks \in Picks
    BY <1>1 DEF WizardInv, WizardTypeOK, Calls
  <2>3. row \in JobRows /\ row.status \in Ran /\ row.mapping = c.mapping
    BY <2>2 DEF JobRows, Ran
  <2>4. call \in Calls /\ call.at = "running" /\ call.job = c.job /\ call.mapping = c.mapping
    BY <1>1 DEF Calls
  <2> HIDE DEF row, call
  <2>5. /\ jobRow'[c.job] = row
        /\ \A j \in WizardJobs : j # c.job => jobRow'[j] = jobRow[j]
    BY <1>1, <2>1 DEF WizardInv, WizardTypeOK
  <2>6. WizardTypeOK'
    BY <1>1, <2>1, <2>3, <2>4 DEF WizardInv, WizardTypeOK
  <2>7. CompleteBeyondMapping'
    BY <1>1, <2>1, <2>3, <2>4, <2>5 DEF WizardInv, WizardTypeOK, CompleteBeyondMapping, Calls, Complete
  <2>8. SentWithRequired'
    BY <1>1, <2>1, <2>3, <2>4 DEF WizardInv, ChoicesStand, SentWithRequired, Complete
  <2> QED
    BY <1>1, <2>6, <2>7, <2>8, PageUntouched DEF WizardInv, ChoicesStand
<1>3. CASE jobRow[c.job].status \notin EditableStatuses
  <2> DEFINE call == [c EXCEPT !.at = "refused"]
  <2>1. jobRow' = jobRow /\ wizardCalls' = (wizardCalls \ {c}) \cup {call}
    BY <1>3 DEF TakeCall
  <2>2. call \in Calls /\ call.at = "refused" /\ call.mapping = c.mapping
    BY <1>1 DEF Calls
  <2> HIDE DEF call
  <2>3. WizardTypeOK' /\ CompleteBeyondMapping' /\ SentWithRequired'
    BY <1>1, <2>1, <2>2 DEF WizardInv, WizardTypeOK, CompleteBeyondMapping, ChoicesStand,
       SentWithRequired, Complete
  <2> QED
    BY <1>1, <2>3, PageUntouched DEF WizardInv, ChoicesStand
<1> QED
  BY <1>2, <1>3

LEMMA EndStep ==
    ASSUME WizardInv, NEW c \in wizardCalls, EndCall(c) \/ EndOfDeleted(c)
    PROVE  WizardInv'
<1>1. /\ c \in Calls /\ c.at = "running" /\ Complete(c.mapping) /\ c.job \in WizardJobs
      /\ UNCHANGED <<wizard, sentCalls, pipeline, chosen>>
  BY DEF EndCall, EndOfDeleted, WizardInv, WizardTypeOK, ChoicesStand, SentWithRequired,
     Complete, Calls
<1>2. CASE EndCall(c)
  <2> DEFINE row == [jobRow[c.job] EXCEPT
                       !.status = IF c.kind = "dryRun" THEN "validated" ELSE "completed",
                       !.run = RunOf(c),
                       !.unbound = IF c.kind = "commit" THEN RunOf(c).unmapped ELSE @]
             call == [c EXCEPT !.at = "answered", !.run = RunOf(c)]
  <2>1. /\ jobRow' = [jobRow EXCEPT ![c.job] = row]
        /\ wizardCalls' = (wizardCalls \ {c}) \cup {call}
    BY <1>1, <1>2 DEF EndCall, WizardInv, WizardTypeOK
  <2>2. RunOf(c) \in Runs /\ RunOf(c).unmapped \subseteq SourceStages
    BY <1>1, RunOfTyped DEF WizardInv, Runs
  <2>3. jobRow[c.job] \in JobRows /\ jobRow[c.job].status \in Ran
    BY <1>1, <1>2 DEF WizardInv, WizardTypeOK, CompleteBeyondMapping, EndCall
  <2>4. /\ row \in JobRows /\ row.status \in Ran /\ row.mapping = jobRow[c.job].mapping
        /\ call \in Calls /\ call.at = "answered" /\ call.run \in Runs
        /\ call.job = c.job /\ call.mapping = c.mapping
    BY <1>1, <2>2, <2>3 DEF JobRows, Calls, Ran
  <2> HIDE DEF row, call
  <2>5. /\ jobRow'[c.job] = row
        /\ \A j \in WizardJobs : j # c.job => jobRow'[j] = jobRow[j]
    BY <1>1, <2>1 DEF WizardInv, WizardTypeOK
  <2>6. WizardTypeOK'
    BY <1>1, <2>1, <2>4 DEF WizardInv, WizardTypeOK
  <2>7. CompleteBeyondMapping'
    BY <1>1, <2>1, <2>3, <2>4, <2>5 DEF WizardInv, WizardTypeOK, CompleteBeyondMapping, Calls,
       Complete
  <2>8. SentWithRequired'
    BY <1>1, <2>1, <2>4 DEF WizardInv, ChoicesStand, SentWithRequired, Complete
  <2> QED
    BY <1>1, <2>6, <2>7, <2>8, PageUntouched DEF WizardInv, ChoicesStand
<1>3. CASE EndOfDeleted(c)
  <2> DEFINE call == [c EXCEPT !.at = "refused"]
  <2>1. jobRow' = jobRow /\ wizardCalls' = (wizardCalls \ {c}) \cup {call}
    BY <1>3 DEF EndOfDeleted
  <2>2. call \in Calls /\ call.at = "refused" /\ call.mapping = c.mapping
    BY <1>1 DEF Calls
  <2> HIDE DEF call
  <2>3. WizardTypeOK' /\ CompleteBeyondMapping' /\ SentWithRequired'
    BY <1>1, <2>1, <2>2 DEF WizardInv, WizardTypeOK, CompleteBeyondMapping, ChoicesStand,
       SentWithRequired, Complete
  <2> QED
    BY <1>1, <2>3, PageUntouched DEF WizardInv, ChoicesStand
<1> QED
  BY <1>2, <1>3

LEMMA DeliverStep ==
    ASSUME WizardInv, NEW c \in wizardCalls, Deliver(c)
    PROVE  WizardInv'
<1>1. /\ c \in Calls /\ c.at \in {"answered", "refused"}
      /\ wizardCalls' = wizardCalls \ {c} /\ UNCHANGED <<sentCalls, jobRow, pipeline, chosen>>
      /\ wizard \in Pages
  BY DEF Deliver, WizardInv, WizardTypeOK
<1>2. /\ wizard' \in Pages /\ wizard'.step = wizard.step /\ wizard'.mapping = wizard.mapping
      /\ wizard'.job = wizard.job
      /\ \A s \in SourceStages : wizard.picks[s] # Unset => wizard'.picks[s] = wizard.picks[s]
  <2>1. CASE ~c.heard \/ c.at = "refused"
    BY <1>1, <2>1 DEF Deliver
  <2>2. CASE c.heard /\ c.at = "answered" /\ c.kind = "commit"
    <3>1. wizard' = [wizard EXCEPT !.done = TRUE]
      BY <2>2 DEF Deliver
    <3> QED
      BY <1>1, <3>1 DEF Pages
  <2>3. CASE c.heard /\ c.at = "answered" /\ c.kind # "commit"
    <3>1. wizard' = [wizard EXCEPT !.dryRun = c.run, !.picks = Over(c.run.auto, wizard.picks)]
      BY <1>1, <2>3 DEF Deliver, MergedPicks, Pages
    <3>2. c.run \in Runs /\ c.run.auto \in Picks /\ wizard.picks \in Picks
      BY <1>1, <2>3 DEF WizardInv, WizardTypeOK, Runs, Pages
    <3>3. Over(c.run.auto, wizard.picks) \in Picks
          /\ \A s \in SourceStages : wizard.picks[s] # Unset =>
               Over(c.run.auto, wizard.picks)[s] = wizard.picks[s]
      BY <3>2, OverKeeps
    <3> QED
      BY <1>1, <3>1, <3>2, <3>3 DEF Pages
  <2> QED
    BY <1>1, <2>1, <2>2, <2>3
<1>3. WizardTypeOK'
  BY <1>1, <1>2 DEF WizardInv, WizardTypeOK
<1>4. CompleteBeyondMapping' /\ SentWithRequired'
  BY <1>1, <1>2 DEF WizardInv, CompleteBeyondMapping, ChoicesStand, SentWithRequired, Complete
<1>5. UserPickStands'
  BY <1>1, <1>2 DEF WizardInv, ChoicesStand, UserPickStands
<1> QED
  BY <1>3, <1>4, <1>5 DEF WizardInv, ChoicesStand

\* A request leaves the third step.
LEMMA SendStep ==
    ASSUME WizardInv, NEW k \in {"dryRun", "commit"}, wizard.step = 3, SendCall(k)
    PROVE  WizardInv'
<1> DEFINE call == [id |-> sentCalls, kind |-> k, job |-> wizard.job,
                    mapping |-> wizard.mapping, picks |-> wizard.picks, at |-> "sent",
                    heard |-> TRUE, run |-> Unset]
<1>1. /\ wizardCalls' = wizardCalls \cup {call} /\ sentCalls' = sentCalls + 1
      /\ UNCHANGED <<wizard, jobRow, pipeline, chosen>>
  BY DEF SendCall
<1>2. call \in Calls /\ Complete(call.mapping) /\ call.at = "sent"
  BY DEF WizardInv, WizardTypeOK, CompleteBeyondMapping, Calls, Pages
<1> HIDE DEF call
<1>3. WizardTypeOK'
  BY <1>1, <1>2 DEF WizardInv, WizardTypeOK
<1>4. CompleteBeyondMapping' /\ SentWithRequired'
  BY <1>1, <1>2 DEF WizardInv, CompleteBeyondMapping, ChoicesStand, SentWithRequired, Complete
<1> QED
  BY <1>1, <1>3, <1>4, PageUntouched DEF WizardInv, ChoicesStand

\* What the user does on the page alone.
LEMMA PageStep ==
    ASSUME WizardInv, UNCHANGED <<wizardCalls, sentCalls, jobRow, pipeline>>,
           wizard' \in Pages, chosen' \in Picks,
           wizard'.step # 1 => wizard'.job \in WizardJobs,
           wizard'.step = 3 => Complete(wizard'.mapping),
           UserPickStands'
    PROVE  WizardInv'
BY DEF WizardInv, WizardTypeOK, CompleteBeyondMapping, ChoicesStand, SentWithRequired

LEMMA UploadStep ==
    ASSUME WizardInv, NEW j \in WizardJobs, Upload(j)
    PROVE  WizardInv'
<1>1. PICK f \in Suggested :
        /\ jobRow' = [jobRow EXCEPT ![j] = [NoJobRow EXCEPT !.status = "pending", !.mapping = f]]
        /\ wizard' = [FreshPage EXCEPT !.step = 2, !.job = j, !.mapping = f]
  BY DEF Upload
<1>2. f \in Mappings /\ NoPicks \in Picks
  BY DEF Suggested, Mappings, NoPicks, Picks
<1> DEFINE row == [NoJobRow EXCEPT !.status = "pending", !.mapping = f]
<1>3. row \in JobRows /\ row.status = "pending"
  BY <1>2 DEF NoJobRow, JobRows
<1>4. /\ wizard' \in Pages /\ wizard'.step = 2 /\ wizard'.job = j
      /\ chosen' = NoPicks /\ UNCHANGED <<wizardCalls, sentCalls, pipeline>>
      /\ jobRow[j].status = "none"
  <2>1. wizard' = [step |-> 2, job |-> j, mapping |-> f, picks |-> NoPicks, dryRun |-> Unset,
                   done |-> FALSE]
    BY <1>1 DEF FreshPage
  <2>2. f \in Mappings /\ NoPicks \in Picks
    BY <1>2
  <2>3. wizard' \in Pages
    BY <2>1, <2>2 DEF Pages
  <2> QED
    BY <2>1, <2>3 DEF Upload
<1> HIDE DEF row
<1>5. /\ jobRow'[j] = row
      /\ \A i \in WizardJobs : i # j => jobRow'[i] = jobRow[i]
  BY <1>1 DEF WizardInv, WizardTypeOK, row
<1>6. WizardTypeOK'
  BY <1>1, <1>2, <1>3, <1>4 DEF WizardInv, WizardTypeOK, row
<1>7. CompleteBeyondMapping'
  BY <1>3, <1>4, <1>5 DEF WizardInv, WizardTypeOK, CompleteBeyondMapping, Calls, Ran
<1>8. ChoicesStand'
  BY <1>4 DEF WizardInv, ChoicesStand, UserPickStands, SentWithRequired, NoPicks
<1> QED
  BY <1>6, <1>7, <1>8 DEF WizardInv

LEMMA ResumeStep ==
    ASSUME WizardInv, NEW j \in WizardJobs, Resume(j)
    PROVE  WizardInv'
<1> DEFINE auto == IF jobRow[j].run = Unset THEN NoPicks ELSE jobRow[j].run.auto
<1>1. /\ jobRow[j] \in JobRows /\ jobRow[j].picks \in Picks /\ auto \in Picks
      /\ jobRow[j].mapping \in Mappings /\ jobRow[j].run \in Runs \cup {Unset}
  BY DEF WizardInv, WizardTypeOK, JobRows, Runs, NoPicks, Picks
<1> HIDE DEF auto
<1>2. /\ wizard' = [step |-> IF jobRow[j].status = "validated" THEN 3 ELSE 2, job |-> j,
                    mapping |-> jobRow[j].mapping, picks |-> Over(auto, jobRow[j].picks),
                    dryRun |-> jobRow[j].run, done |-> FALSE]
      /\ chosen' = jobRow[j].picks
      /\ UNCHANGED <<wizardCalls, sentCalls, jobRow, pipeline>>
  BY DEF Resume, Stored, MergedPicks, auto
<1>3. Over(auto, jobRow[j].picks) \in Picks
      /\ \A s \in SourceStages : jobRow[j].picks[s] # Unset =>
           Over(auto, jobRow[j].picks)[s] = jobRow[j].picks[s]
  BY <1>1, OverKeeps
<1>4. wizard' \in Pages /\ chosen' \in Picks /\ UserPickStands'
  BY <1>1, <1>2, <1>3 DEF Pages, UserPickStands
<1>5. wizard'.step = 3 => Complete(wizard'.mapping)
  BY <1>2 DEF WizardInv, CompleteBeyondMapping, Ran
<1> QED
  BY <1>2, <1>4, <1>5, PageStep

LEMMA StepWizard == WizardInv /\ [WizardNext]_wizardVars => WizardInv'
<1> SUFFICES ASSUME WizardInv, [WizardNext]_wizardVars
             PROVE  WizardInv'
  OBVIOUS
<1>1. ASSUME NEW j \in WizardJobs, Upload(j) \/ Resume(j)
      PROVE  WizardInv'
  BY <1>1, UploadStep, ResumeStep
<1>2. ASSUME NEW j \in WizardJobs, DeleteJob(j)
      PROVE  WizardInv'
  <2> DEFINE row == [NoJobRow EXCEPT !.status = "gone"]
  <2>1. /\ jobRow' = [jobRow EXCEPT ![j] = row]
        /\ UNCHANGED <<wizard, wizardCalls, sentCalls, pipeline, chosen>>
    BY <1>2 DEF DeleteJob
  <2>2. row \in JobRows /\ row.status = "gone"
    BY DEF NoJobRow, JobRows, NoPicks, Picks, Nothing, Mappings
  <2> HIDE DEF row
  <2>3. /\ jobRow'[j] = row
        /\ \A i \in WizardJobs : i # j => jobRow'[i] = jobRow[i]
    BY <2>1 DEF WizardInv, WizardTypeOK
  <2>4. WizardTypeOK'
    BY <2>1, <2>2 DEF WizardInv, WizardTypeOK
  <2>5. CompleteBeyondMapping'
    BY <2>1, <2>2, <2>3 DEF WizardInv, WizardTypeOK, CompleteBeyondMapping, Calls, Ran, Complete
  <2> QED
    BY <2>1, <2>4, <2>5, PageUntouched DEF WizardInv, ChoicesStand, SentWithRequired
<1>3. ASSUME NEW c \in Columns, NEW f \in Targeted \cup {Unset}, SetOne(c, f)
      PROVE  WizardInv'
  <2>1. wizard.step = 2 /\ wizard' = [wizard EXCEPT !.mapping[c] = f]
    BY <1>3 DEF SetOne
  <2>2. [wizard.mapping EXCEPT ![c] = f] \in Mappings
    BY DEF WizardInv, WizardTypeOK, Pages, Mappings
  <2>3. /\ wizard' \in Pages /\ wizard'.step = 2 /\ wizard'.job = wizard.job
        /\ wizard'.picks = wizard.picks
    BY <2>1, <2>2 DEF WizardInv, WizardTypeOK, Pages
  <2>4. chosen' \in Picks /\ wizard'.job \in WizardJobs /\ UserPickStands'
    BY <1>3, <2>1, <2>3 DEF SetOne, WizardInv, WizardTypeOK, ChoicesStand, UserPickStands
  <2> QED
    BY <1>3, <2>3, <2>4, PageStep DEF SetOne
<1>4. ASSUME NEW s \in SourceStages, NEW to \in StageIds \cup {Unset}, PickStage(s, to)
      PROVE  WizardInv'
  <2>1. wizard' = [wizard EXCEPT !.picks[s] = to] /\ chosen' = [chosen EXCEPT ![s] = to]
    BY <1>4 DEF PickStage
  <2>2. wizard.picks \in Picks /\ chosen \in Picks
    BY DEF WizardInv, WizardTypeOK, Pages
  <2>3. /\ [wizard.picks EXCEPT ![s] = to] \in Picks /\ chosen' \in Picks
        /\ wizard' = [wizard EXCEPT !.picks = [wizard.picks EXCEPT ![s] = to]]
    BY <2>1, <2>2 DEF Picks
  <2>4. /\ wizard' \in Pages /\ wizard'.step = wizard.step /\ wizard'.job = wizard.job
        /\ wizard'.mapping = wizard.mapping /\ wizard'.picks = [wizard.picks EXCEPT ![s] = to]
    BY <2>3 DEF WizardInv, WizardTypeOK, Pages
  <2>5. UserPickStands'
    BY <2>1, <2>2, <2>4 DEF WizardInv, ChoicesStand, UserPickStands, Picks
  <2> QED
    BY <1>4, <2>3, <2>4, <2>5, PageStep
       DEF PickStage, WizardInv, WizardTypeOK, CompleteBeyondMapping
<1>5. ASSUME NEW c \in wizardCalls, TakeCall(c) \/ EndCall(c) \/ EndOfDeleted(c) \/ Deliver(c)
      PROVE  WizardInv'
  BY <1>5, TakeStep, EndStep, DeliverStep
<1>6. CASE NextStep
  <2>1. wizard.step = 2 /\ wizard' = [wizard EXCEPT !.step = 3] /\ Complete(wizard.mapping)
    BY <1>6 DEF NextStep, CanAdvance, Complete
  <2>2. /\ wizard' \in Pages /\ wizard'.step = 3 /\ wizard'.job = wizard.job
        /\ wizard'.mapping = wizard.mapping /\ wizard'.picks = wizard.picks
    BY <2>1 DEF WizardInv, WizardTypeOK, Pages
  <2>3. chosen' \in Picks /\ wizard'.job \in WizardJobs /\ UserPickStands'
    BY <1>6, <2>1, <2>2 DEF NextStep, WizardInv, WizardTypeOK, ChoicesStand, UserPickStands
  <2> QED
    BY <1>6, <2>1, <2>2, <2>3, PageStep DEF NextStep
<1>7. CASE Back
  <2>1. wizard.step > 1 /\ wizard' = [wizard EXCEPT !.step = @ - 1]
    BY <1>7 DEF Back
  <2>2. /\ wizard' \in Pages /\ wizard'.step # 3 /\ wizard'.job = wizard.job
        /\ wizard'.picks = wizard.picks
    BY <2>1 DEF WizardInv, WizardTypeOK, Pages
  <2>3. chosen' \in Picks /\ wizard'.job \in WizardJobs /\ UserPickStands'
    BY <1>7, <2>1, <2>2 DEF Back, WizardInv, WizardTypeOK, ChoicesStand, UserPickStands
  <2> QED
    BY <1>7, <2>2, <2>3, PageStep DEF Back
<1>8. CASE PressDryRun
  BY <1>8, SendStep DEF PressDryRun
<1>9. CASE PressCommit
  BY <1>9, SendStep DEF PressCommit
<1>10. CASE Leave
  <2>1. /\ wizard' = FreshPage /\ wizardCalls' = Unheard /\ chosen' = NoPicks
        /\ UNCHANGED <<sentCalls, jobRow, pipeline>>
    BY <1>10 DEF Leave
  <2>2. \A c \in wizardCalls' : \E d \in wizardCalls : c = [d EXCEPT !.heard = FALSE]
    BY <2>1 DEF Unheard
  <2>3. \A c \in wizardCalls' : \E d \in wizardCalls :
          /\ c \in Calls /\ c.at = d.at /\ c.run = d.run /\ c.mapping = d.mapping /\ c.job = d.job
    BY <2>2 DEF WizardInv, WizardTypeOK, Calls
  <2>4. FreshPage \in Pages /\ FreshPage.step = 1 /\ NoPicks \in Picks
    BY DEF FreshPage, Pages, NoPicks, Picks, Nothing, Mappings
  <2>5. WizardTypeOK'
    BY <2>1, <2>3, <2>4 DEF WizardInv, WizardTypeOK
  <2>6. CompleteBeyondMapping' /\ SentWithRequired'
    BY <2>1, <2>3, <2>4 DEF WizardInv, CompleteBeyondMapping, ChoicesStand, SentWithRequired,
       Complete
  <2>7. UserPickStands'
    BY <2>1 DEF UserPickStands, NoPicks
  <2> QED
    BY <2>5, <2>6, <2>7 DEF WizardInv, ChoicesStand
<1>11. CASE DeleteStage
  <2>1. pipeline' \subseteq StageIds /\ UNCHANGED <<wizard, wizardCalls, sentCalls, jobRow, chosen>>
    BY <1>11 DEF DeleteStage
  <2> QED
    BY <2>1 DEF WizardInv, WizardTypeOK, CompleteBeyondMapping, ChoicesStand, UserPickStands,
       SentWithRequired, Complete
<1>12. CASE UNCHANGED wizardVars
  BY <1>12 DEF wizardVars, WizardInv, WizardTypeOK, CompleteBeyondMapping, ChoicesStand,
     UserPickStands, SentWithRequired, Complete
<1> QED
  BY <1>1, <1>2, <1>3, <1>4, <1>5, <1>6, <1>7, <1>8, <1>9, <1>10, <1>11, <1>12 DEF WizardNext

\* Whatever dry-runs, resumes, matched names, lost answers and deleted jobs do:
\* a stage the user picked on the page stays picked, and no request is sent
\* with a mapping that lacks a required field (pages/settings/ImportNew.tsx).
THEOREM WizardKeepsChoices == WizardSpec => []ChoicesStand
<1>1. WizardInv => ChoicesStand
  BY DEF WizardInv
<1> QED
  BY InitWizard, StepWizard, <1>1, PTL DEF WizardSpec

-----------------------------------------------------------------------------
Indices(e) == DOMAIN FieldsOf(e)

\* The mapping is the one its file asks for, and the row last validated is
\* what the validators make of it through that mapping.
ColumnsInv ==
  /\ csvFile.phase \in {"none", "mapped", "edited"}
  /\ csvFile.phase # "none" => csvFile.entity \in Entities
  /\ csvFile.phase = "mapped" =>
       \/ /\ csvFile.by = "preset"
          /\ fieldOf \in [Headers -> FieldSet(csvFile.entity) \cup {Unmapped}]
       \/ /\ csvFile.by = "headers"
          /\ csvFile.scores \in [Headers -> [Indices(csvFile.entity) -> 0..100]]
          /\ fieldOf = SuggestMapping(csvFile.entity, csvFile.scores)
  /\ csvLine.read =>
       /\ csvFile.phase = "edited"
       /\ csvLine.data = RowAccepted(csvFile.entity, csvLine.cells)
       /\ csvLine.errors = Flaws(csvFile.entity, csvLine.cells)

---------------------------------------------------------------------------
\* Of some numbers one is the least.
LEMMA LeastNat ==
  ASSUME NEW T \in SUBSET Nat, T # {}
  PROVE  \E n \in T : \A m \in T : n <= m
<1>1. \E n \in T : \A m \in T : <<m, n>> \notin OpToRel(<, Nat)
  BY NatLessThanWellFounded, WFMin
<1>2. \A m, n \in Nat : <<m, n>> \notin OpToRel(<, Nat) => n <= m
  BY DEF OpToRel
<1> QED
  BY <1>1, <1>2

LEMMA FieldLists ==
  ASSUME NEW e \in Entities
  PROVE  /\ Indices(e) \in {1..2, 1..3}
         /\ \A i, k \in Indices(e) : FieldsOf(e)[i] = FieldsOf(e)[k] => i = k
<1>1. CASE e = "company"
  BY <1>1 DEF Indices, FieldsOf
<1>2. CASE e = "contact"
  BY <1>2 DEF Indices, FieldsOf
<1>3. CASE e = "deal"
  BY <1>3 DEF Indices, FieldsOf
<1>4. CASE e = "note"
  BY <1>4 DEF Indices, FieldsOf
<1> QED
  BY <1>1, <1>2, <1>3, <1>4 DEF Entities

\* Every header has one best field.
LEMMA BestIsBest ==
  ASSUME NEW e \in Entities, NEW score \in [Indices(e) -> 0..100]
  PROVE  /\ BestIndex(e, score) \in Indices(e)
         /\ \A k \in Indices(e) :
              \/ score[k] < score[BestIndex(e, score)]
              \/ score[k] = score[BestIndex(e, score)] /\ BestIndex(e, score) <= k
<1> DEFINE Best(i) == \A k \in Indices(e) : score[k] < score[i] \/ (score[k] = score[i] /\ i <= k)
<1>1. \E i \in Indices(e) : Best(i)
  <2>1. CASE Indices(e) = 1..2
    <3>1. score[1] \in Nat /\ score[2] \in Nat
      BY <2>1
    <3>2. CASE score[1] >= score[2]
      BY <2>1, <3>1, <3>2
    <3>3. CASE score[1] < score[2]
      BY <2>1, <3>1, <3>3
    <3> HIDE DEF Best
    <3> QED
      BY <3>1, <3>2, <3>3
  <2>2. CASE Indices(e) = 1..3
    <3>1. score[1] \in Nat /\ score[2] \in Nat /\ score[3] \in Nat
      BY <2>2
    <3>2. CASE score[1] >= score[2] /\ score[1] >= score[3]
      <4>1. Best(1)
        BY <2>2, <3>1, <3>2
      <4> QED
        BY <2>2, <4>1
    <3>3. CASE score[1] < score[2] /\ score[2] >= score[3]
      <4>1. Best(2)
        BY <2>2, <3>1, <3>3
      <4> QED
        BY <2>2, <4>1
    <3>4. CASE score[1] < score[3] /\ score[2] < score[3]
      <4>1. Best(3)
        BY <2>2, <3>1, <3>4
      <4> QED
        BY <2>2, <4>1
    <3> HIDE DEF Best
    <3> QED
      BY <3>1, <3>2, <3>3, <3>4
  <2> QED
    BY <2>1, <2>2, FieldLists
<1>2. BestIndex(e, score) = CHOOSE i \in Indices(e) : Best(i)
  BY DEF BestIndex, Indices
<1> HIDE DEF Best
<1>3. BestIndex(e, score) \in Indices(e) /\ Best(BestIndex(e, score))
  BY <1>1, <1>2
<1> QED
  BY <1>3 DEF Best

\* A header's candidate is the field it is surest of, when it is sure enough;
\* a field it wants above all others is its candidate.
LEMMA CandidateIsSurest ==
  ASSUME NEW e \in Entities, NEW score \in [Indices(e) -> 0..100], NEW i \in Indices(e)
  PROVE  /\ Candidate(e, score) \in FieldSet(e) \cup {Unmapped}
         /\ Confidence(e, score) \in 0..100
         /\ Candidate(e, score) = FieldsOf(e)[i] /\ FieldsOf(e)[i] # Unmapped =>
              Confidence(e, score) = score[i]
         /\ (score[i] >= Threshold /\ \A k \in Indices(e) \ {i} : score[k] < score[i]) =>
              Candidate(e, score) = FieldsOf(e)[i] /\ Confidence(e, score) = score[i]
<1> DEFINE b == BestIndex(e, score)
<1>1. /\ b \in Indices(e)
      /\ \A k \in Indices(e) : score[k] < score[b] \/ (score[k] = score[b] /\ b <= k)
  BY BestIsBest
<1>2. Confidence(e, score) = score[b] /\ score[b] \in 0..100
  BY <1>1 DEF Confidence
<1>3. Candidate(e, score) = IF score[b] >= Threshold THEN FieldsOf(e)[b] ELSE Unmapped
  BY DEF Candidate
<1>4. FieldsOf(e)[b] \in FieldSet(e)
  BY <1>1 DEF FieldSet, Indices
<1> HIDE DEF b
<1>5. Candidate(e, score) = FieldsOf(e)[i] /\ FieldsOf(e)[i] # Unmapped => b = i
  BY <1>1, <1>3, FieldLists
<1>6. (score[i] >= Threshold /\ \A k \in Indices(e) \ {i} : score[k] < score[i]) => b = i
  <2> SUFFICES ASSUME \A k \in Indices(e) \ {i} : score[k] < score[i], b # i
               PROVE  FALSE
    OBVIOUS
  <2>1. score[b] < score[i] /\ score[i] <= score[b]
    <3>1. score[i] \in 0..100 /\ score[b] \in 0..100
      BY <1>1
    <3> QED
      BY <1>1, <3>1
  <2>2. score[i] \in 0..100 /\ score[b] \in 0..100
    BY <1>1
  <2> QED
    BY <2>1, <2>2
<1> QED
  BY <1>2, <1>3, <1>4, <1>5, <1>6

---------------------------------------------------------------------------
LEMMA SuggestionsKeepToEntity == ColumnsInv => FieldsOfEntity
<1> SUFFICES ASSUME ColumnsInv, csvFile.phase = "mapped", NEW h \in Headers
             PROVE  fieldOf[h] \in FieldSet(csvFile.entity) \cup {Unmapped}
  BY DEF FieldsOfEntity
<1>1. CASE csvFile.by = "headers"
  <2>1. /\ csvFile.entity \in Entities
        /\ csvFile.scores[h] \in [Indices(csvFile.entity) -> 0..100]
        /\ fieldOf[h] \in {Unmapped, Candidate(csvFile.entity, csvFile.scores[h])}
    BY <1>1 DEF ColumnsInv, SuggestMapping
  <2>2. 1 \in Indices(csvFile.entity)
    BY <2>1, FieldLists
  <2> QED
    BY <2>1, <2>2, CandidateIsSurest
<1>2. CASE csvFile.by # "headers"
  BY <1>2 DEF ColumnsInv
<1> QED
  BY <1>1, <1>2

LEMMA SuggestionsAreStrongest == ColumnsInv => StrongestSuggested
<1> DEFINE e == csvFile.entity
           Place(f) == CHOOSE k \in DOMAIN FieldsOf(e) : FieldsOf(e)[k] = f
           Sureness(h, f) == csvFile.scores[h][Place(f)]
           Wants(h, f) == /\ Sureness(h, f) >= Threshold
                          /\ \A k \in FieldSet(e) \ {f} : Sureness(h, k) < Sureness(h, f)
<1> SUFFICES ASSUME ColumnsInv, csvFile.phase = "mapped", csvFile.by = "headers",
                    NEW h \in Headers, NEW g \in Headers, h # g, fieldOf[h] # Unmapped
             PROVE  /\ fieldOf[g] # fieldOf[h]
                    /\ Wants(g, fieldOf[h]) /\ fieldOf[g] = Unmapped =>
                         Sureness(h, fieldOf[h]) >= Sureness(g, fieldOf[h])
  BY DEF StrongestSuggested
<1>1. /\ e \in Entities
      /\ \A x \in Headers : csvFile.scores[x] \in [Indices(e) -> 0..100]
      /\ fieldOf = SuggestMapping(e, csvFile.scores)
  BY DEF ColumnsInv
<1>2. /\ ~Taken(e, csvFile.scores, h)
      /\ fieldOf[h] = Candidate(e, csvFile.scores[h])
  BY <1>1 DEF SuggestMapping
<1>3. PICK i \in Indices(e) : fieldOf[h] = FieldsOf(e)[i]
  <2>1. 1 \in Indices(e)
    BY <1>1, FieldLists
  <2>2. fieldOf[h] \in FieldSet(e)
    BY <1>1, <1>2, <2>1, CandidateIsSurest
  <2> QED
    BY <2>2 DEF FieldSet, Indices
<1>4. \A k \in Indices(e) : Place(FieldsOf(e)[k]) = k
  BY <1>1, FieldLists DEF Indices
<1>5. /\ Confidence(e, csvFile.scores[h]) = csvFile.scores[h][i]
      /\ \A x \in Headers : Confidence(e, csvFile.scores[x]) \in 0..100
  BY <1>1, <1>2, <1>3, CandidateIsSurest
<1>6. fieldOf[g] # fieldOf[h]
  <2> SUFFICES ASSUME fieldOf[g] = fieldOf[h]
               PROVE  FALSE
    OBVIOUS
  <2>1. ~Taken(e, csvFile.scores, g) /\ Candidate(e, csvFile.scores[g]) = Candidate(e, csvFile.scores[h])
    BY <1>1, <1>2 DEF SuggestMapping
  <2>2. h \in Nat /\ g \in Nat
    BY DEF Headers
  <2>3. /\ Confidence(e, csvFile.scores[h]) \in Nat
        /\ Confidence(e, csvFile.scores[g]) \in Nat
    BY <1>5
  <2>4. Ahead(e, csvFile.scores, h, g) \/ Ahead(e, csvFile.scores, g, h)
    BY <2>2, <2>3 DEF Ahead
  <2> QED
    BY <1>2, <2>1, <2>4 DEF Taken
<1>7. ASSUME Wants(g, fieldOf[h]), fieldOf[g] = Unmapped
      PROVE  Sureness(h, fieldOf[h]) >= Sureness(g, fieldOf[h])
  <2>1. Place(fieldOf[h]) = i
    BY <1>3, <1>4
  <2>2. csvFile.scores[g][i] >= Threshold
    BY <1>7, <2>1
  <2>3. \A k \in Indices(e) \ {i} : csvFile.scores[g][k] < csvFile.scores[g][i]
    <3> SUFFICES ASSUME NEW k \in Indices(e) \ {i}
                 PROVE  csvFile.scores[g][k] < csvFile.scores[g][i]
      OBVIOUS
    <3>1. FieldsOf(e)[k] \in FieldSet(e) \ {FieldsOf(e)[i]}
      BY <1>1, FieldLists DEF FieldSet, Indices
    <3> QED
      BY <1>3, <1>4, <1>7, <3>1
  <2>4. /\ Candidate(e, csvFile.scores[g]) = FieldsOf(e)[i]
        /\ Confidence(e, csvFile.scores[g]) = csvFile.scores[g][i]
    BY <1>1, <2>2, <2>3, CandidateIsSurest
  <2>5. ~Ahead(e, csvFile.scores, g, h)
    BY <1>2, <1>3, <2>4 DEF Taken
  <2>6. csvFile.scores[h][i] >= csvFile.scores[g][i]
    BY <1>5, <2>4, <2>5 DEF Ahead
  <2> QED
    BY <2>1, <2>6
<1> QED
  BY <1>6, <1>7

---------------------------------------------------------------------------
\* A field that reads as something was read from one of its columns.
LEMMA CellIsRead ==
  ASSUME NEW cells, NEW f, CellOf(cells, f) # "blank"
  PROVE  \E h \in ColumnsFor(f) : cells[h] = CellOf(cells, f)
<1>1. ColumnsFor(f) # {} /\ ColumnsFor(f) \in SUBSET Nat
  BY DEF CellOf, ColumnsFor, Headers
<1>2. \E h \in ColumnsFor(f) : \A g \in ColumnsFor(f) : h <= g
  BY <1>1, LeastNat
<1> QED
  BY <1>1, <1>2 DEF CellOf

LEMMA RequiredAreFields ==
  ASSUME NEW e \in Entities, NEW f \in RequiredBy(e)
  PROVE  f \in FieldSet(e) /\ Limited(f)
<1>1. CASE e = "company"
  BY <1>1 DEF RequiredBy, FieldSet, FieldsOf, Limited
<1>2. CASE e = "contact"
  BY <1>2 DEF RequiredBy, FieldSet, FieldsOf, Limited
<1>3. CASE e = "deal"
  BY <1>3 DEF RequiredBy, FieldSet, FieldsOf, Limited
<1>4. CASE e = "note"
  BY <1>4 DEF RequiredBy, FieldSet, FieldsOf, Limited
<1> QED
  BY <1>1, <1>2, <1>3, <1>4 DEF Entities

LEMMA AcceptedRowIsComplete == ColumnsInv => AcceptedIsComplete
<1> DEFINE e == csvFile.entity
           cells == csvLine.cells
<1> SUFFICES ASSUME ColumnsInv, csvLine.read, csvLine.data
             PROVE  /\ \A f \in RequiredBy(e) :
                         \/ \E h \in ColumnsFor(f) : cells[h] \notin {"blank", "long"}
                         \/ f = "lastName" /\ \E h \in ColumnsFor("firstName") : cells[h] = "two"
                    /\ e = "note" =>
                         \E h \in ColumnsFor("dealExternalId") \cup ColumnsFor("dealTitle") :
                           cells[h] # "blank"
  BY DEF AcceptedIsComplete
<1>1. e \in Entities /\ RowAccepted(e, cells)
  BY DEF ColumnsInv
<1>2. ASSUME NEW f \in RequiredBy(e)
      PROVE  \/ \E h \in ColumnsFor(f) : cells[h] \notin {"blank", "long"}
             \/ f = "lastName" /\ \E h \in ColumnsFor("firstName") : cells[h] = "two"
  <2>1. ValueOf(cells, f) \notin {"blank", "long"}
    BY <1>1, RequiredAreFields DEF RowAccepted, MissingIn, TooLong
  <2>2. CASE f \in {"firstName", "lastName"} /\ Splits(cells)
    <3>1. \E h \in ColumnsFor("firstName") : cells[h] = "two"
      BY <2>2, CellIsRead DEF Splits
    <3> QED
      BY <2>2, <3>1
  <2>3. CASE ~(f \in {"firstName", "lastName"} /\ Splits(cells))
    <3>1. CellOf(cells, f) = ValueOf(cells, f)
      BY <2>1, <2>3 DEF ValueOf
    <3> QED
      BY <2>1, <3>1, CellIsRead
  <2> QED
    BY <2>2, <2>3
<1>3. ASSUME e = "note"
      PROVE  \E h \in ColumnsFor("dealExternalId") \cup ColumnsFor("dealTitle") : cells[h] # "blank"
  <2>1. PICK f \in {"dealExternalId", "dealTitle"} : ValueOf(cells, f) # "blank"
    BY <1>1, <1>3 DEF RowAccepted, NoDealRef
  <2>2. CellOf(cells, f) # "blank"
    BY <2>1 DEF ValueOf, Refused
  <2> QED
    BY <2>1, <2>2, CellIsRead
<1> QED
  BY <1>2, <1>3

LEMMA DroppedRowIsReported == ColumnsInv => DroppedIsReported
BY DEF ColumnsInv, DroppedIsReported, RowAccepted, Flaws

---------------------------------------------------------------------------
LEMMA ColumnsStep == ColumnsInv /\ [ColumnsNext]_columnVars => ColumnsInv'
<1> SUFFICES ASSUME ColumnsInv, [ColumnsNext]_columnVars
             PROVE  ColumnsInv'
  OBVIOUS
<1>1. ASSUME UploadColumns
      PROVE  ColumnsInv'
  <2>1. PICK e \in Entities : UploadPreset(e) \/ UploadPlain(e)
    BY <1>1 DEF UploadColumns
  <2>2. ~csvLine.read /\ csvLine' = csvLine
    BY <1>1 DEF UploadColumns, ColumnsInv
  <2>3. CASE UploadPreset(e)
    <3>1. /\ csvFile' = [phase |-> "mapped", entity |-> e, by |-> "preset"]
          /\ fieldOf' \in [Headers -> FieldSet(e) \cup {Unmapped}]
      BY <2>3 DEF UploadPreset, PresetFor
    <3> QED
      BY <2>1, <2>2, <3>1 DEF ColumnsInv
  <2>4. CASE UploadPlain(e)
    <3>1. PICK scores \in [Headers -> [Indices(e) -> Confidences]] :
            /\ fieldOf' = SuggestMapping(e, scores)
            /\ csvFile' = [phase |-> "mapped", entity |-> e, by |-> "headers", scores |-> scores]
      BY <2>4 DEF UploadPlain, Indices
    <3>2. scores \in [Headers -> [Indices(e) -> 0..100]]
      BY ColumnsAssumption
    <3>3. /\ csvFile'.phase = "mapped" /\ csvFile'.entity = e /\ csvFile'.by = "headers"
          /\ csvFile'.scores = scores
      BY <3>1
    <3>4. fieldOf' = SuggestMapping(csvFile'.entity, csvFile'.scores)
      BY <3>1, <3>3
    <3>5. SuggestMapping(csvFile.entity, csvFile.scores)' = SuggestMapping(csvFile'.entity, csvFile'.scores)
      BY DEF SuggestMapping, Taken, Candidate, Ahead, Confidence, BestIndex, FieldsOf
    <3> QED
      BY <2>1, <2>2, <3>2, <3>3, <3>4, <3>5 DEF ColumnsInv, Indices
  <2> QED
    BY <2>1, <2>3, <2>4
<1>2. ASSUME Remap
      PROVE  ColumnsInv'
  BY <1>2 DEF Remap, ColumnsInv
<1>3. ASSUME ValidateRow
      PROVE  ColumnsInv'
  <2>1. PICK cells : csvLine' = [read |-> TRUE, cells |-> cells,
                                 data |-> RowAccepted(csvFile.entity, cells),
                                 errors |-> Flaws(csvFile.entity, cells)]
    BY <1>3 DEF ValidateRow
  <2>2. csvFile' = csvFile /\ fieldOf' = fieldOf /\ csvFile.phase = "edited"
    BY <1>3 DEF ValidateRow
  <2>3. /\ RowAccepted(csvFile.entity, csvLine.cells)' = RowAccepted(csvFile.entity, cells)
        /\ Flaws(csvFile.entity, csvLine.cells)' = Flaws(csvFile.entity, cells)
    BY <2>1, <2>2 DEF RowAccepted, Flaws, TooLong, MissingIn, NoDealRef, Refused, ValueOf, Splits,
       CellOf, ColumnsFor
  <2> QED
    BY <2>1, <2>2, <2>3 DEF ColumnsInv
<1>4. ASSUME UNCHANGED columnVars
      PROVE  ColumnsInv'
  <2>1. csvFile' = csvFile /\ fieldOf' = fieldOf /\ csvLine' = csvLine
    BY <1>4 DEF columnVars
  <2>2. /\ RowAccepted(csvFile.entity, csvLine.cells)' = RowAccepted(csvFile.entity, csvLine.cells)
        /\ Flaws(csvFile.entity, csvLine.cells)' = Flaws(csvFile.entity, csvLine.cells)
    BY <2>1 DEF RowAccepted, Flaws, TooLong, MissingIn, NoDealRef, Refused, ValueOf, Splits,
       CellOf, ColumnsFor
  <2> QED
    BY <2>1, <2>2 DEF ColumnsInv
<1> QED
  BY <1>1, <1>2, <1>3, <1>4 DEF ColumnsNext

\* For every file and mapping: a field is suggested for one column, the one
\* the scores are surest of; no preset maps a column to another entity's
\* field; a row that passes has its required values, from whichever of its
\* columns; one that does not pass is reported (suggestMapping, detectPreset
\* and the row validators).
THEOREM ColumnsAreKept == ColumnsSpec => []ColumnsAndCellsKept
<1>1. ColumnsInit => ColumnsInv
  BY DEF ColumnsInit, ColumnsInv
<1>2. ColumnsInv => ColumnsAndCellsKept
  BY SuggestionsAreStrongest, SuggestionsKeepToEntity, AcceptedRowIsComplete, DroppedRowIsReported
  DEF ColumnsAndCellsKept
<1> QED
  BY <1>1, <1>2, ColumnsStep, PTL DEF ColumnsSpec

-----------------------------------------------------------------------------
(***************************************************************************)
(* The rows of an import and the records they become.                      *)
(***************************************************************************)

RowKinds == {"company", "contact", "deal", "note"}
Caches == [ext : [Idents -> ParentSlots \cup {None}], name : [RowKeys -> ParentSlots \cup {None}],
           dead : SUBSET RowKeys]

RowTypes ==
  /\ kind \in RowKinds \cup {"none"}
  /\ kind # "none" => file \in [Lines -> RowShapes]
  /\ kind = "none" => turn = 0 /\ cache = NoCache
  /\ book \in [RecordSlots -> BookRows \cup {None}]
  /\ parents \in [ParentSlots -> ParentRows \cup {None}]
  /\ cache \in Caches
  /\ turn \in 0..2 /\ edits \in Nat /\ line \in 1..(CsvRows + 1)
  /\ stage \in {"idle", "resolve", "find", "write"}
  /\ stage # "idle" => turn \in Turns /\ line \in Lines /\ kind \in RowKinds
  /\ placed \in [Turns -> [Lines -> RecordSlots \cup {None}]]
  /\ made \in [Turns -> SUBSET Lines] /\ erred \in [Turns -> SUBSET Lines]
  /\ under \in ParentSlots \cup {None}
  /\ under # None => stage \in {"find", "write"}
  /\ foreseen \in SUBSET Lines

\* What a row's lookup decided still stands when the row is written, unless
\* users edited records meanwhile; and a stamped deal had no identity.
PlanStands ==
  stage = "write" =>
    /\ plan.op \in {"update", "stamp", "create", "ambiguous"}
    /\ plan.op = "stamp" => /\ kind = "deal" /\ plan.at \in RecordSlots
                            /\ Held(plan.at) => book[plan.at].ext = None
    /\ edits = 0 => plan \in Lookup

ById == kind \in {"deal", "note"}

\* Nothing is made or placed by an import that has not started.
FutureEmpty ==
  /\ \A t \in Turns : t > turn => made[t] = {} /\ \A i \in Lines : placed[t][i] = None
  /\ turn = 0 => foreseen = {}

\* With no edits by users, records stay, under the identity of the deals and
\* notes written to them, and foreseen ones are there.
PlacesHeld ==
  edits = 0 =>
    /\ \A t \in Turns, i \in Lines : placed[t][i] # None =>
         /\ Held(placed[t][i])
         /\ ById /\ file[i].ext # None => book[placed[t][i]].ext = file[i].ext
    /\ ById => \A i \in foreseen :
         file[i].ext # None /\ \E s \in RecordSlots : Held(s) /\ book[s].ext = file[i].ext

\* What a run remembers of deals is so.
CacheTrue ==
  kind = "note" =>
    /\ \A x \in Idents : cache.ext[x] # None =>
         Known(cache.ext[x]) /\ parents[cache.ext[x]].ext = x
    /\ \A k \in RowKeys : cache.name[k] # None =>
         Known(cache.name[k]) /\ parents[cache.name[k]].ext = None

\* The rows before the line in progress are accounted for.
LinesDone ==
  StageMapped /\ turn > 0 =>
    /\ \A t \in Turns, i \in Lines :
         t < turn \/ (t = turn /\ (i < line \/ i \notin Validated))
           => placed[t][i] # None \/ i \in erred[t]
    /\ stage = "idle" => line = CsvRows + 1

RowsInv ==
  /\ RowTypes /\ PlanStands /\ FutureEmpty /\ PlacesHeld /\ CacheTrue /\ LinesDone
  /\ ForeseenIsUpdated /\ ReimportCreatesNothing /\ NoteUnderItsDeal

---------------------------------------------------------------------------
\* NextLine skips the rows the validators dropped and no other.
LEMMA NextLineSkips ==
  ASSUME NEW i \in 0..CsvRows
  PROVE  /\ NextLine(i) \in (i + 1)..(CsvRows + 1)
         /\ \A j \in Lines : i < j /\ j < NextLine(i) => j \notin Validated
         /\ StepAt(NextLine(i)) \in {"idle", "resolve"}
         /\ StepAt(NextLine(i)) = "idle" <=> NextLine(i) = CsvRows + 1
<1> USE ImportRowsAssumption
<1> DEFINE T == {j \in Validated : j > i} \cup {CsvRows + 1}
<1>1. T \in SUBSET Nat /\ T # {}
  BY DEF Validated, Lines
<1>2. PICK n \in T : \A m \in T : n <= m
  BY <1>1, LeastNat
<1>3. NextLine(i) \in T /\ \A m \in T : NextLine(i) <= m
  BY <1>2 DEF NextLine, Min
<1>4. \A j \in T : j \in (i + 1)..(CsvRows + 1)
  BY DEF Validated, Lines
<1>5. \A j \in Lines : i < j /\ j \in Validated => j \in T
  BY DEF Lines
<1>6. \A j \in Lines : i < j /\ j < NextLine(i) => j \notin Validated
  <2> SUFFICES ASSUME NEW j \in Lines, i < j, j < NextLine(i), j \in Validated
               PROVE  FALSE
    OBVIOUS
  <2>1. NextLine(i) <= j
    BY <1>3, <1>5
  <2>2. j \in Nat /\ NextLine(i) \in Nat
    BY <1>1, <1>3 DEF Lines
  <2> QED
    BY <2>1, <2>2
<1>7. NextLine(i) \in (i + 1)..(CsvRows + 1)
  BY <1>3, <1>4
<1> QED
  BY <1>6, <1>7 DEF StepAt

\* The fields of a row of the file.
LEMMA RowFields ==
  ASSUME RowTypes, kind # "none", NEW i \in Lines
  PROVE  /\ file[i].ext \in Idents \cup {None} /\ file[i].key \in RowKeys \cup {None}
         /\ file[i].cell \in Cells \cup {None} /\ file[i].parentExt \in Idents \cup {None}
         /\ file[i].parentName \in RowKeys \cup {None}
<1>1. file[i] \in [ext : Idents \cup {None}, key : RowKeys \cup {None},
                   cell : Cells \cup {None}, parentExt : Idents \cup {None},
                   parentName : RowKeys \cup {None}, check : {"ok", "flawed", "rejected"}]
  BY ImportRowsAssumption DEF RowTypes
<1> QED
  BY <1>1

\* A record written by an import is one, with the row's identity or its own.
LEMMA WrittenRows ==
  ASSUME RowTypes, stage = "write"
  PROVE  /\ Fresh \in BookRows /\ Fresh.ext = Row.ext
         /\ \A s \in RecordSlots : Held(s) =>
              Merged(s) \in BookRows /\ Merged(s).ext = IdentAfter(s)
<1>1. /\ Row.ext \in Idents \cup {None} /\ Row.key \in RowKeys \cup {None}
      /\ Row.cell \in Cells \cup {None} /\ under \in ParentSlots \cup {None}
  BY RowFields DEF RowTypes, RowKinds, Row
<1>2. Fresh \in BookRows /\ Fresh.ext = Row.ext
  BY <1>1 DEF Fresh, BookRows
<1>3. ASSUME NEW s \in RecordSlots, Held(s)
      PROVE  Merged(s) \in BookRows /\ Merged(s).ext = IdentAfter(s)
  <2>1. book[s] \in BookRows
    BY <1>3 DEF Held, RowTypes
  <2>2. IdentAfter(s) \in Idents \cup {None}
    BY <1>1, <2>1 DEF IdentAfter, BookRows
  <2> QED
    BY <1>1, <2>1, <2>2 DEF Merged, BookRows
<1> QED
  BY <1>2, <1>3

---------------------------------------------------------------------------
(* The shapes of steps.                                                    *)

\* The end of a row: its place, whether it made its record, whether it failed.
LEMMA FinishTypes ==
  ASSUME RowTypes, stage # "idle", NEW at \in RecordSlots \cup {None},
         NEW created \in BOOLEAN, NEW failed \in BOOLEAN, Finish(at, created, failed)
  PROVE  /\ placed' \in [Turns -> [Lines -> RecordSlots \cup {None}]]
         /\ made' \in [Turns -> SUBSET Lines] /\ erred' \in [Turns -> SUBSET Lines]
         /\ line' \in 1..(CsvRows + 1) /\ line' = NextLine(line) /\ line < line'
         /\ stage' \in {"idle", "resolve"} /\ (stage' = "idle" <=> line' = CsvRows + 1)
         /\ under' = None
         /\ \A t \in Turns, i \in Lines :
              /\ t # turn \/ i # line => placed'[t][i] = placed[t][i]
              /\ t # turn => made'[t] = made[t]
              /\ i \in erred[t] => i \in erred'[t]
         /\ placed'[turn][line] = at
         /\ made'[turn] = IF created THEN made[turn] \cup {line} ELSE made[turn]
         /\ failed => line \in erred'[turn]
<1> USE ImportRowsAssumption
<1>1. turn \in Turns /\ line \in Lines /\ line \in 0..CsvRows /\ line \in Nat
  BY DEF RowTypes, Lines
<1>2. /\ line' = NextLine(line) /\ stage' = StepAt(NextLine(line)) /\ under' = None
      /\ placed' = [placed EXCEPT ![turn][line] = at]
      /\ made' = [made EXCEPT ![turn] = IF created THEN made[turn] \cup {line} ELSE made[turn]]
      /\ erred' = [erred EXCEPT ![turn] = IF failed THEN erred[turn] \cup {line} ELSE erred[turn]]
  BY DEF Finish, RowTypes
<1>3. line' \in (line + 1)..(CsvRows + 1)
      /\ stage' \in {"idle", "resolve"} /\ (stage' = "idle" <=> line' = CsvRows + 1)
  BY <1>1, <1>2, NextLineSkips
<1>4. line' \in 1..(CsvRows + 1) /\ line < line'
  BY <1>1, <1>3
<1>5. /\ placed' \in [Turns -> [Lines -> RecordSlots \cup {None}]]
      /\ placed'[turn][line] = at
      /\ \A t \in Turns, i \in Lines : t # turn \/ i # line => placed'[t][i] = placed[t][i]
  BY <1>1, <1>2 DEF RowTypes
<1>6. /\ made' \in [Turns -> SUBSET Lines]
      /\ \A t \in Turns : t # turn => made'[t] = made[t]
      /\ made'[turn] = IF created THEN made[turn] \cup {line} ELSE made[turn]
  BY <1>1, <1>2 DEF RowTypes
<1>7. /\ erred' \in [Turns -> SUBSET Lines]
      /\ \A t \in Turns, i \in Lines : i \in erred[t] => i \in erred'[t]
      /\ failed => line \in erred'[turn]
  BY <1>1, <1>2 DEF RowTypes
<1> QED
  BY <1>2, <1>3, <1>4, <1>5, <1>6, <1>7

\* A row that ends is accounted for, and so are those its successor skips.
LEMMA FinishLines ==
  ASSUME RowTypes, LinesDone, stage # "idle", NEW at \in RecordSlots \cup {None},
         NEW created \in BOOLEAN, NEW failed \in BOOLEAN, Finish(at, created, failed),
         at # None \/ failed, UNCHANGED <<kind, file, stages, turn>>
  PROVE  LinesDone'
<1> USE ImportRowsAssumption
<1>1. /\ turn \in Turns /\ line \in Lines /\ line \in 0..CsvRows
      /\ line' = NextLine(line) /\ line < line' /\ line' \in 1..(CsvRows + 1)
      /\ stage' = "idle" <=> line' = CsvRows + 1
      /\ \A t \in Turns, i \in Lines :
           /\ t # turn \/ i # line => placed'[t][i] = placed[t][i]
           /\ i \in erred[t] => i \in erred'[t]
      /\ placed'[turn][line] = at
      /\ failed => line \in erred'[turn]
  BY FinishTypes DEF RowTypes, Lines
<1>2. \A j \in Lines : line < j /\ j < line' => j \notin Validated
  BY <1>1, NextLineSkips
<1>3. StageMapped' = StageMapped /\ Validated' = Validated
  BY DEF StageMapped, Validated
<1>4. turn > 0
  BY <1>1 DEF Turns
<1>5. ASSUME StageMapped, NEW t \in Turns, NEW i \in Lines,
             t < turn \/ (t = turn /\ (i < line' \/ i \notin Validated))
      PROVE  placed'[t][i] # None \/ i \in erred'[t]
  <2>1. CASE t = turn /\ i = line
    BY <1>1, <2>1
  <2>2. CASE t # turn \/ i # line
    <3>1. t < turn \/ (t = turn /\ (i < line \/ i \notin Validated))
      <4>1. i \in Nat /\ line \in Nat /\ line' \in Nat
        BY <1>1 DEF Lines
      <4>2. t = turn => i < line \/ line < i
        BY <2>2, <4>1
      <4>3. CASE t = turn /\ i < line'
        <5>1. line < i => i \notin Validated
          BY <1>2, <4>3
        <5> QED
          BY <4>2, <4>3, <5>1
      <4>4. CASE t < turn \/ (t = turn /\ i \notin Validated)
        BY <4>4
      <4>5. \/ t < turn
            \/ t = turn /\ i < line'
            \/ t = turn /\ i \notin Validated
        BY <1>5
      <4> QED
        BY <4>3, <4>4, <4>5
    <3>2. placed[t][i] # None \/ i \in erred[t]
      BY <1>4, <1>5, <3>1 DEF LinesDone
    <3> QED
      BY <1>1, <2>2, <3>2
  <2> QED
    BY <2>1, <2>2
<1> QED
  BY <1>1, <1>3, <1>5 DEF LinesDone

\* A row that made nothing foreseen and found its record by its identity
\* keeps what the two imports made consistent.
LEMMA FinishMade ==
  ASSUME RowsInv, stage # "idle", NEW at \in RecordSlots \cup {None},
         NEW created \in BOOLEAN, NEW failed \in BOOLEAN, Finish(at, created, failed),
         UNCHANGED <<kind, file, stages, turn, foreseen, edits>>,
         edits = 0 =>
           /\ \A s \in RecordSlots : Held(s) =>
                /\ book'[s] # None
                /\ book'[s].ext = book[s].ext \/ (kind = "deal" /\ book[s].ext = None)
           /\ at # None => /\ book'[at] # None
                           /\ ById /\ Row.ext # None => book'[at].ext = Row.ext
           /\ created => WithIdent = {}
  PROVE  FutureEmpty' /\ PlacesHeld' /\ ForeseenIsUpdated' /\ ReimportCreatesNothing'
<1> USE ImportRowsAssumption DEF RowsInv
<1>0. turn \in Turns /\ line \in Lines /\ kind \in RowKinds
  BY DEF RowTypes
<1>1. /\ turn \in Turns /\ line \in Lines /\ kind \in RowKinds
      /\ made' \in [Turns -> SUBSET Lines]
      /\ \A t \in Turns, i \in Lines :
           /\ t # turn \/ i # line => placed'[t][i] = placed[t][i]
           /\ t # turn => made'[t] = made[t]
      /\ placed'[turn][line] = at
      /\ made'[turn] = IF created THEN made[turn] \cup {line} ELSE made[turn]
      /\ placed' \in [Turns -> [Lines -> RecordSlots \cup {None}]]
  BY <1>0, FinishTypes
<1>2. FutureEmpty'
  <2>1. \A t \in Turns : t > turn => t # turn
    BY DEF RowTypes, Turns
  <2>2. \A t \in Turns : t # turn => made'[t] = made[t]
    <3>1. line \in Lines
      BY <1>1
    <3> QED
      BY <1>1
  <2>3. turn # 0
    BY <1>0 DEF Turns
  <2> QED
    BY <1>1, <2>1, <2>2, <2>3 DEF FutureEmpty
<1>3. ById' = ById
  BY DEF ById
<1>4. PlacesHeld'
  <2> SUFFICES ASSUME edits = 0
               PROVE  /\ \A t \in Turns, i \in Lines : placed'[t][i] # None =>
                           /\ book'[placed'[t][i]] # None
                           /\ ById /\ file[i].ext # None => book'[placed'[t][i]].ext = file[i].ext
                      /\ ById => \A i \in foreseen :
                           /\ file[i].ext # None
                           /\ \E s \in RecordSlots : book'[s] # None /\ book'[s].ext = file[i].ext
    BY <1>3 DEF PlacesHeld, Held
  <2>1. ASSUME NEW t \in Turns, NEW i \in Lines, placed'[t][i] # None
        PROVE  /\ book'[placed'[t][i]] # None
               /\ ById /\ file[i].ext # None => book'[placed'[t][i]].ext = file[i].ext
    <3>1. CASE t = turn /\ i = line
      BY <1>1, <2>1, <3>1 DEF Row
    <3>2. CASE t # turn \/ i # line
      <4>1. placed'[t][i] = placed[t][i] /\ placed[t][i] \in RecordSlots
        BY <1>1, <2>1, <3>2 DEF RowTypes
      <4>2. /\ Held(placed[t][i])
            /\ ById /\ file[i].ext # None => book[placed[t][i]].ext = file[i].ext
        BY <2>1, <4>1 DEF PlacesHeld
      <4> QED
        BY <4>1, <4>2
    <3> QED
      BY <3>1, <3>2
  <2>2. ASSUME ById, NEW i \in foreseen
        PROVE  /\ file[i].ext # None
               /\ \E s \in RecordSlots : book'[s] # None /\ book'[s].ext = file[i].ext
    BY <2>2 DEF PlacesHeld
  <2> QED
    BY <2>1, <2>2
<1>5. ForeseenIsUpdated'
  <2> SUFFICES ASSUME kind \in {"deal", "note"}, edits = 0
               PROVE  made'[turn] \cap foreseen = {}
    BY DEF ForeseenIsUpdated
  <2>1. turn > 0
    BY <1>1 DEF Turns
  <2>2. made[turn] \cap foreseen = {}
    BY <2>1 DEF ForeseenIsUpdated
  <2>3. created => line \notin foreseen
    <3> SUFFICES ASSUME created, line \in foreseen PROVE FALSE
      OBVIOUS
    <3>1. PICK s \in RecordSlots : Held(s) /\ book[s].ext = Row.ext /\ Row.ext # None
      BY DEF PlacesHeld, ById, Row
    <3> QED
      BY <3>1 DEF WithIdent
  <2> QED
    BY <1>1, <2>2, <2>3
<1>6. ReimportCreatesNothing'
  <2> SUFFICES ASSUME edits = 0, NEW i \in made'[2]
               PROVE  \/ file[i].ext = None \/ placed'[1][i] = None
                      \/ kind \in {"company", "contact"} /\ book'[placed'[1][i]].ext # file[i].ext
    BY DEF ReimportCreatesNothing, BoundElsewhere
  <2>1. 1 \in Turns /\ 2 \in Turns /\ i \in Lines
    BY <1>1 DEF Turns
  <2>2. CASE turn = 1
    <3>1. made[2] = {} /\ made'[2] = made[2]
      BY <1>1, <2>1, <2>2 DEF FutureEmpty
    <3> QED
      BY <3>1
  <2>3. CASE turn = 2
    <3>1. placed'[1][i] = placed[1][i]
      BY <1>1, <2>1, <2>3
    <3>2. CASE i \in made[2]
      <4>1. \/ file[i].ext = None \/ placed[1][i] = None
            \/ kind \in {"company", "contact"} /\ book[placed[1][i]].ext # file[i].ext
        BY <3>2 DEF ReimportCreatesNothing, BoundElsewhere
      <4>2. placed[1][i] # None => placed[1][i] \in RecordSlots /\ Held(placed[1][i])
        BY <2>1 DEF PlacesHeld, RowTypes
      <4> QED
        BY <3>1, <4>1, <4>2
    <3>3. CASE i \notin made[2]
      <4>1. i = line /\ created /\ WithIdent = {}
        BY <1>1, <2>3, <3>3
      <4>2. ASSUME file[i].ext # None, placed[1][i] # None
            PROVE  /\ kind \in {"company", "contact"}
                   /\ book'[placed[1][i]].ext # file[i].ext
        <5>1. placed[1][i] \in RecordSlots /\ Held(placed[1][i])
          BY <2>1, <4>2 DEF PlacesHeld, RowTypes
        <5>2. book[placed[1][i]].ext # file[i].ext
          BY <4>1, <4>2, <5>1 DEF WithIdent, Row
        <5>3. ~ById
          BY <2>1, <4>2, <5>2 DEF PlacesHeld
        <5>4. kind \in {"company", "contact"}
          BY <1>1, <5>3 DEF ById, RowKinds
        <5> QED
          BY <5>1, <5>2, <5>4
      <4> QED
        BY <3>1, <4>2
    <3> QED
      BY <3>2, <3>3
  <2> QED
    BY <1>1, <2>2, <2>3 DEF Turns
<1> QED
  BY <1>2, <1>4, <1>5, <1>6

\* A step that writes no record and ends no row.
LEMMA SameMade ==
  ASSUME RowsInv, UNCHANGED <<kind, file, book, turn, placed, made, foreseen, edits>>
  PROVE  FutureEmpty' /\ PlacesHeld' /\ ForeseenIsUpdated' /\ ReimportCreatesNothing'
BY DEF RowsInv, FutureEmpty, PlacesHeld, ById, Held, ForeseenIsUpdated,
       ReimportCreatesNothing, BoundElsewhere

LEMMA SameLines ==
  ASSUME RowsInv, UNCHANGED <<kind, file, stages, turn, line, placed, erred>>,
         stage' # "idle"
  PROVE  LinesDone'
BY DEF RowsInv, LinesDone, StageMapped, Validated

\* Resolving a row to its parent, or to none.
LEMMA ToFindKeeps ==
  ASSUME RowsInv, stage = "resolve", NEW p \in ParentSlots \cup {None}, ToFind(p),
         UNCHANGED <<kind, file, stages, book, turn, foreseen, edits>>,
         cache' \in Caches, parents' \in [ParentSlots -> ParentRows \cup {None}],
         kind = "note" =>
           /\ parents' = parents /\ CacheTrue'
           /\ p # None => parents[p].ext \in {None, Row.parentExt}
  PROVE  RowsInv'
<1>1. /\ under' = p /\ stage' = "find"
      /\ UNCHANGED <<line, plan, placed, made, erred>>
  BY DEF ToFind
<1>2. RowTypes'
  BY <1>1 DEF RowsInv, RowTypes, RowKinds
<1>3. FutureEmpty' /\ PlacesHeld' /\ ForeseenIsUpdated' /\ ReimportCreatesNothing'
  BY <1>1, SameMade
<1>4. LinesDone'
  BY <1>1, SameLines
<1>5. PlanStands' /\ CacheTrue'
  BY <1>1 DEF PlanStands, CacheTrue
<1>6. NoteUnderItsDeal'
  BY <1>1 DEF NoteUnderItsDeal, Row
<1> QED
  BY <1>2, <1>3, <1>4, <1>5, <1>6 DEF RowsInv

\* What the caches remember is of their kind.
LEMMA Cached ==
  ASSUME RowsInv, stage = "resolve"
  PROVE  /\ CachedByExt \in ParentSlots \cup {None} /\ CachedByName \in ParentSlots \cup {None}
         /\ Row.parentExt \in Idents \cup {None} /\ Row.parentName \in RowKeys \cup {None}
<1>1. /\ Row.parentExt \in Idents \cup {None} /\ Row.parentName \in RowKeys \cup {None}
  BY RowFields DEF RowsInv, RowTypes, RowKinds, Row
<1>2. /\ cache.ext \in [Idents -> ParentSlots \cup {None}]
      /\ cache.name \in [RowKeys -> ParentSlots \cup {None}]
  BY DEF RowsInv, RowTypes, Caches
<1> QED
  BY <1>1, <1>2 DEF CachedByExt, CachedByName

LEMMA RememberType ==
  ASSUME RowsInv, stage = "resolve", NEW p \in ParentSlots
  PROVE  /\ Remember(p) \in Caches
         /\ \/ /\ p \in ParentsWith(Row.parentExt) /\ Row.parentExt \in Idents
               /\ Remember(p).ext = [cache.ext EXCEPT ![Row.parentExt] = p]
               /\ Remember(p).name = cache.name
            \/ /\ CachedByExt = None /\ p \notin ParentsWith(Row.parentExt)
               /\ Row.parentName \in RowKeys
               /\ Remember(p).ext = cache.ext
               /\ Remember(p).name = [cache.name EXCEPT ![Row.parentName] = p]
            \/ Remember(p) = cache
<1>1. cache \in Caches
  BY DEF RowsInv, RowTypes
<1>2. Row.parentExt \in Idents \cup {None} /\ Row.parentName \in RowKeys \cup {None}
  BY Cached
<1>3. CASE CachedByExt = None /\ p \in ParentsWith(Row.parentExt)
  <2>1. Row.parentExt \in Idents
    BY <1>2, <1>3 DEF ParentsWith
  <2>2. Remember(p) = [cache EXCEPT !.ext[Row.parentExt] = p]
    BY <1>3 DEF Remember
  <2> QED
    BY <1>1, <1>3, <2>1, <2>2 DEF Caches
<1>4. CASE /\ ~(CachedByExt = None /\ p \in ParentsWith(Row.parentExt))
           /\ CachedByExt = None /\ Row.parentName # None
  <2>1. Remember(p) = [cache EXCEPT !.name[Row.parentName] = p]
    BY <1>4 DEF Remember
  <2> QED
    BY <1>1, <1>2, <1>4, <2>1 DEF Caches
<1>5. CASE /\ ~(CachedByExt = None /\ p \in ParentsWith(Row.parentExt))
           /\ ~(CachedByExt = None /\ Row.parentName # None)
  BY <1>1, <1>5 DEF Remember
<1> QED
  BY <1>3, <1>4, <1>5

LEMMA ResolveNoneKeeps ==
  ASSUME RowsInv, ResolveNone
  PROVE  RowsInv'
<1>1. /\ stage = "resolve" /\ ToFind(None) /\ kind # "note"
      /\ UNCHANGED <<kind, file, stages, book, parents, cache, turn, foreseen, edits>>
  BY DEF ResolveNone
<1>2. cache' \in Caches /\ parents' \in [ParentSlots -> ParentRows \cup {None}]
  BY <1>1 DEF RowsInv, RowTypes
<1> QED
  BY <1>1, <1>2, ToFindKeeps

LEMMA ResolveCompanyKeeps ==
  ASSUME RowsInv, NEW p \in ParentSlots, ResolveCompany(p)
  PROVE  RowsInv'
<1>1. /\ stage = "resolve" /\ ToFind(p) /\ kind # "note" /\ cache' = Remember(p)
      /\ UNCHANGED <<kind, file, stages, book, parents, turn, foreseen, edits>>
  BY DEF ResolveCompany
<1>2. cache' \in Caches /\ parents' \in [ParentSlots -> ParentRows \cup {None}]
  BY <1>1, RememberType DEF RowsInv, RowTypes
<1> QED
  BY <1>1, <1>2, ToFindKeeps

LEMMA ResolveStubKeeps ==
  ASSUME RowsInv, NEW p \in ParentSlots, ResolveStub(p)
  PROVE  RowsInv'
<1>1. /\ stage = "resolve" /\ ToFind(p) /\ kind # "note" /\ Row.parentName # None
      /\ parents' = [parents EXCEPT ![p] = [ext |-> Row.parentExt, name |-> Row.parentName]]
      /\ cache' = [cache EXCEPT !.name[Row.parentName] = p,
                     !.ext = IF Row.parentExt = None THEN @ ELSE [@ EXCEPT ![Row.parentExt] = p]]
      /\ UNCHANGED <<kind, file, stages, book, turn, foreseen, edits>>
  BY DEF ResolveStub
<1>2. Row.parentExt \in Idents \cup {None} /\ Row.parentName \in RowKeys
  BY <1>1, Cached
<1>3. parents' \in [ParentSlots -> ParentRows \cup {None}]
  <2>1. [ext |-> Row.parentExt, name |-> Row.parentName] \in ParentRows
    BY <1>2 DEF ParentRows
  <2> QED
    BY <1>1, <2>1 DEF RowsInv, RowTypes
<1>4. cache' \in Caches
  <2>1. cache \in Caches
    BY DEF RowsInv, RowTypes
  <2>2. PICK exts \in [Idents -> ParentSlots \cup {None}] :
          exts = IF Row.parentExt = None THEN cache.ext ELSE [cache.ext EXCEPT ![Row.parentExt] = p]
    BY <1>2, <2>1 DEF Caches
  <2>3. PICK names \in [RowKeys -> ParentSlots \cup {None}] :
          names = [cache.name EXCEPT ![Row.parentName] = p]
    BY <1>2, <2>1 DEF Caches
  <2>4. cache' = [ext |-> exts, name |-> names, dead |-> cache.dead]
    BY <1>1, <2>1, <2>2, <2>3 DEF Caches
  <2> QED
    BY <2>1, <2>4 DEF Caches
<1> QED
  BY <1>1, <1>3, <1>4, ToFindKeeps

\* A note goes under the deal of its id, or under one nobody stamped.
LEMMA ResolveDealKeeps ==
  ASSUME RowsInv, NEW p \in ParentSlots, ResolveDeal(p)
  PROVE  RowsInv'
<1> USE ImportRowsAssumption
<1>1. /\ stage = "resolve" /\ ToFind(p) /\ kind = "note" /\ DealOfNote(p)
      /\ cache' = Remember(p)
      /\ UNCHANGED <<kind, file, stages, book, parents, turn, foreseen, edits>>
  BY DEF ResolveDeal
<1>2. cache' \in Caches /\ parents' \in [ParentSlots -> ParentRows \cup {None}]
  BY <1>1, RememberType DEF RowsInv, RowTypes
<1>3. /\ \A x \in Idents : cache.ext[x] # None =>
           Known(cache.ext[x]) /\ parents[cache.ext[x]].ext = x
      /\ \A k \in RowKeys : cache.name[k] # None =>
           Known(cache.name[k]) /\ parents[cache.name[k]].ext = None
  BY <1>1 DEF RowsInv, CacheTrue
<1>4. Row.parentExt \in Idents \cup {None} /\ Row.parentName \in RowKeys \cup {None} /\ p # None
  BY <1>1, Cached
<1>5. p = CachedByExt => Known(p) /\ parents[p].ext = Row.parentExt
  BY <1>3, <1>4 DEF CachedByExt
<1>6. p \in ParentsWith(Row.parentExt) => Known(p) /\ parents[p].ext = Row.parentExt
  BY DEF ParentsWith
<1>7. p = CachedByName => Known(p) /\ parents[p].ext = None
  BY <1>3, <1>4 DEF CachedByName
<1>8. DealTitled(Row.parentName) = {p} => Known(p) /\ parents[p].ext = None
  BY DEF DealTitled, ParentsNamed
<1>9. Known(p) /\ parents[p].ext \in {None, Row.parentExt}
  BY <1>1, <1>5, <1>6, <1>7, <1>8 DEF DealOfNote
<1>10. CachedByExt = None /\ p \notin ParentsWith(Row.parentExt) =>
         Known(p) /\ parents[p].ext = None
  BY <1>1, <1>4, <1>7, <1>8 DEF DealOfNote
<1>11. /\ \A x \in Idents : cache'.ext[x] # None =>
            Known(cache'.ext[x]) /\ parents[cache'.ext[x]].ext = x
       /\ \A k \in RowKeys : cache'.name[k] # None =>
            Known(cache'.name[k]) /\ parents[cache'.name[k]].ext = None
  <2>1. /\ cache.ext \in [Idents -> ParentSlots \cup {None}]
        /\ cache.name \in [RowKeys -> ParentSlots \cup {None}]
    BY DEF RowsInv, RowTypes, Caches
  <2>2. CASE /\ p \in ParentsWith(Row.parentExt) /\ Row.parentExt \in Idents
             /\ cache'.ext = [cache.ext EXCEPT ![Row.parentExt] = p]
             /\ cache'.name = cache.name
    BY <1>3, <1>6, <2>1, <2>2
  <2>3. CASE /\ CachedByExt = None /\ p \notin ParentsWith(Row.parentExt)
             /\ Row.parentName \in RowKeys
             /\ cache'.ext = cache.ext
             /\ cache'.name = [cache.name EXCEPT ![Row.parentName] = p]
    BY <1>3, <1>10, <2>1, <2>3
  <2>4. CASE cache' = cache
    BY <1>3, <2>4
  <2> QED
    BY <1>1, <2>2, <2>3, <2>4, RememberType
<1>12. CacheTrue'
  BY <1>1, <1>11 DEF CacheTrue, Known
<1> QED
  BY <1>1, <1>2, <1>9, <1>12, ToFindKeeps

\* A row in error ends; records and what was foreseen stay.
LEMMA RowFailsKeeps ==
  ASSUME RowsInv, stage # "idle", RowFails, cache' \in Caches,
         UNCHANGED <<kind, file, stages, book, parents, turn, foreseen, edits>>,
         cache'.ext = cache.ext, cache'.name = cache.name
  PROVE  RowsInv'
<1>1. Finish(None, FALSE, TRUE)
  BY DEF RowFails
<1>2. /\ RowTypes /\ LinesDone
      /\ turn \in Turns /\ line \in Lines
  BY DEF RowsInv, RowTypes
<1>3. /\ placed' \in [Turns -> [Lines -> RecordSlots \cup {None}]]
      /\ made' \in [Turns -> SUBSET Lines] /\ erred' \in [Turns -> SUBSET Lines]
      /\ line' \in 1..(CsvRows + 1) /\ stage' \in {"idle", "resolve"} /\ under' = None
      /\ stage' = "idle" <=> line' = CsvRows + 1
  BY <1>1, <1>2, FinishTypes
<1>4. RowTypes'
  <2>1. stage' # "idle" => line' \in Lines
    BY <1>3, ImportRowsAssumption DEF Lines
  <2> QED
    BY <1>3, <2>1 DEF RowsInv, RowTypes, RowKinds
<1>5. LinesDone'
  BY <1>1, <1>2, FinishLines
<1>6. FutureEmpty' /\ PlacesHeld' /\ ForeseenIsUpdated' /\ ReimportCreatesNothing'
  BY <1>1, FinishMade DEF Held
<1>7. PlanStands' /\ NoteUnderItsDeal'
  BY <1>3 DEF PlanStands, NoteUnderItsDeal
<1>8. CacheTrue'
  BY DEF RowsInv, CacheTrue, Known
<1> QED
  BY <1>4, <1>5, <1>6, <1>7, <1>8 DEF RowsInv

\* The note with no deal, and the statement that throws.
LEMMA ResolveNoDealKeeps ==
  ASSUME RowsInv, ResolveNoDeal
  PROVE  RowsInv'
<1>1. /\ stage # "idle" /\ RowFails
      /\ cache' = [cache EXCEPT !.dead = cache.dead \cup ({Row.parentName} \ {None})]
      /\ UNCHANGED <<kind, file, stages, book, parents, turn, foreseen, edits>>
  BY DEF ResolveNoDeal, RowsInv, RowTypes, Caches
<1>2. Row.parentName \in RowKeys \cup {None} /\ cache \in Caches
  BY Cached DEF ResolveNoDeal, RowsInv, RowTypes
<1>3. cache' \in Caches /\ cache'.ext = cache.ext /\ cache'.name = cache.name
  BY <1>1, <1>2 DEF Caches
<1> QED
  BY <1>1, <1>3, RowFailsKeeps

LEMMA WriteFailsKeeps ==
  ASSUME RowsInv, WriteFails
  PROVE  RowsInv'
<1>1. /\ stage # "idle" /\ RowFails
      /\ UNCHANGED <<kind, file, stages, book, parents, cache, turn, foreseen, edits>>
  BY DEF WriteFails
<1>2. cache' \in Caches
  BY <1>1 DEF RowsInv, RowTypes
<1> QED
  BY <1>1, <1>2, RowFailsKeeps

\* The lookup decides a plan that stands.
LEMMA FindKeeps ==
  ASSUME RowsInv, Find
  PROVE  RowsInv'
<1>1. /\ stage = "find" /\ plan' \in Lookup /\ stage' = "write"
      /\ UNCHANGED <<kind, file, stages, book, parents, cache, turn, foreseen, line, under,
                     placed, made, erred, edits>>
  BY DEF Find
<1>2. RowTypes'
  BY <1>1 DEF RowsInv, RowTypes
<1>3. FutureEmpty' /\ PlacesHeld' /\ ForeseenIsUpdated' /\ ReimportCreatesNothing'
  BY <1>1, SameMade
<1>4. LinesDone'
  BY <1>1, SameLines
<1>5. CacheTrue' /\ NoteUnderItsDeal'
  BY <1>1 DEF RowsInv, CacheTrue, Known, NoteUnderItsDeal, Row
<1>6. PICK q \in Lookup : plan' = q
  BY <1>1
<1>7. /\ q.op \in {"update", "stamp", "create", "ambiguous"}
      /\ q.op = "stamp" => /\ kind = "deal" /\ q.at \in RecordSlots
                           /\ Held(q.at) => book[q.at].ext = None
  BY DEF Lookup, Update, Unstamped, WithKey
<1>8. Lookup' = Lookup
  BY <1>1 DEF Lookup, Update, WithIdent, WithKey, Unstamped, Held, Row
<1>9. PlanStands'
  BY <1>1, <1>6, <1>7, <1>8 DEF PlanStands, Held
<1> QED
  BY <1>2, <1>3, <1>4, <1>5, <1>9 DEF RowsInv

\* A written row: the types and the lines that follow from its end.
LEMMA WriteEnds ==
  ASSUME RowsInv, stage = "write", NEW s \in RecordSlots, NEW r \in BookRows,
         NEW created \in BOOLEAN, book' = [book EXCEPT ![s] = r],
         Finish(s, created, FALSE),
         UNCHANGED <<kind, file, stages, parents, cache, turn, foreseen, edits>>
  PROVE  RowTypes' /\ PlanStands' /\ CacheTrue' /\ LinesDone' /\ NoteUnderItsDeal'
<1>1. /\ RowTypes /\ LinesDone /\ s # None
      /\ turn \in Turns /\ line \in Lines
  BY ImportRowsAssumption DEF RowsInv, RowTypes
<1>2. /\ placed' \in [Turns -> [Lines -> RecordSlots \cup {None}]]
      /\ made' \in [Turns -> SUBSET Lines] /\ erred' \in [Turns -> SUBSET Lines]
      /\ line' \in 1..(CsvRows + 1) /\ stage' \in {"idle", "resolve"} /\ under' = None
      /\ stage' = "idle" <=> line' = CsvRows + 1
  BY <1>1, FinishTypes
<1>3. RowTypes'
  <2>1. stage' # "idle" => line' \in Lines
    BY <1>2, ImportRowsAssumption DEF Lines
  <2>2. book' \in [RecordSlots -> BookRows \cup {None}]
    BY DEF RowsInv, RowTypes
  <2> QED
    BY <1>2, <2>1, <2>2 DEF RowsInv, RowTypes, RowKinds
<1>4. LinesDone'
  BY <1>1, FinishLines
<1>5. PlanStands' /\ NoteUnderItsDeal'
  BY <1>2 DEF PlanStands, NoteUnderItsDeal
<1>6. CacheTrue'
  BY DEF RowsInv, CacheTrue, Known
<1> QED
  BY <1>3, <1>4, <1>5, <1>6

\* An update keeps the identity of its record, or gives a deal its first one.
LEMMA UpdateKeepsIdentity ==
  ASSUME RowsInv, NEW s \in RecordSlots, WriteUpdate(s)
  PROVE  /\ Merged(s) \in BookRows
         /\ Merged(s).ext = book[s].ext \/ (kind = "deal" /\ book[s].ext = None)
         /\ edits = 0 /\ ById /\ Row.ext # None => Merged(s).ext = Row.ext
<1>1. /\ stage = "write" /\ plan.op \in {"update", "stamp"} /\ plan.at = s /\ Held(s)
  BY DEF WriteUpdate
<1>2. Merged(s) \in BookRows /\ Merged(s).ext = IdentAfter(s)
  BY <1>1, WrittenRows DEF RowsInv
<1>3. plan.op = "stamp" => kind = "deal" /\ book[s].ext = None
  BY <1>1 DEF RowsInv, PlanStands
<1>4. ASSUME edits = 0, ById, Row.ext # None
      PROVE  IdentAfter(s) = Row.ext
  <2>1. CASE plan.op = "stamp"
    BY <2>1 DEF IdentAfter
  <2>2. CASE plan.op = "update"
    <3>1. plan \in Lookup
      BY <1>1, <1>4 DEF RowsInv, PlanStands
    <3>2. kind \notin {"company", "contact"}
      BY <1>4 DEF ById
    <3>3. \E w \in WithIdent : plan = Update(w)
      BY <2>2, <3>1, <3>2 DEF Lookup
    <3>4. s \in WithIdent
      BY <1>1, <3>3 DEF Update
    <3> QED
      BY <2>2, <3>4 DEF IdentAfter, WithIdent
  <2> QED
    BY <1>1, <2>1, <2>2
<1> QED
  BY <1>1, <1>2, <1>3, <1>4 DEF IdentAfter

LEMMA WriteUpdateKeeps ==
  ASSUME RowsInv, NEW s \in RecordSlots, WriteUpdate(s)
  PROVE  RowsInv'
<1>1. PICK r \in BookRows : r = Merged(s)
  BY UpdateKeepsIdentity
<1>2. /\ stage = "write" /\ stage # "idle" /\ Held(s)
      /\ book' = [book EXCEPT ![s] = r] /\ Finish(s, FALSE, FALSE)
      /\ UNCHANGED <<kind, file, stages, parents, cache, turn, foreseen, edits>>
  BY <1>1 DEF WriteUpdate
<1>3. RowTypes' /\ PlanStands' /\ CacheTrue' /\ LinesDone' /\ NoteUnderItsDeal'
  BY <1>2, WriteEnds
<1>4. book'[s] = r /\ \A o \in RecordSlots : o # s => book'[o] = book[o]
  BY <1>2 DEF RowsInv, RowTypes
<1>5. /\ r # None
      /\ r.ext = book[s].ext \/ (kind = "deal" /\ book[s].ext = None)
      /\ edits = 0 /\ ById /\ Row.ext # None => r.ext = Row.ext
  BY <1>1, UpdateKeepsIdentity, ImportRowsAssumption
<1>6. \A o \in RecordSlots : Held(o) =>
        /\ book'[o] # None
        /\ book'[o].ext = book[o].ext \/ (kind = "deal" /\ book[o].ext = None)
  BY <1>4, <1>5 DEF Held
<1>7. edits = 0 =>
        /\ \A o \in RecordSlots : Held(o) =>
             /\ book'[o] # None
             /\ book'[o].ext = book[o].ext \/ (kind = "deal" /\ book[o].ext = None)
        /\ s # None => /\ book'[s] # None
                       /\ ById /\ Row.ext # None => book'[s].ext = Row.ext
        /\ FALSE => WithIdent = {}
  BY <1>4, <1>5, <1>6
<1>8. FutureEmpty' /\ PlacesHeld' /\ ForeseenIsUpdated' /\ ReimportCreatesNothing'
  BY <1>2, <1>7, FinishMade
<1> QED
  BY <1>3, <1>8 DEF RowsInv

\* A row creates its record only when nobody has its id.
LEMMA WriteCreateKeeps ==
  ASSUME RowsInv, NEW s \in RecordSlots, WriteCreate(s)
  PROVE  RowsInv'
<1>1. PICK r \in BookRows : r = Fresh /\ r.ext = Row.ext
  BY WrittenRows DEF WriteCreate, RowsInv
<1>2. /\ stage = "write" /\ stage # "idle" /\ ~Held(s) /\ plan.op = "create"
      /\ book' = [book EXCEPT ![s] = r] /\ Finish(s, TRUE, FALSE)
      /\ UNCHANGED <<kind, file, stages, parents, cache, turn, foreseen, edits>>
  BY <1>1 DEF WriteCreate
<1>3. RowTypes' /\ PlanStands' /\ CacheTrue' /\ LinesDone' /\ NoteUnderItsDeal'
  BY <1>2, WriteEnds
<1>4. book'[s] = r /\ (\A o \in RecordSlots : o # s => book'[o] = book[o]) /\ r # None
  BY <1>2, ImportRowsAssumption DEF RowsInv, RowTypes
<1>5. edits = 0 => WithIdent = {}
  BY <1>2 DEF RowsInv, PlanStands, Lookup, Update
<1>6. edits = 0 =>
        /\ \A o \in RecordSlots : Held(o) =>
             /\ book'[o] # None
             /\ book'[o].ext = book[o].ext \/ (kind = "deal" /\ book[o].ext = None)
        /\ s # None => /\ book'[s] # None
                       /\ ById /\ Row.ext # None => book'[s].ext = Row.ext
        /\ TRUE => WithIdent = {}
  BY <1>1, <1>2, <1>4, <1>5 DEF Held
<1>7. FutureEmpty' /\ PlacesHeld' /\ ForeseenIsUpdated' /\ ReimportCreatesNothing'
  BY <1>2, <1>6, FinishMade
<1> QED
  BY <1>3, <1>7 DEF RowsInv

\* A user's edit ends what is only promised without edits.
LEMMA HandKeeps ==
  ASSUME RowsInv, NEW s \in RecordSlots, NEW r \in BookRows \cup {None},
         r # None => r.ext = None, book' = [book EXCEPT ![s] = r], edits' = edits + 1,
         UNCHANGED <<kind, file, stages, parents, cache, turn, foreseen, line, stage, under,
                     plan, placed, made, erred>>
  PROVE  RowsInv'
<1>1. edits' \in Nat /\ edits' # 0
  BY DEF RowsInv, RowTypes
<1>2. /\ book' \in [RecordSlots -> BookRows \cup {None}]
      /\ book'[s] = r /\ \A o \in RecordSlots : o # s => book'[o] = book[o]
  BY DEF RowsInv, RowTypes
<1>3. RowTypes'
  BY <1>1, <1>2 DEF RowsInv, RowTypes
<1>4. PlacesHeld' /\ ForeseenIsUpdated' /\ ReimportCreatesNothing'
  BY <1>1 DEF PlacesHeld, ForeseenIsUpdated, ReimportCreatesNothing
<1>5. PlanStands'
  BY <1>1, <1>2 DEF RowsInv, PlanStands, Held
<1>6. FutureEmpty' /\ CacheTrue' /\ LinesDone'
  BY DEF RowsInv, FutureEmpty, CacheTrue, Known, LinesDone, StageMapped, Validated
<1>7. NoteUnderItsDeal'
  BY DEF RowsInv, NoteUnderItsDeal, Known, Row
<1> QED
  BY <1>3, <1>4, <1>5, <1>6, <1>7 DEF RowsInv

LEMMA HandCreateKeeps ==
  ASSUME RowsInv, NEW s \in RecordSlots, NEW k \in RowKeys, HandCreate(s, k)
  PROVE  RowsInv'
<1>1. PICK r \in BookRows : r = [ext |-> None, key |-> k, cell |-> None, under |-> None]
  BY DEF BookRows
<1> QED
  BY <1>1, HandKeeps DEF HandCreate

LEMMA HandDeleteKeeps ==
  ASSUME RowsInv, NEW s \in RecordSlots, HandDelete(s)
  PROVE  RowsInv'
BY HandKeeps DEF HandDelete

---------------------------------------------------------------------------
\* The file comes before any import of it.
LEMMA UploadFileKeeps ==
  ASSUME RowsInv, kind = "none", NEW k \in RowKinds, NEW rows \in [Lines -> RowShapes],
         NEW pick \in StageMaps, NEW existing \in ParentTables,
         UploadFile(k, rows, pick, existing)
  PROVE  RowsInv'
<1> USE ImportRowsAssumption
<1>1. /\ kind' = k /\ file' = rows /\ parents' = existing
      /\ UNCHANGED <<book, cache, turn, foreseen, line, stage, under, plan, placed, made,
                     erred, edits>>
  BY DEF UploadFile
<1>2. /\ turn = 0 /\ cache = NoCache /\ stage = "idle" /\ under = None /\ foreseen = {}
      /\ \A t \in Turns : made[t] = {} /\ \A i \in Lines : placed[t][i] = None
  <2>1. turn = 0 /\ cache = NoCache /\ stage = "idle"
    BY DEF RowsInv, RowTypes, RowKinds
  <2>2. under = None
    BY <2>1 DEF RowsInv, RowTypes
  <2>3. \A t \in Turns : t > turn
    BY <2>1 DEF Turns
  <2> QED
    BY <2>1, <2>2, <2>3 DEF RowsInv, FutureEmpty
<1>3. RowTypes'
  <2>1. parents' \in [ParentSlots -> ParentRows \cup {None}]
    BY <1>1
  <2>2. kind' \in RowKinds /\ kind' # "none" /\ file' \in [Lines -> RowShapes]
    BY <1>1 DEF RowKinds
  <2> QED
    BY <1>1, <1>2, <2>1, <2>2 DEF RowsInv, RowTypes
<1>4. PlanStands' /\ LinesDone' /\ NoteUnderItsDeal' /\ FutureEmpty'
  BY <1>1, <1>2 DEF PlanStands, LinesDone, NoteUnderItsDeal, FutureEmpty
<1>5. PlacesHeld' /\ ForeseenIsUpdated' /\ ReimportCreatesNothing'
  <2>1. 2 \in Turns
    BY DEF Turns
  <2> QED
    BY <1>1, <1>2, <2>1 DEF PlacesHeld, ForeseenIsUpdated, ReimportCreatesNothing
<1>6. CacheTrue'
  BY <1>1, <1>2 DEF CacheTrue, NoCache
<1> QED
  BY <1>3, <1>4, <1>5, <1>6 DEF RowsInv

LEMMA NoCacheTrue ==
  /\ NoCache \in Caches
  /\ \A x \in Idents : NoCache.ext[x] = None
  /\ \A k \in RowKeys : NoCache.name[k] = None
BY DEF NoCache, Caches

\* A run starts over a file whose earlier import has ended.
LEMMA StartRunKeeps ==
  ASSUME RowsInv, StartRun
  PROVE  RowsInv'
<1> USE ImportRowsAssumption
<1>1. PICK first : first = IF StageMapped THEN NextLine(0) ELSE CsvRows + 1
  OBVIOUS
<1>2. /\ kind # "none" /\ stage = "idle" /\ turn < 2 /\ turn' = turn + 1 /\ cache' = NoCache
      /\ erred' = [erred EXCEPT ![turn + 1] = {i \in Lines : file[i].check # "ok"}]
      /\ foreseen' = {i \in Validated : PredictMatch(i)}
      /\ line' = first /\ stage' = StepAt(first)
      /\ UNCHANGED <<kind, file, stages, book, parents, under, plan, placed, made, edits>>
  BY <1>1 DEF StartRun
<1>3. turn \in 0..1 /\ turn' \in Turns /\ kind \in RowKinds /\ under = None
  BY <1>2 DEF RowsInv, RowTypes, Turns
<1>4. /\ first \in 1..(CsvRows + 1) /\ stage' \in {"idle", "resolve"}
      /\ stage' = "idle" <=> first = CsvRows + 1
      /\ StageMapped => \A j \in Lines : j < first => j \notin Validated
  <2>1. 0 \in 0..CsvRows /\ CsvRows + 1 > CsvRows /\ CsvRows + 1 \in 1..(CsvRows + 1)
    OBVIOUS
  <2>2. CASE StageMapped
    <3>1. first = NextLine(0)
      BY <1>1, <2>2
    <3>2. \A j \in Lines : 0 < j
      BY DEF Lines
    <3> QED
      BY <1>2, <2>1, <3>1, <3>2, NextLineSkips
  <2>3. CASE ~StageMapped
    <3>1. first = CsvRows + 1
      BY <1>1, <2>3
    <3> QED
      BY <1>2, <2>1, <2>3, <3>1 DEF StepAt
  <2> QED
    BY <2>2, <2>3
<1>5. RowTypes'
  <2>1. erred' \in [Turns -> SUBSET Lines]
    BY <1>2, <1>3 DEF RowsInv, RowTypes
  <2>2. foreseen' \in SUBSET Lines
    BY <1>2 DEF Validated
  <2>3. stage' # "idle" => line' \in Lines
    BY <1>2, <1>4 DEF Lines
  <2>4. turn' \in 0..2
    BY <1>3 DEF Turns
  <2> QED
    BY <1>2, <1>3, <1>4, <2>1, <2>2, <2>3, <2>4, NoCacheTrue DEF RowsInv, RowTypes
<1>6. PlanStands' /\ NoteUnderItsDeal'
  BY <1>2, <1>3, <1>4 DEF PlanStands, NoteUnderItsDeal
<1>7. CacheTrue'
  BY <1>2, NoCacheTrue DEF CacheTrue
<1>8. FutureEmpty'
  <2>1. turn' # 0 /\ \A t \in Turns : t > turn' => t > turn
    BY <1>2, <1>3 DEF Turns
  <2> QED
    BY <1>2, <2>1 DEF RowsInv, FutureEmpty
<1>9. PlacesHeld'
  <2>1. ASSUME ById, NEW i \in foreseen'
        PROVE  /\ file[i].ext # None
               /\ \E s \in RecordSlots : Held(s) /\ book[s].ext = file[i].ext
    <3>1. PredictMatch(i) /\ kind \notin {"company", "contact"}
      BY <1>2, <2>1 DEF ById
    <3> QED
      BY <3>1 DEF PredictMatch
  <2> QED
    BY <1>2, <2>1 DEF RowsInv, PlacesHeld, ById, Held
<1>10. ForeseenIsUpdated' /\ ReimportCreatesNothing'
  <2>1. made'[turn'] = {}
    BY <1>2, <1>3 DEF RowsInv, FutureEmpty
  <2> QED
    BY <1>2, <2>1 DEF RowsInv, ForeseenIsUpdated, ReimportCreatesNothing, BoundElsewhere
<1>11. LinesDone'
  <2>1. StageMapped' = StageMapped /\ Validated' = Validated
    BY <1>2 DEF StageMapped, Validated
  <2>2. ASSUME StageMapped, NEW t \in Turns, NEW i \in Lines,
               t < turn' \/ (t = turn' /\ (i < line' \/ i \notin Validated))
        PROVE  placed'[t][i] # None \/ i \in erred'[t]
    <3>1. CASE t = turn'
      <4>1. ~(t < turn')
        BY <1>3, <3>1 DEF Turns
      <4>2. i < line' \/ i \notin Validated
        BY <2>2, <4>1
      <4>3. i \notin Validated
        BY <1>2, <1>4, <2>2, <4>2
      <4>4. erred'[turn + 1] = {j \in Lines : file[j].check # "ok"}
        BY <1>2, <1>3 DEF RowsInv, RowTypes
      <4> QED
        BY <1>2, <3>1, <4>3, <4>4 DEF Validated
    <3>2. CASE t < turn'
      <4>1. t <= turn /\ turn > 0 /\ t # turn + 1 /\ i < CsvRows + 1
        BY <1>2, <1>3, <3>2 DEF Turns, Lines
      <4>2. line = CsvRows + 1
        BY <1>2, <2>2, <4>1 DEF RowsInv, LinesDone
      <4>3. t < turn \/ (t = turn /\ i < line)
        BY <1>3, <4>1, <4>2 DEF Turns
      <4>4. placed[t][i] # None \/ i \in erred[t]
        BY <2>2, <4>1, <4>3 DEF RowsInv, LinesDone
      <4>5. erred'[t] = erred[t]
        BY <1>2, <1>3, <4>1 DEF RowsInv, RowTypes
      <4> QED
        BY <1>2, <4>4, <4>5
    <3> QED
      BY <2>2, <3>1, <3>2
  <2>3. stage' = "idle" => line' = CsvRows + 1
    BY <1>2, <1>4
  <2> QED
    BY <2>1, <2>2, <2>3 DEF LinesDone
<1> QED
  BY <1>5, <1>6, <1>7, <1>8, <1>9, <1>10, <1>11 DEF RowsInv

LEMMA InitRows == RowsInit => RowsInv
<1> SUFFICES ASSUME RowsInit PROVE RowsInv
  OBVIOUS
<1> USE ImportRowsAssumption
<1>1. /\ kind = "none" /\ book = [s \in RecordSlots |-> None] /\ under = None
      /\ parents = [p \in ParentSlots |-> None] /\ cache = NoCache /\ turn = 0 /\ line = 1
      /\ stage = "idle" /\ placed = [t \in Turns |-> [i \in Lines |-> None]]
      /\ made = [t \in Turns |-> {}] /\ erred = [t \in Turns |-> {}]
      /\ foreseen = {} /\ edits = 0
  BY DEF RowsInit
<1>2. RowTypes
  BY <1>1, NoCacheTrue DEF RowTypes
<1>3. PlanStands /\ FutureEmpty /\ LinesDone /\ NoteUnderItsDeal
  BY <1>1 DEF PlanStands, FutureEmpty, LinesDone, NoteUnderItsDeal
<1>4. PlacesHeld /\ CacheTrue /\ ForeseenIsUpdated
  BY <1>1 DEF PlacesHeld, CacheTrue, ForeseenIsUpdated
<1>5. ReimportCreatesNothing
  <2>1. 2 \in Turns
    BY DEF Turns
  <2> QED
    BY <1>1, <2>1 DEF ReimportCreatesNothing
<1> QED
  BY <1>2, <1>3, <1>4, <1>5 DEF RowsInv

LEMMA StepRows ==
  ASSUME RowsInv, [RowsNext]_rowVars
  PROVE  RowsInv'
<1>1. CASE UNCHANGED rowVars
  <2>1. UNCHANGED <<kind, file, stages, book, parents, cache, turn, line, stage, under,
                    plan, placed, made, erred, foreseen, edits>>
    BY <1>1 DEF rowVars
  <2>2. FutureEmpty' /\ PlacesHeld' /\ ForeseenIsUpdated' /\ ReimportCreatesNothing'
    BY <2>1, SameMade
  <2>3. RowTypes' /\ LinesDone' /\ CacheTrue' /\ NoteUnderItsDeal'
    BY <2>1 DEF RowsInv, RowTypes, LinesDone, StageMapped, Validated, CacheTrue, Known,
                NoteUnderItsDeal, Row
  <2>4. Lookup' = Lookup
    BY <2>1 DEF Lookup, Update, WithIdent, WithKey, Unstamped, Held, Row
  <2>5. PlanStands'
    BY <2>1, <2>4 DEF RowsInv, PlanStands, Held
  <2> QED
    BY <2>2, <2>3, <2>5 DEF RowsInv
<1>2. ASSUME NEW k \in {"company", "contact", "deal", "note"}, NEW rows \in [Lines -> RowShapes],
             NEW pick \in StageMaps, NEW existing \in ParentTables,
             kind = "none", UploadFile(k, rows, pick, existing)
      PROVE  RowsInv'
  BY <1>2, UploadFileKeeps DEF RowKinds
<1>3. CASE StartRun
  BY <1>3, StartRunKeeps
<1>4. CASE ResolveNone \/ ResolveNoDeal
  BY <1>4, ResolveNoneKeeps, ResolveNoDealKeeps
<1>5. CASE Find \/ WriteFails
  BY <1>5, FindKeeps, WriteFailsKeeps
<1>6. ASSUME NEW p \in ParentSlots, ResolveCompany(p) \/ ResolveStub(p) \/ ResolveDeal(p)
      PROVE  RowsInv'
  BY <1>6, ResolveCompanyKeeps, ResolveStubKeeps, ResolveDealKeeps
<1>7. ASSUME NEW s \in RecordSlots, WriteUpdate(s) \/ WriteCreate(s) \/ HandDelete(s)
      PROVE  RowsInv'
  BY <1>7, WriteUpdateKeeps, WriteCreateKeeps, HandDeleteKeeps
<1>8. ASSUME NEW s \in RecordSlots, NEW k \in RowKeys, HandCreate(s, k)
      PROVE  RowsInv'
  BY <1>8, HandCreateKeeps
<1> QED
  BY <1>1, <1>2, <1>3, <1>4, <1>5, <1>6, <1>7, <1>8 DEF RowsNext

\* Once all lines are passed every row is in a record or in the report.
LEMMA AllAccounted ==
  ASSUME RowsInv
  PROVE  RowsAccounted
<1> SUFFICES ASSUME stage = "idle", StageMapped, NEW t \in 1 .. turn, NEW i \in Lines
             PROVE  placed[t][i] # None \/ i \in erred[t]
  BY DEF RowsAccounted
<1>1. turn \in 0..2 /\ CsvRows \in Nat
  BY ImportRowsAssumption DEF RowsInv, RowTypes
<1>2. turn > 0 /\ t \in Turns /\ (t < turn \/ t = turn)
  BY <1>1 DEF Turns
<1>3. line = CsvRows + 1
  BY <1>2 DEF RowsInv, LinesDone
<1>4. i < line
  BY <1>1, <1>3 DEF Lines
<1> QED
  BY <1>2, <1>4 DEF RowsInv, LinesDone

IdentityStays ==
  \A s \in RecordSlots : book[s] # None /\ book'[s] # None =>
    \/ book'[s].ext = book[s].ext
    \/ kind = "deal" /\ book[s].ext = None

LEMMA StepIdentity ==
  ASSUME RowsInv, [RowsNext]_rowVars
  PROVE  IdentityStays
<1>1. CASE UNCHANGED book
  BY <1>1 DEF IdentityStays
<1>2. ASSUME NEW s \in RecordSlots, WriteUpdate(s)
      PROVE  IdentityStays
  <2>1. PICK r \in BookRows : r = Merged(s)
    BY <1>2, UpdateKeepsIdentity
  <2>2. book' = [book EXCEPT ![s] = r]
    BY <1>2, <2>1 DEF WriteUpdate
  <2>3. r.ext = book[s].ext \/ (kind = "deal" /\ book[s].ext = None)
    BY <1>2, <2>1, UpdateKeepsIdentity
  <2> QED
    BY <2>2, <2>3 DEF IdentityStays, RowsInv, RowTypes
<1>3. ASSUME NEW s \in RecordSlots, NEW k \in RowKeys, HandCreate(s, k)
      PROVE  IdentityStays
  <2>1. \A o \in RecordSlots : o # s => book'[o] = book[o]
    BY <1>3 DEF HandCreate, RowsInv, RowTypes
  <2>2. book[s] = None \/ book'[s] = None
    BY <1>3 DEF HandCreate, RowsInv, RowTypes, Held
  <2> QED
    BY <2>1, <2>2 DEF IdentityStays
<1>4. ASSUME NEW s \in RecordSlots, WriteCreate(s) \/ HandDelete(s)
      PROVE  IdentityStays
  <2>1. \A o \in RecordSlots : o # s => book'[o] = book[o]
    BY <1>4 DEF WriteCreate, HandDelete, RowsInv, RowTypes
  <2>2. book[s] = None \/ book'[s] = None
    BY <1>4 DEF WriteCreate, HandDelete, RowsInv, RowTypes, Held
  <2> QED
    BY <2>1, <2>2 DEF IdentityStays
<1>5. CASE UNCHANGED rowVars
  BY <1>1, <1>5 DEF rowVars
<1>6. CASE StartRun \/ ResolveNone \/ ResolveNoDeal \/ Find \/ WriteFails
  BY <1>1, <1>6 DEF StartRun, ResolveNone, ResolveNoDeal, Find, WriteFails
<1>7. ASSUME NEW p \in ParentSlots, ResolveCompany(p) \/ ResolveStub(p) \/ ResolveDeal(p)
      PROVE  IdentityStays
  BY <1>1, <1>7 DEF ResolveCompany, ResolveStub, ResolveDeal
<1>8. ASSUME NEW k \in {"company", "contact", "deal", "note"}, NEW rows \in [Lines -> RowShapes],
             NEW pick \in StageMaps, NEW existing \in ParentTables,
             UploadFile(k, rows, pick, existing)
      PROVE  IdentityStays
  BY <1>1, <1>8 DEF UploadFile
<1> QED
  BY <1>2, <1>3, <1>4, <1>5, <1>6, <1>7, <1>8 DEF RowsNext

\* For every file and every CRM beside it, whatever users edit meanwhile: an
\* import writes what its dry-run foresaw, once, under the right parents, and
\* loses no row (job-runner.ts, dryRun and the upserts).
THEOREM ImportsAsForeseen == RowsSpec => ImportAsForeseen
<1>1. RowsInit => RowsInv
  BY InitRows
<1>2. RowsInv /\ [RowsNext]_rowVars => RowsInv'
  BY StepRows
<1>3. RowsInv => /\ ForeseenIsUpdated /\ ReimportCreatesNothing
                 /\ NoteUnderItsDeal /\ RowsAccounted
  BY AllAccounted DEF RowsInv
<1>4. RowsInv /\ [RowsNext]_rowVars => [IdentityStays]_rowVars
  BY StepIdentity
<1>5. RowsSpec => []RowsInv
  BY <1>1, <1>2, PTL DEF RowsSpec
<1>6. RowsSpec => [][IdentityStays]_rowVars
  BY <1>4, <1>5, PTL DEF RowsSpec
<1>7. RowsSpec => IdentityNeverMoves
  BY <1>6 DEF IdentityNeverMoves, IdentityStays
<1> QED
  BY <1>3, <1>5, <1>7, PTL DEF ImportAsForeseen
=============================================================================
