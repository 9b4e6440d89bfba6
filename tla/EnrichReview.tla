----------------------------- MODULE EnrichReview -----------------------------
(* The dialog in which a user reviews what an enrichment proposes: it starts  *)
(* a run, polls it, shows proposed beside current values, preselects blank    *)
(* fields and applies the selection. The record changes while the dialog      *)
(* shows an older state of it, the dialog can be closed and opened again with *)
(* a request in flight, and the apply route repeats the rules by which the    *)
(* shown differences were made. The runs themselves are in Enrichment.        *)
(* Bounds: ReviewRuns runs, MaxRecordEdits edits beside the dialog.           *)
EXTENDS Naturals, FiniteSets

CONSTANTS ReviewRuns, MaxRecordEdits, NoReview

ASSUME ReviewAssumption == MaxRecordEdits \in Nat

VARIABLES record,       \* the company's fields
          proposals,    \* the runs: status and payload
          review,       \* the dialog
          applyCall,    \* its apply request
          byHand,       \* ghost: fields checked by the user since it opened
          shownBlank,   \* ghost: fields it has shown as blank since then
          recordEdits

reviewVars == <<record, proposals, review, applyCall, byHand, shownBlank, recordEdits>>

\* Two of the nine fields: one free, one that must be a state's code.
ReviewFields == {"industry", "state"}
RecordValues == {"blank", "mine", "claude"}
Answers(f) == {"absent", "claude"} \cup (IF f = "state" THEN {"nowhere"} ELSE {})
Payloads == {p \in [ReviewFields -> {"absent", "claude", "nowhere"}] :
               \A f \in ReviewFields : p[f] \in Answers(f)}

NoDialog == [open |-> FALSE, run |-> NoReview, status |-> "none", diff |-> NoReview,
             selected |-> {}, summary |-> TRUE, starting |-> NoReview]
NoProposal == [status |-> "none", payload |-> NoReview]

ReviewInit ==
  /\ record \in [ReviewFields -> {"blank", "mine"}]
  /\ proposals = [r \in ReviewRuns |-> NoProposal]
  /\ review = NoDialog /\ applyCall = NoReview
  /\ byHand = {} /\ shownBlank = {} /\ recordEdits = 0

---------------------------------------------------------------------------
(* What both sides make of a payload.                                        *)

\* buildEnrichmentDiff: known, resolvable and different from the record.
Offered(payload, now) ==
  {f \in ReviewFields : payload[f] = "claude" /\ now[f] # "claude"}
DiffOf(payload, now) == [offered |-> Offered(payload, now), current |-> now]

\* Mutant: the selection is not looked at.
Writable_All(payload, fields) == {f \in ReviewFields : payload[f] = "claude"}

\* The route's own pass over the payload.
Writable(payload, fields) == {f \in fields : payload[f] = "claude"}

\* Mutant: everything that differs is preselected.
SelectedByDefault_All(diff) == diff.offered

SelectedByDefault(diff) == {f \in diff.offered : diff.current[f] = "blank"}

---------------------------------------------------------------------------
(* The dialog.                                                               *)

\* Opening resets what the dialog knows, but not its requests.
OpenReview ==
  /\ ~review.open
  /\ review' = [NoDialog EXCEPT !.open = TRUE, !.starting = review.starting]
  /\ byHand' = {} /\ shownBlank' = {}
  /\ UNCHANGED <<record, proposals, applyCall, recordEdits>>

CloseReview == /\ review.open
               /\ review' = [review EXCEPT !.open = FALSE]
               /\ UNCHANGED <<record, proposals, applyCall, byHand, shownBlank, recordEdits>>

PressRun(r) ==
  /\ review.open /\ review.run = NoReview /\ review.starting = NoReview
  /\ proposals[r] = NoProposal
  /\ proposals' = [proposals EXCEPT ![r].status = "pending"]
  /\ review' = [review EXCEPT !.starting = r]
  /\ UNCHANGED <<record, applyCall, byHand, shownBlank, recordEdits>>

\* The answer may find the dialog closed, or open again.
RunStarted ==
  /\ review.starting # NoReview
  /\ review' = [review EXCEPT !.run = review.starting, !.starting = NoReview]
  /\ UNCHANGED <<record, proposals, applyCall, byHand, shownBlank, recordEdits>>

RunFails == /\ review.starting # NoReview
            /\ review' = [review EXCEPT !.starting = NoReview]
            /\ UNCHANGED <<record, proposals, applyCall, byHand, shownBlank, recordEdits>>

RunEnds(r) ==
  /\ proposals[r].status = "pending"
  /\ \/ \E p \in Payloads : proposals' = [proposals EXCEPT ![r] = [status |-> "proposed", payload |-> p]]
     \/ proposals' = [proposals EXCEPT ![r].status = "error"]
  /\ UNCHANGED <<record, review, applyCall, byHand, shownBlank, recordEdits>>

\* A poll while the run is pending, a refetch when the network is back after.
\* A new difference seeds the selection whenever that is empty.
PollReview ==
  /\ review.open /\ review.run # NoReview
  /\ LET row == proposals[review.run]
         diff == IF row.status = "proposed" THEN DiffOf(row.payload, record) ELSE NoReview
         reseed == diff # NoReview /\ diff # review.diff /\ review.selected = {}
     IN /\ review' = [review EXCEPT
             !.status = row.status, !.diff = diff,
             !.selected = IF reseed THEN SelectedByDefault(diff) ELSE @]
        /\ shownBlank' = IF diff = NoReview THEN shownBlank
                         ELSE shownBlank \cup {f \in ReviewFields : diff.current[f] = "blank"}
  /\ UNCHANGED <<record, proposals, applyCall, byHand, recordEdits>>

Reviewing == review.open /\ review.diff # NoReview

ToggleField(f) ==
  /\ Reviewing /\ f \in review.diff.offered
  /\ IF f \in review.selected
     THEN review' = [review EXCEPT !.selected = @ \ {f}] /\ byHand' = byHand \ {f}
     ELSE review' = [review EXCEPT !.selected = @ \cup {f}] /\ byHand' = byHand \cup {f}
  /\ UNCHANGED <<record, proposals, applyCall, shownBlank, recordEdits>>

ToggleSummary == /\ Reviewing
                 /\ review' = [review EXCEPT !.summary = ~@]
                 /\ UNCHANGED <<record, proposals, applyCall, byHand, shownBlank, recordEdits>>

\* Something is selected, or the summary is.
PressApply ==
  /\ Reviewing /\ applyCall = NoReview
  /\ review.selected # {} \/ review.summary
  /\ applyCall' = [at |-> "sent", run |-> review.run, fields |-> review.selected,
                   allowed |-> byHand \cup shownBlank]
  /\ UNCHANGED <<record, proposals, review, byHand, shownBlank, recordEdits>>

\* One transaction; a run that is no longer proposed is refused.
ServeApply ==
  /\ applyCall # NoReview /\ applyCall.at = "sent"
  /\ LET row == proposals[applyCall.run]
     IN IF row.status = "proposed"
        THEN /\ record' = [f \in ReviewFields |->
                   IF f \in Writable(row.payload, applyCall.fields)
                   THEN row.payload[f] ELSE record[f]]
             /\ proposals' = [proposals EXCEPT ![applyCall.run].status = "applied"]
             /\ applyCall' = [applyCall EXCEPT !.at = "done"]
        ELSE applyCall' = [applyCall EXCEPT !.at = "failed"] /\ UNCHANGED <<record, proposals>>
  /\ UNCHANGED <<review, byHand, shownBlank, recordEdits>>

\* The answer closes the dialog that is open now.
ApplyAnswered ==
  /\ applyCall # NoReview /\ applyCall.at \in {"done", "failed"}
  /\ review' = IF applyCall.at = "done" THEN [review EXCEPT !.open = FALSE] ELSE review
  /\ applyCall' = NoReview
  /\ UNCHANGED <<record, proposals, byHand, shownBlank, recordEdits>>

\* Someone edits the record beside the dialog.
EditRecord(f) ==
  /\ recordEdits < MaxRecordEdits /\ recordEdits' = recordEdits + 1
  /\ \E v \in RecordValues \ {record[f]} : record' = [record EXCEPT ![f] = v]
  /\ UNCHANGED <<proposals, review, applyCall, byHand, shownBlank>>

ReviewNext ==
  \/ OpenReview \/ CloseReview \/ RunStarted \/ RunFails \/ PollReview
  \/ ToggleSummary \/ PressApply \/ ServeApply \/ ApplyAnswered
  \/ \E r \in ReviewRuns : PressRun(r) \/ RunEnds(r)
  \/ \E f \in ReviewFields : ToggleField(f) \/ EditRecord(f)

ReviewSpec == ReviewInit /\ [][ReviewNext]_reviewVars

---------------------------------------------------------------------------
\* A value someone typed is overwritten only by a field the user checked: the
\* dialog's own choice takes in nothing but fields it showed as blank. (One
\* filled after it was shown is overwritten all the same.)
FilledNeedsAHand == applyCall # NoReview => applyCall.fields \subseteq applyCall.allowed

\* What the apply route changes was selected, and is what the dialog would
\* offer for the record as it is then: the two passes over a payload agree.
AppliesWhatIsOffered ==
  [][ServeApply =>
       {f \in ReviewFields : record'[f] # record[f]}
         \subseteq applyCall.fields \cap Offered(proposals[applyCall.run].payload, record)]_reviewVars

\* A value someone has entered is replaced only by a hand, and by what was shown.
ReviewRespected == []FilledNeedsAHand /\ AppliesWhatIsOffered
=============================================================================
