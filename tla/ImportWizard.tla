----------------------------- MODULE ImportWizard -----------------------------
(* The import page for a file of deals: upload, mapping of the columns, dry-  *)
(* run, mapping of the stages, commit, and what survives leaving the page.    *)
(* The page's state, its requests in flight and the job rows are three things *)
(* that change apart: an answer arrives at whatever the page shows by then,   *)
(* and the job row is what a resumed page starts from. What the runs do to    *)
(* the records is in ImportRows, how runs of one job race in ImportJob.       *)
(* Bounds: one page, WizardJobs uploads, MaxWizardCalls requests, one change  *)
(* of the pipeline's stages.                                                  *)
EXTENDS Naturals, FiniteSets

CONSTANTS WizardJobs,      \* uploads the user makes
          Columns,         \* the file's columns by position, none of them empty
          StageIds,        \* stages of the pipeline
          ValuesIn,        \* [Columns -> sets of the values found in it]
          SameNamed,       \* values that name a stage: a function to StageIds
          MaxWizardCalls,
          Unset

ASSUME WizardAssumption ==
  /\ Columns \subseteq Nat
  /\ ValuesIn \in [Columns -> SUBSET UNION {ValuesIn[c] : c \in Columns}]
  /\ DOMAIN SameNamed \subseteq UNION {ValuesIn[c] : c \in Columns}
  /\ MaxWizardCalls \in Nat

VARIABLES wizard,       \* what the page holds
          wizardCalls,  \* its requests not yet answered, or answered unheard
          sentCalls,    \* how many were sent
          jobRow,       \* the import jobs
          pipeline,     \* stages that exist
          chosen        \* the user's stage choices that count on this page

wizardVars == <<wizard, wizardCalls, sentCalls, jobRow, pipeline, chosen>>

Required == {"title", "stageName"}
Targeted == Required \cup {"externalId"}
SourceStages == UNION {ValuesIn[c] : c \in Columns}
NoPicks == [s \in SourceStages |-> Unset]
Nothing == [c \in Columns |-> Unset]

\* suggestMapping and a preset give a field to one column at most; the page
\* itself lets the user give it to several.
Suggested == {f \in [Columns -> Targeted \cup {Unset}] :
                \A c, d \in Columns : f[c] = f[d] /\ f[c] # Unset => c = d}

FreshPage == [step |-> 1, job |-> Unset, mapping |-> Nothing, picks |-> NoPicks,
              dryRun |-> Unset, done |-> FALSE]
NoJobRow == [status |-> "none", mapping |-> Nothing, picks |-> NoPicks, run |-> Unset,
          unbound |-> {}]

WizardInit ==
  /\ wizard = FreshPage /\ wizardCalls = {} /\ sentCalls = 0
  /\ jobRow = [j \in WizardJobs |-> NoJobRow]
  /\ pipeline = StageIds
  /\ chosen = NoPicks

\* {...under, ...over}: the second wins.
Over(under, over) ==
  [s \in SourceStages |-> IF over[s] # Unset THEN over[s] ELSE under[s]]

Pending(kind) == \E c \in wizardCalls : c.kind = kind /\ c.heard

---------------------------------------------------------------------------
(* The server. A run reads the stage column with the body's mapping and binds *)
(* each value: to the body's pick if the stage still exists, else to the      *)
(* stage of the same name if there is no pick. Of two columns mapped to the   *)
(* stage the first one is read.                                               *)
StageColumns(mapping) == {c \in Columns : mapping[c] = "stageName"}
DistinctStages(mapping) ==
  UNION {ValuesIn[c] : c \in {d \in StageColumns(mapping) :
                                \A e \in StageColumns(mapping) : d <= e}}
BoundTo(picks, s) == IF picks[s] # Unset THEN picks[s]
                     ELSE IF s \in DOMAIN SameNamed THEN SameNamed[s] ELSE Unset
IsBound(picks, s) == BoundTo(picks, s) \in pipeline
AutoMapped(call) ==
  [s \in SourceStages |->
     IF s \in DistinctStages(call.mapping) /\ call.picks[s] = Unset /\ IsBound(call.picks, s)
     THEN BoundTo(call.picks, s) ELSE Unset]
RunOf(call) ==
  [distinct |-> DistinctStages(call.mapping),
   unmapped |-> {s \in DistinctStages(call.mapping) : ~IsBound(call.picks, s)},
   auto |-> AutoMapped(call)]

EditableStatuses == {"pending", "validating", "validated"}

\* The conditional transition, with the mapping of the body; 404 or 409 else.
TakeCall(c) ==
  /\ c \in wizardCalls /\ c.at = "sent"
  /\ \/ /\ jobRow[c.job].status \in EditableStatuses
        /\ jobRow' = [jobRow EXCEPT
             ![c.job].status = IF c.kind = "dryRun" THEN "validating" ELSE "committing",
             ![c.job].mapping = c.mapping, ![c.job].picks = c.picks]
        /\ wizardCalls' = (wizardCalls \ {c}) \cup {[c EXCEPT !.at = "running"]}
     \/ /\ jobRow[c.job].status \notin EditableStatuses
        /\ wizardCalls' = (wizardCalls \ {c}) \cup {[c EXCEPT !.at = "refused"]}
        /\ UNCHANGED jobRow
  /\ UNCHANGED <<wizard, sentCalls, pipeline, chosen>>

\* The run ends: its summary is stored and answered. A commit skips the rows
\* of a stage that is not bound. A job deleted meanwhile, under one of two runs,
\* cannot be updated: that run is answered with an error.
EndCall(c) ==
  /\ c \in wizardCalls /\ c.at = "running" /\ jobRow[c.job].status # "gone"
  /\ jobRow' = [jobRow EXCEPT
       ![c.job].status = IF c.kind = "dryRun" THEN "validated" ELSE "completed",
       ![c.job].run = RunOf(c),
       ![c.job].unbound = IF c.kind = "commit" THEN RunOf(c).unmapped ELSE @]
  /\ wizardCalls' = (wizardCalls \ {c}) \cup
                    {[c EXCEPT !.at = "answered", !.run = RunOf(c)]}
  /\ UNCHANGED <<wizard, sentCalls, pipeline, chosen>>

EndOfDeleted(c) ==
  /\ c \in wizardCalls /\ c.at = "running" /\ jobRow[c.job].status = "gone"
  /\ wizardCalls' = (wizardCalls \ {c}) \cup {[c EXCEPT !.at = "refused"]}
  /\ UNCHANGED <<wizard, sentCalls, jobRow, pipeline, chosen>>

\* Another session deletes a stage without deals.
DeleteStage ==
  /\ pipeline = StageIds
  /\ \E s \in pipeline : pipeline' = pipeline \ {s}
  /\ UNCHANGED <<wizard, wizardCalls, sentCalls, jobRow, chosen>>

---------------------------------------------------------------------------
(* The page.                                                                  *)
Upload(j) ==
  /\ wizard.step = 1 /\ jobRow[j].status = "none"
  /\ \E f \in Suggested :
       /\ jobRow' = [jobRow EXCEPT ![j] = [NoJobRow EXCEPT !.status = "pending", !.mapping = f]]
       /\ wizard' = [FreshPage EXCEPT !.step = 2, !.job = j, !.mapping = f]
  /\ chosen' = NoPicks
  /\ UNCHANGED <<wizardCalls, sentCalls, pipeline>>

SetOne(c, f) ==
  /\ wizard.step = 2 /\ wizard.mapping[c] # f
  /\ wizard' = [wizard EXCEPT !.mapping[c] = f]
  /\ UNCHANGED <<wizardCalls, sentCalls, jobRow, pipeline, chosen>>

RequiredMissing(mapping) == Required \ {mapping[c] : c \in Columns}

\* Mutant: the title is not asked for.
CanAdvance_StageOnly(mapping) == "stageName" \notin RequiredMissing(mapping)

CanAdvance(mapping) == RequiredMissing(mapping) = {}

NextStep == /\ wizard.step = 2 /\ CanAdvance(wizard.mapping)
            /\ wizard' = [wizard EXCEPT !.step = 3]
            /\ UNCHANGED <<wizardCalls, sentCalls, jobRow, pipeline, chosen>>

\* Only a commit in flight holds the page where it is.
Back == /\ wizard.step > 1 /\ ~Pending("commit")
        /\ wizard' = [wizard EXCEPT !.step = @ - 1]
        /\ UNCHANGED <<wizardCalls, sentCalls, jobRow, pipeline, chosen>>

SendCall(kind) ==
  /\ sentCalls < MaxWizardCalls
  /\ sentCalls' = sentCalls + 1
  /\ wizardCalls' = wizardCalls \cup
       {[id |-> sentCalls, kind |-> kind, job |-> wizard.job, mapping |-> wizard.mapping,
         picks |-> wizard.picks, at |-> "sent", heard |-> TRUE, run |-> Unset]}
  /\ UNCHANGED <<wizard, jobRow, pipeline, chosen>>

PressDryRun ==
  /\ wizard.step = 3 /\ ~wizard.done
  /\ ~Pending("dryRun") /\ ~Pending("commit")
  /\ SendCall("dryRun")

CanCommit ==
  /\ wizard.dryRun # Unset /\ ~wizard.done
  /\ ~Pending("dryRun") /\ ~Pending("commit")
  /\ wizard.dryRun.unmapped = {}

PressCommit == wizard.step = 3 /\ CanCommit /\ SendCall("commit")

\* A dropdown of the stage step: every stage of the last dry-run is offered.
PickStage(s, to) ==
  /\ wizard.step = 3 /\ wizard.dryRun # Unset
  /\ s \in wizard.dryRun.distinct /\ wizard.picks[s] # to
  /\ wizard' = [wizard EXCEPT !.picks[s] = to]
  /\ chosen' = [chosen EXCEPT ![s] = to]
  /\ UNCHANGED <<wizardCalls, sentCalls, jobRow, pipeline>>

\* Mutant: the server's matches are laid over the user's choices.
MergedPicks_AutoWins(auto, picks) == Over(picks, auto)

MergedPicks(auto, picks) == Over(auto, picks)

\* onSuccess and onError, on the page as it is now; an unheard answer is lost.
Deliver(c) ==
  /\ c \in wizardCalls /\ c.at \in {"answered", "refused"}
  /\ wizardCalls' = wizardCalls \ {c}
  /\ wizard' =
       IF ~c.heard \/ c.at = "refused" THEN wizard
       ELSE IF c.kind = "commit" THEN [wizard EXCEPT !.done = TRUE]
       ELSE [wizard EXCEPT !.dryRun = c.run, !.picks = MergedPicks(c.run.auto, @)]
  /\ UNCHANGED <<sentCalls, jobRow, pipeline, chosen>>

---------------------------------------------------------------------------
(* Leaving the page, the list of imports and coming back.                     *)
Unheard == {[c EXCEPT !.heard = FALSE] : c \in wizardCalls}

Leave == /\ wizard # FreshPage
         /\ wizard' = FreshPage /\ wizardCalls' = Unheard /\ chosen' = NoPicks
         /\ UNCHANGED <<sentCalls, jobRow, pipeline>>

IsResumable(j) == jobRow[j].status \in {"pending", "validated"}
IsDeletable(j) == jobRow[j].status \notin {"none", "gone", "validating", "committing"}

\* What GET /jobs/:id returns to start from: what the last accepted request
\* stored, and the summary of the last run that ended.
Stored(j) == [mapping |-> jobRow[j].mapping, picks |-> jobRow[j].picks,
              priorRun |-> jobRow[j].run]

\* The stored matches under the stored choices, and step 3 if the job was
\* validated.
Resume(j) ==
  /\ wizard = FreshPage /\ IsResumable(j)
  /\ LET back == Stored(j)
         auto == IF back.priorRun = Unset THEN NoPicks ELSE back.priorRun.auto
     IN wizard' = [step |-> IF jobRow[j].status = "validated" THEN 3 ELSE 2, job |-> j,
                   mapping |-> back.mapping, picks |-> MergedPicks(auto, back.picks),
                   dryRun |-> back.priorRun, done |-> FALSE]
  /\ chosen' = jobRow[j].picks
  /\ UNCHANGED <<wizardCalls, sentCalls, jobRow, pipeline>>

DeleteJob(j) ==
  /\ wizard = FreshPage /\ IsDeletable(j)
  /\ jobRow' = [jobRow EXCEPT ![j] = [NoJobRow EXCEPT !.status = "gone"]]
  /\ UNCHANGED <<wizard, wizardCalls, sentCalls, pipeline, chosen>>

WizardNext ==
  \/ \E j \in WizardJobs : Upload(j) \/ Resume(j) \/ DeleteJob(j)
  \/ \E c \in Columns, f \in Targeted \cup {Unset} : SetOne(c, f)
  \/ \E s \in SourceStages, to \in StageIds \cup {Unset} :
       to \in pipeline \cup {Unset} /\ PickStage(s, to)
  \/ \E c \in wizardCalls : TakeCall(c) \/ EndCall(c) \/ EndOfDeleted(c) \/ Deliver(c)
  \/ NextStep \/ Back \/ PressDryRun \/ PressCommit \/ Leave \/ DeleteStage

WizardSpec == WizardInit /\ [][WizardNext]_wizardVars

---------------------------------------------------------------------------
\* The stage the user chose stays in the dropdown whatever dry-runs, resumes
\* and matched names do ("never overwrite a value the user explicitly picked").
UserPickStands == \A s \in SourceStages : chosen[s] # Unset => wizard.picks[s] = chosen[s]

\* No request leaves the page with a mapping that lacks a required field,
\* whichever way the page came to its third step, a resumed job included.
SentWithRequired == \A c \in wizardCalls : RequiredMissing(c.mapping) = {}

\* What the server runs is what the user chose and may send.
ChoicesStand == UserPickStands /\ SentWithRequired
=============================================================================
