--------------------------- MODULE MeetingArtifacts ---------------------------
(***************************************************************************)
(* The artifact watcher of one Google account: a cron scans the meetings   *)
(* that ended, fetches recording, transcript and Gemini summary, and turns *)
(* the summary into one note and a task per action item; after six hours   *)
(* without all three it gives the meeting up.                              *)
(*                                                                         *)
(* Meetings are numbered by the time they end.  Runs exclude each other by *)
(* the account's lock, so there is one at a time.                          *)
(***************************************************************************)
EXTENDS Integers, FiniteSets, FiniteSetsExt

CONSTANTS
    Meetings,      \* meetings with a Meet conference, later ones greater
    ActionItems,   \* action items a summary lists
    RunCap,        \* MAX_MEETINGS_PER_RUN
    MaxRefreshes,  \* Refresh artifacts requests and changes of a link
    MaxScanFaults  \* crashes and API errors

ASSUME ArtifactsAssumption ==
    /\ Meetings \subseteq Nat /\ IsFiniteSet(Meetings) /\ RunCap \in Nat \ {0}
    /\ MaxRefreshes \in Nat /\ MaxScanFaults \in Nat

VARIABLES
    ended,         \* meetings over for the grace period
    aged,          \* <<m, since>>: six hours have passed since its end, or its ingest
    summary,       \* meetings whose summary Gemini has put into Drive
    linked,        \* meetings with a deal, contact or company
    row,           \* what the Meeting row holds of its artifacts
    notes,         \* summary notes of a meeting
    tasks,         \* tasks made of an action item of a meeting
    scan,          \* the run under way
    asked,         \* ghost: given-up meetings refreshed between runs, not fetched since
    cut,           \* ghost: meetings whose processing was cut short after the row
    refreshes, scanFaults

googleVars == <<ended, aged, summary, linked>>
productVars == <<notes, tasks>>
artifactVars == <<googleVars, row, productVars, scan, asked, cut, refreshes, scanFaults>>

NoScan == [at |-> "idle"]

ArtifactsInit ==
    /\ ended = {} /\ aged = {}
    /\ summary = {}
    /\ linked = {}
    /\ row = [m \in Meetings |-> [found |-> [media |-> FALSE, doc |-> FALSE, excerpt |-> FALSE],
                                  processed |-> FALSE, partial |-> FALSE]]
    /\ notes = [m \in Meetings |-> 0]
    /\ tasks = [m \in Meetings |-> [i \in ActionItems |-> 0]]
    /\ scan = NoScan /\ asked = {} /\ cut = {}
    /\ refreshes = 0 /\ scanFaults = 0

ScanFault == scanFaults < MaxScanFaults /\ scanFaults' = scanFaults + 1

-----------------------------------------------------------------------------
(* The clock, Google, and the users.                                       *)

MeetingEnds(m) ==
    /\ m \notin ended
    /\ ended' = ended \cup {m}
    /\ UNCHANGED <<aged, summary, linked, row, productVars, scan, asked, cut, refreshes, scanFaults>>

\* A backfilled meeting's end is old before its row is.
SixHoursSince(m, since) ==
    /\ m \in ended /\ <<m, since>> \notin aged
    /\ since = "ingest" => <<m, "end">> \in aged
    /\ aged' = aged \cup {<<m, since>>}
    /\ UNCHANGED <<ended, summary, linked, row, productVars, scan, asked, cut, refreshes, scanFaults>>

SummaryWritten(m) ==
    /\ m \in ended \ summary
    /\ summary' = summary \cup {m}
    /\ UNCHANGED <<ended, aged, linked, row, productVars, scan, asked, cut, refreshes, scanFaults>>

\* By the matcher or by a user.
LinkChanges(m) ==
    /\ refreshes < MaxRefreshes
    /\ refreshes' = refreshes + 1
    /\ linked' = (linked \ {m}) \cup ({m} \ linked)
    /\ UNCHANGED <<ended, aged, summary, row, productVars, scan, asked, cut, scanFaults>>

\* POST refresh-artifacts: the meeting is a candidate again.
RefreshArtifacts(m) ==
    /\ refreshes < MaxRefreshes
    /\ refreshes' = refreshes + 1
    /\ row' = [row EXCEPT ![m].processed = FALSE, ![m].partial = FALSE]
    /\ asked' = IF scan.at = "idle" /\ row[m].partial THEN asked \cup {m} ELSE asked
    /\ UNCHANGED <<googleVars, productVars, scan, cut, scanFaults>>

-----------------------------------------------------------------------------
(* A run: started by the cron or by a refresh.                             *)

Newest(n, set) == {m \in set : Cardinality({k \in set : k > m}) < n}

\* Mutant: the deadline counts from the end of the meeting alone.
PastGiveUp_EndOnly(m) == <<m, "end">> \in aged

\* Six hours after the later of the meeting's end and its ingest.
PastGiveUp(m) == <<m, "end">> \in aged /\ <<m, "ingest">> \in aged

Candidates == Newest(4 * RunCap, {m \in ended : ~row[m].processed})

\* The candidates are read and parted; rows and links are as they were then.
StartScan ==
    /\ scan.at = "idle"
    /\ LET late == {m \in Candidates : PastGiveUp(m)}
           left == Newest(RunCap, Candidates \ late)
       IN  scan' = [at |-> "expire", late |-> late, left |-> left, owned |-> linked \cap left,
                    seen |-> [m \in left |-> row[m].found],
                    text |-> FALSE, parsed |-> FALSE]
    /\ UNCHANGED <<googleVars, row, productVars, asked, cut, refreshes, scanFaults>>

\* Mutant: the ones past the deadline are only passed over.
GivenUp_Skipped(late) == row

GivenUp(late) ==
    [m \in Meetings |-> IF m \in late THEN [row[m] EXCEPT !.processed = TRUE, !.partial = TRUE]
                        ELSE row[m]]

MarkExpired ==
    /\ scan.at = "expire"
    /\ row' = GivenUp(scan.late)
    /\ scan' = [scan EXCEPT !.at = "meetings", !.late = {}]
    /\ UNCHANGED <<googleVars, productVars, asked, cut, refreshes, scanFaults>>

PastMeeting(m) ==
    [scan EXCEPT !.at = "meetings", !.left = @ \ {m}, !.owned = @ \ {m},
                 !.seen = [k \in scan.left \ {m} |-> scan.seen[k]], !.text = FALSE, !.parsed = FALSE]

\* The Meet API, the Drive search and the document are read and the row is
\* written.  Meet may have no recording and transcript yet, Docs no body or
\* one without an excerpt, or they fail, which is swallowed: what they would
\* have brought stays as it was.  The body is parsed while there is no excerpt.
FetchArtifacts(found, body) ==
    LET m     == Max(scan.left)
        seen  == scan.seen[m]
        media == seen.media \/ found
        doc   == seen.doc \/ m \in summary
        parse == doc /\ ~seen.excerpt /\ body # "none"
        text  == seen.excerpt \/ (parse /\ body = "full")
    IN  /\ scan.at = "meetings" /\ scan.left # {}
        /\ row' = [row EXCEPT ![m] =
                     [found |-> [media |-> media, doc |-> doc, excerpt |-> text],
                      processed |-> media /\ doc,
                      partial |-> ~(media /\ doc) /\ PastGiveUp(m)]]
        /\ scan' = [scan EXCEPT !.at = "note", !.text = text, !.parsed = parse]
        /\ asked' = asked \ {m}
        /\ UNCHANGED <<googleVars, productVars, cut, refreshes, scanFaults>>

FetchMeeting ==
    \E found \in BOOLEAN, body \in {"none", "items", "full"} : FetchArtifacts(found, body)

\* Mutant: a note is created each time.
NotesAfter_NoFind(m) == notes[m] + 1

NotesAfter(m) == IF m \in scan.owned /\ notes[m] = 0 THEN 1 ELSE notes[m]

\* Mutant: without a target to put a note under there are no tasks either.
ItemsFollow_Owned(m) == scan.parsed /\ m \in scan.owned

ItemsFollow(m) == scan.parsed

\* With an excerpt, creates the note under the meeting's deal, contact or
\* company, or rewrites it.
EnsureSummaryNote ==
    LET m == Max(scan.left)
    IN  /\ scan.at = "note"
        /\ notes' = IF scan.text THEN [notes EXCEPT ![m] = NotesAfter(m)] ELSE notes
        /\ scan' = IF ItemsFollow(m) THEN [scan EXCEPT !.at = "items"] ELSE PastMeeting(m)
        /\ UNCHANGED <<googleVars, row, tasks, asked, cut, refreshes, scanFaults>>

\* Mutant: a task is created for every item that was parsed.
TasksAfter_NoFind(m) == [i \in ActionItems |-> tasks[m][i] + 1]

TasksAfter(m) == [i \in ActionItems |-> IF tasks[m][i] = 0 THEN 1 ELSE tasks[m][i]]

\* One task per parsed item that has none yet; a crash can come after any of them.
MaterializeActionItems ==
    LET m == Max(scan.left)
    IN  /\ scan.at = "items"
        /\ tasks' = [tasks EXCEPT ![m] = TasksAfter(m)]
        /\ scan' = PastMeeting(m)
        /\ UNCHANGED <<googleVars, row, notes, asked, cut, refreshes, scanFaults>>

EndScan ==
    /\ scan.at = "meetings" /\ scan.left = {}
    /\ scan' = NoScan
    /\ UNCHANGED <<googleVars, row, productVars, asked, cut, refreshes, scanFaults>>

\* An error on one meeting is logged and the next one is taken.
MeetingFails ==
    /\ scan.at \in {"meetings", "note", "items"} /\ scan.left # {} /\ ScanFault
    /\ scan' = PastMeeting(Max(scan.left))
    /\ cut' = IF scan.at = "meetings" THEN cut ELSE cut \cup {Max(scan.left)}
    /\ UNCHANGED <<googleVars, row, productVars, asked, refreshes>>

\* A crash, a 429 or a refused grant ends the run; some of the tasks may be there.
ScanCrash ==
    /\ scan.at # "idle" /\ ScanFault
    /\ \/ UNCHANGED tasks
       \/ /\ scan.at = "items"
          /\ \E some \in SUBSET ActionItems :
               LET m == Max(scan.left)
               IN  tasks' = [tasks EXCEPT ![m] =
                               [i \in ActionItems |-> IF i \in some THEN TasksAfter(m)[i]
                                                      ELSE tasks[m][i]]]
    /\ cut' = IF scan.at \in {"note", "items"} THEN cut \cup {Max(scan.left)} ELSE cut
    /\ scan' = NoScan
    /\ UNCHANGED <<googleVars, row, notes, asked, refreshes>>

-----------------------------------------------------------------------------
ScanWork ==
    \/ StartScan \/ MarkExpired \/ FetchMeeting \/ EnsureSummaryNote
    \/ MaterializeActionItems \/ EndScan

ArtifactsNext ==
    \/ ScanWork \/ MeetingFails \/ ScanCrash
    \/ \E m \in Meetings :
         \/ MeetingEnds(m) \/ SummaryWritten(m)
         \/ LinkChanges(m) \/ RefreshArtifacts(m)
         \/ \E since \in {"end", "ingest"} : SixHoursSince(m, since)

\* The cron keeps starting runs, which end; time passes.
ArtifactsFair ==
    /\ WF_artifactVars(ScanWork)
    /\ \A m \in Meetings, since \in {"end", "ingest"} :
         WF_artifactVars(SixHoursSince(m, since))

ArtifactsSpec == ArtifactsInit /\ [][ArtifactsNext]_artifactVars /\ ArtifactsFair

-----------------------------------------------------------------------------
(***************************************************************************)
(* Properties.                                                             *)
(***************************************************************************)

\* However often runs crash, are repeated or refreshed, a meeting gets one
\* summary note and an action item one task.
MadeOnce ==
    \A m \in Meetings : notes[m] <= 1 /\ \A i \in ActionItems : tasks[m][i] <= 1

\* A stored excerpt has its action items as tasks once the run is done with
\* the meeting, unless that run was cut short in between.
ExcerptHasTasks ==
    \A m \in Meetings \ cut :
      row[m].found.excerpt /\ (scan.at \in {"note", "items"} => m # Max(scan.left))
        => \A i \in ActionItems : tasks[m][i] = 1

\* A meeting is given up only when six hours have passed since its row came
\* in, not only since it ended: a backfilled one gets its chance.
GivenUpAfterDeadline ==
    \A m \in Meetings : row[m].partial => {<<m, "end">>, <<m, "ingest">>} \subseteq aged

\* Again and again every meeting that ended stands processed or given up,
\* although each run takes the newest few only.
EndedMeetingSettles == []<>(\A m \in ended : row[m].processed)

\* A refresh of a meeting that was given up has it fetched again before it is
\* given up again.
RefreshRefetches == \A m \in asked : ~row[m].processed

\* The artifacts of a meeting are made once, completely, and not given up early.
ArtifactsSound == MadeOnce /\ ExcerptHasTasks /\ GivenUpAfterDeadline
=============================================================================
