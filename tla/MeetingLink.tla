----------------------------- MODULE MeetingLink -----------------------------
(***************************************************************************)
(* Meetings of one Google calendar: the pull that mirrors changed events   *)
(* into Meeting rows, the matcher that links a row to a deal, the user who *)
(* confirms or rejects the link, and the wall clock that moves a meeting   *)
(* from scheduled to completed.                                            *)
(*                                                                         *)
(* Runs of the pull exclude each other by the account's lock.  Events are  *)
(* timed and have an external attendee: the others are never ingested.     *)
(***************************************************************************)
EXTENDS Integers, FiniteSets

CONSTANTS
    Events,        \* calendar events
    MaxEventEdits, \* changes of events at Google
    MaxLinkEdits,  \* confirmations and rejections by users
    MaxMeetFaults  \* crashes, expiries and failed ingests

ASSUME MeetingAssumption ==
    MaxEventEdits \in Nat /\ MaxLinkEdits \in Nat /\ MaxMeetFaults \in Nat

VARIABLES
    event,         \* Google's events: absent, live or cancelled
    phase,         \* the wall clock of an event: before, during or after it
    changed,       \* events changed since the sync token
    meeting,       \* Meeting rows
    audit,         \* the newest MeetingLinkAudit row of a meeting
    eventsToken,   \* eventsSyncToken: none, fresh or expired
    ingest,        \* the pull under way
    missed,        \* ghost: events whose last ingest failed and was skipped
    sinceIngest,   \* ghost: meetings a user linked since their ingest read them
    eventEdits, linkEdits, meetFaults

sourceVars == <<event, phase, changed, eventEdits>>
rowVars == <<meeting, audit>>
ingestVars == <<eventsToken, ingest, missed>>
meetVars == <<sourceVars, rowVars, ingestVars, sinceIngest, linkEdits, meetFaults>>

Statuses == {"scheduled", "in_progress", "completed", "cancelled"}
NoMeeting == [status |-> "none", link |-> "unlinked", by |-> "none"]
NoAudit == [method |-> "none", outcome |-> "none"]
NoIngest == [at |-> "idle"]

MeetInit ==
    /\ event = [m \in Events |-> "absent"]
    /\ phase = [m \in Events |-> "before"]
    /\ changed = {}
    /\ meeting = [m \in Events |-> NoMeeting]
    /\ audit = [m \in Events |-> NoAudit]
    /\ eventsToken = "none" /\ ingest = NoIngest
    /\ missed = {} /\ sinceIngest = {}
    /\ eventEdits = 0 /\ linkEdits = 0 /\ meetFaults = 0

MeetFault == meetFaults < MaxMeetFaults /\ meetFaults' = meetFaults + 1

Ingested(m) == meeting[m] # NoMeeting

-----------------------------------------------------------------------------
(* Google, the clock, and the user.                                        *)

\* An event is created, changed, cancelled or taken up again.
ChangeEvent(m, state) ==
    /\ eventEdits < MaxEventEdits
    /\ event[m] = "absent" => state = "live"
    /\ event' = [event EXCEPT ![m] = state]
    /\ changed' = changed \cup {m}
    /\ eventEdits' = eventEdits + 1
    /\ UNCHANGED <<phase, rowVars, ingestVars, sinceIngest, linkEdits, meetFaults>>

TimePasses(m) ==
    /\ phase[m] # "after"
    /\ phase' = [phase EXCEPT ![m] = IF phase[m] = "before" THEN "during" ELSE "after"]
    /\ UNCHANGED <<event, changed, eventEdits, rowVars, ingestVars, sinceIngest, linkEdits,
                   meetFaults>>

UserLinks(m) ==
    /\ Ingested(m) /\ linkEdits < MaxLinkEdits
    /\ linkEdits' = linkEdits + 1
    /\ sinceIngest' = sinceIngest \cup {m}
    /\ UNCHANGED <<sourceVars, ingestVars, meetFaults>>

\* PATCH link, confirmed: the last audit row is judged and a manual one added.
ConfirmLink(m) ==
    /\ UserLinks(m)
    /\ meeting' = [meeting EXCEPT ![m].link = "confirmed", ![m].by = "user"]
    /\ audit' = [audit EXCEPT ![m] = [method |-> "manual", outcome |-> "accepted"]]

\* Mutant: a rejection leaves the audit row as the matcher wrote it.
Judged_Never(m) == audit

Judged(m) == IF audit[m] = NoAudit THEN audit ELSE [audit EXCEPT ![m].outcome = "rejected"]

\* PATCH link, rejected: the last audit row is marked, the targets cleared.
RejectLink(m) ==
    /\ UserLinks(m)
    /\ meeting' = [meeting EXCEPT ![m].link = "rejected", ![m].by = "user"]
    /\ audit' = Judged(m)

\* POST calendar/backfill drops the token: the next pull lists the window.
Backfill ==
    /\ eventsToken # "none" /\ ingest.at = "idle" /\ MeetFault
    /\ eventsToken' = "none"
    /\ UNCHANGED <<sourceVars, rowVars, ingest, missed, sinceIngest, linkEdits>>

EventsTokenExpires ==
    /\ eventsToken = "fresh" /\ MeetFault
    /\ eventsToken' = "expired"
    /\ UNCHANGED <<sourceVars, rowVars, ingest, missed, sinceIngest, linkEdits>>

-----------------------------------------------------------------------------
(* A run of the pull: started by the cron or by Resync.                    *)

StartPull ==
    /\ ingest.at = "idle"
    /\ ingest' = [at |-> "list"]
    /\ UNCHANGED <<sourceVars, rowVars, eventsToken, missed, sinceIngest, linkEdits, meetFaults>>

\* With a token the changes; without, or after a 410, the whole window.
Listing ==
    IF eventsToken = "fresh" THEN changed ELSE {m \in Events : event[m] # "absent"}

\* Google's side of the token moves on with the listing; it is the run's to
\* pin at its end.
ListEvents ==
    /\ ingest.at = "list"
    /\ ingest' = [at |-> "events", batch |-> [m \in Listing |-> event[m]]]
    /\ changed' = {}
    /\ UNCHANGED <<event, phase, eventEdits, rowVars, eventsToken, missed, sinceIngest, linkEdits,
                   meetFaults>>

StatusAt(when) ==
    CASE when = "before" -> "scheduled"
      [] when = "during" -> "in_progress"
      [] when = "after"  -> "completed"

\* Mutant: a rejected meeting is matched again.
MatcherLocked_NotRejected(m) == meeting[m].link = "confirmed"

\* The user confirmed or rejected the link.
MatcherLocked(m) == meeting[m].link \in {"confirmed", "rejected"}

Takes(m, state) ==
    ingest.at = "events" /\ m \in DOMAIN ingest.batch /\ ingest.batch[m] = state

AfterEvent(m) == [at |-> "events", batch |-> [ingest.batch EXCEPT ![m] = "done"]]

IngestCancelled(m) ==
    /\ Takes(m, "cancelled")
    /\ meeting' = IF Ingested(m) THEN [meeting EXCEPT ![m].status = "cancelled"] ELSE meeting
    /\ ingest' = AfterEvent(m)
    /\ missed' = missed \ {m}
    /\ UNCHANGED <<sourceVars, audit, eventsToken, sinceIngest, linkEdits, meetFaults>>

\* The row is upserted; a locked one is not matched.
IngestLive(m) ==
    /\ Takes(m, "live")
    /\ meeting' = [meeting EXCEPT ![m].status = StatusAt(phase[m])]
    /\ ingest' = IF MatcherLocked(m) THEN AfterEvent(m)
                 ELSE [at |-> "match", batch |-> ingest.batch, on |-> m]
    /\ sinceIngest' = sinceIngest \ {m}
    /\ missed' = missed \ {m}
    /\ UNCHANGED <<sourceVars, audit, eventsToken, linkEdits, meetFaults>>

\* The matcher's decision is written whatever the row has become.
PersistDecision(link) ==
    LET m == ingest.on
    IN  /\ ingest.at = "match"
        /\ meeting' = [meeting EXCEPT ![m].link = link, ![m].by = "matcher"]
        /\ audit' = [audit EXCEPT ![m] = [method |-> "matcher", outcome |-> "accepted"]]
        /\ ingest' = AfterEvent(m)
        /\ UNCHANGED <<sourceVars, eventsToken, missed, sinceIngest, linkEdits, meetFaults>>

\* An ingest that throws is logged and the next event is taken.
IngestFails(m) ==
    /\ \/ Takes(m, "live") \/ Takes(m, "cancelled")
       \/ ingest.at = "match" /\ m = ingest.on
    /\ MeetFault
    /\ missed' = IF ingest.at = "events" THEN missed \cup {m} ELSE missed
    /\ ingest' = AfterEvent(m)
    /\ UNCHANGED <<sourceVars, rowVars, eventsToken, sinceIngest, linkEdits>>

PinToken ==
    /\ ingest.at = "events" /\ \A m \in DOMAIN ingest.batch : ingest.batch[m] = "done"
    /\ eventsToken' = "fresh"
    /\ ingest' = [at |-> "reconcile"]
    /\ UNCHANGED <<sourceVars, rowVars, missed, sinceIngest, linkEdits, meetFaults>>

\* Mutant: only meetings already seen in progress are completed.
Reconciled_InProgressOnly(m) ==
    CASE meeting[m].status = "in_progress" /\ phase[m] = "after" -> "completed"
      [] meeting[m].status = "scheduled" /\ phase[m] = "during"  -> "in_progress"
      [] OTHER -> meeting[m].status

\* Mutant: every meeting whose end has passed is completed.
Reconciled_Cancelled(m) == IF Ingested(m) THEN StatusAt(phase[m]) ELSE "none"

\* Rows still scheduled or in progress follow the wall clock.
Reconciled(m) ==
    CASE meeting[m].status \in {"scheduled", "in_progress"} /\ phase[m] = "after" -> "completed"
      [] meeting[m].status = "scheduled" /\ phase[m] = "during" -> "in_progress"
      [] OTHER -> meeting[m].status

Reconcile ==
    /\ ingest.at = "reconcile"
    /\ meeting' = [m \in Events |-> [meeting[m] EXCEPT !.status = Reconciled(m)]]
    /\ ingest' = NoIngest
    /\ UNCHANGED <<sourceVars, audit, eventsToken, missed, sinceIngest, linkEdits, meetFaults>>

\* The run dies: its token was not pinned, so what it listed is listed again.
IngestCrash ==
    /\ ingest.at # "idle" /\ MeetFault
    /\ changed' = changed \cup (IF ingest.at \in {"events", "match"} THEN DOMAIN ingest.batch
                               ELSE {})
    /\ ingest' = NoIngest
    /\ UNCHANGED <<event, phase, eventEdits, rowVars, eventsToken, missed, sinceIngest, linkEdits>>

-----------------------------------------------------------------------------
MeetWork ==
    \/ StartPull \/ ListEvents \/ PinToken \/ Reconcile
    \/ \E m \in Events : IngestCancelled(m) \/ IngestLive(m)
    \/ \E link \in {"unlinked", "suggested", "confirmed"} : PersistDecision(link)

MeetNext ==
    \/ MeetWork
    \/ \E m \in Events :
         \/ ChangeEvent(m, "live") \/ ChangeEvent(m, "cancelled") \/ TimePasses(m)
         \/ ConfirmLink(m) \/ RejectLink(m) \/ IngestFails(m)
    \/ Backfill \/ EventsTokenExpires \/ IngestCrash

\* The cron keeps starting runs, and a run that is not cut short ends.
MeetFair == WF_meetVars(MeetWork)

MeetSpec == MeetInit /\ [][MeetNext]_meetVars /\ MeetFair

-----------------------------------------------------------------------------
(***************************************************************************)
(* Properties.                                                             *)
(***************************************************************************)

\* Between runs, every event that was not skipped for an error and has not
\* changed since is mirrored: a live one has a row, a cancelled one none but
\* a cancelled row, through expired tokens, backfills and crashes.
CalendarMirrored ==
    ingest.at = "idle" =>
      \A m \in Events \ (missed \cup changed) :
        /\ event[m] = "live" => meeting[m].status \in Statuses \ {"cancelled"}
        /\ event[m] = "cancelled" => meeting[m].status \in {"cancelled", "none"}

\* The matcher changes a link a user has set only if the user set it after
\* the ingest had looked.
UserLinkStands ==
    [][\A m \in Events :
         meeting[m].by = "user" /\ meeting'[m].by = "matcher" => m \in sinceIngest]_meetVars

\* The newest audit row tells who set the link and how it ended.
AuditExplainsLink ==
    \A m \in Events :
      /\ meeting[m].link = "confirmed" => audit[m].outcome = "accepted"
      /\ meeting[m].link = "rejected" => audit[m].outcome \in {"rejected", "none"}
      /\ meeting[m].by = "matcher" => audit[m].method = "matcher"

\* Again and again every meeting that is over stands as completed (or as
\* cancelled), even if Google never sends its event again.
EndedMeetingCompletes ==
    []<>(\A m \in Events :
           phase[m] = "after" /\ Ingested(m) =>
             meeting[m].status \in {"completed", "cancelled"})

\* Rows follow the calendar, links follow the user, and the audit follows both.
LinksSafe == [](CalendarMirrored /\ AuditExplainsLink) /\ UserLinkStands
=============================================================================
