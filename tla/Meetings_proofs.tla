-------------------------- MODULE Meetings_proofs ---------------------------
(*************************************************************************)
(* Proofs about meetings from the calendar: their links, the recordings  *)
(* and notes of those that ended, and the decision of the matcher, for any *)
(* number of events, meetings, contacts and deals.                       *)
(*************************************************************************)
EXTENDS MeetingLink, MeetingArtifacts, MeetingMatcher, FiniteSetTheorems, WellFoundedInduction, TLAPS

-----------------------------------------------------------------------------
(***************************************************************************)
(* Meetings and their links.                                               *)
(***************************************************************************)

EventStates == {"absent", "live", "cancelled"}
Batches == UNION {[S -> EventStates \cup {"done"}] : S \in SUBSET Events}
MeetingRows == [status : Statuses \cup {"none"},
                link : {"unlinked", "suggested", "confirmed", "rejected"},
                by : {"none", "user", "matcher"}]
AuditRows == [method : {"none", "manual", "matcher"},
              outcome : {"none", "accepted", "rejected"}]

MeetTypeOK ==
    /\ event \in [Events -> EventStates]
    /\ phase \in [Events -> {"before", "during", "after"}]
    /\ changed \in SUBSET Events
    /\ meeting \in [Events -> MeetingRows]
    /\ audit \in [Events -> AuditRows]
    /\ eventsToken \in {"none", "fresh", "expired"}
    /\ ingest \in [at : {"idle", "list", "reconcile"}] \cup [at : {"events"}, batch : Batches]
                    \cup [at : {"match"}, batch : Batches, on : Events]
    /\ missed \in SUBSET Events /\ sinceIngest \in SUBSET Events

\* The row of m shows the event as Google has it.
Mirrors(m) ==
    /\ event[m] = "live" => meeting[m].status \in Statuses \ {"cancelled"}
    /\ event[m] = "cancelled" => meeting[m].status \in {"cancelled", "none"}

Listed == IF ingest.at \in {"events", "match"} THEN DOMAIN ingest.batch ELSE {}

\* Of what a run has listed, that is so once the event is done with; what is
\* not done is listed as Google has it, or has changed since.
RunMirrors ==
    \A m \in Events \ changed :
      /\ m \in Listed /\ ingest.batch[m] # "done" => ingest.batch[m] = event[m]
      /\ m \notin missed /\ (m \in Listed => ingest.batch[m] = "done") => Mirrors(m)

\* The event that is being matched is a live one whose row is written, and a
\* user who has set its link did so since.
MatchKnows ==
    ingest.at = "match" =>
      /\ ingest.on \in DOMAIN ingest.batch /\ ingest.batch[ingest.on] = "live"
      /\ meeting[ingest.on].status \in Statuses \ {"cancelled"}
      /\ meeting[ingest.on].by = "user" => ingest.on \in sinceIngest

UserLinksLocked ==
    \A m \in Events : meeting[m].by = "user" => meeting[m].link \in {"confirmed", "rejected"}

MeetInv == MeetTypeOK /\ RunMirrors /\ MatchKnows /\ UserLinksLocked /\ AuditExplainsLink

LEMMA InitMeet == MeetInit => MeetInv
<1> SUFFICES ASSUME MeetInit PROVE MeetInv
  OBVIOUS
<1>1. MeetTypeOK
  BY DEF MeetInit, MeetTypeOK, EventStates, MeetingRows, AuditRows, NoMeeting, NoAudit, NoIngest
<1> QED
  BY <1>1 DEF MeetInit, MeetInv, RunMirrors, MatchKnows, UserLinksLocked, AuditExplainsLink,
     Mirrors, Listed, NoIngest, NoMeeting, NoAudit

LEMMA BatchTyped ==
    ASSUME MeetTypeOK, ingest.at \in {"events", "match"}
    PROVE  /\ DOMAIN ingest.batch \subseteq Events
           /\ ingest.batch \in [DOMAIN ingest.batch -> EventStates \cup {"done"}]
<1>1. ingest.batch \in Batches
  BY DEF MeetTypeOK
<1> QED
  BY <1>1 DEF Batches

\* Marking an event of the batch as done.
LEMMA EventDone ==
    ASSUME MeetTypeOK, ingest.at \in {"events", "match"}, NEW m \in DOMAIN ingest.batch,
           ingest' = AfterEvent(m)
    PROVE  /\ ingest' \in [at : {"events"}, batch : Batches]
           /\ ingest'.at = "events" /\ DOMAIN ingest'.batch = DOMAIN ingest.batch
           /\ \A k \in DOMAIN ingest.batch :
                ingest'.batch[k] = IF k = m THEN "done" ELSE ingest.batch[k]
<1>1. /\ DOMAIN ingest.batch \in SUBSET Events
      /\ ingest.batch \in [DOMAIN ingest.batch -> EventStates \cup {"done"}]
  BY BatchTyped
<1>2. [ingest.batch EXCEPT ![m] = "done"] \in [DOMAIN ingest.batch -> EventStates \cup {"done"}]
  BY <1>1
<1> QED
  BY <1>1, <1>2 DEF AfterEvent, Batches

\* Steps that leave the run and what it mirrors alone.
LEMMA RunKept ==
    ASSUME RunMirrors, ingest' = ingest, event' = event, missed' = missed,
           changed \subseteq changed', \A m \in Events : meeting'[m].status = meeting[m].status
    PROVE  RunMirrors'
BY DEF RunMirrors, Mirrors, Listed

\* Steps that leave the links alone.
LEMMA LinksKept ==
    ASSUME UserLinksLocked, AuditExplainsLink, audit' = audit,
           \A m \in Events : /\ meeting'[m].link = meeting[m].link
                             /\ meeting'[m].by = meeting[m].by
    PROVE  UserLinksLocked' /\ AuditExplainsLink'
BY DEF UserLinksLocked, AuditExplainsLink

LEMMA StepMeet == MeetInv /\ [MeetNext]_meetVars => MeetInv'
<1> SUFFICES ASSUME MeetInv, [MeetNext]_meetVars PROVE MeetInv'
  OBVIOUS
<1> USE DEF MeetInv
<1>1. CASE StartPull
  BY <1>1 DEF StartPull, sourceVars, rowVars, MeetTypeOK, RunMirrors, Mirrors, Listed, MatchKnows,
     UserLinksLocked, AuditExplainsLink
<1>2. CASE ListEvents
  <2>1. MeetTypeOK'
    <3>1. Listing \in SUBSET Events
      BY DEF Listing, MeetTypeOK
    <3>2. [m \in Listing |-> event[m]] \in Batches
      BY <3>1 DEF MeetTypeOK, Batches
    <3> QED
      BY <1>2, <3>2 DEF ListEvents, rowVars, MeetTypeOK
  <2>2. /\ ingest.at = "list" /\ ingest'.at = "events" /\ DOMAIN ingest'.batch = Listing
        /\ \A m \in Listing : ingest'.batch[m] = event[m]
        /\ UNCHANGED <<event, meeting, audit, missed, sinceIngest>> /\ changed' = {}
    BY <1>2 DEF ListEvents, rowVars
  <2>3. \A m \in Events \ changed : m \notin missed => Mirrors(m)
    BY <2>2 DEF RunMirrors, Listed
  <2>4. \A m \in Events : m \notin Listing => m \notin changed \/ event[m] = "absent"
    BY DEF Listing
  <2>5. \A m \in Events : m \notin Listing /\ m \notin missed => Mirrors(m)
    BY <2>3, <2>4 DEF Mirrors
  <2>6. \A m \in Listing : event[m] # "done"
    BY DEF Listing, MeetTypeOK, EventStates
  <2>7. RunMirrors'
    BY <2>2, <2>5, <2>6 DEF RunMirrors, Listed, Mirrors
  <2> QED
    BY <2>1, <2>2, <2>7 DEF MatchKnows, UserLinksLocked, AuditExplainsLink
<1>3. CASE PinToken
  <2>1. MeetTypeOK'
    BY <1>3 DEF PinToken, sourceVars, rowVars, MeetTypeOK
  <2>2. RunMirrors'
    BY <1>3 DEF PinToken, sourceVars, rowVars, RunMirrors, Mirrors, Listed
  <2> QED
    BY <1>3, <2>1, <2>2 DEF PinToken, sourceVars, rowVars, MatchKnows, UserLinksLocked,
       AuditExplainsLink
<1>4. CASE Reconcile
  <2>1. \A m \in Events :
          /\ Reconciled(m) \in Statuses \cup {"none"}
          /\ meeting[m].status \in {"cancelled", "none"} => Reconciled(m) = meeting[m].status
          /\ meeting[m].status \in Statuses \ {"cancelled"} => Reconciled(m) \in Statuses \ {"cancelled"}
    BY DEF Reconciled, Statuses, MeetTypeOK, MeetingRows
  <2>2. /\ \A m \in Events : meeting'[m] = [meeting[m] EXCEPT !.status = Reconciled(m)]
        /\ meeting' \in [Events -> MeetingRows]
    BY <1>4, <2>1 DEF Reconcile, MeetTypeOK, MeetingRows
  <2>3. \A m \in Events : /\ meeting'[m].status = Reconciled(m)
                          /\ meeting'[m].link = meeting[m].link
                          /\ meeting'[m].by = meeting[m].by
    BY <2>2 DEF MeetTypeOK, MeetingRows
  <2>4. MeetTypeOK'
    BY <1>4, <2>2 DEF Reconcile, sourceVars, NoIngest, MeetTypeOK
  <2>5. RunMirrors'
    BY <1>4, <2>1, <2>3 DEF Reconcile, sourceVars, NoIngest, RunMirrors, Mirrors, Listed
  <2> QED
    BY <1>4, <2>3, <2>4, <2>5 DEF Reconcile, NoIngest, MatchKnows, UserLinksLocked, AuditExplainsLink
<1>5. ASSUME NEW m \in Events, IngestCancelled(m) PROVE MeetInv'
  <2>1. /\ ingest.at = "events" /\ m \in DOMAIN ingest.batch /\ ingest.batch[m] = "cancelled"
        /\ ingest' = AfterEvent(m) /\ missed' = missed \ {m}
        /\ UNCHANGED <<event, phase, changed, audit, eventsToken, sinceIngest>>
    BY <1>5 DEF IngestCancelled, Takes, sourceVars
  <2>2. /\ meeting' \in [Events -> MeetingRows]
        /\ \A k \in Events : /\ k # m => meeting'[k] = meeting[k]
                             /\ meeting'[k].link = meeting[k].link
                             /\ meeting'[k].by = meeting[k].by
    BY <1>5 DEF IngestCancelled, MeetTypeOK, MeetingRows, Statuses
  <2>3. meeting'[m].status \in {"cancelled", "none"}
    BY <1>5 DEF IngestCancelled, Ingested, NoMeeting, MeetTypeOK, MeetingRows
  <2>4. /\ ingest' \in [at : {"events"}, batch : Batches] /\ ingest'.at = "events"
        /\ DOMAIN ingest'.batch = DOMAIN ingest.batch
        /\ \A k \in DOMAIN ingest.batch :
             ingest'.batch[k] = IF k = m THEN "done" ELSE ingest.batch[k]
    BY <2>1, EventDone
  <2>5. MeetTypeOK'
    BY <2>1, <2>2, <2>4 DEF MeetTypeOK
  <2>6. m \notin changed => event[m] = "cancelled"
    BY <2>1 DEF RunMirrors, Listed
  <2>7. RunMirrors'
    BY <2>1, <2>2, <2>3, <2>4, <2>6 DEF RunMirrors, Mirrors, Listed, Statuses
  <2>8. UserLinksLocked' /\ AuditExplainsLink'
    BY <2>1, <2>2, LinksKept
  <2>9. MatchKnows'
    BY <2>4 DEF MatchKnows
  <2> QED
    BY <2>5, <2>7, <2>8, <2>9
<1>6. ASSUME NEW m \in Events, IngestLive(m) PROVE MeetInv'
  <2>1. /\ ingest.at = "events" /\ m \in DOMAIN ingest.batch /\ ingest.batch[m] = "live"
        /\ missed' = missed \ {m} /\ sinceIngest' = sinceIngest \ {m}
        /\ UNCHANGED <<event, phase, changed, audit, eventsToken>>
    BY <1>6 DEF IngestLive, Takes, sourceVars
  <2>2. StatusAt(phase[m]) \in Statuses \ {"cancelled"}
    BY DEF StatusAt, Statuses, MeetTypeOK
  <2>3. /\ meeting' \in [Events -> MeetingRows]
        /\ meeting'[m].status \in Statuses \ {"cancelled"}
        /\ \A k \in Events : /\ k # m => meeting'[k] = meeting[k]
                             /\ meeting'[k].link = meeting[k].link
                             /\ meeting'[k].by = meeting[k].by
    BY <1>6, <2>2 DEF IngestLive, MeetTypeOK, MeetingRows
  <2>4. m \notin changed => event[m] = "live"
    BY <2>1 DEF RunMirrors, Listed
  <2>5. Mirrors(m)' \/ m \in changed
    BY <2>1, <2>3, <2>4 DEF Mirrors
  <2>6. \A k \in Events \ {m} : Mirrors(k)' = Mirrors(k)
    BY <2>1, <2>3 DEF Mirrors
  <2>9. UserLinksLocked' /\ AuditExplainsLink'
    BY <2>1, <2>3, LinksKept
  <2>7. CASE MatcherLocked(m)
    <3>1. ingest' = AfterEvent(m)
      BY <1>6, <2>7 DEF IngestLive
    <3>2. /\ ingest' \in [at : {"events"}, batch : Batches] /\ ingest'.at = "events"
          /\ DOMAIN ingest'.batch = DOMAIN ingest.batch
          /\ \A k \in DOMAIN ingest.batch :
               ingest'.batch[k] = IF k = m THEN "done" ELSE ingest.batch[k]
      BY <2>1, <3>1, EventDone
    <3>3. MeetTypeOK'
      BY <2>1, <2>3, <3>2 DEF MeetTypeOK
    <3>4. RunMirrors'
      BY <2>1, <2>5, <2>6, <3>2 DEF RunMirrors, Listed
    <3>5. MatchKnows'
      BY <3>2 DEF MatchKnows
    <3> QED
      BY <2>9, <3>3, <3>4, <3>5
  <2>8. CASE ~MatcherLocked(m)
    <3>1. ingest' = [at |-> "match", batch |-> ingest.batch, on |-> m]
      BY <1>6, <2>8 DEF IngestLive
    <3>2. ingest.batch \in Batches
      BY <2>1 DEF MeetTypeOK
    <3>3. MeetTypeOK'
      BY <2>1, <2>3, <3>1, <3>2 DEF MeetTypeOK
    <3>4. RunMirrors'
      BY <2>1, <2>5, <2>6, <3>1 DEF RunMirrors, Listed
    <3>5. meeting[m].by # "user"
      BY <2>8 DEF MatcherLocked, UserLinksLocked
    <3>6. MatchKnows'
      BY <2>1, <2>3, <3>1, <3>5 DEF MatchKnows
    <3> QED
      BY <2>9, <3>3, <3>4, <3>6
  <2> QED
    BY <2>7, <2>8
<1>7. ASSUME NEW link \in {"unlinked", "suggested", "confirmed"}, PersistDecision(link)
      PROVE  MeetInv'
  <2> DEFINE m == ingest.on
  <2>1. /\ ingest.at = "match" /\ ingest' = AfterEvent(m)
        /\ meeting' = [meeting EXCEPT ![m].link = link, ![m].by = "matcher"]
        /\ audit' = [audit EXCEPT ![m] = [method |-> "matcher", outcome |-> "accepted"]]
        /\ UNCHANGED <<event, phase, changed, eventsToken, missed, sinceIngest>>
    BY <1>7 DEF PersistDecision, sourceVars
  <2>2. m \in Events /\ m \in DOMAIN ingest.batch /\ ingest.batch[m] = "live"
    BY <2>1 DEF MeetTypeOK, MatchKnows
  <2>3. /\ ingest' \in [at : {"events"}, batch : Batches] /\ ingest'.at = "events"
        /\ DOMAIN ingest'.batch = DOMAIN ingest.batch
        /\ \A k \in DOMAIN ingest.batch :
             ingest'.batch[k] = IF k = m THEN "done" ELSE ingest.batch[k]
    BY <2>1, <2>2, EventDone
  <2>4. /\ meeting' \in [Events -> MeetingRows]
        /\ meeting'[m].link = link /\ meeting'[m].by = "matcher"
        /\ \A k \in Events : /\ k # m => meeting'[k] = meeting[k]
                             /\ meeting'[k].status = meeting[k].status
    BY <2>1, <2>2 DEF MeetTypeOK, MeetingRows
  <2>5. audit' \in [Events -> AuditRows] /\ \A k \in Events \ {m} : audit'[k] = audit[k]
    BY <2>1 DEF MeetTypeOK, AuditRows
  <2>6. audit'[m].outcome = "accepted" /\ audit'[m].method = "matcher"
    BY <2>1, <2>2 DEF MeetTypeOK
  <2>7. MeetTypeOK'
    BY <2>1, <2>3, <2>4, <2>5 DEF MeetTypeOK
  <2>8. m \notin changed => event[m] = "live" /\ Mirrors(m)
    BY <2>1, <2>2 DEF RunMirrors, MatchKnows, Listed, Mirrors
  <2>9. RunMirrors'
    BY <2>1, <2>3, <2>4, <2>8 DEF RunMirrors, Mirrors, Listed
  <2> QED
    BY <2>3, <2>4, <2>5, <2>6, <2>7, <2>9 DEF MatchKnows, UserLinksLocked, AuditExplainsLink
<1>8. ASSUME NEW m \in Events, NEW state \in {"live", "cancelled"}, ChangeEvent(m, state)
      PROVE  MeetInv'
  <2>1. MeetTypeOK'
    BY <1>8 DEF ChangeEvent, rowVars, ingestVars, MeetTypeOK, EventStates
  <2>2. RunMirrors'
    BY <1>8 DEF ChangeEvent, rowVars, ingestVars, MeetTypeOK, RunMirrors, Mirrors, Listed
  <2> QED
    BY <1>8, <2>1, <2>2 DEF ChangeEvent, rowVars, ingestVars, MatchKnows, UserLinksLocked,
       AuditExplainsLink
<1>9. ASSUME NEW m \in Events, TimePasses(m) PROVE MeetInv'
  <2>1. MeetTypeOK'
    BY <1>9 DEF TimePasses, rowVars, ingestVars, MeetTypeOK
  <2> QED
    BY <1>9, <2>1, RunKept DEF TimePasses, rowVars, ingestVars, MatchKnows, UserLinksLocked,
       AuditExplainsLink
<1>10. ASSUME NEW m \in Events, ConfirmLink(m) PROVE MeetInv'
  <2>1. /\ UNCHANGED <<event, phase, changed, eventsToken, ingest, missed>>
        /\ sinceIngest' = sinceIngest \cup {m}
        /\ meeting' = [meeting EXCEPT ![m].link = "confirmed", ![m].by = "user"]
    BY <1>10 DEF ConfirmLink, UserLinks, sourceVars, ingestVars
  <2>2. /\ meeting' \in [Events -> MeetingRows]
        /\ meeting'[m].link = "confirmed" /\ meeting'[m].by = "user"
        /\ \A k \in Events : /\ k # m => meeting'[k] = meeting[k]
                             /\ meeting'[k].status = meeting[k].status
    <3> DEFINE new == [meeting[m] EXCEPT !.link = "confirmed", !.by = "user"]
    <3>1. meeting[m] \in MeetingRows /\ meeting' = [meeting EXCEPT ![m] = new]
      BY <2>1 DEF MeetTypeOK
    <3>2. /\ new \in MeetingRows /\ new.status = meeting[m].status
          /\ new.link = "confirmed" /\ new.by = "user"
      BY <3>1 DEF MeetingRows
    <3> HIDE DEF new
    <3> QED
      BY <3>1, <3>2 DEF MeetTypeOK
  <2>3. /\ audit' \in [Events -> AuditRows] /\ \A k \in Events \ {m} : audit'[k] = audit[k]
        /\ audit'[m].outcome \in {"accepted"}
    BY <1>10 DEF ConfirmLink, MeetTypeOK, AuditRows
  <2>4. MeetTypeOK'
    BY <2>1, <2>2, <2>3 DEF MeetTypeOK
  <2>5. RunMirrors'
    BY <2>1, <2>2, RunKept
  <2>6. UserLinksLocked' /\ AuditExplainsLink'
    BY <2>2, <2>3 DEF UserLinksLocked, AuditExplainsLink
  <2>7. ingest.at = "match" => ingest.on \in Events
    BY DEF MeetTypeOK
  <2>8. MatchKnows'
    BY <2>1, <2>2, <2>7 DEF MatchKnows
  <2> QED
    BY <2>4, <2>5, <2>6, <2>8
<1>11. ASSUME NEW m \in Events, RejectLink(m) PROVE MeetInv'
  <2>1. /\ UNCHANGED <<event, phase, changed, eventsToken, ingest, missed>>
        /\ sinceIngest' = sinceIngest \cup {m}
        /\ meeting' = [meeting EXCEPT ![m].link = "rejected", ![m].by = "user"]
    BY <1>11 DEF RejectLink, UserLinks, sourceVars, ingestVars
  <2>2. /\ meeting' \in [Events -> MeetingRows]
        /\ meeting'[m].link = "rejected" /\ meeting'[m].by = "user"
        /\ \A k \in Events : /\ k # m => meeting'[k] = meeting[k]
                             /\ meeting'[k].status = meeting[k].status
    <3> DEFINE new == [meeting[m] EXCEPT !.link = "rejected", !.by = "user"]
    <3>1. meeting[m] \in MeetingRows /\ meeting' = [meeting EXCEPT ![m] = new]
      BY <2>1 DEF MeetTypeOK
    <3>2. /\ new \in MeetingRows /\ new.status = meeting[m].status
          /\ new.link = "rejected" /\ new.by = "user"
      BY <3>1 DEF MeetingRows
    <3> HIDE DEF new
    <3> QED
      BY <3>1, <3>2 DEF MeetTypeOK
  <2>3. /\ audit' \in [Events -> AuditRows] /\ \A k \in Events \ {m} : audit'[k] = audit[k]
        /\ audit'[m].outcome \in {"rejected", "none"}
    BY <1>11 DEF RejectLink, MeetTypeOK, AuditRows, Judged, NoAudit
  <2>4. MeetTypeOK'
    BY <2>1, <2>2, <2>3 DEF MeetTypeOK
  <2>5. RunMirrors'
    BY <2>1, <2>2, RunKept
  <2>6. UserLinksLocked' /\ AuditExplainsLink'
    BY <2>2, <2>3 DEF UserLinksLocked, AuditExplainsLink
  <2>7. ingest.at = "match" => ingest.on \in Events
    BY DEF MeetTypeOK
  <2>8. MatchKnows'
    BY <2>1, <2>2, <2>7 DEF MatchKnows
  <2> QED
    BY <2>4, <2>5, <2>6, <2>8
<1>12. ASSUME NEW m \in Events, IngestFails(m) PROVE MeetInv'
  <2>1. /\ ingest.at \in {"events", "match"} /\ m \in DOMAIN ingest.batch
        /\ ingest.at = "match" => m = ingest.on
        /\ missed' = IF ingest.at = "events" THEN missed \cup {m} ELSE missed
        /\ ingest' = AfterEvent(m)
        /\ UNCHANGED <<event, phase, changed, meeting, audit, eventsToken, sinceIngest>>
    BY <1>12 DEF IngestFails, Takes, sourceVars, rowVars, MatchKnows
  <2>2. /\ ingest' \in [at : {"events"}, batch : Batches] /\ ingest'.at = "events"
        /\ DOMAIN ingest'.batch = DOMAIN ingest.batch
        /\ \A k \in DOMAIN ingest.batch :
             ingest'.batch[k] = IF k = m THEN "done" ELSE ingest.batch[k]
    BY <2>1, EventDone
  <2>3. MeetTypeOK'
    BY <2>1, <2>2 DEF MeetTypeOK
  <2>4. ingest.at = "match" /\ m \notin changed => Mirrors(m)
    BY <2>1 DEF RunMirrors, MatchKnows, Listed, Mirrors
  <2>5. RunMirrors'
    BY <2>1, <2>2, <2>4 DEF RunMirrors, Mirrors, Listed
  <2> QED
    BY <2>1, <2>2, <2>3, <2>5 DEF MatchKnows, UserLinksLocked, AuditExplainsLink
<1>13. CASE Backfill \/ EventsTokenExpires
  <2>1. MeetTypeOK'
    BY <1>13 DEF Backfill, EventsTokenExpires, sourceVars, rowVars, MeetTypeOK
  <2> QED
    BY <1>13, <2>1, RunKept DEF Backfill, EventsTokenExpires, sourceVars, rowVars, MatchKnows,
       UserLinksLocked, AuditExplainsLink
<1>14. CASE IngestCrash
  <2>1. /\ changed' = changed \cup Listed /\ ingest' = NoIngest
        /\ UNCHANGED <<event, phase, meeting, audit, eventsToken, missed, sinceIngest>>
    BY <1>14 DEF IngestCrash, Listed, rowVars
  <2>2. Listed \subseteq Events
    BY BatchTyped DEF Listed
  <2>3. MeetTypeOK'
    BY <2>1, <2>2 DEF MeetTypeOK, NoIngest
  <2>4. RunMirrors'
    BY <2>1 DEF RunMirrors, Mirrors, Listed, NoIngest
  <2> QED
    BY <2>1, <2>3, <2>4 DEF MatchKnows, NoIngest, UserLinksLocked, AuditExplainsLink
<1>15. CASE UNCHANGED meetVars
  <2>1. UNCHANGED <<event, changed, phase, meeting, audit, eventsToken, ingest, missed, sinceIngest>>
    BY <1>15 DEF meetVars, sourceVars, rowVars, ingestVars
  <2> QED
    BY <2>1 DEF MeetTypeOK, RunMirrors, Mirrors, Listed, MatchKnows, UserLinksLocked,
       AuditExplainsLink
<1> QED
  BY <1>1, <1>2, <1>3, <1>4, <1>5, <1>6, <1>7, <1>8, <1>9, <1>10, <1>11, <1>12, <1>13, <1>14, <1>15
     DEF MeetNext, MeetWork

\* Of all steps only the write of a decision makes a link the matcher's.
LEMMA OnlyDecisions ==
    ASSUME MeetTypeOK, [MeetNext]_meetVars, NEW m \in Events,
           meeting[m].by = "user", meeting'[m].by = "matcher"
    PROVE  ingest.at = "match" /\ m = ingest.on
<1> DEFINE Kept == meeting'[m].by \in {meeting[m].by, "user"}
<1>1. ASSUME NEW k \in Events, IngestCancelled(k) \/ IngestLive(k) \/ ConfirmLink(k) \/ RejectLink(k)
      PROVE  Kept
  BY <1>1 DEF IngestCancelled, IngestLive, ConfirmLink, RejectLink, MeetTypeOK, MeetingRows
<1>2. ASSUME Reconcile PROVE Kept
  BY <1>2 DEF Reconcile, MeetTypeOK, MeetingRows
<1>3. ASSUME UNCHANGED meeting PROVE Kept
  BY <1>3
<1>4. ASSUME NEW link \in {"unlinked", "suggested", "confirmed"}, PersistDecision(link)
      PROVE  Kept \/ (ingest.at = "match" /\ m = ingest.on)
  BY <1>4 DEF PersistDecision, MeetTypeOK, MeetingRows
<1>5. ASSUME NEW k \in Events, IngestFails(k) \/ TimePasses(k) \/ ChangeEvent(k, "live")
                                \/ ChangeEvent(k, "cancelled")
      PROVE  UNCHANGED meeting
  BY <1>5 DEF IngestFails, TimePasses, ChangeEvent, rowVars
<1>6. ASSUME \/ StartPull \/ ListEvents \/ PinToken \/ Backfill \/ EventsTokenExpires
             \/ IngestCrash \/ UNCHANGED meetVars
      PROVE  UNCHANGED meeting
  BY <1>6 DEF StartPull, ListEvents, PinToken, Backfill, EventsTokenExpires, IngestCrash, rowVars,
     meetVars
<1> QED
  BY <1>1, <1>2, <1>3, <1>4, <1>5, <1>6 DEF MeetNext, MeetWork

\* Between runs every event that was not skipped and has not changed since is
\* mirrored, the newest audit row explains the link, and the matcher replaces a
\* user's link only if it was set after the ingest had looked
\* (googleCalendarPull.ts, routes/meetings.ts), for any number of events.
THEOREM LinksAreSafe == MeetSpec => LinksSafe
<1>1. MeetInv => CalendarMirrored /\ AuditExplainsLink
  <2> SUFFICES ASSUME MeetInv PROVE CalendarMirrored
    BY DEF MeetInv
  <2>1. ingest.at = "idle" => \A m \in Events \ (missed \cup changed) : Mirrors(m)
    BY DEF MeetInv, RunMirrors, Listed
  <2> QED
    BY <2>1 DEF CalendarMirrored, Mirrors
<1>2. MeetInv /\ [MeetNext]_meetVars =>
        [\A m \in Events :
           meeting[m].by = "user" /\ meeting'[m].by = "matcher" => m \in sinceIngest]_meetVars
  BY OnlyDecisions DEF MeetInv, MatchKnows
<1> QED
  BY <1>1, <1>2, InitMeet, StepMeet, PTL DEF MeetSpec, LinksSafe, UserLinkStands

-----------------------------------------------------------------------------
(***************************************************************************)
(* The greatest of finitely many numbers.                                  *)
(***************************************************************************)

LEMMA LeastNat ==
    ASSUME NEW T \in SUBSET Nat, T # {}
    PROVE  \E n \in T : \A m \in T : n <= m
<1>1. \E n \in T : \A m \in T : <<m, n>> \notin OpToRel(<, Nat)
  BY NatLessThanWellFounded, WFMin
<1>2. \A m, n \in Nat : <<m, n>> \notin OpToRel(<, Nat) => n <= m
  BY DEF OpToRel
<1> QED
  BY <1>1, <1>2

\* The greatest is the one with the fewest above it.
LEMMA MaxIsIn ==
    ASSUME NEW S \in SUBSET Nat, IsFiniteSet(S), S # {}
    PROVE  Max(S) \in S
<1> DEFINE above(m) == {k \in S : k > m}
           T == {Cardinality(above(m)) : m \in S}
<1>1. \A m \in S : IsFiniteSet(above(m)) /\ Cardinality(above(m)) \in Nat
  BY FS_Subset, FS_CardinalityType
<1>2. PICK m \in S : \A n \in S : Cardinality(above(m)) <= Cardinality(above(n))
  <2>1. T \in SUBSET Nat /\ T # {}
    BY <1>1
  <2>2. PICK n \in T : \A i \in T : n <= i
    BY <2>1, LeastNat
  <2> QED
    BY <2>2
<1>3. \A k \in S : m >= k
  <2> SUFFICES ASSUME NEW k \in S, k > m PROVE FALSE
    OBVIOUS
  <2>1. k \in Nat /\ m \in Nat
    OBVIOUS
  <2>2. ASSUME NEW j \in above(k)
        PROVE  j \in above(m)
    <3>1. j \in Nat /\ j \in S /\ j > k
      OBVIOUS
    <3> QED
      BY <2>1, <3>1
  <2>3. k \in above(m) /\ k \notin above(k)
    OBVIOUS
  <2>4. /\ Cardinality(above(k)) <= Cardinality(above(m))
        /\ Cardinality(above(k)) # Cardinality(above(m))
    BY <1>1, <2>2, <2>3, FS_Subset
  <2> QED
    BY <1>1, <1>2, <2>4
<1> QED
  BY <1>3 DEF Max

-----------------------------------------------------------------------------
(***************************************************************************)
(* The artifact watcher.                                                   *)
(***************************************************************************)

Found == [media : BOOLEAN, doc : BOOLEAN, excerpt : BOOLEAN]
ArtifactRows == [found : Found, processed : BOOLEAN, partial : BOOLEAN]
Scans == [at : {"expire", "meetings", "note", "items"}, late : SUBSET Meetings,
          left : SUBSET Meetings, owned : SUBSET Meetings,
          seen : UNION {[S -> Found] : S \in SUBSET Meetings}, text : BOOLEAN, parsed : BOOLEAN]

ArtifactsTypeOK ==
    /\ ended \subseteq Meetings /\ summary \subseteq Meetings /\ linked \subseteq Meetings
    /\ aged \subseteq Meetings \X {"end", "ingest"}
    /\ row \in [Meetings -> ArtifactRows]
    /\ notes \in [Meetings -> Nat] /\ tasks \in [Meetings -> [ActionItems -> Nat]]
    /\ scan \in {NoScan} \cup Scans
    /\ scan.at # "idle" => scan.seen \in [scan.left -> Found]
    /\ asked \subseteq Meetings /\ cut \subseteq Meetings
    /\ refreshes \in Nat /\ scanFaults \in Nat

InHand == scan.at \in {"note", "items"}
HasTasks(m) == \A i \in ActionItems : tasks[m][i] = 1

\* Runs exclude each other, so what a run read of the meetings it has not come
\* to is what their rows hold, and those it gives up are past the deadline.  A
\* meeting in hand whose summary is not parsed had its tasks before.
ScanKnows ==
    /\ scan.at = "expire" => \A m \in scan.late : PastGiveUp(m)
    /\ scan.at # "idle" => \A m \in scan.left :
         (InHand => m # Max(scan.left)) => scan.seen[m] = row[m].found
    /\ InHand => scan.left # {}
    /\ scan.at = "note" /\ ~scan.parsed =>
         \A m \in Meetings \ cut : m = Max(scan.left) /\ row[m].found.excerpt => HasTasks(m)

ArtifactsInv == ArtifactsTypeOK /\ ScanKnows /\ ArtifactsSound

LEMMA InitArtifacts == ArtifactsInit => ArtifactsInv
<1> SUFFICES ASSUME ArtifactsInit PROVE ArtifactsInv
  OBVIOUS
<1>1. ArtifactsTypeOK
  BY DEF ArtifactsInit, ArtifactsTypeOK, ArtifactRows, Found, NoScan
<1>2. \A m \in Meetings : ~row[m].partial /\ ~row[m].found.excerpt
  BY DEF ArtifactsInit
<1>3. ScanKnows
  BY DEF ArtifactsInit, ScanKnows, NoScan, InHand
<1>4. ArtifactsSound
  BY <1>2 DEF ArtifactsInit, ArtifactsSound, MadeOnce, ExcerptHasTasks, GivenUpAfterDeadline
<1> QED
  BY <1>1, <1>3, <1>4 DEF ArtifactsInv

\* The meeting a run comes to is one it has left.
LEMMA NextMeeting ==
    ASSUME ArtifactsTypeOK, scan \in Scans, scan.left # {}
    PROVE  Max(scan.left) \in scan.left /\ Max(scan.left) \in Meetings
<1>1. scan.left \in SUBSET Nat /\ scan.left \subseteq Meetings
  BY ArtifactsAssumption DEF Scans
<1>2. IsFiniteSet(scan.left)
  BY <1>1, ArtifactsAssumption, FS_Subset
<1> QED
  BY <1>1, <1>2, MaxIsIn

\* A run that has done with a meeting holds the rest as it read it.
LEMMA PastTyped ==
    ASSUME ArtifactsTypeOK, scan \in Scans, NEW m, NEW new, new = PastMeeting(m)
    PROVE  /\ new \in Scans /\ new.at = "meetings" /\ new.left = scan.left \ {m}
           /\ new.seen \in [new.left -> Found]
           /\ \A k \in new.left : new.seen[k] = scan.seen[k]
<1> DEFINE rest == [k \in scan.left \ {m} |-> scan.seen[k]]
<1>1. scan.seen \in [scan.left -> Found] /\ scan.left \subseteq Meetings
  BY DEF ArtifactsTypeOK, Scans
<1>2. rest \in [scan.left \ {m} -> Found] /\ scan.left \ {m} \in SUBSET Meetings
  BY <1>1
<1>3. rest \in UNION {[S -> Found] : S \in SUBSET Meetings}
  BY <1>2
<1>4. new = [scan EXCEPT !.at = "meetings", !.left = scan.left \ {m}, !.owned = scan.owned \ {m},
               !.seen = rest, !.text = FALSE, !.parsed = FALSE]
  BY DEF PastMeeting
<1>5. \A k \in scan.left \ {m} : rest[k] = scan.seen[k]
  OBVIOUS
<1> HIDE DEF rest
<1>6. /\ scan.left \ {m} \in SUBSET Meetings /\ scan.owned \ {m} \in SUBSET Meetings
      /\ scan.late \in SUBSET Meetings
  BY DEF Scans
<1>7. new = [at |-> "meetings", late |-> scan.late, left |-> scan.left \ {m},
             owned |-> scan.owned \ {m}, seen |-> rest, text |-> FALSE, parsed |-> FALSE]
  BY <1>4 DEF Scans
<1>8. new \in Scans
  BY <1>3, <1>6, <1>7 DEF Scans
<1> QED
  BY <1>2, <1>5, <1>7, <1>8

\* Steps that touch neither rows, tasks, notes nor the run, and undo no hour.
LEMMA OutsideStep ==
    ASSUME ArtifactsInv, ArtifactsTypeOK', UNCHANGED <<row, productVars, scan, cut>>,
           aged \subseteq aged'
    PROVE  ArtifactsInv'
<1> USE DEF productVars
<1>1. \A m \in Meetings : PastGiveUp(m) => PastGiveUp(m)'
  BY DEF PastGiveUp
<1>2. ScanKnows'
  BY <1>1 DEF ArtifactsInv, ArtifactsTypeOK, ScanKnows, InHand, HasTasks, Scans, NoScan
<1>3. ArtifactsSound'
  BY DEF ArtifactsInv, ArtifactsSound, MadeOnce, ExcerptHasTasks, GivenUpAfterDeadline
<1> QED
  BY <1>2, <1>3 DEF ArtifactsInv

LEMMA StartScanStep ==
    ASSUME ArtifactsInv, StartScan
    PROVE  ArtifactsInv'
<1> DEFINE late == {m \in Candidates : PastGiveUp(m)}
           left == Newest(RunCap, Candidates \ late)
           seen == [m \in left |-> row[m].found]
<1>1. /\ scan' = [at |-> "expire", late |-> late, left |-> left, owned |-> linked \cap left,
                  seen |-> seen, text |-> FALSE, parsed |-> FALSE]
      /\ UNCHANGED <<googleVars, row, productVars, asked, cut, refreshes, scanFaults>>
  BY DEF StartScan
<1>2. late \subseteq Meetings /\ left \subseteq Meetings
  BY DEF Candidates, Newest, ArtifactsInv, ArtifactsTypeOK
<1>3. \A m \in late : PastGiveUp(m)
  OBVIOUS
<1> HIDE DEF late, left
<1>4. seen \in [left -> Found] /\ \A m \in left : seen[m] = row[m].found
  BY <1>2 DEF ArtifactsInv, ArtifactsTypeOK, ArtifactRows
<1> HIDE DEF seen
<1>5. scan' \in Scans /\ scan'.seen \in [scan'.left -> Found] /\ scan'.at = "expire"
  BY <1>1, <1>2, <1>4 DEF Scans
<1>6. ArtifactsTypeOK'
  BY <1>1, <1>5 DEF ArtifactsInv, ArtifactsTypeOK, googleVars, productVars
<1>7. ScanKnows'
  BY <1>1, <1>3, <1>4, <1>5 DEF ScanKnows, InHand, PastGiveUp, googleVars
<1>8. scan.at = "idle"
  BY DEF StartScan
<1>9. ArtifactsSound'
  BY <1>1, <1>5, <1>8 DEF ArtifactsInv, ArtifactsSound, MadeOnce, ExcerptHasTasks,
     GivenUpAfterDeadline, googleVars, productVars
<1> QED
  BY <1>6, <1>7, <1>9 DEF ArtifactsInv

LEMMA MarkExpiredStep ==
    ASSUME ArtifactsInv, MarkExpired
    PROVE  ArtifactsInv'
<1>1. /\ scan \in Scans /\ scan.at = "expire"
      /\ row' = GivenUp(scan.late) /\ scan' = [scan EXCEPT !.at = "meetings", !.late = {}]
      /\ UNCHANGED <<googleVars, productVars, asked, cut, refreshes, scanFaults>>
  BY DEF MarkExpired, ArtifactsInv, ArtifactsTypeOK, NoScan
<1>2. /\ scan' \in Scans /\ scan'.at = "meetings" /\ scan'.left = scan.left
      /\ scan'.seen = scan.seen
  BY <1>1 DEF Scans
<1>3. \A m \in Meetings :
        /\ row'[m] \in ArtifactRows /\ row'[m].found = row[m].found
        /\ row'[m].partial => row[m].partial \/ m \in scan.late
  BY <1>1 DEF GivenUp, ArtifactsInv, ArtifactsTypeOK, ArtifactRows
<1>4. row' \in [Meetings -> ArtifactRows]
  BY <1>1, <1>3 DEF GivenUp
<1>5. ArtifactsTypeOK'
  BY <1>1, <1>2, <1>4 DEF ArtifactsInv, ArtifactsTypeOK, googleVars, productVars, Scans
<1>6. scan.left \subseteq Meetings
  BY <1>1 DEF Scans
<1>7. ScanKnows'
  BY <1>1, <1>2, <1>3, <1>6 DEF ArtifactsInv, ScanKnows, InHand
<1>8. MadeOnce' /\ ExcerptHasTasks'
  BY <1>1, <1>2, <1>3 DEF ArtifactsInv, ArtifactsSound, MadeOnce, ExcerptHasTasks, productVars
<1>9. GivenUpAfterDeadline'
  BY <1>1, <1>3 DEF ArtifactsInv, ArtifactsSound, GivenUpAfterDeadline, ScanKnows, PastGiveUp,
     googleVars
<1> QED
  BY <1>5, <1>7, <1>8, <1>9 DEF ArtifactsInv, ArtifactsSound

LEMMA FetchStep ==
    ASSUME ArtifactsInv, NEW found \in BOOLEAN, NEW body \in {"none", "items", "full"},
           FetchArtifacts(found, body)
    PROVE  ArtifactsInv'
<1> DEFINE m     == Max(scan.left)
           seen  == scan.seen[m]
           media == seen.media \/ found
           doc   == seen.doc \/ m \in summary
           parse == doc /\ ~seen.excerpt /\ body # "none"
           text  == seen.excerpt \/ (parse /\ body = "full")
           new   == [found |-> [media |-> media, doc |-> doc, excerpt |-> text],
                     processed |-> media /\ doc, partial |-> ~(media /\ doc) /\ PastGiveUp(m)]
<1>1. /\ scan.at = "meetings" /\ scan.left # {}
      /\ row' = [row EXCEPT ![m] = new]
      /\ scan' = [scan EXCEPT !.at = "note", !.text = text, !.parsed = parse]
      /\ asked' = asked \ {m}
      /\ UNCHANGED <<googleVars, productVars, cut, refreshes, scanFaults>>
  BY DEF FetchArtifacts
<1>2. scan \in Scans
  BY <1>1 DEF ArtifactsInv, ArtifactsTypeOK, NoScan
<1>3. m \in scan.left /\ m \in Meetings
  BY <1>1, <1>2, NextMeeting DEF ArtifactsInv
<1>4. scan.seen \in [scan.left -> Found] /\ seen \in Found /\ seen = row[m].found
  BY <1>1, <1>3 DEF ArtifactsInv, ArtifactsTypeOK, ScanKnows, InHand
<1>5. /\ new \in ArtifactRows /\ text \in BOOLEAN /\ parse \in BOOLEAN
      /\ new.partial => PastGiveUp(m)
      /\ new.found.excerpt = text
      /\ ~parse => text = seen.excerpt
  BY <1>4 DEF Found, ArtifactRows, PastGiveUp
<1>6. PastGiveUp(m)' = PastGiveUp(m)
  BY <1>1 DEF PastGiveUp, googleVars
<1> HIDE DEF new, text, parse, seen
<1>7. /\ scan' \in Scans /\ scan'.at = "note" /\ scan'.left = scan.left
      /\ scan'.seen = scan.seen /\ scan'.parsed = parse
  BY <1>1, <1>2, <1>5 DEF Scans
<1>8. /\ row' \in [Meetings -> ArtifactRows] /\ row'[m] = new
      /\ \A k \in Meetings : k # m => row'[k] = row[k]
  BY <1>1, <1>3, <1>5 DEF ArtifactsInv, ArtifactsTypeOK
<1>9. ArtifactsTypeOK'
  BY <1>1, <1>4, <1>7, <1>8 DEF ArtifactsInv, ArtifactsTypeOK, googleVars, productVars
<1>10. ~parse /\ m \notin cut /\ new.found.excerpt => HasTasks(m)
  BY <1>1, <1>3, <1>4, <1>5 DEF ArtifactsInv, ArtifactsSound, ExcerptHasTasks, HasTasks
<1>11. ScanKnows'
  <2>1. \A k \in scan'.left : k # Max(scan'.left) => scan'.seen[k] = row'[k].found
    BY <1>1, <1>2, <1>7, <1>8 DEF ArtifactsInv, ScanKnows, InHand, Scans
  <2>2. \A k \in Meetings : HasTasks(k)' = HasTasks(k)
    BY <1>1 DEF HasTasks, productVars
  <2>3. ~scan'.parsed => \A k \in Meetings \ cut' :
          k = Max(scan'.left) /\ row'[k].found.excerpt => HasTasks(k)'
    BY <1>1, <1>7, <1>8, <1>10, <2>2
  <2> QED
    BY <1>1, <1>7, <2>1, <2>3 DEF ScanKnows, InHand
<1>12. MadeOnce' /\ ExcerptHasTasks'
  BY <1>1, <1>7, <1>8 DEF ArtifactsInv, ArtifactsSound, MadeOnce, ExcerptHasTasks, productVars
<1>13. GivenUpAfterDeadline'
  BY <1>1, <1>5, <1>8 DEF ArtifactsInv, ArtifactsSound, GivenUpAfterDeadline, PastGiveUp, googleVars
<1> QED
  BY <1>9, <1>11, <1>12, <1>13 DEF ArtifactsInv, ArtifactsSound

\* A run leaves the meeting in hand, with its tasks made or its work cut short.
LEMMA LeaveMeeting ==
    ASSUME ArtifactsInv, ArtifactsTypeOK', scan \in Scans, scan.left # {},
           scan' = PastMeeting(Max(scan.left)),
           UNCHANGED <<googleVars, row>>, MadeOnce', cut \subseteq cut',
           \A m \in Meetings : m # Max(scan.left) => tasks'[m] = tasks[m],
           \A m \in Meetings \ cut' : m = Max(scan.left) /\ row[m].found.excerpt => HasTasks(m)'
    PROVE  ArtifactsInv'
<1>1. /\ scan' \in Scans /\ scan'.at = "meetings" /\ scan'.left = scan.left \ {Max(scan.left)}
      /\ \A k \in scan'.left : scan'.seen[k] = scan.seen[k]
  BY PastTyped DEF ArtifactsInv
<1>2. ScanKnows'
  BY <1>1 DEF ArtifactsInv, ScanKnows, InHand, Scans
<1>3. \A m \in Meetings \ cut : row[m].found.excerpt /\ m # Max(scan.left) => HasTasks(m)
  BY DEF ArtifactsInv, ArtifactsSound, ExcerptHasTasks, HasTasks
<1>4. ExcerptHasTasks'
  BY <1>1, <1>3 DEF ExcerptHasTasks, HasTasks
<1>5. GivenUpAfterDeadline'
  BY DEF ArtifactsInv, ArtifactsSound, GivenUpAfterDeadline, googleVars
<1> QED
  BY <1>2, <1>4, <1>5 DEF ArtifactsInv, ArtifactsSound

LEMMA NoteStep ==
    ASSUME ArtifactsInv, EnsureSummaryNote
    PROVE  ArtifactsInv'
<1> DEFINE m == Max(scan.left)
<1>1. /\ scan \in Scans /\ scan.at = "note" /\ scan.left # {}
      /\ notes' = IF scan.text THEN [notes EXCEPT ![m] = NotesAfter(m)] ELSE notes
      /\ scan' = IF scan.parsed THEN [scan EXCEPT !.at = "items"] ELSE PastMeeting(m)
      /\ UNCHANGED <<googleVars, row, tasks, asked, cut, refreshes, scanFaults>>
  BY DEF EnsureSummaryNote, ItemsFollow, ArtifactsInv, ArtifactsTypeOK, NoScan, ScanKnows, InHand
<1>2. m \in scan.left /\ m \in Meetings
  BY <1>1, NextMeeting DEF ArtifactsInv
<1>3. NotesAfter(m) \in Nat /\ NotesAfter(m) <= 1
  BY <1>2 DEF NotesAfter, ArtifactsInv, ArtifactsTypeOK, ArtifactsSound, MadeOnce
<1>4. notes' \in [Meetings -> Nat] /\ \A k \in Meetings : notes'[k] <= 1
  BY <1>1, <1>2, <1>3 DEF ArtifactsInv, ArtifactsTypeOK, ArtifactsSound, MadeOnce
<1>5. MadeOnce'
  BY <1>1, <1>4 DEF ArtifactsInv, ArtifactsSound, MadeOnce
<1>6. CASE scan.parsed
  <2>1. /\ scan' \in Scans /\ scan'.at = "items" /\ scan'.left = scan.left /\ scan'.seen = scan.seen
        /\ scan'.parsed = scan.parsed
    BY <1>1, <1>6 DEF Scans
  <2>2. ArtifactsTypeOK'
    BY <1>1, <1>4, <2>1 DEF ArtifactsInv, ArtifactsTypeOK, googleVars
  <2>3. ScanKnows'
    BY <1>1, <2>1 DEF ArtifactsInv, ScanKnows, InHand, Scans
  <2>4. ExcerptHasTasks' /\ GivenUpAfterDeadline'
    BY <1>1, <2>1 DEF ArtifactsInv, ArtifactsSound, ExcerptHasTasks, GivenUpAfterDeadline,
       googleVars
  <2> QED
    BY <1>5, <2>2, <2>3, <2>4 DEF ArtifactsInv, ArtifactsSound
<1>7. CASE ~scan.parsed
  <2>1. scan' = PastMeeting(m)
    BY <1>1, <1>7
  <2>2. scan' \in Scans /\ scan'.seen \in [scan'.left -> Found]
    BY <1>1, <2>1, PastTyped DEF ArtifactsInv
  <2>3. ArtifactsTypeOK'
    BY <1>1, <1>4, <2>2 DEF ArtifactsInv, ArtifactsTypeOK, googleVars
  <2>4. \A k \in Meetings \ cut' : k = m /\ row[k].found.excerpt => HasTasks(k)'
    BY <1>1, <1>7 DEF ArtifactsInv, ScanKnows, HasTasks
  <2> QED
    BY <1>1, <1>5, <2>1, <2>3, <2>4, LeaveMeeting
<1> QED
  BY <1>6, <1>7

\* Tasks are made of the items that have none, of all of them or of some.
LEMMA TasksAfterOnce ==
    ASSUME ArtifactsInv, NEW m \in Meetings
    PROVE  /\ TasksAfter(m) \in [ActionItems -> Nat]
           /\ \A i \in ActionItems : TasksAfter(m)[i] = 1
<1>1. \A i \in ActionItems : tasks[m][i] \in Nat /\ tasks[m][i] <= 1
  BY DEF ArtifactsInv, ArtifactsTypeOK, ArtifactsSound, MadeOnce
<1> QED
  BY <1>1 DEF TasksAfter

LEMMA ItemsStep ==
    ASSUME ArtifactsInv, MaterializeActionItems
    PROVE  ArtifactsInv'
<1> DEFINE m == Max(scan.left)
<1>1. /\ scan \in Scans /\ scan.at = "items" /\ scan.left # {}
      /\ tasks' = [tasks EXCEPT ![m] = TasksAfter(m)]
      /\ scan' = PastMeeting(m)
      /\ UNCHANGED <<googleVars, row, notes, asked, cut, refreshes, scanFaults>>
  BY DEF MaterializeActionItems, ArtifactsInv, ArtifactsTypeOK, NoScan, ScanKnows, InHand
<1>2. m \in scan.left /\ m \in Meetings
  BY <1>1, NextMeeting DEF ArtifactsInv
<1>3. /\ TasksAfter(m) \in [ActionItems -> Nat]
      /\ \A i \in ActionItems : TasksAfter(m)[i] = 1
  BY <1>2, TasksAfterOnce
<1>4. /\ tasks' \in [Meetings -> [ActionItems -> Nat]]
      /\ \A k \in Meetings : k # m => tasks'[k] = tasks[k]
      /\ \A k \in Meetings : k = m => HasTasks(k)'
  <2>1. tasks' \in [Meetings -> [ActionItems -> Nat]] /\ tasks'[m] = TasksAfter(m)
        /\ \A k \in Meetings : k # m => tasks'[k] = tasks[k]
    BY <1>1, <1>2, <1>3 DEF ArtifactsInv, ArtifactsTypeOK
  <2> QED
    BY <1>3, <2>1 DEF HasTasks
<1>5. MadeOnce'
  BY <1>1, <1>4 DEF ArtifactsInv, ArtifactsTypeOK, ArtifactsSound, MadeOnce, HasTasks
<1>6. scan' \in Scans /\ scan'.seen \in [scan'.left -> Found]
  BY <1>1, PastTyped DEF ArtifactsInv
<1>7. ArtifactsTypeOK'
  BY <1>1, <1>4, <1>6 DEF ArtifactsInv, ArtifactsTypeOK, googleVars
<1> QED
  BY <1>1, <1>4, <1>5, <1>7, LeaveMeeting

LEMMA FailStep ==
    ASSUME ArtifactsInv, MeetingFails
    PROVE  ArtifactsInv'
<1> DEFINE m == Max(scan.left)
<1>1. /\ scan \in Scans /\ scan.at \in {"meetings", "note", "items"} /\ scan.left # {} /\ ScanFault
      /\ scan' = PastMeeting(m)
      /\ cut' = IF scan.at = "meetings" THEN cut ELSE cut \cup {m}
      /\ UNCHANGED <<googleVars, row, productVars, asked, refreshes>>
  BY DEF MeetingFails, ArtifactsInv, ArtifactsTypeOK, NoScan
<1>2. m \in scan.left /\ m \in Meetings
  BY <1>1, NextMeeting DEF ArtifactsInv
<1>3. scan' \in Scans /\ scan'.seen \in [scan'.left -> Found]
  BY <1>1, PastTyped DEF ArtifactsInv
<1>4. ArtifactsTypeOK'
  BY <1>1, <1>2, <1>3 DEF ArtifactsInv, ArtifactsTypeOK, googleVars, productVars, ScanFault
<1>5. \A k \in Meetings \ cut' : k = m /\ row[k].found.excerpt => HasTasks(k)'
  BY <1>1 DEF ArtifactsInv, ArtifactsSound, ExcerptHasTasks, HasTasks, productVars
<1> QED
  BY <1>1, <1>4, <1>5, LeaveMeeting DEF ArtifactsInv, ArtifactsSound, MadeOnce, productVars

LEMMA CrashStep ==
    ASSUME ArtifactsInv, ScanCrash
    PROVE  ArtifactsInv'
<1> DEFINE m == Max(scan.left)
<1>1. /\ scan \in Scans /\ ScanFault /\ scan' = NoScan
      /\ cut' = IF InHand THEN cut \cup {m} ELSE cut
      /\ UNCHANGED <<googleVars, row, notes, asked, refreshes>>
  BY DEF ScanCrash, ArtifactsInv, ArtifactsTypeOK, NoScan, InHand
<1>2. InHand => m \in scan.left /\ m \in Meetings
  BY <1>1, NextMeeting DEF ArtifactsInv, ScanKnows
<1>3. /\ tasks' \in [Meetings -> [ActionItems -> Nat]]
      /\ \A k \in Meetings : tasks'[k] # tasks[k] => InHand /\ k = m
      /\ \A k \in Meetings : \A i \in ActionItems : tasks'[k][i] <= 1
  <2>1. CASE UNCHANGED tasks
    BY <2>1 DEF ArtifactsInv, ArtifactsTypeOK, ArtifactsSound, MadeOnce
  <2>2. CASE scan.at = "items" /\ \E some \in SUBSET ActionItems :
               tasks' = [tasks EXCEPT ![m] =
                           [i \in ActionItems |-> IF i \in some THEN TasksAfter(m)[i]
                                                  ELSE tasks[m][i]]]
    <3>1. m \in Meetings /\ InHand
      BY <1>2, <2>2 DEF InHand
    <3>2. PICK some \in SUBSET ActionItems :
            tasks' = [tasks EXCEPT ![m] = [i \in ActionItems |-> IF i \in some THEN TasksAfter(m)[i]
                                                                 ELSE tasks[m][i]]]
      BY <2>2
    <3> DEFINE new == [i \in ActionItems |-> IF i \in some THEN TasksAfter(m)[i] ELSE tasks[m][i]]
    <3>3. /\ TasksAfter(m) \in [ActionItems -> Nat]
          /\ \A i \in ActionItems : TasksAfter(m)[i] = 1
      BY <3>1, TasksAfterOnce
    <3>4. new \in [ActionItems -> Nat] /\ \A i \in ActionItems : new[i] <= 1
      BY <3>1, <3>3 DEF ArtifactsInv, ArtifactsTypeOK, ArtifactsSound, MadeOnce
    <3> HIDE DEF new
    <3>5. tasks' = [tasks EXCEPT ![m] = new]
      BY <3>2 DEF new
    <3> QED
      BY <3>1, <3>4, <3>5 DEF ArtifactsInv, ArtifactsTypeOK, ArtifactsSound, MadeOnce
  <2> QED
    BY <2>1, <2>2 DEF ScanCrash
<1>4. ArtifactsTypeOK'
  BY <1>1, <1>2, <1>3 DEF ArtifactsInv, ArtifactsTypeOK, googleVars, ScanFault, NoScan
<1>5. ScanKnows'
  BY <1>1 DEF ScanKnows, NoScan, InHand
<1>6. MadeOnce'
  BY <1>1, <1>3 DEF ArtifactsInv, ArtifactsSound, MadeOnce
<1>7. \A k \in Meetings \ cut' : (InHand => k # m) /\ k \notin cut /\ tasks'[k] = tasks[k]
  BY <1>1, <1>3
<1>8. ExcerptHasTasks'
  BY <1>1, <1>7 DEF ArtifactsInv, ArtifactsSound, ExcerptHasTasks, InHand
<1>9. GivenUpAfterDeadline'
  BY <1>1 DEF ArtifactsInv, ArtifactsSound, GivenUpAfterDeadline, googleVars
<1> QED
  BY <1>4, <1>5, <1>6, <1>8, <1>9 DEF ArtifactsInv, ArtifactsSound

LEMMA StepArtifacts == ArtifactsInv /\ [ArtifactsNext]_artifactVars => ArtifactsInv'
<1> SUFFICES ASSUME ArtifactsInv, [ArtifactsNext]_artifactVars
             PROVE  ArtifactsInv'
  OBVIOUS
<1>1. CASE StartScan \/ MarkExpired \/ FetchMeeting
  BY <1>1, StartScanStep, MarkExpiredStep, FetchStep DEF FetchMeeting
<1>2. CASE EnsureSummaryNote \/ MaterializeActionItems \/ MeetingFails \/ ScanCrash
  BY <1>2, NoteStep, ItemsStep, FailStep, CrashStep
<1>3. CASE EndScan
  <2>1. /\ scan.at = "meetings" /\ scan' = NoScan
        /\ UNCHANGED <<googleVars, row, productVars, asked, cut, refreshes, scanFaults>>
    BY <1>3 DEF EndScan
  <2>2. ArtifactsTypeOK' /\ ScanKnows'
    BY <2>1 DEF ArtifactsInv, ArtifactsTypeOK, ScanKnows, InHand, NoScan, googleVars, productVars
  <2>3. ArtifactsSound'
    BY <2>1 DEF ArtifactsInv, ArtifactsSound, MadeOnce, ExcerptHasTasks, GivenUpAfterDeadline,
       googleVars, productVars, NoScan
  <2> QED
    BY <2>2, <2>3 DEF ArtifactsInv
<1>4. ASSUME NEW m \in Meetings, MeetingEnds(m) \/ SummaryWritten(m) \/ LinkChanges(m)
      PROVE  ArtifactsInv'
  <2>1. ArtifactsTypeOK' /\ UNCHANGED <<aged, row, productVars, scan, cut>>
    BY <1>4 DEF MeetingEnds, SummaryWritten, LinkChanges, ArtifactsInv, ArtifactsTypeOK, productVars
  <2> QED
    BY <2>1, OutsideStep
<1>5. ASSUME NEW m \in Meetings, NEW since \in {"end", "ingest"}, SixHoursSince(m, since)
      PROVE  ArtifactsInv'
  <2>1. /\ ArtifactsTypeOK' /\ aged \subseteq aged'
        /\ UNCHANGED <<row, productVars, scan, cut>>
    BY <1>5 DEF SixHoursSince, ArtifactsInv, ArtifactsTypeOK, productVars
  <2> QED
    BY <2>1, OutsideStep
<1>6. ASSUME NEW m \in Meetings, RefreshArtifacts(m)
      PROVE  ArtifactsInv'
  <2> DEFINE new == [row[m] EXCEPT !.processed = FALSE, !.partial = FALSE]
  <2>1. /\ row' = [row EXCEPT ![m] = new]
        /\ refreshes' = refreshes + 1
        /\ asked' \subseteq asked \cup {m}
        /\ UNCHANGED <<googleVars, productVars, scan, cut, scanFaults>>
    BY <1>6 DEF RefreshArtifacts, ArtifactsInv, ArtifactsTypeOK
  <2>2. new \in ArtifactRows /\ new.found = row[m].found /\ ~new.partial
    BY DEF ArtifactsInv, ArtifactsTypeOK, ArtifactRows
  <2> HIDE DEF new
  <2>3. /\ row' \in [Meetings -> ArtifactRows]
        /\ \A k \in Meetings : row'[k].found = row[k].found /\ (row'[k].partial => row[k].partial)
    BY <2>1, <2>2 DEF ArtifactsInv, ArtifactsTypeOK
  <2>4. ArtifactsTypeOK'
    BY <2>1, <2>3 DEF ArtifactsInv, ArtifactsTypeOK, googleVars, productVars
  <2>5. \A k \in Meetings : /\ PastGiveUp(k)' = PastGiveUp(k)
                            /\ HasTasks(k)' = HasTasks(k)
    BY <2>1 DEF PastGiveUp, HasTasks, googleVars, productVars
  <2>6. ScanKnows'
    BY <2>1, <2>3, <2>5 DEF ArtifactsInv, ArtifactsTypeOK, ScanKnows, InHand, Scans, NoScan
  <2>7. ArtifactsSound'
    BY <2>1, <2>3 DEF ArtifactsInv, ArtifactsSound, MadeOnce, ExcerptHasTasks,
       GivenUpAfterDeadline, googleVars, productVars
  <2> QED
    BY <2>4, <2>6, <2>7 DEF ArtifactsInv
<1>7. CASE UNCHANGED artifactVars
  <2>1. ArtifactsTypeOK' /\ UNCHANGED <<aged, row, productVars, scan, cut>>
    BY <1>7 DEF artifactVars, googleVars, productVars, ArtifactsInv, ArtifactsTypeOK
  <2> QED
    BY <2>1, OutsideStep
<1> QED
  BY <1>1, <1>2, <1>3, <1>4, <1>5, <1>6, <1>7 DEF ArtifactsNext, ScanWork

\* However runs crash, fail and repeat, whatever is refreshed, linked or still
\* missing: one note a meeting, one task an action item, all of them with the
\* excerpt, and nobody gives a meeting up early (jobs/googleArtifacts.ts).
THEOREM ArtifactsAreSound == ArtifactsSpec => []ArtifactsSound
<1>1. ArtifactsInv => ArtifactsSound
  BY DEF ArtifactsInv
<1> QED
  BY InitArtifacts, StepArtifacts, <1>1, PTL DEF ArtifactsSpec

-----------------------------------------------------------------------------
\* What the matcher reads does not change: its decision is decideMatch's.
MatchInv ==
    /\ attendees \in SUBSET People
    /\ decision = None \/ decision = DecideMatch

\* The words two candidates share do not tell them apart: more distinctive
\* words in the event's title are more words in it.
LEMMA SharedWordsCancel ==
    ASSUME NEW deals \in SUBSET OpenDeals, NEW d \in deals, NEW e \in deals,
           Hits(d, deals) > Hits(e, deals)
    PROVE  Cardinality(eventTitle \cap TitleWords[d])
             > Cardinality(eventTitle \cap TitleWords[e])
<1> DEFINE shared == {w \in eventTitle : \A f \in deals : w \in TitleWords[f]}
           own(x) == Distinctive(x, deals) \cap eventTitle
<1>1. ASSUME NEW x \in deals
      PROVE  /\ Cardinality(eventTitle \cap TitleWords[x]) = Hits(x, deals) + Cardinality(shared)
             /\ Hits(x, deals) \in Nat
  <2>1. IsFiniteSet(TitleWords[x])
    BY MatcherAssumption
  <2>2. own(x) \in SUBSET TitleWords[x] /\ shared \in SUBSET TitleWords[x]
    BY DEF Distinctive
  <2>3. IsFiniteSet(own(x)) /\ IsFiniteSet(shared)
    BY <2>1, <2>2, FS_Subset
  <2>4. eventTitle \cap TitleWords[x] = own(x) \cup shared /\ own(x) \cap shared = {}
    BY DEF Distinctive
  <2>5. Cardinality(own(x)) \in Nat /\ Cardinality(shared) \in Nat
    BY <2>3, FS_CardinalityType
  <2>6. Cardinality(own(x) \cup shared) = Cardinality(own(x)) + Cardinality(shared) - Cardinality(own(x) \cap shared)
    BY <2>3, FS_Union
  <2>7. Hits(x, deals) = Cardinality(own(x))
    BY DEF Hits
  <2>8. Cardinality(own(x) \cap shared) = 0
    BY <2>4, FS_EmptySet
  <2>9. Cardinality(eventTitle \cap TitleWords[x]) = Cardinality(own(x) \cup shared)
    BY <2>4
  <2> HIDE DEF own, shared
  <2> QED
    BY <2>5, <2>6, <2>7, <2>8, <2>9
<1>2. Cardinality(shared) \in Nat
  <2>1. IsFiniteSet(TitleWords[d]) /\ shared \in SUBSET TitleWords[d]
    BY MatcherAssumption
  <2> QED
    BY <2>1, FS_Subset, FS_CardinalityType
<1> HIDE DEF shared
<1> QED
  BY <1>1, <1>2

\* A contact's one open deal, or the one a title picks.
LEMMA OneContact ==
    ASSUME NEW c \in People, attendees = {c}, decision = DecideContact(c)
    PROVE  DecisionSound
<1> DEFINE deals == DealsOf(c)
           ahead == {d \in deals : Outscores(d, deals)}
<1>1. deals \in SUBSET OpenDeals /\ IsFiniteSet(deals)
  BY MatcherAssumption, FS_Subset DEF DealsOf
<1>2. CASE Cardinality(deals) = 1
  <2>1. PICK d : deals = {d}
    BY <1>1, <1>2, FS_Singleton
  <2>2. decision = Decision(c, CHOOSE x \in deals : TRUE, employer[c], 100, "email_match",
                            "auto_confirmed")
    BY <1>2 DEF DecideContact
  <2>3. (CHOOSE x \in deals : TRUE) = d
    BY <2>1
  <2>4. decision.deal = d /\ decision.contact = c /\ decision.method = "email_match"
    BY <2>2, <2>3 DEF Decision
  <2>5. \A x \in OpenDeals : x = d <=> x \in deals
    BY <2>1
  <2>6. ConfirmedIsUnambiguous
    BY <2>4, <2>5 DEF ConfirmedIsUnambiguous, DealsOf
  <2> QED
    BY <2>4, <2>6 DEF DecisionSound, TitlePicksTheLeader
<1>3. CASE Cardinality(deals) > 1 /\ ahead # {}
  <2>1. decision = Decision(c, CHOOSE x \in ahead : TRUE, employer[c], 85, "title_match", "suggested")
    <3>1. Cardinality(deals) # 1
      BY <1>1, <1>3, FS_CardinalityType
    <3> QED
      BY <1>3, <3>1 DEF DecideContact
  <2>2. PICK d \in ahead : decision.deal = d
    BY <1>3, <2>1 DEF Decision
  <2>3. decision.outcome = "suggested" /\ decision.contact = c
    BY <2>1 DEF Decision
  <2>4. Rivals \subseteq deals
    BY <2>3 DEF Rivals
  <2>5. \A e \in deals \ {d} : Hits(d, deals) > Hits(e, deals)
    BY <2>2 DEF Outscores
  <2>6. \A e \in Rivals \ {d} :
          Cardinality(eventTitle \cap TitleWords[d]) > Cardinality(eventTitle \cap TitleWords[e])
    BY <1>1, <2>2, <2>4, <2>5, SharedWordsCancel
  <2> QED
    BY <2>2, <2>3, <2>6 DEF DecisionSound, ConfirmedIsUnambiguous, TitlePicksTheLeader
<1>4. CASE Cardinality(deals) # 1 /\ ~(Cardinality(deals) > 1 /\ ahead # {})
  <2>1. decision = Decision(c, None, employer[c], 70, "email_match", "suggested")
    BY <1>4 DEF DecideContact
  <2> QED
    BY <2>1 DEF DecisionSound, ConfirmedIsUnambiguous, TitlePicksTheLeader, Decision
<1> QED
  BY <1>2, <1>3, <1>4

LEMMA DecisionFollows == MatchInv => DecisionSound
<1> SUFFICES ASSUME MatchInv
             PROVE  DecisionSound
  OBVIOUS
<1>1. IsFiniteSet(attendees)
  BY MatcherAssumption, FS_Subset DEF MatchInv
<1>2. CASE decision = None
  BY <1>2 DEF DecisionSound, ConfirmedIsUnambiguous, TitlePicksTheLeader, Rivals
<1>3. CASE decision = DecideMatch /\ Cardinality(attendees) = 1
  <2>1. PICK c : attendees = {c}
    BY <1>1, <1>3, FS_Singleton
  <2>2. c \in People /\ (CHOOSE x \in attendees : TRUE) = c
    BY <2>1 DEF MatchInv
  <2>3. decision = DecideContact(c)
    BY <1>3, <2>2 DEF DecideMatch
  <2> QED
    BY <2>1, <2>2, <2>3, OneContact
<1>4. CASE decision = DecideMatch /\ Cardinality(attendees) # 1
  <2>1. decision.contact = None /\ decision.outcome \in {"suggested", "unlinked"}
    BY <1>4 DEF DecideMatch, Decision
  <2> QED
    BY <2>1 DEF DecisionSound, ConfirmedIsUnambiguous, TitlePicksTheLeader, Rivals
<1> QED
  BY <1>2, <1>3, <1>4 DEF MatchInv

\* What the matcher links is never ambiguous: a deal is confirmed unseen only
\* when it is the only open one of the only known attendee, and suggested by
\* its title only when no other candidate has as many of the event's words
\* (decideMatch in the calendar matcher).
THEOREM MatchesAreSound == MatchSpec => []DecisionSound
<1>1. MatchInit => MatchInv
  BY DEF MatchInit, MatchInv
<1>2. MatchInv /\ [MatchNext]_matchVars => MatchInv'
  <2> SUFFICES ASSUME MatchInv, [MatchNext]_matchVars
               PROVE  MatchInv'
    OBVIOUS
  <2>1. UNCHANGED <<employer, deal, attendees, domainFirms, eventTitle>>
    BY DEF MatchNext, RunMatcher, matchVars
  <2>2. DecideMatch' = DecideMatch
    BY <2>1 DEF DecideMatch, DecideContact, DealsOf, Outscores, Hits, Distinctive
  <2> QED
    BY <2>1, <2>2 DEF MatchInv, MatchNext, RunMatcher, matchVars
<1> QED
  BY <1>1, <1>2, DecisionFollows, PTL DEF MatchSpec
=============================================================================
