------------------------------- MODULE MCMeetings -------------------------------
(* Meetings from Google Calendar for TLC, in one run: events and the links    *)
(* the matcher and the user give them, the artifacts of meetings that ended,  *)
(* and one decision of the matcher. A behaviour is one of a part chosen at    *)
(* the start, and the other parts stay as they are. They share no state, so   *)
(* this checks each of them alone.                                            *)
EXTENDS MeetingLink, MeetingArtifacts, MeetingMatcher, TLC

VARIABLE part
partVars == <<part, meetVars, artifactVars, matchVars>>

Titles == "d1" :> {"acme", "renewal"} @@ "d2" :> {"acme", "expansion"} @@ "d3" :> {"acme"}

PartInit ==
  /\ part \in {"link", "artifacts", "matcher"}
  /\ IF part = "matcher" THEN TRUE
     ELSE /\ employer = [p \in People |-> None]
          /\ deal = [d \in OpenDeals |-> [contact |-> None, firm |-> "k1", open |-> TRUE]]
          /\ attendees = {} /\ domainFirms = {} /\ eventTitle = {}
  /\ MeetInit /\ ArtifactsInit /\ MatchInit

PartNext ==
  /\ UNCHANGED part
  /\ IF part = "link" THEN MeetNext ELSE UNCHANGED meetVars
  /\ IF part = "artifacts" THEN ArtifactsNext ELSE UNCHANGED artifactVars
  /\ IF part = "matcher" THEN MatchNext ELSE UNCHANGED matchVars

\* The fairness the modules state, for the part that runs.
PartSpec ==
  /\ PartInit /\ [][PartNext]_partVars
  /\ WF_meetVars(part = "link" /\ MeetWork)
  /\ WF_artifactVars(part = "artifacts" /\ ScanWork)
  /\ \A m \in Meetings, since \in {"end", "ingest"} :
        WF_artifactVars(part = "artifacts" /\ SixHoursSince(m, since))
=============================================================================
