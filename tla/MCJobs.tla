-------------------------------- MODULE MCJobs ---------------------------------
(* Background jobs for TLC, in one run: import jobs, company enrichment,      *)
(* geocoding and the Google connection. A behaviour is one of a part chosen   *)
(* at the start, and the other parts stay as they are. They share no state,   *)
(* so this checks each of them alone.                                         *)
EXTENDS ImportJob, Enrichment, Geocoding, GoogleConnect

VARIABLE part
partVars == <<part, vars, enrichVars, geoVars, connectVars>>

PartInit ==
  /\ part \in {"import", "enrich", "geo", "connect"}
  /\ Init /\ EnrichInit /\ GeoInit /\ ConnectInit

PartNext ==
  /\ UNCHANGED part
  /\ IF part = "import" THEN Next ELSE UNCHANGED vars
  /\ IF part = "enrich" THEN EnrichNext ELSE UNCHANGED enrichVars
  /\ IF part = "geo" THEN GeoNext ELSE UNCHANGED geoVars
  /\ IF part = "connect" THEN ConnectNext ELSE UNCHANGED connectVars

\* The fairness each module states, for the part that runs.
PartSpec ==
  /\ PartInit /\ [][PartNext]_partVars
  /\ \A q \in Requests : WF_vars(part = "import" /\ \E j \in Jobs : Continue(q, j))
  /\ \A s \in EnrichSlots : WF_enrichVars(part = "enrich" /\ EnrichStep(s))
  /\ WF_geoVars(part = "geo" /\ (Enqueue \/ EnqueueFails))
  /\ WF_geoVars(part = "geo" /\ Poll)
  /\ \A s \in GeoSlots : WF_geoVars(part = "geo" /\ GeoStep(s))
  /\ WF_connectVars(part = "connect" /\ LeaveStep)
  /\ WF_connectVars(part = "connect" /\ ApiBoot)
  /\ \A c \in Callbacks : WF_connectVars(part = "connect" /\ CallbackStep(c))
  /\ \A kind \in Kinds, ticked \in BOOLEAN :
        WF_connectVars(part = "connect" /\ RunPull(kind, ticked))
=============================================================================
