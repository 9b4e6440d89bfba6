------------------------------- MODULE MCContacts -------------------------------
(* Google contacts for TLC, in one run: the pull of the address book, one     *)
(* contact kept in step with its person, and the mapping between the two. A   *)
(* behaviour is one of a part chosen at the start, and the other parts stay   *)
(* as they are. They share no state, so this checks each of them alone.       *)
EXTENDS ContactsPull, ContactsSync, ContactMapper

VARIABLE part
partVars == <<part, pullVars, contactsVars, mapperVars>>

PartInit ==
  /\ part \in {"pull", "sync", "mapper"}
  /\ IF part = "mapper" THEN TRUE
     ELSE crmContact = CHOOSE c \in ContactValue : \A f \in DOMAIN c : c[f] # Blank
  /\ PullInit /\ ContactsInit /\ MapperInit

PartNext ==
  /\ UNCHANGED part
  /\ IF part = "pull" THEN PullNext ELSE UNCHANGED pullVars
  /\ IF part = "sync" THEN ContactsNext ELSE UNCHANGED contactsVars
  /\ IF part = "mapper" THEN MapperNext ELSE UNCHANGED mapperVars

\* The fairness ContactsPull states, while it is the part that runs.
PartSpec ==
  /\ PartInit /\ [][PartNext]_partVars
  /\ WF_pullVars(part = "pull" /\ (ConnectRow \/ ConnectEnqueue \/ DisconnectRow
                                     \/ DisconnectUnschedule))
  /\ WF_pullVars(part = "pull" /\ CronTick)
  /\ WF_pullVars(part = "pull" /\ pullLock = "dead" /\ LockExpires)
  /\ \A s \in PullSlots : WF_pullVars(part = "pull" /\ PullRunStep(s))
  /\ WF_pullVars(part = "pull" /\ \E s \in PullSlots, id \in JobIds : TakeJob(s, id))
=============================================================================
