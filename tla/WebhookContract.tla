--------------------------- MODULE WebhookContract ---------------------------
(***************************************************************************)
(* What the webhook subsystem promises of its database rows, whatever runs *)
(* it: a delivery settles once, only a failed delivery is counted against  *)
(* its endpoint and only once, and an endpoint is switched off with a      *)
(* reason exactly by the count that reaches the threshold.                 *)
(***************************************************************************)
EXTENDS Naturals

CONSTANTS Endpoints, Deliveries, EndpointOf, Threshold

VARIABLES
    status,          \* none, pending, success, failed, or gone
    charged,         \* deliveries counted against their endpoint
    failures, enabled, autoDisabled

flags == <<failures, enabled, autoDisabled>>
vars == <<status, charged, flags>>

Init ==
    /\ status = [d \in Deliveries |-> "none"]
    /\ charged = {}
    /\ failures = [e \in Endpoints |-> 0]
    /\ enabled = [e \in Endpoints |-> FALSE]
    /\ autoDisabled = [e \in Endpoints |-> FALSE]

Move(d, from, to) ==
    /\ status[d] = from
    /\ status' = [status EXCEPT ![d] = to]
    /\ UNCHANGED <<charged, flags>>

Accept(d) == Move(d, "none", "pending")

Settle(d) == Move(d, "pending", "success") \/ Move(d, "pending", "failed")

\* The endpoint's rows go with it.
Drop(e) ==
    /\ status' = [d \in Deliveries |->
                     IF EndpointOf[d] = e /\ status[d] # "none"
                       THEN "gone" ELSE status[d]]
    /\ UNCHANGED <<charged, flags>>

Reaches(e) == enabled[e] /\ failures[e] + 1 >= Threshold

Count(d) ==
    LET e == EndpointOf[d] IN
    /\ status[d] = "failed"
    /\ d \notin charged
    /\ charged' = charged \cup {d}
    /\ failures' = [failures EXCEPT ![e] = @ + 1]
    /\ enabled' = [enabled EXCEPT ![e] = @ /\ ~Reaches(e)]
    /\ autoDisabled' = [autoDisabled EXCEPT ![e] = @ \/ Reaches(e)]
    /\ UNCHANGED status

\* A success clears the counter of an enabled endpoint and leaves it enabled;
\* switching an endpoint on clears it too.
Clear(e) ==
    /\ enabled' = [enabled EXCEPT ![e] = TRUE]
    /\ failures' = [failures EXCEPT ![e] = 0]
    /\ autoDisabled' = [autoDisabled EXCEPT ![e] = FALSE]
    /\ UNCHANGED <<status, charged>>

SwitchOff(e) ==
    /\ enabled' = [enabled EXCEPT ![e] = FALSE]
    /\ UNCHANGED <<status, charged, failures, autoDisabled>>

Next ==
    \/ \E d \in Deliveries : Accept(d) \/ Settle(d) \/ Count(d)
    \/ \E e \in Endpoints :
         Drop(e) \/ SwitchOff(e) \/ Clear(e)

Spec == Init /\ [][Next]_vars
=============================================================================
