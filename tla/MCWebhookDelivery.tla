------------------------- MODULE MCWebhookDelivery -------------------------
(***************************************************************************)
(* Two deliveries of one endpoint, for TLC.                                *)
(***************************************************************************)
EXTENDS WebhookRefinement, TLC

CONSTANTS e1, d1, d2, r1, r2

OneEndpoint == [d \in {d1, d2} |-> e1]

Symmetry == Permutations({d1, d2}) \cup Permutations({r1, r2})
=============================================================================
