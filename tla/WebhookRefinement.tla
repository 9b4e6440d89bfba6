-------------------------- MODULE WebhookRefinement --------------------------
(***************************************************************************)
(* The delivery pipeline implements the contract: the contract's variables *)
(* are the pipeline's of the same name.                                    *)
(***************************************************************************)
EXTENDS WebhookDelivery

Contract == INSTANCE WebhookContract
              WITH Endpoints <- Endpoints, Deliveries <- Deliveries, EndpointOf <- EndpointOf,
                   Threshold <- Threshold, status <- status, charged <- charged,
                   failures <- failures, enabled <- enabled, autoDisabled <- autoDisabled

\* Every step of emitters, runners, BullMQ and the admin is a step of the
\* contract or leaves its rows alone.
ImplementsContract == Contract!Spec
=============================================================================
