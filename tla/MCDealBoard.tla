---------------------------- MODULE MCDealBoard ----------------------------
(***************************************************************************)
(* The board for TLC: two open stages, a won and a lost one at most.       *)
(***************************************************************************)
EXTENDS DealBoard, TLC

Symmetry == Permutations(Requests)
=============================================================================
