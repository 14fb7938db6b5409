----------------------------- MODULE MCProgress -----------------------------
(* The liveness run of RemoteLabManager: no symmetry, but what procedures  *)
(* submit is alike and is therefore taken in a fixed order. The constraint *)
(* cuts off no behaviour up to names: where a procedure may take the       *)
(* second command first, the same action takes the first one.              *)
EXTENDS RemoteLabManager

CONSTANTS first, second   \* commands of procedures

InOrder == second \in Issued' => first \in Issued'
=============================================================================
