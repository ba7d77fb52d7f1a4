----------------------------- MODULE MCEgressGate -----------------------------
(***************************************************************************)
(* Instances of EgressGate for TLC.  Two payloads share one receipt hash   *)
(* (a binary upload of the same bytes to two destinations).                *)
(***************************************************************************)
EXTENDS EgressGate, TLC

CONSTANTS p1, p2, sha

\* Both payloads hash to the same receipt sha.
MCShaOf == [p \in Payloads |-> sha]

Symmetry == Permutations(Handlers) \cup Permutations(Approvals)
===============================================================================
