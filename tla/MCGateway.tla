------------------------------ MODULE MCGateway ------------------------------
(***************************************************************************)
(* Small instances of Gateway for TLC.                                     *)
(***************************************************************************)
EXTENDS Gateway, TLC

\* Calls, context ids and order references are interchangeable.
Symmetry == Permutations(Calls) \cup Permutations(RequestIds) \cup Permutations(ActionRefs)
=============================================================================
