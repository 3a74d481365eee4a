------------------------------ MODULE MCAuditLog ------------------------------
(***************************************************************************)
(* Small instances of AuditLog for TLC.                                    *)
(***************************************************************************)
EXTENDS AuditLog, TLC

\* The processes are interchangeable.
Symmetry == Permutations(Procs)
=============================================================================
