------------------------------ MODULE MCRegistry ------------------------------
(***************************************************************************)
(* Small instances of Registry for TLC.                                    *)
(***************************************************************************)
EXTENDS Registry, TLC

CONSTANTS tight, loose, accented, build, capSlot, buildSlot

\* Two caps for one predicate, a third whose owner has an accent, and a prover
\* measurement.
MCSlotOf ==
    tight :> capSlot @@ loose :> capSlot @@ accented :> capSlot @@ build :> buildSlot
=============================================================================
