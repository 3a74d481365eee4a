---------------------------- MODULE MCVerification ----------------------------
(* Parameters and symmetry of the TLC instances of Verification.           *)
EXTENDS Verification, TLC

\* Caps inside and at the end of the width, and one no u64 can hold.
MCParams == {[cap |-> c, nbits |-> 2] : c \in {1, 2, -1}}
\* One out of every range.
MCSourceValues == {-1, 1, 2}
MCSymmetry ==
    Permutations(Blindings) \cup Permutations(Contexts) \cup Permutations(Measurements)
=============================================================================
