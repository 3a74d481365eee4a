----------------------------- MODULE SignedPolicy -----------------------------
(***************************************************************************)
(* What the predicate registry promises the gateway: while it is up, the   *)
(* policy it applies is made of documents that governance has signed, each *)
(* in the place it was signed for, and does not change.                    *)
(***************************************************************************)
CONSTANTS Docs, Slots, SlotOf, Nothing

VARIABLES signed, up, policy

NoPolicy == [s \in Slots |-> Nothing]

Init == signed = {} /\ up = FALSE /\ policy = NoPolicy

Sign(d) == signed' = signed \cup {d} /\ UNCHANGED <<up, policy>>

Install(p) ==
    /\ ~up
    /\ \A s \in Slots : p[s] # Nothing => p[s] \in signed /\ SlotOf[p[s]] = s
    /\ up' = TRUE
    /\ policy' = p
    /\ UNCHANGED signed

Stop == up' = FALSE /\ policy' = NoPolicy /\ UNCHANGED signed

Next ==
    \/ \E d \in Docs : Sign(d)
    \/ \E p \in [Slots -> Docs \cup {Nothing}] : Install(p)
    \/ Stop

Spec == Init /\ [][Next]_<<signed, up, policy>>
=============================================================================
