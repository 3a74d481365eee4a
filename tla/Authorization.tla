---------------------------- MODULE Authorization ----------------------------
(***************************************************************************)
(* What the gateway promises about a governed action, whatever protocol    *)
(* carries it: a grant names one action; it can be spent once and never    *)
(* becomes usable again; only a spent grant can be approved; and an        *)
(* approved grant executes the action it was given for, at most once.      *)
(***************************************************************************)
EXTENDS Naturals, Sequences

CONSTANTS
    RequestId,    \* identifies a grant
    ActionRef,    \* what a grant can be for
    NoAction      \* a grant not given yet

VARIABLES
    granted,      \* per grant: the action it was given for
    spent,        \* grants that can no longer be presented
    approved,     \* grants whose proof was accepted
    executed      \* the actions executed, as <<grant, action>>, in order

vars == <<granted, spent, approved, executed>>

Init ==
    /\ granted = [r \in RequestId |-> NoAction]
    /\ spent = {}
    /\ approved = {}
    /\ executed = <<>>

Grant(r, a) ==
    /\ granted[r] = NoAction
    /\ granted' = [granted EXCEPT ![r] = a]
    /\ UNCHANGED <<spent, approved, executed>>

\* Grants are used, expire, or are forgotten; several may go at once.
Spend(S) ==
    /\ \A r \in S : granted[r] # NoAction
    /\ spent' = spent \cup S
    /\ UNCHANGED <<granted, approved, executed>>

Approve(r) ==
    /\ r \in spent \ approved
    /\ approved' = approved \cup {r}
    /\ UNCHANGED <<granted, spent, executed>>

Execute(r) ==
    /\ r \in approved
    /\ \A i \in 1..Len(executed) : executed[i][1] # r
    /\ executed' = Append(executed, <<r, granted[r]>>)
    /\ UNCHANGED <<granted, spent, approved>>

Next ==
    \/ \E r \in RequestId, a \in ActionRef : Grant(r, a)
    \/ \E S \in SUBSET RequestId : Spend(S)
    \/ \E r \in RequestId : Approve(r) \/ Execute(r)

Spec == Init /\ [][Next]_vars
=============================================================================
