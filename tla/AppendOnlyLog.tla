---------------------------- MODULE AppendOnlyLog ----------------------------
(***************************************************************************)
(* What the audit trail promises its readers: a sequence of entries that   *)
(* only ever grows, one entry at a time, at its end.  Nothing in it says   *)
(* how entries are stored, hashed or recovered: AuditLog (the file behind  *)
(* go/internal/auditlog) and Gateway (the service that appends to it) are  *)
(* each shown to implement it.                                             *)
(***************************************************************************)
EXTENDS Sequences

CONSTANT Entry       \* what can be recorded

VARIABLE log         \* the entries a reader of the trail can rely on

Init == log = <<>>

Add(e) == log' = Append(log, e)

Next == \E e \in Entry : Add(e)

Spec == Init /\ [][Next]_log
=============================================================================
