---------------------------- MODULE GatewayProofs ----------------------------
(***************************************************************************)
(* Gateway for any number of calls, contexts, tasks and crashes: types,    *)
(* single use of contexts, orders that stand on their own verdict, the     *)
(* sweeper's bound, and that Gateway implements Authorization.             *)
(***************************************************************************)
EXTENDS Gateway, SequenceTheorems, TLAPS

\* Appending keeps a sequence one, and leaves what it held in place.
LEMMA AppendFacts ==
    ASSUME NEW S, NEW s \in Seq(S), NEW x \in S
    PROVE  /\ Append(s, x) \in Seq(S)
           /\ Len(Append(s, x)) = Len(s) + 1
           /\ Len(s) \in Nat
           /\ \A i \in 1..Len(s) : Append(s, x)[i] = s[i]
           /\ Append(s, x)[Len(s) + 1] = x
    OBVIOUS

\* ... and appending to a function on 1..n is extending it by n + 1.
LEMMA AppendIs ==
    ASSUME NEW n \in Nat, NEW s, DOMAIN s = 1..n, s = [k \in 1..n |-> s[k]], NEW x
    PROVE  Append(s, x) = [k \in 1..(n + 1) |-> IF k = n + 1 THEN x ELSE s[k]]
    <1> DEFINE S == {s[k] : k \in 1..n} \cup {x}
    <1>1. s \in [1..n -> S]
        OBVIOUS
    <1>2. s \in Seq(S)
        BY <1>1, SeqDef
    <1>3. Len(s) = n
        BY <1>2, LenProperties
    <1> HIDE DEF S
    <1>4. x \in S
        BY DEF S
    <1> QED
        BY <1>2, <1>3, <1>4

-----------------------------------------------------------------------------
(* Types *)

LEMMA TypeInit == Init => TypeOK
    BY GatewayAssumption DEF Init, TypeOK, Steps

LEMMA IssueContextType ==
    ASSUME TypeOK, NEW ctx \in Context, IssueContext(ctx)
    PROVE  TypeOK'
    BY DEF TypeOK, IssueContext, Context, CtxEntry

\* A claim changes nothing in a context but its used flag.
LEMMA ClaimedEntry ==
    ASSUME TypeOK, NEW c \in Calls, NEW q \in Request, NEW proof \in Proof,
           Claimable(q), Claim(c, q, proof)
    PROVE  /\ q.ctx.request_id \in RequestIds
           /\ contexts'[q.ctx.request_id].used = TRUE
           /\ contexts'[q.ctx.request_id].ctx = contexts[q.ctx.request_id].ctx
           /\ contexts'[q.ctx.request_id].age = contexts[q.ctx.request_id].age
           /\ \A r \in RequestIds \ {q.ctx.request_id} : contexts'[r] = contexts[r]
           /\ UNCHANGED issued
    <1>1. q.ctx.request_id \in RequestIds
        BY DEF Request, Context
    <1>2. contexts[q.ctx.request_id] \in CtxEntry
        BY <1>1 DEF TypeOK, Claimable
    <1>3. contexts'[q.ctx.request_id] = [contexts[q.ctx.request_id] EXCEPT !.used = TRUE]
        BY <1>1 DEF TypeOK, Claim
    <1> QED
        BY <1>1, <1>2, <1>3 DEF TypeOK, Claim, CtxEntry

LEMMA ClaimType ==
    ASSUME TypeOK, NEW c \in Calls, NEW q \in Request, NEW proof \in Proof,
           Claimable(q), Claim(c, q, proof)
    PROVE  TypeOK'
    <1>1. q.ctx.request_id \in RequestIds
        BY DEF Request, Context
    <1>2. contexts[q.ctx.request_id] \in CtxEntry
        BY <1>1 DEF TypeOK, Claimable
    <1>3. [contexts[q.ctx.request_id] EXCEPT !.used = TRUE] \in CtxEntry
        BY <1>2 DEF CtxEntry
    <1>4. contexts' \in [RequestIds -> CtxEntry \cup {NoEntry}]
        BY <1>1, <1>3 DEF TypeOK, Claim
    <1>5. call' \in [Calls -> Call \cup {NoCall}]
        BY DEF TypeOK, Claim, Call
    <1> QED
        BY <1>4, <1>5 DEF TypeOK, Claim, Steps

LEMMA DenyType ==
    ASSUME TypeOK, NEW c \in Calls, Deny(c)
    PROVE  /\ pc' \in [Calls -> Steps]
           /\ call' \in [Calls -> Call \cup {NoCall}]
    BY DEF TypeOK, Deny, Steps

\* A call that has claimed a context has a call record.
LEMMA VerdictType ==
    ASSUME TypeOK, NEW c \in Calls, call[c] # NoCall
    PROVE  Verdict(c) \in AuditEntry
    BY DEF TypeOK, Verdict, Call, Request, Context, Proof, AuditEntry

LEMMA RecordVerdictType ==
    ASSUME TypeOK, CallsHoldContexts, NEW c \in Calls, RecordVerdict(c)
    PROVE  TypeOK'
    <1>1. call[c] # NoCall
        BY DEF CallsHoldContexts, RecordVerdict, Unjudged
    <1>2. audit' \in Seq(AuditEntry)
        BY <1>1, VerdictType DEF TypeOK, RecordVerdict
    <1>3. pc' \in [Calls -> Steps] /\ call' \in [Calls -> Call \cup {NoCall}]
        BY DenyType DEF TypeOK, RecordVerdict, Steps
    <1>4. entry' \in [Calls -> Nat]
        <2>1. Len(audit) + 1 \in Nat
            BY DEF TypeOK
        <2> QED
            BY <2>1 DEF TypeOK, RecordVerdict
    <1> QED
        BY <1>2, <1>3, <1>4 DEF TypeOK, RecordVerdict

LEMMA RecordOrderType ==
    ASSUME TypeOK, CallsHoldContexts, NEW c \in Calls, RecordOrder(c)
    PROVE  TypeOK'
    <1>1. call[c] \in Call
        BY DEF TypeOK, CallsHoldContexts, RecordOrder, Unjudged
    <1>2. OrderOf(c) \in Order
        BY <1>1 DEF TypeOK, OrderOf, Order, Call, Request
    <1>3. orders' \in Seq(Order) /\ executed' \in Seq(Order)
        BY <1>2 DEF TypeOK, RecordOrder
    <1>4. pc' \in [Calls -> Steps] /\ entry' \in [Calls -> Nat]
        <2>1. CASE call[c].request.surface = "mcp"
            <3>1. pc' = [pc EXCEPT ![c] = "idle"] /\ entry' = [entry EXCEPT ![c] = 0]
                BY <2>1 DEF RecordOrder
            <3>2. "idle" \in Steps /\ 0 \in Nat
                BY DEF Steps
            <3> QED
                BY <3>1, <3>2 DEF TypeOK
        <2>2. CASE call[c].request.surface # "mcp"
            BY <2>2 DEF TypeOK, RecordOrder, Steps
        <2> QED
            BY <2>1, <2>2
    <1>5. call' \in [Calls -> Call \cup {NoCall}]
        BY DEF TypeOK, RecordOrder
    <1> QED
        BY <1>3, <1>4, <1>5 DEF TypeOK, RecordOrder

\* A tick changes nothing in an entry but its age.
LEMMA AgedCtxEntry ==
    ASSUME NEW e \in CtxEntry
    PROVE  /\ [e EXCEPT !.age = @ + 1] \in CtxEntry
           /\ [e EXCEPT !.age = @ + 1].age = e.age + 1
           /\ [e EXCEPT !.age = @ + 1].used = e.used
           /\ [e EXCEPT !.age = @ + 1].ctx = e.ctx
    BY DEF CtxEntry

LEMMA AgedTaskEntry ==
    ASSUME NEW e \in TaskEntry
    PROVE  /\ [e EXCEPT !.age = @ + 1] \in TaskEntry
           /\ [e EXCEPT !.age = @ + 1].age = e.age + 1
           /\ [e EXCEPT !.age = @ + 1].audit_entry = e.audit_entry
    BY DEF TaskEntry

\* So ticks, seen from one context or one task.
LEMMA TickFacts ==
    ASSUME TypeOK, Tick
    PROVE  /\ \A r \in RequestIds :
                  IF contexts[r] = NoEntry THEN contexts'[r] = NoEntry
                  ELSE /\ contexts[r] \in CtxEntry
                       /\ contexts'[r] \in CtxEntry
                       /\ contexts'[r].age = contexts[r].age + 1
                       /\ contexts'[r].used = contexts[r].used
                       /\ contexts'[r].ctx = contexts[r].ctx
           /\ \A t \in TaskIds :
                  IF tasks[t] = NoTask THEN tasks'[t] = NoTask
                  ELSE /\ tasks[t] \in TaskEntry
                       /\ tasks'[t] \in TaskEntry
                       /\ tasks'[t].age = tasks[t].age + 1
                       /\ tasks'[t].audit_entry = tasks[t].audit_entry
    <1>1. ASSUME NEW r \in RequestIds, contexts[r] # NoEntry
          PROVE  /\ contexts[r] \in CtxEntry
                 /\ contexts'[r] = [contexts[r] EXCEPT !.age = @ + 1]
        BY <1>1 DEF TypeOK, Tick
    <1>2. ASSUME NEW t \in TaskIds, tasks[t] # NoTask
          PROVE  /\ tasks[t] \in TaskEntry
                 /\ tasks'[t] = [tasks[t] EXCEPT !.age = @ + 1]
        BY <1>2 DEF TypeOK, Tick
    <1>3. /\ \A r \in RequestIds : contexts[r] = NoEntry => contexts'[r] = NoEntry
          /\ \A t \in TaskIds : tasks[t] = NoTask => tasks'[t] = NoTask
        BY DEF Tick
    <1>4. ASSUME NEW r \in RequestIds, contexts[r] # NoEntry
          PROVE  /\ contexts'[r] \in CtxEntry
                 /\ contexts'[r].age = contexts[r].age + 1
                 /\ contexts'[r].used = contexts[r].used
                 /\ contexts'[r].ctx = contexts[r].ctx
        BY <1>1, <1>4, AgedCtxEntry
    <1>5. ASSUME NEW t \in TaskIds, tasks[t] # NoTask
          PROVE  /\ tasks'[t] \in TaskEntry
                 /\ tasks'[t].age = tasks[t].age + 1
                 /\ tasks'[t].audit_entry = tasks[t].audit_entry
        BY <1>2, <1>5, AgedTaskEntry
    <1> QED
        BY <1>1, <1>2, <1>3, <1>4, <1>5

LEMMA TickType == ASSUME TypeOK, Tick PROVE TypeOK'
    <1>1. contexts' \in [RequestIds -> CtxEntry \cup {NoEntry}]
        <2>1. \A r \in RequestIds : contexts'[r] \in CtxEntry \cup {NoEntry}
            BY TickFacts
        <2> QED
            BY <2>1 DEF Tick
    <1>2. tasks' \in [TaskIds -> TaskEntry \cup {NoTask}]
        <2>1. \A t \in TaskIds : tasks'[t] \in TaskEntry \cup {NoTask}
            BY TickFacts
        <2> QED
            BY <2>1 DEF Tick
    <1> QED
        BY <1>1, <1>2, GatewayAssumption DEF TypeOK, Tick

LEMMA TypeStep ==
    ASSUME TypeOK, CallsHoldContexts, [Next]_vars
    PROVE  TypeOK'
    <1>1. ASSUME NEW ctx \in Context, IssueContext(ctx) PROVE TypeOK'
        BY <1>1, IssueContextType
    <1>2. ASSUME NEW c \in Calls, NEW q \in Request, NEW proof \in Proof,
                 Claimable(q), Claim(c, q, proof)
          PROVE  TypeOK'
        BY <1>2, ClaimType
    <1>3. ASSUME NEW c \in Calls, RefuseMessage(c) PROVE TypeOK'
        BY <1>3 DEF TypeOK, RefuseMessage, Steps
    <1>4. ASSUME NEW c \in Calls, DenyUnaudited(c) \/ AuditUnavailable(c) PROVE TypeOK'
        BY <1>4, DenyType DEF TypeOK, DenyUnaudited, AuditUnavailable
    <1>5. ASSUME NEW c \in Calls, Verify(c) PROVE TypeOK'
        BY <1>5 DEF TypeOK, Verify, Steps
    <1>6. ASSUME NEW c \in Calls, RecordVerdict(c) PROVE TypeOK'
        BY <1>6, RecordVerdictType
    <1>7. ASSUME NEW c \in Calls, RecordOrder(c) PROVE TypeOK'
        BY <1>7, RecordOrderType
    <1>8. ASSUME NEW c \in Calls, NEW t \in TaskIds, StoreTask(c, t) PROVE TypeOK'
        BY <1>8 DEF TypeOK, StoreTask, Steps, TaskEntry
    <1>9. CASE Tick
        BY <1>9, TickType
    <1>10. CASE Sweep
        BY <1>10, GatewayAssumption DEF TypeOK, Sweep
    <1>11. CASE CrashRestart
        BY <1>11, GatewayAssumption DEF TypeOK, CrashRestart, Steps
    <1>12. CASE UNCHANGED vars
        BY <1>12 DEF TypeOK, vars, memory
    <1> QED
        BY <1>1, <1>2, <1>3, <1>4, <1>5, <1>6, <1>7, <1>8, <1>9, <1>10, <1>11, <1>12
        DEF Next

-----------------------------------------------------------------------------
(* The inductive invariant, one conjunct at a time *)

\* Contexts are created with the context issued, claimed as they are, aged,
\* and dropped.
LEMMA ContextsAreIssuedStep ==
    ASSUME TypeOK, ContextsAreIssued, [Next]_vars
    PROVE  ContextsAreIssued'
    <1> USE DEF ContextsAreIssued
    <1>1. ASSUME NEW ctx \in Context, IssueContext(ctx) PROVE ContextsAreIssued'
        BY <1>1 DEF TypeOK, IssueContext, Context
    <1>2. ASSUME NEW c \in Calls, NEW q \in Request, NEW proof \in Proof,
                 Claimable(q), Claim(c, q, proof)
          PROVE  ContextsAreIssued'
        BY <1>2, ClaimedEntry DEF Claimable
    <1>3. ASSUME UNCHANGED <<contexts, issued>> PROVE ContextsAreIssued'
        BY <1>3
    <1>4. CASE Tick
        BY <1>4, TickFacts DEF Tick
    <1>5. CASE Sweep
        BY <1>5 DEF TypeOK, Sweep
    <1>6. CASE CrashRestart
        BY <1>6 DEF TypeOK, CrashRestart
    <1> QED
        BY <1>1, <1>2, <1>3, <1>4, <1>5, <1>6
        DEF Next, RefuseMessage, DenyUnaudited, Verify, RecordVerdict,
            AuditUnavailable, RecordOrder, StoreTask, vars, memory

\* No step makes a spent context usable again, or takes back an issued one.
LEMMA SpentStaysSpent ==
    ASSUME TypeOK, [Next]_vars, NEW r \in RequestIds, Spent(r)
    PROVE  Spent(r)' /\ issued'[r] = issued[r]
    <1> USE DEF Spent
    <1>1. ASSUME NEW ctx \in Context, IssueContext(ctx) PROVE Spent(r)' /\ issued'[r] = issued[r]
        BY <1>1 DEF TypeOK, IssueContext, Context
    <1>2. ASSUME NEW c \in Calls, NEW q \in Request, NEW proof \in Proof,
                 Claimable(q), Claim(c, q, proof)
          PROVE  Spent(r)' /\ issued'[r] = issued[r]
        BY <1>2, ClaimedEntry DEF Claimable
    <1>3. ASSUME UNCHANGED <<contexts, issued>> PROVE Spent(r)' /\ issued'[r] = issued[r]
        BY <1>3
    <1>4. CASE Tick
        BY <1>4, TickFacts DEF Tick
    <1>5. CASE Sweep
        BY <1>5 DEF TypeOK, Sweep
    <1>6. CASE CrashRestart
        BY <1>6 DEF TypeOK, CrashRestart
    <1> QED
        BY <1>1, <1>2, <1>3, <1>4, <1>5, <1>6
        DEF Next, RefuseMessage, DenyUnaudited, Verify, RecordVerdict,
            AuditUnavailable, RecordOrder, StoreTask, vars, memory

\* A claim is for an unspent context and spends it.
LEMMA ClaimSpends ==
    ASSUME TypeOK, ContextsAreIssued, NEW c \in Calls, NEW q \in Request,
           NEW proof \in Proof, Claimable(q), Claim(c, q, proof)
    PROVE  /\ q.ctx.request_id \in RequestIds
           /\ ~Spent(q.ctx.request_id)
           /\ Spent(q.ctx.request_id)'
           /\ issued[q.ctx.request_id] = q.ctx
           /\ q.ctx.action_ref = q.order_ref
    <1>1. q.ctx \in Context /\ q.ctx.request_id \in RequestIds
        BY DEF Request, Context
    <1>2. contexts[q.ctx.request_id] \in CtxEntry
        BY <1>1 DEF TypeOK, Claimable
    <1>3. issued[q.ctx.request_id] = q.ctx /\ q.ctx # NoContext
        BY <1>1, GatewayAssumption DEF ContextsAreIssued, Claimable
    <1>4. contexts'[q.ctx.request_id].used = TRUE
        BY <1>1, <1>2 DEF TypeOK, Claim, CtxEntry
    <1> QED
        BY <1>1, <1>2, <1>3, <1>4 DEF Spent, Claimable, Claim

\* The request a call record is for.
LEMMA RequestOfType ==
    ASSUME TypeOK, NEW c \in Calls, call[c] # NoCall
    PROVE  RequestOf(c) \in RequestIds
    BY DEF TypeOK, RequestOf, Call, Request, Context

\* Steps in which calls only end keep the claims of the others.
LEMMA ClaimsKept ==
    ASSUME TypeOK, CallsHoldContexts, [Next]_vars,
           \A c \in Calls : pc'[c] \in Unjudged \cup {"approved"} <=> call'[c] # NoCall,
           \A c \in Calls : call'[c] \in {call[c], NoCall}
    PROVE  CallsHoldContexts'
    <1>1. ASSUME NEW c \in Calls, call'[c] # NoCall
          PROVE  /\ call[c] # NoCall
                 /\ RequestOf(c)' = RequestOf(c)
                 /\ Spent(RequestOf(c))'
                 /\ issued'[RequestOf(c)].action_ref = call'[c].request.order_ref
        <2>1. call'[c] = call[c] /\ call[c] # NoCall /\ RequestOf(c)' = RequestOf(c)
            BY <1>1 DEF RequestOf
        <2>2. RequestOf(c) \in RequestIds /\ Spent(RequestOf(c))
            BY <2>1, RequestOfType DEF CallsHoldContexts
        <2> QED
            BY <2>1, <2>2, SpentStaysSpent DEF CallsHoldContexts, Spent
    <1> QED
        BY <1>1 DEF CallsHoldContexts

LEMMA CallsHoldContextsStep ==
    ASSUME TypeOK, ContextsAreIssued, CallsHoldContexts, [Next]_vars
    PROVE  CallsHoldContexts'
    <1> DEFINE InFlight == \A c \in Calls :
                   pc'[c] \in Unjudged \cup {"approved"} <=> call'[c] # NoCall
               OnlyEnd == \A c \in Calls : call'[c] \in {call[c], NoCall}
    <1>1. ASSUME NEW c \in Calls, NEW q \in Request, NEW proof \in Proof,
                 Claimable(q), Claim(c, q, proof)
          PROVE  CallsHoldContexts'
        <2> DEFINE r == q.ctx.request_id
                   new == [request |-> q, proof |-> proof]
        <2>1. /\ r \in RequestIds
              /\ ~Spent(r)
              /\ Spent(r)'
              /\ issued' = issued
              /\ issued[r] = q.ctx
              /\ q.ctx.action_ref = q.order_ref
            BY <1>1, ClaimSpends DEF Claim
        <2>2. new \in Call /\ new # NoCall
            BY GatewayAssumption DEF Call
        <2>3. call'[c] = new /\ \A d \in Calls \ {c} : call'[d] = call[d]
            BY <1>1 DEF TypeOK, Claim
        <2>4. RequestOf(c)' = r
            BY <2>3 DEF RequestOf
        <2>5. ASSUME NEW d \in Calls \ {c}, call'[d] # NoCall
              PROVE  /\ RequestOf(d)' = RequestOf(d)
                     /\ RequestOf(d) # r
                     /\ Spent(RequestOf(d))'
                     /\ issued[RequestOf(d)].action_ref = call[d].request.order_ref
            <3>1. call[d] # NoCall /\ RequestOf(d)' = RequestOf(d)
                BY <2>3, <2>5 DEF RequestOf
            <3>2. RequestOf(d) \in RequestIds /\ Spent(RequestOf(d))
                BY <3>1, RequestOfType DEF CallsHoldContexts
            <3> QED
                BY <3>1, <3>2, <2>1, SpentStaysSpent DEF CallsHoldContexts
        <2>6. InFlight
            BY <1>1, <2>2, <2>3 DEF TypeOK, Claim, CallsHoldContexts, Unjudged
        <2>7. \A d \in Calls : call'[d] # NoCall =>
                  /\ Spent(RequestOf(d))'
                  /\ issued'[RequestOf(d)'].action_ref = call'[d].request.order_ref
            <3>1. call'[c].request = q /\ q.ctx.action_ref = issued'[RequestOf(c)'].action_ref
                BY <2>1, <2>3, <2>4
            <3>2. Spent(RequestOf(c))'
                BY <2>1, <2>4 DEF Spent
            <3> QED
                BY <3>1, <3>2, <2>1, <2>3, <2>5
        <2>8. \A d, e \in Calls :
                  call'[d] # NoCall /\ call'[e] # NoCall /\ RequestOf(d)' = RequestOf(e)' => d = e
            BY <2>3, <2>4, <2>5 DEF CallsHoldContexts
        <2> QED
            BY <2>6, <2>7, <2>8 DEF CallsHoldContexts
    <1>2. ASSUME NEW c \in Calls, RefuseMessage(c) PROVE InFlight /\ OnlyEnd
        BY <1>2 DEF TypeOK, CallsHoldContexts, RefuseMessage, Unjudged
    <1>3. ASSUME NEW c \in Calls,
                 \/ DenyUnaudited(c)
                 \/ AuditUnavailable(c)
                 \/ RecordVerdict(c)
                 \/ RecordOrder(c)
          PROVE  InFlight /\ OnlyEnd
        <2>1. /\ \A d \in Calls \ {c} : pc'[d] = pc[d] /\ call'[d] = call[d]
              /\ \/ pc'[c] \notin Unjudged \cup {"approved"} /\ call'[c] = NoCall
                 \/ pc[c] \in Unjudged /\ pc'[c] = "approved" /\ call'[c] = call[c]
            <3>1. CASE RecordVerdict(c)
                BY <3>1 DEF TypeOK, RecordVerdict, Deny, Unjudged
            <3>2. CASE RecordOrder(c)
                BY <3>2 DEF TypeOK, RecordOrder, Unjudged
            <3>3. CASE DenyUnaudited(c) \/ AuditUnavailable(c)
                BY <3>3 DEF TypeOK, DenyUnaudited, AuditUnavailable, Deny, Unjudged
            <3> QED
                BY <1>3, <3>1, <3>2, <3>3
        <2> QED
            BY <2>1 DEF CallsHoldContexts
    <1>4. ASSUME NEW c \in Calls, Verify(c) PROVE InFlight /\ OnlyEnd
        BY <1>4 DEF TypeOK, CallsHoldContexts, Verify, Unjudged
    <1>5. ASSUME NEW c \in Calls, NEW t \in TaskIds, StoreTask(c, t) PROVE InFlight /\ OnlyEnd
        BY <1>5 DEF TypeOK, CallsHoldContexts, StoreTask, Unjudged
    <1>6. CASE UNCHANGED <<pc, call>>
        BY <1>6, ClaimsKept DEF CallsHoldContexts
    <1>7. CASE CrashRestart
        <2>1. InFlight /\ OnlyEnd
            BY <1>7 DEF CrashRestart, Unjudged
        <2> QED
            BY <2>1, ClaimsKept
    <1> QED
        BY <1>1, <1>2, <1>3, <1>4, <1>5, <1>6, <1>7, ClaimsKept
        DEF Next, IssueContext, Tick, Sweep, vars, memory

\* What RecordVerdict adds, seen from the calls and from the audit trail.
LEMMA VerdictFacts ==
    ASSUME TypeOK, CallsHoldContexts, VerdictsAreLate, NEW c \in Calls, RecordVerdict(c)
    PROVE  /\ call[c] # NoCall
           /\ RequestOf(c) \in RequestIds
           /\ Len(audit) \in Nat
           /\ Len(audit') = Len(audit) + 1
           /\ \A i \in 1..Len(audit) : audit'[i] = audit[i]
           /\ audit'[Len(audit) + 1].request_id = RequestOf(c)
           /\ audit'[Len(audit) + 1].predicate = Want
           /\ audit'[Len(audit) + 1].result = IF pc[c] = "passed" THEN "PASS" ELSE "FAIL"
           /\ \A i \in 1..Len(audit) : audit[i].request_id # RequestOf(c)
    <1>1. call[c] # NoCall
        BY DEF CallsHoldContexts, RecordVerdict, Unjudged
    <1>2. Verdict(c) \in AuditEntry
        BY <1>1, VerdictType
    <1>3. /\ Len(audit) \in Nat
          /\ Len(audit') = Len(audit) + 1
          /\ \A i \in 1..Len(audit) : audit'[i] = audit[i]
          /\ audit'[Len(audit) + 1] = Verdict(c)
        BY <1>2, AppendFacts DEF TypeOK, RecordVerdict
    <1>4. Verdict(c).request_id = RequestOf(c) /\ Verdict(c).predicate = Want
        BY DEF Verdict, RequestOf, VerdictsAreLate, RecordVerdict
    <1>5. Verdict(c).result = IF pc[c] = "passed" THEN "PASS" ELSE "FAIL"
        BY DEF Verdict
    <1>6. \A i \in 1..Len(audit) : audit[i].request_id # RequestOf(c)
        BY DEF VerdictsAreLate, RecordVerdict, Unjudged
    <1> QED
        BY <1>1, <1>3, <1>4, <1>5, <1>6, RequestOfType

\* Entries that are there stay for spent contexts.
LEMMA EntriesStaySpent ==
    ASSUME TypeOK, VerdictsAreLate, [Next]_vars,
           NEW i \in 1..Len(audit), audit'[i] = audit[i]
    PROVE  /\ Spent(audit[i].request_id)'
           /\ audit'[i].predicate = Want
           /\ issued'[audit'[i].request_id] = issued[audit[i].request_id]
    <1>1. audit[i].request_id \in RequestIds
        <2>1. audit[i] \in AuditEntry
            BY DEF TypeOK
        <2> QED
            BY <2>1 DEF AuditEntry
    <1>2. Spent(audit[i].request_id) /\ audit[i].predicate = Want
        BY DEF VerdictsAreLate
    <1> QED
        BY <1>1, <1>2, SpentStaysSpent DEF Spent

\* Every step but RecordVerdict leaves the audit trail alone.
LEMMA OnlyVerdictsAreAudited ==
    ASSUME [Next]_vars, \A c \in Calls : ~RecordVerdict(c)
    PROVE  audit' = audit
    BY DEF Next, IssueContext, Claim, RefuseMessage, DenyUnaudited, Verify, AuditUnavailable,
           RecordOrder, StoreTask, Tick, Sweep, CrashRestart, vars, memory

LEMMA VerdictsAreLateStep ==
    ASSUME TypeOK, ContextsAreIssued, CallsHoldContexts, VerdictsAreLate, [Next]_vars
    PROVE  VerdictsAreLate'
    <1> DEFINE Judged == \A c \in Calls : pc'[c] \in {"passed", "failed"} =>
                             call'[c].proof.predicate = Want
               Late == \A c \in Calls : pc'[c] \in Unjudged =>
                           \A i \in 1..Len(audit') : audit'[i].request_id # RequestOf(c)'
    <1>1. ASSUME audit' = audit, Judged, Late PROVE VerdictsAreLate'
        <2>1. \A i \in 1..Len(audit') : Spent(audit[i].request_id)' /\ audit'[i].predicate = Want
            BY <1>1, EntriesStaySpent
        <2> QED
            BY <1>1, <2>1 DEF VerdictsAreLate
    <1>2. ASSUME audit' = audit, NEW c \in Calls,
                 pc'[c] \notin Unjudged,
                 \A d \in Calls \ {c} : pc'[d] = pc[d] /\ call'[d] = call[d]
          PROVE  Judged /\ Late
        BY <1>2 DEF VerdictsAreLate, RequestOf, Unjudged
    <1>3. ASSUME audit' = audit, UNCHANGED <<pc, call>> PROVE Judged /\ Late
        BY <1>3 DEF VerdictsAreLate, RequestOf
    <1>4. ASSUME NEW c \in Calls, NEW q \in Request, NEW proof \in Proof,
                 Claimable(q), Claim(c, q, proof)
          PROVE  VerdictsAreLate'
        <2>1. \A i \in 1..Len(audit) : audit[i].request_id # q.ctx.request_id
            BY <1>4, ClaimSpends DEF VerdictsAreLate
        <2>2. /\ audit' = audit
              /\ call'[c].request = q
              /\ pc'[c] = "claimed"
              /\ \A d \in Calls \ {c} : pc'[d] = pc[d] /\ call'[d] = call[d]
            BY <1>4 DEF TypeOK, Claim
        <2>3. Judged
            BY <2>2 DEF VerdictsAreLate
        <2>4. Late
            BY <2>1, <2>2 DEF VerdictsAreLate, RequestOf
        <2> QED
            BY <1>1, <2>2, <2>3, <2>4
    <1>5. ASSUME NEW c \in Calls, DenyUnaudited(c) \/ AuditUnavailable(c)
          PROVE  VerdictsAreLate'
        <2>1. /\ audit' = audit
              /\ pc'[c] \notin Unjudged
              /\ \A d \in Calls \ {c} : pc'[d] = pc[d] /\ call'[d] = call[d]
            BY <1>5 DEF TypeOK, DenyUnaudited, AuditUnavailable, Deny, Unjudged
        <2> QED
            BY <1>1, <1>2, <2>1
    <1>6. ASSUME NEW c \in Calls, Verify(c) PROVE VerdictsAreLate'
        <2>1. /\ audit' = audit
              /\ call' = call
              /\ pc[c] \in Unjudged
              /\ call[c].proof.predicate = Want
              /\ \A d \in Calls \ {c} : pc'[d] = pc[d]
            BY <1>6 DEF TypeOK, Verify, Decodable, Unjudged
        <2>2. Judged
            BY <2>1 DEF VerdictsAreLate
        <2>3. Late
            BY <2>1 DEF VerdictsAreLate, RequestOf
        <2> QED
            BY <1>1, <2>1, <2>2, <2>3
    <1>7. ASSUME NEW c \in Calls, RecordVerdict(c) PROVE VerdictsAreLate'
        <2>1. /\ pc'[c] \notin Unjudged
              /\ \A d \in Calls \ {c} : pc'[d] = pc[d] /\ call'[d] = call[d]
            BY <1>7 DEF TypeOK, RecordVerdict, Deny, Unjudged
        <2>2. /\ call[c] # NoCall
              /\ RequestOf(c) \in RequestIds
              /\ Spent(RequestOf(c))
            BY <1>7, VerdictFacts DEF CallsHoldContexts
        <2>3. Spent(RequestOf(c)) /\ UNCHANGED <<issued, contexts>>
            BY <1>7, <2>2 DEF RecordVerdict
        <2>4. \A i \in 1..Len(audit') : Spent(audit[i].request_id)' /\ audit'[i].predicate = Want
            <3> TAKE i \in 1..Len(audit')
            <3>1. CASE i \in 1..Len(audit)
                BY <1>7, <3>1, VerdictFacts, EntriesStaySpent
            <3>2. CASE i = Len(audit) + 1
                BY <1>7, <2>3, <3>2, VerdictFacts DEF Spent
            <3> QED
                BY <1>7, <3>1, <3>2, VerdictFacts
        <2>5. \A d \in Calls \ {c} : pc[d] \in Unjudged => RequestOf(d) # RequestOf(c)
            BY <2>2 DEF CallsHoldContexts
        <2>6. \A d \in Calls : pc'[d] \in Unjudged =>
                  \A i \in 1..Len(audit') : audit'[i].request_id # RequestOf(d)'
            <3> TAKE d \in Calls
            <3> SUFFICES ASSUME pc'[d] \in Unjudged, NEW i \in 1..Len(audit')
                         PROVE  audit'[i].request_id # RequestOf(d)'
                OBVIOUS
            <3>1. d # c /\ pc[d] \in Unjudged /\ RequestOf(d)' = RequestOf(d)
                BY <2>1 DEF RequestOf
            <3>2. CASE i \in 1..Len(audit)
                BY <1>7, <3>1, <3>2, VerdictFacts DEF VerdictsAreLate
            <3>3. CASE i = Len(audit) + 1
                BY <1>7, <2>5, <3>1, <3>3, VerdictFacts
            <3> QED
                BY <1>7, <3>2, <3>3, VerdictFacts
        <2>7. Judged
            BY <2>1 DEF VerdictsAreLate, Unjudged
        <2> QED
            BY <2>4, <2>6, <2>7 DEF VerdictsAreLate
    <1>8. ASSUME NEW c \in Calls,
                 \/ RefuseMessage(c)
                 \/ RecordOrder(c)
                 \/ \E t \in TaskIds : StoreTask(c, t)
          PROVE  VerdictsAreLate'
        <2>1. /\ audit' = audit
              /\ pc'[c] \notin Unjudged
              /\ \A d \in Calls \ {c} : pc'[d] = pc[d] /\ call'[d] = call[d]
            BY <1>8 DEF TypeOK, RefuseMessage, RecordOrder, StoreTask, Unjudged
        <2> QED
            BY <1>1, <1>2, <2>1
    <1>9. CASE CrashRestart
        <2>1. audit' = audit /\ \A c \in Calls : pc'[c] \notin Unjudged
            BY <1>9 DEF CrashRestart, Unjudged
        <2> QED
            BY <1>1, <2>1 DEF Unjudged
    <1>10. CASE UNCHANGED <<audit, pc, call>>
        BY <1>10, <1>1, <1>3
    <1> QED
        BY <1>4, <1>5, <1>6, <1>7, <1>8, <1>9, <1>10
        DEF Next, IssueContext, Tick, Sweep, vars, memory

\* A verdict's entry is the first for its context.
LEMMA OneVerdictStep ==
    ASSUME TypeOK, CallsHoldContexts, VerdictsAreLate, OneVerdictPerContext, [Next]_vars
    PROVE  OneVerdictPerContext'
    <1>1. ASSUME NEW c \in Calls, RecordVerdict(c) PROVE OneVerdictPerContext'
        BY <1>1, VerdictFacts DEF OneVerdictPerContext
    <1>2. CASE audit' = audit
        BY <1>2 DEF OneVerdictPerContext
    <1> QED
        BY <1>1, <1>2, OnlyVerdictsAreAudited

-----------------------------------------------------------------------------
(* The ledger *)

\* Audit entries are never changed or removed, so passes stay passes.
LEMMA AuditGrows ==
    ASSUME TypeOK, CallsHoldContexts, VerdictsAreLate, [Next]_vars
    PROVE  \A i \in 1..Len(audit) : i \in 1..Len(audit') /\ audit'[i] = audit[i]
    <1>1. ASSUME NEW c \in Calls, RecordVerdict(c)
          PROVE  \A i \in 1..Len(audit) : i \in 1..Len(audit') /\ audit'[i] = audit[i]
        BY <1>1, VerdictFacts
    <1> QED
        BY <1>1, OnlyVerdictsAreAudited

\* The order RecordOrder adds, at the end of the history.
LEMMA OrderFacts ==
    ASSUME TypeOK, CallsHoldContexts, NEW c \in Calls, RecordOrder(c)
    PROVE  /\ call[c] # NoCall
           /\ Len(executed) \in Nat /\ Len(orders) \in Nat
           /\ Len(executed') = Len(executed) + 1
           /\ \A k \in 1..Len(executed) : executed'[k] = executed[k]
           /\ executed'[Len(executed) + 1] = OrderOf(c)
           /\ Len(orders') = Len(orders) + 1
           /\ \A k \in 1..Len(orders) : orders'[k] = orders[k]
           /\ orders'[Len(orders) + 1] = OrderOf(c)
           /\ OrderOf(c).audit_entry = entry[c]
           /\ OrderOf(c).order_ref = call[c].request.order_ref
    <1>1. call[c] # NoCall
        BY DEF CallsHoldContexts, RecordOrder, Unjudged
    <1>2. OrderOf(c) \in Order
        BY <1>1 DEF TypeOK, OrderOf, Order, Call, Request
    <1>3. executed \in Seq(Order) /\ orders \in Seq(Order)
        BY DEF TypeOK
    <1>4. executed' = Append(executed, OrderOf(c)) /\ orders' = Append(orders, OrderOf(c))
        BY DEF RecordOrder
    <1>5. OrderOf(c).audit_entry = entry[c] /\ OrderOf(c).order_ref = call[c].request.order_ref
        BY DEF OrderOf
    <1> QED
        BY <1>1, <1>2, <1>3, <1>4, <1>5, AppendFacts

\* Every step but RecordOrder leaves the history of orders alone.
LEMMA OnlyOrdersAreExecuted ==
    ASSUME [Next]_vars, \A c \in Calls : ~RecordOrder(c)
    PROVE  executed' = executed
    BY DEF Next, IssueContext, Claim, RefuseMessage, DenyUnaudited, Verify, AuditUnavailable,
           RecordVerdict, StoreTask, Tick, Sweep, CrashRestart, vars, memory

\* A step approves a call with the entry it records, or leaves an approved
\* call as it is.
LEMMA ApprovalSource ==
    ASSUME TypeOK, CallsHoldContexts, [Next]_vars, NEW d \in Calls, pc'[d] = "approved"
    PROVE  \/ pc[d] = "passed" /\ RecordVerdict(d)
           \/ pc[d] = "approved" /\ entry'[d] = entry[d] /\ call'[d] = call[d]
    <1>1. ASSUME NEW c \in Calls, NEW q \in Request, NEW proof \in Proof, Claim(c, q, proof)
          PROVE  pc[d] = "approved" /\ entry'[d] = entry[d] /\ call'[d] = call[d]
        BY <1>1 DEF TypeOK, Claim
    <1>2. ASSUME NEW c \in Calls,
                 \/ RefuseMessage(c) \/ DenyUnaudited(c) \/ Verify(c) \/ AuditUnavailable(c)
                 \/ RecordOrder(c) \/ \E t \in TaskIds : StoreTask(c, t)
          PROVE  pc[d] = "approved" /\ entry'[d] = entry[d] /\ call'[d] = call[d]
        BY <1>2 DEF TypeOK, RefuseMessage, DenyUnaudited, Verify, AuditUnavailable, Deny,
                    RecordOrder, StoreTask
    <1>3. ASSUME NEW c \in Calls, RecordVerdict(c)
          PROVE  \/ pc[d] = "passed" /\ RecordVerdict(d)
                 \/ pc[d] = "approved" /\ entry'[d] = entry[d] /\ call'[d] = call[d]
        BY <1>3 DEF TypeOK, RecordVerdict, Deny
    <1>4. CASE CrashRestart
        BY <1>4 DEF CrashRestart
    <1>5. CASE UNCHANGED <<pc, call, entry>>
        BY <1>5
    <1> QED
        BY <1>1, <1>2, <1>3, <1>4, <1>5 DEF Next, IssueContext, Tick, Sweep, vars, memory

LEMMA ApprovalsAreOpenStep ==
    ASSUME TypeOK, CallsHoldContexts, VerdictsAreLate, OrdersAuthorised, ApprovalsAreOpen,
           [Next]_vars
    PROVE  ApprovalsAreOpen'
    <1> SUFFICES ASSUME NEW d \in Calls, pc'[d] = "approved"
                 PROVE  /\ entry'[d] \in PassEntries'
                        /\ audit'[entry'[d]].request_id = RequestOf(d)'
                        /\ \A k \in 1..Len(executed') : executed'[k].audit_entry # entry'[d]
        BY DEF ApprovalsAreOpen
    <1>1. CASE pc[d] = "passed" /\ RecordVerdict(d)
        <2>1. entry'[d] = Len(audit) + 1 /\ call' = call /\ executed' = executed
            BY <1>1 DEF TypeOK, RecordVerdict
        <2>2. \A k \in 1..Len(executed) : executed[k].audit_entry \in 1..Len(audit)
            BY DEF OrdersAuthorised, PassEntries
        <2>3. /\ Len(audit) \in Nat
              /\ Len(audit') = Len(audit) + 1
              /\ audit'[Len(audit) + 1].result = "PASS"
              /\ audit'[Len(audit) + 1].request_id = RequestOf(d)
            BY <1>1, VerdictFacts
        <2>4. entry'[d] \in PassEntries'
            BY <2>1, <2>3 DEF PassEntries
        <2>5. audit'[entry'[d]].request_id = RequestOf(d)'
            BY <2>1, <2>3 DEF RequestOf
        <2>6. \A k \in 1..Len(executed') : executed'[k].audit_entry # entry'[d]
            BY <2>1, <2>2, <2>3
        <2> QED
            BY <2>4, <2>5, <2>6
    <1>2. CASE pc[d] = "approved" /\ entry'[d] = entry[d] /\ call'[d] = call[d]
        <2>1. /\ entry[d] \in PassEntries
              /\ audit[entry[d]].request_id = RequestOf(d)
              /\ \A k \in 1..Len(executed) : executed[k].audit_entry # entry[d]
            BY <1>2 DEF ApprovalsAreOpen
        <2>2. entry'[d] \in PassEntries' /\ audit'[entry'[d]].request_id = RequestOf(d)'
            BY <1>2, <2>1, AuditGrows DEF PassEntries, RequestOf
        <2>3. ASSUME NEW c \in Calls, RecordOrder(c)
              PROVE  \A k \in 1..Len(executed') : executed'[k].audit_entry # entry'[d]
            <3>1. c # d /\ call[c] # NoCall /\ call[d] # NoCall
                BY <1>2, <2>3, OrderFacts
                DEF TypeOK, RecordOrder, CallsHoldContexts, Unjudged
            <3>2. RequestOf(c) # RequestOf(d)
                BY <3>1 DEF CallsHoldContexts
            <3>3. audit[entry[c]].request_id = RequestOf(c)
                BY <2>3 DEF ApprovalsAreOpen, RecordOrder
            <3>4. entry[c] # entry[d]
                BY <2>1, <3>2, <3>3
            <3> QED
                BY <1>2, <2>1, <2>3, <3>4, OrderFacts
        <2>4. CASE executed' = executed
            BY <1>2, <2>1, <2>2, <2>4
        <2> QED
            BY <2>2, <2>3, <2>4, OnlyOrdersAreExecuted
    <1> QED
        BY <1>1, <1>2, ApprovalSource

\* An order that is authorised stays so.
LEMMA AuthorityStays ==
    ASSUME TypeOK, CallsHoldContexts, VerdictsAreLate, OrdersAuthorised, [Next]_vars,
           NEW k \in 1..Len(executed)
    PROVE  LET i == executed[k].audit_entry IN
           /\ i \in PassEntries'
           /\ audit'[i].predicate = Want
           /\ issued'[audit'[i].request_id].action_ref = executed[k].order_ref
    <1> DEFINE i == executed[k].audit_entry
    <1>1. /\ i \in PassEntries /\ i \in 1..Len(audit)
          /\ audit[i].predicate = Want
          /\ issued[audit[i].request_id].action_ref = executed[k].order_ref
        BY DEF OrdersAuthorised, PassEntries
    <1>2. audit'[i] = audit[i] /\ i \in 1..Len(audit')
        BY <1>1, AuditGrows
    <1>3. issued'[audit'[i].request_id] = issued[audit[i].request_id]
        BY <1>1, <1>2, EntriesStaySpent
    <1> QED
        BY <1>1, <1>2, <1>3 DEF PassEntries

LEMMA OrdersStep ==
    ASSUME TypeOK, CallsHoldContexts, VerdictsAreLate, OrdersAuthorised, OrderPerVerdict,
           ApprovalsAreOpen, [Next]_vars
    PROVE  OrdersAuthorised' /\ OrderPerVerdict'
    <1>1. CASE executed' = executed
        <2>1. OrderPerVerdict'
            BY <1>1 DEF OrderPerVerdict
        <2>2. OrdersAuthorised'
            BY <1>1, AuthorityStays DEF OrdersAuthorised
        <2> QED
            BY <2>1, <2>2
    <1>2. ASSUME NEW c \in Calls, RecordOrder(c)
          PROVE  OrdersAuthorised' /\ OrderPerVerdict'
        <2>1. /\ entry[c] \in PassEntries
              /\ audit[entry[c]].request_id = RequestOf(c)
              /\ \A k \in 1..Len(executed) : executed[k].audit_entry # entry[c]
            BY <1>2 DEF ApprovalsAreOpen, RecordOrder
        <2>2. audit[entry[c]].predicate = Want
            BY <2>1 DEF VerdictsAreLate, PassEntries
        <2>3. issued[RequestOf(c)].action_ref = call[c].request.order_ref
            BY <1>2, OrderFacts DEF CallsHoldContexts
        <2>4. UNCHANGED <<audit, issued>>
            BY <1>2 DEF RecordOrder
        <2>5. OrderPerVerdict'
            <3>1. /\ Len(executed) \in Nat
                  /\ Len(executed') = Len(executed) + 1
                  /\ \A k \in 1..Len(executed) : executed'[k] = executed[k]
                  /\ executed'[Len(executed) + 1].audit_entry = entry[c]
                BY <1>2, OrderFacts
            <3> QED
                BY <2>1, <3>1 DEF OrderPerVerdict
        <2>6. OrdersAuthorised'
            <3> SUFFICES ASSUME NEW k \in 1..Len(executed')
                         PROVE  LET i == executed'[k].audit_entry IN
                                /\ i \in PassEntries'
                                /\ audit'[i].predicate = Want
                                /\ issued'[audit'[i].request_id].action_ref
                                       = executed'[k].order_ref
                BY DEF OrdersAuthorised
            <3>1. CASE k \in 1..Len(executed)
                BY <1>2, <3>1, OrderFacts, AuthorityStays
            <3>2. CASE k = Len(executed) + 1
                BY <1>2, <2>1, <2>2, <2>3, <2>4, <3>2, OrderFacts DEF PassEntries
            <3> QED
                BY <1>2, <3>1, <3>2, OrderFacts
        <2> QED
            BY <2>5, <2>6
    <1> QED
        BY <1>1, <1>2, OnlyOrdersAreExecuted

-----------------------------------------------------------------------------
(* Tasks and ages *)

LEMMA TasksAreBackedStep ==
    ASSUME TypeOK, CallsHoldContexts, TasksAreBacked, [Next]_vars
    PROVE  TasksAreBacked'
    <1> DEFINE Backed(n) == \E k \in 1..Len(orders) : orders[k].audit_entry = n
    <1> USE DEF TasksAreBacked, TaskImpliesOrder
    <1>1. ASSUME NEW c \in Calls, NEW q \in Request, NEW proof \in Proof, Claim(c, q, proof)
          PROVE  TasksAreBacked'
        BY <1>1 DEF TypeOK, Claim
    <1>2. ASSUME NEW c \in Calls,
                 \/ RefuseMessage(c) \/ DenyUnaudited(c) \/ Verify(c) \/ AuditUnavailable(c)
                 \/ RecordVerdict(c)
          PROVE  TasksAreBacked'
        <2>1. /\ UNCHANGED <<tasks, orders>>
              /\ pc[c] \notin {"approved", "completing"}
              /\ pc'[c] # "completing"
              /\ pc'[c] # "approved" => entry'[c] = entry[c]
              /\ \A d \in Calls \ {c} : pc'[d] = pc[d] /\ entry'[d] = entry[d]
            <3>1. CASE RecordVerdict(c)
                BY <3>1 DEF TypeOK, RecordVerdict, Deny
            <3>2. CASE RefuseMessage(c) \/ Verify(c)
                BY <3>2 DEF TypeOK, RefuseMessage, Verify
            <3>3. CASE DenyUnaudited(c) \/ AuditUnavailable(c)
                BY <3>3 DEF TypeOK, DenyUnaudited, AuditUnavailable, Deny
            <3> QED
                BY <1>2, <3>1, <3>2, <3>3
        <2> QED
            BY <2>1
    <1>4. ASSUME NEW c \in Calls, RecordOrder(c) PROVE TasksAreBacked'
        <2>1. ASSUME NEW n, Backed(n) PROVE Backed(n)'
            BY <1>4, <2>1, OrderFacts
        <2>2. \E k \in 1..Len(orders') : orders'[k].audit_entry = entry[c]
            BY <1>4, OrderFacts
        <2>3. tasks' = tasks
            BY <1>4 DEF RecordOrder
        <2>4. \A d \in Calls \ {c} : pc'[d] = pc[d] /\ entry'[d] = entry[d]
            BY <1>4 DEF TypeOK, RecordOrder
        <2>5. \/ pc'[c] = "idle" /\ entry'[c] = 0
              \/ pc'[c] = "completing" /\ entry'[c] = entry[c]
            BY <1>4 DEF TypeOK, RecordOrder
        <2> QED
            <3>1. TaskImpliesOrder'
                BY <2>1, <2>3
            <3>2. ASSUME NEW d \in Calls, pc'[d] = "completing"
                  PROVE  \E k \in 1..Len(orders') : orders'[k].audit_entry = entry'[d]
                <4>1. CASE d = c
                    BY <2>2, <2>5, <3>2, <4>1
                <4>2. CASE d # c
                    <5>1. pc[d] = "completing" /\ entry'[d] = entry[d]
                        BY <2>4, <3>2, <4>2
                    <5>2. Backed(entry[d])
                        BY <5>1
                    <5>3. \E k \in 1..Len(orders') : orders'[k].audit_entry = entry[d]
                        BY <1>4, <5>2, OrderFacts
                    <5> QED
                        BY <5>1, <5>3
                <4> QED
                    BY <4>1, <4>2
            <3>4. \A d \in Calls : pc'[d] \notin {"approved", "completing"} => entry'[d] = 0
                BY <2>4, <2>5
            <3> QED
                BY <3>1, <3>2, <3>4
    <1>5. ASSUME NEW c \in Calls, NEW t \in TaskIds, StoreTask(c, t) PROVE TasksAreBacked'
        BY <1>5 DEF TypeOK, StoreTask
    <1>6. CASE Tick
        BY <1>6, TickFacts DEF Tick
    <1>7. CASE Sweep
        BY <1>7 DEF TypeOK, Sweep
    <1>8. CASE CrashRestart
        BY <1>8 DEF CrashRestart
    <1>9. CASE UNCHANGED <<pc, entry, tasks, orders>>
        BY <1>9
    <1> QED
        BY <1>1, <1>2, <1>4, <1>5, <1>6, <1>7, <1>8, <1>9
        DEF Next, IssueContext, vars, memory

LEMMA AgesFollowSweeperStep ==
    ASSUME TypeOK, AgesFollowSweeper, [Next]_vars
    PROVE  AgesFollowSweeper'
    <1> USE GatewayAssumption DEF AgesFollowSweeper, TTL
    <1>1. ASSUME NEW ctx \in Context, IssueContext(ctx) PROVE AgesFollowSweeper'
        BY <1>1 DEF TypeOK, IssueContext, Context
    <1>2. ASSUME NEW c \in Calls, NEW q \in Request, NEW proof \in Proof,
                 Claimable(q), Claim(c, q, proof)
          PROVE  AgesFollowSweeper'
        <2>1. UNCHANGED <<tasks, sinceSweep>> /\ contexts[q.ctx.request_id] # NoEntry
            BY <1>2 DEF Claimable, Claim
        <2>2. \A r \in RequestIds : contexts'[r] # NoEntry =>
                  contexts[r] # NoEntry /\ contexts'[r].age = contexts[r].age
            BY <1>2, <2>1, ClaimedEntry
        <2> QED
            BY <2>1, <2>2
    <1>3. ASSUME NEW c \in Calls, NEW t \in TaskIds, StoreTask(c, t) PROVE AgesFollowSweeper'
        BY <1>3 DEF TypeOK, StoreTask
    <1>4. CASE Tick
        <2>1. sinceSweep' = sinceSweep + 1 /\ sinceSweep \in Nat
            BY <1>4 DEF TypeOK, Tick
        <2>2. \A r \in RequestIds : contexts[r] \in CtxEntry => contexts[r].age \in Nat
            BY DEF CtxEntry
        <2>3. \A t \in TaskIds : tasks[t] \in TaskEntry => tasks[t].age \in Nat
            BY DEF TaskEntry
        <2> QED
            BY <1>4, <2>1, <2>2, <2>3, TickFacts
    <1>5. CASE Sweep
        BY <1>5 DEF TypeOK, Sweep, CtxEntry, TaskEntry
    <1>6. CASE CrashRestart
        BY <1>6 DEF CrashRestart
    <1>7. CASE UNCHANGED <<contexts, tasks, sinceSweep>>
        BY <1>7
    <1> QED
        BY <1>1, <1>2, <1>3, <1>4, <1>5, <1>6, <1>7
        DEF Next, RefuseMessage, DenyUnaudited, Verify, RecordVerdict, AuditUnavailable,
            RecordOrder, vars, memory

-----------------------------------------------------------------------------
(* The invariant and what follows from it *)

LEMMA IInvInit == Init => IInv
    BY TypeInit, GatewayAssumption
    DEF Init, IInv, ContextsAreIssued, CallsHoldContexts, VerdictsAreLate,
        OneVerdictPerContext, ApprovalsAreOpen, OrdersAuthorised, OrderPerVerdict,
        TasksAreBacked, TaskImpliesOrder, AgesFollowSweeper, Unjudged

LEMMA IInvStep == IInv /\ [Next]_vars => IInv'
    BY TypeStep, ContextsAreIssuedStep, CallsHoldContextsStep, VerdictsAreLateStep,
       OneVerdictStep, ApprovalsAreOpenStep, OrdersStep, TasksAreBackedStep,
       AgesFollowSweeperStep
    DEF IInv

\* The inductive invariant holds of every behaviour of the gateway, however
\* many calls, contexts and crashes there are.
THEOREM Invariant == Spec => []IInv
    BY IInvInit, IInvStep, PTL DEF Spec

\* Types: no handler stores anything but what the declarations say.
THEOREM TypeCorrect == Spec => []TypeOK
    BY Invariant, PTL DEF IInv

\* A context is judged once (entry.used, set under the lock), for any number
\* of concurrent calls, evictions and restarts.
THEOREM SingleVerdict == Spec => []OneVerdictPerContext
    BY Invariant, PTL DEF IInv

\* Every order stands on a PASS entry for the tool's predicate and for the
\* context issued for this order.
THEOREM OrdersAreAuthorised == Spec => []OrdersAuthorised
    BY Invariant, PTL DEF IInv

\* One verdict puts one order on the ledger.
THEOREM SingleOrder == Spec => []OrderPerVerdict
    BY Invariant, PTL DEF IInv

\* A completed task in the store has its order in the ledger.
THEOREM TasksHaveOrders == Spec => []TaskImpliesOrder
    BY Invariant, PTL DEF IInv, TasksAreBacked

\* No context or task is kept longer than contextTTL and one sweep period.
THEOREM AgesBounded == Spec => []AgeBounded
    <1>1. IInv => AgeBounded
        BY GatewayAssumption
        DEF IInv, TypeOK, CtxEntry, TaskEntry, AgesFollowSweeper, AgeBounded, TTL
    <1> QED
        BY <1>1, Invariant, PTL

-----------------------------------------------------------------------------
(* Gateway implements Authorization *)

LEMMA AuthorizationInit == Init => Authorization!Init
    BY DEF Init, Authorization!Init, Spent, PassEntries, Granted, SpentIds, ApprovedIds,
           ExecutedGrants

\* While the audit trail only grows, what was executed reads as it did.
LEMMA ExecutedGrantsKept ==
    ASSUME IInv, [Next]_vars, executed' = executed
    PROVE  ExecutedGrants' = ExecutedGrants
    <1>1. \A k \in 1..Len(executed) : executed[k].audit_entry \in 1..Len(audit)
        BY DEF IInv, OrdersAuthorised, PassEntries
    <1>2. \A i \in 1..Len(audit) : audit'[i] = audit[i]
        BY AuditGrows DEF IInv
    <1> QED
        BY <1>1, <1>2 DEF ExecutedGrants

\* Steps that issue nothing and record nothing at most spend.
LEMMA OnlySpends ==
    ASSUME IInv, [Next]_vars, UNCHANGED <<issued, audit, executed>>
    PROVE  [Authorization!Next]_(Authorization!vars)
    <1>1. UNCHANGED <<Granted, ApprovedIds, ExecutedGrants>>
        BY DEF Granted, ApprovedIds, ExecutedGrants, PassEntries
    <1>2. SpentIds \subseteq SpentIds'
        BY SpentStaysSpent DEF IInv, SpentIds
    <1>3. \A r \in SpentIds' : Granted[r] # NoContext
        <2>1. \A r \in SpentIds' : r \in RequestIds /\ issued[r] # NoContext
            BY DEF SpentIds, Spent
        <2>2. \A r \in RequestIds : issued[r] \in Context \cup {NoContext}
            BY DEF IInv, TypeOK
        <2>3. \A r \in SpentIds' : issued[r].action_ref \in ActionRefs
            BY <2>1, <2>2 DEF Context
        <2> QED
            BY <2>1, <2>3, GatewayAssumption DEF Granted
    <1>4. Authorization!Spend(SpentIds')
        BY <1>1, <1>2, <1>3 DEF Authorization!Spend
    <1>5. SpentIds' \in SUBSET RequestIds
        BY DEF SpentIds
    <1> QED
        BY <1>4, <1>5 DEF Authorization!Next

LEMMA IssueContextGrants ==
    ASSUME IInv, [Next]_vars, NEW ctx \in Context, IssueContext(ctx)
    PROVE  Authorization!Grant(ctx.request_id, ctx.action_ref)
    <1> DEFINE r == ctx.request_id
    <1>1. r \in RequestIds /\ ctx.action_ref \in ActionRefs
        BY DEF Context
    <1>2. UNCHANGED <<audit, executed>> /\ issued[r] = NoContext
        BY DEF IssueContext
    <1>3. /\ \A s \in RequestIds \ {r} : issued'[s] = issued[s] /\ contexts'[s] = contexts[s]
          /\ issued'[r] = ctx /\ contexts'[r] = [ctx |-> ctx, used |-> FALSE, age |-> 0]
        BY <1>1 DEF IssueContext, IInv, TypeOK
    <1>4. ctx # NoContext
        BY GatewayAssumption
    <1>5. contexts'[r] # NoEntry /\ ~contexts'[r].used
        <2>1. [ctx |-> ctx, used |-> FALSE, age |-> 0] \in CtxEntry
            BY DEF CtxEntry
        <2>2. ~contexts'[r].used
            BY <1>3
        <2> QED
            BY <1>3, <2>1, <2>2, GatewayAssumption
    <1>6. SpentIds' = SpentIds
        BY <1>2, <1>3, <1>5 DEF SpentIds, Spent
    <1>7. Granted[r] = NoContext /\ Granted' = [Granted EXCEPT ![r] = ctx.action_ref]
        BY <1>1, <1>2, <1>3, <1>4 DEF Granted
    <1>8. UNCHANGED <<ApprovedIds, ExecutedGrants>>
        BY <1>2 DEF ApprovedIds, ExecutedGrants, PassEntries
    <1> QED
        BY <1>6, <1>7, <1>8 DEF Authorization!Grant

LEMMA RecordVerdictApproves ==
    ASSUME IInv, [Next]_vars, NEW c \in Calls, RecordVerdict(c)
    PROVE  [Authorization!Next]_(Authorization!vars)
    <1>1. /\ RequestOf(c) \in RequestIds
          /\ call[c] # NoCall
          /\ Len(audit) \in Nat
          /\ Len(audit') = Len(audit) + 1
          /\ \A i \in 1..Len(audit) : audit'[i] = audit[i]
          /\ audit'[Len(audit) + 1].request_id = RequestOf(c)
          /\ audit'[Len(audit) + 1].result = IF pc[c] = "passed" THEN "PASS" ELSE "FAIL"
          /\ \A i \in 1..Len(audit) : audit[i].request_id # RequestOf(c)
        BY VerdictFacts DEF IInv
    <1>2. UNCHANGED <<contexts, issued, executed>>
        BY DEF RecordVerdict
    <1>3. UNCHANGED <<Granted, SpentIds, ExecutedGrants>>
        BY <1>2, ExecutedGrantsKept DEF Granted, SpentIds, Spent
    <1>4. CASE pc[c] = "passed"
        <2>1. PassEntries' = PassEntries \cup {Len(audit) + 1}
            BY <1>1, <1>4 DEF PassEntries
        <2>2. ApprovedIds' = ApprovedIds \cup {RequestOf(c)}
            BY <1>1, <2>1 DEF ApprovedIds, PassEntries
        <2>3. RequestOf(c) \in SpentIds \ ApprovedIds
            BY <1>1 DEF IInv, CallsHoldContexts, SpentIds, ApprovedIds, PassEntries
        <2>4. Authorization!Approve(RequestOf(c))
            BY <1>3, <2>2, <2>3 DEF Authorization!Approve
        <2> QED
            BY <1>1, <2>4 DEF Authorization!Next
    <1>5. CASE pc[c] # "passed"
        <2>1. PassEntries' = PassEntries
            BY <1>1, <1>5 DEF PassEntries
        <2>2. ApprovedIds' = ApprovedIds
            BY <1>1, <2>1 DEF ApprovedIds, PassEntries
        <2> QED
            BY <1>3, <2>2 DEF Authorization!vars
    <1> QED
        BY <1>4, <1>5

LEMMA RecordOrderExecutes ==
    ASSUME IInv, [Next]_vars, NEW c \in Calls, RecordOrder(c)
    PROVE  Authorization!Execute(RequestOf(c)) /\ RequestOf(c) \in RequestIds
    <1> DEFINE r == RequestOf(c)
    <1>1. /\ call[c] # NoCall
          /\ Len(executed) \in Nat
          /\ Len(executed') = Len(executed) + 1
          /\ \A k \in 1..Len(executed) : executed'[k] = executed[k]
          /\ executed'[Len(executed) + 1].audit_entry = entry[c]
          /\ executed'[Len(executed) + 1].order_ref = call[c].request.order_ref
        BY OrderFacts DEF IInv
    <1>2. /\ entry[c] \in PassEntries
          /\ audit[entry[c]].request_id = r
          /\ \A k \in 1..Len(executed) : executed[k].audit_entry # entry[c]
        BY DEF IInv, ApprovalsAreOpen, RecordOrder
    <1>3. r \in RequestIds /\ Spent(r) /\ issued[r].action_ref = call[c].request.order_ref
        BY <1>1, RequestOfType DEF IInv, CallsHoldContexts
    <1>4. UNCHANGED <<audit, issued, contexts>>
        BY DEF RecordOrder
    <1>5. UNCHANGED <<Granted, SpentIds, ApprovedIds>>
        BY <1>4 DEF Granted, SpentIds, Spent, ApprovedIds, PassEntries
    <1>6. r \in ApprovedIds
        BY <1>2 DEF ApprovedIds
    <1>7. \A k \in 1..Len(executed) : audit[executed[k].audit_entry].request_id # r
        BY <1>2 DEF IInv, OneVerdictPerContext, OrdersAuthorised, PassEntries
    <1>8. Granted[r] = call[c].request.order_ref
        BY <1>3 DEF Granted, Spent
    <1>9. /\ Len(ExecutedGrants) = Len(executed)
          /\ \A k \in 1..Len(executed) : ExecutedGrants[k][1] # r
        BY <1>1, <1>7 DEF ExecutedGrants
    <1>10. ExecutedGrants' = Append(ExecutedGrants, <<r, Granted[r]>>)
        <2>1. ExecutedGrants' = [k \in 1..(Len(executed) + 1) |->
                  <<audit[executed'[k].audit_entry].request_id, executed'[k].order_ref>>]
            BY <1>1, <1>4 DEF ExecutedGrants
        <2>2. Append(ExecutedGrants, <<r, Granted[r]>>) =
                  [k \in 1..(Len(executed) + 1) |->
                      IF k = Len(executed) + 1 THEN <<r, Granted[r]>> ELSE ExecutedGrants[k]]
            <3>1. /\ DOMAIN ExecutedGrants = 1..Len(executed)
                  /\ ExecutedGrants = [k \in 1..Len(executed) |-> ExecutedGrants[k]]
                BY DEF ExecutedGrants
            <3> QED
                BY <1>1, <3>1, AppendIs
        <2>3. ASSUME NEW k \in 1..(Len(executed) + 1)
              PROVE  <<audit[executed'[k].audit_entry].request_id, executed'[k].order_ref>>
                     = IF k = Len(executed) + 1 THEN <<r, Granted[r]>> ELSE ExecutedGrants[k]
            BY <1>1, <1>2, <1>8 DEF ExecutedGrants
        <2> QED
            BY <2>1, <2>2, <2>3
    <1> QED
        BY <1>3, <1>5, <1>6, <1>9, <1>10 DEF Authorization!Execute

LEMMA AuthorizationStep ==
    ASSUME IInv, [Next]_vars
    PROVE  [Authorization!Next]_(Authorization!vars)
    <1>1. ASSUME NEW ctx \in Context, IssueContext(ctx)
          PROVE  [Authorization!Next]_(Authorization!vars)
        BY <1>1, IssueContextGrants DEF Context, Authorization!Next
    <1>2. ASSUME NEW c \in Calls, RecordVerdict(c)
          PROVE  [Authorization!Next]_(Authorization!vars)
        BY <1>2, RecordVerdictApproves
    <1>3. ASSUME NEW c \in Calls, RecordOrder(c)
          PROVE  [Authorization!Next]_(Authorization!vars)
        BY <1>3, RecordOrderExecutes DEF Authorization!Next
    <1>4. CASE UNCHANGED <<issued, audit, executed>>
        BY <1>4, OnlySpends
    <1> QED
        BY <1>1, <1>2, <1>3, <1>4
        DEF Next, Claim, RefuseMessage, DenyUnaudited, Verify, AuditUnavailable, StoreTask,
            Tick, Sweep, CrashRestart, vars, memory

\* The gateway implements the single-use authorisation service, whatever the
\* number of calls, contexts, sweeps and crashes.
THEOREM ImplementsAuthorization == Spec => AuthorizationSpec
    BY AuthorizationInit, AuthorizationStep, Invariant, PTL
    DEF Spec, AuthorizationSpec, Authorization!Spec
=============================================================================
