------------------------------- MODULE Gateway -------------------------------
(***************************************************************************)
(* The execution-venue gateway of go/gatewayservice: the request contexts  *)
(* it issues, the governed calls that claim them over MCP (tools/call) and *)
(* A2A (message/send), the order ledger, the A2A task store and the        *)
(* sweeper that bounds its memory.                                         *)
(*                                                                         *)
(* net/http runs one goroutine per request.  VenueState.mu guards contexts,*)
(* orders and tasks, but a call takes it three separate times (claim,      *)
(* order, task) and verifies and audits between them without it: each of   *)
(* those stretches is one action here, and they interleave.                *)
(*                                                                         *)
(* The audit trail is the append-only log that AuditLog implements; an     *)
(* entry is identified by its place in it, as by its entry_hash in the     *)
(* code.  It is the only state that survives a crash.                      *)
(***************************************************************************)
EXTENDS Naturals, Sequences

CONSTANTS
    Calls,                \* slots for concurrent governed calls
    RequestIds,           \* bound: context ids the gateway can draw
    TaskIds,              \* bound: A2A tasks the store can hold
    ActionRefs,           \* order references
    Predicates,           \* predicate id@version pairs
    Asked,                \* bound: those that contexts are requested for
    Forms,                \* of "undecodable", "plain" and "attested" payloads,
                          \* those that callers send
    Tools, GovernedTools, \* tool or skill names; the governed ones
    Want,                 \* the predicate governedTools requires
    Registered,           \* predicates loaded from the registry directory
    RangeLeq,             \* those of ptype range_leq
    MeasurementRequired,  \* is prover_measurement@1 registered?
    SweepPeriod,          \* the sweeper's period, in ticks
    MaxCrashes,           \* bound: crashes of the gateway
    NoContext, NoEntry, NoTask, NoCall   \* absent values

TTL == 2 * SweepPeriod    \* the ticker's period is contextTTL / 2

\* Nonce, prover and timestamp are determined by the fresh request_id.
Context == [request_id : RequestIds, action_ref : ActionRefs,
            predicate : Asked]

\* What of a governed call is looked at before a context is claimed: where it
\* came in, the tool, the order_ref argument, whether zk_attachment is there
\* and well-formed, and the context attached.
Request == [surface : {"mcp", "a2a"}, tool : Tools, order_ref : ActionRefs,
            attached : {"absent", "malformed", "present"}, ctx : Context]

\* The rest of the attachment: the predicate it names, the form of its
\* payload, and the one request the payload's proof verifies for, if any,
\* under the registered parameters and measurement.
Proof == [predicate : Predicates,
          form : Forms,
          proves : RequestIds \cup {NoContext}]

Call == [request : Request, proof : Proof]

AuditEntry == [request_id : RequestIds, predicate : Predicates,
               result : {"PASS", "FAIL"}]

Order == [order_ref : ActionRefs, audit_entry : Nat]

\* contexts: map[string]*ctxEntry, with the time since createdAt.
CtxEntry == [ctx : Context, used : BOOLEAN, age : Nat]

\* tasks: map[string]*taskEntry; audit_entry is 0 in a failed task.
TaskEntry == [audit_entry : Nat, age : Nat]

ASSUME GatewayAssumption ==
    /\ GovernedTools \subseteq Tools
    /\ Want \in Predicates
    /\ Asked \subseteq Predicates
    /\ Forms \subseteq {"undecodable", "plain", "attested"}
    /\ Registered \subseteq Predicates
    /\ RangeLeq \subseteq Registered
    /\ MeasurementRequired \in BOOLEAN
    /\ SweepPeriod \in Nat \ {0}
    /\ MaxCrashes \in Nat
    /\ NoContext \notin Context
    /\ NoContext \notin RequestIds \cup ActionRefs
    /\ NoEntry \notin CtxEntry
    /\ NoTask \notin TaskEntry
    /\ NoCall \notin Call

VARIABLES
    contexts,     \* VenueState.contexts
    orders,       \* VenueState.orders
    tasks,        \* VenueState.tasks
    audit,        \* the audit trail (durable)
    pc,           \* per call: how far its goroutine has got
    call,         \* per call: what it claimed its context with
    entry,        \* per call: the audit entry of its approval, or 0
    sinceSweep,   \* ticks since the sweeper's last run
    crashes,      \* crashes so far
    issued,       \* history: the context issued under each id
    executed      \* history: every order ever put on the ledger

memory == <<contexts, orders, tasks, pc, call, entry, sinceSweep>>
vars == <<memory, audit, crashes, issued, executed>>

Steps == {"idle",
          "claimed",      \* next: Verify or DenyUnaudited
          "passed",       \* next: RecordVerdict or AuditUnavailable
          "failed",       \* next: RecordVerdict or AuditUnavailable
          "approved",     \* next: RecordOrder
          "completing",   \* next: StoreTask
          "failing"}      \* next: StoreTask

\* One type invariant for the variables of the module.
TypeOK ==
    /\ contexts \in [RequestIds -> CtxEntry \cup {NoEntry}]
    /\ orders \in Seq(Order)
    /\ tasks \in [TaskIds -> TaskEntry \cup {NoTask}]
    /\ audit \in Seq(AuditEntry)
    /\ pc \in [Calls -> Steps]
    /\ call \in [Calls -> Call \cup {NoCall}]
    /\ entry \in [Calls -> Nat]
    /\ sinceSweep \in 0..SweepPeriod
    /\ crashes \in 0..MaxCrashes
    /\ issued \in [RequestIds -> Context \cup {NoContext}]
    /\ executed \in Seq(Order)

Init ==
    /\ contexts = [r \in RequestIds |-> NoEntry]
    /\ orders = <<>>
    /\ tasks = [t \in TaskIds |-> NoTask]
    /\ audit = <<>>
    /\ pc = [c \in Calls |-> "idle"]
    /\ call = [c \in Calls |-> NoCall]
    /\ entry = [c \in Calls |-> 0]
    /\ sinceSweep = 0
    /\ crashes = 0
    /\ issued = [r \in RequestIds |-> NoContext]
    /\ executed = <<>>

-----------------------------------------------------------------------------
(* Issuing and claiming contexts *)

\* zk/context.  randHex never draws the same request_id twice.
IssueContext(ctx) ==
    LET r == ctx.request_id IN
    /\ issued[r] = NoContext
    /\ contexts' = [contexts EXCEPT ![r] = [ctx |-> ctx, used |-> FALSE, age |-> 0]]
    /\ issued' = [issued EXCEPT ![r] = ctx]
    /\ UNCHANGED <<orders, tasks, audit, pc, call, entry, sinceSweep, crashes, executed>>

\* Slip of the checks under the lock: no test of used.
ClaimableTwice(q) ==
    LET e == contexts[q.ctx.request_id] IN
    /\ q.tool \in GovernedTools
    /\ q.attached = "present"
    /\ e # NoEntry
    /\ q.ctx = e.ctx
    /\ q.ctx.action_ref = q.order_ref

\* Slip: the order_ref argument is not compared with the context's action_ref.
ClaimableForAnyOrder(q) ==
    LET e == contexts[q.ctx.request_id] IN
    /\ q.tool \in GovernedTools
    /\ q.attached = "present"
    /\ e # NoEntry
    /\ ~e.used
    /\ q.ctx = e.ctx

\* The deny-by-default checks a governed call must pass to claim its context.
Claimable(q) ==
    LET e == contexts[q.ctx.request_id] IN
    /\ q.tool \in GovernedTools          \* else -32601
    /\ q.attached = "present"            \* else -32031, -32032
    /\ e # NoEntry                       \* else -32033
    /\ ~e.used                           \* else -32034
    /\ q.ctx = e.ctx                     \* else -32035
    /\ e.ctx.action_ref = q.order_ref    \* else -32036

\* The call claims its context: single use, success or failure.  A call that
\* may not claim is answered at once: over MCP nothing changes, over A2A the
\* refusal becomes a failed task (RefuseMessage).
Claim(c, q, proof) ==
    /\ pc[c] = "idle"
    /\ contexts' = [contexts EXCEPT ![q.ctx.request_id].used = TRUE]
    /\ pc' = [pc EXCEPT ![c] = "claimed"]
    /\ call' = [call EXCEPT ![c] = [request |-> q, proof |-> proof]]
    /\ UNCHANGED <<orders, tasks, audit, entry, sinceSweep, crashes, issued, executed>>

\* A message/send without a skill invocation, or one refused before a context
\* is claimed; the reason does not matter to the failed task.
RefuseMessage(c) ==
    /\ pc[c] = "idle"
    /\ pc' = [pc EXCEPT ![c] = "failing"]
    /\ UNCHANGED <<contexts, orders, tasks, audit, call, entry, sinceSweep,
                   crashes, issued, executed>>

-----------------------------------------------------------------------------
(* Verification and audit, without the lock *)

\* verifyAttachment gets as far as the choice of verifier.
Decodable(proof) ==
    /\ proof.predicate = Want
    /\ proof.predicate \in Registered
    /\ proof.form # "undecodable"

\* The zkrp subprocess is started.
RunsZkrp(proof) ==
    /\ proof.predicate \in RangeLeq
    /\ MeasurementRequired => proof.form = "attested"

\* A denied call: MCP answers at once, A2A stores a failed task first.
Deny(c) ==
    /\ pc' = [pc EXCEPT ![c] = IF call[c].request.surface = "mcp" THEN "idle" ELSE "failing"]
    /\ call' = [call EXCEPT ![c] = NoCall]

\* -32037 for the wrong predicate; -32038 for one that is not registered, a
\* payload that does not decode, or a zkrp subprocess that fails.
DenyUnaudited(c) ==
    /\ pc[c] = "claimed"
    /\ Decodable(call[c].proof) => RunsZkrp(call[c].proof)
    /\ Deny(c)
    /\ UNCHANGED <<contexts, orders, tasks, audit, entry, sinceSweep, crashes,
                   issued, executed>>

\* The verdict: zkrp verifies the proof for the canonical form of the
\* attached context, or it is not asked and the proof is invalid.
Verify(c) ==
    LET proof == call[c].proof IN
    /\ pc[c] = "claimed"
    /\ Decodable(proof)
    /\ pc' = [pc EXCEPT ![c] =
                 IF RunsZkrp(proof) /\ proof.proves = call[c].request.ctx.request_id
                 THEN "passed" ELSE "failed"]
    /\ UNCHANGED <<contexts, orders, tasks, audit, call, entry, sinceSweep,
                   crashes, issued, executed>>

\* The audit entry verifyAttachment appends for a verdict.
Verdict(c) ==
    [request_id |-> call[c].request.ctx.request_id,
     predicate |-> call[c].proof.predicate,
     result |-> IF pc[c] = "passed" THEN "PASS" ELSE "FAIL"]

\* Slip: a FAIL entry is written and the call allowed all the same.
RecordVerdictAllowing(c) ==
    /\ pc[c] \in {"passed", "failed"}
    /\ audit' = Append(audit, Verdict(c))
    /\ pc' = [pc EXCEPT ![c] = "approved"]
    /\ entry' = [entry EXCEPT ![c] = Len(audit) + 1]
    /\ UNCHANGED <<call, contexts, orders, tasks, sinceSweep, crashes, issued, executed>>

\* Slip: the call is answered once the verdict is on the audit trail.
RecordVerdictUnordered(c) ==
    /\ pc[c] \in {"passed", "failed"}
    /\ audit' = Append(audit, Verdict(c))
    /\ IF pc[c] = "passed" /\ call[c].request.surface = "a2a"
       THEN /\ pc' = [pc EXCEPT ![c] = "completing"]
            /\ call' = [call EXCEPT ![c] = NoCall]
            /\ entry' = [entry EXCEPT ![c] = Len(audit) + 1]
       ELSE Deny(c) /\ UNCHANGED entry
    /\ UNCHANGED <<contexts, orders, tasks, sinceSweep, crashes, issued, executed>>

\* audit.Append succeeds; the verdict decides whether the call goes on.
RecordVerdict(c) ==
    /\ pc[c] \in {"passed", "failed"}
    /\ audit' = Append(audit, Verdict(c))
    /\ IF pc[c] = "passed"
       THEN /\ pc' = [pc EXCEPT ![c] = "approved"]
            /\ entry' = [entry EXCEPT ![c] = Len(audit) + 1]
            /\ UNCHANGED call
       ELSE Deny(c) /\ UNCHANGED entry
    /\ UNCHANGED <<contexts, orders, tasks, sinceSweep, crashes, issued, executed>>

\* audit.Append fails: the call is denied whatever the verdict, -32038.
AuditUnavailable(c) ==
    /\ pc[c] \in {"passed", "failed"}
    /\ Deny(c)
    /\ UNCHANGED <<contexts, orders, tasks, audit, entry, sinceSweep, crashes,
                   issued, executed>>

-----------------------------------------------------------------------------
(* The ledger and the task store *)

\* Slip: the head of the audit chain instead of the hash Append returned.
OrderOfHead(c) == [order_ref |-> call[c].request.order_ref, audit_entry |-> Len(audit)]

\* The order of the approved call c.
OrderOf(c) == [order_ref |-> call[c].request.order_ref, audit_entry |-> entry[c]]

\* The order goes on the ledger, under the lock again.  MCP is answered
\* ALLOW; A2A goes on to store the completed task.
RecordOrder(c) ==
    /\ pc[c] = "approved"
    /\ orders' = Append(orders, OrderOf(c))
    /\ executed' = Append(executed, OrderOf(c))
    /\ call' = [call EXCEPT ![c] = NoCall]
    /\ IF call[c].request.surface = "mcp"
       THEN /\ pc' = [pc EXCEPT ![c] = "idle"]
            /\ entry' = [entry EXCEPT ![c] = 0]
       ELSE /\ pc' = [pc EXCEPT ![c] = "completing"]
            /\ UNCHANGED entry
    /\ UNCHANGED <<contexts, tasks, audit, sinceSweep, crashes, issued>>

\* storeTask, under the lock for the last time; then A2A is answered.  A
\* failed task has no audit entry (entry[c] is 0).
StoreTask(c, t) ==
    /\ pc[c] \in {"completing", "failing"}
    /\ tasks[t] = NoTask
    /\ tasks' = [tasks EXCEPT ![t] = [audit_entry |-> entry[c], age |-> 0]]
    /\ pc' = [pc EXCEPT ![c] = "idle"]
    /\ entry' = [entry EXCEPT ![c] = 0]
    /\ UNCHANGED <<contexts, orders, audit, call, sinceSweep, crashes, issued, executed>>

-----------------------------------------------------------------------------
(* Time, the sweeper, crashes *)

\* Time passes; the ticker fires within its period.
Tick ==
    /\ sinceSweep < SweepPeriod
    /\ sinceSweep' = sinceSweep + 1
    /\ contexts' = [r \in RequestIds |->
           IF contexts[r] = NoEntry THEN NoEntry
           ELSE [contexts[r] EXCEPT !.age = @ + 1]]
    /\ tasks' = [t \in TaskIds |->
           IF tasks[t] = NoTask THEN NoTask ELSE [tasks[t] EXCEPT !.age = @ + 1]]
    /\ UNCHANGED <<orders, audit, pc, call, entry, crashes, issued, executed>>

\* Slips: expired contexts overwritten with a nil instead of deleted, or kept
\* and given a new createdAt.
SweepToNil ==
    /\ sinceSweep = SweepPeriod
    /\ sinceSweep' = 0
    /\ contexts' = [r \in RequestIds |->
           IF contexts[r] # NoEntry /\ contexts[r].age > TTL THEN NoContext ELSE contexts[r]]
    /\ UNCHANGED <<tasks, orders, audit, pc, call, entry, crashes, issued, executed>>

SweepRenewing ==
    /\ sinceSweep = SweepPeriod
    /\ sinceSweep' = 0
    /\ contexts' = [r \in RequestIds |->
           IF contexts[r] # NoEntry /\ contexts[r].age > TTL
           THEN IF contexts[r].used THEN NoEntry ELSE [contexts[r] EXCEPT !.age = 0]
           ELSE contexts[r]]
    /\ tasks' = [t \in TaskIds |->
           IF tasks[t] # NoTask /\ tasks[t].age > TTL THEN NoTask ELSE tasks[t]]
    /\ UNCHANGED <<orders, audit, pc, call, entry, crashes, issued, executed>>

\* The ticker fires: entries created before the cutoff go, used or not.
Sweep ==
    /\ sinceSweep = SweepPeriod
    /\ sinceSweep' = 0
    /\ contexts' = [r \in RequestIds |->
           IF contexts[r] # NoEntry /\ contexts[r].age > TTL THEN NoEntry ELSE contexts[r]]
    /\ tasks' = [t \in TaskIds |->
           IF tasks[t] # NoTask /\ tasks[t].age > TTL THEN NoTask ELSE tasks[t]]
    /\ UNCHANGED <<orders, audit, pc, call, entry, crashes, issued, executed>>

\* The process dies and starts again on the same audit file: everything in
\* memory is gone, calls included.
CrashRestart ==
    /\ crashes < MaxCrashes
    /\ crashes' = crashes + 1
    /\ contexts' = [r \in RequestIds |-> NoEntry]
    /\ orders' = <<>>
    /\ tasks' = [t \in TaskIds |-> NoTask]
    /\ pc' = [c \in Calls |-> "idle"]
    /\ call' = [c \in Calls |-> NoCall]
    /\ entry' = [c \in Calls |-> 0]
    /\ sinceSweep' = 0
    /\ UNCHANGED <<audit, issued, executed>>

-----------------------------------------------------------------------------
Next ==
    \/ \E ctx \in Context : IssueContext(ctx)
    \/ \E c \in Calls :
          \/ \E q \in Request : Claimable(q) /\ \E proof \in Proof : Claim(c, q, proof)
          \/ RefuseMessage(c)
          \/ DenyUnaudited(c)
          \/ Verify(c)
          \/ RecordVerdict(c)
          \/ AuditUnavailable(c)
          \/ RecordOrder(c)
          \/ \E t \in TaskIds : StoreTask(c, t)
    \/ Tick
    \/ Sweep
    \/ CrashRestart

Spec == Init /\ [][Next]_vars

\* A goroutine that can run is run in the end, zkrp terminates, and the
\* ticker fires.  Nobody is obliged to ask for a context or to use one.
CallProgress(c) ==
    \/ DenyUnaudited(c)
    \/ Verify(c)
    \/ RecordVerdict(c)
    \/ AuditUnavailable(c)
    \/ RecordOrder(c)
    \/ \E t \in TaskIds : StoreTask(c, t)

FairSpec ==
    /\ Spec
    /\ \A c \in Calls : WF_vars(CallProgress(c))
    /\ WF_vars(Tick)
    /\ WF_vars(Sweep)

-----------------------------------------------------------------------------
(* Properties *)

PassEntries == {i \in 1..Len(audit) : audit[i].result = "PASS"}

\* Claiming is single use whatever runs at the same time, is evicted, or is
\* lost in a crash: no context is judged twice (entry.used and its lock).
OneVerdictPerContext ==
    \A i, j \in 1..Len(audit) : audit[i].request_id = audit[j].request_id => i = j

\* Every order stands on a PASS entry for the tool's predicate and for the
\* context that was issued for this very order: a proof for one order never
\* authorises another (README, the action_ref check).
OrdersAuthorised ==
    \A k \in 1..Len(executed) :
        LET i == executed[k].audit_entry IN
        /\ i \in PassEntries
        /\ audit[i].predicate = Want
        /\ issued[audit[i].request_id].action_ref = executed[k].order_ref

\* One verdict authorises one order, across the unlocked gap between the
\* audit append and the ledger append, and across restarts.
OrderPerVerdict ==
    \A j, k \in 1..Len(executed) :
        executed[j].audit_entry = executed[k].audit_entry => j = k

\* A task that tasks/get shows completed has its order in venue/orders: the
\* task store never runs ahead of the ledger, nor outlives it.
TaskImpliesOrder ==
    \A t \in TaskIds :
        tasks[t] # NoTask /\ tasks[t].audit_entry # 0 =>
            \E k \in 1..Len(orders) : orders[k].audit_entry = tasks[t].audit_entry

\* The sweeper bounds memory: nothing stays longer than one and a half TTL.
AgeBounded ==
    /\ \A r \in RequestIds : contexts[r] # NoEntry => contexts[r].age <= TTL + SweepPeriod
    /\ \A t \in TaskIds : tasks[t] # NoTask => tasks[t].age <= TTL + SweepPeriod

\* A context that no call can claim any more.
Spent(r) == issued[r] # NoContext /\ (contexts[r] # NoEntry => contexts[r].used)

\* The gateway is a single-use authorisation service: a context is the grant,
\* claiming or losing it spends it, a PASS entry approves it and the ledger
\* executes it.
Granted == [r \in RequestIds |->
               IF issued[r] = NoContext THEN NoContext ELSE issued[r].action_ref]
SpentIds == {r \in RequestIds : Spent(r)}
ApprovedIds == {audit[i].request_id : i \in PassEntries}
ExecutedGrants == [k \in 1..Len(executed) |->
                      <<audit[executed[k].audit_entry].request_id, executed[k].order_ref>>]

Authorization == INSTANCE Authorization WITH
    RequestId <- RequestIds,
    ActionRef <- ActionRefs,
    NoAction <- NoContext,
    granted <- Granted,
    spent <- SpentIds,
    approved <- ApprovedIds,
    executed <- ExecutedGrants

\* Every behaviour of the gateway is one of the single-use authorisation
\* service: claims, evictions, crashes, verdicts and orders in any order.
AuthorizationSpec == Authorization!Spec

\* An approval is carried out: while the process lives, a PASS entry is
\* followed by its order (no early return between Append and the ledger).
PassedIsExecuted ==
    \A r \in RequestIds :
        (\E i \in PassEntries : audit[i].request_id = r)
            ~> \E k \in 1..Len(executed) : audit[executed[k].audit_entry].request_id = r

\* Every context leaves memory, claimed or not.
Evicted == \A r \in RequestIds : contexts[r] # NoEntry ~> contexts[r] = NoEntry

-----------------------------------------------------------------------------
(* Why they hold: the inductive invariant *)

\* The context a call has claimed, and the verdict it waits for.
RequestOf(c) == call[c].request.ctx.request_id
Unjudged == {"claimed", "passed", "failed"}

ContextsAreIssued ==
    \A r \in RequestIds : contexts[r] # NoEntry => contexts[r].ctx = issued[r]

\* Calls hold a context from the claim to their answer, each its own.
CallsHoldContexts ==
    /\ \A c \in Calls : pc[c] \in Unjudged \cup {"approved"} <=> call[c] # NoCall
    /\ \A c \in Calls : call[c] # NoCall =>
           /\ Spent(RequestOf(c))
           /\ issued[RequestOf(c)].action_ref = call[c].request.order_ref
    /\ \A c, d \in Calls :
           call[c] # NoCall /\ call[d] # NoCall /\ RequestOf(c) = RequestOf(d) => c = d

\* Only spent contexts are judged, and not before their call's own verdict.
VerdictsAreLate ==
    /\ \A i \in 1..Len(audit) : Spent(audit[i].request_id) /\ audit[i].predicate = Want
    /\ \A c \in Calls : pc[c] \in Unjudged =>
           \A i \in 1..Len(audit) : audit[i].request_id # RequestOf(c)
    /\ \A c \in Calls : pc[c] \in {"passed", "failed"} => call[c].proof.predicate = Want

\* An approved call holds the PASS entry of its context, not used so far.
ApprovalsAreOpen ==
    \A c \in Calls : pc[c] = "approved" =>
        /\ entry[c] \in PassEntries
        /\ audit[entry[c]].request_id = RequestOf(c)
        /\ \A k \in 1..Len(executed) : executed[k].audit_entry # entry[c]

\* The task a call is about to store is as good as the ones in the store.
TasksAreBacked ==
    /\ TaskImpliesOrder
    /\ \A c \in Calls : pc[c] \notin {"approved", "completing"} => entry[c] = 0
    /\ \A c \in Calls : pc[c] = "completing" =>
           \E k \in 1..Len(orders) : orders[k].audit_entry = entry[c]

\* What the sweeper left behind has aged only since.
AgesFollowSweeper ==
    /\ \A r \in RequestIds : contexts[r] # NoEntry => contexts[r].age <= TTL + sinceSweep
    /\ \A t \in TaskIds : tasks[t] # NoTask => tasks[t].age <= TTL + sinceSweep

\* The conjunction is inductive: single use needs the contexts, the calls in
\* flight and the audit trail together.
IInv ==
    /\ TypeOK
    /\ ContextsAreIssued
    /\ CallsHoldContexts
    /\ VerdictsAreLate
    /\ OneVerdictPerContext
    /\ ApprovalsAreOpen
    /\ OrdersAuthorised
    /\ OrderPerVerdict
    /\ TasksAreBacked
    /\ AgesFollowSweeper

-----------------------------------------------------------------------------
(* Statements of the repository that the code does not keep *)

\* What a doc comment says of verifyAttachment: every context that has been
\* claimed, and whose call is over, has an audit entry, PASS or FAIL.
SpentIsAudited ==
    \A r \in RequestIds :
        /\ contexts[r] # NoEntry /\ contexts[r].used
        /\ \A c \in Calls : call[c] # NoCall => call[c].request.ctx.request_id # r
        => \E i \in 1..Len(audit) : audit[i].request_id = r

\* A proof is accepted only for the predicate its context was issued for.
PredicateMatchesContext ==
    \A i \in PassEntries : issued[audit[i].request_id].predicate = audit[i].predicate
=============================================================================
