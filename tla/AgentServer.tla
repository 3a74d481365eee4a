------------------------------ MODULE AgentServer ------------------------------
(***************************************************************************)
(* The Python reference server: python/agent_server.py over the registry,  *)
(* the gateway and the audit log of python/zkgw/gateway.py.                *)
(*                                                                         *)
(* HTTPServer serves one request at a time, so no two handlers interleave; *)
(* but an exception can leave a governed call half done, a write to the    *)
(* audit file can fail or be cut short, and the process can die between    *)
(* any two effects of a call.  A governed call is therefore three steps,   *)
(* Claim, a verdict and Execute, and nothing else is served meanwhile      *)
(* (cur).  A client that does not send all of its request holds the thread *)
(* too (Stall).  Contexts, orders and tasks live in memory and are never   *)
(* evicted; only the audit file and the registry directory survive a crash. *)
(*                                                                         *)
(* A hash is what it commits to, the entries hashed so far; a proof is the *)
(* statement its transcript absorbed and the number its bits spell, as in  *)
(* RangeProof.                                                             *)
(***************************************************************************)
EXTENDS Integers, Sequences, FiniteSets

CONSTANTS
    RequestIds,           \* bound: context ids token_hex can draw
    ActionRefs,           \* order references
    Null,                 \* JSON null
    Absent,               \* an argument that is not there
    Names,                \* bound: what callers call themselves and their engine
    Telling,              \* those of them that contain the harness's notional
    GroupOrder,           \* N of curve.py
    Predicates,           \* predicate id@version pairs
    Want,                 \* the one GOVERNED_TOOLS requires
    Tools, GovernedTools, \* tool or skill names; the governed ones
    Docs,                 \* predicate documents in circulation
    Directories,          \* listings of the registry directory, sorted
    Proofs,               \* bound: proofs that callers present
    WriteFaults,          \* what of a line a failing or interrupted write can
                          \* leave besides nothing
    MaxCrashes,           \* bound: crashes of the server
    MaxErrors,            \* bound: failing writes
    MaxChanges,           \* bound: changes of the registry directory
    LiveChanges,          \* bound: may it change while the server runs?
    NoContext, NoEntry, NoCall, NoDoc, NoEngine, Undecodable   \* absent values

Context == [request_id : RequestIds, action_ref : ActionRefs \cup {Null},
            predicate : Predicates, prover : Names]

\* A predicate file; signed says that it parses and governance's signature
\* is valid for it.
Doc == [key : Predicates, ptype : {"range_leq", "prover_measurement"},
        cap : Int, nbits : Nat, signed : BOOLEAN]

\* A proof about the cap in nbits bits, bound to one request; value is what its
\* bits spell.  intact is FALSE when a response or a commitment was changed.
Proof == [request_id : RequestIds, cap : Int, nbits : Nat, value : Int, intact : BOOLEAN]

\* Two sums of nbits bits cannot wrap around the group: only then does an intact
\* proof show that its value is within its cap (AcceptedIsTrue in RangeProof).
\* The width is the proof's own, and nothing in the code bounds it.
Tight(nbits) == 2 ^ (nbits + 1) <= GroupOrder

\* What is looked at before a context is claimed ...
Request == [surface : {"mcp", "a2a"}, tool : Tools,
            order_ref : ActionRefs \cup {Null, Absent},
            attached : {"absent", "malformed", "present"}, ctx : Context]

\* ... and the rest of the envelope.
Envelope == [predicate : Predicates, engine : Names \cup {NoEngine},
             payload : Proofs \cup {Undecodable}]

Call == [request : Request, envelope : Envelope]

CtxEntry == [ctx : Context, used : BOOLEAN]

\* proof_sha256 identifies the proof, commitment_Cv the value it is about.
AuditEntry == [request_id : RequestIds, predicate : Predicates, proof : Proofs,
               prover : Names, engine : Names, result : {"PASS", "FAIL"}]

Hashes == Seq(AuditEntry)

\* What one write leaves in the file: the line, the whole line although the write
\* raised, the line without its newline, or a prefix that is not a JSON document.
Parts == {"line", "whole", "unterminated", "torn"}

Chunk == [entry : AuditEntry, prev : Hashes, hash : Hashes, part : Parts]

Order == [order_ref : ActionRefs \cup {Null}, audit_entry : Hashes]

\* audit_entry is the genesis hash in a failed task.
Task == [state : {"completed", "failed"}, audit_entry : Hashes]

Execution == [request_id : RequestIds, order : Order, policy : Doc]

ASSUME AgentServerAssumption ==
    /\ Null \notin ActionRefs
    /\ Want \in Predicates
    /\ GovernedTools \subseteq Tools
    /\ Docs \subseteq Doc
    /\ Directories \subseteq Seq(Docs)
    /\ Proofs \subseteq Proof
    /\ GroupOrder \in Nat
    /\ \A p \in Proofs : p.intact /\ Tight(p.nbits) => 0 <= p.value /\ p.value <= p.cap
    /\ Telling \subseteq Names
    /\ NoEngine \notin Names
    /\ Absent \notin ActionRefs \cup {Null}
    /\ WriteFaults \subseteq Parts \ {"line"}
    /\ MaxCrashes \in Nat
    /\ MaxErrors \in Nat
    /\ MaxChanges \in Nat
    /\ LiveChanges \in BOOLEAN
    /\ NoContext \notin Context
    /\ NoContext \notin ActionRefs \cup {Null}
    /\ NoEntry \notin CtxEntry
    /\ NoCall \notin Call
    /\ NoDoc \notin Doc
    /\ Undecodable \notin Proof

VARIABLES
    dir,          \* the registry directory
    file,         \* the audit file: the fragments written, in order
    up,           \* is the process serving?
    store,        \* PredicateRegistry._store
    prev,         \* AuditLog._prev
    contexts,     \* VenueState.contexts
    orders,       \* VenueState.orders
    tasks,        \* VenueState.tasks; ids are random, so a task is its content
    cur,          \* the governed call being served
    step,         \* "idle", or how far that call has got
    crashes, errors, changes,   \* so far: crashes, failing writes, directories
    issued,       \* history: the context issued under each id
    told,         \* history: what the caller who claimed a context was told
    executed      \* history: every order ever put on the ledger

durable == <<dir, file>>
memory == <<up, store, prev, contexts, orders, tasks, cur, step>>
history == <<issued, told, executed>>
bounds == <<crashes, errors, changes>>
vars == <<durable, memory, bounds, history>>

\* One type invariant for the variables of the module.
TypeOK ==
    /\ dir \in Directories
    /\ file \in Seq(Chunk)
    /\ up \in BOOLEAN
    /\ store \in [Predicates -> Docs \cup {NoDoc}]
    /\ prev \in Hashes
    /\ contexts \in [RequestIds -> CtxEntry \cup {NoEntry}]
    /\ orders \in Seq(Order)
    /\ tasks \subseteq Task
    /\ cur \in Call \cup {NoCall}
    /\ step \in {"idle", "stalled", "claimed", "approved"}
    /\ crashes \in 0..MaxCrashes
    /\ errors \in 0..MaxErrors
    /\ changes \in 0..MaxChanges
    /\ issued \in [RequestIds -> Context \cup {NoContext}]
    /\ told \in [RequestIds -> {"nothing", "ALLOW", "denied", "raised"}]
    /\ executed \in Seq(Execution)

-----------------------------------------------------------------------------
(* The audit file *)

Genesis == <<>>                        \* "0" * 64

Hash(p, e) == Append(p, e)             \* sha256(prev + body)

\* The parts with a newline at their end.
WholeLines == {"line", "whole"}

\* Chunk i is a line of its own: the one before it ended in a newline, and it
\* ends in one itself or ends the file.
AloneOnLine(f, i) ==
    /\ i > 1 => f[i - 1].part \in WholeLines
    /\ i < Len(f) => f[i].part \in WholeLines

\* json.loads accepts the line of chunk i.
Parses(f, i) == AloneOnLine(f, i) /\ f[i].part # "torn"

\* verify_chain returns True.
VerifyChain(f) ==
    \A i \in 1..Len(f) :
        /\ Parses(f, i)
        /\ f[i].prev = IF i = 1 THEN Genesis ELSE f[i - 1].hash
        /\ f[i].hash = Hash(f[i].prev, f[i].entry)

\* AuditLog.__init__ reads the last line only, and raises if it cannot.
Resumable(f) == f # <<>> => Parses(f, Len(f))

LastEntryHash(f) == IF f = <<>> THEN Genesis ELSE f[Len(f)].hash

\* What append writes for e, in whole or in part.
Written(e, part) ==
    Append(file, [entry |-> e, prev |-> prev, hash |-> Hash(prev, e), part |-> part])

-----------------------------------------------------------------------------
(* The registry *)

\* publish of every file raises no PermissionError.
Loadable(d) == \A i \in 1..Len(d) : d[i].signed

\* File i of a listing is the last one for predicate k, which replaced the
\* others when it was published.
LastFor(d, k, i) == d[i].key = k /\ \A j \in (i + 1)..Len(d) : d[j].key # k

\* _store after publishing the files in order.
Loaded(d) ==
    [k \in Predicates |->
        IF \E i \in 1..Len(d) : LastFor(d, k, i)
        THEN d[CHOOSE i \in 1..Len(d) : LastFor(d, k, i)]
        ELSE NoDoc]

NoPolicy == [k \in Predicates |-> NoDoc]

-----------------------------------------------------------------------------
(* The process *)

Init ==
    /\ dir \in Directories
    /\ file = <<>>
    /\ up = FALSE
    /\ store = NoPolicy
    /\ prev = Genesis
    /\ contexts = [r \in RequestIds |-> NoEntry]
    /\ orders = <<>>
    /\ tasks = {}
    /\ cur = NoCall
    /\ step = "idle"
    /\ crashes = 0
    /\ errors = 0
    /\ changes = 0
    /\ issued = [r \in RequestIds |-> NoContext]
    /\ told = [r \in RequestIds |-> "nothing"]
    /\ executed = <<>>

\* VenueState: every file is published and the audit chain resumed, or the
\* process ends with the exception.
Start ==
    /\ ~up
    /\ Loadable(dir)
    /\ Resumable(file)
    /\ up' = TRUE
    /\ store' = Loaded(dir)
    /\ prev' = LastEntryHash(file)
    /\ UNCHANGED <<durable, contexts, orders, tasks, cur, step, bounds, history>>

\* Governance rewrites the registry directory.
ChangeDirectory(d) ==
    /\ changes < MaxChanges
    /\ up => LiveChanges
    /\ d # dir
    /\ dir' = d
    /\ changes' = changes + 1
    /\ UNCHANGED <<file, memory, crashes, errors, history>>

\* Everything in memory is gone, the call being served with it.
Forget ==
    /\ up' = FALSE
    /\ store' = NoPolicy
    /\ prev' = Genesis
    /\ contexts' = [r \in RequestIds |-> NoEntry]
    /\ orders' = <<>>
    /\ tasks' = {}
    /\ cur' = NoCall
    /\ step' = "idle"

Crash ==
    /\ up
    /\ crashes < MaxCrashes
    /\ crashes' = crashes + 1
    /\ Forget
    /\ UNCHANGED <<durable, errors, changes, history>>

-----------------------------------------------------------------------------
(* Contexts, and the checks before one is claimed *)

Idle == up /\ step = "idle"

\* A client connects and sends less than its Content-Length says.  rfile.read
\* waits for the rest, with no timeout, and nobody else is served.
Stall ==
    /\ Idle
    /\ step' = "stalled"
    /\ UNCHANGED <<durable, up, store, prev, contexts, orders, tasks, cur, bounds,
                   history>>

\* The client sends the rest, which is then a request like any other, or hangs
\* up, and what is there does not parse.
StallEnds ==
    /\ step = "stalled"
    /\ step' = "idle"
    /\ UNCHANGED <<durable, up, store, prev, contexts, orders, tasks, cur, bounds,
                   history>>

\* args.get("order_ref")
RefOf(q) == IF q.order_ref = Absent THEN Null ELSE q.order_ref

\* zk/context.  token_hex never draws the same request_id twice.
IssueContext(ctx) ==
    LET r == ctx.request_id IN
    /\ Idle
    /\ issued[r] = NoContext
    /\ contexts' = [contexts EXCEPT ![r] = [ctx |-> ctx, used |-> FALSE]]
    /\ issued' = [issued EXCEPT ![r] = ctx]
    /\ UNCHANGED <<durable, up, store, prev, orders, tasks, cur, step, bounds,
                   told, executed>>

\* Slips of the checks: no test of used, or none of action_ref.
CodeUsedAccepted(q) ==
    LET e == contexts[q.ctx.request_id] IN
    IF q.tool \notin GovernedTools THEN -32601
    ELSE IF q.attached = "absent" THEN -32031
    ELSE IF q.attached = "malformed" THEN -32032
    ELSE IF e = NoEntry THEN -32033
    ELSE IF q.ctx # e.ctx THEN -32035
    ELSE IF e.ctx.action_ref # RefOf(q) THEN -32036
    ELSE 0

CodeAnyOrder(q) ==
    LET e == contexts[q.ctx.request_id] IN
    IF q.tool \notin GovernedTools THEN -32601
    ELSE IF q.attached = "absent" THEN -32031
    ELSE IF q.attached = "malformed" THEN -32032
    ELSE IF e = NoEntry THEN -32033
    ELSE IF e.used THEN -32034
    ELSE IF q.ctx # e.ctx THEN -32035
    ELSE 0

\* process_governed_call up to the claim: the code of the refusal, or 0.
Code(q) ==
    LET e == contexts[q.ctx.request_id] IN
    IF q.tool \notin GovernedTools THEN -32601
    ELSE IF q.attached = "absent" THEN -32031
    ELSE IF q.attached = "malformed" THEN -32032
    ELSE IF e = NoEntry THEN -32033
    ELSE IF e.used THEN -32034
    ELSE IF q.ctx # e.ctx THEN -32035
    ELSE IF e.ctx.action_ref # RefOf(q) THEN -32036
    ELSE 0

\* Slip: a refused task left in a state that is not terminal.
FailedWorking == [state |-> "working", audit_entry |-> Genesis]

Failed == [state |-> "failed", audit_entry |-> Genesis]

\* A refused tools/call changes nothing; a refused message/send, or one
\* without a skill invocation, stores a failed task.  (An attachment whose
\* context is not an object raises before any effect, on either surface.)
RefuseMessage ==
    /\ Idle
    /\ tasks' = tasks \cup {Failed}
    /\ UNCHANGED <<durable, up, store, prev, contexts, orders, cur, step, bounds,
                   history>>

\* Single use, success or failure.
Claim(q, envelope) ==
    /\ Idle
    /\ Code(q) = 0
    /\ contexts' = [contexts EXCEPT ![q.ctx.request_id].used = TRUE]
    /\ cur' = [request |-> q, envelope |-> envelope]
    /\ step' = "claimed"
    /\ UNCHANGED <<durable, up, store, prev, orders, tasks, bounds, history>>

-----------------------------------------------------------------------------
(* The verdict *)

\* prove_range_leq does not raise ValueError.
Provable(value, cap, nbits) == 0 <= value /\ value <= cap /\ cap < 2 ^ nbits

\* Slips: the proof's own cap is taken, or the context is not bound.
VerifyOwnCap(p, cap, r) == p.intact /\ cap < 2 ^ p.nbits /\ p.request_id = r

VerifyAnyContext(p, cap, r) == p.intact /\ cap < 2 ^ p.nbits /\ p.cap = cap

\* verify_range_leq: the challenge comes out the same only if the transcript
\* absorbed the same context, cap and width, and an altered proof fails.
VerifyRangeLeq(p, cap, r) ==
    /\ cap < 2 ^ p.nbits
    /\ p.intact
    /\ p.cap = cap
    /\ p.request_id = r

\* The context of the call being served, what it presents, and the document
\* registered for the predicate it names.
Rid == cur.request.ctx.request_id
Presented == cur.envelope
Registered == store[Presented.predicate]

\* ProofGateway.verify raises before it appends: no such predicate, a payload
\* that does not decode, a negative cap that absorb_int cannot encode, or no
\* engine field, which process_governed_call does not ask for.
Raises ==
    \/ Registered = NoDoc
    \/ Presented.payload = Undecodable
    \/ Registered # NoDoc /\ Registered.ptype = "range_leq" /\ Registered.cap < 0
    \/ Presented.engine = NoEngine

\* The entry verify appends.
Verdict ==
    [request_id |-> Rid,
     predicate |-> Presented.predicate,
     proof |-> Presented.payload,
     prover |-> cur.request.ctx.prover,
     engine |-> Presented.engine,
     result |-> IF /\ Registered.ptype = "range_leq"
                   /\ VerifyRangeLeq(Presented.payload, Registered.cap, Rid)
                THEN "PASS" ELSE "FAIL"]

\* The call is answered; over A2A the task is stored first.
Finish(answer, task) ==
    /\ told' = [told EXCEPT ![Rid] = answer]
    /\ tasks' = IF cur.request.surface = "a2a" THEN tasks \cup {task} ELSE tasks
    /\ cur' = NoCall
    /\ step' = "idle"

\* -32037 for the wrong predicate, -32038 for an exception in verify.
DenyUnaudited ==
    /\ step = "claimed"
    /\ Presented.predicate # Want \/ Raises
    /\ Finish("denied", Failed)
    /\ UNCHANGED <<durable, up, store, prev, contexts, orders, bounds,
                   issued, executed>>

Judged == step = "claimed" /\ Presented.predicate = Want /\ ~Raises

\* Slips: a FAIL is written and the call goes on; _prev is not advanced; the
\* call is answered as soon as the verdict is on file.
RecordAllowing ==
    /\ Judged
    /\ file' = Written(Verdict, "line")
    /\ prev' = Hash(prev, Verdict)
    /\ step' = "approved"
    /\ UNCHANGED <<cur, told, tasks, dir, up, store, contexts, orders, bounds,
                   issued, executed>>

RecordForgettingPrev ==
    /\ Judged
    /\ file' = Written(Verdict, "line")
    /\ IF Verdict.result = "PASS"
       THEN step' = "approved" /\ UNCHANGED <<cur, told, tasks>>
       ELSE Finish("denied", Failed)
    /\ UNCHANGED <<prev, dir, up, store, contexts, orders, bounds, issued, executed>>

RecordUnordered ==
    /\ Judged
    /\ file' = Written(Verdict, "line")
    /\ prev' = Hash(prev, Verdict)
    /\ IF Verdict.result = "PASS"
       THEN Finish("ALLOW", [state |-> "completed", audit_entry |-> prev'])
       ELSE Finish("denied", Failed)
    /\ UNCHANGED <<dir, up, store, contexts, orders, bounds, issued, executed>>

\* AuditLog.append succeeds; the verdict decides whether the call goes on.
Record ==
    /\ Judged
    /\ file' = Written(Verdict, "line")
    /\ prev' = Hash(prev, Verdict)
    /\ IF Verdict.result = "PASS"
       THEN step' = "approved" /\ UNCHANGED <<cur, told, tasks>>
       ELSE Finish("denied", Failed)
    /\ UNCHANGED <<dir, up, store, contexts, orders, bounds, issued, executed>>

\* Slip: append advances _prev although its write failed.
RecordRaisesAdvancing ==
    /\ Judged
    /\ errors < MaxErrors
    /\ errors' = errors + 1
    /\ file' \in {file} \cup {Written(Verdict, part) : part \in WriteFaults}
    /\ prev' = Hash(prev, Verdict)
    /\ Finish("denied", Failed)
    /\ UNCHANGED <<dir, up, store, contexts, orders, crashes, changes, issued, executed>>

\* append raises OSError, with nothing, a fragment or, when flush or close fails,
\* the whole line written: -32038, and _prev stays.
RecordRaises ==
    /\ Judged
    /\ errors < MaxErrors
    /\ errors' = errors + 1
    /\ file' \in {file} \cup {Written(Verdict, part) : part \in WriteFaults}
    /\ Finish("denied", Failed)
    /\ UNCHANGED <<dir, prev, up, store, contexts, orders, crashes, changes, issued, executed>>

\* The process dies inside append, the line cut short.  (When all of it was
\* written this is Record, then Crash.)
CrashInRecord ==
    /\ Judged
    /\ crashes < MaxCrashes
    /\ crashes' = crashes + 1
    /\ file' \in {Written(Verdict, part) : part \in WriteFaults \ {"whole"}}
    /\ Forget
    /\ UNCHANGED <<dir, errors, changes, history>>

-----------------------------------------------------------------------------
(* The order *)

\* outcome["audit_entry"] is what append returned.
NewOrder == [order_ref |-> RefOf(cur.request), audit_entry |-> prev]

\* Slip: the order_ref of tools/call is read before the order is made, as
\* args.get, and a failing call still answered ALLOW.
ExecuteAllowing ==
    /\ step = "approved"
    /\ IF cur.request.surface = "mcp" /\ cur.request.order_ref = Absent
       THEN UNCHANGED <<orders, executed>>
       ELSE /\ orders' = Append(orders, NewOrder)
            /\ executed' = Append(executed, [request_id |-> Rid, order |-> NewOrder,
                                             policy |-> Registered])
    /\ Finish("ALLOW", [state |-> "completed", audit_entry |-> prev])
    /\ UNCHANGED <<durable, up, store, prev, contexts, bounds, issued>>

\* The order goes on the ledger, the completed task into the store.
Execute ==
    /\ step = "approved"
    /\ cur.request.surface = "a2a" \/ cur.request.order_ref # Absent
    /\ orders' = Append(orders, NewOrder)
    /\ executed' = Append(executed, [request_id |-> Rid, order |-> NewOrder,
                                     policy |-> Registered])
    /\ Finish("ALLOW", [state |-> "completed", audit_entry |-> prev])
    /\ UNCHANGED <<durable, up, store, prev, contexts, bounds, issued>>

\* tools/call reads args["order_ref"] unchecked: if it is not there, a context
\* issued for a null action_ref has passed every check, and the KeyError comes
\* after the PASS entry.  do_POST answers "raised".
ExecuteRaises ==
    /\ step = "approved"
    /\ cur.request.surface = "mcp"
    /\ cur.request.order_ref = Absent
    /\ Finish("raised", Failed)
    /\ UNCHANGED <<durable, up, store, prev, contexts, orders, bounds,
                   issued, executed>>

-----------------------------------------------------------------------------
\* What the server does with the call it is serving.
Serve ==
    \/ DenyUnaudited
    \/ Record
    \/ RecordRaises
    \/ Execute
    \/ ExecuteRaises

Faults ==
    \/ Crash
    \/ CrashInRecord

Administration ==
    \/ Start
    \/ \E d \in Directories : ChangeDirectory(d)

Next ==
    \/ Administration
    \/ \E ctx \in Context : IssueContext(ctx)
    \/ \E q \in Request : Code(q) = 0 /\ \E envelope \in Envelope : Claim(q, envelope)
    \/ RefuseMessage
    \/ Stall
    \/ StallEnds
    \/ Serve
    \/ Faults

Spec == Init /\ [][Next]_vars

-----------------------------------------------------------------------------
(* Properties *)

\* The approvals that are in the file in full.
PassLines ==
    {i \in 1..Len(file) : file[i].part \in WholeLines /\ file[i].entry.result = "PASS"}

\* Nothing is ever judged twice, whatever raises, is cut short or is
\* forgotten in a crash (entry["used"], and contexts that die with the process).
OneVerdictPerContext ==
    \A i, j \in 1..Len(file) :
        file[i].entry.request_id = file[j].entry.request_id => i = j

\* Every order stands on its own PASS entry, for the required predicate and
\* the context issued for this very order_ref.
OrdersAuthorised ==
    \A k \in 1..Len(executed) :
        /\ \E i \in PassLines :
              /\ file[i].hash = executed[k].order.audit_entry
              /\ file[i].entry.request_id = executed[k].request_id
              /\ file[i].entry.predicate = Want
        /\ issued[executed[k].request_id].action_ref = executed[k].order.order_ref

\* Proof p is about the cap of policy d, and, if it shows anything, its value
\* respects it.
Respects(p, d) ==
    /\ p.cap = d.cap
    /\ Tight(p.nbits) => 0 <= p.value /\ p.value <= d.cap

\* An executed order was proved against the cap of the signed policy that was in
\* force when it was judged, whatever governance has written since and whatever
\* policy the prover went by; and unless the proof is so wide that its sums can
\* wrap around the group, the value behind it respects that cap.
OrdersWithinCap ==
    \A k \in 1..Len(executed) :
        /\ executed[k].policy.signed
        /\ \E i \in PassLines :
              /\ file[i].entry.request_id = executed[k].request_id
              /\ Respects(file[i].entry.proof, executed[k].policy)

\* A proof that was accepted once is never accepted again, under whichever
\* context it comes (the transcript absorbs the context).
NoProofReplay ==
    \A i, j \in PassLines : file[i].entry.proof = file[j].entry.proof => i = j

\* Callers are told the truth: ALLOW only with the order executed, a refusal or
\* an error only if it never was and never will be, exceptions included.
AnswersAreTrue ==
    \A r \in RequestIds :
        LET hasOrder == \E k \in 1..Len(executed) : executed[k].request_id = r IN
        /\ told[r] = "ALLOW" => hasOrder
        /\ told[r] \in {"denied", "raised"} => ~hasOrder

\* tasks/get never shows a completed task whose order venue/orders lacks.
TaskImpliesOrder ==
    \A t \in tasks : t.state = "completed" =>
        \E k \in 1..Len(orders) : orders[k].audit_entry = t.audit_entry

\* The PASS lines that never got their order, those apart of calls that named no
\* order_ref and were answered with an error.
Unexecuted ==
    {i \in PassLines :
        LET rid == file[i].entry.request_id IN
        /\ told[rid] # "raised"
        /\ \A k \in 1..Len(executed) : executed[k].request_id # rid
        /\ step = "approved" => rid # Rid}

\* At most one approval is lost for every crash and every failing write; no
\* exception or early return loses another, but the KeyError of a call whose
\* context was issued for no order.
ApprovalsLostOnlyInFailures ==
    /\ Cardinality(Unexecuted) <= crashes + errors
    /\ \A r \in RequestIds : told[r] = "raised" => issued[r].action_ref = Null

\* A running server extends an undamaged file at its end, across restarts.
ResumedAtTail ==
    (\A i \in 1..Len(file) : file[i].part = "line") =>
        VerifyChain(file) /\ (up => prev = LastEntryHash(file))

\* A context that no call can claim any more.
Spent(r) == issued[r] # NoContext /\ (contexts[r] # NoEntry => contexts[r].used)

-----------------------------------------------------------------------------
(* The inductive invariant *)

\* A context in memory is the one that was issued, and memory is empty while
\* the process is down.
ContextsIssued ==
    \A r \in RequestIds : contexts[r] # NoEntry => up /\ contexts[r].ctx = issued[r]

Serving == step \in {"claimed", "approved"}

\* The call being served has claimed the context issued for its order_ref.
InService ==
    /\ Serving <=> cur # NoCall
    /\ step # "idle" => up
    /\ Serving =>
          /\ Spent(Rid)
          /\ issued[Rid] = cur.request.ctx
          /\ RefOf(cur.request) = issued[Rid].action_ref
          /\ told[Rid] = "nothing"

\* Whatever has been judged or answered is spent, and while a call is claimed
\* nothing in the file is about it.
JudgedSpent ==
    \A i \in 1..Len(file) :
        /\ Spent(file[i].entry.request_id)
        /\ step = "claimed" => file[i].entry.request_id # Rid

AnsweredSpent == \A r \in RequestIds : told[r] # "nothing" => Spent(r)

ProofsBound ==
    \A i \in 1..Len(file) :
        file[i].entry.result = "PASS" =>
            file[i].entry.proof.request_id = file[i].entry.request_id

\* Line i of the file authorises order o of context r under policy p.
Authorises(i, r, o, p) ==
    /\ i \in PassLines
    /\ file[i].hash = o.audit_entry
    /\ file[i].entry.request_id = r
    /\ file[i].entry.predicate = Want
    /\ Respects(file[i].entry.proof, p)
    /\ p.signed
    /\ issued[r].action_ref = o.order_ref

\* An approved call is about to do what an executed one has done.
ApprovedAuthorised ==
    step = "approved" =>
        /\ Registered \in Docs
        /\ \E i \in 1..Len(file) : Authorises(i, Rid, NewOrder, Registered)

ExecutedAuthorised ==
    \A k \in 1..Len(executed) :
        /\ told[executed[k].request_id] = "ALLOW"
        /\ \E i \in 1..Len(file) :
              Authorises(i, executed[k].request_id, executed[k].order, executed[k].policy)

ExecutedOnce ==
    \A k, l \in 1..Len(executed) :
        executed[k].request_id = executed[l].request_id => k = l

StoreSigned == \A k \in Predicates : store[k] # NoDoc => store[k].signed

\* The inductive invariant: what the provers need beside the properties.
IInv ==
    /\ TypeOK
    /\ ContextsIssued
    /\ InService
    /\ JudgedSpent
    /\ AnsweredSpent
    /\ OneVerdictPerContext
    /\ ProofsBound
    /\ ApprovedAuthorised
    /\ ExecutedAuthorised
    /\ ExecutedOnce
    /\ StoreSigned
    /\ AnswersAreTrue
    /\ TaskImpliesOrder
    /\ ResumedAtTail
    /\ ApprovalsLostOnlyInFailures

-----------------------------------------------------------------------------
(* The refinement *)

Granted == [r \in RequestIds |->
               IF issued[r] = NoContext THEN NoContext ELSE issued[r].action_ref]
SpentIds == {r \in RequestIds : Spent(r)}
ApprovedIds == {file[i].entry.request_id : i \in PassLines}
ExecutedGrants == [k \in 1..Len(executed) |->
                      <<executed[k].request_id, executed[k].order.order_ref>>]

Authorization == INSTANCE Authorization WITH
    RequestId <- RequestIds,
    ActionRef <- ActionRefs \cup {Null},
    NoAction <- NoContext,
    granted <- Granted,
    spent <- SpentIds,
    approved <- ApprovedIds,
    executed <- ExecutedGrants

\* The reference server is a single-use authorisation service, as the Go
\* gateway is, through exceptions, failing writes and restarts.
AuthorizationSpec == Authorization!Spec
=============================================================================
