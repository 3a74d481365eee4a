--------------------------- MODULE AgentServerProofs ---------------------------
(***************************************************************************)
(* AgentServer for any number of contexts, proofs, documents, listings,    *)
(* failing writes and crashes: types, single verdicts, orders that stand   *)
(* on an approval for them against the signed cap, true answers, a chain   *)
(* resumed at its end, approvals lost only in failures, and that           *)
(* AgentServer implements Authorization.                                   *)
(***************************************************************************)
EXTENDS AgentServer, SequenceTheorems, FiniteSetTheorems, TLAPS

\* Appending keeps a sequence one, and leaves what it held in place.
LEMMA AppendFacts ==
    ASSUME NEW S, NEW s \in Seq(S), NEW x \in S
    PROVE  /\ Append(s, x) \in Seq(S)
           /\ Len(Append(s, x)) = Len(s) + 1
           /\ Len(s) \in Nat
           /\ \A i \in 1..Len(s) : Append(s, x)[i] = s[i]
           /\ Append(s, x)[Len(s) + 1] = x
    OBVIOUS

-----------------------------------------------------------------------------
(* What the steps do *)

\* A call that passes the checks names an unused context as it was issued, for
\* its own order_ref.
LEMMA CodeZero ==
    ASSUME NEW q, Code(q) = 0
    PROVE  LET e == contexts[q.ctx.request_id] IN
           e # NoEntry /\ ~e.used /\ q.ctx = e.ctx /\ e.ctx.action_ref = RefOf(q)
    BY DEF Code

\* A claim changes nothing in a context but its used flag.
LEMMA ClaimFacts ==
    ASSUME TypeOK, ContextsIssued, NEW q \in Request, NEW envelope \in Envelope,
           Claim(q, envelope)
    PROVE  LET r == q.ctx.request_id IN
           /\ r \in RequestIds
           /\ contexts[r] \in CtxEntry
           /\ ~contexts[r].used
           /\ issued[r] = q.ctx
           /\ issued[r] # NoContext
           /\ issued[r].action_ref = RefOf(q)
           /\ contexts'[r] \in CtxEntry
           /\ contexts'[r].used
           /\ contexts'[r].ctx = contexts[r].ctx
           /\ \A o \in RequestIds \ {r} : contexts'[o] = contexts[o]
           /\ contexts' \in [RequestIds -> CtxEntry \cup {NoEntry}]
           /\ cur' \in Call
           /\ cur'.request = q
           /\ UNCHANGED <<file, issued, told, executed, up, store, prev, orders, tasks>>
    <1> DEFINE r == q.ctx.request_id
    <1>1. r \in RequestIds /\ q.ctx \in Context
        BY DEF Request, Context
    <1>2. contexts[r] # NoEntry /\ ~contexts[r].used /\ q.ctx = contexts[r].ctx
          /\ contexts[r].ctx.action_ref = RefOf(q)
        BY CodeZero DEF Claim
    <1>3. contexts[r] \in CtxEntry
        BY <1>1, <1>2 DEF TypeOK
    <1>4. issued[r] = q.ctx
        BY <1>1, <1>2 DEF ContextsIssued
    <1>5. contexts' = [contexts EXCEPT ![r] = [contexts[r] EXCEPT !.used = TRUE]]
        BY <1>1 DEF Claim, TypeOK
    <1>6. [contexts[r] EXCEPT !.used = TRUE] \in CtxEntry
        BY <1>3 DEF CtxEntry
    <1>7. contexts'[r] = [contexts[r] EXCEPT !.used = TRUE]
        BY <1>1, <1>5 DEF TypeOK
    <1>8. contexts'[r].used /\ contexts'[r].ctx = contexts[r].ctx
        BY <1>3, <1>7 DEF CtxEntry
    <1>9. contexts' \in [RequestIds -> CtxEntry \cup {NoEntry}]
          /\ \A o \in RequestIds \ {r} : contexts'[o] = contexts[o]
        BY <1>1, <1>5, <1>6 DEF TypeOK
    <1>10. cur' \in Call /\ cur'.request = q
        BY DEF Claim, Call
    <1>11. q.ctx # NoContext
        BY <1>1, AgentServerAssumption
    <1> QED
        BY <1>1, <1>2, <1>3, <1>4, <1>6, <1>7, <1>8, <1>9, <1>10, <1>11
        DEF Claim, durable, bounds, history

\* The parts of a call being served.
LEMMA CallFacts ==
    ASSUME TypeOK, InService, Serving
    PROVE  /\ cur \in Call
           /\ Rid \in RequestIds
           /\ Presented \in Envelope
           /\ Presented.payload \in Proofs \cup {Undecodable}
           /\ cur.request \in Request
           /\ cur.request.ctx \in Context
           /\ RefOf(cur.request) \in ActionRefs \cup {Null}
           /\ store[Presented.predicate] \in Docs \cup {NoDoc}
    <1>1. cur \in Call
        BY DEF TypeOK, InService
    <1>2. /\ cur.request \in Request /\ cur.request.ctx \in Context
          /\ cur.request.order_ref \in ActionRefs \cup {Null, Absent}
        BY <1>1 DEF Call, Request
    <1>3. RefOf(cur.request) \in ActionRefs \cup {Null}
        BY <1>2 DEF RefOf
    <1> QED
        BY <1>1, <1>2, <1>3 DEF TypeOK, Rid, Presented, Call, Context, Envelope

\* The entry of a judged call: a PASS is about an intact proof of the signed
\* cap, made for this context.
LEMMA VerdictFacts ==
    ASSUME TypeOK, InService, Judged
    PROVE  /\ Verdict \in AuditEntry
           /\ Verdict.request_id = Rid
           /\ Verdict.predicate = Want
           /\ Registered \in Docs
           /\ Verdict.result = "PASS" =>
                /\ Verdict.proof.request_id = Rid
                /\ Respects(Verdict.proof, Registered)
    <1>1. Presented \in Envelope /\ Rid \in RequestIds
          /\ Presented.payload \in Proofs \cup {Undecodable}
          /\ Registered \in Docs \cup {NoDoc}
        BY CallFacts DEF Judged, Registered, Serving
    <1>2. Presented.payload \in Proofs /\ Registered \in Docs /\ Presented.predicate = Want
        BY <1>1 DEF Judged, Raises
    <1>3. /\ Presented.payload \in Proof /\ Registered \in Doc
          /\ Presented.payload.intact /\ Tight(Presented.payload.nbits) =>
                /\ 0 <= Presented.payload.value
                /\ Presented.payload.value <= Presented.payload.cap
        BY <1>2, AgentServerAssumption
    <1>4. Want \in Predicates
        BY AgentServerAssumption
    <1>5. Verdict.request_id = Rid /\ Verdict.predicate = Want
          /\ Verdict.proof = Presented.payload
        BY <1>2 DEF Verdict
    <1>6. Verdict \in AuditEntry
        <2>1. cur.request.ctx.prover \in Names
            BY CallFacts DEF Judged, Serving, Context
        <2>2. Presented.engine \in Names
            BY <1>1 DEF Judged, Raises, Envelope
        <2> QED
            BY <1>1, <1>2, <1>3, <1>4, <2>1, <2>2 DEF Verdict, AuditEntry
    <1>7. ASSUME Verdict.result = "PASS"
          PROVE  VerifyRangeLeq(Presented.payload, Registered.cap, Rid)
        BY <1>7 DEF Verdict
    <1>8. ASSUME Verdict.result = "PASS"
          PROVE  /\ Presented.payload.request_id = Rid
                 /\ Presented.payload.intact
                 /\ Presented.payload.cap = Registered.cap
        BY <1>7, <1>8 DEF VerifyRangeLeq
    <1>9. Verdict.result = "PASS" => Respects(Verdict.proof, Registered)
        BY <1>3, <1>5, <1>8 DEF Respects
    <1> QED
        BY <1>2, <1>5, <1>6, <1>8, <1>9

\* What a write of the verdict adds to the file.
LEMMA WriteFacts ==
    ASSUME TypeOK, InService, Judged, NEW part \in Parts
    PROVE  /\ Written(Verdict, part) \in Seq(Chunk)
           /\ Len(Written(Verdict, part)) = Len(file) + 1
           /\ Len(file) \in Nat
           /\ \A i \in 1..Len(file) : Written(Verdict, part)[i] = file[i]
           /\ Written(Verdict, part)[Len(file) + 1].entry = Verdict
           /\ Written(Verdict, part)[Len(file) + 1].prev = prev
           /\ Written(Verdict, part)[Len(file) + 1].hash = Hash(prev, Verdict)
           /\ Written(Verdict, part)[Len(file) + 1].part = part
           /\ Hash(prev, Verdict) \in Hashes
    <1> DEFINE chunk == [entry |-> Verdict, prev |-> prev, hash |-> Hash(prev, Verdict),
                         part |-> part]
    <1>1. Verdict \in AuditEntry
        BY VerdictFacts
    <1>2. Hash(prev, Verdict) \in Hashes
        BY <1>1, AppendFacts DEF TypeOK, Hash, Hashes
    <1>3. chunk \in Chunk
        BY <1>1, <1>2 DEF TypeOK, Chunk
    <1>4. file \in Seq(Chunk)
        BY DEF TypeOK
    <1>5. Written(Verdict, part) = Append(file, chunk)
        BY DEF Written
    <1>6. /\ Written(Verdict, part) \in Seq(Chunk)
          /\ Len(Written(Verdict, part)) = Len(file) + 1
          /\ Len(file) \in Nat
          /\ \A i \in 1..Len(file) : Written(Verdict, part)[i] = file[i]
          /\ Written(Verdict, part)[Len(file) + 1] = chunk
        BY <1>3, <1>4, <1>5, AppendFacts
    <1> QED
        BY <1>2, <1>6

\* Finishing a call answers it and no other.
LEMMA FinishFacts ==
    ASSUME TypeOK, InService, Serving,
           NEW answer \in {"ALLOW", "denied", "raised"}, NEW task \in Task,
           Finish(answer, task)
    PROVE  /\ told' \in [RequestIds -> {"nothing", "ALLOW", "denied", "raised"}]
           /\ told'[Rid] = answer
           /\ \A o \in RequestIds \ {Rid} : told'[o] = told[o]
           /\ tasks \subseteq tasks'
           /\ tasks' \subseteq tasks \cup {task}
           /\ tasks' \subseteq Task
           /\ cur' = NoCall
           /\ step' = "idle"
    <1>1. Rid \in RequestIds
        BY CallFacts
    <1> QED
        BY <1>1 DEF TypeOK, Finish

LEMMA FailedType == Failed \in Task
    BY DEF Failed, Task, Genesis, Hashes

LEMMA NewOrderFacts ==
    ASSUME TypeOK, InService, ApprovedAuthorised, step = "approved"
    PROVE  /\ NewOrder \in Order
           /\ [request_id |-> Rid, order |-> NewOrder, policy |-> Registered] \in Execution
           /\ [state |-> "completed", audit_entry |-> prev] \in Task
    <1>1. Rid \in RequestIds /\ RefOf(cur.request) \in ActionRefs \cup {Null}
        BY CallFacts DEF Serving
    <1>2. Registered \in Doc
        BY AgentServerAssumption DEF ApprovedAuthorised
    <1>3. prev \in Hashes
        BY DEF TypeOK
    <1>4. NewOrder \in Order
        BY <1>1, <1>3 DEF NewOrder, Order
    <1> QED
        BY <1>1, <1>2, <1>3, <1>4 DEF Execution, Task

\* What an execution adds to the ledger.
LEMMA ExecuteFacts ==
    ASSUME TypeOK, InService, ApprovedAuthorised, Execute
    PROVE  LET e == [request_id |-> Rid, order |-> NewOrder, policy |-> Registered] IN
           /\ orders' \in Seq(Order)
           /\ Len(orders') = Len(orders) + 1
           /\ Len(orders) \in Nat
           /\ \A k \in 1..Len(orders) : orders'[k] = orders[k]
           /\ orders'[Len(orders) + 1] = NewOrder
           /\ executed' \in Seq(Execution)
           /\ executed' = Append(executed, e)
           /\ Len(executed') = Len(executed) + 1
           /\ Len(executed) \in Nat
           /\ \A k \in 1..Len(executed) : executed'[k] = executed[k]
           /\ executed'[Len(executed) + 1] = e
           /\ Rid \in RequestIds
           /\ told' \in [RequestIds -> {"nothing", "ALLOW", "denied", "raised"}]
           /\ told'[Rid] = "ALLOW"
           /\ \A o \in RequestIds \ {Rid} : told'[o] = told[o]
           /\ tasks \subseteq tasks'
           /\ tasks' \subseteq tasks \cup {[state |-> "completed", audit_entry |-> prev]}
           /\ tasks' \subseteq Task
           /\ cur' = NoCall
           /\ step' = "idle"
    <1> DEFINE e == [request_id |-> Rid, order |-> NewOrder, policy |-> Registered]
    <1> DEFINE t == [state |-> "completed", audit_entry |-> prev]
    <1>1. NewOrder \in Order /\ e \in Execution /\ t \in Task
        BY NewOrderFacts DEF Execute
    <1>2. Rid \in RequestIds
        BY CallFacts DEF Execute, Serving
    <1>3. Finish("ALLOW", t)
        BY DEF Execute
    <1>4. /\ orders \in Seq(Order) /\ executed \in Seq(Execution)
          /\ told \in [RequestIds -> {"nothing", "ALLOW", "denied", "raised"}]
          /\ tasks \subseteq Task
        BY DEF TypeOK
    <1>5. orders' = Append(orders, NewOrder) /\ executed' = Append(executed, e)
        BY DEF Execute
    <1> HIDE DEF e, t
    <1>6. /\ told' \in [RequestIds -> {"nothing", "ALLOW", "denied", "raised"}]
          /\ told'[Rid] = "ALLOW"
          /\ \A o \in RequestIds \ {Rid} : told'[o] = told[o]
          /\ tasks \subseteq tasks'
          /\ tasks' \subseteq tasks \cup {t}
          /\ tasks' \subseteq Task
          /\ cur' = NoCall
          /\ step' = "idle"
        BY <1>1, <1>2, <1>3, <1>4 DEF Finish
    <1>7. /\ orders' \in Seq(Order)
          /\ Len(orders') = Len(orders) + 1
          /\ Len(orders) \in Nat
          /\ \A k \in 1..Len(orders) : orders'[k] = orders[k]
          /\ orders'[Len(orders) + 1] = NewOrder
        BY <1>1, <1>4, <1>5, AppendFacts
    <1>8. /\ executed' \in Seq(Execution)
          /\ Len(executed') = Len(executed) + 1
          /\ Len(executed) \in Nat
          /\ \A k \in 1..Len(executed) : executed'[k] = executed[k]
          /\ executed'[Len(executed) + 1] = e
        BY <1>1, <1>4, <1>5, AppendFacts
    <1> QED
        BY <1>2, <1>5, <1>6, <1>7, <1>8 DEF e, t

\* Publishing a listing gives every predicate a document of it or none.
LEMMA LoadedFacts ==
    ASSUME TypeOK
    PROVE  /\ Loaded(dir) \in [Predicates -> Docs \cup {NoDoc}]
           /\ Loadable(dir) => \A k \in Predicates : Loaded(dir)[k] # NoDoc => Loaded(dir)[k].signed
    <1>1. dir \in Seq(Docs)
        BY AgentServerAssumption DEF TypeOK
    <1>2. ASSUME NEW k \in Predicates, \E i \in 1..Len(dir) : LastFor(dir, k, i)
          PROVE  \E i \in 1..Len(dir) : Loaded(dir)[k] = dir[i]
        BY <1>2 DEF Loaded
    <1>3. ASSUME NEW k \in Predicates, ~ \E i \in 1..Len(dir) : LastFor(dir, k, i)
          PROVE  Loaded(dir)[k] = NoDoc
        BY <1>3 DEF Loaded
    <1>4. \A k \in Predicates : Loaded(dir)[k] = NoDoc \/ \E i \in 1..Len(dir) : Loaded(dir)[k] = dir[i]
        BY <1>2, <1>3
    <1>5. Loaded(dir) = [k \in Predicates |-> Loaded(dir)[k]]
        BY DEF Loaded
    <1>6. \A i \in 1..Len(dir) : dir[i] \in Docs
        BY <1>1
    <1>7. Loaded(dir) \in [Predicates -> Docs \cup {NoDoc}]
        BY <1>4, <1>5, <1>6
    <1>8. ASSUME Loadable(dir), NEW k \in Predicates, Loaded(dir)[k] # NoDoc
          PROVE  Loaded(dir)[k].signed
        BY <1>4, <1>8 DEF Loadable
    <1> QED
        BY <1>7, <1>8

-----------------------------------------------------------------------------
(* Types *)

LEMMA GenesisType == Genesis \in Hashes
    BY DEF Genesis, Hashes

LEMMA TypeInit == Init => TypeOK
    <1> SUFFICES ASSUME Init PROVE TypeOK
        OBVIOUS
    <1>1. file \in Seq(Chunk) /\ orders \in Seq(Order) /\ executed \in Seq(Execution)
        BY DEF Init
    <1>2. store \in [Predicates -> Docs \cup {NoDoc}]
        BY DEF Init, NoPolicy
    <1>3. prev \in Hashes
        BY GenesisType DEF Init
    <1>4. /\ contexts \in [RequestIds -> CtxEntry \cup {NoEntry}]
          /\ issued \in [RequestIds -> Context \cup {NoContext}]
          /\ told \in [RequestIds -> {"nothing", "ALLOW", "denied", "raised"}]
        BY DEF Init
    <1>5. crashes \in 0..MaxCrashes /\ errors \in 0..MaxErrors /\ changes \in 0..MaxChanges
        BY AgentServerAssumption DEF Init
    <1>6. /\ dir \in Directories /\ up \in BOOLEAN /\ tasks \subseteq Task
          /\ cur \in Call \cup {NoCall} /\ step \in {"idle", "stalled", "claimed", "approved"}
        BY DEF Init
    <1> QED
        BY <1>1, <1>2, <1>3, <1>4, <1>5, <1>6 DEF TypeOK

LEMMA ForgetType ==
    ASSUME TypeOK, Forget
    PROVE  /\ up' \in BOOLEAN
           /\ store' \in [Predicates -> Docs \cup {NoDoc}]
           /\ prev' \in Hashes
           /\ contexts' \in [RequestIds -> CtxEntry \cup {NoEntry}]
           /\ orders' \in Seq(Order)
           /\ tasks' \subseteq Task
           /\ cur' \in Call \cup {NoCall}
           /\ step' \in {"idle", "stalled", "claimed", "approved"}
    <1>1. store' \in [Predicates -> Docs \cup {NoDoc}]
        BY DEF Forget, NoPolicy
    <1>2. orders' \in Seq(Order)
        BY DEF Forget
    <1> QED
        BY <1>1, <1>2, GenesisType DEF Forget

\* A refused call has the type of an answered one.
LEMMA DenyType ==
    ASSUME TypeOK, InService, Serving,
           NEW answer \in {"denied", "raised"}, Finish(answer, Failed)
    PROVE  /\ told' \in [RequestIds -> {"nothing", "ALLOW", "denied", "raised"}]
           /\ tasks' \subseteq Task
           /\ cur' \in Call \cup {NoCall}
           /\ step' \in {"idle", "stalled", "claimed", "approved"}
    BY FinishFacts, FailedType

LEMMA RecordType ==
    ASSUME TypeOK, InService, Record
    PROVE  TypeOK'
    <1>1. Judged
        BY DEF Record
    <1>2. "line" \in Parts
        BY DEF Parts
    <1>3. file' \in Seq(Chunk) /\ prev' \in Hashes
        BY <1>1, <1>2, WriteFacts DEF Record
    <1>4. /\ told' \in [RequestIds -> {"nothing", "ALLOW", "denied", "raised"}]
          /\ tasks' \subseteq Task
          /\ cur' \in Call \cup {NoCall}
          /\ step' \in {"idle", "stalled", "claimed", "approved"}
        <2>1. CASE Verdict.result = "PASS"
            BY <2>1 DEF Record, TypeOK
        <2>2. CASE Verdict.result # "PASS"
            <3>1. Finish("denied", Failed)
                BY <2>2 DEF Record
            <3> QED
                BY <1>1, <3>1, DenyType DEF Judged, Serving
        <2> QED
            BY <2>1, <2>2
    <1> QED
        BY <1>3, <1>4 DEF TypeOK, Record, bounds

LEMMA WriteFaultsType ==
    ASSUME NEW part \in WriteFaults
    PROVE  part \in Parts /\ part # "line"
    BY AgentServerAssumption

\* A whole line is either part, and nothing that a crash leaves.
LEMMA WholeFacts ==
    ASSUME NEW part \in Parts
    PROVE  part \in WholeLines <=> part = "line" \/ part = "whole"
    BY DEF WholeLines

LEMMA TypeStep ==
    ASSUME TypeOK, ContextsIssued, InService, ApprovedAuthorised, [Next]_vars
    PROVE  TypeOK'
    <1>1. CASE Start
        <2>1. LastEntryHash(file) \in Hashes
            <3>1. CASE file = <<>>
                BY <3>1, GenesisType DEF LastEntryHash
            <3>2. CASE file # <<>>
                <4>1. Len(file) \in 1..Len(file)
                    BY <3>2, EmptySeq DEF TypeOK
                <4>2. file[Len(file)] \in Chunk
                    BY <4>1 DEF TypeOK
                <4>3. file[Len(file)].hash \in Hashes
                    BY <4>2 DEF Chunk
                <4> QED
                    BY <3>2, <4>3 DEF LastEntryHash
            <3> QED
                BY <3>1, <3>2
        <2> QED
            BY <1>1, <2>1, LoadedFacts DEF TypeOK, Start, durable, bounds, history
    <1>2. ASSUME NEW d \in Directories, ChangeDirectory(d)
          PROVE  TypeOK'
        BY <1>2, AgentServerAssumption DEF TypeOK, ChangeDirectory, memory, history
    <1>3. ASSUME NEW ctx \in Context, IssueContext(ctx)
          PROVE  TypeOK'
        BY <1>3 DEF TypeOK, IssueContext, Context, CtxEntry, durable, bounds
    <1>4. ASSUME NEW q \in Request, NEW envelope \in Envelope, Claim(q, envelope)
          PROVE  TypeOK'
        BY <1>4, ClaimFacts DEF TypeOK, Claim, durable, bounds, history
    <1>5. CASE RefuseMessage
        BY <1>5, FailedType DEF TypeOK, RefuseMessage, Stall, StallEnds, durable, bounds,
            history
    <1>6. CASE DenyUnaudited
        <2>1. Serving /\ Finish("denied", Failed)
            BY <1>6 DEF DenyUnaudited, Serving
        <2> QED
            BY <1>6, <2>1, DenyType DEF TypeOK, DenyUnaudited, durable, bounds
    <1>7. CASE Record
        BY <1>7, RecordType
    <1>8. CASE RecordRaises
        <2>1. Serving /\ Judged /\ Finish("denied", Failed)
            BY <1>8 DEF RecordRaises, Judged, Serving
        <2>2. file' \in Seq(Chunk)
            BY <1>8, <2>1, WriteFacts, WriteFaultsType DEF RecordRaises, TypeOK
        <2>3. errors' \in 0..MaxErrors
            BY <1>8, AgentServerAssumption DEF RecordRaises, TypeOK
        <2> QED
            BY <1>8, <2>1, <2>2, <2>3, DenyType DEF TypeOK, RecordRaises
    <1>9. CASE Crash
        <2>1. crashes' \in 0..MaxCrashes
            BY <1>9, AgentServerAssumption DEF Crash, TypeOK
        <2> QED
            BY <1>9, <2>1, ForgetType DEF TypeOK, Crash, durable, history
    <1>10. CASE CrashInRecord
        <2>1. file' \in Seq(Chunk)
            BY <1>10, WriteFacts, WriteFaultsType DEF CrashInRecord, TypeOK
        <2>2. crashes' \in 0..MaxCrashes
            BY <1>10, AgentServerAssumption DEF CrashInRecord, TypeOK
        <2> QED
            BY <1>10, <2>1, <2>2, ForgetType DEF TypeOK, CrashInRecord, history
    <1>11. CASE Execute
        BY <1>11, ExecuteFacts DEF TypeOK, Execute, durable, bounds
    <1>12. CASE ExecuteRaises
        <2>1. Serving /\ Finish("raised", Failed)
            BY <1>12 DEF ExecuteRaises, Serving
        <2> QED
            BY <1>12, <2>1, DenyType DEF TypeOK, ExecuteRaises, durable, bounds
    <1>13. CASE UNCHANGED vars
        BY <1>13 DEF TypeOK, vars, durable, memory, bounds, history
    <1>14. CASE Stall \/ StallEnds
        BY <1>14 DEF TypeOK, Stall, StallEnds, durable, bounds, history
    <1> QED
        BY <1>1, <1>2, <1>3, <1>4, <1>5, <1>6, <1>7, <1>8, <1>9, <1>10, <1>11, <1>12, <1>13,
            <1>14
        DEF Next, Administration, Serve, Faults

-----------------------------------------------------------------------------
(* What every step keeps *)

\* The file only ever grows by the verdict of a claimed call, which is then no
\* longer claimed; a whole line is the work of Record.
LEMMA FileStep ==
    ASSUME TypeOK, InService, [Next]_vars
    PROVE  \/ file' = file
           \/ /\ Judged
              /\ step' # "claimed"
              /\ UNCHANGED <<contexts, issued>> \/ (Forget /\ UNCHANGED issued)
              /\ \E part \in Parts :
                    /\ file' = Written(Verdict, part)
                    /\ part = "line" => Record
                    /\ part = "whole" => RecordRaises
    <1>1. CASE Record
        <2>1. "line" \in Parts
            BY DEF Parts
        <2>2. step' # "claimed"
            BY <1>1 DEF Record, Finish
        <2> QED
            BY <1>1, <2>1, <2>2 DEF Record
    <1>2. CASE RecordRaises
        BY <1>2, WriteFaultsType DEF RecordRaises, Finish
    <1>3. CASE CrashInRecord
        BY <1>3, WriteFaultsType DEF CrashInRecord, Forget, history
    <1> QED
        BY <1>1, <1>2, <1>3
        DEF Next, Administration, Serve, Faults, Start, ChangeDirectory, IssueContext, Claim,
            RefuseMessage, Stall, StallEnds, DenyUnaudited, Crash, Execute, ExecuteRaises,
                vars, durable

LEMMA FileGrows ==
    ASSUME TypeOK, InService, [Next]_vars
    PROVE  /\ Len(file) \in Nat
           /\ Len(file') \in Nat
           /\ Len(file) <= Len(file')
           /\ \A i \in 1..Len(file) : i \in 1..Len(file') /\ file'[i] = file[i]
    <1>1. Len(file) \in Nat
        BY DEF TypeOK
    <1>2. CASE file' = file
        BY <1>1, <1>2
    <1>3. CASE Judged /\ \E part \in Parts : file' = Written(Verdict, part)
        <2>1. PICK part \in Parts : file' = Written(Verdict, part)
            BY <1>3
        <2>2. Len(file') = Len(file) + 1 /\ \A i \in 1..Len(file) : file'[i] = file[i]
            BY <1>3, <2>1, WriteFacts
        <2> QED
            BY <1>1, <2>2
    <1> QED
        BY <1>2, <1>3, FileStep

\* A context that is spent stays spent, and what was issued stays as it was.
LEMMA SpentStays ==
    ASSUME TypeOK, ContextsIssued, InService, [Next]_vars, NEW r \in RequestIds, Spent(r)
    PROVE  Spent(r)' /\ issued'[r] = issued[r]
    <1>1. ASSUME NEW ctx \in Context, IssueContext(ctx)
          PROVE  Spent(r)' /\ issued'[r] = issued[r]
        <2>1. ctx.request_id # r
            BY <1>1 DEF IssueContext, Spent
        <2>2. contexts'[r] = contexts[r] /\ issued'[r] = issued[r]
            BY <1>1, <2>1 DEF IssueContext, TypeOK
        <2> QED
            BY <2>2 DEF Spent
    <1>2. ASSUME NEW q \in Request, NEW envelope \in Envelope, Claim(q, envelope)
          PROVE  Spent(r)' /\ issued'[r] = issued[r]
        BY <1>2, ClaimFacts DEF Spent
    <1>3. CASE Forget /\ UNCHANGED issued
        BY <1>3 DEF Spent, Forget
    <1>4. CASE UNCHANGED <<contexts, issued>>
        BY <1>4 DEF Spent
    <1> QED
        BY <1>1, <1>2, <1>3, <1>4
        DEF Next, Administration, Serve, Faults, Start, ChangeDirectory, RefuseMessage, Stall,
            StallEnds,
            DenyUnaudited, Record, RecordRaises, Crash, CrashInRecord, Execute,
            ExecuteRaises, vars, durable, memory, history

LEMMA ExecutedGrows ==
    ASSUME TypeOK, InService, ApprovedAuthorised, [Next]_vars
    PROVE  executed' = executed \/ Execute
    BY DEF Next, Administration, Serve, Faults, Start, ChangeDirectory, RefuseMessage, Stall,
        StallEnds,
           IssueContext, Claim, DenyUnaudited, Record, RecordRaises, Crash, CrashInRecord,
           ExecuteRaises, vars, history

\* Only the call being served is answered, and only Execute says ALLOW.
LEMMA AnswerStep ==
    ASSUME TypeOK, InService, [Next]_vars
    PROVE  \/ told' = told
           \/ /\ Serving
              /\ Rid \in RequestIds
              /\ \A o \in RequestIds \ {Rid} : told'[o] = told[o]
              /\ \/ told'[Rid] = "ALLOW" /\ Execute
                 \/ told'[Rid] = "denied" /\ executed' = executed
                 \/ told'[Rid] = "raised" /\ ExecuteRaises
              /\ step' = "idle"
              /\ cur' = NoCall
              /\ UNCHANGED <<contexts, issued>>
    <1>1. ASSUME Serving, NEW answer \in {"denied", "raised"}, Finish(answer, Failed),
                 executed' = executed, UNCHANGED <<contexts, issued>>
          PROVE  /\ Rid \in RequestIds
                 /\ \A o \in RequestIds \ {Rid} : told'[o] = told[o]
                 /\ told'[Rid] = answer
                 /\ step' = "idle"
                 /\ cur' = NoCall
        BY <1>1, FinishFacts, CallFacts, FailedType
    <1>2. CASE Execute
        <2>1. Rid \in RequestIds /\ Serving
            BY <1>2, CallFacts DEF Execute, Serving
        <2>2. told' = [told EXCEPT ![Rid] = "ALLOW"] /\ step' = "idle" /\ cur' = NoCall
            BY <1>2 DEF Execute, Finish
        <2>3. UNCHANGED <<contexts, issued>>
            BY <1>2 DEF Execute
        <2> QED
            BY <1>2, <2>1, <2>2, <2>3 DEF TypeOK
    <1>3. CASE DenyUnaudited
        BY <1>1, <1>3 DEF DenyUnaudited, Serving
    <1>4. CASE ExecuteRaises
        BY <1>1, <1>4 DEF ExecuteRaises, Serving
    <1>5. CASE RecordRaises
        BY <1>1, <1>5 DEF RecordRaises, Judged, Serving
    <1>6. CASE Record
        BY <1>1, <1>6 DEF Record, Judged, Serving
    <1> QED
        BY <1>2, <1>3, <1>4, <1>5, <1>6
        DEF Next, Administration, Serve, Faults, Start, ChangeDirectory, RefuseMessage, Stall,
            StallEnds,
            IssueContext, Claim, Crash, CrashInRecord, vars, history

-----------------------------------------------------------------------------
(* The inductive invariant, one conjunct at a time *)

LEMMA ContextsIssuedStep ==
    ASSUME TypeOK, ContextsIssued, InService, [Next]_vars
    PROVE  ContextsIssued'
    <1>1. ASSUME NEW ctx \in Context, IssueContext(ctx)
          PROVE  ContextsIssued'
        <2>1. /\ ctx.request_id \in RequestIds
              /\ contexts' = [contexts EXCEPT ![ctx.request_id] = [ctx |-> ctx, used |-> FALSE]]
              /\ issued' = [issued EXCEPT ![ctx.request_id] = ctx]
              /\ up' = up /\ up
            BY <1>1 DEF IssueContext, Context, Idle
        <2> QED
            BY <2>1 DEF ContextsIssued, TypeOK
    <1>2. ASSUME NEW q \in Request, NEW envelope \in Envelope, Claim(q, envelope)
          PROVE  ContextsIssued'
        <2>1. /\ q.ctx.request_id \in RequestIds
              /\ \A o \in RequestIds \ {q.ctx.request_id} : contexts'[o] = contexts[o]
              /\ contexts'[q.ctx.request_id].ctx = contexts[q.ctx.request_id].ctx
              /\ contexts[q.ctx.request_id] \in CtxEntry
              /\ UNCHANGED <<issued, up>>
            BY <1>2, ClaimFacts
        <2>2. contexts[q.ctx.request_id] # NoEntry
            BY <2>1, AgentServerAssumption
        <2> QED
            BY <2>1, <2>2 DEF ContextsIssued
    <1>3. CASE Forget
        BY <1>3 DEF Forget, ContextsIssued
    <1>4. CASE UNCHANGED <<contexts, issued, up>>
        BY <1>4 DEF ContextsIssued
    <1>5. CASE Start
        BY <1>5 DEF Start, ContextsIssued, history
    <1> QED
        BY <1>1, <1>2, <1>3, <1>4, <1>5
        DEF Next, Administration, Serve, Faults, ChangeDirectory, RefuseMessage, Stall,
            StallEnds,
            DenyUnaudited, Record, RecordRaises, Crash, CrashInRecord, Execute,
            ExecuteRaises, vars, durable, memory, history

\* A claim begins service; an approval and an answer continue and end it.
LEMMA InServiceStep ==
    ASSUME TypeOK, ContextsIssued, InService, AnsweredSpent, [Next]_vars
    PROVE  InService'
    <1>1. ASSUME NEW q \in Request, NEW envelope \in Envelope, Claim(q, envelope)
          PROVE  InService'
        <2> DEFINE r == q.ctx.request_id
        <2>1. /\ r \in RequestIds
              /\ contexts[r] \in CtxEntry
              /\ ~contexts[r].used
              /\ issued[r] = q.ctx
              /\ issued[r] # NoContext
              /\ issued[r].action_ref = RefOf(q)
              /\ contexts'[r].used
              /\ cur' \in Call
              /\ cur'.request = q
              /\ UNCHANGED <<issued, told, up>>
            BY <1>1, ClaimFacts
        <2>2. contexts[r] # NoEntry
            BY <2>1, AgentServerAssumption
        <2>3. told[r] = "nothing"
            BY <2>1, <2>2 DEF AnsweredSpent, Spent
        <2>4. up /\ step' = "claimed" /\ cur' # NoCall
            BY <1>1, <2>1, AgentServerAssumption DEF Claim, Idle
        <2> QED
            BY <2>1, <2>3, <2>4 DEF InService, Rid, Spent, Serving
    <1>2. CASE Record /\ Verdict.result = "PASS"
        <2>1. Serving /\ step' = "approved"
              /\ UNCHANGED <<cur, told, up, contexts, issued>>
            BY <1>2 DEF Record, Judged, Serving
        <2> QED
            BY <2>1 DEF InService, Rid, Spent, Serving
    <1>3. CASE step' = "idle" /\ cur' = NoCall
        BY <1>3 DEF InService, Serving
    <1>4. ASSUME NEW ctx \in Context, IssueContext(ctx)
          PROVE  InService'
        BY <1>4 DEF IssueContext, InService, Idle, Serving
    <1>5. CASE UNCHANGED <<step, cur, up, contexts, issued, told>>
        BY <1>5 DEF InService, Rid, Spent, Serving
    <1>6. CASE Start
        BY <1>6 DEF Start, InService, Rid, Spent, Serving
    <1>10. CASE Stall \/ StallEnds
        BY <1>10 DEF Stall, StallEnds, InService, Idle, Serving
    <1>7. CASE RefuseMessage
        BY <1>7 DEF RefuseMessage, Stall, StallEnds, InService, Idle, Serving
    <1>8. CASE Record /\ Verdict.result # "PASS"
        BY <1>3, <1>8 DEF Record, Finish
    <1>9. CASE Crash \/ CrashInRecord \/ DenyUnaudited \/ RecordRaises \/ Execute \/ ExecuteRaises
        BY <1>3, <1>9 DEF Crash, CrashInRecord, Forget, DenyUnaudited, RecordRaises,
                          Execute, ExecuteRaises, Finish
    <1> QED
        BY <1>1, <1>2, <1>4, <1>5, <1>6, <1>7, <1>8, <1>9, <1>10
        DEF Next, Administration, Serve, Faults, ChangeDirectory, vars, memory, history

\* The old entries' contexts stay spent, and so does the one just judged.
LEMMA EntriesSpent ==
    ASSUME TypeOK, ContextsIssued, InService, JudgedSpent, [Next]_vars,
           NEW j \in 1..Len(file'), NEW r \in RequestIds, file'[j].entry.request_id = r
    PROVE  Spent(r)
    <1>1. CASE j \in 1..Len(file)
        <2>1. file[j].entry.request_id = r
            BY <1>1, FileGrows
        <2> QED
            BY <1>1, <2>1 DEF JudgedSpent
    <1>2. CASE j \notin 1..Len(file)
        <2>1. Len(file) \in Nat /\ file' # file
            BY <1>2, FileGrows
        <2>2. PICK part \in Parts : Judged /\ file' = Written(Verdict, part)
            BY <2>1, FileStep
        <2>3. j = Len(file) + 1 /\ file'[j].entry = Verdict
            BY <1>2, <2>2, WriteFacts
        <2>4. Rid = r
            BY <2>2, <2>3, VerdictFacts
        <2> QED
            BY <2>2, <2>4 DEF InService, Judged, Serving
    <1> QED
        BY <1>1, <1>2

\* An entry names a context.
LEMMA EntryId ==
    ASSUME NEW f \in Seq(Chunk), NEW i \in 1..Len(f)
    PROVE  f[i] \in Chunk /\ f[i].entry.request_id \in RequestIds
    <1>1. f[i] \in Chunk
        BY ElementOfSeq
    <1>2. f[i].entry \in AuditEntry
        BY <1>1 DEF Chunk
    <1> QED
        BY <1>1, <1>2 DEF AuditEntry

LEMMA JudgedSpentStep ==
    ASSUME TypeOK, TypeOK', ContextsIssued, InService, JudgedSpent, [Next]_vars
    PROVE  JudgedSpent'
    <1> SUFFICES ASSUME NEW j \in 1..Len(file')
                 PROVE  /\ Spent(file[j].entry.request_id)'
                        /\ step' = "claimed" => file'[j].entry.request_id # Rid'
        BY DEF JudgedSpent
    <1>1. PICK r \in RequestIds : file'[j].entry.request_id = r
        <2>1. file' \in Seq(Chunk)
            BY DEF TypeOK
        <2> QED
            BY <2>1, EntryId
    <1>2. Spent(r)
        BY <1>1, EntriesSpent
    <1>3. Spent(r)' /\ issued'[r] = issued[r]
        BY <1>2, SpentStays
    <1>4. Spent(file[j].entry.request_id)'
        BY <1>1, <1>3 DEF Spent
    <1>5. ASSUME step' = "claimed"
          PROVE  r # Rid'
        <2>1. ASSUME NEW q \in Request, NEW envelope \in Envelope, Claim(q, envelope)
              PROVE  r # Rid'
            <3>1. /\ q.ctx.request_id \in RequestIds
                  /\ contexts[q.ctx.request_id] \in CtxEntry
                  /\ ~contexts[q.ctx.request_id].used
                  /\ cur'.request = q
                BY <2>1, ClaimFacts
            <3>2. ~Spent(q.ctx.request_id)
                BY <3>1, AgentServerAssumption DEF Spent
            <3> QED
                BY <1>2, <3>1, <3>2 DEF Rid
        <2>2. CASE step = "claimed" /\ UNCHANGED <<cur, file>>
            <3>1. j \in 1..Len(file) /\ file[j].entry.request_id = r
                BY <1>1, <2>2
            <3> QED
                BY <2>2, <3>1 DEF JudgedSpent, Rid
        <2>3. file' = file
            BY <1>5, FileStep
        <2> QED
            BY <1>5, <2>1, <2>2, <2>3
            DEF Next, Administration, Serve, Faults, Start, ChangeDirectory, RefuseMessage,
                Stall, StallEnds,
                IssueContext, DenyUnaudited, Record, RecordRaises, Crash, CrashInRecord,
                Forget, Execute, ExecuteRaises, Finish, Idle, vars, durable, memory
    <1> QED
        BY <1>1, <1>4, <1>5

LEMMA AnsweredSpentStep ==
    ASSUME TypeOK, ContextsIssued, InService, AnsweredSpent, [Next]_vars
    PROVE  AnsweredSpent'
    <1> SUFFICES ASSUME NEW r \in RequestIds, told'[r] # "nothing"
                 PROVE  Spent(r)'
        BY DEF AnsweredSpent
    <1>1. CASE told[r] # "nothing"
        BY <1>1, SpentStays DEF AnsweredSpent
    <1>2. CASE told[r] = "nothing"
        <2>1. Serving /\ r = Rid
            BY <1>2, AnswerStep
        <2> QED
            BY <2>1, SpentStays DEF InService
    <1> QED
        BY <1>1, <1>2

\* A claimed call's context is not in the file yet.
LEMMA OneVerdictStep ==
    ASSUME TypeOK, InService, JudgedSpent, OneVerdictPerContext, [Next]_vars
    PROVE  OneVerdictPerContext'
    <1>1. CASE file' = file
        BY <1>1 DEF OneVerdictPerContext
    <1>2. CASE Judged /\ \E part \in Parts : file' = Written(Verdict, part)
        <2>1. PICK part \in Parts : file' = Written(Verdict, part)
            BY <1>2
        <2>2. /\ Len(file') = Len(file) + 1 /\ Len(file) \in Nat
              /\ file'[Len(file) + 1].entry.request_id = Rid
              /\ \A i \in 1..Len(file) : file'[i] = file[i]
            BY <1>2, <2>1, WriteFacts, VerdictFacts
        <2>3. \A i \in 1..Len(file) : file[i].entry.request_id # Rid
            BY <1>2 DEF JudgedSpent, Judged
        <2> QED
            BY <2>2, <2>3 DEF OneVerdictPerContext
    <1> QED
        BY <1>1, <1>2, FileStep

LEMMA ProofsBoundStep ==
    ASSUME TypeOK, InService, ProofsBound, [Next]_vars
    PROVE  ProofsBound'
    <1>1. CASE file' = file
        BY <1>1 DEF ProofsBound
    <1>2. CASE Judged /\ \E part \in Parts : file' = Written(Verdict, part)
        <2>1. PICK part \in Parts : file' = Written(Verdict, part)
            BY <1>2
        <2>2. /\ Len(file') = Len(file) + 1 /\ Len(file) \in Nat
              /\ file'[Len(file) + 1].entry = Verdict
              /\ \A i \in 1..Len(file) : file'[i] = file[i]
            BY <1>2, <2>1, WriteFacts
        <2>3. Verdict.result = "PASS" => Verdict.proof.request_id = Verdict.request_id
            BY <1>2, VerdictFacts
        <2> QED
            BY <2>2, <2>3 DEF ProofsBound
    <1> QED
        BY <1>1, <1>2, FileStep

LEMMA StoreSignedStep ==
    ASSUME TypeOK, StoreSigned, [Next]_vars
    PROVE  StoreSigned'
    <1>1. CASE Start
        BY <1>1, LoadedFacts DEF Start, StoreSigned
    <1>2. CASE Forget
        BY <1>2 DEF Forget, NoPolicy, StoreSigned
    <1>3. CASE store' = store
        BY <1>3 DEF StoreSigned
    <1> QED
        BY <1>1, <1>2, <1>3
        DEF Next, Administration, Serve, Faults, ChangeDirectory, RefuseMessage, Stall,
            StallEnds, IssueContext,
            Claim, DenyUnaudited, Record, RecordRaises, Crash, CrashInRecord, Execute,
            ExecuteRaises, vars, memory

\* The approving step leaves the line the order will stand on.
LEMMA ApprovedAuthorisedStep ==
    ASSUME TypeOK, InService, StoreSigned, ApprovedAuthorised, [Next]_vars
    PROVE  ApprovedAuthorised'
    <1>1. CASE Record /\ Verdict.result = "PASS"
        <2>1. Judged /\ "line" \in Parts
            BY <1>1 DEF Record, Parts
        <2>2. /\ file' = Written(Verdict, "line")
              /\ prev' = Hash(prev, Verdict)
              /\ step' = "approved"
              /\ UNCHANGED <<cur, store, issued>>
            BY <1>1 DEF Record
        <2>3. PICK n \in Nat : /\ Len(file') = n /\ n >= 1
                               /\ file'[n].entry = Verdict
                               /\ file'[n].hash = Hash(prev, Verdict)
                               /\ file'[n].part = "line"
            BY <2>1, <2>2, WriteFacts
        <2>4. /\ Verdict.request_id = Rid /\ Verdict.predicate = Want /\ Registered \in Docs
              /\ Respects(Verdict.proof, Registered)
            BY <1>1, <2>1, VerdictFacts
        <2>5. Registered.signed
            <3>1. Presented.predicate \in Predicates
                BY <2>1, CallFacts DEF Judged, Envelope, Serving
            <3>2. Registered # NoDoc
                BY <2>4, AgentServerAssumption
            <3> QED
                BY <3>1, <3>2 DEF StoreSigned, Registered
        <2>6. RefOf(cur.request) = issued[Rid].action_ref
            BY <2>1 DEF InService, Judged, Serving
        <2>7. Rid' = Rid /\ Registered' = Registered
            BY <2>2 DEF Rid, Registered, Presented
        <2>8. NewOrder'.audit_entry = prev' /\ NewOrder'.order_ref = RefOf(cur.request)
            BY <2>2 DEF NewOrder
        <2>9. n \in 1..Len(file') /\ n \in PassLines'
            BY <1>1, <2>3 DEF PassLines, WholeLines
        <2>10. Authorises(n, Rid, NewOrder, Registered)'
            BY <2>2, <2>3, <2>4, <2>5, <2>6, <2>7, <2>8, <2>9 DEF Authorises
        <2>11. Registered' \in Docs
            BY <2>4, <2>7
        <2> QED
            BY <2>9, <2>10, <2>11 DEF ApprovedAuthorised
    <1>2. CASE step' # "approved"
        BY <1>2 DEF ApprovedAuthorised
    <1>3. CASE step = "approved" /\ UNCHANGED <<step, file, cur, store, prev, issued>>
        BY <1>3 DEF ApprovedAuthorised, Authorises, PassLines, Rid, Registered, Presented,
                    NewOrder
    <1> QED
        BY <1>1, <1>2, <1>3
        DEF Next, InService, Administration, Serve, Faults, Start, ChangeDirectory,
            RefuseMessage, Stall, StallEnds, IssueContext, Claim, DenyUnaudited, Record,
                RecordRaises, Crash, CrashInRecord,
            Forget, Execute, ExecuteRaises, Finish, Idle, vars, durable, memory, history

\* An order that was authorised stays so, and the one being executed is.
LEMMA ExecutedAuthorisedStep ==
    ASSUME TypeOK, ContextsIssued, InService, JudgedSpent, ApprovedAuthorised,
           ExecutedAuthorised, [Next]_vars
    PROVE  ExecutedAuthorised'
    <1>1. ASSUME NEW i \in 1..Len(file), NEW r, NEW o, NEW p, Authorises(i, r, o, p)
          PROVE  i \in 1..Len(file') /\ Authorises(i, r, o, p)'
        <2>1. i \in 1..Len(file') /\ file'[i] = file[i]
            BY FileGrows
        <2>2. r = file[i].entry.request_id /\ r \in RequestIds /\ Spent(r)
            BY <1>1, EntryId DEF Authorises, JudgedSpent, TypeOK
        <2>3. issued'[r] = issued[r]
            BY <2>2, SpentStays
        <2> QED
            BY <1>1, <2>1, <2>3 DEF Authorises, PassLines
    <1>2. ASSUME NEW k \in 1..Len(executed)
          PROVE  /\ told'[executed[k].request_id] = "ALLOW"
                 /\ \E i \in 1..Len(file') :
                       Authorises(i, executed[k].request_id, executed[k].order,
                                  executed[k].policy)'
        <2>1. PICK r, o, p : /\ r = executed[k].request_id
                             /\ o = executed[k].order
                             /\ p = executed[k].policy
            OBVIOUS
        <2>2. PICK i \in 1..Len(file) : Authorises(i, r, o, p)
            BY <2>1 DEF ExecutedAuthorised
        <2>3. told[r] = "ALLOW"
            BY <2>1 DEF ExecutedAuthorised
        <2>4. r \in RequestIds
            BY <2>2, EntryId DEF Authorises, TypeOK
        <2>5. told'[r] = "ALLOW"
            BY <2>3, <2>4, AnswerStep DEF InService
        <2>6. i \in 1..Len(file') /\ Authorises(i, r, o, p)'
            BY <1>1, <2>2
        <2>7. executed'[k] = executed[k]
            BY ExecutedGrows, ExecuteFacts
        <2> QED
            BY <2>1, <2>5, <2>6, <2>7 DEF Authorises, PassLines
    <1>3. CASE executed' = executed
        BY <1>2, <1>3 DEF ExecutedAuthorised
    <1>4. CASE Execute
        <2>1. /\ Len(executed') = Len(executed) + 1
              /\ Len(executed) \in Nat
              /\ executed'[Len(executed) + 1] =
                    [request_id |-> Rid, order |-> NewOrder, policy |-> Registered]
              /\ told'[Rid] = "ALLOW"
            BY <1>4, ExecuteFacts
        <2>2. PICK n, r, o, p : /\ n = Len(executed) + 1
                                /\ r = Rid /\ o = NewOrder /\ p = Registered
            OBVIOUS
        <2>3. PICK i \in 1..Len(file) : Authorises(i, r, o, p)
            BY <1>4, <2>2 DEF ApprovedAuthorised, Execute
        <2>4. i \in 1..Len(file') /\ Authorises(i, r, o, p)'
            BY <1>1, <2>3
        <2>5. executed'[n] = [request_id |-> r, order |-> o, policy |-> p]
            BY <2>1, <2>2
        <2>6. /\ told'[executed'[n].request_id] = "ALLOW"
              /\ \E j \in 1..Len(file') :
                    Authorises(j, executed[n].request_id, executed[n].order,
                               executed[n].policy)'
            BY <2>1, <2>2, <2>4, <2>5
        <2> SUFFICES ASSUME NEW k \in 1..Len(executed')
                     PROVE  /\ told'[executed'[k].request_id] = "ALLOW"
                            /\ \E j \in 1..Len(file') :
                                  Authorises(j, executed[k].request_id, executed[k].order,
                                             executed[k].policy)'
            BY DEF ExecutedAuthorised
        <2>7. CASE k = n
            BY <2>6, <2>7
        <2>8. CASE k \in 1..Len(executed)
            <3>1. executed'[k] = executed[k]
                BY <1>4, <2>8, ExecuteFacts
            <3> QED
                BY <1>2, <2>8, <3>1
        <2> QED
            BY <2>1, <2>2, <2>7, <2>8
    <1> QED
        BY <1>3, <1>4, ExecutedGrows

\* An order executed before is not of the call being served.
LEMMA OthersExecuted ==
    ASSUME TypeOK, InService, ExecutedAuthorised, Serving,
           NEW k \in 1..Len(executed)
    PROVE  executed[k].request_id # Rid
    BY DEF InService, ExecutedAuthorised

LEMMA ExecutedOnceStep ==
    ASSUME TypeOK, InService, ApprovedAuthorised, ExecutedAuthorised, ExecutedOnce,
           [Next]_vars
    PROVE  ExecutedOnce'
    <1>1. CASE executed' = executed
        BY <1>1 DEF ExecutedOnce
    <1>2. CASE Execute
        <2>1. /\ Len(executed') = Len(executed) + 1
              /\ Len(executed) \in Nat
              /\ \A k \in 1..Len(executed) : executed'[k] = executed[k]
              /\ executed'[Len(executed) + 1].request_id = Rid
            BY <1>2, ExecuteFacts
        <2>2. \A k \in 1..Len(executed) : executed[k].request_id # Rid
            BY <1>2, OthersExecuted DEF Execute, Serving
        <2> QED
            BY <2>1, <2>2 DEF ExecutedOnce
    <1> QED
        BY <1>1, <1>2, ExecutedGrows

LEMMA AnswersStep ==
    ASSUME TypeOK, InService, ApprovedAuthorised, ExecutedAuthorised, AnswersAreTrue,
           [Next]_vars
    PROVE  AnswersAreTrue'
    <1>1. CASE executed' = executed
        <2>1. CASE told' = told
            BY <1>1, <2>1 DEF AnswersAreTrue
        <2>2. ASSUME Serving, Rid \in RequestIds, told'[Rid] \in {"denied", "raised"},
                     \A o \in RequestIds \ {Rid} : told'[o] = told[o]
              PROVE  AnswersAreTrue'
            <3>1. \A k \in 1..Len(executed) : executed[k].request_id # Rid
                BY <2>2, OthersExecuted
            <3> QED
                BY <1>1, <2>2, <3>1 DEF AnswersAreTrue
        <2>3. ~Execute
            <3>1. CASE Execute
                BY <1>1, <3>1, ExecuteFacts
            <3> QED
                BY <3>1
        <2> QED
            BY <2>1, <2>2, <2>3, AnswerStep
    <1>2. CASE Execute
        <2>1. /\ Len(executed') = Len(executed) + 1
              /\ Len(executed) \in Nat
              /\ \A k \in 1..Len(executed) : executed'[k] = executed[k]
              /\ executed'[Len(executed) + 1].request_id = Rid
              /\ Rid \in RequestIds
              /\ told'[Rid] = "ALLOW"
              /\ \A o \in RequestIds \ {Rid} : told'[o] = told[o]
            BY <1>2, ExecuteFacts
        <2> SUFFICES ASSUME NEW r \in RequestIds
                     PROVE  LET hasOrder == \E k \in 1..Len(executed') :
                                                executed'[k].request_id = r IN
                            /\ told'[r] = "ALLOW" => hasOrder
                            /\ told'[r] \in {"denied", "raised"} => ~hasOrder
            BY DEF AnswersAreTrue
        <2>2. CASE r = Rid
            BY <2>1, <2>2
        <2>3. CASE r # Rid
            BY <2>1, <2>3 DEF AnswersAreTrue
        <2> QED
            BY <2>2, <2>3
    <1> QED
        BY <1>1, <1>2, ExecutedGrows

\* The completed task is stored after its order, and memory goes at once.
LEMMA TaskImpliesOrderStep ==
    ASSUME TypeOK, InService, ApprovedAuthorised, TaskImpliesOrder, [Next]_vars
    PROVE  TaskImpliesOrder'
    <1>1. CASE Execute
        <2>1. NewOrder.audit_entry = prev
            BY DEF NewOrder
        <2>2. /\ Len(orders') = Len(orders) + 1
              /\ Len(orders) \in Nat
              /\ \A k \in 1..Len(orders) : orders'[k] = orders[k]
              /\ orders'[Len(orders) + 1] = NewOrder
              /\ tasks' \subseteq tasks \cup {[state |-> "completed", audit_entry |-> prev]}
            BY <1>1, ExecuteFacts
        <2> SUFFICES ASSUME NEW t \in tasks', t.state = "completed"
                     PROVE  \E k \in 1..Len(orders') : orders'[k].audit_entry = t.audit_entry
            BY DEF TaskImpliesOrder
        <2>3. CASE t \in tasks
            <3>1. PICK k \in 1..Len(orders) : orders[k].audit_entry = t.audit_entry
                BY <2>3 DEF TaskImpliesOrder
            <3> QED
                BY <2>2, <3>1
        <2>4. CASE t = [state |-> "completed", audit_entry |-> prev]
            <3>1. Len(orders) + 1 \in 1..Len(orders')
                BY <2>2
            <3> QED
                BY <2>1, <2>2, <2>4, <3>1
        <2> QED
            BY <2>2, <2>3, <2>4
    <1>2. CASE Forget
        BY <1>2 DEF Forget, TaskImpliesOrder
    <1>3. CASE orders' = orders /\ tasks' \subseteq tasks \cup {Failed}
        BY <1>3 DEF TaskImpliesOrder, Failed
    <1>4. ASSUME Serving, NEW answer \in {"denied", "raised"}, Finish(answer, Failed)
          PROVE  tasks' \subseteq tasks \cup {Failed}
        BY <1>4, FinishFacts, FailedType
    <1>5. CASE DenyUnaudited \/ Record \/ RecordRaises \/ ExecuteRaises
        <2>1. orders' = orders /\ Serving
            BY <1>5 DEF DenyUnaudited, Record, RecordRaises, ExecuteRaises, Judged, Serving
        <2>2. Finish("denied", Failed) \/ Finish("raised", Failed) \/ tasks' = tasks
            BY <1>5 DEF DenyUnaudited, Record, RecordRaises, ExecuteRaises
        <2> QED
            BY <1>3, <1>4, <2>1, <2>2
    <1> QED
        BY <1>1, <1>2, <1>3, <1>5
        DEF Next, Administration, Serve, Faults, Start, ChangeDirectory, RefuseMessage, Stall,
            StallEnds,
            IssueContext, Claim, Crash, CrashInRecord, vars, memory

-----------------------------------------------------------------------------
(* The chain *)

\* An undamaged file that verifies still does with one more whole line.
LEMMA ChainExtends ==
    ASSUME TypeOK, InService, Judged, file' = Written(Verdict, "line"),
           \A i \in 1..Len(file) : file[i].part = "line",
           VerifyChain(file), prev = LastEntryHash(file)
    PROVE  VerifyChain(file') /\ LastEntryHash(file') = Hash(prev, Verdict)
    <1> DEFINE n == Len(file) + 1
    <1>1. "line" \in Parts
        BY DEF Parts
    <1>2. /\ Len(file') = n
          /\ Len(file) \in Nat
          /\ \A i \in 1..Len(file) : file'[i] = file[i]
          /\ file'[n].entry = Verdict
          /\ file'[n].prev = prev
          /\ file'[n].hash = Hash(prev, Verdict)
          /\ file'[n].part = "line"
        BY <1>1, WriteFacts
    <1>3. \A i \in 1..n : file'[i].part = "line"
        BY <1>2
    <1>4. \A i \in 1..n : Parses(file', i)
        BY <1>2, <1>3 DEF Parses, AloneOnLine, WholeLines
    <1>5. file'[n].prev = IF n = 1 THEN Genesis ELSE file'[n - 1].hash
        <2>1. CASE file = <<>>
            BY <1>2, <2>1 DEF LastEntryHash
        <2>2. CASE file # <<>>
            <3>1. Len(file) \in 1..Len(file)
                BY <2>2, EmptySeq DEF TypeOK
            <3>2. prev = file'[Len(file)].hash
                BY <1>2, <2>2, <3>1 DEF LastEntryHash
            <3> QED
                BY <1>2, <3>1, <3>2
        <2> QED
            BY <2>1, <2>2
    <1>6. file'[n].hash = Hash(file'[n].prev, file'[n].entry)
        BY <1>2
    <1>7. ASSUME NEW i \in 1..Len(file)
          PROVE  /\ file'[i].prev = IF i = 1 THEN Genesis ELSE file'[i - 1].hash
                 /\ file'[i].hash = Hash(file'[i].prev, file'[i].entry)
        <2>1. /\ file[i].prev = IF i = 1 THEN Genesis ELSE file[i - 1].hash
              /\ file[i].hash = Hash(file[i].prev, file[i].entry)
            BY DEF VerifyChain
        <2>2. i # 1 => i - 1 \in 1..Len(file)
            BY <1>2
        <2> QED
            BY <1>2, <2>1, <2>2
    <1>8. VerifyChain(file')
        BY <1>2, <1>4, <1>5, <1>6, <1>7 DEF VerifyChain
    <1>9. file' # <<>>
        BY <1>2
    <1> QED
        BY <1>2, <1>8, <1>9 DEF LastEntryHash

LEMMA ResumedAtTailStep ==
    ASSUME TypeOK, InService, ResumedAtTail, [Next]_vars
    PROVE  ResumedAtTail'
    <1> SUFFICES ASSUME \A i \in 1..Len(file') : file'[i].part = "line"
                 PROVE  VerifyChain(file') /\ (up' => prev' = LastEntryHash(file'))
        BY DEF ResumedAtTail
    <1>1. \A i \in 1..Len(file) : file[i].part = "line"
        BY FileGrows
    <1>2. VerifyChain(file) /\ (up => prev = LastEntryHash(file))
        BY <1>1 DEF ResumedAtTail
    <1>3. CASE Record
        <2>1. /\ Judged /\ up
              /\ file' = Written(Verdict, "line")
              /\ prev' = Hash(prev, Verdict)
            BY <1>3 DEF Record, InService, Judged
        <2> QED
            BY <1>1, <1>2, <2>1, ChainExtends
    <1>4. ASSUME Judged, NEW part \in WriteFaults, file' = Written(Verdict, part)
          PROVE  FALSE
        <2>1. part \in Parts /\ part # "line"
            BY WriteFaultsType
        <2>2. /\ Len(file') = Len(file) + 1 /\ Len(file) \in Nat
              /\ file'[Len(file) + 1].part = part
            BY <1>4, <2>1, WriteFacts
        <2> QED
            BY <2>1, <2>2
    <1>5. CASE RecordRaises
        BY <1>2, <1>4, <1>5 DEF RecordRaises
    <1>6. CASE CrashInRecord
        BY <1>4, <1>6 DEF CrashInRecord
    <1>7. CASE Crash
        BY <1>2, <1>7 DEF Crash, Forget, durable
    <1>8. CASE Start
        BY <1>2, <1>8 DEF Start, durable
    <1>9. CASE UNCHANGED <<file, prev, up>>
        BY <1>2, <1>9
    <1> QED
        BY <1>3, <1>5, <1>6, <1>7, <1>8, <1>9
        DEF Next, Administration, Serve, Faults, ChangeDirectory, RefuseMessage, Stall,
            StallEnds, IssueContext,
            Claim, DenyUnaudited, Execute, ExecuteRaises, vars, durable, memory

-----------------------------------------------------------------------------
(* Approvals without an order *)

LEMMA UnexecutedFinite ==
    ASSUME TypeOK
    PROVE  /\ IsFiniteSet(Unexecuted)
           /\ Cardinality(Unexecuted) \in Nat
           /\ Unexecuted \subseteq 1..Len(file)
    <1>1. Len(file) \in Nat
        BY DEF TypeOK
    <1>2. IsFiniteSet(1..Len(file))
        BY <1>1, FS_Interval
    <1>3. Unexecuted \subseteq 1..Len(file)
        BY DEF Unexecuted, PassLines
    <1> QED
        BY <1>2, <1>3, FS_Subset, FS_CardinalityType

\* An approval stops being served with its order on the ledger, with the KeyError
\* told to the caller, or in a crash.
LEMMA ServedApproval ==
    ASSUME TypeOK, InService, ApprovedAuthorised, [Next]_vars, step = "approved"
    PROVE  \/ \E k \in 1..Len(executed') : executed'[k].request_id = Rid
           \/ told'[Rid] = "raised"
           \/ step' = "approved" /\ Rid' = Rid
           \/ Crash
    <1>1. CASE Execute
        BY <1>1, ExecuteFacts
    <1>2. CASE ExecuteRaises
        <2>1. Rid \in RequestIds
            BY CallFacts DEF Serving
        <2> QED
            BY <1>2, <2>1 DEF ExecuteRaises, Finish, TypeOK
    <1>3. CASE UNCHANGED <<cur, step>>
        BY <1>3 DEF Rid
    <1> QED
        BY <1>1, <1>2, <1>3
        DEF Next, Administration, Serve, Faults, Start, ChangeDirectory, RefuseMessage, Stall,
            StallEnds, IssueContext, Claim, DenyUnaudited, Record, RecordRaises,
            CrashInRecord, Judged, Idle, vars, memory

\* A failure of the machine that is counted.
CountedFailure == Crash \/ RecordRaises

\* Nothing becomes an unexecuted approval but the one a crash interrupts, and the
\* one that a failing write left whole.
LEMMA UnexecutedStep ==
    ASSUME TypeOK, ContextsIssued, InService, JudgedSpent, AnsweredSpent,
           ApprovedAuthorised, AnswersAreTrue, [Next]_vars, NEW i \in Unexecuted'
    PROVE  \/ i \in Unexecuted
           \/ Crash /\ i \in 1..Len(file) /\ file[i].entry.request_id = Rid
           \/ RecordRaises /\ i = Len(file) + 1
    <1> DEFINE Open(r) == /\ told'[r] # "raised"
                          /\ \A k \in 1..Len(executed') : executed'[k].request_id # r
                          /\ step' = "approved" => r # Rid'
    <1>1. /\ i \in 1..Len(file') /\ file'[i].part \in WholeLines
          /\ file'[i].entry.result = "PASS"
          /\ Open(file'[i].entry.request_id)
        BY DEF Unexecuted, PassLines
    <1>2. CASE i \in 1..Len(file)
        <2>1. file'[i] = file[i]
            BY <1>2, FileGrows
        <2>2. PICK r \in RequestIds : r = file[i].entry.request_id
            BY <1>2, EntryId DEF TypeOK
        <2>3. told[r] # "raised"
            <3>1. CASE told' = told
                BY <1>1, <2>1, <2>2, <3>1
            <3>2. CASE Serving /\ \A o \in RequestIds \ {Rid} : told'[o] = told[o]
                BY <1>1, <2>1, <2>2, <3>2 DEF InService
            <3> QED
                BY <3>1, <3>2, AnswerStep
        <2>4. \A k \in 1..Len(executed) : executed[k].request_id # r
            <3>1. \A k \in 1..Len(executed) : k \in 1..Len(executed') /\ executed'[k] = executed[k]
                BY ExecutedGrows, ExecuteFacts
            <3> QED
                BY <1>1, <2>1, <2>2, <3>1
        <2>5. CASE step = "approved" /\ r = Rid
            BY <1>1, <1>2, <2>1, <2>2, <2>5, ServedApproval
        <2>6. CASE ~(step = "approved" /\ r = Rid)
            BY <1>1, <1>2, <2>1, <2>2, <2>3, <2>4, <2>6 DEF Unexecuted, PassLines
        <2> QED
            BY <2>5, <2>6
    <1>3. CASE i \notin 1..Len(file)
        <2>1. file' # file
            BY <1>1, <1>3
        <2>2. PICK part \in Parts : /\ Judged /\ file' = Written(Verdict, part)
                                    /\ part = "line" => Record
                                    /\ part = "whole" => RecordRaises
            BY <2>1, FileStep
        <2>3. i = Len(file) + 1 /\ file'[i].entry = Verdict /\ file'[i].part = part
            BY <1>1, <1>3, <2>2, WriteFacts
        <2>4. CASE part = "whole"
            BY <2>2, <2>3, <2>4
        <2>5. CASE part = "line"
            <3>1. Record /\ Verdict.result = "PASS" /\ Verdict.request_id = Rid
                BY <1>1, <2>2, <2>3, <2>5, VerdictFacts
            <3>2. step' = "approved" /\ Rid' = Rid
                BY <3>1 DEF Record, Rid
            <3> QED
                BY <1>1, <2>3, <3>1, <3>2
        <2> QED
            BY <1>1, <2>3, <2>4, <2>5, WholeFacts
    <1> QED
        BY <1>2, <1>3

\* The KeyError is told to those only whose context was issued for no order.
LEMMA RaisedStep ==
    ASSUME TypeOK, ContextsIssued, InService, AnsweredSpent, [Next]_vars,
           \A r \in RequestIds : told[r] = "raised" => issued[r].action_ref = Null,
           NEW r \in RequestIds, told'[r] = "raised"
    PROVE  issued'[r].action_ref = Null
    <1>1. CASE told[r] = "raised"
        BY <1>1, SpentStays DEF AnsweredSpent
    <1>2. CASE told[r] # "raised"
        <2>1. Serving /\ r = Rid /\ (told'[Rid] = "raised" => ExecuteRaises)
              /\ UNCHANGED issued
            BY <1>2, AnswerStep
        <2> QED
            BY <2>1 DEF ExecuteRaises, InService, RefOf
    <1> QED
        BY <1>1, <1>2

\* Of two counters at most one goes up, by one.
LEMMA CountsAdd ==
    ASSUME NEW a \in Nat, NEW b \in Nat, NEW c \in Nat, NEW d \in Nat,
           c = a \/ c = a + 1, d = b \/ d = b + 1
    PROVE  /\ a + b \in Nat /\ c + d \in Nat /\ a + b <= c + d
           /\ c = a + 1 /\ d = b => c + d = a + b + 1
           /\ c = a /\ d = b + 1 => c + d = a + b + 1
    OBVIOUS

LEMMA ApprovalsStep ==
    ASSUME TypeOK, TypeOK', ContextsIssued, InService, JudgedSpent, AnsweredSpent,
           OneVerdictPerContext, ApprovedAuthorised, AnswersAreTrue,
           ApprovalsLostOnlyInFailures, [Next]_vars
    PROVE  ApprovalsLostOnlyInFailures'
    <1> DEFINE lost == crashes + errors
    <1>1. lost \in Nat /\ lost' \in Nat /\ lost <= lost' /\ (CountedFailure => lost' = lost + 1)
        <2>1. /\ crashes' = crashes \/ crashes' = crashes + 1
              /\ errors' = errors \/ errors' = errors + 1
            BY DEF Next, Administration, Serve, Faults, Start, ChangeDirectory, RefuseMessage,
                   Stall, StallEnds, IssueContext, Claim, DenyUnaudited, Record, RecordRaises,
                   Crash, CrashInRecord, Execute, ExecuteRaises, vars, bounds
        <2>2. crashes \in Nat /\ crashes' \in Nat /\ errors \in Nat /\ errors' \in Nat
            BY AgentServerAssumption DEF TypeOK
        <2>3. CountedFailure => \/ crashes' = crashes + 1 /\ errors' = errors
                                \/ crashes' = crashes /\ errors' = errors + 1
            BY DEF CountedFailure, Crash, RecordRaises
        <2>4. PICK a \in Nat, b \in Nat, c \in Nat, d \in Nat :
                  a = crashes /\ b = errors /\ c = crashes' /\ d = errors'
            BY <2>2
        <2>5. /\ a + b \in Nat /\ c + d \in Nat /\ a + b <= c + d
              /\ c = a + 1 /\ d = b => c + d = a + b + 1
              /\ c = a /\ d = b + 1 => c + d = a + b + 1
            <3>1. (c = a \/ c = a + 1) /\ (d = b \/ d = b + 1)
                BY <2>1, <2>4
            <3> HIDE DEF lost
            <3> QED
                BY <3>1, CountsAdd
        <2>6. lost = a + b
            BY <2>4
        <2>7. lost' = c + d
            BY <2>4
        <2> HIDE DEF lost
        <2> QED
            BY <2>3, <2>4, <2>5, <2>6, <2>7
    <1> HIDE DEF lost
    <1>2. IsFiniteSet(Unexecuted) /\ Cardinality(Unexecuted) \in Nat
          /\ Cardinality(Unexecuted) <= lost
        BY UnexecutedFinite DEF ApprovalsLostOnlyInFailures, lost
    <1>3. Cardinality(Unexecuted') <= lost'
        <2>1. CASE Unexecuted' \subseteq Unexecuted
            <3>1. Cardinality(Unexecuted') <= Cardinality(Unexecuted)
                  /\ Cardinality(Unexecuted') \in Nat
                BY <1>2, <2>1, FS_Subset, FS_CardinalityType
            <3> QED
                BY <1>1, <1>2, <3>1
        <2>2. ASSUME NEW j \in Unexecuted' \ Unexecuted
              PROVE  Cardinality(Unexecuted') <= lost'
            <3>1. CountedFailure
                BY <2>2, UnexecutedStep DEF CountedFailure
            <3>2. Unexecuted' \subseteq Unexecuted \cup {j}
                <4>1. ASSUME NEW k \in Unexecuted' \ Unexecuted
                      PROVE  k = j
                    <5>1. CASE Crash
                        <6>1. ~RecordRaises
                            BY <5>1 DEF Crash, RecordRaises, Forget, Finish, TypeOK
                        <6> QED
                            BY <2>2, <4>1, <6>1, UnexecutedStep DEF OneVerdictPerContext
                    <5>2. CASE ~Crash
                        BY <2>2, <4>1, <5>2, UnexecutedStep
                    <5> QED
                        BY <5>1, <5>2
                <4> QED
                    BY <4>1
            <3>3. IsFiniteSet(Unexecuted \cup {j})
                  /\ Cardinality(Unexecuted \cup {j}) <= Cardinality(Unexecuted) + 1
                  /\ Cardinality(Unexecuted \cup {j}) \in Nat
                <4>1. IsFiniteSet(Unexecuted \cup {j})
                      /\ Cardinality(Unexecuted \cup {j}) = Cardinality(Unexecuted) + 1
                    BY <1>2, <2>2, FS_AddElement
                <4> QED
                    BY <1>2, <4>1
            <3>4. Cardinality(Unexecuted') <= Cardinality(Unexecuted \cup {j})
                  /\ Cardinality(Unexecuted') \in Nat
                BY <3>2, <3>3, FS_Subset, FS_CardinalityType
            <3> QED
                BY <1>1, <1>2, <3>1, <3>3, <3>4
        <2> QED
            BY <2>1, <2>2
    <1>4. \A r \in RequestIds : told'[r] = "raised" => issued'[r].action_ref = Null
        BY RaisedStep DEF ApprovalsLostOnlyInFailures
    <1> QED
        BY <1>3, <1>4 DEF ApprovalsLostOnlyInFailures, lost

-----------------------------------------------------------------------------
(* The theorems *)

LEMMA IInvInit == Init => IInv
    <1> SUFFICES ASSUME Init PROVE IInv
        OBVIOUS
    <1>1. TypeOK
        BY TypeInit
    <1>2. file = <<>> /\ executed = <<>> /\ Len(file) = 0 /\ Len(executed) = 0
        BY DEF Init
    <1>3. Unexecuted = {} /\ crashes = 0 /\ errors = 0
          /\ \A r \in RequestIds : told[r] # "raised"
        BY <1>2 DEF Init, Unexecuted, PassLines
    <1>4. ApprovalsLostOnlyInFailures
        BY <1>3, FS_EmptySet DEF ApprovalsLostOnlyInFailures
    <1>5. ResumedAtTail
        BY <1>2 DEF Init, ResumedAtTail, VerifyChain
    <1>6. StoreSigned
        BY DEF Init, NoPolicy, StoreSigned
    <1> QED
        BY <1>1, <1>2, <1>4, <1>5, <1>6
        DEF Init, IInv, ContextsIssued, InService, JudgedSpent, AnsweredSpent,
            OneVerdictPerContext, ProofsBound, ApprovedAuthorised, ExecutedAuthorised,
            ExecutedOnce, AnswersAreTrue, TaskImpliesOrder, Serving

LEMMA IInvStep == IInv /\ [Next]_vars => IInv'
    <1> SUFFICES ASSUME IInv, [Next]_vars PROVE IInv'
        OBVIOUS
    <1>1. TypeOK'
        BY TypeStep DEF IInv
    <1>2. ContextsIssued' /\ InService' /\ AnsweredSpent'
        BY ContextsIssuedStep, InServiceStep, AnsweredSpentStep DEF IInv
    <1>3. JudgedSpent' /\ OneVerdictPerContext' /\ ProofsBound'
        BY <1>1, JudgedSpentStep, OneVerdictStep, ProofsBoundStep DEF IInv
    <1>4. ApprovedAuthorised' /\ ExecutedAuthorised' /\ ExecutedOnce' /\ StoreSigned'
        BY ApprovedAuthorisedStep, ExecutedAuthorisedStep, ExecutedOnceStep, StoreSignedStep
        DEF IInv
    <1>5. AnswersAreTrue' /\ TaskImpliesOrder' /\ ResumedAtTail'
        BY AnswersStep, TaskImpliesOrderStep, ResumedAtTailStep DEF IInv
    <1>6. ApprovalsLostOnlyInFailures'
        BY <1>1, ApprovalsStep DEF IInv
    <1> QED
        BY <1>1, <1>2, <1>3, <1>4, <1>5, <1>6 DEF IInv

\* The inductive invariant holds of every behaviour of the reference server.
THEOREM Invariant == Spec => []IInv
    BY IInvInit, IInvStep, PTL DEF Spec

\* Types: no handler stores anything but what the declarations say.
THEOREM TypeCorrect == Spec => []TypeOK
    BY Invariant, PTL DEF IInv

\* A context is judged once (entry["used"]), through exceptions, failing
\* writes and restarts.
THEOREM SingleVerdict == Spec => []OneVerdictPerContext
    BY Invariant, PTL DEF IInv

\* Every order stands on the PASS line of the context issued for it.
THEOREM OrdersAreAuthorised == Spec => []OrdersAuthorised
    <1>1. IInv => OrdersAuthorised
        BY DEF IInv, ExecutedAuthorised, Authorises, OrdersAuthorised
    <1> QED
        BY <1>1, Invariant, PTL

\* Every executed order was proved against the cap governance signed, and unless
\* the proof is so wide that its sums can wrap around the group, its value is within
\* that cap.
THEOREM OrdersRespectCap == Spec => []OrdersWithinCap
    <1>1. IInv => OrdersWithinCap
        BY DEF IInv, ExecutedAuthorised, Authorises, OrdersWithinCap
    <1> QED
        BY <1>1, Invariant, PTL

\* An accepted proof is never accepted again.
THEOREM ProofsUsedOnce == Spec => []NoProofReplay
    <1>1. IInv => NoProofReplay
        BY DEF IInv, ProofsBound, OneVerdictPerContext, PassLines, NoProofReplay
    <1> QED
        BY <1>1, Invariant, PTL

\* ALLOW means the order was executed, a refusal or an error that it never is.
THEOREM TrueAnswers == Spec => []AnswersAreTrue
    BY Invariant, PTL DEF IInv

\* A completed task has its order on the ledger.
THEOREM TasksHaveOrders == Spec => []TaskImpliesOrder
    BY Invariant, PTL DEF IInv

\* Restarts and failing writes included, an undamaged file is one chain.
THEOREM ChainResumed == Spec => []ResumedAtTail
    BY Invariant, PTL DEF IInv

\* No more approvals are without their order than there were crashes and failing
\* writes, but those of calls that named no order_ref.
THEOREM ApprovalsKept == Spec => []ApprovalsLostOnlyInFailures
    BY Invariant, PTL DEF IInv

-----------------------------------------------------------------------------
(* AgentServer implements Authorization *)

LEMMA AuthorizationInit == Init => Authorization!Init
    BY DEF Init, Authorization!Init, Spent, PassLines, Granted, SpentIds, ApprovedIds,
           ExecutedGrants

\* Steps that issue, approve and execute nothing at most spend.
LEMMA OnlySpends ==
    ASSUME IInv, [Next]_vars, UNCHANGED <<issued, ApprovedIds, executed>>
    PROVE  [Authorization!Next]_(Authorization!vars)
    <1>1. UNCHANGED <<Granted, ApprovedIds, ExecutedGrants>>
        BY DEF Granted, ExecutedGrants
    <1>2. SpentIds \subseteq SpentIds'
        BY SpentStays DEF IInv, SpentIds
    <1>3. \A r \in SpentIds' : Granted[r] # NoContext
        <2>1. \A r \in SpentIds' : r \in RequestIds /\ issued[r] # NoContext
            BY DEF SpentIds, Spent
        <2>2. \A r \in RequestIds : issued[r] \in Context \cup {NoContext}
            BY DEF IInv, TypeOK
        <2>3. \A r \in SpentIds' : issued[r].action_ref \in ActionRefs \cup {Null}
            BY <2>1, <2>2 DEF Context
        <2> QED
            BY <2>1, <2>3, AgentServerAssumption DEF Granted
    <1>4. Authorization!Spend(SpentIds')
        BY <1>1, <1>2, <1>3 DEF Authorization!Spend
    <1>5. SpentIds' \in SUBSET RequestIds
        BY DEF SpentIds
    <1> QED
        BY <1>4, <1>5 DEF Authorization!Next

LEMMA IssueContextGrants ==
    ASSUME IInv, NEW ctx \in Context, IssueContext(ctx)
    PROVE  /\ Authorization!Grant(ctx.request_id, ctx.action_ref)
           /\ ctx.request_id \in RequestIds
           /\ ctx.action_ref \in ActionRefs \cup {Null}
    <1> DEFINE r == ctx.request_id
    <1>1. r \in RequestIds /\ ctx.action_ref \in ActionRefs \cup {Null}
        BY DEF Context
    <1>2. UNCHANGED <<file, executed>> /\ issued[r] = NoContext
        BY DEF IssueContext, durable
    <1>3. /\ \A s \in RequestIds \ {r} : issued'[s] = issued[s] /\ contexts'[s] = contexts[s]
          /\ issued'[r] = ctx /\ contexts'[r] = [ctx |-> ctx, used |-> FALSE]
        BY <1>1 DEF IssueContext, IInv, TypeOK
    <1>4. ctx # NoContext
        BY AgentServerAssumption
    <1>5. contexts'[r] # NoEntry /\ ~contexts'[r].used
        <2>1. [ctx |-> ctx, used |-> FALSE] \in CtxEntry
            BY DEF CtxEntry
        <2>2. ~contexts'[r].used
            BY <1>3
        <2> QED
            BY <1>3, <2>1, <2>2, AgentServerAssumption
    <1>6. SpentIds' = SpentIds
        BY <1>2, <1>3, <1>5 DEF SpentIds, Spent
    <1>7. Granted[r] = NoContext /\ Granted' = [Granted EXCEPT ![r] = ctx.action_ref]
        BY <1>1, <1>2, <1>3, <1>4 DEF Granted
    <1>8. UNCHANGED <<ApprovedIds, ExecutedGrants>>
        BY <1>2 DEF ApprovedIds, ExecutedGrants, PassLines
    <1> QED
        BY <1>1, <1>6, <1>7, <1>8 DEF Authorization!Grant

\* A write approves the context of its verdict, if that is a whole PASS line.
LEMMA WriteApproves ==
    ASSUME IInv, Judged, NEW part \in Parts, file' = Written(Verdict, part)
    PROVE  ApprovedIds' = IF part \in WholeLines /\ Verdict.result = "PASS"
                          THEN ApprovedIds \cup {Rid} ELSE ApprovedIds
    <1>1. /\ Len(file) \in Nat
          /\ Len(file') = Len(file) + 1
          /\ \A i \in 1..Len(file) : file'[i] = file[i]
          /\ file'[Len(file) + 1].entry = Verdict
          /\ file'[Len(file) + 1].part = part
          /\ Verdict.request_id = Rid
        BY WriteFacts, VerdictFacts DEF IInv
    <1>2. CASE part \in WholeLines /\ Verdict.result = "PASS"
        <2>1. PassLines' = PassLines \cup {Len(file) + 1}
            BY <1>1, <1>2 DEF PassLines
        <2> QED
            BY <1>1, <1>2, <2>1 DEF ApprovedIds, PassLines
    <1>3. CASE ~(part \in WholeLines /\ Verdict.result = "PASS")
        <2>1. PassLines' = PassLines
            BY <1>1, <1>3 DEF PassLines
        <2> QED
            BY <1>1, <1>3, <2>1 DEF ApprovedIds, PassLines
    <1> QED
        BY <1>2, <1>3

\* A written verdict approves or stutters, and a whole one does so although the
\* write raised.
LEMMA WriteStep ==
    ASSUME IInv, [Next]_vars, Judged, NEW part \in Parts, file' = Written(Verdict, part),
           UNCHANGED <<contexts, issued, executed>>
    PROVE  [Authorization!Next]_(Authorization!vars)
    <1>1. UNCHANGED <<contexts, issued, executed>>
        OBVIOUS
    <1>2. UNCHANGED <<Granted, SpentIds, ExecutedGrants>>
        BY <1>1 DEF Granted, SpentIds, Spent, ExecutedGrants
    <1>3. CASE part \in WholeLines /\ Verdict.result = "PASS"
        <2>1. ApprovedIds' = ApprovedIds \cup {Rid}
            BY <1>3, WriteApproves
        <2>2. Rid \in RequestIds /\ Spent(Rid) /\ \A i \in 1..Len(file) : file[i].entry.request_id # Rid
            BY CallFacts DEF IInv, InService, JudgedSpent, Judged, Serving
        <2>3. Rid \in SpentIds \ ApprovedIds
            BY <2>2 DEF SpentIds, ApprovedIds, PassLines
        <2>4. Authorization!Approve(Rid)
            BY <1>2, <2>1, <2>3 DEF Authorization!Approve
        <2> QED
            BY <2>2, <2>4 DEF Authorization!Next
    <1>4. CASE ~(part \in WholeLines /\ Verdict.result = "PASS")
        <2>1. ApprovedIds' = ApprovedIds
            BY <1>4, WriteApproves
        <2> QED
            BY <1>2, <2>1 DEF Authorization!vars
    <1> QED
        BY <1>3, <1>4

\* Appending to a function on 1..n is extending it by n + 1.
LEMMA AppendIs ==
    ASSUME NEW n \in Nat, NEW s, DOMAIN s = 1..n, s = [k \in 1..n |-> s[k]], NEW x
    PROVE  Append(s, x) = [k \in 1..(n + 1) |-> IF k = n + 1 THEN x ELSE s[k]]
    <1> DEFINE S == {s[k] : k \in 1..n} \cup {x}
    <1>1. s \in [1..n -> S]
        OBVIOUS
    <1>2. s \in Seq(S)
        BY <1>1, SeqDef
    <1>3. Len(s) = n
        BY <1>2, LenProperties
    <1> HIDE DEF S
    <1>4. x \in S
        BY DEF S
    <1> QED
        BY <1>2, <1>3, <1>4

LEMMA ExecuteExecutes ==
    ASSUME IInv, [Next]_vars, Execute
    PROVE  Authorization!Execute(Rid) /\ Rid \in RequestIds
    <1>1. /\ step = "approved"
          /\ Rid \in RequestIds
          /\ Len(executed) \in Nat
          /\ Len(executed') = Len(executed) + 1
          /\ \A k \in 1..Len(executed) : executed'[k] = executed[k]
          /\ executed'[Len(executed) + 1].request_id = Rid
          /\ executed'[Len(executed) + 1].order = NewOrder
        BY ExecuteFacts DEF IInv, Execute
    <1>2. UNCHANGED <<file, contexts, issued>>
        BY DEF Execute, durable
    <1>3. UNCHANGED <<Granted, SpentIds, ApprovedIds>>
        BY <1>2 DEF Granted, SpentIds, Spent, ApprovedIds, PassLines
    <1>4. PICK i \in PassLines : file[i].entry.request_id = Rid
        BY <1>1 DEF IInv, ApprovedAuthorised, Authorises
    <1>5. Rid \in ApprovedIds
        BY <1>4 DEF ApprovedIds
    <1>6. \A k \in 1..Len(executed) : executed[k].request_id # Rid
        BY <1>1, OthersExecuted DEF IInv, Serving
    <1>7. Granted[Rid] = NewOrder.order_ref
        BY <1>1 DEF IInv, InService, Spent, Granted, NewOrder, Serving
    <1>8. /\ Len(ExecutedGrants) = Len(executed)
          /\ \A k \in 1..Len(executed) : ExecutedGrants[k][1] # Rid
        BY <1>1, <1>6 DEF ExecutedGrants
    <1>9. ExecutedGrants' = Append(ExecutedGrants, <<Rid, Granted[Rid]>>)
        <2>1. ExecutedGrants' = [k \in 1..(Len(executed) + 1) |->
                  <<executed'[k].request_id, executed'[k].order.order_ref>>]
            BY <1>1 DEF ExecutedGrants
        <2>2. Append(ExecutedGrants, <<Rid, Granted[Rid]>>) =
                  [k \in 1..(Len(executed) + 1) |->
                      IF k = Len(executed) + 1 THEN <<Rid,
                          Granted[Rid]>> ELSE ExecutedGrants[k]]
            <3>1. /\ DOMAIN ExecutedGrants = 1..Len(executed)
                  /\ ExecutedGrants = [k \in 1..Len(executed) |-> ExecutedGrants[k]]
                BY DEF ExecutedGrants
            <3> QED
                BY <1>1, <3>1, AppendIs
        <2>3. ASSUME NEW k \in 1..(Len(executed) + 1)
              PROVE  <<executed'[k].request_id, executed'[k].order.order_ref>>
                     = IF k = Len(executed) + 1 THEN <<Rid, Granted[Rid]>> ELSE ExecutedGrants[k]
            BY <1>1, <1>7 DEF ExecutedGrants
        <2> QED
            BY <2>1, <2>2, <2>3
    <1> QED
        BY <1>1, <1>3, <1>5, <1>8, <1>9 DEF Authorization!Execute

LEMMA AuthorizationStep ==
    ASSUME IInv, [Next]_vars
    PROVE  [Authorization!Next]_(Authorization!vars)
    <1>1. ASSUME NEW ctx \in Context, IssueContext(ctx)
          PROVE  [Authorization!Next]_(Authorization!vars)
        BY <1>1, IssueContextGrants DEF Authorization!Next
    <1>2. CASE Record
        BY <1>2, WriteStep DEF Record, Parts
    <1>3. CASE Execute
        BY <1>3, ExecuteExecutes DEF Authorization!Next
    <1>4. CASE RecordRaises
        <2>1. CASE file' = file
            BY <1>4, <2>1, OnlySpends DEF RecordRaises, ApprovedIds, PassLines
        <2>2. ASSUME NEW part \in WriteFaults, file' = Written(Verdict, part)
              PROVE  [Authorization!Next]_(Authorization!vars)
            BY <1>4, <2>2, WriteFaultsType, WriteStep DEF RecordRaises
        <2> QED
            BY <1>4, <2>1, <2>2 DEF RecordRaises
    <1>6. CASE CrashInRecord
        <2>1. PICK part \in WriteFaults \ {"whole"} : Judged /\ file' = Written(Verdict, part)
            BY <1>6 DEF CrashInRecord
        <2>2. part \in Parts /\ part \notin WholeLines
            BY WriteFaultsType, WholeFacts
        <2>3. ApprovedIds' = ApprovedIds
            BY <2>1, <2>2, WriteApproves
        <2> QED
            BY <1>6, <2>3, OnlySpends DEF CrashInRecord, history
    <1>5. CASE UNCHANGED <<issued, file, executed>>
        BY <1>5, OnlySpends DEF ApprovedIds, PassLines
    <1> QED
        BY <1>1, <1>2, <1>3, <1>4, <1>5, <1>6
        DEF Next, Administration, Serve, Faults, Start, ChangeDirectory, RefuseMessage, Stall,
            StallEnds, Claim,
            DenyUnaudited, Crash, ExecuteRaises, vars, durable, history

\* The reference server implements the single-use authorisation service, as the
\* Go gateway does.
THEOREM ImplementsAuthorization == Spec => AuthorizationSpec
    BY AuthorizationInit, AuthorizationStep, Invariant, PTL
    DEF Spec, AuthorizationSpec, Authorization!Spec
=============================================================================
