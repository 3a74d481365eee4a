----------------------------- MODULE VenueHarness -----------------------------
(***************************************************************************)
(* python/verify_e2e.py against the server of AgentServer: the end-to-end  *)
(* harness is one client among others of a gateway that may already be     *)
(* running (ZKGW_GATEWAY_URL), issues its own contexts, plays an execution *)
(* agent or calls the prover service, and checks what it sees.             *)
(*                                                                         *)
(* An rpc that is refused is answered at once; one that claims a context   *)
(* is answered when the server has finished with it.  An rpc to a server   *)
(* that dies raises, which ends the harness (a restart takes longer than   *)
(* the pause between two rpcs).  So does one that is not answered in 30    *)
(* seconds, but its request stays in the socket of the server, which       *)
(* serves it when it comes to it.                                          *)
(***************************************************************************)
EXTENDS AgentServer

CONSTANTS
    HarnessId,    \* the request ids its contexts get, by scenario
    OtherIds,     \* the ids that other clients' contexts get
    OrderA, OrderB,   \* order references of the harness
    OtherRefs,    \* action_refs of other clients
    OtherNames,   \* bound: what they call themselves
    OtherEnvelopes,   \* bound: what they attach
    HarnessName,  \* its agents' names, and their engine's
    Strict,       \* the predicate of the ad hoc document of S5
    HonestValue,  \* 735_000_000, or the prover service's source value
    LargeValue    \* 1_250_000_000

Scenarios == {"S1", "S3", "S4", "S5", "A2A"}

ASSUME VenueHarnessAssumption ==
    /\ HarnessId \in [Scenarios -> RequestIds \ OtherIds]
    /\ \A s, t \in Scenarios : HarnessId[s] = HarnessId[t] => s = t
    /\ OtherIds \subseteq RequestIds
    /\ OtherRefs \subseteq ActionRefs \cup {Null}
    /\ OtherEnvelopes \subseteq Envelope
    /\ OtherNames \subseteq Names
    /\ {OrderA, OrderB} \subseteq ActionRefs \ OtherRefs
    /\ OrderA # OrderB
    /\ Strict \in Predicates \ {Want}
    /\ GovernedTools # {}
    /\ HonestValue \in Nat
    /\ HarnessName \in Names \ Telling

VARIABLES
    at,           \* the step the harness is at
    doc,          \* the predicate file it read
    wrong,        \* the checks that failed so far
    gone          \* has the rpc at this step timed out, and ended the harness?

hvars == <<at, doc, wrong, gone>>
allVars == <<vars, hvars>>

-----------------------------------------------------------------------------
(* Provers *)

\* POST /prove and ExecutionAgent.prove: the status of the answer, 422 or a
\* ValueError being a refusal.  Neither checks the document's signature.
HandleProve(d, value) ==
    IF d.ptype # "range_leq" THEN 400
    ELSE IF ~Provable(value, d.cap, d.nbits) THEN 422
    ELSE 200

\* The envelope of a 200.
MakeEnvelope(d, id, value) ==
    [predicate |-> d.key, engine |-> HarnessName,
     payload |-> [request_id |-> id, cap |-> d.cap, nbits |-> d.nbits,
                  value |-> value, intact |-> TRUE]]

\* One response scalar flipped on the way.
Tampered(envelope) == [envelope EXCEPT !.payload = [@ EXCEPT !.intact = FALSE]]

\* The proofs the harness makes are among those in circulation.
ASSUME HarnessProofsAssumption ==
    \A d \in Docs, s \in Scenarios :
        d.signed /\ HandleProve(d, HonestValue) = 200 =>
            \A intact \in BOOLEAN :
                [request_id |-> HarnessId[s], cap |-> d.cap, nbits |-> d.nbits,
                 value |-> HonestValue, intact |-> intact] \in Proofs

-----------------------------------------------------------------------------
(* The harness *)

\* When a timeout has ended the harness, its last request is served all the same,
\* and nobody looks at the answer.
Trans(from, to) ==
    /\ at = from
    /\ at' = IF gone THEN "aborted" ELSE to
    /\ gone' = FALSE

\* check(name, ok)
Check(name, ok) == wrong' = IF ok \/ gone THEN wrong ELSE wrong \cup {name}

Ctx(scenario, ref, predicate) ==
    [request_id |-> HarnessId[scenario], action_ref |-> ref, predicate |-> predicate,
     prover |-> HarnessName]

Submit(surface, attached, ctx, ref) ==
    [surface |-> surface, tool |-> CHOOSE t \in GovernedTools : TRUE,
     order_ref |-> ref, attached |-> attached, ctx |-> ctx]

\* What it expects of a call without an attachment, and of an attachment that
\* was made for another order.
DenyByDefault == -32031
WrongActionRef == -32036

\* rpc("zk/context", ...)
GetContext(from, to, ctx) ==
    /\ Trans(from, to)
    /\ IssueContext(ctx)
    /\ UNCHANGED <<doc, wrong>>

\* An rpc that the server refuses, or begins to serve.
Send(q, envelope) ==
    \/ Claim(q, envelope)
    \/ /\ Idle
       /\ Code(q) # 0
       /\ IF q.surface = "a2a" THEN RefuseMessage ELSE UNCHANGED vars

\* A governed call whose answer the next step looks at.
Present(from, to, q, envelope) ==
    /\ Trans(from, to)
    /\ Send(q, envelope)
    /\ UNCHANGED <<doc, wrong>>

\* A governed call that is to be refused with the given code.
PresentRefused(from, to, q, envelope, code, name) ==
    /\ Trans(from, to)
    /\ Send(q, envelope)
    /\ Check(name, Code(q) = code)
    /\ UNCHANGED doc

\* A check of its own prover, without the server.
Local(from, to, name, ok) ==
    /\ ~gone
    /\ Trans(from, to)
    /\ Check(name, ok)
    /\ UNCHANGED <<vars, doc>>

\* Reading the answer of the last call and what the server says of its state.
Inspect(from, to, name, ok) == Idle /\ Local(from, to, name, ok)

\* The server answers "initialize"; the predicate file is read.  The run is
\* about a server that has loaded this file, with a cap the agent can prove.
Boot ==
    /\ Trans("boot", "S1")
    /\ Idle
    /\ Loaded(dir)[Want] # NoDoc
    /\ doc' = Loaded(dir)[Want]
    /\ doc' = store[Want]
    /\ HandleProve(doc', HonestValue) = 200
    /\ ~Provable(LargeValue, doc'.cap, doc'.nbits)
    /\ UNCHANGED <<vars, wrong>>

CtxS1 == Ctx("S1", OrderA, Want)
S1 ==
    \/ GetContext("S1", "S1 call", CtxS1)
    \/ Present("S1 call", "S1 answer", Submit("mcp", "present", CtxS1, OrderA),
               MakeEnvelope(doc, CtxS1.request_id, HonestValue))
    \/ Inspect("S1 answer", "S2", "ALLOW decision",
               /\ told[CtxS1.request_id] = "ALLOW"
               /\ \E k \in 1..Len(orders) : orders[k].order_ref = OrderA)

S2 == PresentRefused("S2", "S3", Submit("mcp", "absent", CtxS1, OrderA),
                     MakeEnvelope(doc, CtxS1.request_id, HonestValue),
                     DenyByDefault, "denied by default")

CtxS3 == Ctx("S3", OrderB, Want)
S3 ==
    \/ GetContext("S3", "S3 call", CtxS3)
    \/ Present("S3 call", "S3 answer", Submit("mcp", "present", CtxS3, OrderB),
               Tampered(MakeEnvelope(doc, CtxS3.request_id, HonestValue)))
    \/ Inspect("S3 answer", "S4", "tampered proof denied",
               told[CtxS3.request_id] = "denied")

CtxS4 == Ctx("S4", OrderA, Want)
S4 ==
    \/ GetContext("S4", "S4 call", CtxS4)
    \/ PresentRefused("S4 call", "S5", Submit("mcp", "present", CtxS4, OrderB),
                      MakeEnvelope(doc, CtxS4.request_id, HonestValue),
                      WrongActionRef, "cross-order replay denied")

\* In-process: an agent with a larger value.  Networked: the same prover, a
\* stricter document.  Either way the prover is to refuse.
S5 ==
    \/ GetContext("S5", "S5 in process", Ctx("S5", OrderB, Want))
    \/ GetContext("S5", "S5 networked", Ctx("S5", OrderB, Strict))
    \/ Local("S5 in process", "A2A", "honest prover refuses",
             HandleProve(doc, LargeValue) = 422)
    \/ Local("S5 networked", "A2A", "honest prover refuses",
             HandleProve([doc EXCEPT !.key = Strict, !.cap = HonestValue - 1],
                         HonestValue) = 422)

CtxA2A == Ctx("A2A", OrderB, Want)
A2A ==
    \/ GetContext("A2A", "A2A call", CtxA2A)
    \/ Present("A2A call", "A2A answer", Submit("a2a", "present", CtxA2A, OrderB),
               MakeEnvelope(doc, CtxA2A.request_id, HonestValue))
    \/ Inspect("A2A answer", "A2A bare", "A2A ALLOW decision",
               told[CtxA2A.request_id] = "ALLOW")
    \/ PresentRefused("A2A bare", "A2A tasks", Submit("a2a", "absent", CtxA2A, OrderB),
                      MakeEnvelope(doc, CtxA2A.request_id, HonestValue),
                      DenyByDefault, "A2A denied by default")
    \/ Inspect("A2A tasks", "AUDIT", "A2A task and order",
               \E t \in tasks, k \in 1..Len(orders) :
                   /\ t.state = "completed"
                   /\ t.audit_entry = orders[k].audit_entry
                   /\ orders[k].order_ref = OrderB)

Recorded(id, result) ==
    \E i \in 1..Len(file) :
        file[i].entry.request_id = id /\ file[i].entry.result = result

\* The digits of the notional are somewhere in the entry.
Tells(entry) == {entry.prover, entry.engine} \cap Telling # {}

\* The audit file is read behind the server's back, whatever it is doing; the
\* check of the notional is about everybody's entries.
Audit ==
    /\ Trans("AUDIT", "done")
    /\ wrong' = wrong
         \cup (IF /\ VerifyChain(file)
                  /\ Recorded(CtxS1.request_id, "PASS")
                  /\ Recorded(CtxS3.request_id, "FAIL")
               THEN {} ELSE {"audit trail"})
         \cup (IF \E i \in 1..Len(file) : Tells(file[i].entry)
               THEN {"no notional in any audit entry"} ELSE {})
    /\ UNCHANGED <<vars, doc>>

\* The steps at which it waits for the server.
AtRpc == at \notin {"boot", "S5 in process", "S5 networked", "AUDIT", "done", "aborted"}

\* Slip: the seconds in the socket of the server do not count.
TimeOutOnceServed ==
    /\ AtRpc
    /\ Serving
    /\ ~gone
    /\ gone' = TRUE
    /\ UNCHANGED <<vars, at, doc, wrong>>

\* urlopen(timeout=30): the server is busy, with this rpc or before it gets to it.
TimeOut ==
    /\ AtRpc
    /\ step # "idle"
    /\ ~gone
    /\ gone' = TRUE
    /\ UNCHANGED <<vars, at, doc, wrong>>

Harness == Boot \/ S1 \/ S2 \/ S3 \/ S4 \/ S5 \/ A2A \/ Audit

-----------------------------------------------------------------------------
(* The server's other clients, its operators and its faults *)

OtherContexts == [request_id : OtherIds, action_ref : OtherRefs, predicate : {Want},
                  prover : OtherNames]
OtherRequests ==
    [surface : {"mcp", "a2a"}, tool : Tools, order_ref : OtherRefs \cup {Absent},
     attached : {"absent", "present"}, ctx : OtherContexts]

Others ==
    /\ \/ \E ctx \in OtherContexts : IssueContext(ctx)
       \/ \E q \in OtherRequests :
             Code(q) = 0 /\ \E envelope \in OtherEnvelopes : Claim(q, envelope)
       \/ RefuseMessage
       \/ Stall
       \/ StallEnds
       \/ Administration
    /\ UNCHANGED hvars

Server == Serve /\ UNCHANGED hvars

\* The harness meets the crash in its current or its next rpc, if it has one.
Failure ==
    /\ Faults
    /\ at' = IF at \in {"boot", "AUDIT", "done"} THEN at ELSE "aborted"
    /\ gone' = FALSE
    /\ UNCHANGED <<doc, wrong>>

HarnessInit == Init /\ at = "boot" /\ doc = NoDoc /\ wrong = {} /\ gone = FALSE

HarnessNext == Harness \/ TimeOut \/ Others \/ Server \/ Failure

\* The server goes on with the call it serves, and the harness goes on as long as
\* it gets answers.  Nobody else has to ask for anything or to send the rest of a
\* request; but a harness that finds the thread held again and again has waited 30
\* seconds at some point.
HarnessSpec ==
    /\ HarnessInit
    /\ [][HarnessNext]_allVars
    /\ WF_allVars(~gone /\ Harness)
    /\ WF_allVars(Server)
    /\ SF_allVars(step = "stalled" /\ TimeOut)

-----------------------------------------------------------------------------
(* Properties *)

\* Nothing went wrong with the machine under the server.
Sound == errors = 0 /\ \A i \in 1..Len(file) : file[i].part = "line"

\* Every check of the harness passes whatever other clients do between its calls,
\* unless the machine under the server failed; all but one, which looks for the
\* notional in everybody's audit entries: another client that calls itself or its
\* engine by those digits, and nobody else, makes it fail.
ChecksPass ==
    Sound =>
        /\ wrong \subseteq {"no notional in any audit entry"}
        /\ wrong # {} =>
              \E i \in 1..Len(file) :
                  /\ Tells(file[i].entry)
                  /\ \A s \in Scenarios : file[i].entry.request_id # HarnessId[s]

\* The harness comes to its end, if a client holds the single thread for ever by
\* its timeout.
HarnessEnds == (at # "boot") ~> (at \in {"done", "aborted"} \/ gone)

-----------------------------------------------------------------------------
(* The inductive invariant *)

Running == at \notin {"boot", "AUDIT", "done", "aborted"}

\* The registry files a document under its own predicate.
StoreKeyed == store[Want] # NoDoc => store[Want].key = Want

\* The policy in force is the document the harness read: nobody can change it
\* without a restart, which ends the harness.
PolicyKnown ==
    /\ up
    /\ doc = store[Want]
    /\ doc \in Docs /\ doc.signed /\ doc.key = Want
    /\ HandleProve(doc, HonestValue) = 200
    /\ ~Provable(LargeValue, doc.cap, doc.nbits)

\* The context is there for the harness to use.
Open(ctx) == contexts[ctx.request_id] = [ctx |-> ctx, used |-> FALSE]

ServingIt(q, envelope) == cur = [request |-> q, envelope |-> envelope]

\* A sound call of the harness is being served, or its order was made.
Honoured(q, envelope) ==
    \/ ServingIt(q, envelope)
    \/ /\ told[q.ctx.request_id] = "ALLOW"
       /\ \E k \in 1..Len(orders) :
             /\ orders[k].order_ref = q.order_ref
             /\ q.surface = "a2a" =>
                   \E t \in tasks : t.state = "completed"
                                   /\ t.audit_entry = orders[k].audit_entry

\* The tampered one is being judged, or it was refused with a FAIL entry.
Denied(q, envelope) ==
    \/ ServingIt(q, envelope) /\ step = "claimed"
    \/ told[q.ctx.request_id] = "denied" /\ Recorded(q.ctx.request_id, "FAIL")

CallS1 == Submit("mcp", "present", CtxS1, OrderA)
CallS3 == Submit("mcp", "present", CtxS3, OrderB)
CallA2A == Submit("a2a", "present", CtxA2A, OrderB)
EnvelopeFor(ctx) == MakeEnvelope(doc, ctx.request_id, HonestValue)

\* What the harness has seen so far is still so.
Progress ==
    /\ at = "S1 call" => Open(CtxS1)
    /\ at = "S1 answer" => Honoured(CallS1, EnvelopeFor(CtxS1))
    /\ at \notin {"boot", "S1", "S1 call", "S1 answer", "aborted"} =>
          Recorded(CtxS1.request_id, "PASS")
    /\ at = "S3 call" => Open(CtxS3)
    /\ at = "S3 answer" => Denied(CallS3, Tampered(EnvelopeFor(CtxS3)))
    /\ at \notin {"boot", "S1", "S1 call", "S1 answer", "S2", "S3", "S3 call",
                  "S3 answer", "aborted"} =>
          Recorded(CtxS3.request_id, "FAIL")
    /\ at = "S4 call" => Open(CtxS4)
    /\ at = "A2A call" => Open(CtxA2A)
    /\ at = "A2A answer" => Honoured(CallA2A, EnvelopeFor(CtxA2A))
    /\ at \in {"A2A bare", "A2A tasks"} => Honoured(CallA2A, EnvelopeFor(CtxA2A))
    /\ at \in {"A2A bare", "A2A tasks"} => told[CtxA2A.request_id] = "ALLOW"

\* What is said of the harness's contexts, from their issue to the audit file, is
\* what the harness says.
NamedByHarness ==
    \A s \in Scenarios :
        LET id == HarnessId[s] IN
        /\ issued[id] # NoContext => issued[id].prover = HarnessName
        /\ Serving /\ Rid = id => Presented.engine = HarnessName
        /\ \A i \in 1..Len(file) : file[i].entry.request_id = id =>
              file[i].entry.prover = HarnessName /\ file[i].entry.engine = HarnessName

HInv ==
    /\ StoreKeyed
    /\ NamedByHarness
    /\ ChecksPass
    /\ Sound => Progress /\ (Running => PolicyKnown)
=============================================================================
