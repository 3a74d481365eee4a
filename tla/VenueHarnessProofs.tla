-------------------------- MODULE VenueHarnessProofs --------------------------
(***************************************************************************)
(* VenueHarness for any server, any other clients and any failures: what   *)
(* the harness and the others do are steps of AgentServer, so everything   *)
(* AgentServerProofs shows holds while the harness runs; and on a machine  *)
(* that does not fail every check of the harness passes.                   *)
(***************************************************************************)
EXTENDS VenueHarness, AgentServerProofs

-----------------------------------------------------------------------------
(* What the harness sends *)

\* A document the harness can prove its value under.
Honest(d) == d \in Docs /\ d.signed /\ HandleProve(d, HonestValue) = 200

\* The document of a harness that has started is such a one.
DocHonest == at # "boot" => Honest(doc)

LEMMA HonestFacts ==
    ASSUME NEW d, Honest(d)
    PROVE  d \in Doc /\ d.ptype = "range_leq" /\ Provable(HonestValue, d.cap, d.nbits)
    BY AgentServerAssumption DEF Honest, HandleProve

LEMMA IntactFlipped ==
    ASSUME NEW p \in Proof
    PROVE  [p EXCEPT !.intact = FALSE] =
               [request_id |-> p.request_id, cap |-> p.cap, nbits |-> p.nbits,
                value |-> p.value, intact |-> FALSE]
    <1> DEFINE q == [p EXCEPT !.intact = FALSE]
               r == [request_id |-> p.request_id, cap |-> p.cap, nbits |-> p.nbits,
                     value |-> p.value, intact |-> FALSE]
    <1>1. /\ q \in Proof
          /\ q.request_id = p.request_id
          /\ q.cap = p.cap
          /\ q.nbits = p.nbits
          /\ q.value = p.value
          /\ q.intact = FALSE
        BY DEF Proof
    <1>2. /\ r \in Proof
          /\ r.request_id = p.request_id
          /\ r.cap = p.cap
          /\ r.nbits = p.nbits
          /\ r.value = p.value
          /\ r.intact = FALSE
        BY DEF Proof
    <1> HIDE DEF q, r
    <1>3. q = r
        BY <1>1, <1>2 DEF Proof
    <1> QED
        BY <1>3 DEF q, r

\* What the harness attaches: an intact proof, or the same proof tampered with.
Payload(d, s, intact) ==
    [request_id |-> HarnessId[s], cap |-> d.cap, nbits |-> d.nbits,
     value |-> HonestValue, intact |-> intact]

LEMMA PayloadFacts ==
    ASSUME NEW d, Honest(d), NEW s \in Scenarios, NEW intact \in BOOLEAN
    PROVE  Payload(d, s, intact) \in Proofs /\ Payload(d, s, intact) \in Proof
    <1>1. d \in Docs /\ d.signed /\ HandleProve(d, HonestValue) = 200
        BY DEF Honest
    <1>2. Payload(d, s, intact) \in Proofs
        BY <1>1, HarnessProofsAssumption DEF Payload
    <1> QED
        BY <1>2, AgentServerAssumption

LEMMA EnvelopeIs ==
    ASSUME NEW d, Honest(d), NEW s \in Scenarios
    PROVE  LET env == MakeEnvelope(d, HarnessId[s], HonestValue) IN
           /\ env = [predicate |-> d.key, engine |-> HarnessName, payload |-> Payload(d, s, TRUE)]
           /\ Tampered(env) =
                  [predicate |-> d.key, engine |-> HarnessName, payload |-> Payload(d, s, FALSE)]
    <1> DEFINE env == MakeEnvelope(d, HarnessId[s], HonestValue)
    <1>1. env = [predicate |-> d.key, engine |-> HarnessName, payload |-> Payload(d, s, TRUE)]
        BY DEF MakeEnvelope, Payload
    <1>2. [Payload(d, s, TRUE) EXCEPT !.intact = FALSE] = Payload(d, s, FALSE)
        <2>1. Payload(d, s, TRUE) \in Proof
            BY PayloadFacts
        <2> QED
            BY <2>1, IntactFlipped DEF Payload
    <1> HIDE DEF env
    <1>3. env.payload = Payload(d, s, TRUE)
        BY <1>1
    <1>4. Tampered(env) = [env EXCEPT !.payload = Payload(d, s, FALSE)]
        BY <1>2, <1>3 DEF Tampered
    <1>5. Tampered(env) = [predicate |-> d.key, engine |-> HarnessName, payload |-> Payload(d,
        s, FALSE)]
        BY <1>1, <1>4
    <1> QED
        BY <1>1, <1>5 DEF env

LEMMA EnvelopeFacts ==
    ASSUME NEW d, Honest(d), NEW s \in Scenarios
    PROVE  LET env == MakeEnvelope(d, HarnessId[s], HonestValue) IN
           /\ env \in Envelope
           /\ Tampered(env) \in Envelope
    <1>1. d.key \in Predicates
        BY AgentServerAssumption DEF Honest, Doc
    <1>2. Payload(d, s, TRUE) \in Proofs /\ Payload(d, s, FALSE) \in Proofs
        BY PayloadFacts
    <1>3. \A p \in Proofs : [predicate |-> d.key, engine |-> HarnessName, payload |-> p] \in Envelope
        BY <1>1, VenueHarnessAssumption DEF Envelope
    <1> QED
        BY <1>2, <1>3, EnvelopeIs

LEMMA CtxFacts ==
    ASSUME NEW s \in Scenarios, NEW ref \in {OrderA, OrderB}, NEW p \in Predicates
    PROVE  /\ Ctx(s, ref, p) \in Context
           /\ Ctx(s, ref, p).request_id = HarnessId[s]
           /\ Ctx(s, ref, p).action_ref = ref
           /\ Ctx(s, ref, p).prover = HarnessName
    BY VenueHarnessAssumption DEF Ctx, Context

LEMMA SubmitFacts ==
    ASSUME NEW surface \in {"mcp", "a2a"}, NEW attached \in {"absent", "present"},
           NEW ctx \in Context, NEW ref \in {OrderA, OrderB}
    PROVE  Submit(surface, attached, ctx, ref) \in Request
    BY VenueHarnessAssumption, AgentServerAssumption DEF Submit, Request

\* An rpc is a step of the server or none.
LEMMA SendIsStep ==
    ASSUME NEW q \in Request, NEW envelope \in Envelope, Send(q, envelope)
    PROVE  [Next]_vars
    <1>1. CASE Claim(q, envelope)
        BY <1>1 DEF Next, Claim
    <1>2. CASE RefuseMessage
        BY <1>2 DEF Next
    <1> QED
        BY <1>1, <1>2 DEF Send

LEMMA IssueIsStep ==
    ASSUME NEW ctx \in Context, IssueContext(ctx)
    PROVE  [Next]_vars
    BY DEF Next

-----------------------------------------------------------------------------
(* Every step is one of the server's *)

\* The document the harness reads is the server's, which governance signed.
LEMMA BootStep ==
    ASSUME IInv, Boot
    PROVE  [Next]_vars /\ Honest(doc')
    <1>1. doc' = store[Want] /\ store[Want] # NoDoc
        BY DEF Boot
    <1>2. store[Want] \in Docs /\ store[Want].signed
        BY <1>1, AgentServerAssumption DEF IInv, TypeOK, StoreSigned
    <1>3. HandleProve(doc', HonestValue) = 200
        BY DEF Boot
    <1> QED
        BY <1>1, <1>2, <1>3 DEF Boot, Honest

\* Apart from Boot and Audit the harness asks for a context, makes a governed
\* call, or reads an answer.
Started == at # "boot" /\ doc' = doc

Asks ==
    /\ Started
    /\ \E ctx \in Context : ctx.prover = HarnessName /\ IssueContext(ctx)

Calls ==
    /\ Started
    /\ DocHonest =>
          \E q \in Request, envelope \in Envelope :
             envelope.engine = HarnessName /\ Send(q, envelope)

Reads == Started /\ UNCHANGED vars

LEMMA AsksIntro ==
    ASSUME NEW from, NEW to, from # "boot",
           NEW s \in Scenarios, NEW ref \in {OrderA, OrderB}, NEW p \in Predicates,
           NEW ctx, ctx = Ctx(s, ref, p),
           GetContext(from, to, ctx)
    PROVE  Asks
    <1>1. ctx \in Context /\ ctx.prover = HarnessName
        BY CtxFacts
    <1>2. at = from /\ doc' = doc /\ IssueContext(ctx)
        BY DEF GetContext, Trans
    <1> QED
        BY <1>1, <1>2 DEF Asks, Started

LEMMA CallsIntro ==
    ASSUME NEW s \in Scenarios,
           NEW ref \in {OrderA, OrderB}, NEW order \in {OrderA, OrderB},
           NEW surface \in {"mcp", "a2a"}, NEW attached \in {"absent", "present"},
           NEW ctx, ctx = Ctx(s, ref, Want),
           NEW envelope,
           \/ envelope = MakeEnvelope(doc, ctx.request_id, HonestValue)
           \/ envelope = Tampered(MakeEnvelope(doc, ctx.request_id, HonestValue)),
           Started,
           Send(Submit(surface, attached, ctx, order), envelope)
    PROVE  Calls
    <1>1. ctx \in Context /\ ctx.request_id = HarnessId[s]
        BY CtxFacts, AgentServerAssumption
    <1>2. Submit(surface, attached, ctx, order) \in Request
        BY <1>1, SubmitFacts
    <1>3. DocHonest => envelope \in Envelope /\ envelope.engine = HarnessName
        <2> HAVE DocHonest
        <2>1. Honest(doc)
            BY DEF DocHonest, Started
        <2>2. envelope.engine = HarnessName
            BY DEF MakeEnvelope, Tampered
        <2> QED
            BY <1>1, <2>1, <2>2, EnvelopeFacts
    <1> QED
        BY <1>2, <1>3 DEF Calls

LEMMA PresentIntro ==
    ASSUME NEW from, NEW to, from # "boot", NEW q, NEW envelope,
           Present(from, to, q, envelope)
    PROVE  Started /\ Send(q, envelope)
    BY DEF Present, Trans, Started

LEMMA NamesKnown ==
    /\ Scenarios = {"S1", "S3", "S4", "S5", "A2A"}
    /\ Want \in Predicates /\ Strict \in Predicates
    BY AgentServerAssumption, VenueHarnessAssumption DEF Scenarios

LEMMA ShapeS1 == S1 => Asks \/ Calls \/ Reads
    <1> SUFFICES ASSUME S1 PROVE Asks \/ Calls \/ Reads
        OBVIOUS
    <1>1. CtxS1 = Ctx("S1", OrderA, Want) /\ "S1" \in Scenarios
        BY NamesKnown DEF CtxS1
    <1>2. CASE GetContext("S1", "S1 call", CtxS1)
        BY <1>1, <1>2, AsksIntro, NamesKnown
    <1>3. CASE Present("S1 call", "S1 answer", Submit("mcp", "present", CtxS1, OrderA),
                       MakeEnvelope(doc, CtxS1.request_id, HonestValue))
        <2>1. Started /\ Send(Submit("mcp", "present", CtxS1, OrderA),
                           MakeEnvelope(doc, CtxS1.request_id, HonestValue))
            BY <1>3, PresentIntro
        <2> QED
            BY <1>1, <2>1, CallsIntro
    <1>4. CASE at = "S1 answer" /\ UNCHANGED <<vars, doc>>
        BY <1>4 DEF Reads, Started
    <1> QED
        BY <1>2, <1>3, <1>4 DEF S1, Inspect, Local, Trans

LEMMA ShapeS2 == S2 => Calls
    <1> SUFFICES ASSUME S2 PROVE Calls
        OBVIOUS
    <1>1. CtxS1 = Ctx("S1", OrderA, Want) /\ "S1" \in Scenarios
        BY NamesKnown DEF CtxS1
    <1>2. Started /\ Send(Submit("mcp", "absent", CtxS1, OrderA),
                         MakeEnvelope(doc, CtxS1.request_id, HonestValue))
        BY DEF S2, PresentRefused, Check, Trans, Started
    <1> QED
        BY <1>1, <1>2, CallsIntro

LEMMA ShapeS3 == S3 => Asks \/ Calls \/ Reads
    <1> SUFFICES ASSUME S3 PROVE Asks \/ Calls \/ Reads
        OBVIOUS
    <1>1. CtxS3 = Ctx("S3", OrderB, Want) /\ "S3" \in Scenarios
        BY NamesKnown DEF CtxS3
    <1>2. CASE GetContext("S3", "S3 call", CtxS3)
        BY <1>1, <1>2, AsksIntro, NamesKnown
    <1>3. CASE Present("S3 call", "S3 answer", Submit("mcp", "present", CtxS3, OrderB),
                       Tampered(MakeEnvelope(doc, CtxS3.request_id, HonestValue)))
        <2>1. Started /\ Send(Submit("mcp", "present", CtxS3, OrderB),
                           Tampered(MakeEnvelope(doc, CtxS3.request_id, HonestValue)))
            BY <1>3, PresentIntro
        <2> QED
            BY <1>1, <2>1, CallsIntro
    <1>4. CASE at = "S3 answer" /\ UNCHANGED <<vars, doc>>
        BY <1>4 DEF Reads, Started
    <1> QED
        BY <1>2, <1>3, <1>4 DEF S3, Inspect, Local, Trans

LEMMA ShapeS4 == S4 => Asks \/ Calls \/ Reads
    <1> SUFFICES ASSUME S4 PROVE Asks \/ Calls \/ Reads
        OBVIOUS
    <1>1. CtxS4 = Ctx("S4", OrderA, Want) /\ "S4" \in Scenarios
        BY NamesKnown DEF CtxS4
    <1>2. CASE GetContext("S4", "S4 call", CtxS4)
        BY <1>1, <1>2, AsksIntro, NamesKnown
    <1>3. CASE PresentRefused("S4 call", "S5", Submit("mcp", "present", CtxS4, OrderB),
                              MakeEnvelope(doc, CtxS4.request_id, HonestValue),
                              WrongActionRef, "cross-order replay denied")
        <2>1. Started /\ Send(Submit("mcp", "present", CtxS4, OrderB),
                           MakeEnvelope(doc, CtxS4.request_id, HonestValue))
            BY <1>3 DEF PresentRefused, Check, Trans, Started
        <2> QED
            BY <1>1, <2>1, CallsIntro
    <1> QED
        BY <1>2, <1>3 DEF S4

LEMMA ShapeS5 == S5 => Asks \/ Reads
    <1> SUFFICES ASSUME S5 PROVE Asks \/ Reads
        OBVIOUS
    <1>1. "S5" \in Scenarios
        BY NamesKnown
    <1>2. CASE GetContext("S5", "S5 in process", Ctx("S5", OrderB, Want))
        BY <1>1, <1>2, AsksIntro, NamesKnown
    <1>3. CASE GetContext("S5", "S5 networked", Ctx("S5", OrderB, Strict))
        BY <1>1, <1>3, AsksIntro, NamesKnown
    <1>4. CASE at \in {"S5 in process", "S5 networked"} /\ UNCHANGED <<vars, doc>>
        BY <1>4 DEF Reads, Started
    <1> QED
        BY <1>2, <1>3, <1>4, Zenon DEF S5, Inspect, Local, Trans

LEMMA ShapeA2A == A2A => Asks \/ Calls \/ Reads
    <1> SUFFICES ASSUME A2A PROVE Asks \/ Calls \/ Reads
        OBVIOUS
    <1>1. CtxA2A = Ctx("A2A", OrderB, Want) /\ "A2A" \in Scenarios
        BY NamesKnown DEF CtxA2A
    <1>2. CASE GetContext("A2A", "A2A call", CtxA2A)
        BY <1>1, <1>2, AsksIntro, NamesKnown
    <1>3. CASE Present("A2A call", "A2A answer", Submit("a2a", "present", CtxA2A, OrderB),
                       MakeEnvelope(doc, CtxA2A.request_id, HonestValue))
        <2>1. Started /\ Send(Submit("a2a", "present", CtxA2A, OrderB),
                           MakeEnvelope(doc, CtxA2A.request_id, HonestValue))
            BY <1>3, PresentIntro
        <2> QED
            BY <1>1, <2>1, CallsIntro
    <1>4. CASE at \in {"A2A answer", "A2A tasks"} /\ UNCHANGED <<vars, doc>>
        BY <1>4 DEF Reads, Started
    <1>5. CASE PresentRefused("A2A bare", "A2A tasks", Submit("a2a", "absent", CtxA2A, OrderB),
                              MakeEnvelope(doc, CtxA2A.request_id, HonestValue),
                              DenyByDefault, "A2A denied by default")
        <2>1. Started /\ Send(Submit("a2a", "absent", CtxA2A, OrderB),
                           MakeEnvelope(doc, CtxA2A.request_id, HonestValue))
            BY <1>5 DEF PresentRefused, Check, Trans, Started
        <2> QED
            BY <1>1, <2>1, CallsIntro
    <1> QED
        BY <1>2, <1>3, <1>4, <1>5 DEF A2A, Inspect, Local, Trans

LEMMA HarnessStep ==
    ASSUME IInv, DocHonest, Harness
    PROVE  [Next]_vars /\ DocHonest'
    <1>1. Started => DocHonest'
        BY DEF Started, DocHonest
    <1>2. CASE Boot
        BY <1>2, BootStep DEF DocHonest
    <1>3. CASE Asks
        BY <1>1, <1>3, IssueIsStep DEF Asks
    <1>4. CASE Calls
        BY <1>1, <1>4, SendIsStep DEF Calls
    <1>5. CASE Reads
        BY <1>1, <1>5 DEF Reads
    <1>6. CASE Audit
        BY <1>6 DEF Audit, Trans, DocHonest
    <1> QED
        BY <1>2, <1>3, <1>4, <1>5, <1>6,
           ShapeS1, ShapeS2, ShapeS3, ShapeS4, ShapeS5, ShapeA2A DEF Harness

LEMMA OthersStep ==
    ASSUME Others
    PROVE  [Next]_vars /\ UNCHANGED hvars
    <1>1. OtherContexts \subseteq Context
        BY VenueHarnessAssumption, AgentServerAssumption DEF OtherContexts, Context
    <1>2. OtherRequests \subseteq Request
        BY <1>1, VenueHarnessAssumption DEF OtherRequests, Request
    <1>3. CASE \E ctx \in OtherContexts : IssueContext(ctx)
        BY <1>1, <1>3, IssueIsStep DEF Others
    <1>4. CASE \E q \in OtherRequests :
                  Code(q) = 0 /\ \E envelope \in OtherEnvelopes : Claim(q, envelope)
        BY <1>2, <1>4, VenueHarnessAssumption DEF Others, Next
    <1>5. CASE RefuseMessage \/ Stall \/ StallEnds \/ Administration
        BY <1>5 DEF Others, Next
    <1> QED
        BY <1>3, <1>4, <1>5 DEF Others

LEMMA HarnessNextStep ==
    ASSUME IInv, DocHonest, [HarnessNext]_allVars
    PROVE  [Next]_vars /\ DocHonest'
    <1>1. CASE Harness
        BY <1>1, HarnessStep
    <1>2. CASE Others
        BY <1>2, OthersStep DEF DocHonest, hvars
    <1>3. CASE Server
        BY <1>3 DEF Server, Next, DocHonest, hvars
    <1>4. CASE Failure
        BY <1>4 DEF Failure, Next, DocHonest
    <1>5. CASE TimeOut \/ UNCHANGED allVars
        BY <1>5 DEF TimeOut, allVars, hvars, DocHonest
    <1> QED
        BY <1>1, <1>2, <1>3, <1>4, <1>5 DEF HarnessNext

-----------------------------------------------------------------------------
(* What stays as the harness saw it *)

\* Only failing writes are counted as errors, and no write disappears: a
\* machine that is sound after a step was sound before.
LEMMA SoundBefore ==
    ASSUME IInv, [Next]_vars, Sound'
    PROVE  Sound /\ errors' = errors
    <1>1. errors \in Nat
        BY AgentServerAssumption DEF IInv, TypeOK
    <1>2. errors' = errors
        <2>1. CASE RecordRaises
            BY <1>1, <2>1 DEF RecordRaises, Sound
        <2> QED
            BY <2>1
            DEF Next, Administration, Serve, Faults, Start, ChangeDirectory, RefuseMessage,
                Stall,
                StallEnds, IssueContext, Claim, DenyUnaudited, Record, Crash, CrashInRecord,
                Execute, ExecuteRaises, vars, bounds
    <1>3. \A i \in 1..Len(file) : file[i].part = "line"
        BY FileGrows DEF IInv, Sound
    <1> QED
        BY <1>2, <1>3 DEF Sound

\* What is on file stays on file.
LEMMA RecordedStays ==
    ASSUME IInv, [Next]_vars, NEW id, NEW result, Recorded(id, result)
    PROVE  Recorded(id, result)'
    BY FileGrows DEF IInv, Recorded

\* An answer is given once.
LEMMA ToldStays ==
    ASSUME IInv, [Next]_vars, NEW r \in RequestIds, told[r] # "nothing"
    PROVE  told'[r] = told[r]
    BY AnswerStep DEF IInv, InService

\* An answered ALLOW has its PASS entry.
LEMMA AllowRecorded ==
    ASSUME IInv, NEW r \in RequestIds, told[r] = "ALLOW"
    PROVE  Recorded(r, "PASS")
    <1>1. PICK k \in 1..Len(executed) : executed[k].request_id = r
        BY DEF IInv, AnswersAreTrue
    <1>2. PICK i \in 1..Len(file) :
              Authorises(i, executed[k].request_id, executed[k].order, executed[k].policy)
        BY DEF IInv, ExecutedAuthorised
    <1> QED
        BY <1>1, <1>2 DEF Authorises, PassLines, Recorded

LEMMA ScenarioFacts ==
    ASSUME NEW s \in Scenarios
    PROVE  /\ HarnessId[s] \in RequestIds
           /\ HarnessId[s] \notin OtherIds
    BY VenueHarnessAssumption

-----------------------------------------------------------------------------
(* While the machine is sound *)

Quiet == Others \/ Server

\* Nothing but a restart changes the policy, the ledger or the tasks behind
\* the harness's back.
LEMMA QuietFacts ==
    ASSUME IInv, Quiet, up
    PROVE  /\ UNCHANGED <<up, store, at, doc, wrong>>
           /\ tasks \subseteq tasks'
           /\ \A k \in 1..Len(orders) : k \in 1..Len(orders') /\ orders'[k] = orders[k]
    <1>1. UNCHANGED <<at, doc, wrong>>
        BY DEF Quiet, Others, Server, hvars
    <1>2. CASE Execute
        <2>1. TypeOK /\ InService /\ ApprovedAuthorised
            BY DEF IInv
        <2>2. /\ Len(orders') = Len(orders) + 1
              /\ Len(orders) \in Nat
              /\ \A k \in 1..Len(orders) : orders'[k] = orders[k]
              /\ tasks \subseteq tasks'
            BY <1>2, <2>1, ExecuteFacts
        <2> QED
            BY <1>1, <1>2, <2>2 DEF Execute
    <1>3. CASE UNCHANGED <<up, store, orders>> /\ tasks \subseteq tasks'
        BY <1>1, <1>3
    <1> QED
        BY <1>2, <1>3
        DEF Quiet, Others, Server, Administration, Start, ChangeDirectory, IssueContext, Claim,
            RefuseMessage, Stall, StallEnds, Serve, DenyUnaudited, Record, RecordRaises,
            ExecuteRaises, Finish, memory

\* Nobody else claims the harness's contexts.
LEMMA OpenStays ==
    ASSUME IInv, Quiet, up, NEW ctx, NEW s \in Scenarios, ctx.request_id = HarnessId[s],
           Open(ctx)
    PROVE  Open(ctx)'
    <1> DEFINE r == ctx.request_id
    <1>1. r \in RequestIds /\ r \notin OtherIds
        BY ScenarioFacts
    <1>2. CASE contexts' = contexts
        BY <1>2 DEF Open
    <1>3. ASSUME NEW c \in OtherContexts, IssueContext(c)
          PROVE  contexts'[r] = contexts[r]
        <2>1. c.request_id # r
            BY <1>1 DEF OtherContexts
        <2> QED
            BY <1>1, <1>3, <2>1 DEF IssueContext, IInv, TypeOK
    <1>4. ASSUME NEW q \in OtherRequests, NEW envelope, Claim(q, envelope)
          PROVE  contexts'[r] = contexts[r]
        <2>1. q.ctx.request_id # r
            BY <1>1 DEF OtherContexts, OtherRequests
        <2> QED
            BY <1>1, <1>4, <2>1 DEF Claim, IInv, TypeOK
    <1>5. contexts' = contexts \/ contexts'[r] = contexts[r]
        BY <1>3, <1>4
        DEF Quiet, Others, Server, Administration, Start, ChangeDirectory, RefuseMessage, Stall,
            StallEnds, Serve, DenyUnaudited, Record, RecordRaises, Execute, ExecuteRaises,
                memory
    <1> QED
        BY <1>2, <1>5 DEF Open

\* A call of the harness that is being served.
LEMMA ServedFacts ==
    ASSUME IInv, PolicyKnown, NEW s \in Scenarios, NEW surface \in {"mcp", "a2a"},
           NEW ref \in {OrderA, OrderB}, NEW ctx, ctx = Ctx(s, ref, Want),
           NEW intact \in BOOLEAN, NEW envelope,
           envelope = [predicate |-> Want, engine |-> HarnessName, payload |-> Payload(doc, s,
               intact)],
           NEW q, q = Submit(surface, "present", ctx, ref), ServingIt(q, envelope)
    PROVE  /\ Serving
           /\ Rid = HarnessId[s]
           /\ RefOf(cur.request) = ref /\ cur.request.order_ref # Absent
           /\ cur.request.surface = surface
           /\ Presented.predicate = Want
           /\ ~Raises
           /\ Presented.payload = Payload(doc, s, intact)
           /\ Registered = doc
           /\ doc.ptype = "range_leq"
           /\ doc.cap < 2 ^ doc.nbits
    <1>1. Honest(doc) /\ doc = store[Want] /\ doc.key = Want
        BY DEF PolicyKnown, Honest
    <1>2. ctx \in Context /\ ctx.request_id = HarnessId[s]
        BY CtxFacts, NamesKnown
    <1>3. q \in Request /\ q.ctx = ctx /\ q.order_ref = ref /\ q.surface = surface
        BY <1>2, SubmitFacts DEF Submit
    <1>4. Payload(doc, s, intact) \in Proofs /\ Payload(doc, s, intact) \in Proof
        BY <1>1, PayloadFacts
    <1>5. cur.request = q /\ Presented = envelope
        BY DEF ServingIt, Presented
    <1>6. cur # NoCall
        <2>1. envelope \in Envelope
            BY <1>4, NamesKnown, VenueHarnessAssumption DEF Envelope
        <2>2. [request |-> q, envelope |-> envelope] \in Call
            BY <1>3, <2>1 DEF Call
        <2> QED
            BY <2>2, AgentServerAssumption DEF ServingIt
    <1>7. Serving
        BY <1>6 DEF IInv, InService
    <1>8. Registered = doc /\ doc \in Doc /\ doc.ptype = "range_leq" /\ doc # NoDoc
        BY <1>1, <1>5, HonestFacts, AgentServerAssumption DEF Registered
    <1>9. 0 <= doc.cap /\ doc.cap < 2 ^ doc.nbits
        BY <1>1, <1>8, HonestFacts, VenueHarnessAssumption DEF Provable, Doc
    <1>10. Presented.payload # Undecodable
        BY <1>4, <1>5, AgentServerAssumption
    <1>11. RefOf(q) = ref /\ ref # Absent
        BY <1>3, VenueHarnessAssumption, AgentServerAssumption DEF RefOf
    <1>12. ~Raises
        <2>1. Presented.engine # NoEngine
            BY <1>5, VenueHarnessAssumption, AgentServerAssumption
        <2> QED
            BY <1>5, <1>8, <1>9, <1>10, <2>1 DEF Raises, Doc
    <1> QED
        BY <1>2, <1>3, <1>5, <1>7, <1>8, <1>9, <1>11, <1>12 DEF Rid

\* The two envelopes the harness attaches.
LEMMA EnvelopesAre ==
    ASSUME PolicyKnown, NEW s \in Scenarios, NEW ref, NEW ctx, ctx = Ctx(s, ref, Want)
    PROVE  /\ EnvelopeFor(ctx) =
                 [predicate |-> Want, engine |-> HarnessName, payload |-> Payload(doc, s, TRUE)]
           /\ Tampered(EnvelopeFor(ctx)) =
                 [predicate |-> Want, engine |-> HarnessName, payload |-> Payload(doc, s, FALSE)]
    <1>1. ctx.request_id = HarnessId[s]
        BY DEF Ctx
    <1>2. Honest(doc) /\ doc.key = Want
        BY DEF PolicyKnown, Honest
    <1> QED
        BY <1>1, <1>2, EnvelopeIs DEF EnvelopeFor

\* A sound call of the harness stays served until its order is on the ledger
\* and its ALLOW is given.
LEMMA HonouredStays ==
    ASSUME IInv, PolicyKnown, Quiet, [Next]_vars, Sound',
           NEW s \in Scenarios, NEW surface \in {"mcp", "a2a"}, NEW ref \in {OrderA, OrderB},
           NEW ctx, ctx = Ctx(s, ref, Want),
           NEW q, q = Submit(surface, "present", ctx, ref),
           Honoured(q, EnvelopeFor(ctx))
    PROVE  Honoured(q, EnvelopeFor(ctx))'
    <1> DEFINE env == EnvelopeFor(ctx)
    <1>1. up /\ UNCHANGED <<up, store, at, doc, wrong>>
        BY QuietFacts DEF PolicyKnown
    <1>2. EnvelopeFor(ctx)' = env
        BY <1>1 DEF EnvelopeFor
    <1>3. q.ctx.request_id = HarnessId[s] /\ HarnessId[s] \in RequestIds
          /\ q.order_ref = ref /\ q.surface = surface
        BY ScenarioFacts DEF Submit, Ctx
    <1> HIDE DEF env
    <1>4. CASE ServingIt(q, env)
        <2>1. /\ Serving
              /\ Rid = HarnessId[s]
              /\ RefOf(cur.request) = ref /\ cur.request.order_ref # Absent
              /\ cur.request.surface = surface
              /\ Presented.predicate = Want
              /\ ~Raises
              /\ Presented.payload = Payload(doc, s, TRUE)
              /\ Registered = doc
              /\ doc.ptype = "range_leq"
              /\ doc.cap < 2 ^ doc.nbits
            <3>1. env = [predicate |-> Want, engine |-> HarnessName, payload |-> Payload(doc,
                s, TRUE)]
                BY EnvelopesAre DEF env
            <3> QED
                BY <1>4, <3>1, ServedFacts
        <2>2. Verdict.result = "PASS"
            <3>1. VerifyRangeLeq(Payload(doc, s, TRUE), doc.cap, HarnessId[s])
                BY <2>1 DEF VerifyRangeLeq, Payload
            <3> QED
                BY <2>1, <3>1 DEF Verdict
        <2>3. CASE cur' = cur
            BY <1>2, <1>4, <2>3 DEF Honoured, ServingIt
        <2>4. CASE Execute
            <3>1. TypeOK /\ InService /\ ApprovedAuthorised
                BY DEF IInv
            <3>2. /\ told'[Rid] = "ALLOW"
                  /\ Len(orders') = Len(orders) + 1
                  /\ Len(orders) \in Nat
                  /\ orders'[Len(orders) + 1] = NewOrder
                BY <2>4, <3>1, ExecuteFacts
            <3>3. NewOrder.order_ref = ref /\ NewOrder.audit_entry = prev
                BY <2>1 DEF NewOrder
            <3>4. surface = "a2a" => [state |-> "completed", audit_entry |-> prev] \in tasks'
                BY <2>1, <2>4 DEF Execute, Finish
            <3>5. Len(orders) + 1 \in 1..Len(orders')
                BY <3>2
            <3> QED
                BY <1>3, <2>1, <3>2, <3>3, <3>4, <3>5 DEF Honoured
        <2>5. ~DenyUnaudited /\ ~ExecuteRaises /\ ~RecordRaises
            <3>1. ~RecordRaises
                <4>1. errors' = errors /\ errors \in Nat
                    BY SoundBefore, AgentServerAssumption DEF IInv, TypeOK
                <4> QED
                    BY <4>1 DEF RecordRaises
            <3> QED
                BY <2>1, <3>1 DEF DenyUnaudited, ExecuteRaises
        <2>6. Record => cur' = cur
            BY <2>2 DEF Record
        <2> QED
            BY <2>1, <2>3, <2>4, <2>5, <2>6
            DEF Quiet, Others, Server, Administration, Start, ChangeDirectory, IssueContext,
                Claim, RefuseMessage, Stall, StallEnds, Idle, Serving, Serve, memory
    <1>5. CASE told[q.ctx.request_id] = "ALLOW"
               /\ \E k \in 1..Len(orders) :
                      /\ orders[k].order_ref = q.order_ref
                      /\ q.surface = "a2a" =>
                            \E t \in tasks : t.state = "completed"
                                            /\ t.audit_entry = orders[k].audit_entry
        <2>1. told'[q.ctx.request_id] = "ALLOW"
            BY <1>3, <1>5, ToldStays
        <2>2. /\ tasks \subseteq tasks'
              /\ \A k \in 1..Len(orders) : k \in 1..Len(orders') /\ orders'[k] = orders[k]
            BY <1>1, QuietFacts
        <2> QED
            BY <1>5, <2>1, <2>2 DEF Honoured
    <1> QED
        BY <1>4, <1>5 DEF Honoured, env

\* The tampered one stays claimed until it is refused with a FAIL entry.
LEMMA DeniedStays ==
    ASSUME IInv, PolicyKnown, Quiet, [Next]_vars, Sound',
           NEW s \in Scenarios, NEW surface \in {"mcp", "a2a"}, NEW ref \in {OrderA, OrderB},
           NEW ctx, ctx = Ctx(s, ref, Want),
           NEW q, q = Submit(surface, "present", ctx, ref),
           Denied(q, Tampered(EnvelopeFor(ctx)))
    PROVE  Denied(q, Tampered(EnvelopeFor(ctx)))'
    <1> DEFINE env == Tampered(EnvelopeFor(ctx))
    <1>1. up /\ UNCHANGED <<up, store, at, doc, wrong>>
        BY QuietFacts DEF PolicyKnown
    <1>2. Tampered(EnvelopeFor(ctx))' = env
        BY <1>1 DEF EnvelopeFor
    <1>3. q.ctx.request_id = HarnessId[s] /\ HarnessId[s] \in RequestIds
        BY ScenarioFacts DEF Submit, Ctx
    <1> HIDE DEF env
    <1>4. CASE ServingIt(q, env) /\ step = "claimed"
        <2>1. /\ Rid = HarnessId[s]
              /\ Presented.predicate = Want
              /\ ~Raises
              /\ Presented.payload = Payload(doc, s, FALSE)
            <3>1. env = [predicate |-> Want, engine |-> HarnessName, payload |-> Payload(doc,
                s, FALSE)]
                BY EnvelopesAre DEF env
            <3> QED
                BY <1>4, <3>1, ServedFacts
        <2>2. Verdict.result = "FAIL"
            BY <2>1 DEF Verdict, VerifyRangeLeq, Payload
        <2>3. CASE UNCHANGED <<cur, step>>
            BY <1>2, <1>4, <2>3 DEF Denied, ServingIt
        <2>4. CASE Record
            <3>1. TypeOK /\ InService /\ Judged /\ "line" \in Parts
                BY <2>4 DEF IInv, Record, Parts
            <3>2. /\ Len(file') = Len(file) + 1
                  /\ Len(file) \in Nat
                  /\ file'[Len(file) + 1].entry = Verdict
                BY <2>4, <3>1, WriteFacts DEF Record
            <3>3. Verdict.result = "FAIL" /\ Verdict.request_id = HarnessId[s]
                BY <2>1, <2>2, <3>1 DEF Verdict
            <3>4. Recorded(HarnessId[s], "FAIL")'
                BY <3>2, <3>3 DEF Recorded
            <3>5. Finish("denied", Failed)
                BY <2>4, <3>3 DEF Record
            <3>6. told'[HarnessId[s]] = "denied"
                BY <1>3, <2>1, <3>1, <3>5 DEF Finish, TypeOK
            <3> QED
                BY <1>3, <3>4, <3>6 DEF Denied
        <2>5. ~DenyUnaudited /\ ~RecordRaises /\ ~Execute /\ ~ExecuteRaises
            <3>1. ~RecordRaises
                <4>1. errors' = errors /\ errors \in Nat
                    BY SoundBefore, AgentServerAssumption DEF IInv, TypeOK
                <4> QED
                    BY <4>1 DEF RecordRaises
            <3> QED
                BY <1>4, <2>1, <3>1 DEF DenyUnaudited, Execute, ExecuteRaises
        <2> QED
            BY <1>4, <2>3, <2>4, <2>5
            DEF Quiet, Others, Server, Administration, Start, ChangeDirectory, IssueContext,
                Claim, RefuseMessage, Stall, StallEnds, Idle, Serving, Serve, memory
    <1>5. CASE told[q.ctx.request_id] = "denied" /\ Recorded(q.ctx.request_id, "FAIL")
        <2>1. told'[q.ctx.request_id] = "denied" /\ Recorded(q.ctx.request_id, "FAIL")'
            BY <1>3, <1>5, ToldStays, RecordedStays
        <2> QED
            BY <2>1 DEF Denied
    <1> QED
        BY <1>4, <1>5 DEF Denied, env

\* The registry files every document under its own predicate.
LEMMA StoreKeyedStep ==
    ASSUME IInv, StoreKeyed, [Next]_vars
    PROVE  StoreKeyed'
    <1>1. CASE Start
        <2>1. store'[Want] = Loaded(dir)[Want]
            BY <1>1 DEF Start
        <2>2. CASE \E i \in 1..Len(dir) : LastFor(dir, Want, i)
            <3> DEFINE i == CHOOSE i \in 1..Len(dir) : LastFor(dir, Want, i)
            <3>1. LastFor(dir, Want, i)
                BY <2>2
            <3>2. Loaded(dir)[Want] = dir[i]
                BY <2>2, NamesKnown DEF Loaded
            <3> QED
                BY <2>1, <3>1, <3>2 DEF LastFor, StoreKeyed
        <2>3. CASE ~ \E i \in 1..Len(dir) : LastFor(dir, Want, i)
            BY <2>1, <2>3, NamesKnown DEF Loaded, StoreKeyed
        <2> QED
            BY <2>2, <2>3
    <1>2. CASE Forget
        BY <1>2, NamesKnown DEF Forget, NoPolicy, StoreKeyed
    <1>3. CASE store' = store
        BY <1>3 DEF StoreKeyed
    <1> QED
        BY <1>1, <1>2, <1>3
        DEF Next, Administration, Serve, Faults, ChangeDirectory, RefuseMessage, IssueContext,
            Stall, StallEnds, Claim, DenyUnaudited, Record, RecordRaises, Crash, CrashInRecord,
            Execute, ExecuteRaises, vars, memory

\* A check that failed for another client's entry has it on file.
LEMMA ChecksStay ==
    ASSUME IInv, ChecksPass, [Next]_vars, wrong' = wrong
    PROVE  ChecksPass'
    <1> SUFFICES ASSUME Sound'
                 PROVE  (/\ wrong \subseteq {"no notional in any audit entry"}
                         /\ wrong # {} =>
                              \E i \in 1..Len(file) :
                                  /\ Tells(file[i].entry)
                                  /\ \A s \in Scenarios : file[i].entry.request_id # HarnessId[s])'
        BY DEF ChecksPass
    <1>1. Sound
        BY SoundBefore
    <1>2. \A i \in 1..Len(file) : i \in 1..Len(file') /\ file'[i] = file[i]
        BY FileGrows DEF IInv
    <1>3. \A i \in 1..Len(file) : Tells(file[i].entry) => Tells(file'[i].entry)
        BY <1>2
    <1> QED
        BY <1>1, <1>2, <1>3 DEF ChecksPass, Tells

\* The server and its other clients leave what the harness has seen as it is.
LEMMA QuietKeeps ==
    ASSUME IInv, HInv, NamedByHarness', Quiet, [Next]_vars
    PROVE  HInv'
    <1>1. /\ StoreKeyed'
          /\ wrong' = wrong => ChecksPass'
        BY StoreKeyedStep, ChecksStay DEF HInv
    <1>2. ASSUME Sound'
          PROVE  (Progress /\ (Running => PolicyKnown))'
        <2>1. Progress /\ (Running => PolicyKnown)
            BY <1>2, SoundBefore DEF HInv
        <2>2. UNCHANGED <<at, doc, wrong>>
            BY DEF Quiet, Others, Server, hvars
        <2>3. /\ Recorded(CtxS1.request_id, "PASS") => Recorded(CtxS1.request_id, "PASS")'
              /\ Recorded(CtxS3.request_id, "FAIL") => Recorded(CtxS3.request_id, "FAIL")'
            BY RecordedStays
        <2>4. CASE ~Running
            BY <2>1, <2>2, <2>3, <2>4 DEF Progress, Running
        <2>5. CASE Running
            <3>1. PolicyKnown /\ up
                BY <2>1, <2>5 DEF PolicyKnown
            <3>2. PolicyKnown'
                BY <2>2, <3>1, QuietFacts DEF PolicyKnown
            <3>3. /\ "S1" \in Scenarios /\ CtxS1 = Ctx("S1", OrderA, Want)
                  /\ "S3" \in Scenarios /\ CtxS3 = Ctx("S3", OrderB, Want)
                  /\ "S4" \in Scenarios /\ CtxS4 = Ctx("S4", OrderA, Want)
                  /\ "A2A" \in Scenarios /\ CtxA2A = Ctx("A2A", OrderB, Want)
                BY DEF Scenarios, CtxS1, CtxS3, CtxS4, CtxA2A
            <3>4. \A s \in Scenarios, ref \in {OrderA, OrderB} :
                      Open(Ctx(s, ref, Want)) => Open(Ctx(s, ref, Want))'
                BY <3>1, OpenStays, CtxFacts, NamesKnown
            <3>5. /\ Open(CtxS1) => Open(CtxS1)'
                  /\ Open(CtxS3) => Open(CtxS3)'
                  /\ Open(CtxS4) => Open(CtxS4)'
                  /\ Open(CtxA2A) => Open(CtxA2A)'
                BY <3>3, <3>4
            <3>6. Honoured(CallS1, EnvelopeFor(CtxS1)) => Honoured(CallS1, EnvelopeFor(CtxS1))'
                BY <1>2, <3>1, <3>3, HonouredStays DEF CallS1
            <3>7. Honoured(CallA2A, EnvelopeFor(CtxA2A)) => Honoured(CallA2A,
                EnvelopeFor(CtxA2A))'
                BY <1>2, <3>1, <3>3, HonouredStays DEF CallA2A
            <3>8. Denied(CallS3, Tampered(EnvelopeFor(CtxS3)))
                      => Denied(CallS3, Tampered(EnvelopeFor(CtxS3)))'
                BY <1>2, <3>1, <3>3, DeniedStays DEF CallS3
            <3>9. told[CtxA2A.request_id] = "ALLOW" => told'[CtxA2A.request_id] = "ALLOW"
                BY <3>3, ToldStays, CtxFacts, ScenarioFacts, NamesKnown
            <3> QED
                BY <2>1, <2>2, <2>3, <3>2, <3>5, <3>6, <3>7, <3>8, <3>9 DEF Progress
        <2> QED
            BY <2>4, <2>5
    <1>3. wrong' = wrong
        BY DEF Quiet, Others, Server, hvars
    <1> QED
        BY <1>1, <1>2, <1>3 DEF HInv

\* A crash ends the harness, unless it has done with the server.
LEMMA FailureKeeps ==
    ASSUME IInv, HInv, NamedByHarness', Failure, [Next]_vars
    PROVE  HInv'
    <1>1. StoreKeyed' /\ ChecksPass'
        BY StoreKeyedStep, ChecksStay DEF HInv, Failure
    <1>2. ASSUME Sound'
          PROVE  (Progress /\ (Running => PolicyKnown))'
        <2>1. Progress
            BY <1>2, SoundBefore DEF HInv
        <2>2. /\ Recorded(CtxS1.request_id, "PASS") => Recorded(CtxS1.request_id, "PASS")'
              /\ Recorded(CtxS3.request_id, "FAIL") => Recorded(CtxS3.request_id, "FAIL")'
            BY RecordedStays
        <2> QED
            BY <2>1, <2>2 DEF Failure, Progress, Running
    <1> QED
        BY <1>1, <1>2 DEF HInv

\* The codes the harness expects are the server's.
LEMMA BareCode ==
    ASSUME NEW q, q.tool \in GovernedTools, q.attached = "absent"
    PROVE  Code(q) = DenyByDefault /\ DenyByDefault # 0
    BY DEF Code, DenyByDefault

LEMMA OpenCode ==
    ASSUME NEW s \in Scenarios, NEW own \in {OrderA, OrderB}, NEW ref \in {OrderA, OrderB},
           NEW ctx, ctx = Ctx(s, own, Want), Open(ctx),
           NEW surface, NEW q, q = Submit(surface, "present", ctx, ref)
    PROVE  /\ ref = own => Code(q) = 0
           /\ ref # own => Code(q) = WrongActionRef /\ WrongActionRef # 0
    <1>1. ctx \in Context /\ ctx.action_ref = own
        BY CtxFacts, NamesKnown
    <1> DEFINE e == contexts[ctx.request_id]
    <1>2. e = [ctx |-> ctx, used |-> FALSE]
        BY DEF Open
    <1>3. e \in CtxEntry
        BY <1>1, <1>2 DEF CtxEntry
    <1>4. e # NoEntry /\ e.ctx = ctx /\ ~e.used
        <2> HIDE DEF e
        <2>1. e # NoEntry
            BY <1>3, AgentServerAssumption
        <2>2. e.ctx = ctx /\ ~e.used
            BY <1>2
        <2> QED
            BY <2>1, <2>2
    <1>5. q.tool \in GovernedTools /\ q.attached = "present" /\ q.ctx = ctx /\ RefOf(q) = ref
        BY VenueHarnessAssumption, AgentServerAssumption DEF Submit, RefOf
    <1> QED
        BY <1>1, <1>4, <1>5 DEF Code, WrongActionRef

LEMMA SubmitBare ==
    ASSUME NEW surface, NEW ctx, NEW ref
    PROVE  LET q == Submit(surface, "absent", ctx, ref) IN
           q.tool \in GovernedTools /\ q.attached = "absent"
    BY VenueHarnessAssumption DEF Submit

\* Asking, calling and reading leave everything but the contexts, the call in
\* progress and refused tasks as it is.
LEMMA HarnessFacts ==
    ASSUME DocHonest, Asks \/ Calls \/ Reads
    PROVE  /\ at # "boot"
           /\ UNCHANGED <<file, errors, up, store, doc, orders, told>>
           /\ tasks \subseteq tasks'
    <1>1. ASSUME NEW q, NEW envelope, Send(q, envelope)
          PROVE  /\ UNCHANGED <<file, errors, up, store, orders, told>>
                 /\ tasks \subseteq tasks'
        BY <1>1 DEF Send, Claim, RefuseMessage, vars, durable, memory, bounds, history
    <1>2. CASE Asks
        BY <1>2 DEF Asks, Started, IssueContext, durable, bounds
    <1>3. CASE Calls
        BY <1>1, <1>3 DEF Calls, Started
    <1>4. CASE Reads
        BY <1>4 DEF Reads, Started, vars, durable, memory, bounds, history
    <1> QED
        BY <1>2, <1>3, <1>4

\* So such a step keeps the invariant if its check passes and the harness
\* makes progress, or if it timed out long ago.
LEMMA HarnessKeeps ==
    ASSUME HInv, NamedByHarness', DocHonest, Asks \/ Calls \/ Reads, Running,
           gone => at' = "aborted" /\ wrong' = wrong,
           ~gone /\ Sound /\ PolicyKnown /\ Progress => wrong' = wrong /\ Progress'
    PROVE  HInv'
    <1>1. at # "boot" /\ UNCHANGED <<file, errors, up, store, doc>>
        BY HarnessFacts
    <1>2. StoreKeyed' /\ (Sound' => Sound) /\ (PolicyKnown => PolicyKnown')
        BY <1>1 DEF HInv, StoreKeyed, Sound, PolicyKnown
    <1>3. Sound => wrong' = wrong /\ Progress'
        <2>1. at' = "aborted" => Progress'
            BY DEF Progress
        <2> QED
            BY <2>1 DEF HInv
    <1>4. ChecksPass'
        BY <1>1, <1>2, <1>3 DEF HInv, ChecksPass, Tells
    <1> QED
        BY <1>2, <1>3, <1>4 DEF HInv

LEMMA GoneAborts ==
    ASSUME gone, S1 \/ S2 \/ S3 \/ S4 \/ S5 \/ A2A
    PROVE  at' = "aborted" /\ wrong' = wrong
    BY DEF S1, S2, S3, S4, S5, A2A, GetContext, Present, PresentRefused, Inspect, Local, Trans,
           Check

LEMMA RecordedKept ==
    ASSUME file' = file, NEW id, NEW result
    PROVE  Recorded(id, result)' <=> Recorded(id, result)
    BY DEF Recorded

LEMMA IssueOpens ==
    ASSUME TypeOK, NEW s \in Scenarios, NEW ref \in {OrderA, OrderB},
           NEW ctx, ctx = Ctx(s, ref, Want), IssueContext(ctx)
    PROVE  Open(ctx)'
    <1>1. ctx.request_id \in RequestIds
        BY CtxFacts, NamesKnown, ScenarioFacts
    <1> QED
        BY <1>1 DEF TypeOK, IssueContext, Open

LEMMA SendServes ==
    ASSUME NEW q, NEW envelope, Code(q) = 0, Send(q, envelope), envelope' = envelope, q' = q
    PROVE  ServingIt(q, envelope)' /\ step' = "claimed"
    BY DEF Send, Claim, ServingIt

\* A read that found nobody being served.
LEMMA NotServed ==
    ASSUME IInv, PolicyKnown, Idle, NEW s \in Scenarios, NEW surface \in {"mcp", "a2a"},
           NEW ref \in {OrderA, OrderB}, NEW ctx, ctx = Ctx(s, ref, Want),
           NEW intact \in BOOLEAN, NEW envelope,
           envelope = [predicate |-> Want, engine |-> HarnessName, payload |-> Payload(doc, s,
               intact)],
           NEW q, q = Submit(surface, "present", ctx, ref)
    PROVE  ~ServingIt(q, envelope)
    BY ServedFacts DEF Idle, Serving

-----------------------------------------------------------------------------
(* The steps of the harness *)

LEMMA BootKeeps ==
    ASSUME IInv, HInv, NamedByHarness', Boot
    PROVE  HInv'
    <1>1. /\ at' \in {"S1", "aborted"}
          /\ UNCHANGED <<vars, wrong>>
          /\ doc' = store[Want] /\ store[Want] # NoDoc
        BY DEF Boot, Trans
    <1>2. StoreKeyed' /\ (Sound' <=> Sound) /\ ChecksPass'
        BY <1>1 DEF HInv, StoreKeyed, Sound, ChecksPass, Tells, vars, memory, bounds, durable
    <1>3. Progress'
        BY <1>1 DEF Progress
    <1>4. PolicyKnown'
        <2>1. doc'.key = Want
            BY <1>1 DEF HInv, StoreKeyed
        <2>2. Honest(doc')
            BY BootStep
        <2>3. up' /\ store' = store
            BY <1>1 DEF Boot, Idle, vars, memory
        <2>4. ~Provable(LargeValue, doc'.cap, doc'.nbits)
            BY DEF Boot
        <2> QED
            BY <1>1, <2>1, <2>2, <2>3, <2>4 DEF Honest, PolicyKnown
    <1> QED
        BY <1>1, <1>2, <1>3, <1>4 DEF HInv

LEMMA S1Keeps ==
    ASSUME IInv, DocHonest, HInv, NamedByHarness', S1
    PROVE  HInv'
    <1>1. CtxS1 = Ctx("S1", OrderA, Want) /\ "S1" \in Scenarios
        BY NamesKnown DEF CtxS1
    <1>2. Asks \/ Calls \/ Reads
        BY ShapeS1
    <1>3. UNCHANGED <<file, doc>>
        BY <1>2, HarnessFacts
    <1>4. Running
        BY DEF S1, GetContext, Present, Inspect, Local, Trans, Running
    <1>5. ASSUME ~gone /\ Sound /\ PolicyKnown /\ Progress
          PROVE  wrong' = wrong /\ Progress'
        <2>1. CASE GetContext("S1", "S1 call", CtxS1)
            <3>1. at' = "S1 call" /\ wrong' = wrong /\ IssueContext(CtxS1)
                BY <1>5, <2>1 DEF GetContext, Trans
            <3>2. Open(CtxS1)'
                BY <1>1, <3>1, IssueOpens DEF IInv
            <3> QED
                BY <1>5, <3>1, <3>2 DEF Progress
        <2>2. CASE Present("S1 call", "S1 answer", Submit("mcp", "present", CtxS1, OrderA),
                           MakeEnvelope(doc, CtxS1.request_id, HonestValue))
            <3>1. /\ at = "S1 call" /\ at' = "S1 answer" /\ wrong' = wrong
                  /\ Send(CallS1, EnvelopeFor(CtxS1))
                BY <1>5, <2>2 DEF Present, Trans, CallS1, EnvelopeFor
            <3>2. Open(CtxS1)
                BY <1>5, <3>1 DEF Progress
            <3>3. Code(CallS1) = 0
                BY <1>1, <3>2, OpenCode DEF CallS1
            <3>4. ServingIt(CallS1, EnvelopeFor(CtxS1))'
                BY <1>3, <3>1, <3>3, SendServes DEF EnvelopeFor
            <3> QED
                BY <1>5, <3>1, <3>4 DEF Progress, Honoured
        <2>3. CASE Inspect("S1 answer", "S2", "ALLOW decision",
                           /\ told[CtxS1.request_id] = "ALLOW"
                           /\ \E k \in 1..Len(orders) : orders[k].order_ref = OrderA)
            <3>1. at = "S1 answer" /\ at' = "S2" /\ Idle
                BY <1>5, <2>3 DEF Inspect, Local, Trans
            <3>2. Honoured(CallS1, EnvelopeFor(CtxS1))
                BY <1>5, <3>1 DEF Progress
            <3>3. ~ServingIt(CallS1, EnvelopeFor(CtxS1))
                <4>1. EnvelopeFor(CtxS1) = [predicate |-> Want, engine |-> HarnessName,
                                            payload |-> Payload(doc, "S1", TRUE)]
                    BY <1>1, <1>5, EnvelopesAre
                <4> QED
                    BY <1>1, <1>5, <3>1, <4>1, NotServed DEF CallS1
            <3>4. CallS1.ctx = CtxS1 /\ CallS1.order_ref = OrderA
                BY DEF CallS1, Submit
            <3>5. /\ told[CtxS1.request_id] = "ALLOW"
                  /\ \E k \in 1..Len(orders) : orders[k].order_ref = OrderA
                BY <3>2, <3>3, <3>4 DEF Honoured
            <3>6. wrong' = wrong
                BY <1>5, <2>3, <3>5 DEF Inspect, Local, Check
            <3>7. Recorded(CtxS1.request_id, "PASS")'
                <4>1. Recorded(CtxS1.request_id, "PASS")
                    BY <1>1, <3>5, AllowRecorded, CtxFacts, ScenarioFacts, NamesKnown
                <4> QED
                    BY <1>3, <4>1, RecordedKept
            <3> QED
                BY <1>5, <3>1, <3>6, <3>7 DEF Progress
        <2> QED
            BY <2>1, <2>2, <2>3 DEF S1
    <1> QED
        BY <1>2, <1>4, <1>5, HarnessKeeps, GoneAborts

LEMMA S2Keeps ==
    ASSUME IInv, DocHonest, HInv, NamedByHarness', S2
    PROVE  HInv'
    <1>1. Calls
        BY ShapeS2
    <1>2. UNCHANGED <<file, doc>>
        BY <1>1, HarnessFacts
    <1>3. at = "S2" /\ (~gone => at' = "S3")
        BY DEF S2, PresentRefused, Trans
    <1>4. ASSUME ~gone /\ Sound /\ PolicyKnown /\ Progress
          PROVE  wrong' = wrong /\ Progress'
        <2>1. wrong' = wrong
            BY SubmitBare, BareCode DEF S2, PresentRefused, Check
        <2>2. Recorded(CtxS1.request_id, "PASS")
            BY <1>3, <1>4 DEF Progress
        <2>3. Recorded(CtxS1.request_id, "PASS")'
            BY <1>2, <2>2, RecordedKept
        <2> QED
            BY <1>3, <1>4, <2>1, <2>3 DEF Progress
    <1> QED
        BY <1>1, <1>3, <1>4, HarnessKeeps, GoneAborts DEF Running

LEMMA S3Keeps ==
    ASSUME IInv, DocHonest, HInv, NamedByHarness', S3
    PROVE  HInv'
    <1>1. CtxS3 = Ctx("S3", OrderB, Want) /\ "S3" \in Scenarios
        BY NamesKnown DEF CtxS3
    <1>2. Asks \/ Calls \/ Reads
        BY ShapeS3
    <1>3. UNCHANGED <<file, doc>>
        BY <1>2, HarnessFacts
    <1>4. at \in {"S3", "S3 call", "S3 answer"}
        BY DEF S3, GetContext, Present, Inspect, Local, Trans
    <1>5. ASSUME ~gone /\ Sound /\ PolicyKnown /\ Progress
          PROVE  wrong' = wrong /\ Progress'
        <2>1. Recorded(CtxS1.request_id, "PASS")'
            <3>1. Recorded(CtxS1.request_id, "PASS")
                BY <1>4, <1>5 DEF Progress
            <3> QED
                BY <1>3, <3>1, RecordedKept
        <2>2. CASE GetContext("S3", "S3 call", CtxS3)
            <3>1. at' = "S3 call" /\ wrong' = wrong /\ IssueContext(CtxS3)
                BY <1>5, <2>2 DEF GetContext, Trans
            <3>2. Open(CtxS3)'
                BY <1>1, <3>1, IssueOpens DEF IInv
            <3> QED
                BY <1>5, <2>1, <3>1, <3>2 DEF Progress
        <2>3. CASE Present("S3 call", "S3 answer", Submit("mcp", "present", CtxS3, OrderB),
                           Tampered(MakeEnvelope(doc, CtxS3.request_id, HonestValue)))
            <3>1. /\ at = "S3 call" /\ at' = "S3 answer" /\ wrong' = wrong
                  /\ Send(CallS3, Tampered(EnvelopeFor(CtxS3)))
                BY <1>5, <2>3 DEF Present, Trans, CallS3, EnvelopeFor
            <3>2. Open(CtxS3)
                BY <1>5, <3>1 DEF Progress
            <3>3. Code(CallS3) = 0
                BY <1>1, <3>2, OpenCode DEF CallS3
            <3>4. ServingIt(CallS3, Tampered(EnvelopeFor(CtxS3)))' /\ step' = "claimed"
                BY <1>3, <3>1, <3>3, SendServes DEF EnvelopeFor
            <3> QED
                BY <1>5, <2>1, <3>1, <3>4 DEF Progress, Denied
        <2>4. CASE Inspect("S3 answer", "S4", "tampered proof denied",
                           told[CtxS3.request_id] = "denied")
            <3>1. at = "S3 answer" /\ at' = "S4" /\ Idle
                BY <1>5, <2>4 DEF Inspect, Local, Trans
            <3>2. Denied(CallS3, Tampered(EnvelopeFor(CtxS3)))
                BY <1>5, <3>1 DEF Progress
            <3>3. CallS3.ctx = CtxS3
                BY DEF CallS3, Submit
            <3>4. told[CtxS3.request_id] = "denied" /\ Recorded(CtxS3.request_id, "FAIL")
                BY <3>1, <3>2, <3>3 DEF Denied, Idle
            <3>5. wrong' = wrong
                BY <1>5, <2>4, <3>4 DEF Inspect, Local, Check
            <3>6. Recorded(CtxS3.request_id, "FAIL")'
                BY <1>3, <3>4, RecordedKept
            <3> QED
                BY <1>5, <2>1, <3>1, <3>5, <3>6 DEF Progress
        <2> QED
            BY <2>2, <2>3, <2>4 DEF S3
    <1> QED
        BY <1>2, <1>4, <1>5, HarnessKeeps, GoneAborts DEF Running

\* After the tampered proof, both entries the audit check looks for are there.
BothRecorded == Recorded(CtxS1.request_id, "PASS") /\ Recorded(CtxS3.request_id, "FAIL")

LEMMA BothKept ==
    ASSUME Progress, at \notin {"boot", "S1", "S1 call", "S1 answer", "S2", "S3", "S3 call",
                                "S3 answer", "aborted"},
           file' = file
    PROVE  BothRecorded'
    <1>1. BothRecorded
        BY DEF Progress, BothRecorded
    <1> QED
        BY <1>1, RecordedKept DEF BothRecorded

LEMMA S4Keeps ==
    ASSUME IInv, DocHonest, HInv, NamedByHarness', S4
    PROVE  HInv'
    <1>1. CtxS4 = Ctx("S4", OrderA, Want) /\ "S4" \in Scenarios
        BY NamesKnown DEF CtxS4
    <1>2. Asks \/ Calls \/ Reads
        BY ShapeS4
    <1>3. UNCHANGED <<file, doc>>
        BY <1>2, HarnessFacts
    <1>4. at \in {"S4", "S4 call"}
        BY DEF S4, GetContext, PresentRefused, Trans
    <1>5. ASSUME ~gone /\ Sound /\ PolicyKnown /\ Progress
          PROVE  wrong' = wrong /\ Progress'
        <2>1. BothRecorded'
            BY <1>3, <1>4, <1>5, BothKept
        <2>2. CASE GetContext("S4", "S4 call", CtxS4)
            <3>1. at' = "S4 call" /\ wrong' = wrong /\ IssueContext(CtxS4)
                BY <1>5, <2>2 DEF GetContext, Trans
            <3>2. Open(CtxS4)'
                BY <1>1, <3>1, IssueOpens DEF IInv
            <3> QED
                BY <1>5, <2>1, <3>1, <3>2 DEF Progress, BothRecorded
        <2>3. CASE PresentRefused("S4 call", "S5", Submit("mcp", "present", CtxS4, OrderB),
                                  MakeEnvelope(doc, CtxS4.request_id, HonestValue),
                                  WrongActionRef, "cross-order replay denied")
            <3> DEFINE q == Submit("mcp", "present", CtxS4, OrderB)
            <3>1. at = "S4 call" /\ at' = "S5"
                BY <1>5, <2>3 DEF PresentRefused, Trans
            <3>2. Open(CtxS4)
                BY <1>5, <3>1 DEF Progress
            <3>3. Code(q) = WrongActionRef
                BY <1>1, <3>2, OpenCode, VenueHarnessAssumption
            <3>4. wrong' = wrong
                BY <1>5, <2>3, <3>3 DEF PresentRefused, Check
            <3> QED
                BY <1>5, <2>1, <3>1, <3>4 DEF Progress, BothRecorded
        <2> QED
            BY <2>2, <2>3 DEF S4
    <1> QED
        BY <1>2, <1>4, <1>5, HarnessKeeps, GoneAborts DEF Running

\* Neither a larger value nor a stricter document can be proved.
LEMMA ProverRefuses ==
    ASSUME PolicyKnown
    PROVE  /\ HandleProve(doc, LargeValue) = 422
           /\ HandleProve([doc EXCEPT !.key = Strict, !.cap = HonestValue - 1], HonestValue) = 422
    <1>1. doc \in Doc /\ doc.ptype = "range_leq"
        BY HonestFacts DEF PolicyKnown, Honest
    <1>2. HandleProve(doc, LargeValue) = 422
        BY <1>1 DEF PolicyKnown, HandleProve
    <1> DEFINE strict == [doc EXCEPT !.key = Strict, !.cap = HonestValue - 1]
    <1>3. strict.ptype = "range_leq" /\ strict.cap = HonestValue - 1
        BY <1>1 DEF Doc
    <1>4. ~Provable(HonestValue, strict.cap, strict.nbits)
        BY <1>3, VenueHarnessAssumption DEF Provable
    <1> HIDE DEF strict
    <1>5. HandleProve(strict, HonestValue) = 422
        BY <1>3, <1>4 DEF HandleProve
    <1> QED
        BY <1>2, <1>5 DEF strict

LEMMA S5Keeps ==
    ASSUME IInv, DocHonest, HInv, NamedByHarness', S5
    PROVE  HInv'
    <1>1. Asks \/ Reads
        BY ShapeS5
    <1>2. UNCHANGED <<file, doc>>
        BY <1>1, HarnessFacts
    <1>3. /\ at \in {"S5", "S5 in process", "S5 networked"}
          /\ ~gone => at' \in {"S5 in process", "S5 networked", "A2A"}
        BY DEF S5, GetContext, Inspect, Local, Trans
    <1>4. ASSUME ~gone /\ Sound /\ PolicyKnown /\ Progress
          PROVE  wrong' = wrong /\ Progress'
        <2>1. BothRecorded'
            BY <1>2, <1>3, <1>4, BothKept
        <2>2. wrong' = wrong
            BY <1>4, ProverRefuses DEF S5, GetContext, Local, Check
        <2> QED
            BY <1>3, <1>4, <2>1, <2>2 DEF Progress, BothRecorded
    <1> QED
        BY <1>1, <1>3, <1>4, HarnessKeeps, GoneAborts DEF Running

LEMMA A2AKeeps ==
    ASSUME IInv, DocHonest, HInv, NamedByHarness', A2A
    PROVE  HInv'
    <1>1. CtxA2A = Ctx("A2A", OrderB, Want) /\ "A2A" \in Scenarios
        BY NamesKnown DEF CtxA2A
    <1>2. Asks \/ Calls \/ Reads
        BY ShapeA2A
    <1>3. UNCHANGED <<file, doc, told, orders>> /\ tasks \subseteq tasks'
        BY <1>2, HarnessFacts
    <1>4. at \in {"A2A", "A2A call", "A2A answer", "A2A bare", "A2A tasks"}
        BY DEF A2A, GetContext, Present, PresentRefused, Inspect, Local, Trans
    <1>5. CallA2A.ctx = CtxA2A /\ CallA2A.order_ref = OrderB /\ CallA2A.surface = "a2a"
        BY DEF CallA2A, Submit
    <1>6. ASSUME ~gone /\ Sound /\ PolicyKnown /\ Progress
          PROVE  wrong' = wrong /\ Progress'
        <2>1. BothRecorded'
            BY <1>3, <1>4, <1>6, BothKept
        <2>2. ASSUME Idle, Honoured(CallA2A, EnvelopeFor(CtxA2A))
              PROVE  /\ told[CtxA2A.request_id] = "ALLOW"
                     /\ \E k \in 1..Len(orders) :
                           /\ orders[k].order_ref = OrderB
                           /\ \E t \in tasks : t.state = "completed"
                                              /\ t.audit_entry = orders[k].audit_entry
            <3>1. EnvelopeFor(CtxA2A) = [predicate |-> Want, engine |-> HarnessName,
                                         payload |-> Payload(doc, "A2A", TRUE)]
                BY <1>1, <1>6, EnvelopesAre
            <3>2. ~ServingIt(CallA2A, EnvelopeFor(CtxA2A))
                BY <1>1, <1>6, <2>2, <3>1, NotServed DEF CallA2A
            <3> QED
                BY <1>5, <2>2, <3>2 DEF Honoured
        <2>3. CASE GetContext("A2A", "A2A call", CtxA2A)
            <3>1. at' = "A2A call" /\ wrong' = wrong /\ IssueContext(CtxA2A)
                BY <1>6, <2>3 DEF GetContext, Trans
            <3>2. Open(CtxA2A)'
                BY <1>1, <3>1, IssueOpens DEF IInv
            <3> QED
                BY <1>6, <2>1, <3>1, <3>2 DEF Progress, BothRecorded
        <2>4. CASE Present("A2A call", "A2A answer", Submit("a2a", "present", CtxA2A, OrderB),
                           MakeEnvelope(doc, CtxA2A.request_id, HonestValue))
            <3>1. /\ at = "A2A call" /\ at' = "A2A answer" /\ wrong' = wrong
                  /\ Send(CallA2A, EnvelopeFor(CtxA2A))
                BY <1>6, <2>4 DEF Present, Trans, CallA2A, EnvelopeFor
            <3>2. Open(CtxA2A)
                BY <1>6, <3>1 DEF Progress
            <3>3. Code(CallA2A) = 0
                BY <1>1, <3>2, OpenCode DEF CallA2A
            <3>4. ServingIt(CallA2A, EnvelopeFor(CtxA2A))'
                BY <1>3, <3>1, <3>3, SendServes DEF EnvelopeFor
            <3> QED
                BY <1>6, <2>1, <3>1, <3>4 DEF Progress, Honoured, BothRecorded
        <2>5. CASE Inspect("A2A answer", "A2A bare", "A2A ALLOW decision",
                           told[CtxA2A.request_id] = "ALLOW")
            <3>1. at = "A2A answer" /\ at' = "A2A bare" /\ Idle /\ UNCHANGED vars
                BY <1>6, <2>5 DEF Inspect, Local, Trans
            <3>2. Honoured(CallA2A, EnvelopeFor(CtxA2A))
                BY <1>6, <3>1 DEF Progress
            <3>3. told[CtxA2A.request_id] = "ALLOW"
                BY <2>2, <3>1, <3>2
            <3>4. wrong' = wrong
                BY <1>6, <2>5, <3>3 DEF Inspect, Local, Check
            <3>5. Honoured(CallA2A, EnvelopeFor(CtxA2A))'
                BY <1>3, <3>1, <3>2
                DEF Honoured, EnvelopeFor, ServingIt, vars, memory
            <3> QED
                BY <1>3, <1>6, <2>1, <3>1, <3>3, <3>4, <3>5 DEF Progress, BothRecorded
        <2>6. CASE PresentRefused("A2A bare", "A2A tasks", Submit("a2a", "absent", CtxA2A,
            OrderB),
                                  MakeEnvelope(doc, CtxA2A.request_id, HonestValue),
                                  DenyByDefault, "A2A denied by default")
            <3>1. at = "A2A bare" /\ at' = "A2A tasks"
                BY <1>6, <2>6 DEF PresentRefused, Trans
            <3>2. Code(Submit("a2a", "absent", CtxA2A, OrderB)) = DenyByDefault
                  /\ DenyByDefault # 0
                BY SubmitBare, BareCode
            <3>3. wrong' = wrong /\ Idle
                BY <1>6, <2>6, <3>2 DEF PresentRefused, Check, Send, Claim
            <3>4. Honoured(CallA2A, EnvelopeFor(CtxA2A))
                BY <1>6, <3>1 DEF Progress
            <3>5. told[CtxA2A.request_id] = "ALLOW" /\ Honoured(CallA2A, EnvelopeFor(CtxA2A))'
                BY <1>3, <1>5, <2>2, <3>3, <3>4 DEF Honoured
            <3> QED
                BY <1>3, <1>6, <2>1, <3>1, <3>3, <3>5 DEF Progress, BothRecorded
        <2>7. CASE Inspect("A2A tasks", "AUDIT", "A2A task and order",
                           \E t \in tasks, k \in 1..Len(orders) :
                               /\ t.state = "completed"
                               /\ t.audit_entry = orders[k].audit_entry
                               /\ orders[k].order_ref = OrderB)
            <3>1. at = "A2A tasks" /\ at' = "AUDIT" /\ Idle
                BY <1>6, <2>7 DEF Inspect, Local, Trans
            <3>2. Honoured(CallA2A, EnvelopeFor(CtxA2A))
                BY <1>6, <3>1 DEF Progress
            <3>3. wrong' = wrong
                BY <1>6, <2>2, <2>7, <3>1, <3>2 DEF Inspect, Local, Check
            <3> QED
                BY <1>6, <2>1, <3>1, <3>3 DEF Progress, BothRecorded
        <2> QED
            BY <2>3, <2>4, <2>5, <2>6, <2>7 DEF A2A
    <1> QED
        BY <1>2, <1>4, <1>6, HarnessKeeps, GoneAborts DEF Running

\* The file verifies, because a sound machine extends it at its end; and an entry
\* that tells the notional is not of the harness, which goes by another name.
LEMMA AuditKeeps ==
    ASSUME IInv, HInv, NamedByHarness', Audit
    PROVE  HInv'
    <1>1. at = "AUDIT" /\ at' \in {"done", "aborted"} /\ UNCHANGED <<vars, doc>>
        BY DEF Audit, Trans
    <1>2. StoreKeyed' /\ (Sound' <=> Sound) /\ file' = file
        BY <1>1 DEF HInv, StoreKeyed, Sound, vars, memory, bounds, durable
    <1> DEFINE others == \E i \in 1..Len(file) :
                             /\ Tells(file[i].entry)
                             /\ \A s \in Scenarios : file[i].entry.request_id # HarnessId[s]
    <1>3. ASSUME NEW i \in 1..Len(file), Tells(file[i].entry)
          PROVE  others
        <2>1. ASSUME NEW s \in Scenarios, file[i].entry.request_id = HarnessId[s]
              PROVE  FALSE
            <3>1. file[i].entry.prover = HarnessName /\ file[i].entry.engine = HarnessName
                BY <2>1 DEF HInv, NamedByHarness
            <3> QED
                BY <1>3, <3>1, VenueHarnessAssumption DEF Tells
        <2> QED
            BY <1>3, <2>1
    <1>4. ASSUME Sound
          PROVE  /\ wrong' \subseteq {"no notional in any audit entry"}
                 /\ wrong' # {} => others
                 /\ Progress'
        <2>1. /\ wrong \subseteq {"no notional in any audit entry"}
              /\ wrong # {} => others
              /\ Progress
            BY <1>4 DEF HInv, ChecksPass
        <2>2. BothRecorded
            BY <1>1, <2>1 DEF Progress, BothRecorded
        <2>3. BothRecorded'
            BY <1>1, <1>2, <2>1, BothKept
        <2>4. VerifyChain(file)
            BY <1>4 DEF IInv, ResumedAtTail, Sound
        <2>5. wrong' = wrong \cup (IF \E i \in 1..Len(file) : Tells(file[i].entry)
                                  THEN {"no notional in any audit entry"} ELSE {})
            BY <2>2, <2>4 DEF Audit, BothRecorded
        <2>6. /\ wrong' \subseteq {"no notional in any audit entry"}
              /\ wrong' # {} => others
            BY <1>3, <2>1, <2>5
        <2> QED
            BY <1>1, <2>3, <2>6 DEF Progress, BothRecorded
    <1>5. ChecksPass'
        <2>1. Sound' => wrong' \subseteq {"no notional in any audit entry"} /\ (wrong' # {} => others)
            BY <1>2, <1>4
        <2> QED
            BY <1>2, <2>1 DEF ChecksPass, Tells
    <1> QED
        BY <1>1, <1>2, <1>4, <1>5 DEF HInv, Running

-----------------------------------------------------------------------------
(* Whose names are in the entries *)

\* The harness names itself, and nobody else asks or is served under its ids.
LEMMA IssuedNames ==
    ASSUME IInv, DocHonest, NamedByHarness, [HarnessNext]_allVars, NEW s \in Scenarios
    PROVE  issued'[HarnessId[s]] = issued[HarnessId[s]]
           \/ issued'[HarnessId[s]].prover = HarnessName
    <1> DEFINE id == HarnessId[s]
    <1>1. id \in RequestIds /\ id \notin OtherIds /\ TypeOK
        BY ScenarioFacts DEF IInv
    <1>2. ASSUME NEW ctx, IssueContext(ctx), ctx.prover = HarnessName \/ ctx.request_id \in OtherIds
          PROVE  issued'[id] = issued[id] \/ issued'[id].prover = HarnessName
        BY <1>1, <1>2 DEF IssueContext, TypeOK
    <1> HIDE DEF id
    <1>3. CASE Asks
        BY <1>2, <1>3 DEF Asks, id
    <1>4. CASE \E ctx \in OtherContexts : IssueContext(ctx)
        BY <1>2, <1>4 DEF OtherContexts, id
    <1>5. CASE issued' = issued
        BY <1>5
    <1>6. CASE Calls
        BY <1>5, <1>6 DEF Calls, Send, Claim, RefuseMessage, vars, history
    <1>7. CASE Reads \/ Boot \/ Audit \/ TimeOut \/ UNCHANGED allVars
        BY <1>5, <1>7 DEF Reads, Boot, Audit, TimeOut, allVars, vars, history
    <1>8. CASE Harness
        BY <1>3, <1>6, <1>7, <1>8, ShapeS1, ShapeS2, ShapeS3, ShapeS4, ShapeS5, ShapeA2A
        DEF Harness
    <1>9. CASE Others
        BY <1>4, <1>5, <1>9
        DEF Others, Claim, RefuseMessage, Stall, StallEnds, Administration, Start,
            ChangeDirectory,
            history
    <1>10. CASE Server \/ Failure
        BY <1>5, <1>10
        DEF Server, Serve, DenyUnaudited, Record, RecordRaises, Execute, ExecuteRaises, Failure,
            Faults, Crash, CrashInRecord, history
    <1> QED
        BY <1>7, <1>8, <1>9, <1>10 DEF HarnessNext, id

LEMMA ServedNames ==
    ASSUME IInv, DocHonest, NamedByHarness, [HarnessNext]_allVars, NEW s \in Scenarios,
           Serving', Rid' = HarnessId[s]
    PROVE  Presented'.engine = HarnessName
    <1> DEFINE id == HarnessId[s]
    <1>1. id \notin OtherIds
        BY ScenarioFacts
    <1>2. CASE cur' = cur /\ Serving
        BY <1>2 DEF NamedByHarness, Rid, Presented
    <1>3. ASSUME NEW q, NEW envelope, Claim(q, envelope),
                 envelope.engine = HarnessName \/ q.ctx.request_id \in OtherIds
          PROVE  Presented'.engine = HarnessName
        BY <1>1, <1>3 DEF Claim, Rid, Presented
    <1>4. CASE UNCHANGED <<cur, step>>
        BY <1>2, <1>4 DEF Serving
    <1>5. CASE Calls
        <2>1. PICK q \in Request, envelope \in Envelope :
                  envelope.engine = HarnessName /\ Send(q, envelope)
            BY <1>5 DEF Calls
        <2>2. CASE Claim(q, envelope)
            BY <1>3, <2>1, <2>2
        <2> QED
            BY <1>4, <2>1, <2>2 DEF Send, RefuseMessage, vars, memory
    <1>6. CASE Asks \/ Reads \/ Boot \/ Audit \/ TimeOut \/ UNCHANGED allVars
        BY <1>4, <1>6 DEF Asks, IssueContext, Reads, Boot, Audit, TimeOut, allVars, vars, memory
    <1>7. CASE Harness
        BY <1>5, <1>6, <1>7, ShapeS1, ShapeS2, ShapeS3, ShapeS4, ShapeS5, ShapeA2A DEF Harness
    <1>8. CASE Others
        <2>1. CASE \E q \in OtherRequests :
                      Code(q) = 0 /\ \E envelope \in OtherEnvelopes : Claim(q, envelope)
            BY <1>3, <2>1 DEF OtherRequests, OtherContexts
        <2>2. CASE Stall \/ StallEnds
            BY <2>2 DEF Stall, StallEnds, Serving
        <2> QED
            BY <1>4, <1>8, <2>1, <2>2
            DEF Others, IssueContext, RefuseMessage, Administration, Start, ChangeDirectory,
                memory
    <1>9. CASE Server \/ Failure
        BY <1>2, <1>9
        DEF Server, Serve, DenyUnaudited, Record, RecordRaises, Execute, ExecuteRaises, Failure,
            Faults, Crash, CrashInRecord, Finish, Forget, Serving, Judged
    <1> QED
        BY <1>6, <1>7, <1>8, <1>9 DEF HarnessNext

LEMMA NamedStep ==
    ASSUME IInv, DocHonest, NamedByHarness, [HarnessNext]_allVars
    PROVE  NamedByHarness'
    <1> SUFFICES ASSUME NEW s \in Scenarios
                 PROVE  LET id == HarnessId[s] IN
                        (/\ issued[id] # NoContext => issued[id].prover = HarnessName
                         /\ Serving /\ Rid = id => Presented.engine = HarnessName
                         /\ \A i \in 1..Len(file) : file[i].entry.request_id = id =>
                               file[i].entry.prover = HarnessName
                               /\ file[i].entry.engine = HarnessName)'
        BY DEF NamedByHarness
    <1> DEFINE id == HarnessId[s]
    <1>1. [Next]_vars
        BY HarnessNextStep
    <1>2. issued'[id] # NoContext => issued'[id].prover = HarnessName
        BY IssuedNames DEF NamedByHarness
    <1>3. (Serving /\ Rid = id)' => Presented'.engine = HarnessName
        BY ServedNames
    <1>4. ASSUME NEW i \in 1..Len(file'), file'[i].entry.request_id = id
          PROVE  file'[i].entry.prover = HarnessName /\ file'[i].entry.engine = HarnessName
        <2>1. CASE i \in 1..Len(file)
            <3>1. file'[i] = file[i]
                BY <1>1, <2>1, FileGrows DEF IInv
            <3> QED
                BY <1>4, <2>1, <3>1 DEF NamedByHarness
        <2>2. CASE i \notin 1..Len(file)
            <3>1. file' # file
                BY <2>2
            <3>2. PICK part \in Parts : Judged /\ file' = Written(Verdict, part)
                BY <1>1, <3>1, FileStep DEF IInv
            <3>3. TypeOK /\ InService
                BY DEF IInv
            <3>4. /\ Len(file') = Len(file) + 1
                  /\ Len(file) \in Nat
                  /\ file'[Len(file) + 1].entry = Verdict
                BY <3>2, <3>3, WriteFacts
            <3>5. i = Len(file) + 1
                BY <2>2, <3>4
            <3>6. /\ Verdict.request_id = Rid
                  /\ Verdict.prover = cur.request.ctx.prover
                  /\ Verdict.engine = Presented.engine
                BY DEF Verdict
            <3>7. Serving /\ Rid = id
                BY <1>4, <3>2, <3>4, <3>5, <3>6 DEF Judged, Serving
            <3>8. issued[Rid] = cur.request.ctx /\ issued[Rid] # NoContext
                BY <3>3, <3>7 DEF InService, Spent
            <3>9. Verdict.prover = HarnessName /\ Verdict.engine = HarnessName
                BY <3>6, <3>7, <3>8 DEF NamedByHarness
            <3> QED
                BY <3>4, <3>5, <3>9
        <2> QED
            BY <2>1, <2>2
    <1> QED
        BY <1>2, <1>3, <1>4

LEMMA HInvStep ==
    ASSUME IInv, DocHonest, HInv, [HarnessNext]_allVars
    PROVE  HInv'
    <1>1. [Next]_vars /\ NamedByHarness'
        BY HarnessNextStep, NamedStep DEF HInv
    <1>2. CASE Harness
        BY <1>1, <1>2, BootKeeps, S1Keeps, S2Keeps, S3Keeps, S4Keeps, S5Keeps, A2AKeeps,
            AuditKeeps
        DEF Harness
    <1>3. CASE Quiet
        BY <1>1, <1>3, QuietKeeps
    <1>4. CASE Failure
        BY <1>1, <1>4, FailureKeeps
    <1>5. CASE TimeOut \/ UNCHANGED allVars
        <2>1. UNCHANGED <<store, errors, file, up, contexts, told, orders, tasks, cur, step,
                          at, doc, wrong>>
            BY <1>5 DEF TimeOut, allVars, hvars, vars, durable, memory, bounds, history
        <2>2. (Sound' <=> Sound) /\ (PolicyKnown' <=> PolicyKnown)
            BY <2>1 DEF Sound, PolicyKnown
        <2>3. \A id, result : Recorded(id, result)' <=> Recorded(id, result)
            BY <2>1, RecordedKept
        <2>4. \A ctx : Open(ctx)' <=> Open(ctx)
            BY <2>1 DEF Open
        <2>5. \A q, ctx : Honoured(q, EnvelopeFor(ctx))' <=> Honoured(q, EnvelopeFor(ctx))
            BY <2>1 DEF Honoured, ServingIt, EnvelopeFor
        <2>6. Denied(CallS3, Tampered(EnvelopeFor(CtxS3)))'
                  <=> Denied(CallS3, Tampered(EnvelopeFor(CtxS3)))
            <3>1. EnvelopeFor(CtxS3)' = EnvelopeFor(CtxS3)
                BY <2>1 DEF EnvelopeFor
            <3> QED
                BY <2>1, <2>3, <3>1 DEF Denied, ServingIt
        <2>7. Progress => Progress'
            BY <2>1, <2>3, <2>4, <2>5, <2>6 DEF Progress
        <2> QED
            BY <1>1, <2>1, <2>2, <2>7, ChecksStay DEF HInv, StoreKeyed, Running
    <1> QED
        BY <1>2, <1>3, <1>4, <1>5 DEF HarnessNext, Quiet

-----------------------------------------------------------------------------
(* The theorems *)

\* The harness and the other clients do nothing to the server that AgentServer
\* does not allow: whatever they ask for, the system is the server of
\* agent_server.py.
THEOREM HarnessImplementsServer == HarnessSpec => Spec
    <1>1. HarnessInit => Init /\ IInv /\ DocHonest
        BY IInvInit DEF HarnessInit, DocHonest
    <1>2. IInv /\ DocHonest /\ [HarnessNext]_allVars => [Next]_vars /\ (IInv /\ DocHonest)'
        BY HarnessNextStep, IInvStep
    <1> QED
        BY <1>1, <1>2, PTL DEF HarnessSpec, Spec

\* While the harness, other clients and failures interleave, every order
\* stands on its own PASS entry, for its own context and order_ref.
THEOREM HarnessOrdersAuthorised == HarnessSpec => []OrdersAuthorised
    BY HarnessImplementsServer, OrdersAreAuthorised, PTL

\* The prover service and the execution agents sign nothing: whatever they prove,
\* every order stands on a proof about the cap of the signed policy, and on a value
\* within that cap unless the proof is so wide that it shows nothing.
THEOREM HarnessOrdersWithinCap == HarnessSpec => []OrdersWithinCap
    BY HarnessImplementsServer, OrdersRespectCap, PTL

\* What the harness reads as an ALLOW or as an error is the truth.
THEOREM HarnessAnswersTrue == HarnessSpec => []AnswersAreTrue
    BY HarnessImplementsServer, TrueAnswers, PTL

\* Unless a write failed or was cut short, the checks of verify_e2e.py pass, whatever
\* the server's other clients do between its calls; only the one over everybody's
\* entries fails, and only if an entry of another client's context tells the notional.
THEOREM HarnessChecksPass == HarnessSpec => []ChecksPass
    <1>1. HarnessInit => IInv /\ DocHonest /\ HInv
        <2> SUFFICES ASSUME HarnessInit PROVE IInv /\ DocHonest /\ HInv
            OBVIOUS
        <2>1. store[Want] = NoDoc
            BY NamesKnown DEF HarnessInit, Init, NoPolicy
        <2>2. NamedByHarness
            BY ScenarioFacts DEF HarnessInit, Init, NamedByHarness, Serving
        <2> QED
            BY <2>1, <2>2, IInvInit
            DEF HarnessInit, DocHonest, HInv, StoreKeyed, ChecksPass, Progress, Running
    <1>2. IInv /\ DocHonest /\ HInv /\ [HarnessNext]_allVars => (IInv /\ DocHonest /\ HInv)'
        BY HarnessNextStep, IInvStep, HInvStep
    <1>3. HInv => ChecksPass
        BY DEF HInv
    <1> QED
        BY <1>1, <1>2, <1>3, PTL DEF HarnessSpec
=============================================================================
