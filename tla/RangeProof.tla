------------------------------ MODULE RangeProof ------------------------------
(***************************************************************************)
(* The Python proof engine: python/zkgw/primitives.py and rangeproof.py    *)
(* over Curve, with the wire format of zkgw/gateway.py.  One behaviour is  *)
(* one job: something is proved or signed, and what was made is judged,    *)
(* after it has travelled, against its own statement or another.           *)
(*                                                                         *)
(* SHA-256 is a random oracle: the answer to a question that was not asked *)
(* before is any scalar.  Random scalars are drawn from small sets.  A     *)
(* transcript is the sequence of units it absorbed, a unit being a         *)
(* character of a label or a text, a length, a number, or one of the two   *)
(* halves of a compressed point.                                           *)
(***************************************************************************)
EXTENDS Curve

CONSTANTS
    Numeral,      \* how a length, a number or a coordinate is written, if it fits
    Digests,      \* bound: what hashing "pedersen-H" with ctr = 0, 1, ... gives
    Widths,       \* bound: nbits of prove_range_leq
    Contexts,     \* bound: contexts, as their items in the order of sorted()
    Own,          \* bound: the one that proofs are made for
    Messages,     \* bound: signed messages
    Blindings,    \* bound: random scalars that hide a value
    Nonces,       \* bound: random scalars <<w, e, z>>, one triple for each bit
    Challenges,   \* bound: answers of the oracle
    Unchecked,    \* bound: [cap, bitsv, bitsd] of provers without the checks
    Nothing       \* no job yet

\* Keys and texts are sequences of characters; a value of a context is what
\* JSON holds, of which str() keeps the text.
Character == STRING
Text == Seq(Character)
Value == [kind : {"str", "int", "null"}, text : Text]

\* 1 << n
Pow2[n \in Nat] == IF n = 0 THEN 1 ELSE 2 * Pow2[n - 1]

\* rand_scalar
RandScalars == 1..(N - 1)

\* What fits into the bytes of a number.
Writable == DOMAIN Numeral

ASSUME RangeProofAssumption ==
    /\ \A digests \in Digests :
          /\ \A i \in 1..Len(digests) : digests[i] \in Field
          /\ \E i \in 1..Len(digests) : OnCurve(digests[i])
    /\ \A n \in Widths : n \in Nat \ {0}
    /\ Blindings \subseteq RandScalars
    /\ \A nonces \in Nonces : \A i \in 1..Len(nonces) :
          nonces[i] \in RandScalars \X RandScalars \X RandScalars
    /\ Challenges \subseteq Scalars
    /\ \A claim \in Unchecked :
          /\ claim.cap \in Nat
          /\ Len(claim.bitsv) \in Nat \ {0}
          /\ {claim.bitsv, claim.bitsd} \subseteq [1..Len(claim.bitsv) -> Scalars]

\* What is hashed is text, and numbers that fit.
ASSUME TranscriptAssumption ==
    /\ Writable \subseteq Nat /\ 0..P \subseteq Writable /\ 0..N \subseteq Writable
    /\ Widths \subseteq Writable
    /\ \A x \in Writable : Numeral[x] \in Character
    /\ \A x, y \in Writable : Numeral[x] = Numeral[y] => x = y
    /\ \A claim \in Unchecked : {claim.cap, Len(claim.bitsv)} \subseteq Writable
    /\ Own \in Contexts
    /\ \A c \in Contexts :
          /\ c \in Seq([key : Text, value : Value])
          /\ \A i \in 1..Len(c) : {Len(c[i].key) + 1, Len(c[i].value.text)} \subseteq Writable
    /\ Messages \subseteq Text

VARIABLES
    H,            \* the second generator, fixed when the module is imported
    oracle,       \* the questions asked of SHA-256 so far, and its answers
    made,         \* what was proved or signed, and how
    judged        \* what was judged, and the verdict

vars == <<H, oracle, made, judged>>

\* What is made; what arrives may have coordinates and scalars not reduced.
BitOrProof == [a0 : Points, a1 : Points, e0 : Scalars, z0 : Scalars, z1 : Scalars]

RangeLeqProof ==
    [nbits : Nat, Cv : Seq(Points), Pv : Seq(BitOrProof),
     Cd : Seq(Points), Pd : Seq(BitOrProof)]

SchnorrProof == [commitment : Points, response : Scalars]

ProofOf(job) ==
    CASE job = "range" -> RangeLeqProof
      [] job = "schnorr" -> SchnorrProof
      [] job = "signature" -> Scalars \X Scalars

Verdicts == {"accepted", "rejected", "refused", "raised"}

\* One type invariant for the variables of the module.
TypeOK ==
    /\ H \in Points \ {IDENTITY}
    /\ \A question \in DOMAIN oracle : oracle[question] \in Challenges
    /\ made # Nothing =>
          /\ made.job \in {"range", "schnorr", "signature"}
          /\ made.proof \in ProofOf(made.job)
          /\ made.question \in DOMAIN oracle
    /\ judged # Nothing => judged.verdict \in Verdicts

-----------------------------------------------------------------------------
(* Transcript *)

Units(x) == <<Numeral[x]>>

\* Slip of absorb: no length in front of a chunk.
AbsorbUnframed(ts, label, data) == ts \o label \o data

\* len(label)|label|len(data)|data
Absorb(ts, label, data) ==
    ts \o Units(Len(label)) \o label \o Units(Len(data)) \o data

Transcript(domain) == Absorb(<<>>, <<"domain">>, domain)

\* Every point takes 33 bytes and every number 32.
PointUnits(pt) == Units(Compress(pt)[1]) \o Units(Compress(pt)[2])

AbsorbPoint(ts, label, pt) == Absorb(ts, label, PointUnits(pt))

AbsorbInt(ts, label, x) == Absorb(ts, label, Units(x))

\* absorb_point of each of points in turn.
AbsorbPoints(ts, label, points) ==
    LET absorbed[i \in 0..Len(points)] ==
            IF i = 0 THEN ts ELSE AbsorbPoint(absorbed[i - 1], label, points[i])
    IN absorbed[Len(points)]

\* What is hashed for a challenge.
Question(ts, label) == ts \o <<"||challenge||">> \o label

Answers(question) ==
    IF question \in DOMAIN oracle THEN {oracle[question]} ELSE Challenges

Ask(question, e) ==
    /\ e \in Answers(question)
    /\ oracle' = [q \in DOMAIN oracle \cup {question} |->
                     IF q = question THEN e ELSE oracle[q]]

-----------------------------------------------------------------------------
(* Commitments, identification and signatures *)

\* value*G + blinding*H
Commit(value, blinding) == Plus(Mul(value % N, G), Mul(blinding % N, H))

\* What schnorr_prove absorbs, and schnorr_verify again.
SchnorrQuestion(domain, base, public, a) ==
    Question(AbsorbPoint(AbsorbPoint(AbsorbPoint(
                 Transcript(domain), <<"schnorr/base">>, base),
                 <<"schnorr/pub">>, public), <<"schnorr/a">>, a), <<"schnorr/e">>)

SchnorrProve(secret, base, w, e) ==
    [commitment |-> Mul(w, base), response |-> (w + e * secret) % N]

SchnorrVerify(proof, base, public, e) ==
    Mul(proof.response, base) = Plus(proof.commitment, Mul(e, public))

SignatureQuestion(a, pub, msg) ==
    <<"zkgw/sig/v1|">> \o PointUnits(a) \o PointUnits(pub) \o msg

\* <<e, z>>
Sign(secret, w, e) == <<e, (w + e * secret) % N>>

\* The commitment that sig_verify recovers.
Recovered(pub, sig) == Minus(Mul(sig[2], G), Mul(sig[1], pub))

-----------------------------------------------------------------------------
(* The OR-proof of one bit *)

\* Slip of phase 1: the simulated branch reuses one random scalar for two.
Phase1OneScalar(bit, C, r, nonces) ==
    LET w == nonces[1]  e == nonces[2]
    IN [bit |-> bit, w |-> w, r |-> r, e |-> e, z |-> e,
        a0 |-> IF bit = 0 THEN Mul(w, H) ELSE Minus(Mul(e, H), Mul(e, C)),
        a1 |-> IF bit = 0 THEN Minus(Mul(e, H), Mul(e, Minus(C, G))) ELSE Mul(w, H)]

\* The announcements, of which one branch is simulated, and the state.
Phase1(bit, C, r, nonces) ==
    LET w == nonces[1]  e == nonces[2]  z == nonces[3]
    IN [bit |-> bit, w |-> w, r |-> r, e |-> e, z |-> z,
        a0 |-> IF bit = 0 THEN Mul(w, H) ELSE Minus(Mul(z, H), Mul(e, C)),
        a1 |-> IF bit = 0 THEN Minus(Mul(z, H), Mul(e, Minus(C, G))) ELSE Mul(w, H)]

\* Slip of phase 2: the split challenge left negative.
Phase2Unreduced(state, e) ==
    LET own == e - state.e
        answer == (state.w + own * state.r) % N
    IN [a0 |-> state.a0, a1 |-> state.a1,
        e0 |-> IF state.bit = 0 THEN own ELSE state.e,
        z0 |-> IF state.bit = 0 THEN answer ELSE state.z,
        z1 |-> IF state.bit = 0 THEN state.z ELSE answer]

\* The challenge split, and the other branch answered.
Phase2(state, e) ==
    LET own == (e - state.e) % N
        answer == (state.w + own * state.r) % N
    IN [a0 |-> state.a0, a1 |-> state.a1,
        e0 |-> IF state.bit = 0 THEN own ELSE state.e,
        z0 |-> IF state.bit = 0 THEN answer ELSE state.z,
        z1 |-> IF state.bit = 0 THEN state.z ELSE answer]

\* Slip of _or_verify: the second branch not looked at.
OrVerifyFirstBranch(C, prf, e) ==
    Mul(prf.z0, H) = Plus(prf.a0, Mul(prf.e0, C))

OrVerify(C, prf, e) ==
    LET e1 == (e - prf.e0) % N
    IN /\ Mul(prf.z0, H) = Plus(prf.a0, Mul(prf.e0, C))
       /\ Mul(prf.z1, H) = Plus(prf.a1, Mul(e1, Minus(C, G)))

-----------------------------------------------------------------------------
(* The range proof *)

Decompose(value, nbits) == [i \in 1..nbits |-> (value \div Pow2[i - 1]) % 2]

\* Sum_i 2^i * s[i]
Weigh(s) ==
    LET sum[i \in 0..Len(s)] == IF i = 0 THEN 0 ELSE sum[i - 1] + Pow2[i - 1] * s[i]
    IN sum[Len(s)]

\* r_d_bits: the first makes the sum -r_v, the others are rd.
Targeted(rv, rd) ==
    [i \in 1..Len(rv) |-> IF i = 1 THEN (-Weigh(rv) - 2 * Weigh(rd)) % N ELSE rd[i - 1]]

Commitments(bits, blindings) ==
    [i \in 1..Len(bits) |-> Commit(bits[i], blindings[i])]

BindContext(ts, context) ==
    LET bound[i \in 0..Len(context)] ==
            IF i = 0
            THEN ts
            ELSE Absorb(bound[i - 1], <<"ctx/">> \o context[i].key, context[i].value.text)
    IN bound[Len(context)]

\* What the states of a prover or the proofs of its bits announce.
Announced(prfs) == [i \in DOMAIN prfs |-> <<prfs[i].a0, prfs[i].a1>>]

\* a0 and a1 of each bit in turn.
AbsorbAnnouncements(ts, label0, label1, ann) ==
    LET absorbed[i \in 0..Len(ann)] ==
            IF i = 0
            THEN ts
            ELSE AbsorbPoint(AbsorbPoint(absorbed[i - 1], label0, ann[i][1]), label1, ann[i][2])
    IN absorbed[Len(ann)]

\* What is hashed for the challenge; the prover and the verifier each have
\* this code.
RangeQuestion(context, cap, nbits, Cv, Cd, annv, annd) ==
    LET head == AbsorbInt(AbsorbInt(BindContext(Transcript(<<"bitor">>), context),
                                    <<"cap">>, cap), <<"nbits">>, nbits)
        commitments == AbsorbPoints(AbsorbPoints(head, <<"Cv">>, Cv), <<"Cd">>, Cd)
    IN Question(AbsorbAnnouncements(
                    AbsorbAnnouncements(commitments, <<"a0v">>, <<"a1v">>, annv),
                    <<"a0d">>, <<"a1d">>, annd), <<"e">>)

\* Slip of verify_range_leq: the sums are not compared.
ConsistentAlways(proof, cap) == TRUE

\* Sum 2^i C_i
Aggregate(points) == MultiScalarWeighted(points, [i \in 1..Len(points) |-> Pow2[i - 1]])

\* absorb_int and absorb_point raise OverflowError on what 32 bytes do not hold.
Absorbable(proof, cap) ==
    /\ {cap, proof.nbits} \subseteq Writable
    /\ \A i \in 1..proof.nbits :
          \A pt \in {proof.Cv[i], proof.Cd[i], proof.Pv[i].a0, proof.Pv[i].a1,
                     proof.Pd[i].a0, proof.Pd[i].a1} : Compress(pt)[2] \in Writable

\* Sum 2^i C_{d,i} = cap*G - Sum 2^i C_{v,i}
Consistent(proof, cap) == Aggregate(proof.Cd) = Minus(Mul(cap, G), Aggregate(proof.Cv))

\* The checks of verify_range_leq before the challenge ...
WellFormed(proof, cap) ==
    /\ cap < Pow2[proof.nbits]
    /\ Len(proof.Cv) = proof.nbits /\ Len(proof.Pv) = proof.nbits
    /\ Len(proof.Cd) = proof.nbits /\ Len(proof.Pd) = proof.nbits

\* ... and those after it.
VerifyRangeLeq(proof, cap, e) ==
    /\ \A i \in 1..proof.nbits : OrVerify(proof.Cv[i], proof.Pv[i], e)
    /\ \A i \in 1..proof.nbits : OrVerify(proof.Cd[i], proof.Pd[i], e)
    /\ Consistent(proof, cap)

-----------------------------------------------------------------------------
(* The wire *)

\* The tag, the abscissa and how many bytes they are.
SerPoint(pt) == <<Compress(pt)[1], Compress(pt)[2], 33>>

\* Slip of _de_point: the parity in the tag not looked at.
DePointEven(raw) == IF raw = <<0, 0, 33>> THEN IDENTITY ELSE Lift(raw[2], 0)

\* Any tag, of which the parity counts, and any number of bytes.
DePoint(raw) == IF raw = <<0, 0, 33>> THEN IDENTITY ELSE Lift(raw[2], raw[1] % 2)

\* _de_point raises no ValueError.
Decodes(raw) == raw = <<0, 0, 33>> \/ OnCurve(raw[2])

\* The proofs of the bits with their points written or read.
WithPoints(prfs, Convert(_)) ==
    [i \in DOMAIN prfs |->
        [a0 |-> Convert(prfs[i].a0), a1 |-> Convert(prfs[i].a1),
         e0 |-> prfs[i].e0, z0 |-> prfs[i].z0, z1 |-> prfs[i].z1]]

Converted(proof, Convert(_)) ==
    [nbits |-> proof.nbits,
     Cv |-> [i \in DOMAIN proof.Cv |-> Convert(proof.Cv[i])],
     Pv |-> WithPoints(proof.Pv, Convert),
     Cd |-> [i \in DOMAIN proof.Cd |-> Convert(proof.Cd[i])],
     Pd |-> WithPoints(proof.Pd, Convert)]

SerializeProof(proof) == Converted(proof, SerPoint)

DeserializeProof(raw) == Converted(raw, DePoint)

Deserializes(raw) ==
    /\ \A i \in DOMAIN raw.Cv : Decodes(raw.Cv[i])
    /\ \A i \in DOMAIN raw.Cd : Decodes(raw.Cd[i])
    /\ \A i \in DOMAIN raw.Pv : Decodes(raw.Pv[i].a0) /\ Decodes(raw.Pv[i].a1)
    /\ \A i \in DOMAIN raw.Pd : Decodes(raw.Pd[i].a0) /\ Decodes(raw.Pd[i].a1)
-----------------------------------------------------------------------------
(* Making *)

Init ==
    /\ H \in {HashToCurve(digests) : digests \in Digests} \ {G}
    /\ oracle = <<>>
    /\ made = Nothing
    /\ judged = Nothing

\* What given bits of value and cap - value lead to: the proof, and how it was
\* made.
RangeMade(honest, context, cap, bitsv, bitsd, rv, rd, nv, nd, e) ==
    LET n == Len(bitsv)
        Cv == Commitments(bitsv, rv)
        Cd == Commitments(bitsd, rd)
        statesv == [i \in 1..n |-> Phase1(bitsv[i], Cv[i], rv[i], nv[i])]
        statesd == [i \in 1..n |-> Phase1(bitsd[i], Cd[i], rd[i], nd[i])]
    IN [job |-> "range", honest |-> honest, context |-> context, cap |-> cap,
        bitsv |-> bitsv, bitsd |-> bitsd, rv |-> rv, rd |-> rd,
        question |-> RangeQuestion(context, cap, n, Cv, Cd,
                                   Announced(statesv), Announced(statesd)),
        proof |-> [nbits |-> n,
                   Cv |-> Cv, Pv |-> [i \in 1..n |-> Phase2(statesv[i], e)],
                   Cd |-> Cd, Pd |-> [i \in 1..n |-> Phase2(statesd[i], e)]]]

MakeRangeProof(honest, context, cap, bitsv, bitsd) ==
    LET n == Len(bitsv)
        drawn == {nonces \in Nonces : Len(nonces) = n}
    IN \E rv \in [1..n -> Blindings], rd \in [1..(n - 1) -> Blindings],
         nv \in drawn, nd \in drawn, e \in Challenges :
           /\ made = Nothing
           /\ made' = RangeMade(honest, context, cap, bitsv, bitsd,
                                rv, Targeted(rv, rd), nv, nd, e)
           /\ Ask(made'.question, e)
           /\ UNCHANGED <<H, judged>>

\* prove_range_leq, where it raises nothing.
ProveRangeLeq(value, cap, nbits, context) ==
    /\ 0 <= value /\ value <= cap
    /\ cap < Pow2[nbits]
    /\ {cap, nbits} \subseteq Writable
    /\ MakeRangeProof(TRUE, context, cap, Decompose(value, nbits), Decompose(cap - value, nbits))

\* A prover that has no such checks, and commits to what it likes.
ProveUnchecked(claim, context) ==
    MakeRangeProof(FALSE, context, claim.cap, claim.bitsv, claim.bitsd)

\* schnorr_prove, over a transcript of its own.
SchnorrMade(domain, secret, base, w, e) ==
    LET public == Mul(secret, base)
    IN [job |-> "schnorr", honest |-> TRUE, domain |-> domain, base |-> base,
        public |-> public,
        question |-> SchnorrQuestion(domain, base, public, Mul(w, base)),
        proof |-> SchnorrProve(secret, base, w, e)]

Identify(domain, secret, base, w) ==
    \E e \in Challenges :
        /\ made = Nothing
        /\ made' = SchnorrMade(domain, secret, base, w, e)
        /\ Ask(made'.question, e)
        /\ UNCHANGED <<H, judged>>

\* sign
SignatureMade(secret, msg, w, e) ==
    LET pub == Mul(secret, G)
    IN [job |-> "signature", honest |-> TRUE, pub |-> pub, msg |-> msg,
        question |-> SignatureQuestion(Mul(w, G), pub, msg),
        proof |-> Sign(secret, w, e)]

SignMessage(secret, msg, w) ==
    \E e \in Challenges :
        /\ made = Nothing
        /\ made' = SignatureMade(secret, msg, w, e)
        /\ Ask(made'.question, e)
        /\ UNCHANGED <<H, judged>>

Make ==
    \/ \E nbits \in Widths :
          \E cap \in 0..Pow2[nbits], value \in 0..Pow2[nbits] :
              ProveRangeLeq(value, cap, nbits, Own)
    \/ \E claim \in Unchecked : ProveUnchecked(claim, Own)
    \/ \E secret \in Blindings, w \in Blindings, base \in {G, H} :
          Identify(<<"id">>, secret, base, w)
    \/ \E secret \in Blindings, w \in Blindings, msg \in Messages :
          SignMessage(secret, msg, w)

-----------------------------------------------------------------------------
(* Judging *)

\* A proof on the wire with one thing of it changed.  int(s, 16) reads any
\* integer and _de_point any abscissa: also such as are the same modulo N or P.
Altered(raw) ==
    UNION {
        UNION {{[raw EXCEPT !.Pv[1].e0 = @ + d], [raw EXCEPT !.Pv[1].z0 = @ + d],
                [raw EXCEPT !.Pv[1].z1 = @ + d], [raw EXCEPT !.Pd[1].e0 = @ + d],
                [raw EXCEPT !.Pd[1].z0 = @ + d], [raw EXCEPT !.Pd[1].z1 = @ + d]} :
               d \in {1, N, -N}},
        {[raw EXCEPT !.Cv[1][1] = @ + d] : d \in {1, 2}},
        {[raw EXCEPT !.Cv[1][2] = @ + d] : d \in {1, P, 2 * P}},
        {[raw EXCEPT !.Cv[1][3] = @ + 1], [raw EXCEPT !.nbits = @ + 1]},
        {[raw EXCEPT !.Cv = <<raw.Cv[2], raw.Cv[1]>>] : i \in {2} \cap DOMAIN raw.Cv}}

\* A judgement without a question to SHA-256.
Settle(verdict, raw, cap, context) ==
    /\ judged' = [verdict |-> verdict, sent |-> raw, cap |-> cap, context |-> context,
                  asked |-> FALSE]
    /\ UNCHANGED <<H, oracle, made>>

\* deserialize_proof, then verify_range_leq.  The width is the proof's own.
JudgeRange(raw, cap, context) ==
    /\ judged = Nothing
    /\ IF ~Deserializes(raw) THEN Settle("raised", raw, cap, context)
       ELSE LET proof == DeserializeProof(raw)
                question == RangeQuestion(context, cap, proof.nbits, proof.Cv, proof.Cd,
                                          Announced(proof.Pv), Announced(proof.Pd))
            IN IF ~WellFormed(proof, cap) THEN Settle("refused", raw, cap, context)
               ELSE IF ~Absorbable(proof, cap) THEN Settle("raised", raw, cap, context)
               ELSE \E e \in Answers(question) :
                    /\ Ask(question, e)
                    /\ judged' = [verdict |-> IF VerifyRangeLeq(proof, cap, e)
                                              THEN "accepted" ELSE "rejected",
                                  sent |-> raw, proof |-> proof, cap |-> cap, context |-> context,
                                  question |-> question, asked |-> TRUE]
                    /\ UNCHANGED <<H, made>>

\* schnorr_verify
JudgeSchnorr(proof, domain, base, public) ==
    LET question == SchnorrQuestion(domain, base, public, proof.commitment)
    IN /\ judged = Nothing
       /\ \E e \in Answers(question) :
            /\ Ask(question, e)
            /\ judged' = [verdict |-> IF SchnorrVerify(proof, base, public, e)
                                      THEN "accepted" ELSE "rejected",
                          sent |-> proof, proof |-> proof, domain |-> domain, base |-> base,
                          public |-> public, question |-> question, asked |-> TRUE]
       /\ UNCHANGED <<H, made>>

\* sig_verify
JudgeSignature(sig, pub, msg) ==
    LET question == SignatureQuestion(Recovered(pub, sig), pub, msg)
    IN /\ judged = Nothing
       /\ \E e \in Answers(question) :
            /\ Ask(question, e)
            /\ judged' = [verdict |-> IF sig[1] = e THEN "accepted" ELSE "rejected",
                          sent |-> sig, proof |-> sig, pub |-> pub, msg |-> msg,
                          question |-> question, asked |-> TRUE]
       /\ UNCHANGED <<H, made>>

\* How a range proof is judged: as it is or with one thing changed, of the proof
\* on its way, the cap or the context.
Presented ==
    LET raw == SerializeProof(made.proof)
    IN ((IF made.honest THEN Altered(raw) ELSE {}) \X {made.cap} \X {made.context})
       \cup ({raw} \X (made.cap - 1 .. made.cap + 1) \X {made.context})
       \cup ({raw} \X {made.cap} \X Contexts)

\* The same for the others: the response, the transcript or the message, the key.
Judge ==
    /\ made # Nothing
    /\ \/ /\ made.job = "range"
          /\ \E shown \in Presented : JudgeRange(shown[1], shown[2], shown[3])
       \/ /\ made.job = "schnorr"
          /\ \E response \in 0..(2 * N - 1), domain \in {made.domain, <<"id", "2">>},
               public \in {made.public, G, H} :
                JudgeSchnorr([made.proof EXCEPT !.response = response],
                             domain, made.base, public)
       \/ /\ made.job = "signature"
          /\ \E z \in 0..(2 * N - 1), msg \in Messages, pub \in {made.pub, H} :
                JudgeSignature(<<made.proof[1], z>>, pub, msg)

Next == Make \/ Judge

Spec == Init /\ [][Next]_vars

-----------------------------------------------------------------------------
(* Properties *)

\* What was judged is what was made, not changed on its way ...
AsMade ==
    /\ judged # Nothing
    /\ judged.sent = IF made.job = "range" THEN SerializeProof(made.proof) ELSE made.proof

\* ... and judged for what it was made for.
Claim(job, j) ==
    CASE job = "range" -> <<j.context, j.cap>>
      [] job = "schnorr" -> <<j.domain, j.base, j.public>>
      [] job = "signature" -> <<j.pub, j.msg>>

\* What a context comes down to in the transcript: str() of 1 and of "1" is the
\* same text.
Texts(context) == [i \in DOMAIN context |-> <<context[i].key, context[i].value.text>>]

\* What the question was about besides the responses.
Statement(job, j) ==
    CASE job = "range" ->
            [context |-> Texts(j.context), cap |-> j.cap, nbits |-> j.proof.nbits,
             Cv |-> j.proof.Cv, Cd |-> j.proof.Cd,
             announced |-> [i \in 1..j.proof.nbits |->
                 <<j.proof.Pv[i].a0, j.proof.Pv[i].a1, j.proof.Pd[i].a0, j.proof.Pd[i].a1>>]]
      [] job = "schnorr" -> <<j.domain, j.base, j.public, j.proof.commitment>>
      [] job = "signature" -> <<j.pub, j.msg, Recovered(j.pub, j.proof)>>

\* What an honest prover or signer makes is accepted for the statement it was
\* made for, after its way over the wire, whatever the random scalars: also
\* where a blinding, a commitment or an announcement happens to be zero.
Complete ==
    /\ made # Nothing /\ made.honest
    /\ AsMade /\ Claim(made.job, judged) = Claim(made.job, made)
    => judged.verdict = "accepted"

\* Prover and verifier hash the same bytes only for the same context, cap,
\* width, commitments and announcements (or key and message): the framing
\* leaves no second reading of a transcript.
BoundToStatement ==
    judged # Nothing /\ judged.asked /\ judged.question = made.question
    => Statement(made.job, judged) = Statement(made.job, made)

\* A proof with its split challenges and responses reduced.
Residues(job, proof) ==
    LET reduced(prfs) ==
            [i \in DOMAIN prfs |->
                [a0 |-> prfs[i].a0, a1 |-> prfs[i].a1,
                 e0 |-> prfs[i].e0 % N, z0 |-> prfs[i].z0 % N, z1 |-> prfs[i].z1 % N]]
    IN CASE job = "range" ->
              [nbits |-> proof.nbits, Cv |-> proof.Cv, Pv |-> reduced(proof.Pv),
               Cd |-> proof.Cd, Pd |-> reduced(proof.Pd)]
         [] job = "schnorr" ->
              [commitment |-> proof.commitment, response |-> proof.response % N]
         [] job = "signature" -> <<proof[1], proof[2] % N>>

\* The challenge does not cover the responses, the equations do: with the same
\* question, a response that is not the same modulo N is not accepted.  (One
\* that is the same is: no response is checked to be below N.)
ResponsesFixed ==
    /\ judged # Nothing /\ judged.asked /\ judged.question = made.question
    /\ judged.verdict = "accepted"
    => Residues(made.job, judged.proof) = made.proof

\* The numbers behind a bit give the discrete logarithm of H, a multiple of H
\* being one of G: a prover that knows it opens a commitment as it likes.
GivesLog(bit, r, prf, e, judgedAt) ==
    LET a == (e - judgedAt) * r
        b == IF bit = 0 THEN e - judgedAt ELSE (judgedAt - prf.e0) * (bit - 1)
    IN a % N # 0 /\ Mul(a, H) = Mul(b, G)

LogKnown ==
    LET gives(bits, blindings, prfs) ==
            \E i \in DOMAIN bits :
                GivesLog(bits[i], blindings[i], prfs[i],
                         oracle[made.question], oracle[judged.question])
    IN \/ gives(made.bitsv, made.rv, made.proof.Pv)
       \/ gives(made.bitsd, made.rd, made.proof.Pd)

\* A range proof is accepted at one challenge only.  With BoundToStatement, a
\* replay in another context or under another cap passes only if SHA-256 gives
\* the same challenge for another question, or the discrete logarithm of H is
\* known.
OneChallenge ==
    /\ made # Nothing /\ made.job = "range"
    /\ AsMade /\ judged.verdict = "accepted"
    => oracle[judged.question] = oracle[made.question] \/ LogKnown

\* The challenges chosen for the bits that are none.
Chosen(bits, prfs) == {prfs[i].e0 : i \in {k \in DOMAIN bits : bits[k] \notin {0, 1}}}

\* Whatever a prover commits to, in whatever width, and whether or not it looks
\* at its own value first: when a proof is accepted the two sums it commits to
\* make the cap it was verified with, modulo N, and the value is at most that
\* cap if the width leaves no room to wrap around; or the challenge is the very
\* one its simulation had chosen for every bit that is none; or the discrete
\* logarithm of H is known.
AcceptedIsTrue ==
    /\ made # Nothing /\ made.job = "range"
    /\ AsMade /\ judged.verdict = "accepted"
    => LET chosen == Chosen(made.bitsv, made.proof.Pv) \cup Chosen(made.bitsd, made.proof.Pd)
       IN IF chosen = {}
          THEN /\ (Weigh(made.bitsv) + Weigh(made.bitsd) - judged.cap) % N = 0
               /\ Pow2[made.proof.nbits + 1] <= N => Weigh(made.bitsv) <= judged.cap
          ELSE chosen = {oracle[judged.question]} \/ LogKnown

\* rangeproof.py:48: "Proof that committed v satisfies 0 <= v <= cap (n-bit
\* values)."  What is accepted, of bits all 0 or 1, commits to at most the cap
\* in every width.  It does not: nbits is the proof's own, and two sums of
\* values that wide reach the cap by way of N.
AcceptedWithinCap ==
    /\ made # Nothing /\ made.job = "range"
    /\ AsMade /\ judged.verdict = "accepted"
    /\ Chosen(made.bitsv, made.proof.Pv) \cup Chosen(made.bitsd, made.proof.Pd) = {}
    => Weigh(made.bitsv) % N <= judged.cap

\* The proof of a bit gives the bit away to nobody: the other bit, with another
\* blinding and another nonce, makes the same commitment and the same proof.
OtherBitFits(bit, C, prf, e) ==
    LET simulated == IF bit = 1 THEN <<(e - prf.e0) % N, prf.z1>> ELSE <<prf.e0, prf.z0>>
    IN \E r \in Scalars :
          /\ Commit(1 - bit, r) = C
          /\ \E w \in Scalars :
                Phase2(Phase1(1 - bit, C, r, <<w, simulated[1], simulated[2]>>), e) = prf

BitsHidden ==
    made # Nothing /\ judged = Nothing /\ made.job = "range" /\ made.honest =>
        \A i \in 1..made.proof.nbits :
            LET e == oracle[made.question]
            IN /\ OtherBitFits(made.bitsv[i], made.proof.Cv[i], made.proof.Pv[i], e)
               /\ OtherBitFits(made.bitsd[i], made.proof.Cd[i], made.proof.Pd[i], e)

\* The loops in Jacobian coordinates give what the group law gives: the
\* commitments of the bits open as they were made, and so do their sums.
Opens(points, bits, blindings) ==
    LET Opening(v, r) == GroupSum(LawMultiples[v % N][G], LawMultiples[r % N][H])
    IN /\ \A i \in DOMAIN points : points[i] = Opening(bits[i], blindings[i])
       /\ Aggregate(points) = Opening(Weigh(bits), Weigh(blindings))

GroupLaw ==
    made # Nothing /\ judged = Nothing /\ made.job = "range" =>
        /\ Opens(made.proof.Cv, made.bitsv, made.rv)
        /\ Opens(made.proof.Cd, made.bitsd, made.rd)
=============================================================================
