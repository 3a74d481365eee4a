-------------------------- MODULE VerificationProofs --------------------------
(***************************************************************************)
(* What a PASS verdict is worth, for every width, group order, set of      *)
(* predicates and history of proofs.  The arithmetic is in RangeSound: the *)
(* group is larger than two numbers of the width together, so C_d = cap*B  *)
(* - C_v can open to a number of the width only if value <= cap.           *)
(***************************************************************************)
EXTENDS Verification, TLAPS

\* A width the crate proves has a power of two no larger than the word's.
LEMMA WidthsFit ==
  ASSUME NEW n \in BitSizes
  PROVE  n \in Nat /\ n <= WordBits /\ 2^n \in Nat /\ 2^n <= 2^WordBits
         /\ 2^WordBits \in Nat
  BY ZkrpAssumption

\* If value and the difference to the cap both fit the width, value <= cap.
LEMMA RangeSound ==
  ASSUME NEW n \in BitSizes, NEW cap \in Nat, NEW value \in Bits(n),
         Difference(cap, value) \in Bits(n)
  PROVE  value \in 0..cap
<1>1. 2^n \in Nat /\ 2 * 2^n <= GroupOrder /\ GroupOrder \in Nat
  BY WidthsFit, ZkrpAssumption
<1>2. value \in Nat /\ value <= 2^n - 1
  BY <1>1 DEF Bits
<1>3. CASE value <= cap
  BY <1>2, <1>3
<1>4. CASE ~(value <= cap)
  <2>1. Difference(cap, value) = cap - value + GroupOrder
    BY <1>4 DEF Difference
  <2>2. cap - value + GroupOrder <= 2^n - 1
    BY <1>1, <2>1 DEF Bits
  <2> QED
    BY <1>1, <1>2, <2>2
<1> QED
  BY <1>3, <1>4

\* A proof that verifies is about the commitment it is presented with, and
\* about a value within the cap.
LEMMA VerifiedWithinCap ==
  ASSUME NEW proof \in RangeProof, SoundProof(proof), NEW nbits, NEW cap \in Nat,
         NEW commit_v, NEW ctx, NEW doc,
         Verifies(proof, nbits, cap, commit_v, ctx, doc)
  PROVE  commit_v.value \in 0..cap
<1>1. proof.nbits \in BitSizes
  BY DEF RangeProof
<1>2. /\ commit_v.value \in Bits(proof.nbits)
      /\ Difference(cap, commit_v.value) \in Bits(proof.nbits)
  BY DEF Verifies, SoundProof
<1> QED
  BY <1>1, <1>2, RangeSound

-----------------------------------------------------------------------------
(* The inductive invariant *)

\* The initial state satisfies the invariant.
LEMMA InitIInv == Init => IInv
  BY DEF Init, IInv, TypeOK, ProofsAreSound, VerdictFollows, Proofs, Documents

\* What the prover service answers is well-typed and sound.
LEMMA AnswersAreSound ==
  ASSUME NEW params \in Params, NEW value \in Bits(WordBits), NEW ctx \in Contexts,
         NEW build \in Measurements, NEW blinding \in Blindings,
         Runs(params.nbits, params.cap), Provable(params.nbits, params.cap, value)
  PROVE  LET proof == ProveAttested(params.nbits, params.cap, value, ctx, build, blinding)
         IN  proof \in RangeProof /\ SoundProof(proof)
<1> DEFINE commit_v == [value |-> value, blinding |-> blinding]
<1> DEFINE proof == ProveAttested(params.nbits, params.cap, value, ctx, build, blinding)
<1>1. params.nbits \in BitSizes /\ params.cap \in Bits(WordBits)
  BY DEF Runs
<1>2. 2^params.nbits \in Nat /\ 2^WordBits \in Nat /\ params.nbits \in Nat
      /\ params.nbits <= WordBits /\ WordBits \in Nat
  BY <1>1, WidthsFit, ZkrpAssumption
<1>3. Largest(params.nbits) = 2^params.nbits - 1
  <2>1. (IF params.nbits >= WordBits THEN WordBits ELSE params.nbits) = params.nbits
    BY <1>2
  <2> QED
    BY <2>1 DEF Largest
<1>4. value \in Nat /\ params.cap \in Nat /\ params.cap <= 2^WordBits - 1
  BY <1>1, <1>2 DEF Bits
<1>5. value \in Bits(params.nbits) /\ params.cap - value \in Bits(params.nbits)
  BY <1>2, <1>3, <1>4 DEF Provable, Bits
<1>6. params.cap - value \in Bits(WordBits)
  BY <1>2, <1>4 DEF Provable, Bits
<1>7. commit_v \in Commitment
  BY DEF Commitment
<1>8. Generate(build, commit_v, ctx) \in AttestationDoc
  BY <1>7 DEF Generate, AttestationDoc
<1>9. proof = [nbits |-> params.nbits, commit_v |-> commit_v, d |-> params.cap - value,
               ctx |-> ctx, attestation |-> Generate(build, commit_v, ctx)]
  BY DEF ProveAttested
<1>10. proof \in RangeProof
  BY <1>1, <1>6, <1>7, <1>8, <1>9 DEF RangeProof
<1>11. SoundProof(proof)
  BY <1>5, <1>9 DEF SoundProof
<1> QED
  BY <1>10, <1>11

\* The parts of an attested proof.
LEMMA AttestedParts ==
  ASSUME NEW nbits, NEW cap, NEW value, NEW ctx, NEW build, NEW blinding
  PROVE  LET proof == ProveAttested(nbits, cap, value, ctx, build, blinding)
             commit_v == [value |-> value, blinding |-> blinding]
         IN  /\ proof.nbits = nbits /\ proof.commit_v = commit_v
             /\ proof.d = cap - value /\ proof.ctx = ctx
             /\ proof.attestation = Generate(build, commit_v, ctx)
  BY DEF ProveAttested

\* An answer's document is Generate of the answer's own commitment.
LEMMA DocumentOf ==
  ASSUME ProofsAreSound, NEW s \in served
  PROVE  LET c == [value |-> s.proof.commit_v.value, blinding |-> s.proof.commit_v.blinding]
         IN  /\ s.proof.attestation = Generate(s.build, c, s.ctx)
             /\ s.proof.commit_v = c
             /\ s.proof.nbits = s.params.nbits
             /\ s.proof.d = s.params.cap - c.value
             /\ s.proof.ctx = s.ctx
<1> DEFINE c == [value |-> s.proof.commit_v.value, blinding |-> s.proof.commit_v.blinding]
<1>1. s.proof = ProveAttested(s.params.nbits, s.params.cap, s.proof.commit_v.value,
                              s.ctx, s.build, s.proof.commit_v.blinding)
  BY DEF ProofsAreSound
<1>2. c.value = s.proof.commit_v.value
  OBVIOUS
<1> DEFINE q == ProveAttested(s.params.nbits, s.params.cap, s.proof.commit_v.value,
                              s.ctx, s.build, s.proof.commit_v.blinding)
<1>3. /\ q.attestation = Generate(s.build, c, s.ctx)
      /\ q.commit_v = c
      /\ q.nbits = s.params.nbits
      /\ q.d = s.params.cap - s.proof.commit_v.value
      /\ q.ctx = s.ctx
  BY AttestedParts
<1>4. s.proof = q
  BY <1>1
<1> HIDE DEF q, c
<1>5. /\ s.proof.attestation = Generate(s.build, c, s.ctx)
      /\ s.proof.commit_v = c
      /\ s.proof.nbits = s.params.nbits
      /\ s.proof.d = s.params.cap - s.proof.commit_v.value
      /\ s.proof.ctx = s.ctx
  BY <1>3, <1>4
<1> QED
  BY <1>2, <1>5 DEF c

\* The documents of the prover service, damaged or not, are well-formed.
LEMMA DocumentsAreTyped ==
  ASSUME TypeOK, ProofsAreSound
  PROVE  /\ Documents \subseteq AttestationDoc
         /\ Altered \subseteq AttestationDoc
         /\ \A doc \in Altered : doc.signature = "invalid"
<1>1. ASSUME NEW s \in served PROVE s.proof.attestation \in AttestationDoc
  <2> DEFINE c == [value |-> s.proof.commit_v.value, blinding |-> s.proof.commit_v.blinding]
  <2>1. s.proof.attestation = Generate(s.build, c, s.ctx)
    BY DocumentOf
  <2>2. s \in Served
    BY DEF TypeOK
  <2>3. s.build \in Measurements /\ s.ctx \in Contexts /\ s.proof.commit_v \in Commitment
    BY <2>2 DEF Served, RangeProof
  <2>4. c \in Commitment
    BY <2>3 DEF Commitment
  <2>5. Generate(s.build, c, s.ctx) \in AttestationDoc
    BY <2>3, <2>4 DEF Generate, AttestationDoc
  <2> QED
    BY <2>1, <2>5
<1>2. Documents \subseteq AttestationDoc
  BY <1>1 DEF Documents
<1>3. ASSUME NEW d \in AttestationDoc, NEW m \in Measurements
      PROVE  Damaged(d, m) \in AttestationDoc /\ Damaged(d, m).signature = "invalid"
  BY DEF AttestationDoc, Damaged
<1>4. \A doc \in Altered : doc \in AttestationDoc /\ doc.signature = "invalid"
  BY <1>2, <1>3 DEF Altered
<1> QED
  BY <1>2, <1>4

\* Every step preserves the invariant.
LEMMA NextIInv == IInv /\ [Next]_vars => IInv'
<1> SUFFICES ASSUME IInv, [Next]_vars PROVE IInv'
  OBVIOUS
<1> USE DEF IInv
<1>1. ASSUME NEW params \in Params, NEW value \in SourceValues, NEW ctx \in Contexts,
             NEW build \in Measurements, NEW blinding \in Blindings,
             HandleProve(params, value, ctx, build, blinding)
      PROVE  IInv'
  <2> DEFINE commit_v == [value |-> value, blinding |-> blinding]
  <2> DEFINE proof == ProveAttested(params.nbits, params.cap, value, ctx, build, blinding)
  <2> DEFINE s == [proof |-> proof, params |-> params, ctx |-> ctx, build |-> build]
  <2>1. proof \in RangeProof /\ SoundProof(proof)
    BY <1>1, AnswersAreSound DEF HandleProve
  <2>2. proof.commit_v = commit_v
    BY DEF ProveAttested
  <2>3. s \in Served /\ served' = served \cup {s} /\ others' = others
        /\ policy' = policy /\ verdict' = NoVerdict
    BY <1>1, <2>1 DEF HandleProve, Served
  <2>4. TypeOK'
    BY <2>3 DEF TypeOK
  <2>5. \A t \in served' :
          /\ Runs(t.params.nbits, t.params.cap)
          /\ Provable(t.params.nbits, t.params.cap, t.proof.commit_v.value)
          /\ t.proof = ProveAttested(t.params.nbits, t.params.cap, t.proof.commit_v.value,
                                     t.ctx, t.build, t.proof.commit_v.blinding)
    <3> SUFFICES ASSUME NEW t \in served'
                 PROVE  /\ Runs(t.params.nbits, t.params.cap)
                        /\ Provable(t.params.nbits, t.params.cap, t.proof.commit_v.value)
                        /\ t.proof = ProveAttested(t.params.nbits, t.params.cap,
                                       t.proof.commit_v.value, t.ctx, t.build,
                                       t.proof.commit_v.blinding)
      OBVIOUS
    <3>1. CASE t \in served
      BY <3>1 DEF ProofsAreSound
    <3>2. CASE t = s
      BY <1>1, <2>2, <3>2 DEF HandleProve
    <3> QED
      BY <2>3, <3>1, <3>2
  <2>6. \A p \in Proofs' : SoundProof(p)
    BY <2>1, <2>3 DEF Proofs, ProofsAreSound
  <2> QED
    BY <2>3, <2>4, <2>5, <2>6 DEF ProofsAreSound, VerdictFollows
<1>2. ASSUME NEW proof \in [nbits : BitSizes, commit_v : Commitment, d : Bits(WordBits),
                            ctx : Contexts, attestation : Documents \cup {NoAttestation}],
             ProveElsewhere(proof)
      PROVE  IInv'
  <2>1. Documents \subseteq AttestationDoc \cup {NoAttestation}
    BY DEF Documents, TypeOK, Served, RangeProof
  <2>2. proof \in RangeProof
    BY <2>1 DEF RangeProof
  <2>3. TypeOK'
    BY <1>2, <2>2 DEF TypeOK, ProveElsewhere
  <2>4. ProofsAreSound'
    BY <1>2 DEF ProofsAreSound, ProveElsewhere, Proofs
  <2> QED
    BY <1>2, <2>3, <2>4 DEF VerdictFollows, ProveElsewhere
<1>3. ASSUME NEW p \in Policy, Restart(p) PROVE IInv'
  BY <1>3 DEF Restart, TypeOK, ProofsAreSound, VerdictFollows, Proofs
<1>4. ASSUME NEW ctx \in Contexts, NEW proof \in Proofs \cup {BrokenProof},
             NEW commit_v \in {p.commit_v : p \in Proofs},
             NEW doc \in Documents \cup Altered \cup {NoAttestation},
             Present(ctx, proof, commit_v, doc)
      PROVE  IInv'
  <2> DEFINE v == [ctx |-> ctx, proof |-> proof, commit_v |-> commit_v, doc |-> doc,
                   policy |-> policy,
                   result |-> Outcome(policy, ctx, proof, commit_v, doc)]
  <2>1. verdict' = v /\ UNCHANGED <<policy, served, others>>
    BY <1>4 DEF Present
  <2>2. Proofs \subseteq RangeProof
    BY DEF Proofs, TypeOK, Served
  <2>3. commit_v \in Commitment
    BY <2>2 DEF RangeProof
  <2>4. doc \in AttestationDoc \cup {NoAttestation}
    BY DocumentsAreTyped
  <2>5. v.result \in {"PASS", "FAIL", "error"}
    <3> HIDE DEF IInv
    <3> QED
      BY DEF Outcome
  <2>6. v \in Verdict
    BY <2>2, <2>3, <2>4, <2>5 DEF Verdict, TypeOK
  <2>7. TypeOK'
    BY <2>1, <2>6 DEF TypeOK
  <2>8. ProofsAreSound'
    BY <2>1 DEF ProofsAreSound, Proofs
  <2>9. Proofs' = Proofs /\ Documents' = Documents /\ Altered' = Altered
    <3>1. served' = served /\ others' = others
      BY <2>1
    <3> QED
      BY <3>1 DEF Proofs, Documents, Altered
  <2>10. VerdictFollows'
    <3>1. /\ verdict'.proof = proof /\ verdict'.doc = doc
          /\ verdict'.policy = policy /\ verdict'.ctx = ctx
          /\ verdict'.commit_v = commit_v
          /\ verdict'.result = Outcome(policy, ctx, proof, commit_v, doc)
      BY <2>1
    <3>2. /\ verdict'.proof \in Proofs' \cup {BrokenProof}
          /\ verdict'.doc \in Documents' \cup Altered' \cup {NoAttestation}
      BY <1>4, <2>9, <3>1
    <3>3. verdict'.result = Outcome(verdict'.policy, verdict'.ctx, verdict'.proof,
                                    verdict'.commit_v, verdict'.doc)
      BY <3>1
    <3> QED
      BY <3>2, <3>3 DEF VerdictFollows
  <2> QED
    BY <2>7, <2>8, <2>10
<1>5. CASE UNCHANGED vars
  <2>1. TypeOK'
    BY <1>5 DEF vars, TypeOK
  <2>2. Proofs' = Proofs /\ Documents' = Documents /\ Altered' = Altered
    <3>1. served' = served /\ others' = others
      BY <1>5 DEF vars
    <3> QED
      BY <3>1 DEF Proofs, Documents, Altered
  <2>3. ProofsAreSound'
    BY <1>5, <2>2 DEF vars, ProofsAreSound
  <2>4. VerdictFollows'
    BY <1>5, <2>2 DEF vars, VerdictFollows
  <2> QED
    BY <2>1, <2>3, <2>4
<1> QED
  BY <1>1, <1>2, <1>3, <1>4, <1>5 DEF Next

\* IInv holds throughout.
THEOREM Invariant == Spec => []IInv
  BY InitIInv, NextIInv, PTL DEF Spec

\* The variables keep their types.
THEOREM TypeCorrect == Spec => []TypeOK
  BY Invariant, PTL DEF IInv

-----------------------------------------------------------------------------
(* What a verdict is worth *)

\* A verdict of PASS means that one of the two verifications succeeded, under
\* the registered parameters; with a registered measurement, the attested one.
LEMMA PassMeans ==
  ASSUME NEW p, NEW ctx, NEW proof, NEW commit_v, NEW doc,
         Outcome(p, ctx, proof, commit_v, doc) = "PASS"
  PROVE  /\ p.params # Unregistered
         /\ Parses(p.params)
         /\ Verifies(proof, p.params.nbits, p.params.cap, commit_v, ctx, doc)
         /\ p.measurement # Unregistered => doc # NoAttestation
         /\ doc # NoAttestation =>
               VerifyRangeLeqAttested(p.params.nbits, p.params.cap, proof,
                                      commit_v, ctx, doc, Expected(p.measurement))
<1> DEFINE params == p.params
<1>1. params # Unregistered /\ Parses(params)
  BY DEF Outcome
<1>2. p.measurement # Unregistered => doc # NoAttestation
  BY DEF Outcome
<1>3. CASE doc # NoAttestation
  <2>1. VerifyRangeLeqAttested(params.nbits, params.cap, proof, commit_v, ctx, doc,
                               Expected(p.measurement))
    BY <1>3 DEF Outcome
  <2>2. Verifies(proof, params.nbits, params.cap, commit_v, ctx, doc)
    BY <2>1 DEF VerifyRangeLeqAttested
  <2> QED
    BY <1>1, <1>2, <2>1, <2>2
<1>4. CASE doc = NoAttestation
  <2>1. VerifyRangeLeq(params.nbits, params.cap, proof, commit_v, ctx)
    BY <1>4 DEF Outcome
  <2>2. Verifies(proof, params.nbits, params.cap, commit_v, ctx, doc)
    BY <1>4, <2>1 DEF VerifyRangeLeq
  <2> QED
    BY <1>1, <1>2, <1>4, <2>2
<1> QED
  BY <1>3, <1>4

\* An accepted proof exists, and so satisfies the invariant of proofs.
LEMMA AcceptedExists ==
  ASSUME IInv, Accepted
  PROVE  /\ verdict \in Verdict
         /\ Outcome(verdict.policy, verdict.ctx, verdict.proof, verdict.commit_v,
                    verdict.doc) = "PASS"
         /\ verdict.proof \in Proofs /\ verdict.proof \in RangeProof
         /\ SoundProof(verdict.proof)
<1>1. verdict \in Verdict
  BY DEF IInv, TypeOK, Accepted
<1>2. Outcome(verdict.policy, verdict.ctx, verdict.proof, verdict.commit_v, verdict.doc)
        = "PASS"
  BY DEF IInv, VerdictFollows, Accepted
<1>3. verdict.proof # BrokenProof
  BY <1>2, PassMeans DEF Verifies
<1>4. verdict.proof \in Proofs
  BY <1>3 DEF IInv, VerdictFollows, Accepted
<1>5. verdict.proof \in RangeProof
  BY <1>1, <1>3 DEF Verdict
<1>6. SoundProof(verdict.proof)
  BY <1>4 DEF IInv, ProofsAreSound
<1> QED
  BY <1>1, <1>2, <1>4, <1>5, <1>6

\* What passes is true, whoever made the proof: the committed value is at most
\* the cap in force.
THEOREM WithinCap == Spec => []AcceptedWithinCap
<1>1. IInv => AcceptedWithinCap
  <2> SUFFICES ASSUME IInv, Accepted
               PROVE  verdict.commit_v.value \in 0..verdict.policy.params.cap
    BY DEF AcceptedWithinCap
  <2> DEFINE params == verdict.policy.params
  <2>1. /\ verdict.proof \in RangeProof /\ SoundProof(verdict.proof)
        /\ Parses(params)
        /\ Verifies(verdict.proof, params.nbits, params.cap, verdict.commit_v,
                    verdict.ctx, verdict.doc)
    BY AcceptedExists, PassMeans
  <2>2. params.cap \in Nat
    BY <2>1, ZkrpAssumption DEF Parses, Bits
  <2> QED
    BY <2>1, <2>2, VerifiedWithinCap
<1> QED
  BY <1>1, Invariant, PTL

\* With a registered measurement, what passes was committed to by the service
\* of that build, for this context.
THEOREM FromBuild == Spec => []AcceptedFromBuild
<1>1. IInv => AcceptedFromBuild
  <2> SUFFICES ASSUME IInv, Accepted, verdict.policy.measurement \in Measurements
               PROVE  \E s \in served :
                        /\ s.build = verdict.policy.measurement
                        /\ s.ctx = verdict.ctx
                        /\ s.proof.commit_v = verdict.commit_v
    BY DEF AcceptedFromBuild
  <2> DEFINE params == verdict.policy.params
  <2> DEFINE m == verdict.policy.measurement
  <2>1. m # Unregistered /\ Expected(m) = m /\ m # NoMeasurement
    BY VerificationAssumption, ZkrpAssumption DEF Expected
  <2>2. /\ verdict.doc # NoAttestation
        /\ VerifyRangeLeqAttested(params.nbits, params.cap, verdict.proof,
              verdict.commit_v, verdict.ctx, verdict.doc, Expected(m))
    BY <2>1, AcceptedExists, PassMeans
  <2>3. /\ verdict.doc.signature = "valid"
        /\ verdict.doc.measurement = m
        /\ verdict.doc.user_data = <<verdict.commit_v, verdict.ctx>>
    BY <2>1, <2>2 DEF VerifyRangeLeqAttested, AttestationHolds
  <2>4. verdict.doc \notin Altered
    BY <2>3, DocumentsAreTyped DEF IInv
  <2>5. PICK s \in served : verdict.doc = s.proof.attestation
    BY <2>2, <2>4 DEF IInv, VerdictFollows, Accepted, Documents
  <2> DEFINE c == [value |-> s.proof.commit_v.value, blinding |-> s.proof.commit_v.blinding]
  <2>6. verdict.doc = Generate(s.build, c, s.ctx) /\ s.proof.commit_v = c
    BY <2>5, DocumentOf DEF IInv
  <2>7. s.build = m /\ s.ctx = verdict.ctx /\ c = verdict.commit_v
    BY <2>3, <2>6 DEF Generate
  <2> QED
    BY <2>6, <2>7
<1> QED
  BY <1>1, Invariant, PTL

\* An answer of the prover service passes under the policy it was made for.
THEOREM HonestProofsPass == Spec => []HonestPasses
<1>1. IInv => HonestPasses
  <2> SUFFICES ASSUME IInv, verdict # NoVerdict, NEW s \in served,
                      verdict.proof = s.proof,
                      verdict.commit_v = s.proof.commit_v,
                      verdict.doc = s.proof.attestation,
                      verdict.ctx = s.ctx,
                      verdict.policy.params = s.params,
                      verdict.policy.measurement \in {s.build, NoMeasurement, Unregistered}
               PROVE  verdict.result = "PASS"
    BY DEF HonestPasses
  <2> DEFINE params == s.params
  <2> DEFINE proof == s.proof
  <2> DEFINE c == [value |-> proof.commit_v.value, blinding |-> proof.commit_v.blinding]
  <2> DEFINE doc == Generate(s.build, c, s.ctx)
  <2> DEFINE m == verdict.policy.measurement
  <2>1. s \in Served /\ s.build \in Measurements /\ params \in Params
        /\ proof \in RangeProof
    BY DEF IInv, TypeOK, Served
  <2>2. /\ Runs(params.nbits, params.cap)
        /\ Provable(params.nbits, params.cap, c.value)
    BY DEF IInv, ProofsAreSound
  <2>3. proof.commit_v = c /\ proof.attestation = doc /\ proof.nbits = params.nbits
        /\ proof.ctx = s.ctx /\ proof.d = params.cap - c.value
    BY DocumentOf DEF IInv
  <2>4. doc \in AttestationDoc /\ doc # NoAttestation
    <3>1. doc \in Documents
      BY <2>3 DEF Documents
    <3> QED
      BY <3>1, DocumentsAreTyped, ZkrpAssumption DEF IInv
  <2>5. Difference(params.cap, c.value) = params.cap - c.value
    BY <2>2 DEF Provable, Difference
  <2>6. proof # BrokenProof
    BY <2>1, ZkrpAssumption
  <2>7. Verifies(proof, params.nbits, params.cap, c, s.ctx, doc)
    BY <2>3, <2>5, <2>6 DEF Verifies
  <2>8. Expected(m) # NoMeasurement => Expected(m) = s.build
    BY DEF Expected
  <2>9. VerifyRangeLeqAttested(params.nbits, params.cap, proof, c, s.ctx, doc, Expected(m))
    <3>1. /\ doc.signature = "valid" /\ doc.measurement = s.build
          /\ doc.nonce = s.ctx /\ doc.user_data = <<c, s.ctx>>
      BY DEF Generate
    <3> QED
      BY <2>7, <2>8, <3>1 DEF VerifyRangeLeqAttested, AttestationHolds
  <2>10. Parses(params) /\ params # Unregistered
    <3>1. params.nbits \in Nat /\ params.cap \in Bits(WordBits)
      BY <2>2, WidthsFit DEF Runs
    <3>2. params # Unregistered
      BY <2>1, VerificationAssumption
    <3> QED
      BY <3>1, <3>2 DEF Parses
  <2>11. verdict.result = Outcome(verdict.policy, s.ctx, proof, c, doc)
    BY <2>3 DEF IInv, VerdictFollows
  <2> QED
    BY <2>4, <2>9, <2>10, <2>11 DEF Outcome
<1> QED
  BY <1>1, Invariant, PTL
=============================================================================
