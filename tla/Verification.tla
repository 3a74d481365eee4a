----------------------------- MODULE Verification -----------------------------
(***************************************************************************)
(* From the prover service to the verdict: POST /prove of go/proverservice,*)
(* the attachment a caller puts together, and verifyAttachment of the      *)
(* gateway, both through zkrp.  A proof is made under one policy and       *)
(* judged under another: the gateway may restart on a new registry, and    *)
(* the prover may be rebuilt, between the two.                             *)
(*                                                                         *)
(* Gateway says when a call is judged; this module says what the judgement *)
(* is worth.                                                               *)
(***************************************************************************)
EXTENDS Zkrp, FiniteSets

CONSTANTS
    Params,          \* [cap, nbits] of range_leq predicates
    SourceValues,    \* what ZKGW_SOURCE_VALUE may hold (an int64)
    MaxElsewhere,    \* bound: proofs made without the prover service
    Unregistered,    \* the registry has no such predicate
    NoVerdict        \* no call has been judged since the last change

\* What the registry says, as SignedPolicy has it: the parameters of the version
\* the tool requires, and prover_measurement@1 (possibly an empty string).
Policy == [params : Params \cup {Unregistered},
           measurement : Measurements \cup {NoMeasurement, Unregistered}]

\* An answer of the prover service, with what it was asked.
Served == [proof : RangeProof, params : Params, ctx : Contexts, build : Measurements]

\* A judged call: the attachment, the policy it met and the outcome; an
\* error denies the call without an audit entry.
Verdict == [ctx : Contexts, proof : RangeProof \cup {BrokenProof},
            commit_v : Commitment, doc : AttestationDoc \cup {NoAttestation},
            policy : Policy, result : {"PASS", "FAIL", "error"}]

ASSUME VerificationAssumption ==
    /\ Params \subseteq [cap : Int, nbits : Int]
    /\ SourceValues \subseteq Int
    /\ MaxElsewhere \in Nat
    /\ Unregistered \notin Params \cup Measurements \cup {NoMeasurement}
    /\ NoVerdict \notin Verdict

VARIABLES
    policy,     \* the registry the running gateway has loaded
    served,     \* history: the proofs the prover service has answered with
    others,     \* history: proofs made by other means
    verdict     \* the last call judged

vars == <<policy, served, others, verdict>>

TypeOK ==
    /\ policy \in Policy
    /\ served \subseteq Served
    /\ others \subseteq RangeProof
    /\ verdict \in Verdict \cup {NoVerdict}

Init ==
    /\ policy \in Policy
    /\ served = {}
    /\ others = {}
    /\ verdict = NoVerdict

-----------------------------------------------------------------------------
Proofs == {s.proof : s \in served} \cup others
Documents == {s.proof.attestation : s \in served}
Fresh(blinding) == \A proof \in Proofs : proof.commit_v.blinding # blinding

\* POST /prove: the predicate comes from the caller, its signature is not
\* looked at, and the value from the environment.  A value that violates the
\* predicate (422) and arguments zkrp cannot take (500) give no proof.
HandleProve(params, value, ctx, build, blinding) ==
    /\ Runs(params.nbits, params.cap)
    /\ value \in Bits(WordBits)
    /\ Provable(params.nbits, params.cap, value)
    /\ Fresh(blinding)
    /\ served' = served \cup
           {[proof |-> ProveAttested(params.nbits, params.cap, value, ctx, build, blinding),
             params |-> params, ctx |-> ctx, build |-> build]}
    /\ verdict' = NoVerdict
    /\ UNCHANGED <<policy, others>>

\* A proof made without the prover service: by zkrp prove, or by any program
\* that uses the crate.  It may absorb a document it has seen, but it cannot
\* open a commitment of the prover service, whose blinding it does not know.
ProveElsewhere(proof) ==
    /\ Cardinality(others) < MaxElsewhere
    /\ SoundProof(proof)
    /\ \A s \in served : s.proof.commit_v.blinding # proof.commit_v.blinding
    /\ others' = others \cup {proof}
    /\ verdict' = NoVerdict
    /\ UNCHANGED <<policy, served>>

\* The gateway restarts on whatever signed policy the registry then holds.
Restart(p) ==
    /\ policy' = p
    /\ verdict' = NoVerdict
    /\ UNCHANGED <<served, others>>

-----------------------------------------------------------------------------
\* The measurement handed to zkrp: empty when none is registered.
Expected(measurement) ==
    IF measurement = Unregistered THEN NoMeasurement ELSE measurement

\* zkrp parses its arguments as unsigned before it looks at the proof.
Parses(params) == params.cap \in Bits(WordBits) /\ params.nbits \in Nat

\* Slip: an attested proof verified as a plain one unless policy requires
\* the attestation.
OutcomeByPolicy(p, ctx, proof, commit_v, doc) ==
    LET params == p.params
        ok == IF p.measurement # Unregistered
              THEN /\ doc # NoAttestation
                   /\ VerifyRangeLeqAttested(params.nbits, params.cap, proof, commit_v,
                                             ctx, doc, Expected(p.measurement))
              ELSE VerifyRangeLeq(params.nbits, params.cap, proof, commit_v, ctx)
    IN  IF params = Unregistered THEN "error"
        ELSE IF ~Parses(params) THEN "error"
        ELSE IF ok THEN "PASS" ELSE "FAIL"

\* verifyAttachment, for an attachment that names the required predicate and
\* whose payload decodes: the registered parameters decide, an attestation is
\* always validated when there is one and required when policy has one.
Outcome(p, ctx, proof, commit_v, doc) ==
    LET params == p.params
        ok == IF doc # NoAttestation
              THEN VerifyRangeLeqAttested(params.nbits, params.cap, proof, commit_v,
                                          ctx, doc, Expected(p.measurement))
              ELSE /\ p.measurement = Unregistered
                   /\ VerifyRangeLeq(params.nbits, params.cap, proof, commit_v, ctx)
    IN  IF params = Unregistered THEN "error"
        ELSE IF doc = NoAttestation /\ p.measurement # Unregistered THEN "FAIL"
        ELSE IF ~Parses(params) THEN "error"
        ELSE IF ok THEN "PASS" ELSE "FAIL"

\* A document that was damaged, or altered after it was signed.
Damaged(doc, m) == [doc EXCEPT !.measurement = m, !.signature = "invalid"]
Altered == {Damaged(doc, m) : doc \in Documents, m \in Measurements}

\* A governed call whose attachment is put together from any proof,
\* commitment and document there are.
Present(ctx, proof, commit_v, doc) ==
    /\ verdict' = [ctx |-> ctx, proof |-> proof, commit_v |-> commit_v, doc |-> doc,
                   policy |-> policy,
                   result |-> Outcome(policy, ctx, proof, commit_v, doc)]
    /\ UNCHANGED <<policy, served, others>>

Next ==
    \/ \E params \in Params, value \in SourceValues, ctx \in Contexts,
          build \in Measurements, blinding \in Blindings :
          HandleProve(params, value, ctx, build, blinding)
    \/ \E proof \in [nbits : BitSizes, commit_v : Commitment, d : Bits(WordBits),
                      ctx : Contexts, attestation : Documents \cup {NoAttestation}] :
          ProveElsewhere(proof)
    \/ \E p \in Policy : Restart(p)
    \/ \E ctx \in Contexts, proof \in Proofs \cup {BrokenProof},
          commit_v \in {proof.commit_v : proof \in Proofs},
          doc \in Documents \cup Altered \cup {NoAttestation} :
          Present(ctx, proof, commit_v, doc)

Spec == Init /\ [][Next]_vars

-----------------------------------------------------------------------------
(* Properties *)

Accepted == verdict # NoVerdict /\ verdict.result = "PASS"

\* What passes is true: the value the commitment opens to is at most the cap
\* of the policy in force, whoever made the proof, under whatever parameters
\* (C_d is derived by the verifier, and the group does not wrap around).
AcceptedWithinCap ==
    Accepted =>
        verdict.commit_v.value \in 0..verdict.policy.params.cap

\* With a registered measurement, what passes was proved inside that build,
\* for this context: the service of that build made this very commitment.
AcceptedFromBuild ==
    Accepted /\ verdict.policy.measurement \in Measurements =>
        \E s \in served :
            /\ s.build = verdict.policy.measurement
            /\ s.ctx = verdict.ctx
            /\ s.proof.commit_v = verdict.commit_v

\* An answer of the prover service, presented as it is under the policy it was
\* made for, passes, with and without a registered measurement.
HonestPasses ==
    verdict # NoVerdict =>
        \A s \in served :
            /\ verdict.proof = s.proof
            /\ verdict.commit_v = s.proof.commit_v
            /\ verdict.doc = s.proof.attestation
            /\ verdict.ctx = s.ctx
            /\ verdict.policy.params = s.params
            /\ verdict.policy.measurement \in {s.build, NoMeasurement, Unregistered}
            => verdict.result = "PASS"

-----------------------------------------------------------------------------
(* Why they hold: the inductive invariant *)

\* The prover service attests and proves the statement it was asked for; every
\* proof is sound.
ProofsAreSound ==
    /\ \A proof \in Proofs : SoundProof(proof)
    /\ \A s \in served :
          /\ Runs(s.params.nbits, s.params.cap)
          /\ Provable(s.params.nbits, s.params.cap, s.proof.commit_v.value)
          /\ s.proof = ProveAttested(s.params.nbits, s.params.cap, s.proof.commit_v.value,
                                     s.ctx, s.build, s.proof.commit_v.blinding)

\* The verdict is about proofs and documents that exist, except damaged ones.
VerdictFollows ==
    verdict # NoVerdict =>
        /\ verdict.proof \in Proofs \cup {BrokenProof}
        /\ verdict.doc \in Documents \cup Altered \cup {NoAttestation}
        /\ verdict.result = Outcome(verdict.policy, verdict.ctx, verdict.proof,
                                    verdict.commit_v, verdict.doc)

IInv == TypeOK /\ ProofsAreSound /\ VerdictFollows
=============================================================================
