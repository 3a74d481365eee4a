--------------------------------- MODULE Zkrp ---------------------------------
(***************************************************************************)
(* The zkrp command line of rust/zkrp: what prove, verify, attest-prove    *)
(* and attest-verify answer.  The curve arithmetic is abstracted to what   *)
(* it guarantees.  A commitment is the value and the blinding it opens to  *)
(* (binding); a range proof is the statement it was made for: the width,   *)
(* the two committed values, which both fit in the width (soundness of     *)
(* Bulletproofs), and what its transcript absorbed (Fiat-Shamir).          *)
(***************************************************************************)
EXTENDS Integers

CONSTANTS
    WordBits,        \* the width of u64: 64
    BitSizes,        \* the widths the bulletproofs crate proves: 8 to 64
    GroupOrder,      \* the order of the ristretto group
    Blindings,       \* blinding factors
    Contexts,        \* canonical request contexts
    Measurements,    \* builds of the prover, as PCR0 measures them
    BrokenProof,     \* bytes that decode to no proof, or to one of nothing
    NoAttestation,   \* a proof or an envelope without attestation
    NoMeasurement    \* the empty expected_measurement_hex

\* The values of n bits.
Bits(n) == 0..(2^n - 1)

-----------------------------------------------------------------------------
Commitment == [value : Bits(WordBits), blinding : Blindings]

\* user_data is report_data: the digest of a commitment and a context.
AttestationDoc ==
    [measurement : Measurements, nonce : Contexts,
     user_data : Commitment \X Contexts, signature : {"valid", "invalid"}]

\* Transcripts absorb the context and, when attested, the document's digest.
RangeProof ==
    [nbits : BitSizes, commit_v : Commitment, d : Bits(WordBits),
     ctx : Contexts, attestation : AttestationDoc \cup {NoAttestation}]

\* Two values of the largest width do not add up to the group order.
ASSUME ZkrpAssumption ==
    /\ WordBits \in Nat
    /\ BitSizes \subseteq 0..WordBits
    /\ \A n \in 0..WordBits : 2^n \in Nat /\ 2^n <= 2^WordBits
    /\ GroupOrder \in Nat
    /\ 2 * 2^WordBits <= GroupOrder
    /\ NoAttestation \notin AttestationDoc
    /\ BrokenProof \notin RangeProof
    /\ NoMeasurement \notin Measurements

\* Soundness: both committed values are numbers of nbits bits.
SoundProof(proof) ==
    /\ proof.commit_v.value \in Bits(proof.nbits)
    /\ proof.d \in Bits(proof.nbits)

\* The opening of C_d = cap*B - C_v, which the verifier derives itself.
Difference(cap, value) ==
    IF value <= cap THEN cap - value ELSE cap - value + GroupOrder

\* AttestationDoc::generate, in a prover of this build.
Generate(build, commit_v, ctx) ==
    [measurement |-> build, nonce |-> ctx, user_data |-> <<commit_v, ctx>>,
     signature |-> "valid"]

-----------------------------------------------------------------------------
(* Proving *)

\* The largest value of the range, which ends at u64::MAX.
Largest(nbits) == 2^(IF nbits >= WordBits THEN WordBits ELSE nbits) - 1

\* Slip: the comparison with the cap left to the unsigned subtraction.
ProvableInWidth(nbits, cap, value) ==
    value <= Largest(nbits) /\ cap - value <= Largest(nbits)

\* The statement may be proved: value <= cap, and value and cap - value fit.
Provable(nbits, cap, value) ==
    /\ value <= cap
    /\ value <= Largest(nbits)
    /\ cap - value <= Largest(nbits)

\* Arguments are parsed as u64 and widths checked by the crate: anything else
\* panics, which the clients see as a failure and not as an answer.
Runs(nbits, cap) == cap \in Bits(WordBits) /\ nbits \in BitSizes

\* attest-prove, with a fresh blinding: the commitment first, the document
\* over it, and the proof over the document.
ProveAttested(nbits, cap, value, ctx, build, blinding) ==
    LET commit_v == [value |-> value, blinding |-> blinding] IN
    [nbits |-> nbits, commit_v |-> commit_v, d |-> cap - value, ctx |-> ctx,
     attestation |-> Generate(build, commit_v, ctx)]

-----------------------------------------------------------------------------
(* Verifying *)

\* verify_multiple over the given width, commitments and transcript.
Verifies(proof, nbits, cap, commit_v, ctx, attestation) ==
    /\ proof # BrokenProof
    /\ proof.nbits = nbits
    /\ proof.commit_v = commit_v
    /\ proof.d = Difference(cap, commit_v.value)
    /\ proof.ctx = ctx
    /\ proof.attestation = attestation

\* verify.
VerifyRangeLeq(nbits, cap, proof, commit_v, ctx) ==
    Verifies(proof, nbits, cap, commit_v, ctx, NoAttestation)

\* Slip: report_data not compared.
AttestationHoldsForAny(doc, commit_v, ctx, expected) ==
    /\ doc.signature = "valid"
    /\ expected # NoMeasurement => doc.measurement = expected
    /\ doc.nonce = ctx

\* Steps 1 to 4 of attest-verify: signature, measurement when one is expected,
\* nonce and report_data.
AttestationHolds(doc, commit_v, ctx, expected) ==
    /\ doc.signature = "valid"
    /\ expected # NoMeasurement => doc.measurement = expected
    /\ doc.nonce = ctx
    /\ doc.user_data = <<commit_v, ctx>>

\* Slip: the commitment to d taken from the prover instead of derived.
VerifyTrustingProver(nbits, cap, proof, commit_v, ctx, doc, expected) ==
    /\ AttestationHolds(doc, commit_v, ctx, expected)
    /\ proof # BrokenProof
    /\ proof.nbits = nbits /\ proof.commit_v = commit_v
    /\ proof.ctx = ctx /\ proof.attestation = doc

\* attest-verify: the document, and then the proof with its digest absorbed.
VerifyRangeLeqAttested(nbits, cap, proof, commit_v, ctx, doc, expected) ==
    /\ AttestationHolds(doc, commit_v, ctx, expected)
    /\ Verifies(proof, nbits, cap, commit_v, ctx, doc)
=============================================================================
