---------------------------- MODULE MCVenueHarness ----------------------------
(***************************************************************************)
(* A small instance of VenueHarness, and so of AgentServer, for TLC.       *)
(***************************************************************************)
EXTENDS VenueHarness, TLC

CONSTANTS h1, h3, h4, h5, ha,    \* the harness's context ids
          x1,                    \* another client's
          want, strict,
          plain, telling         \* what callers call themselves

RangeDoc(key, cap, signed) ==
    [key |-> key, ptype |-> "range_leq", cap |-> cap, nbits |-> 2, signed |-> signed]

\* The policy the harness runs under, a tighter and a negative one, one that
\* governance never signed, and a document of the other kind.
Policy == RangeDoc(want, 2, TRUE)
Tighter == RangeDoc(want, 1, TRUE)
Negative == RangeDoc(want, -1, TRUE)
Unsigned == RangeDoc(want, 3, FALSE)
Measurement == [Policy EXCEPT !.ptype = "prover_measurement"]
MCDocs == {Policy, Tighter, Negative, Unsigned, Measurement}

MCDirectories ==
    {<<Policy>>, <<Policy, Tighter>>, <<Unsigned>>, <<Negative>>, <<Measurement>>}

MCHarnessId == "S1" :> h1 @@ "S3" :> h3 @@ "S4" :> h4 @@ "S5" :> h5 @@ "A2A" :> ha

ProofFor(id, cap, value, intact) ==
    [request_id |-> id, cap |-> cap, nbits |-> 2, value |-> value, intact |-> intact]

\* One bit more than the harness's, and the sums of a value above the cap wrap
\* around a group of 8.
Wide == [ProofFor(x1, 2, 6, TRUE) EXCEPT !.nbits = 3]

MCProofs ==
    {Wide} \cup
    {ProofFor(MCHarnessId[s], 2, 2, intact) : s \in Scenarios, intact \in BOOLEAN}

\* Another client's own proof, the proof of the harness's first order, a wrong
\* predicate and no engine.
Attach(proof) == [predicate |-> want, engine |-> plain, payload |-> proof]
Own == Attach(Wide)
MCOtherEnvelopes ==
    {Own, Attach(ProofFor(h1, 2, 2, TRUE)), [Own EXCEPT !.predicate = strict],
     [Own EXCEPT !.engine = NoEngine]}
=============================================================================
