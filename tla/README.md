# Formal models of zk-proof-gateway

TLA+ models of the execution-venue gateway and its audit trail, the TLC runs that
check them on small instances, and the TLAPS proofs that hold for every instance.
Definitions are translated from the source; `PROJECT.json` maps each of them to
its lines.

## 1. Inventory of the system

| part | state it keeps | operations | talks to |
|---|---|---|---|
| Go gateway (`go/gatewayservice/main.go`, `a2a.go`) | `VenueState`: contexts, orders, tasks, one mutex | `zk/context`, `tools/call` (MCP), `message/send` (A2A), `tasks/get`, `tasks/cancel`, `venue/orders`, the TTL sweeper | registry, audit log, zkrp subprocess, callers over HTTP |
| Audit log (`go/internal/auditlog`) | a JSONL file on a volume, and per process the hash of its last entry | `New`, `Append`, `VerifyChain` | file system |
| Predicate registry (`registry.go`, `go/internal/predicate`) | predicates and measurement predicates, loaded at start | `Publish`, `Get`, `PublishMeasurement`, `GetMeasurement` (signature checked each time) | registry directory, governance key |
| zkrp client (`go/internal/zkrpclient`) | none | `Prove`, `Verify`, `ProveAttested`, `VerifyAttested`: one subprocess per call, no timeout | the Rust CLI |
| Rust range proof and attestation (`rust/zkrp`) | none | prove, verify, attest-prove, attest-verify | mock enclave key |
| Prover service (`go/proverservice`) | none (a source of truth read at start) | `handleProve` | zkrp client |
| Python reference server (`python/agent_server.py`, `python/zkgw/gateway.py`) | contexts, orders, tasks (never evicted), a chained audit file (resumed from its last line) | the same methods, one request at a time, reading each with no timeout | registry directory, audit file, the Python engine |
| Python proof engine E1 (`python/zkgw/rangeproof.py`, `primitives.py`, `curve.py`) | none | prove and verify a range, Schnorr identification, signatures, over secp256k1 | - |
| Python prover service, governance CLI | none / key files | prove; keygen, define, verify, list | the Python engine, files |
| End-to-end harness (`python/verify_e2e.py`) | its checks | scenarios S1 to S5, A2A, AUDIT | a gateway that may serve others too, a prover |
| Deployment (`helm`, `docker`, `terraform`) | the audit PVC | one replica, default rolling update | - |

**How they interact.** A caller asks the gateway for a context (`zk/context`), takes
it to a prover, and presents the proof with the governed call. The gateway claims
the context under its mutex, verifies the proof through zkrp without it, appends
the verdict to the audit log under the log's mutex, puts the order on the ledger
under its own mutex again and, over A2A, stores a task under it once more. The
sweeper goroutine takes the same mutex every half `contextTTL`. Only the audit file
survives a restart.

**What is hard.** Calls interleave between four critical sections; a context can be swept,
or the process can die, between any two of them; the audit append can fail, be cut short
or be followed by a crash before the order; the log's head is cached in memory while
another process may have the same file open. The registry directory can change between the
listing and each read of the one load at start. A proof is made under one policy and one
build of the prover and judged under others, and its parts travel separately. The Python
server interleaves nothing, but it has exceptions: one can leave a governed call half
done, after its context is spent or after its approval is on file; and one client that
does not finish its request holds the only thread. `PROJECT.json` lists these hazards at
their lines with the properties that watch them.

**What makes each part correct.**
- Gateway: a context is judged once; an order stands on a PASS entry for the required
  predicate and for its own context; a verdict gives one order; a completed task has
  its order; memory is bounded by age; an approval is carried out.
- Audit log: what `Append` returned stays readable and distinct, the chain is resumed
  at its tail, and damage is never hidden from `VerifyChain`.
- Registry: the policy in force is signed and fixed; a directory is served whole or
  not at all.
- Range proof: what verifies is `0 <= value <= cap` for the registered cap; an
  attested proof comes from the registered build, for this context; what the prover
  service answers verifies under the policy it was made for.
- Python server: what makes the Go gateway and its log correct, and callers told the
  truth through every exception; an executed order stands on a proof about the signed cap
  in force, and on a value within it unless the proof is too wide to show that.
- Python engine: what an honest prover makes is accepted; what is accepted adds up to the
  cap modulo the group order, or is a collision of challenges; in a width that cannot wrap
  around, its value is at most the cap; a proof is bound to its statement; the bits stay
  hidden. The verifier does not check the width: see `engine_width` in section 5.

## 2. Modules

| module | models | abstract specification it implements |
|---|---|---|
| `Authorization` | what a single-use authorisation service promises (grant, spend, approve, execute) | - |
| `Gateway` | `main.go`, `a2a.go`: contexts, governed calls, ledger, task store, sweeper, restarts | `Authorization` |
| `AppendOnlyLog` | a log that only grows | - |
| `AuditLog` | `auditlog.go`: the file, the processes that append to it, partial writes | `AppendOnlyLog` |
| `SignedPolicy` | a policy that is signed, and fixed while it is in force | - |
| `Registry` | `registry.go`, the loading loop of `main`, `predicate.go`, the files `governance_cli.py` writes | `SignedPolicy` |
| `Zkrp` | `rust/zkrp`: what prove, verify, attest-prove and attest-verify answer (operators, no state) | - |
| `Verification` | `proverservice/main.go`, `zkrpclient.go` and the verdict of `verifyAttachment`, over `Zkrp` | - |
| `AgentServer` | `agent_server.py` over the registry, audit log and gateway of `zkgw/gateway.py` | `Authorization` |
| `VenueHarness` | `verify_e2e.py` and the Python prover service as clients of `AgentServer`, beside others | `AgentServer` |
| `Curve` | `curve.py`: Jacobian arithmetic, points, hashing and lifting to the curve (operators, no state) | the group law, stated beside it |
| `RangeProof` | `primitives.py`, `rangeproof.py` and the wire format of `gateway.py`, over `Curve` | - |
| `MCGateway`, `MCAuditLog`, `MCRegistry`, `MCVerification`, `MCVenueHarness`, `MCRangeProof` | parameters and symmetry sets of the TLC instances | - |
| `GatewayProofs`, `AuditLogProofs`, `RegistryProofs`, `VerificationProofs`, `AgentServerProofs`, `VenueHarnessProofs`, `CurveProofs`, `RangeProofProofs` | theorems and proofs | - |

The modules meet at four seams. `Gateway` takes a proof to be the one request it
verifies for; `Verification` is where that comes from. `Verification` takes its policy
from what `Registry` installs, restart by restart. `Gateway` appends to a trail of
distinct entries; `AuditLog` provides it. `AgentServer` takes an accepted proof to be
bound to its request, and about a value within its cap only if the proof's own width
leaves no room to wrap around the group (`Tight`); `RangeProof` is where both are asked of
the engine and proved for every curve of secp256k1's shape (`QuestionsBind`,
`AcceptedSound`).

### Gateway

One action per stretch of a handler that holds, or does without, the mutex:

| action | code |
|---|---|
| `IssueContext` | `zk/context` |
| `Claim` (guard `Claimable`) | the checks of `processGovernedCall` up to `entry.used = true`, one critical section |
| `RefuseMessage` | an A2A message refused before a claim; an MCP call refused there changes nothing, so it has no action |
| `DenyUnaudited` | -32037 and -32038: denied after the claim with nothing audited |
| `Verify` | `verifyAttachment` up to the verdict |
| `RecordVerdict`, `AuditUnavailable` | `audit.Append` succeeds, or fails |
| `RecordOrder` | the ledger append of both handlers |
| `StoreTask` | `storeTask` |
| `Tick`, `Sweep` | time, and one run of `sweepExpiredContexts` |
| `CrashRestart` | the process dies and `main` starts it on the same audit file |

`pc[c]` says how far the goroutine of call `c` has got; `call[c]` is the request it
claimed its context with. `issued` and `executed` are history variables: the contexts
ever issued and the orders ever put on the ledger, which a restart does not erase.
`Asked` bounds the predicates contexts are requested for; proofs come for any of
`Predicates`. A proof is represented by the one request it verifies for; that is what binding the
proof to the canonical context gives, with a sound range proof. Request ids are
never drawn twice (64 random bits). `tasks/get`, `tasks/cancel` and `venue/orders`
read one map under the mutex and change nothing; the invariants about `tasks` and
`orders` are what they can see. The registry is a set of constants: it is read at
start and never changes while the process lives, and restarts find the same files.
A restart is one step with the crash: that the log can be reopened is `AuditLog`'s
question.

The audit trail is a sequence, and an entry is identified by its place in it. That is
what `AuditLog` provides with one process at a time (`OneProcess`): hashes are distinct
(`AckedDistinct`) and the sound part of the file is an append-only log (`LogSpec`),
whatever writes are cut short.

### AuditLog

A file is the sequence of fragments written to it: a whole line, a line without its
newline, or a torn prefix. `AloneOnLine` says which fragments a line-oriented reader can
tell apart. A hash is represented by the sequence of entries hashed so far, which is
SHA-256 without collisions. `Resume`, `OpenFails`, `StatEmpty` and `Create` are the ways
through `New`; the last two are separate because `os.Stat` and `os.Create` are. Every
error of `os.Stat`, not only a missing file, leads to `os.Create`: `StatFails` says
whether it may fail on a file that is there. The constants choose the faults: `Overlap`
lets two processes have the file open (the rolling update of the Helm chart), `CrashParts`
and `ErrorParts` are what a crash or an I/O error inside a write leaves, `Oversized` are
entries whose line the reader's 1 MiB buffer cannot hold.

### Registry

`dir` is the directory, a file being absent, torn, or a document whose signature is
valid for its content or not. `BeginDefine` and `EndDefine` are the truncation and the
write of `write_text`; `Edit`, `Copy` and `Remove` are what anybody with access to the
volume can do without the governance key: change a content (and lose its signature),
put back or duplicate something signed, delete. `List`, one `Publish` per file, `Fatal`
and `Serve` are the loading loop. `filepath.Glob` ignores errors of the directory, so
`List` may miss any of its files. `GoDown` forgets what a process had loaded. `listed`,
`read` and `signed` are history. Loading is not a snapshot: with changes in between, the
policy may mix files that never were in the directory together, or lack some. What holds is weaker
and is stated as `LoadedWhole` and `SignedPolicySpec`.

`Escaped` are contents with a text that Go and Python write differently (`<`, `>`, `&`,
anything beyond ASCII). Governance signs Python's bytes and the gateway checks Go's.

### Zkrp and Verification

A commitment is what it opens to (it is binding), a range proof is the statement its
transcript absorbed, and it exists only for two values of the width (Bulletproofs is
sound). All else is the code's: which values may be proved, that the verifier derives
the second commitment from the cap, with the wrap-around of the group, the order and the
content of the attestation checks, and which verifier runs on which attachment.

`HandleProve` is `POST /prove` by a prover of some build; `ProveElsewhere` is anybody
with the library, who may absorb a document seen before but cannot open a commitment of
the service. `Present` puts any proof, commitment, context and document together,
damaged documents included; `Outcome` is the verdict. `Restart` changes the policy at
will. Signed documents come only from provers: the mock's key, derived from a public
seed, stands in for a hardware root that the code says is to replace it, and the model
takes it for one. An attachment is assumed to decode; a commitment that is not 32 bytes
long makes `from_slice` panic, which `Gateway` has as a subprocess that fails.

### AgentServer and VenueHarness

`HTTPServer` serves one request at a time, so a request is atomic but for what can go
wrong inside it. A governed call is `Claim` (the checks of `process_governed_call`, in
`Code`, and `used`), then one of `DenyUnaudited` (-32037, or an exception of
`ProofGateway.verify` before it appends, -32038), `Record` (the entry is on file) and
`RecordRaises` (the write fails with nothing, a fragment or, when `flush` or `close` is
what raises, the whole line on file), then, for a PASS, `Execute` or `ExecuteRaises`.
Nothing else is served meanwhile, nor while a client has sent less than it announced
(`Stall`, until `StallEnds`): `rfile.read` has no timeout.

`tools/call` reads `args["order_ref"]` unchecked. An argument that is `Absent` passes for a
context issued with a null `action_ref`, and its `KeyError` comes after the PASS entry; an
explicit `Null` raises nothing and gets its order. `do_POST` turns the exception into an
error ("raised" in `told`, where a refusal is "denied"); the approval is on file, the order
is not made, and that is the one loss without a crash or a failing write
(`ApprovalsLostOnlyInFailures`).

`Crash` may come between any two steps and `CrashInRecord` inside a write; `Start`
publishes the directory and resumes the chain from the last line, or raises, and then the
server stays down. `told`, `issued` and `executed` are history. `file` is `AuditLog`'s
representation of the file with one more part, "whole", a line whose write raised; unlike
Go's, Python's resume reads the last line only, so a chain may go on behind a damaged
line, and `ResumedAtTail` is about undamaged files. A proof is the statement it absorbed
and the number its bits spell. Any width may come with any number: `AgentServerAssumption`
ties the two only where the engine does, in a width that is `Tight`.

`VenueHarness` EXTENDS it. `at` is the step the harness is at; an rpc is `Send`, which
either claims (the next step waits for `Idle` and looks at the answer) or is refused at
once. An rpc that is not answered in 30 seconds raises and ends the harness (`TimeOut`,
`gone`); its request is in the server's socket, and is served when the thread comes to it,
with nobody to look at the answer. A restart of the server is taken to last longer than
the pause between two rpcs, so that a crash ends the harness too. `Others` are other
clients and the operators, whose calls come between any two of the harness's: the harness
can be attached to a running gateway (`ZKGW_GATEWAY_URL`). They cannot guess a context id
of the harness, but call themselves, and their engine, what they like: `Telling` are the
names that contain the digits of the notional. `HandleProve` is both the prover service
and `ExecutionAgent.prove`.

`ChecksPass` is about a server whose audit file was not damaged; `Boot` requires that the
file the harness reads is the one the server has loaded, and that its cap lies between the
two values the harness proves. One check of the harness can fail all the same: it looks for
its notional in every entry of the audit file, and another client that tells those digits
makes it fail. The property says that nothing else does. The checks that the notional is
absent from the answers (verify_e2e.py:177 and 289) are about the text of messages and are
left out.

### Curve and RangeProof

The code's algorithms, for any curve `y^2 = x^3 + B` of prime order with `P % 4 = 3`, as
recursive functions; only the parameters of secp256k1 are replaced. `GroupSum` and
`LawMultiples` are the group law by chord and tangent, the reference the code's loops are
compared with. `Sums` and `Multiples` tabulate the code's operations, which TLC computes
once. A point that was read from the wire may have an abscissa that is not reduced, so
every formula reduces what it computes (`Mod`), as the code does.

A behaviour of `RangeProof` is one job: `Make` proves, identifies or signs, `Judge` judges
what came out, as it is or with one thing changed of the proof on the wire, its cap, its
context or, for the others, the response, the transcript, the message or the key. On the
wire nothing is checked to be reduced: `deserialize_proof` reads any integer for a split
challenge or a response, and `_de_point` any tag, of which the parity counts, any abscissa
and any length. `Altered` therefore contains numbers that are the same modulo `N` and
abscissas that are the same modulo `P`, and some that `absorb_point` cannot write
(`Absorbable`), for which the verifier raises. The width is the proof's own. SHA-256 is a
random oracle (`oracle`): a question not asked before has any answer, so what can only go
wrong by a collision of challenges does, and the properties say exactly which.
`ProveUnchecked` is a prover that commits to any digits and simulates what it cannot
prove. A transcript is the sequence of units absorbed: characters of labels and texts, and
numbers as `Numeral` writes them, which may be any way that keeps them apart (`Writable`
is what fits, which is more than the field and the scalars). Lengths, labels and texts are
kept apart or run together as the code does it, and nothing says that a written number
cannot also be read as text. A context keeps its values' JSON type, which `str()` forgets:
`BoundToStatement` therefore identifies `1` and `"1"`. `Init` chooses what `hash_to_curve`
makes of its digests.

Soundness is stated with what makes it fail. A challenge drawn after the commitment was
fixed can happen to be the one a dishonest prover simulated, and the numbers of a proof
can happen to give away the discrete logarithm of H, which is how a commitment would be
opened to something else. `OneChallenge` and `AcceptedIsTrue` say that nothing else can:
a bit judged at another challenge, or a digit that is not a bit, is accepted only if the
chosen challenge was hit or the numbers determine that logarithm (`LogKnown`). What bits
then show is that the two sums are the cap modulo `N`; that the value is at most the cap
follows where `2^(nbits + 1) <= N` and not beyond, and `AcceptedIsTrue` says just that.
`ResponsesFixed` likewise fixes the responses modulo `N` (`Residues`). `Nonces` are the
triples of random scalars a proof of one bit draws.

## 3. Runs

| run | instance | shows |
|---|---|---|
| `audit_sound` | 2 processes one at a time, 2 entries of which one is oversized, 5 writes, torn and unterminated ones among them | types, `ResumedAtTail`, `AckedReadable`, `AckedDistinct`, `VerifiedMeansComplete`, `LogSpec` |
| `audit_overlap_create` | two processes starting on an empty volume | `VerifiedMeansComplete` fails: `os.Create` truncates |
| `gateway_safety` | 2 calls, 2 contexts, 2 order references, 1 predicate asked for and 2 proved, 1 task, 1 crash | `OneVerdictPerContext`, `OrdersAuthorised`, `OrderPerVerdict`, `TaskImpliesOrder`, `AuthorizationSpec` |
| `gateway_liveness` | 1 call, 2 contexts, 2 predicates, attestation required, no crash | types, `PassedIsExecuted`, `Evicted` |
| `gateway_unaudited` | 1 call, 1 context | `SpentIsAudited` fails: a context is burnt without an entry |
| `gateway_predicate` | 1 call, 1 context, 2 predicates | `PredicateMatchesContext` fails: the context's predicate is never compared |
| `registry_sound` | 3 files, 4 contents (3 for one slot), 4 changes | types, `LoadedWhole`, `SignedPolicySpec` |
| `registry_encoding` | 1 file, 1 change | `SignedIsAccepted` fails: a signed file stops the gateway |
| `verification_sound` | 2-bit words, group order 8, caps 1, 2 and -1, 2 blindings, 2 contexts, 2 builds | types, `AcceptedWithinCap`, `AcceptedFromBuild`, `HonestPasses` |
| `reference_server` | the harness's 5 contexts and 1 of another client, 5 documents in 5 directories, 1 crash, 1 failing write, 1 change of the directory | types, `OneVerdictPerContext`, `OrdersAuthorised`, `OrdersWithinCap`, `NoProofReplay`, `AnswersAreTrue`, `ApprovalsLostOnlyInFailures`, `ResumedAtTail`, `AuthorizationSpec`; `ChecksPass` and `HarnessEnds` for the harness |
| `engine_sound` | 13 points, proofs of 1 and 2 bits and of 3 by provers of their own, 2 challenges, 2 generators H, 2 blindings, 2 triples of nonces, 3 contexts | types, `Complete`, `BoundToStatement`, `ResponsesFixed`, `OneChallenge`, `AcceptedIsTrue`, `BitsHidden`, `GroupLaw` |
| `engine_width` | the same points, claims of 3 bits | `AcceptedWithinCap` fails: a value of 7 is accepted under the cap 0 |

`CHECK_DEADLOCK FALSE` stands where the system may stop: a server that cannot read its
directory or its audit file never starts again, and a job of the engine ends.

**Why the bounds are enough.** Every safety property of the gateway relates at most two
calls or two contexts, and the crash is one event: two of each and one crash show every
order of events such a property can tell apart, and the theorems of section 4 remove
the bounds. A second tool, a malformed attachment and a second order reference are there
so that each check of `Claimable` refuses something. `SweepPeriod` is one tick, so an
entry passes through ages 0 to 3. `MaxChunks` of 5 writes leaves room for an
acknowledged entry, two faults, a restart and two more entries. `TaskIds` has one member:
a second call that wants to store a task waits for the sweeper, which the code does
not do; nothing is checked about when a task is stored, only what is in the store.
`gateway_safety` and `gateway_liveness` split the data: the first fixes the predicate
and lets two calls interleave, without required attestation (plain and attested payloads
then fare alike, and `Forms` has only the latter), the second lets the predicate vary,
and all forms of payload, with attestation required.

Three files are the least with which an earlier, a later and an unrelated file of the
listing differ; four changes are two defines and an edit or removal around each load,
and 4 contents give one slot two loadable documents and one that Go cannot check. Two
blindings give two proofs: both of the service, or one of each origin (`MaxElsewhere`
is 1). Words of 2 bits hold values below, at and above each cap, -1 is a cap Go can hold
and Rust cannot parse, and 8 is the least group order the assumption allows, so that a
wrap-around that could reach the range would.

`reference_server` has one other client beside the harness: a second would do nothing
that the first, with its four kinds of attachment (its own proof, the harness's, a wrong
predicate, no engine field), both surfaces and a name that tells the notional, does not do.
Its own proof is one bit wider than the policy, and of a value above the cap: it gets its
order. `OtherNames` has that one name, since a silent name is the harness's own case; its
context is for no order, and its calls give a null `order_ref` or none. `LiveChanges`
is FALSE: the server reads the directory at `Start` only, so a change while it runs cannot
be told from one after its crash, and only a harness still to boot would see it. One
failing write and one crash give each of: a fragment followed by an entry on its line, a
whole line behind the server's back followed by an entry, a crash after a PASS entry, a
start on a damaged file. The documents are the policy, a tighter cap, a negative one, an
unsigned one and one of another type, each of which is served or refused from a directory
of its own; the tighter one comes behind the policy in the same slot. Words of 2 bits and
a group order of 8 make the policy's width the last that is `Tight`. The theorems remove
the bounds, `LiveChanges` included.

In `engine_sound`, 13 is the least prime order with room for two bits
(`2^(n+1) <= N`) on a curve of the code's shape with `P % 4 = 3`; the scalars are chosen so
that commitments and announcements at the identity, a zero blinding and the addition of
equal points occur. Digits 0 to 2 in one bit and 0, 1 in two are every claim with a digit
that is not a bit or a sum that is not the cap; the four claims of three bits add up to 13
or 14 (the cap modulo 13, with values above the cap), to a cap without wrapping around, and
to neither. Abscissas beyond `P` can be written up to 13, so one that is raised by `P` may
still be absorbed and one raised by `2 * P` may not. Three contexts: the prover's, the same
characters cut elsewhere between key and value, and the number for the text. Two challenges
are enough: one is the proof's or the one a simulation has chosen, and the other is zero,
at which a response says nothing of the secret.

**Symmetry** is used for safety only: calls, request ids and order references are
interchangeable, as are the processes of the audit log. `AuthorizationSpec` is
checked with it too; its steps are compared pairwise and it names no individual. In
`verification_sound` blindings, contexts and builds are interchangeable.

**Fairness** (`FairSpec`). Weak fairness of each call's own steps: its goroutine is
scheduled, and zkrp terminates, which the code assumes too (it sets no timeout). Weak
fairness of `Tick` and `Sweep`: time passes and the ticker fires. Nobody has to
request a context or present a proof. Without crashes, since a crash between the
audit entry and the order does lose the order.

`HarnessSpec`: weak fairness of `Server`, the one thread going on with the call it serves,
and of the harness, a program that goes on when its call is answered. Nothing says that a
client that holds the thread ever lets go: no other client has to do anything. A harness
whose rpc finds the thread held waits 30 seconds at most, which is strong fairness of
`TimeOut` while a client holds it: held for short times only, again and again, the rpc is
either served in between or has waited 30 seconds at some point. Crashes are not excluded.
`HarnessEnds` therefore says that the harness comes to its end, is ended by a crash, or by
its timeout.

## 4. Theorems

All proofs are checked by TLAPS with Z3, Zenon and LS4, for every value of the
constants that satisfies the assumption of the module (`GatewayAssumption`,
`AuditLogAssumption`, `RegistryAssumption`, `ZkrpAssumption`, `VerificationAssumption`,
`AgentServerAssumption`, for the harness `VenueHarnessAssumption` and
`HarnessProofsAssumption`, and for the engine `CurveAssumption`, `GroupAssumption`,
`RootAssumption`, `RangeProofAssumption` and `TranscriptAssumption`).

**Gateway.** `IInv` is the inductive invariant. Single use alone is not inductive:
that a context is judged once follows from three facts that need each other. A call
in flight holds a spent context, each call its own (`CallsHoldContexts`); only spent
contexts have audit entries, and none before its call's verdict (`VerdictsAreLate`);
and no step makes a spent context usable again (lemma `SpentStaysSpent`), be it a
claim, an eviction or a restart. An approved call holds the PASS entry of its context,
unused so far (`ApprovalsAreOpen`); with that an order is authorised and the only one
for its entry. `TasksAreBacked` and `AgesFollowSweeper` carry the task store and the
ages. From `Invariant` follow `TypeCorrect`, `SingleVerdict`, `OrdersAreAuthorised`,
`SingleOrder`, `TasksHaveOrders`, `AgesBounded`.

`ImplementsAuthorization`: issuing is `Grant`; a claim, a sweep and a crash are `Spend`
of the contexts no call can claim any more; a PASS entry is `Approve`; the ledger append
is `Execute`; everything else stutters (lemma `AuthorizationStep`, one lemma per
action that does something).

**Audit log.** `VerifiedIsComplete` needs only that processes do not overlap, whatever
writes are cut short: either the running process extends the last readable hash, or
the chain is broken where a reader sees it. It and `ResumesAtTail`, `AckedStaysReadable`,
`AckedStayDistinct` and `ImplementsLog` assume `OneProcess`, and that `os.Stat` finds a file
that is there; none assumes that writes arrive whole.

**Registry.** `IInv` joins two parts. `SignaturesAreGovernance`: a valid signature on
disk, on its way there or in the store is governance's, whatever was edited or copied.
`LoadedSoFar`: the files read so far are before all unread ones, and each slot holds the
last read document for it; this is what makes `LoadedWhole` inductive, and it needs the
sorted order. `ImplementsSignedPolicy` maps a define to `Sign`, `Serve` to `Install`, a
fatal load and a crash to `Stop`; reading files stutters, because nothing is looked up
before the gateway listens.

**Verification.** The arithmetic is lemma `RangeSound`: with a group order of at least
twice the word, `cap - value` can open to a number of the width only if `value <= cap`.
`IInv` says that every proof there is is sound, that the service's answers are what
`ProveAttested` makes of what it was asked, and that a verdict is `Outcome` of things that
exist. From it: `WithinCap` (whoever made the proof), `FromBuild` (a document with a
valid signature is a prover's, and user_data ties it to the commitment and the context)
and `HonestProofsPass` (completeness).

**Python server.** `IInv` again carries single use: whatever is on file or answered is
spent, a call in service holds the context issued for its `order_ref` and nothing on file
is about it while it is claimed (`InService`, `JudgedSpent`, `AnsweredSpent`).
`ApprovedAuthorised` says of an approved call what `ExecutedAuthorised` says of an
executed one, that its PASS line is there, whole, under the signed policy in memory; so
`Execute` has nothing to establish but to hand it on. That an accepted proof is bound to
its request (`ProofsBound`) makes `ProofsUsedOnce`. `ApprovalsKept` is a count: of the
approvals whose call was not answered with a `KeyError`, at most one per crash or failing
write is without its order, since the call in service is the only one that can lose it;
and that answer is for a context of no order only. The refinement is that of the Go gateway with
`Claim` and `Crash` as `Spend`, a PASS `Record` as `Approve`, `Execute` as `Execute`.
`OrdersRespectCap` is about any proofs: of a proof that is not `Tight` it says that the cap
it was made for is the signed one, and nothing of its value, because nothing holds.
`AgentServerAssumption` takes the value behind a tight proof to be within the proof's cap,
which is what `AcceptedSound` shows of the engine.

**Harness.** `HarnessImplementsServer`: what the harness, the other clients, the operators
and the failures do together are steps of `AgentServer` or none, so its safety theorems
hold of the composition (`HarnessOrdersAuthorised`, `HarnessOrdersWithinCap`,
`HarnessAnswersTrue` state three of them). The strengthening is `DocHonest`: a harness
that has started holds a document that governance signed and its prover can prove; it
comes from `StoreSigned` at `Boot`, and without it an envelope the harness sends need not
be one the server's specification knows. `HarnessProofsAssumption` says that `Proofs`, the
bound on the proofs in circulation, includes those the harness makes, as they are and
tampered with.

`HarnessChecksPass` says that no check of the harness fails on a sound machine, whatever
other clients and operators do between two of its steps, but the one over all entries of
the audit file, and that one only by an entry of another client which tells the notional.
Its invariant `HInv` has four parts beside `DocHonest`: what is issued to, presented by
and recorded of the harness is in its own name (`NamedByHarness`); while the harness runs,
the policy in force is the document it read at `Boot` (`PolicyKnown`: a change of the
directory needs a restart to be seen, and a restart aborts the harness); the registry
files a document under its own predicate (`StoreKeyed`); and `Progress`, one line per step
of the program, which keeps what the steps before established true until the step that
looks at it: a context issued to the harness stays unspent, a sound call is in service or
its order is on the ledger (`Honoured`), a tampered one is being judged or has its FAIL
line (`Denied`), and what is recorded stays so. All of it stands under `Sound`: a failed
write or a damaged line makes the server refuse, and the harness notices, as it should.

**Curve.** `CurveAssumption`, `GroupAssumption` and `RootAssumption` are what is known of
secp256k1: the field and the group order are prime, `P % 4 = 3`, the law of chord and
tangent is associative, every point is a multiple of the generator, and the power
`_lift_x` raises to finds a square root where there is one. From
these it is proved that the code's arithmetic is the group's. A point in Jacobian
coordinates stands for an affine one (a congruence modulo `P`), and `JDoubleIsLaw` and
`JAddIsLaw` say that the formulas of `_jdouble` and `_jadd`, special cases
included, are the law on what they stand for; so is `__add__` (`PlusIsLaw`). With `E(k)`
for `k` times the generator, `MinusE`, `MulE` and `MultiScalarE` say that negation, the
double-and-add loop for every scalar and the loop of `multi_scalar_weighted` compute the factor
one expects, and `LiftOfCompressed` that decompressing a compressed point gives it back.
Loops are recursive functions here: that the function exists is proved first, from its
finite parts, and what it computes by induction over Nat with the set of good arguments
in the place of a predicate.

**Python engine.** The argument is in factors: every point is a multiple of the generator,
`H` is `E(h)`, a commitment to `v` under `r` is `E(v + r*h)`, and an equation of points is a
congruence modulo `N` (lemma `BitAccepted`: exactly which numbers `or_verify` accepts).
`IInv` says that what was made is what the prover's equations give (`MadeRight`), that what
was judged is what the verifier's equations give on what was presented (`JudgedRight`),
that the oracle answers with challenges and that H is a finite point. From it, in the
order of the claims of the code: `TypeCorrect`; `HonestComplete` (the bits of the cap's
difference, their blindings summing up to the commitment's, `TargetedCancels` and
`WeighDecompose`, and both branches of the OR-proof); `CommitmentsOpen`;
`ChallengeFixed`; `AcceptedSound`, for every width a proof may name: the sums are the cap
modulo `N`, since `N` is prime and the cases in which the logarithm of H is determined are
set apart, and the value is at most the cap where weighted bits of the width do not wrap
around the group order (`WeighBound`, `2^(n+1) <= N`); and `BitsStayHidden`: the proof of a
bit is, with other random scalars, also that of the other bit for the same commitment.

`QuestionsBind` is about bytes: two statements never have the same transcript. It needs a
second invariant (lemma `Origins`, about the model's own environment), which says what is
judged beside what was made: the same on the wire with one thing changed (`Presented`,
whose parts arrive as they were sent by `PresentedArrives`, a commitment with any tag,
abscissa or length by `MoveArrives`), or another key, domain or message. Then both
transcripts are read back. An absorbed number or point is taken off the end, where its
width is known (`AbsorbCut`), a text of unknown length from the front, where its length
stands (`AbsorbParse`), a sequence of points by its length (`AbsorbPointsCut`). Points read
from the wire need not be on the curve as the group has it; that two of them are written
alike only if they are equal is lemma `ReadOnce`. The
announcements have no count in front: where those of the value end and those of the
difference begin is told by their labels (`BothCut`). The items of a context have no count
either; once what follows them is off, two contexts that leave the same transcript agree
item by item from the front, and one with more items would leave more (`BindContextCut`).
`RangeFraming`, `SchnorrFraming` and `SignatureFraming` put this together for the three
kinds of question. `TranscriptAssumption` is what it stands on: lengths, coordinates and
scalars fit and are written differently (8 and 32 bytes in `absorb` and `absorb_int`), and
keys, values and messages are text.

`ResponsesAreFixed` follows from the equations, since the challenge covers no response:
with the question unchanged the commitments and announcements are unchanged, and an
equation of points determines the response in it modulo `N`, since `N` is prime and neither
the generator nor H is the identity. A number of a bit raised by one is rejected
(`MovedRejected`), one raised by `N` or `-N` is the same (`MovedReduced`); of identifications
and signatures every response is judged, and what is accepted is the one that was made or
differs from it by `N`.

**Without a run of their own.** The inductive invariants `IInv`, `AgeBounded` and, for the
Python server, `TaskImpliesOrder` were model-checked while the proofs were made and are
kept as theorems only; `IInv` of each module names the type invariant and the properties
of its runs among its parts.

**Only model-checked.** `PassedIsExecuted`, `Evicted` and `HarnessEnds`: liveness under
fairness is out of the prover's reach. Every other property of a passing run is the
property of a theorem.

## 5. Where code and text disagree

The violation runs, each with its quotation in `PROJECT.json`: `New` can truncate the
audit file after all, when two processes start on an empty volume; a context can be burnt
without an audit entry; the predicate a context was issued for is never compared with the
proof's; and a predicate with an `&` or an accent in its text is signed by the CLI and
refused by the gateway, which then does not start.

`engine_width` is about what an accepted range proof shows. `verify_range_leq` takes `nbits`
from the proof, sets it no limit and does not compare it with the policy's; the sums are
compared modulo the group order. A proof in a width with `2^(nbits + 1) > N`, for secp256k1
one of 256 bits, can therefore be accepted for a value above the cap, where
rangeproof.py:48 says that the committed value is at most the cap. In the widths the
policies use it does hold (`AcceptedSound`), and the order it lets through is the exception
`OrdersWithinCap` names. The Rust engine takes its width from the policy and is not
concerned.

Two further ways of the Go log to lose entries are stated by `OneProcess`, which its
properties assume, rather than by a run: two processes fork the chain (each links to the
hash it remembers), and `os.Create` also follows an error of `os.Stat` that says nothing of
the file. A torn last line keeps the gateway from starting until somebody repairs the
file; the same holds of the Python server.

## 6. Not modelled, and the plan

Done: both gateways, both audit logs, the registry, both range-proof engines (the Rust
one by what it states and checks, the Python one by its arithmetic), attestation, both
prover services and the harness, their abstract specifications, and proofs of the
refinements and of every safety property the passing runs check. What could follow:
`Verification` with the remaining malformed attachments (a commitment of the wrong length),
and `Gateway` over `Registry`'s policy instead of a constant.

Left out for good: the arithmetic inside Bulletproofs (assumed sound), collisions of
SHA-256, timing (neither engine is constant-time), the wording and layout of JSON-RPC
answers, key files and certificates, Helm, Docker and Terraform configuration except
where it says how many processes share the audit volume, `bench.py` and
`demo_trading.py`, which print and measure, and `schnorr_worked_example`. Power loss
between a write and its arrival on disk is listed as a hazard without a property: nothing
is fsynced, and what survives depends on the file system.
