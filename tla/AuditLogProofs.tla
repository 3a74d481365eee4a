---------------------------- MODULE AuditLogProofs ----------------------------
(***************************************************************************)
(* What AuditLog guarantees for every set of processes and entries and     *)
(* every bound on the file.                                                *)
(*                                                                         *)
(* Three inductive invariants carry the proofs: TypeOK; Exclusive (one     *)
(* process at a time, and every returned hash is on a complete line); and  *)
(* Chained (up to the first fragment the lines form a chain whose hashes   *)
(* grow by one entry at a time, and a running process is past every hash   *)
(* that was returned).  All but TypeOK assume OneProcess; none assumes     *)
(* anything of the writes, which may be cut short at any time.             *)
(***************************************************************************)
EXTENDS AuditLog, SequenceTheorems, WellFoundedInduction, TLAPS

\* A nonempty sequence has a last element.
LEMMA LastElement ==
  ASSUME NEW S, NEW s \in Seq(S), s # <<>>
  PROVE  Len(s) \in Nat \ {0} /\ s[Len(s)] \in S
<1>1. Len(s) \in Nat /\ s \in [1..Len(s) -> S]
  OBVIOUS
<1>2. Len(s) # 0
  OBVIOUS
<1> QED
  BY <1>1, <1>2

\* A nonempty set of naturals has a least element.
LEMMA LeastOf ==
  ASSUME NEW T \in SUBSET Nat, T # {}
  PROVE  \E x \in T : \A y \in T : x <= y
<1> DEFINE R == OpToRel(<, Nat)
<1>1. IsWellFoundedOn(R, Nat)
  BY NatLessThanWellFounded
<1>2. \A x, y \in Nat : y < x => <<y, x>> \in R
  BY DEF OpToRel
<1> HIDE DEF R
<1>3. PICK x \in T : \A y \in T : <<y, x>> \notin R
  BY <1>1, WFMin
<1>4. ASSUME NEW y \in T PROVE x <= y
  <2>1. x \in Nat /\ y \in Nat /\ ~(y < x)
    BY <1>2, <1>3
  <2> QED
    BY <2>1
<1> QED
  BY <1>4

\* A function on 1..n is a sequence of length n.
LEMMA FunctionIsSeq ==
  ASSUME NEW S, NEW n \in Nat, NEW g \in [1..n -> S]
  PROVE  g \in Seq(S) /\ Len(g) = n
<1>1. g \in Seq(S)
  BY SeqDef
<1>2. Len(g) \in Nat /\ DOMAIN g = 1..Len(g)
  BY <1>1, LenProperties
<1> QED
  BY <1>1, <1>2

-----------------------------------------------------------------------------
(* Type correctness *)

\* The four variables keep their types, whatever faults are allowed.
THEOREM TypeCorrect == Spec => []TypeOK
<1>1. Init => TypeOK
  BY DEF Init, TypeOK, Genesis, Hashes
<1>2. TypeOK /\ [Next]_vars => TypeOK'
  <2> SUFFICES ASSUME TypeOK, [Next]_vars PROVE TypeOK'
    OBVIOUS
  <2> USE DEF TypeOK
  <2>1. ASSUME NEW p \in Procs, NEW e \in Entry, NEW part \in Parts,
               Write(p, e, part)
        PROVE  file' \in Seq(Chunk)
    <3>1. Hash(prev[p], e) \in Hashes
      BY DEF Hash, Hashes
    <3>2. [entry |-> e, prev |-> prev[p], hash |-> Hash(prev[p], e),
           part |-> part] \in Chunk
      BY <3>1 DEF Chunk
    <3> QED
      BY <2>1, <3>2 DEF Write
  <2>2. ASSUME NEW p \in Procs, Resume(p) PROVE TypeOK'
    <3>1. file[Len(file)] \in Chunk
      BY <2>2, LastElement DEF Resume
    <3>2. LastEntryHash(file) \in Hashes
      BY <2>2, <3>1 DEF LastEntryHash, Chunk, Resume
    <3> QED
      BY <2>2, <3>2 DEF Resume
  <2>3. ASSUME NEW p \in Procs, OpenFails(p) PROVE TypeOK'
    BY <2>3 DEF OpenFails
  <2>4. ASSUME NEW p \in Procs, StatEmpty(p) PROVE TypeOK'
    BY <2>4 DEF StatEmpty
  <2>5. ASSUME NEW p \in Procs, Create(p) PROVE TypeOK'
    BY <2>5 DEF Create, Genesis, Hashes
  <2>6. ASSUME NEW p \in Procs, Crash(p) PROVE TypeOK'
    BY <2>6 DEF Crash
  <2>7. ASSUME NEW p \in Procs, NEW e \in Entry, AppendEntry(p, e)
        PROVE  TypeOK'
    <3>1. Hash(prev[p], e) \in Hashes
      BY DEF Hash, Hashes
    <3> QED
      BY <2>1, <2>7, <3>1 DEF AppendEntry, Parts
  <2>8. ASSUME NEW p \in Procs, NEW e \in Entry, AppendFails(p, e)
        PROVE  TypeOK'
    BY <2>1, <2>8, AuditLogAssumption DEF AppendFails
  <2>9. ASSUME NEW p \in Procs, NEW e \in Entry, CrashInAppend(p, e)
        PROVE  TypeOK'
    BY <2>1, <2>9, AuditLogAssumption DEF CrashInAppend, Parts
  <2>10. CASE UNCHANGED vars
    BY <2>10 DEF vars
  <2> QED
    BY <2>2, <2>3, <2>4, <2>5, <2>6, <2>7, <2>8, <2>9, <2>10 DEF Next
<1> QED
  BY <1>1, <1>2, PTL DEF Spec
\* A write adds one fragment and leaves the others in place.
LEMMA WriteExtends ==
  ASSUME TypeOK, NEW p \in Procs, NEW e \in Entry, NEW part \in Parts,
         Write(p, e, part)
  PROVE  /\ file' \in Seq(Chunk)
         /\ Len(file') = Len(file) + 1
         /\ \A i \in 1..Len(file) : file'[i] = file[i]
         /\ file'[Len(file')] = [entry |-> e, prev |-> prev[p],
                                 hash |-> Hash(prev[p], e), part |-> part]
<1>1. Hash(prev[p], e) \in Hashes
  BY DEF Hash, Hashes, TypeOK
<1>2. [entry |-> e, prev |-> prev[p], hash |-> Hash(prev[p], e),
       part |-> part] \in Chunk
  BY <1>1 DEF Chunk, TypeOK
<1> QED
  BY <1>2 DEF Write, TypeOK

-----------------------------------------------------------------------------
(* One process at a time, and nothing that was acknowledged is ever erased *)

\* Every returned hash is the hash of a line written whole.
AckedStored ==
    \A k \in 1..Len(acked) :
        \E i \in 1..Len(file) : file[i].part = "line" /\ file[i].hash = acked[k]

\* At most one process runs, and the file is still empty when it creates it:
\* that is why the truncation in os.Create is harmless.
Exclusive ==
    /\ \A p, q \in Procs : Running(p) /\ Running(q) => p = q
    /\ \A p \in Procs : status[p] = "creating" => file = <<>>
    /\ AckedStored

LEMMA ExclusiveInit == Init => Exclusive
BY DEF Init, Exclusive, Running, AckedStored

\* A write by the running process keeps Exclusive's first two parts and every
\* line AckedStored relies on.
LEMMA WriteExclusive ==
  ASSUME TypeOK, Exclusive, NEW p \in Procs, status[p] = "up",
         NEW e \in Entry, NEW part \in Parts, Write(p, e, part),
         status' \in {status, [status EXCEPT ![p] = "down"]},
         \/ acked' = acked
         \/ part = "line" /\ acked' = Append(acked, Hash(prev[p], e))
  PROVE  Exclusive'
<1>1. /\ file' \in Seq(Chunk)
      /\ Len(file') = Len(file) + 1
      /\ \A i \in 1..Len(file) : file'[i] = file[i]
      /\ file'[Len(file')] = [entry |-> e, prev |-> prev[p],
                              hash |-> Hash(prev[p], e), part |-> part]
  BY WriteExtends
<1>2. \A q, r \in Procs : Running(q)' /\ Running(r)' => q = r
  BY DEF Exclusive, Running, TypeOK
<1>3. \A q \in Procs : status'[q] # "creating"
  BY DEF Exclusive, Running, TypeOK
<1>4. AckedStored'
  <2>1. Len(file) \in Nat /\ Len(acked) \in Nat
    BY DEF TypeOK
  <2> SUFFICES ASSUME NEW k \in 1..Len(acked')
               PROVE  \E i \in 1..Len(file') :
                          file'[i].part = "line" /\ file'[i].hash = acked'[k]
    BY DEF AckedStored
  <2>2. CASE k \in 1..Len(acked)
    <3>1. acked'[k] = acked[k]
      BY <2>2 DEF TypeOK
    <3>2. PICK i \in 1..Len(file) :
              file[i].part = "line" /\ file[i].hash = acked[k]
      BY <2>2 DEF Exclusive, AckedStored
    <3> QED
      BY <1>1, <2>1, <3>1, <3>2
  <2>3. CASE k \notin 1..Len(acked)
    <3>1. part = "line" /\ acked' = Append(acked, Hash(prev[p], e))
      BY <2>3
    <3>2. acked'[k] = Hash(prev[p], e)
      BY <2>1, <2>3, <3>1 DEF TypeOK
    <3> QED
      BY <1>1, <2>1, <3>1, <3>2
  <2> QED
    BY <2>2, <2>3
<1> QED
  BY <1>2, <1>3, <1>4 DEF Exclusive

LEMMA ExclusiveStep ==
  ASSUME OneProcess, TypeOK, Exclusive, [Next]_vars
  PROVE  Exclusive'
<1> USE DEF OneProcess
<1>1. ASSUME NEW p \in Procs, Resume(p) PROVE Exclusive'
  BY <1>1 DEF Resume, MayStart, Exclusive, Running, AckedStored, TypeOK
<1>2. ASSUME NEW p \in Procs, OpenFails(p) PROVE Exclusive'
  BY <1>2 DEF OpenFails, MayStart, Exclusive, Running, AckedStored, TypeOK
<1>3. ASSUME NEW p \in Procs, StatEmpty(p) PROVE Exclusive'
  BY <1>3 DEF StatEmpty, MayStart, Exclusive, Running, AckedStored, TypeOK
<1>4. ASSUME NEW p \in Procs, Create(p) PROVE Exclusive'
  <2>1. file = <<>> /\ file' = file
    BY <1>4 DEF Create, Exclusive
  <2> QED
    BY <1>4, <2>1 DEF Create, Exclusive, Running, AckedStored, TypeOK
<1>5. ASSUME NEW p \in Procs, Crash(p) PROVE Exclusive'
  BY <1>5 DEF Crash, Exclusive, Running, AckedStored, TypeOK
<1>6. ASSUME NEW p \in Procs, NEW e \in Entry, AppendEntry(p, e)
      PROVE  Exclusive'
  BY <1>6, WriteExclusive DEF AppendEntry, Parts
<1>7. ASSUME NEW p \in Procs, NEW e \in Entry, AppendFails(p, e)
      PROVE  Exclusive'
  <2>1. PICK part \in Parts : Write(p, e, part)
    BY <1>7, AuditLogAssumption DEF AppendFails
  <2> QED
    BY <1>7, <2>1, WriteExclusive DEF AppendFails
<1>8. ASSUME NEW p \in Procs, NEW e \in Entry, CrashInAppend(p, e)
      PROVE  Exclusive'
  <2>1. PICK part \in Parts : Write(p, e, part)
    BY <1>8, AuditLogAssumption DEF CrashInAppend, Parts
  <2> QED
    BY <1>8, <2>1, WriteExclusive DEF CrashInAppend
<1>9. CASE UNCHANGED vars
  BY <1>9 DEF vars, Exclusive, Running, AckedStored
<1> QED
  BY <1>1, <1>2, <1>3, <1>4, <1>5, <1>6, <1>7, <1>8, <1>9 DEF Next

\* With one process at a time, whatever writes are cut short: a file that
\* verifies holds every entry whose hash Append ever returned.
THEOREM VerifiedIsComplete ==
  ASSUME OneProcess
  PROVE  Spec => []VerifiedMeansComplete
<1>1. TypeOK /\ Exclusive /\ [Next]_vars => Exclusive'
  BY ExclusiveStep
<1>2. Exclusive => VerifiedMeansComplete
  BY DEF Exclusive, AckedStored, VerifiedMeansComplete
<1> QED
  BY <1>1, <1>2, ExclusiveInit, TypeCorrect, PTL DEF Spec
-----------------------------------------------------------------------------
(* The chain holds across restarts, up to the first fragment *)

\* Chunk i of f stands behind whole lines only.
Leads(f, i) == \A j \in 1..i - 1 : f[j].part = "line"

\* Up to the first fragment, that one included, the file is a chain whose
\* hashes are one entry longer than the one before; while there is none, the
\* running process stands at the end of it; and a running process stands
\* after every hash that was returned, damage or not, so returned hashes grow.
Chained ==
    /\ \A i \in 1..Len(file) : Leads(file, i) =>
          Links(file, i) /\ Len(file[i].hash) = i
    /\ \A p \in Procs :
          status[p] = "up" /\ (\A i \in 1..Len(file) : file[i].part = "line")
              => prev[p] = LastEntryHash(file)
    /\ \A p \in Procs : status[p] = "up" =>
          \A k \in 1..Len(acked) : Len(acked[k]) <= Len(prev[p])
    /\ \A j, k \in 1..Len(acked) : j < k => Len(acked[j]) < Len(acked[k])

LEMMA ChainedInit == Init => Chained
BY DEF Init, Chained

\* The hash a restart takes from a file is as long as the file.
LEMMA LengthOfLast ==
  ASSUME TypeOK, Chained, \A i \in 1..Len(file) : Leads(file, i)
  PROVE  LastEntryHash(file) \in Hashes /\ Len(LastEntryHash(file)) = Len(file)
<1>1. CASE file = <<>>
  BY <1>1 DEF LastEntryHash, Genesis, Hashes
<1>2. CASE file # <<>>
  <2>1. Len(file) \in 1..Len(file) /\ file[Len(file)] \in Chunk
    BY <1>2, LastElement DEF TypeOK
  <2> QED
    BY <1>2, <2>1 DEF LastEntryHash, Chained, Chunk
<1> QED
  BY <1>1, <1>2

\* In a file that a reader can read, only the last line can be a fragment.
LEMMA ReadableLeads ==
  ASSUME NEW f \in Seq(Chunk), Readable(f)
  PROVE  \A i \in 1..Len(f) : Leads(f, i)
<1> SUFFICES ASSUME NEW i \in 1..Len(f), NEW j \in 1..i - 1
             PROVE  f[j].part = "line"
  BY DEF Leads
<1>1. Len(f) \in Nat /\ j \in 1..Len(f) /\ j < Len(f)
  OBVIOUS
<1> QED
  BY <1>1 DEF Readable, Parses, AloneOnLine

\* A returned hash is no longer than the part of the file that is a chain.
LEMMA AckedShort ==
  ASSUME TypeOK, AckedStored, Chained, NEW k \in 1..Len(acked),
         \A i \in 1..Len(file) : Leads(file, i)
  PROVE  Len(acked[k]) \in 1..Len(file)
BY DEF AckedStored, Chained

\* A write keeps the chain up to the first fragment.
LEMMA WriteChains ==
  ASSUME TypeOK, Chained, NEW p \in Procs, status[p] = "up",
         NEW e \in Entry, NEW part \in Parts, Write(p, e, part)
  PROVE  /\ \A i \in 1..Len(file') : Leads(file', i) =>
              Links(file', i) /\ Len(file'[i].hash) = i
         /\ LastEntryHash(file') = Hash(prev[p], e)
         /\ Len(Hash(prev[p], e)) = Len(prev[p]) + 1
         /\ file'[Len(file')].part = part
<1>1. /\ file' \in Seq(Chunk)
      /\ Len(file') = Len(file) + 1
      /\ \A i \in 1..Len(file) : file'[i] = file[i]
      /\ file'[Len(file')] = [entry |-> e, prev |-> prev[p],
                              hash |-> Hash(prev[p], e), part |-> part]
  BY WriteExtends
<1>2. Len(file) \in Nat /\ prev[p] \in Seq(Entry)
  BY DEF TypeOK, Hashes
<1>3. Len(Hash(prev[p], e)) = Len(prev[p]) + 1
  BY <1>2 DEF Hash
<1>4. LastEntryHash(file') = Hash(prev[p], e)
  BY <1>1, <1>2 DEF LastEntryHash
<1>5. ASSUME NEW i \in 1..Len(file), Leads(file', i)
      PROVE  Links(file', i) /\ Len(file'[i].hash) = i
  <2>1. file'[i] = file[i] /\ (i # 1 => file'[i - 1] = file[i - 1])
    BY <1>1, <1>2
  <2>2. Leads(file, i)
    BY <1>1, <1>2, <1>5 DEF Leads
  <2> QED
    BY <2>1, <2>2 DEF Chained, Links
<1>6. ASSUME Leads(file', Len(file'))
      PROVE  Links(file', Len(file')) /\ Len(file'[Len(file')].hash) = Len(file')
  <2>1. \A i \in 1..Len(file) : file[i].part = "line"
    BY <1>1, <1>2, <1>6 DEF Leads
  <2>2. prev[p] = LastEntryHash(file)
    BY <2>1 DEF Chained
  <2>3. Len(prev[p]) = Len(file)
    BY <2>1, <2>2, LengthOfLast DEF Leads
  <2>4. CASE file = <<>>
    BY <1>1, <1>2, <1>3, <2>2, <2>3, <2>4 DEF LastEntryHash, Links
  <2>5. CASE file # <<>>
    <3>0. Len(file) \in Nat \ {0}
      BY <2>5, LastElement DEF TypeOK
    <3>1. Len(file) # 0 /\ file'[Len(file)] = file[Len(file)]
      BY <1>1, <3>0
    <3> QED
      BY <1>1, <1>2, <1>3, <2>2, <2>3, <2>5, <3>1 DEF LastEntryHash, Links
  <2> QED
    BY <2>4, <2>5
<1>7. \A i \in 1..Len(file') : i \in 1..Len(file) \/ i = Len(file')
  BY <1>1, <1>2
<1> QED
  BY <1>1, <1>3, <1>4, <1>5, <1>6, <1>7

LEMMA ChainedStep ==
  ASSUME OneProcess, TypeOK, Exclusive, Chained, [Next]_vars
  PROVE  Chained'
<1> USE DEF OneProcess
<1>1. ASSUME NEW p \in Procs, Resume(p) PROVE Chained'
  <2>1. \A i \in 1..Len(file) : Leads(file, i)
    BY <1>1, ReadableLeads DEF Resume, TypeOK
  <2>2. \A q \in Procs : status'[q] = "up" => q = p
    BY <1>1 DEF Resume, MayStart, Running, TypeOK
  <2>3. prev'[p] = LastEntryHash(file)
    BY <1>1 DEF Resume, TypeOK
  <2>4. \A k \in 1..Len(acked) : Len(acked[k]) <= Len(prev'[p])
    BY <2>1, <2>3, LengthOfLast, AckedShort DEF Exclusive, TypeOK
  <2> QED
    BY <1>1, <2>2, <2>3, <2>4 DEF Resume, Chained
<1>2. ASSUME NEW p \in Procs, OpenFails(p) PROVE Chained'
  BY <1>2 DEF OpenFails, Chained, TypeOK
<1>3. ASSUME NEW p \in Procs, StatEmpty(p) PROVE Chained'
  BY <1>3 DEF StatEmpty, Chained, TypeOK
<1>4. ASSUME NEW p \in Procs, Create(p) PROVE Chained'
  <2>1. file = <<>> /\ file' = file
    BY <1>4 DEF Create, Exclusive
  <2>2. \A q \in Procs : status'[q] = "up" => q = p
    BY <1>4 DEF Create, Exclusive, Running, TypeOK
  <2>3. prev'[p] = LastEntryHash(file)
    BY <1>4, <2>1 DEF Create, LastEntryHash, TypeOK
  <2>4. 1..Len(acked) = {}
    BY <2>1 DEF Exclusive, AckedStored
  <2> QED
    BY <1>4, <2>1, <2>2, <2>3, <2>4 DEF Create, Chained
<1>5. ASSUME NEW p \in Procs, Crash(p) PROVE Chained'
  BY <1>5 DEF Crash, Chained, TypeOK
<1>6. ASSUME NEW p \in Procs, NEW e \in Entry, AppendEntry(p, e)
      PROVE  Chained'
  <2>1. /\ \A i \in 1..Len(file') : Leads(file', i) =>
            Links(file', i) /\ Len(file'[i].hash) = i
        /\ LastEntryHash(file') = Hash(prev[p], e)
        /\ Len(Hash(prev[p], e)) = Len(prev[p]) + 1
    BY <1>6, WriteChains DEF AppendEntry, Parts
  <2>2. \A q \in Procs : status'[q] = "up" => q = p
    BY <1>6 DEF AppendEntry, Exclusive, Running
  <2>3. prev'[p] = Hash(prev[p], e)
    BY <1>6 DEF AppendEntry, TypeOK
  <2>4. /\ Len(acked) \in Nat
        /\ Len(prev[p]) \in Nat
        /\ \A k \in 1..Len(acked) : Len(acked[k]) \in Nat /\ Len(acked[k]) <= Len(prev[p])
    BY <1>6 DEF TypeOK, Hashes, Chained, AppendEntry
  <2>5. /\ Len(acked') = Len(acked) + 1
        /\ acked'[Len(acked) + 1] = Hash(prev[p], e)
        /\ \A k \in 1..Len(acked) : acked'[k] = acked[k]
    BY <1>6 DEF AppendEntry, TypeOK
  <2>6. \A k \in 1..Len(acked') : Len(acked'[k]) <= Len(prev'[p])
    BY <2>1, <2>3, <2>4, <2>5
  <2>7. ASSUME NEW j \in 1..Len(acked'), NEW k \in 1..Len(acked'), j < k
        PROVE  Len(acked'[j]) < Len(acked'[k])
    <3>1. j \in 1..Len(acked)
      BY <2>4, <2>5, <2>7
    <3>2. CASE k \in 1..Len(acked)
      BY <2>5, <2>7, <3>1, <3>2 DEF Chained
    <3>3. CASE k = Len(acked) + 1
      BY <2>1, <2>4, <2>5, <3>1, <3>3
    <3> QED
      BY <2>4, <2>5, <3>2, <3>3
  <2> QED
    BY <2>1, <2>2, <2>3, <2>6, <2>7 DEF Chained
<1>7. ASSUME NEW p \in Procs, NEW e \in Entry, AppendFails(p, e)
      PROVE  Chained'
  <2>1. PICK part \in Parts \ {"line"} : Write(p, e, part)
    BY <1>7, AuditLogAssumption DEF AppendFails
  <2>2. /\ \A i \in 1..Len(file') : Leads(file', i) =>
            Links(file', i) /\ Len(file'[i].hash) = i
        /\ file'[Len(file')].part # "line"
    BY <1>7, <2>1, WriteChains DEF AppendFails
  <2>3. Len(file') \in 1..Len(file')
    <3>1. Len(file') = Len(file) + 1
      BY <2>1, WriteExtends
    <3> QED
      BY <3>1 DEF TypeOK
  <2> QED
    BY <1>7, <2>2, <2>3 DEF AppendFails, Chained
<1>8. ASSUME NEW p \in Procs, NEW e \in Entry, CrashInAppend(p, e)
      PROVE  Chained'
  <2>1. PICK part \in Parts : Write(p, e, part)
    BY <1>8, AuditLogAssumption DEF CrashInAppend, Parts
  <2>2. \A i \in 1..Len(file') : Leads(file', i) =>
            Links(file', i) /\ Len(file'[i].hash) = i
    BY <1>8, <2>1, WriteChains DEF CrashInAppend
  <2>3. \A q \in Procs : status'[q] # "up"
    BY <1>8 DEF CrashInAppend, Exclusive, Running, TypeOK
  <2> QED
    BY <1>8, <2>2, <2>3 DEF CrashInAppend, Chained
<1>9. CASE UNCHANGED vars
  BY <1>9 DEF vars, Chained
<1> QED
  BY <1>1, <1>2, <1>3, <1>4, <1>5, <1>6, <1>7, <1>8, <1>9 DEF Next

\* With one process at a time the three invariants hold together.
LEMMA TogetherInvariant ==
  ASSUME OneProcess
  PROVE  Spec => [](TypeOK /\ Exclusive /\ Chained)
<1>1. TypeOK /\ Exclusive /\ [Next]_vars => Exclusive'
  BY ExclusiveStep
<1>2. TypeOK /\ Exclusive /\ Chained /\ [Next]_vars => Chained'
  BY ChainedStep
<1> QED
  BY <1>1, <1>2, ExclusiveInit, ChainedInit, TypeCorrect, PTL DEF Spec

\* While no write was cut short, a running process stands at the end of an
\* unbroken chain.
THEOREM ResumesAtTail ==
  ASSUME OneProcess
  PROVE  Spec => []ResumedAtTail
<1>1. ASSUME TypeOK, Chained PROVE ResumedAtTail
  BY <1>1 DEF TypeOK, Chained, ResumedAtTail, Leads
<1> QED
  BY <1>1, TogetherInvariant, PTL

\* A reader gets all lines before the first damaged one.
LEMMA SoundIsReadable ==
  ASSUME NEW f \in Seq(Chunk), NEW n \in 0..Len(f), \A i \in 1..n : Sound(f, i)
  PROVE  ReadableLength(f) \in n..Len(f)
<1> DEFINE Stops(m) == /\ \A i \in 1..m : Parses(f, i)
                       /\ m < Len(f) => ~Parses(f, m + 1)
<1>1. Len(f) \in Nat /\ n \in Nat
  OBVIOUS
<1>2. \A i \in 1..n : Parses(f, i)
  BY <1>1 DEF Sound, Parses, AloneOnLine
<1>3. \E m \in 0..Len(f) : Stops(m)
  <2>1. CASE \A i \in 1..Len(f) : Parses(f, i)
    BY <1>1, <2>1
  <2>2. CASE \E i \in 1..Len(f) : ~Parses(f, i)
    <3> DEFINE B == {i \in 1..Len(f) : ~Parses(f, i)}
    <3>1. B \in SUBSET Nat /\ B # {}
      BY <2>2
    <3>2. PICK b \in B : \A i \in B : b <= i
      BY <3>1, LeastOf
    <3>3. b \in 1..Len(f) /\ ~Parses(f, b) /\ \A i \in 1..b - 1 : Parses(f, i)
      BY <1>1, <3>2
    <3>4. b - 1 \in 0..Len(f) /\ (b - 1) + 1 = b
      BY <1>1, <3>3
    <3>5. Stops(b - 1)
      BY <3>3, <3>4
    <3> QED
      BY <3>4, <3>5
  <2> QED
    BY <2>1, <2>2
<1>4. PICK m \in 0..Len(f) : m = ReadableLength(f) /\ Stops(m)
  <2>1. ReadableLength(f) = CHOOSE m \in 0..Len(f) : Stops(m)
    BY DEF ReadableLength
  <2> HIDE DEF Stops
  <2> QED
    BY <1>3, <2>1
<1>5. ~(m < n)
  BY <1>1, <1>2, <1>4
<1> QED
  BY <1>1, <1>4, <1>5

\* Every entry whose hash was returned stays readable unless damage precedes
\* it, or it is oversized itself.
THEOREM AckedStaysReadable ==
  ASSUME OneProcess
  PROVE  Spec => []AckedReadable
<1>1. ASSUME TypeOK, Exclusive PROVE AckedReadable
  <2> SUFFICES ASSUME NEW k \in 1..Len(acked)
               PROVE  \E i \in 1..Len(file) :
                          /\ file[i].hash = acked[k]
                          /\ i <= ReadableLength(file) \/ \E j \in 1..i : ~Sound(file, j)
    BY DEF AckedReadable
  <2>1. PICK i \in 1..Len(file) : file[i].hash = acked[k]
    BY <1>1 DEF Exclusive, AckedStored
  <2>2. CASE \A j \in 1..i : Sound(file, j)
    <3>1. ReadableLength(file) \in i..Len(file)
      BY <1>1, <2>2, SoundIsReadable DEF TypeOK
    <3> QED
      BY <2>1, <3>1
  <2> QED
    BY <2>1, <2>2
<1> QED
  BY <1>1, TogetherInvariant, PTL

\* No hash is ever returned twice.
THEOREM AckedStayDistinct ==
  ASSUME OneProcess
  PROVE  Spec => []AckedDistinct
<1>1. ASSUME TypeOK, Chained PROVE AckedDistinct
  <2> SUFFICES ASSUME NEW j \in 1..Len(acked), NEW k \in 1..Len(acked),
                      acked[j] = acked[k]
               PROVE  j = k
    BY DEF AckedDistinct
  <2>1. j \in Nat /\ k \in Nat /\ Len(acked[j]) \in Nat
    BY <1>1 DEF TypeOK, Hashes
  <2> QED
    BY <1>1, <2>1 DEF Chained
<1> QED
  BY <1>1, TogetherInvariant, PTL
-----------------------------------------------------------------------------
(* The file implements an append-only log *)

\* The lines before any damage in file f.
LogOf(f) == [i \in 1..SettledLength(f) |-> f[i].entry]

\* Every fragment carries an entry.
LEMMA EntryOfChunk ==
  ASSUME NEW f \in Seq(Chunk), NEW i \in 1..Len(f)
  PROVE  f[i].entry \in Entry
<1>1. f[i] \in Chunk
  BY ElementOfSeq
<1> QED
  BY <1>1 DEF Chunk

\* SettledLength is the only length that stops at the first damaged line.
LEMMA SettledIs ==
  ASSUME NEW f \in Seq(Chunk), NEW n \in 0..Len(f),
         \A i \in 1..n : Sound(f, i), n < Len(f) => ~Sound(f, n + 1)
  PROVE  SettledLength(f) = n
<1> DEFINE Stops(m) == /\ \A i \in 1..m : Sound(f, i)
                       /\ m < Len(f) => ~Sound(f, m + 1)
<1>1. Len(f) \in Nat /\ n \in Nat
  OBVIOUS
<1>2. Stops(n)
  OBVIOUS
<1>3. ASSUME NEW m \in 0..Len(f), Stops(m) PROVE m = n
  <2>1. ~(m < n)
    BY <1>1, <1>3
  <2>2. ~(n < m)
    BY <1>1, <1>2, <1>3
  <2> QED
    BY <1>1, <2>1, <2>2
<1>4. SettledLength(f) = CHOOSE m \in 0..Len(f) : Stops(m)
  BY DEF SettledLength
<1> HIDE DEF Stops
<1> QED
  BY <1>2, <1>3, <1>4

\* There always is such a length.
LEMMA SettledStops ==
  ASSUME NEW f \in Seq(Chunk)
  PROVE  /\ SettledLength(f) \in 0..Len(f)
         /\ \A i \in 1..SettledLength(f) : Sound(f, i)
         /\ SettledLength(f) < Len(f) => ~Sound(f, SettledLength(f) + 1)
<1>1. Len(f) \in Nat
  OBVIOUS
<1>2. CASE \A i \in 1..Len(f) : Sound(f, i)
  BY <1>1, <1>2, SettledIs
<1>3. CASE \E i \in 1..Len(f) : ~Sound(f, i)
  <2> DEFINE B == {i \in 1..Len(f) : ~Sound(f, i)}
  <2>0. B \in SUBSET Nat /\ B # {}
    BY <1>3
  <2>1. PICK b \in B : \A i \in B : b <= i
    BY <2>0, LeastOf
  <2>2. b \in 1..Len(f) /\ ~Sound(f, b) /\ \A i \in 1..b - 1 : Sound(f, i)
    BY <1>1, <2>1
  <2> HIDE DEF B
  <2>3. b - 1 \in 0..Len(f) /\ (b - 1) + 1 = b
    BY <1>1, <2>2
  <2>4. SettledLength(f) = b - 1
    BY <2>2, <2>3, SettledIs
  <2> QED
    BY <2>2, <2>3, <2>4
<1> QED
  BY <1>2, <1>3

\* A write adds its entry to the log if it is whole and all before it was.
LEMMA WriteLogs ==
  ASSUME TypeOK, NEW p \in Procs, NEW e \in Entry, NEW part \in Parts,
         Write(p, e, part)
  PROVE  LogOf(file') = LogOf(file) \/ LogOf(file') = Append(LogOf(file), e)
<1> DEFINE n == SettledLength(file)
<1>1. /\ file' \in Seq(Chunk)
      /\ Len(file') = Len(file) + 1
      /\ \A i \in 1..Len(file) : file'[i] = file[i]
      /\ file'[Len(file')] = [entry |-> e, prev |-> prev[p],
                              hash |-> Hash(prev[p], e), part |-> part]
  BY WriteExtends
<1>2. /\ Len(file) \in Nat /\ file \in Seq(Chunk)
      /\ n \in 0..Len(file)
      /\ \A i \in 1..n : Sound(file, i)
      /\ n < Len(file) => ~Sound(file, n + 1)
  BY SettledStops DEF TypeOK
<1> HIDE DEF n
<1>3. \A i \in 1..Len(file) : Sound(file', i) <=> Sound(file, i)
  BY <1>1 DEF Sound
<1>4. \A i \in 1..n : Sound(file', i) /\ file'[i] = file[i]
  BY <1>1, <1>2, <1>3
<1>5. CASE n < Len(file) \/ ~Sound(file', Len(file'))
  <2>1. n \in 0..Len(file') /\ n < Len(file') /\ ~Sound(file', n + 1)
    <3>1. CASE n < Len(file)
      BY <1>1, <1>2, <1>3, <3>1
    <3>2. CASE n = Len(file) /\ ~Sound(file', Len(file'))
      BY <1>1, <1>2, <3>2
    <3> QED
      BY <1>2, <1>5, <3>1, <3>2
  <2>2. SettledLength(file') = n
    BY <1>1, <1>4, <2>1, SettledIs
  <2> QED
    BY <1>4, <2>2 DEF LogOf, n
<1>6. CASE n = Len(file) /\ Sound(file', Len(file'))
  <2>1. \A i \in 1..Len(file') : Sound(file', i)
    BY <1>1, <1>2, <1>4, <1>6
  <2>2. SettledLength(file') = Len(file) + 1
    BY <1>1, <1>2, <2>1, SettledIs
  <2>3. LogOf(file) \in Seq(Entry) /\ Len(LogOf(file)) = Len(file)
    <3>1. \A i \in 1..Len(file) : file[i].entry \in Entry
      BY <1>2, EntryOfChunk
    <3>2. LogOf(file) \in [1..Len(file) -> Entry]
      BY <1>6, <3>1 DEF LogOf, n
    <3> QED
      BY <1>2, <3>2, FunctionIsSeq
  <2>4. LogOf(file') \in Seq(Entry) /\ Len(LogOf(file')) = Len(file) + 1
    <3>1. \A i \in 1..Len(file') : file'[i].entry \in Entry
      BY <1>1, EntryOfChunk
    <3>2. LogOf(file') \in [1..Len(file) + 1 -> Entry]
      BY <1>1, <2>2, <3>1 DEF LogOf
    <3> QED
      BY <1>2, <3>2, FunctionIsSeq
  <2>5. /\ Append(LogOf(file), e) \in Seq(Entry)
        /\ Len(Append(LogOf(file), e)) = Len(file) + 1
    BY <2>3
  <2>6. file'[Len(file) + 1].entry = e
    BY <1>1
  <2>7. \A i \in 1..Len(file) + 1 : LogOf(file')[i] = Append(LogOf(file), e)[i]
    BY <1>1, <1>2, <1>6, <2>2, <2>3, <2>6 DEF LogOf, n
  <2> QED
    BY <2>4, <2>5, <2>7, SeqEqual
<1> QED
  BY <1>2, <1>5, <1>6

\* One step of the file appends one entry to the log, or none.
LEMMA LogStep ==
  ASSUME OneProcess, TypeOK, Exclusive, [Next]_vars
  PROVE  \/ LogOf(file') = LogOf(file)
         \/ \E e \in Entry : LogOf(file') = Append(LogOf(file), e)
<1>1. ASSUME NEW p \in Procs, Create(p) PROVE file' = file
  BY <1>1 DEF Create, Exclusive
<1>2. ASSUME NEW p \in Procs, NEW e \in Entry,
             AppendEntry(p, e) \/ AppendFails(p, e) \/ CrashInAppend(p, e)
      PROVE  \E part \in Parts : Write(p, e, part)
  BY <1>2, AuditLogAssumption DEF AppendEntry, AppendFails, CrashInAppend, Parts
<1>3. \/ file' = file
      \/ \E p \in Procs, e \in Entry :
            AppendEntry(p, e) \/ AppendFails(p, e) \/ CrashInAppend(p, e)
  BY <1>1 DEF Next, vars, Resume, OpenFails, StatEmpty, Crash
<1> QED
  BY <1>2, <1>3, WriteLogs

\* The sound part of the file is an append-only log: restarts, resumed chains
\* and the damage behind it are invisible to its readers.
THEOREM ImplementsLog ==
  ASSUME OneProcess
  PROVE  Spec => LogSpec
<1>1. Init => Log!Init
  <2> SUFFICES ASSUME Init PROVE LogOf(file) = <<>>
    BY DEF Log!Init, LogOf
  <2>1. file = <<>> /\ file \in Seq(Chunk) /\ Len(file) = 0
    BY DEF Init
  <2>2. 0 \in 0..Len(file) /\ (\A i \in 1..0 : Sound(file, i)) /\ ~(0 < Len(file))
    BY <2>1
  <2>3. SettledLength(file) = 0
    BY <2>1, <2>2, SettledIs
  <2> QED
    BY <2>3 DEF LogOf
<1>2. TypeOK /\ Exclusive /\ [Next]_vars
        => [Log!Next]_([i \in 1..SettledLength(file) |-> file[i].entry])
  BY LogStep DEF LogOf, Log!Next, Log!Add
<1> QED
  BY <1>1, <1>2, TogetherInvariant, PTL DEF Spec, LogSpec, Log!Spec
=============================================================================
