------------------------------- MODULE AuditLog -------------------------------
(***************************************************************************)
(* The hash-chained audit file of go/internal/auditlog and the processes   *)
(* that append to it.                                                      *)
(*                                                                         *)
(* The file outlives the processes (a PVC or a bind mount); a process      *)
(* keeps only the path and the hash of the last entry it knows, a.prev.    *)
(* Append holds the process's mutex from reading prev to storing it, and   *)
(* issues one O_APPEND write, so an append is one step here.  The write    *)
(* may nevertheless be cut short, by a crash or by an I/O error, and leave *)
(* a fragment of the line behind.                                          *)
(*                                                                         *)
(* A hash is represented by what it commits to: the sequence of entries    *)
(* hashed so far.  That is SHA-256 without collisions.                     *)
(***************************************************************************)
EXTENDS Naturals, Sequences

CONSTANTS
    Procs,        \* gateway processes that may open the file
    Entry,        \* audit entries
    Oversized,    \* entries whose line exceeds the reader's 1 MiB buffer
    Overlap,      \* may two processes have the file open at once?
    StatFails,    \* may os.Stat fail on a file that is there?
    CrashParts,   \* fragments of a line a crash inside a write may leave
    ErrorParts,   \* fragments a write that returns an error may leave
    MaxChunks     \* bound: writes that reach the file

\* What one write can leave in the file: the line with its newline, all of it
\* but the newline, or a prefix that is not a JSON document.
Parts == {"line", "unterminated", "torn"}

ASSUME AuditLogAssumption ==
    /\ Oversized \subseteq Entry
    /\ Overlap \in BOOLEAN
    /\ StatFails \in BOOLEAN
    /\ CrashParts \subseteq Parts \ {"line"}
    /\ ErrorParts \subseteq Parts \ {"line"}
    /\ MaxChunks \in Nat

VARIABLES
    file,         \* the fragments written, in file order
    status,       \* per process: "down", "creating" (New, between os.Stat and
                  \* os.Create), "up", or "fatal" (New returned an error)
    prev,         \* per process: a.prev, the hash the next entry links to
    acked         \* history: the hashes Append returned, in order

vars == <<file, status, prev, acked>>

Hashes == Seq(Entry)

Chunk == [entry : Entry, prev : Hashes, hash : Hashes, part : Parts]

\* One type invariant for the four variables.
TypeOK ==
    /\ file \in Seq(Chunk)
    /\ status \in [Procs -> {"down", "creating", "up", "fatal"}]
    /\ prev \in [Procs -> Hashes]
    /\ acked \in Seq(Hashes)

-----------------------------------------------------------------------------
(* The chain *)

Genesis == <<>>                        \* 64 zeros

Hash(p, e) == Append(p, e)             \* sha256(prev || canonicalBody(e, prev))

\* The line that holds chunk i of file f is this chunk alone: the fragment
\* before it ended in a newline, and it ends in one itself or ends the file.
AloneOnLine(f, i) ==
    /\ i > 1 => f[i - 1].part = "line"
    /\ i < Len(f) => f[i].part = "line"

\* The reader accepts the line: the scanner's buffer holds it and
\* json.Unmarshal finds exactly one document.
Parses(f, i) ==
    /\ AloneOnLine(f, i)
    /\ f[i].part # "torn"
    /\ f[i].entry \notin Oversized

Readable(f) == \A i \in 1..Len(f) : Parses(f, i)

\* lastEntryHash: the entry_hash of the last line of a readable file.
LastEntryHash(f) == IF f = <<>> THEN Genesis ELSE f[Len(f)].hash

\* Chunk i links to the chunk before it and its hash is the one its own
\* fields give: one iteration of VerifyChain's loop.
Links(f, i) ==
    /\ f[i].prev = IF i = 1 THEN Genesis ELSE f[i - 1].hash
    /\ f[i].hash = Hash(f[i].prev, f[i].entry)

\* VerifyChain returns (true, nil).
VerifyChain(f) == \A i \in 1..Len(f) : Parses(f, i) /\ Links(f, i)

-----------------------------------------------------------------------------
(* The processes *)

Init ==
    /\ file = <<>>
    /\ status = [p \in Procs |-> "down"]
    /\ prev = [p \in Procs |-> Genesis]
    /\ acked = <<>>

Running(p) == status[p] \in {"creating", "up"}

\* A process starts only beside a running one if deployments overlap.
MayStart(p) ==
    /\ ~Running(p)
    /\ ~Overlap => \A q \in Procs : ~Running(q)

\* Slips of New: starting over from the genesis hash, or from an empty file.
ResumeAtGenesis(p) ==
    /\ MayStart(p)
    /\ file # <<>>
    /\ Readable(file)
    /\ status' = [status EXCEPT ![p] = "up"]
    /\ prev' = [prev EXCEPT ![p] = Genesis]
    /\ UNCHANGED <<file, acked>>

ResumeTruncating(p) ==
    /\ MayStart(p)
    /\ file # <<>>
    /\ status' = [status EXCEPT ![p] = "up"]
    /\ prev' = [prev EXCEPT ![p] = Genesis]
    /\ file' = <<>>
    /\ UNCHANGED acked

\* New on a file with content it can read: resume from its last hash.
Resume(p) ==
    /\ MayStart(p)
    /\ file # <<>>
    /\ Readable(file)
    /\ status' = [status EXCEPT ![p] = "up"]
    /\ prev' = [prev EXCEPT ![p] = LastEntryHash(file)]
    /\ UNCHANGED <<file, acked>>

\* New on a file with a line it cannot parse: log.Fatalf, whatever the
\* number of restarts.
OpenFails(p) ==
    /\ MayStart(p)
    /\ ~Readable(file)
    /\ status' = [status EXCEPT ![p] = "fatal"]
    /\ UNCHANGED <<file, prev, acked>>

\* New finds no content: os.Stat reports no file, or an empty one, or fails
\* for another reason, which New takes for no file.
StatEmpty(p) ==
    /\ MayStart(p)
    /\ file = <<>> \/ StatFails
    /\ status' = [status EXCEPT ![p] = "creating"]
    /\ UNCHANGED <<file, prev, acked>>

\* ... and creates it.  os.Create truncates whatever is there by now.
Create(p) ==
    /\ status[p] = "creating"
    /\ file' = <<>>
    /\ status' = [status EXCEPT ![p] = "up"]
    /\ prev' = [prev EXCEPT ![p] = Genesis]
    /\ UNCHANGED acked

\* What reaches the file when p writes the line for e.
Write(p, e, part) ==
    /\ Len(file) < MaxChunks
    /\ file' = Append(file, [entry |-> e, prev |-> prev[p],
                             hash |-> Hash(prev[p], e), part |-> part])

\* Slips of Append: prev not advanced, or advanced to the entry itself.
AppendEntryForgettingPrev(p, e) ==
    /\ status[p] = "up"
    /\ Write(p, e, "line")
    /\ acked' = Append(acked, Hash(prev[p], e))
    /\ UNCHANGED <<status, prev>>

AppendEntryStoringBody(p, e) ==
    /\ status[p] = "up"
    /\ Write(p, e, "line")
    /\ prev' = [prev EXCEPT ![p] = e]
    /\ acked' = Append(acked, Hash(prev[p], e))
    /\ UNCHANGED status

\* Append that returns (entryHash, nil).
AppendEntry(p, e) ==
    /\ status[p] = "up"
    /\ Write(p, e, "line")
    /\ prev' = [prev EXCEPT ![p] = Hash(prev[p], e)]
    /\ acked' = Append(acked, Hash(prev[p], e))
    /\ UNCHANGED status

\* Append whose WriteString fails part-way: the error returns before a.prev
\* moves, the fragment stays.  (A failed open changes nothing.)
AppendFails(p, e) ==
    /\ status[p] = "up"
    /\ \E part \in ErrorParts : Write(p, e, part)
    /\ UNCHANGED <<status, prev, acked>>

\* The process dies inside Append: after the whole line but before its hash
\* is returned, or with a fragment written.
CrashInAppend(p, e) ==
    /\ status[p] = "up"
    /\ \E part \in CrashParts \cup {"line"} : Write(p, e, part)
    /\ status' = [status EXCEPT ![p] = "down"]
    /\ UNCHANGED <<prev, acked>>

\* The process dies, or is stopped, outside any write.
Crash(p) ==
    /\ Running(p)
    /\ status' = [status EXCEPT ![p] = "down"]
    /\ UNCHANGED <<file, prev, acked>>

Next ==
    \E p \in Procs :
        \/ Resume(p)
        \/ OpenFails(p)
        \/ StatEmpty(p)
        \/ Create(p)
        \/ Crash(p)
        \/ \E e \in Entry :
              \/ AppendEntry(p, e)
              \/ AppendFails(p, e)
              \/ CrashInAppend(p, e)

Spec == Init /\ [][Next]_vars

-----------------------------------------------------------------------------
(* Properties *)

\* The deployment the code was written for: one process at a time, on a
\* volume whose files os.Stat finds.  Writes may be cut short all the same,
\* by crashes and by errors, and lines outgrow the reader's buffer.
OneProcess == ~Overlap /\ ~StatFails

\* Chunk i reached the file whole, and the reader's buffer can hold it.
Sound(f, i) == f[i].part = "line" /\ f[i].entry \notin Oversized

\* As long as no write was cut short, a running process links its next entry
\* to the end of an unbroken chain, across every restart and every oversized
\* line (New, lastEntryHash, Append).
ResumedAtTail ==
    \A p \in Procs :
        status[p] = "up" /\ (\A i \in 1..Len(file) : file[i].part = "line") =>
            /\ \A i \in 1..Len(file) : Links(file, i)
            /\ prev[p] = LastEntryHash(file)

\* How many leading lines a reader gets before the first it must reject.
ReadableLength(f) ==
    CHOOSE n \in 0..Len(f) :
        /\ \A i \in 1..n : Parses(f, i)
        /\ n < Len(f) => ~Parses(f, n + 1)

\* Every entry whose hash was returned to a caller can be read back, unless
\* a damaged line stands before it or it is oversized itself: neither a crash
\* nor a restart nor damage that comes later costs an entry the gateway has
\* already acted upon.
AckedReadable ==
    \A k \in 1..Len(acked) :
        \E i \in 1..Len(file) :
            /\ file[i].hash = acked[k]
            /\ i <= ReadableLength(file) \/ \E j \in 1..i : ~Sound(file, j)

\* No two appends return the same hash, whatever restarts, errors and cut
\* lines lie between them, so the audit_entry of an order names one line.
AckedDistinct ==
    \A j, k \in 1..Len(acked) : acked[j] = acked[k] => j = k

\* Whatever writes are cut short and whatever lines are oversized: a file
\* that VerifyChain accepts holds every entry whose hash was ever returned.
\* Damage can break the chain, never hide in it.
VerifiedMeansComplete ==
    VerifyChain(file) =>
        \A k \in 1..Len(acked) :
            \E i \in 1..Len(file) : file[i].hash = acked[k]

\* How many leading lines are whole: what a reader gets now and for good.  (A
\* last line that only lacks its newline is read too, until one is appended.)
SettledLength(f) ==
    CHOOSE n \in 0..Len(f) :
        /\ \A i \in 1..n : Sound(f, i)
        /\ n < Len(f) => ~Sound(f, n + 1)

\* The lines before any damage are an append-only log.
Log == INSTANCE AppendOnlyLog WITH
           log <- [i \in 1..SettledLength(file) |-> file[i].entry]

\* Whatever is cut short, oversized, crashed or restarted, the sound part of
\* the file only grows, one entry at a time.
LogSpec == Log!Spec
=============================================================================
