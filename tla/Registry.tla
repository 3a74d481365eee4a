------------------------------- MODULE Registry -------------------------------
(***************************************************************************)
(* The predicate registry: a directory of signed documents that the        *)
(* governance CLI writes, anybody with access to the volume may change, and*)
(* the gateway reads once, file by file, when it starts.  Nothing locks    *)
(* the directory: it may change between the listing and each read.         *)
(*                                                                         *)
(* A signature is valid for the content governance signed and for no other *)
(* (Schnorr over the canonical bytes).  Registry.Get and GetMeasurement    *)
(* change nothing: they look the policy up and check its signature again.  *)
(***************************************************************************)
EXTENDS Naturals

CONSTANTS
    Docs,       \* contents governance may sign
    Slots,      \* places in store and measStore: a kind, an id and a version
    SlotOf,     \* the slot of each content
    Escaped,    \* contents with a text that json.Marshal and json.dumps write
                \* differently: <, >, & or anything that is not ASCII
    NumFiles,   \* names ending in .json; sort.Strings orders them 1..NumFiles
    MaxChanges, \* bound: changes to the directory
    Absent,     \* no such file
    Torn,       \* a file cut short, or that is no predicate document
    Nothing,    \* an empty slot
    NoWrite     \* the CLI is not writing

Files == 1..NumFiles

\* A file that parses: its content and whether governance made the signature
\* in it for this content.
Document == [doc : Docs, valid : BOOLEAN]

ASSUME RegistryAssumption ==
    /\ SlotOf \in [Docs -> Slots]
    /\ Escaped \subseteq Docs
    /\ NumFiles \in Nat
    /\ MaxChanges \in Nat
    /\ Absent \notin Document
    /\ Torn \notin Document
    /\ Absent # Torn
    /\ Nothing \notin Docs
    /\ NoWrite \notin Files \X Docs

VARIABLES
    dir,        \* the directory
    writing,    \* the file the CLI has truncated and the content to come
    signed,     \* history: what governance has signed
    changes,    \* changes to the directory so far
    gateway,    \* "down", "loading" or "serving"
    listed,     \* history: the files this start has listed
    todo,       \* listed files not read yet
    read,       \* history: what this start has read
    store       \* Registry.store and Registry.measStore

disk == <<dir, writing, signed, changes>>
process == <<gateway, listed, todo, read, store>>
vars == <<disk, process>>

Unread == [f \in Files |-> Absent]
NoPolicy == [s \in Slots |-> Nothing]

TypeOK ==
    /\ dir \in [Files -> Document \cup {Absent, Torn}]
    /\ writing \in Files \X Docs \cup {NoWrite}
    /\ signed \subseteq Docs
    /\ changes \in 0..MaxChanges
    /\ gateway \in {"down", "loading", "serving"}
    /\ listed \subseteq Files
    /\ todo \subseteq listed
    /\ read \in [Files -> Document \cup {Absent}]
    /\ store \in [Slots -> Docs \cup {Nothing}]

Init ==
    /\ dir = [f \in Files |-> Absent]
    /\ writing = NoWrite
    /\ signed = {}
    /\ changes = 0
    /\ gateway = "down"
    /\ listed = {}
    /\ todo = {}
    /\ read = Unread
    /\ store = NoPolicy

-----------------------------------------------------------------------------
(* The directory *)

Change(f, content) ==
    /\ changes < MaxChanges
    /\ changes' = changes + 1
    /\ dir' = [dir EXCEPT ![f] = content]
    /\ UNCHANGED process

\* governance_cli.py define and define-measurement: the content is signed,
\* and write_text truncates the file before it fills it.
BeginDefine(f, d) ==
    /\ writing = NoWrite
    /\ Change(f, Torn)
    /\ writing' = <<f, d>>
    /\ signed' = signed \cup {d}

EndDefine ==
    /\ writing # NoWrite
    /\ dir' = [dir EXCEPT ![writing[1]] = [doc |-> writing[2], valid |-> TRUE]]
    /\ writing' = NoWrite
    /\ UNCHANGED <<signed, changes, process>>

\* The CLI dies in between.
DefineDies ==
    /\ writing # NoWrite
    /\ writing' = NoWrite
    /\ UNCHANGED <<dir, signed, changes, process>>

\* A file is edited without being signed again.
Edit(f, d) ==
    /\ dir[f] \in Document
    /\ Change(f, [doc |-> d, valid |-> FALSE])
    /\ UNCHANGED <<writing, signed>>

\* A signed file is put back, or copied under another name.
Copy(f, d) ==
    /\ d \in signed
    /\ Change(f, [doc |-> d, valid |-> TRUE])
    /\ UNCHANGED <<writing, signed>>

Remove(f) ==
    /\ dir[f] # Absent
    /\ Change(f, Absent)
    /\ UNCHANGED <<writing, signed>>

-----------------------------------------------------------------------------
(* The gateway *)

\* main lists the directory: names only.  filepath.Glob ignores errors of the
\* directory itself: one that cannot be read lists in part, or as empty.
List ==
    /\ gateway = "down"
    /\ gateway' = "loading"
    /\ listed' \in SUBSET {f \in Files : dir[f] # Absent}
    /\ todo' = listed'
    /\ UNCHANGED <<disk, read, store>>

\* The process is gone, and what it had loaded with it.
GoDown ==
    /\ gateway' = "down"
    /\ listed' = {}
    /\ todo' = {}
    /\ read' = Unread
    /\ store' = NoPolicy

\* Slip: the files in whatever order they come.
AnyOrder(f) == f \in todo

First(f) == f \in todo /\ \A g \in todo : f <= g

\* PeekPType picks ParseDoc or ParseMeasurementDoc, which may fail.
Parsed(content) == content \in Document

\* VerifySignature: Schnorr over the canonical bytes, which Go writes for
\* itself and governance signed as Python writes them.
VerifySignature(content) == content.valid /\ content.doc \notin Escaped

\* Slips: the signature is not checked when a document is published; the whole
\* document is stored instead of the predicate in it.
PublishUnchecked(f) ==
    /\ gateway = "loading"
    /\ First(f)
    /\ Parsed(dir[f])
    /\ todo' = todo \ {f}
    /\ read' = [read EXCEPT ![f] = dir[f]]
    /\ store' = [store EXCEPT ![SlotOf[dir[f].doc]] = dir[f].doc]
    /\ UNCHANGED <<disk, gateway, listed>>

PublishDocument(f) ==
    /\ gateway = "loading"
    /\ First(f)
    /\ Parsed(dir[f])
    /\ VerifySignature(dir[f])
    /\ todo' = todo \ {f}
    /\ read' = [read EXCEPT ![f] = dir[f]]
    /\ store' = [store EXCEPT ![SlotOf[dir[f].doc]] = dir[f]]
    /\ UNCHANGED <<disk, gateway, listed>>

\* The next listed file is read, its ptype picks the parser and the store, and
\* Publish or PublishMeasurement accepts its signature.
Publish(f) ==
    /\ gateway = "loading"
    /\ First(f)
    /\ Parsed(dir[f])
    /\ VerifySignature(dir[f])
    /\ todo' = todo \ {f}
    /\ read' = [read EXCEPT ![f] = dir[f]]
    /\ store' = [store EXCEPT ![SlotOf[dir[f].doc]] = dir[f].doc]
    /\ UNCHANGED <<disk, gateway, listed>>

\* log.Fatal: the file has gone, does not parse, or its signature fails.
Fatal(f) ==
    /\ gateway = "loading"
    /\ First(f)
    /\ Parsed(dir[f]) => ~VerifySignature(dir[f])
    /\ GoDown
    /\ UNCHANGED disk

\* All files are published and the gateway listens.
Serve ==
    /\ gateway = "loading"
    /\ todo = {}
    /\ gateway' = "serving"
    /\ UNCHANGED <<disk, listed, todo, read, store>>

\* The process dies, or cannot open its audit log.
Crash ==
    /\ gateway # "down"
    /\ GoDown
    /\ UNCHANGED disk

Next ==
    \/ \E f \in Files, d \in Docs : BeginDefine(f, d) \/ Edit(f, d) \/ Copy(f, d)
    \/ EndDefine
    \/ DefineDies
    \/ \E f \in Files : Remove(f) \/ Publish(f) \/ Fatal(f)
    \/ List
    \/ Serve
    \/ Crash

Spec == Init /\ [][Next]_vars

-----------------------------------------------------------------------------
(* Properties *)

\* A gateway never serves what it has loaded in part: every file it listed
\* (which need not be every file there is) was read as a signed document, and its slot holds that document, or
\* the one of a later file for the same slot, whatever happened to the
\* directory while it read.
LoadedWhole ==
    gateway = "serving" =>
        \A f \in listed :
            /\ read[f] \in Document /\ read[f].valid
            /\ \E g \in listed :
                  /\ f <= g
                  /\ SlotOf[read[g].doc] = SlotOf[read[f].doc]
                  /\ store[SlotOf[read[f].doc]] = read[g].doc

\* What the gateway can look up: nothing before it listens.
Policy == IF gateway = "serving" THEN store ELSE NoPolicy

SignedPolicy == INSTANCE SignedPolicy WITH
    up <- gateway = "serving",
    policy <- Policy

\* The policy in force is signed throughout and fixed while the gateway is up:
\* no edit, torn write, removal or race with the loader puts anything else in.
SignedPolicySpec == SignedPolicy!Spec

-----------------------------------------------------------------------------
(* Why they hold: the inductive invariant *)

\* Valid signatures come from governance, on disk and on their way there.
SignaturesAreGovernance ==
    /\ \A f \in Files : dir[f] \in Document /\ dir[f].valid => dir[f].doc \in signed
    /\ writing # NoWrite => writing[2] \in signed
    /\ \A s \in Slots : store[s] # Nothing => store[s] \in signed /\ SlotOf[store[s]] = s

\* The loader goes through the listing in order, and what it has read so far
\* is in the store unless a later file has taken the slot.
LoadedSoFar ==
    /\ gateway = "serving" => todo = {}
    /\ \A f \in listed \ todo :
          /\ \A g \in todo : f < g
          /\ read[f] \in Document /\ read[f].valid
          /\ \E g \in listed \ todo :
                /\ f <= g
                /\ SlotOf[read[g].doc] = SlotOf[read[f].doc]
                /\ store[SlotOf[read[f].doc]] = read[g].doc

IInv == TypeOK /\ SignaturesAreGovernance /\ LoadedSoFar

-----------------------------------------------------------------------------
(* A statement of the repository that the code does not keep *)

\* CanonicalBytes is documented to match Python byte for byte: a file that is
\* just as governance signed it does not stop the gateway that reads it.
SignedIsAccepted ==
    \A f \in Files :
        gateway = "loading" /\ First(f) /\ Parsed(dir[f]) /\ dir[f].valid =>
            VerifySignature(dir[f])
=============================================================================
