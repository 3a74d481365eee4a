---------------------------- MODULE RegistryProofs ----------------------------
(***************************************************************************)
(* What Registry guarantees for every set of documents and files and every *)
(* sequence of changes to the directory.  IInv is inductive: signatures    *)
(* come from governance wherever a document is, and the loader's progress  *)
(* through its listing says which document each slot holds.                *)
(***************************************************************************)
EXTENDS Registry, TLAPS

USE RegistryAssumption

\* The initial state satisfies the invariant.
LEMMA InitIInv == Init => IInv
  BY DEF Init, IInv, TypeOK, SignaturesAreGovernance, LoadedSoFar, Unread,
         NoPolicy, Document, Files

\* A change to one file of the directory, whoever makes it, keeps valid
\* signatures with governance and leaves the process alone.
LEMMA ChangeKeeps ==
  ASSUME IInv, NEW f \in Files, NEW content \in Document \cup {Absent, Torn},
         Change(f, content),
         signed \subseteq signed', signed' \subseteq Docs,
         content \in Document /\ content.valid => content.doc \in signed',
         writing' \in Files \X Docs \cup {NoWrite},
         writing' # NoWrite => writing'[2] \in signed'
  PROVE  IInv'
<1> USE DEF IInv, Change, process
<1>1. dir' \in [Files -> Document \cup {Absent, Torn}]
  BY DEF TypeOK
<1>2. changes' \in 0..MaxChanges
  BY DEF TypeOK
<1>3. TypeOK'
  BY <1>1, <1>2 DEF TypeOK
<1>4. SignaturesAreGovernance'
  BY DEF SignaturesAreGovernance, TypeOK
<1>5. LoadedSoFar'
  BY DEF LoadedSoFar
<1> QED
  BY <1>3, <1>4, <1>5

\* Going down forgets everything that was loaded.
LEMMA DownKeeps == ASSUME IInv, GoDown, UNCHANGED disk PROVE IInv'
<1> USE DEF IInv, GoDown, disk, Unread, NoPolicy
<1>1. TypeOK'
  BY DEF TypeOK
<1>2. SignaturesAreGovernance'
  BY DEF SignaturesAreGovernance
<1>3. LoadedSoFar'
  BY DEF LoadedSoFar
<1> QED
  BY <1>1, <1>2, <1>3

\* Publishing the first unread file extends what is loaded by that file.
LEMMA PublishKeeps == ASSUME IInv, NEW f \in Files, Publish(f) PROVE IInv'
<1> USE DEF IInv, Publish, Parsed, VerifySignature, disk
<1> DEFINE d == dir[f].doc
<1>1. d \in Docs /\ SlotOf[d] \in Slots /\ d # Nothing
  BY DEF Document
<1>2. f \in todo /\ f \in listed /\ \A g \in todo : f <= g
  BY DEF First, TypeOK
<1>3. TypeOK'
  BY <1>1, <1>2 DEF TypeOK
<1>4. SignaturesAreGovernance'
  <2>1. d \in signed
    BY DEF SignaturesAreGovernance
  <2>2. ASSUME NEW s \in Slots, store'[s] # Nothing
        PROVE  store'[s] \in signed /\ SlotOf[store'[s]] = s
    <3>1. CASE s = SlotOf[d]
      BY <2>1, <3>1 DEF TypeOK
    <3>2. CASE s # SlotOf[d]
      BY <2>2, <3>2 DEF TypeOK, SignaturesAreGovernance
    <3> QED
      BY <3>1, <3>2
  <2> QED
    BY <2>2 DEF SignaturesAreGovernance
<1>5. LoadedSoFar'
  <2>1. gateway' = "loading"
    OBVIOUS
  <2>2. ASSUME NEW h \in listed' \ todo' PROVE \A g \in todo' : h < g
    <3>1. todo \subseteq Nat /\ f \in Nat
      BY DEF TypeOK, Files
    <3>2. ASSUME NEW g \in todo' PROVE h < g
      <4>1. g \in todo /\ g # f /\ f <= g
        BY <1>2, <3>2
      <4>2. CASE h = f
        BY <3>1, <4>1, <4>2
      <4>3. CASE h # f
        BY <2>2, <4>1, <4>3 DEF LoadedSoFar
      <4> QED
        BY <4>2, <4>3
    <3> QED
      BY <3>2
  <2>3. read'[f] = dir[f] /\ store'[SlotOf[d]] = d /\ f \in listed' \ todo'
    BY <1>1, <1>2 DEF TypeOK
  <2>4. ASSUME NEW h \in listed' \ todo'
        PROVE  /\ read'[h] \in Document /\ read'[h].valid
               /\ \E g \in listed' \ todo' :
                     /\ h <= g
                     /\ SlotOf[read'[g].doc] = SlotOf[read'[h].doc]
                     /\ store'[SlotOf[read'[h].doc]] = read'[g].doc
    <3>0. h \in Nat /\ f \in Nat
      BY <2>4 DEF TypeOK, Files
    <3>1. CASE h = f
      BY <2>3, <3>0, <3>1
    <3>2. CASE h # f
      <4>1. h \in listed \ todo /\ h < f
        BY <2>4, <3>2, <1>2 DEF LoadedSoFar
      <4>2. read'[h] = read[h] /\ read[h] \in Document /\ read[h].valid
        BY <4>1, <3>2 DEF LoadedSoFar, TypeOK
      <4>3. CASE SlotOf[read[h].doc] = SlotOf[d]
        BY <2>3, <3>0, <4>1, <4>2, <4>3
      <4>4. CASE SlotOf[read[h].doc] # SlotOf[d]
        <5>1. PICK g \in listed \ todo :
                 /\ h <= g
                 /\ SlotOf[read[g].doc] = SlotOf[read[h].doc]
                 /\ store[SlotOf[read[h].doc]] = read[g].doc
          BY <4>1 DEF LoadedSoFar
        <5>2. g # f /\ g \in listed' \ todo' /\ read'[g] = read[g]
          BY <1>2, <5>1 DEF TypeOK
        <5>3. SlotOf[read[h].doc] \in Slots
          BY <4>2 DEF Document
        <5>4. store'[SlotOf[read[h].doc]] = store[SlotOf[read[h].doc]]
          BY <4>4, <5>3 DEF TypeOK
        <5> QED
          BY <4>2, <5>1, <5>2, <5>4
      <4> QED
        BY <4>3, <4>4
    <3> QED
      BY <3>1, <3>2
  <2> QED
    BY <2>1, <2>2, <2>4 DEF LoadedSoFar
<1> QED
  BY <1>3, <1>4, <1>5

\* Every step preserves the invariant.
LEMMA NextIInv == IInv /\ [Next]_vars => IInv'
<1> SUFFICES ASSUME IInv, [Next]_vars PROVE IInv'
  OBVIOUS
<1>1. ASSUME NEW f \in Files, NEW d \in Docs, BeginDefine(f, d) PROVE IInv'
  <2>1. <<f, d>> \in Files \X Docs /\ <<f, d>>[2] = d
    OBVIOUS
  <2> QED
    BY <1>1, <2>1, ChangeKeeps DEF BeginDefine, IInv, TypeOK
<1>2. ASSUME NEW f \in Files, NEW d \in Docs, Edit(f, d) PROVE IInv'
  <2>1. [doc |-> d, valid |-> FALSE] \in Document
    BY DEF Document
  <2> QED
    BY <1>2, <2>1, ChangeKeeps DEF Edit, IInv, TypeOK, SignaturesAreGovernance
<1>3. ASSUME NEW f \in Files, NEW d \in Docs, Copy(f, d) PROVE IInv'
  <2>1. [doc |-> d, valid |-> TRUE] \in Document
    BY DEF Document
  <2> QED
    BY <1>3, <2>1, ChangeKeeps DEF Copy, IInv, TypeOK, SignaturesAreGovernance
<1>4. ASSUME NEW f \in Files, Remove(f) PROVE IInv'
  BY <1>4, ChangeKeeps DEF Remove, IInv, TypeOK, SignaturesAreGovernance
<1>5. CASE EndDefine
  <2> USE <1>5 DEF EndDefine, process, IInv
  <2>1. writing[1] \in Files /\ writing[2] \in Docs
    BY DEF TypeOK
  <2>2. [doc |-> writing[2], valid |-> TRUE] \in Document
    BY <2>1 DEF Document
  <2>3. TypeOK'
    BY <2>1, <2>2 DEF TypeOK
  <2>4. SignaturesAreGovernance'
    BY <2>1, <2>2 DEF SignaturesAreGovernance, TypeOK
  <2>5. LoadedSoFar'
    BY DEF LoadedSoFar
  <2> QED
    BY <2>3, <2>4, <2>5
<1>6. CASE DefineDies
  BY <1>6 DEF DefineDies, process, IInv, TypeOK, SignaturesAreGovernance, LoadedSoFar
<1>7. CASE List
  BY <1>7 DEF List, disk, IInv, TypeOK, SignaturesAreGovernance, LoadedSoFar
<1>8. ASSUME NEW f \in Files, Publish(f) PROVE IInv'
  BY <1>8, PublishKeeps
<1>9. ASSUME NEW f \in Files, Fatal(f) PROVE IInv'
  BY <1>9, DownKeeps DEF Fatal
<1>10. CASE Serve
  BY <1>10 DEF Serve, disk, IInv, TypeOK, SignaturesAreGovernance, LoadedSoFar
<1>11. CASE Crash
  BY <1>11, DownKeeps DEF Crash
<1>12. CASE UNCHANGED vars
  BY <1>12 DEF vars, disk, process, IInv, TypeOK, SignaturesAreGovernance, LoadedSoFar
<1> QED
  BY <1>1, <1>2, <1>3, <1>4, <1>5, <1>6, <1>7, <1>8, <1>9, <1>10, <1>11, <1>12 DEF Next

\* IInv holds throughout.
THEOREM Invariant == Spec => []IInv
  BY InitIInv, NextIInv, PTL DEF Spec

\* The variables of the registry keep their types.
THEOREM TypeCorrect == Spec => []TypeOK
  BY Invariant, PTL DEF IInv

\* A serving gateway has loaded all it listed.
THEOREM NeverServesInPart == Spec => []LoadedWhole
<1>1. IInv => LoadedWhole
  BY DEF IInv, LoadedSoFar, LoadedWhole, TypeOK
<1> QED
  BY <1>1, Invariant, PTL

-----------------------------------------------------------------------------
(* Refinement *)

\* Steps that leave what the gateway serves alone stutter, or sign.
LEMMA PolicyStep ==
  ASSUME IInv, [Next]_vars
  PROVE  [SignedPolicy!Next]_(<<signed, gateway = "serving", Policy>>)
<1> DEFINE target == [SignedPolicy!Next]_(<<signed, gateway = "serving", Policy>>)
<1>1. ASSUME UNCHANGED <<signed, gateway, store>> PROVE target
  BY <1>1 DEF Policy
<1>2. ASSUME NEW f \in Files, NEW d \in Docs, BeginDefine(f, d) PROVE target
  <2>1. SignedPolicy!Sign(d)
    BY <1>2 DEF BeginDefine, Change, process, Policy, SignedPolicy!Sign
  <2> QED
    BY <2>1 DEF SignedPolicy!Next
<1>3. ASSUME NEW f \in Files, NEW d \in Docs, Edit(f, d) \/ Copy(f, d) PROVE target
  BY <1>1, <1>3 DEF Edit, Copy, Change, process
<1>4. ASSUME NEW f \in Files, Remove(f) PROVE target
  BY <1>1, <1>4 DEF Remove, Change, process
<1>5. CASE EndDefine \/ DefineDies
  BY <1>1, <1>5 DEF EndDefine, DefineDies, process
<1>6. CASE List
  BY <1>6 DEF List, disk, Policy
<1>7. ASSUME NEW f \in Files, Publish(f) PROVE target
  BY <1>7 DEF Publish, disk, Policy
<1>8. ASSUME GoDown, UNCHANGED disk PROVE target
  <2>1. SignedPolicy!Stop
    BY <1>8 DEF GoDown, disk, Policy, NoPolicy, SignedPolicy!Stop, SignedPolicy!NoPolicy
  <2> QED
    BY <2>1 DEF SignedPolicy!Next
<1>9. CASE Serve
  <2>1. SignedPolicy!Install(store)
    BY <1>9 DEF Serve, disk, Policy, IInv, SignaturesAreGovernance, SignedPolicy!Install
  <2>2. store \in [Slots -> Docs \cup {Nothing}]
    BY DEF IInv, TypeOK
  <2> QED
    BY <2>1, <2>2 DEF SignedPolicy!Next
<1>10. CASE Crash
  BY <1>8, <1>10 DEF Crash
<1>11. ASSUME NEW f \in Files, Fatal(f) PROVE target
  BY <1>8, <1>11 DEF Fatal
<1>12. CASE UNCHANGED vars
  BY <1>1, <1>12 DEF vars, disk, process
<1> QED
  BY <1>2, <1>3, <1>4, <1>5, <1>6, <1>7, <1>9, <1>10, <1>11, <1>12 DEF Next

\* The registry implements SignedPolicy: the policy in force is signed, in its
\* place, and fixed while the gateway is up.
THEOREM ImplementsSignedPolicy == Spec => SignedPolicySpec
<1>1. Init => SignedPolicy!Init
  BY DEF Init, Policy, NoPolicy, SignedPolicy!Init, SignedPolicy!NoPolicy
<1> QED
  BY <1>1, PolicyStep, Invariant, PTL DEF Spec, SignedPolicySpec, SignedPolicy!Spec
=============================================================================
