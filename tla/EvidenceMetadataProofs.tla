------------------------ MODULE EvidenceMetadataProofs ------------------------
(***************************************************************************)
(* That evidence metadata is a copy of its time, for every set of          *)
(* documents and any number of later edits.                                *)
(***************************************************************************)
EXTENDS EvidenceMetadata, TLAPS

LEMMA StartsInInv == Init => IInv
  BY DEF Init, IInv, IsState, ContractsAreOwn, HeadsAreOfContracts

\* What a new dictionary starts with is a content of the report's, or it is empty.
LEMMA CopiesAreContents ==
  ASSUME IsState, NEW key \in Dicts
  PROVE  ContentOf(key) \in Nat
  <1>1. Copied(key) \subseteq ReportObjects
    BY DEF Copied, report_summary, ReportObjects
  <1>2. CASE Copied(key) = {}
    BY <1>2 DEF ContentOf
  <1>3. CASE Copied(key) # {}
    <2>1. (CHOOSE object \in Copied(key) : TRUE) \in Objects
      BY <1>1, <1>3 DEF Objects
    <2> QED
      BY <1>3, <2>1 DEF ContentOf, IsState
  <1> QED
    BY <1>2, <1>3

LEMMA NextKeepsIInv == IInv /\ [Next]_vars => IInv'
  <1> SUFFICES ASSUME IInv, [Next]_vars PROVE IInv'
    OBVIOUS
  <1>1. ASSUME NEW d \in Documents, Build(d) PROVE IInv'
    <2>1. content' \in [Objects -> Nat]
      <3>1. ASSUME NEW object \in Objects, object[1] = d PROVE ContentOf(object[2]) \in Nat
        <4>1. object[2] \in Dicts
          BY <3>1, EvidenceAssumption
             DEF Objects, ReportObjects, ExtraObjects, DocumentObjects
        <4> QED
          BY <4>1, CopiesAreContents DEF IInv
      <3>2. content \in [Objects -> Nat]
        BY DEF IInv, IsState
      <3> QED
        BY <1>1, <3>1, <3>2 DEF Build
    <2>2. IsState'
      BY <1>1, <2>1 DEF Build, IInv, IsState
    <2>3. ContractsAreOwn'
      <3>1. \A e \in Documents : build_evidence_contract(e)' = build_evidence_contract(e)
        BY <1>1 DEF Build, build_evidence_contract
      <3> QED
        BY <1>1, <3>1 DEF Build, IInv, IsState, ContractsAreOwn
    <2>4. HeadsAreOfContracts'
      <3>1. contract'[d] = build_evidence_contract(d)
        BY <1>1 DEF Build, IInv, ContractsAreOwn
      <3> QED
        BY <1>1, <3>1
        DEF Build, IInv, IsState, ContractsAreOwn, HeadsAreOfContracts, MetadataObjects
    <2> QED
      BY <2>2, <2>3, <2>4 DEF IInv
  <1>2. ASSUME NEW d \in Documents, BuildRaises(d) PROVE IInv'
    BY <1>2 DEF BuildRaises, IInv, IsState, ContractsAreOwn, HeadsAreOfContracts, build_evidence_contract
  <1>3. ASSUME NEW object \in Objects, Edit(object) PROVE IInv'
    BY <1>3 DEF Edit, IInv, IsState, ContractsAreOwn, HeadsAreOfContracts, build_evidence_contract
  <1>4. ASSUME NEW key \in Lists, AddFinding(key) PROVE IInv'
    BY <1>4 DEF AddFinding, IInv, IsState, ContractsAreOwn, HeadsAreOfContracts, build_evidence_contract
  <1>5. CASE UNCHANGED vars
    BY <1>5 DEF vars, IInv, IsState, ContractsAreOwn, HeadsAreOfContracts, build_evidence_contract
  <1> QED
    BY <1>1, <1>2, <1>3, <1>4, <1>5 DEF Next

-----------------------------------------------------------------------------
\* The dictionaries of a built contract are extra's or its own, and those beside it are
\* the same.
LEMMA DictsOfContract ==
  ASSUME IInv, NEW d \in Built, NEW key \in Dicts
  PROVE  /\ contract[d][key] \in {<<"extra", key>>, <<d, key>>}
         /\ head[d][key] = contract[d][key]
  <1>1. contract[d] = build_evidence_contract(d) /\ head[d] = MetadataObjects(d, contract[d])
    BY DEF IInv, ContractsAreOwn, HeadsAreOfContracts, Built
  <1> QED
    BY <1>1 DEF MetadataObjects, build_evidence_contract, Dicts, Texts

\* A document whose dictionaries and count stay as they are shows what it did.
LEMMA SameIsShown ==
  ASSUME NEW d, contract'[d] = contract[d], head'[d] = head[d], counted'[d] = counted[d],
         \A key \in Dicts : /\ content'[contract[d][key]] = content[contract[d][key]]
                            /\ content'[head[d][key]] = content[head[d][key]]
  PROVE  Shown(d)' = Shown(d)
  BY DEF Shown

LEMMA StepStaysApart ==
  ASSUME IInv, [Next]_vars, NEW d \in Built, Shown(d)' # Shown(d)
  PROVE  /\ InReport' = InReport
         /\ InExtra' # InExtra \/ \A e \in Built \ {d} : Shown(e)' = Shown(e)
  <1>1. d \in Documents /\ stage[d] = "built"
    BY DEF Built
  <1>2. ASSUME NEW e \in Documents, Build(e) PROVE FALSE
    <2>1. e # d /\ d # "extra" /\ e # "extra"
      BY <1>1, <1>2, EvidenceAssumption DEF Build
    <2>2. contract'[d] = contract[d] /\ head'[d] = head[d] /\ counted'[d] = counted[d]
      BY <1>1, <1>2, <2>1 DEF Build, IInv, IsState, ContractsAreOwn, HeadsAreOfContracts
    <2>3. ASSUME NEW key \in Dicts
          PROVE  content'[contract[d][key]] = content[contract[d][key]]
      <3>1. contract[d][key] \in Objects /\ contract[d][key][1] # e
        BY <1>1, <2>1, DictsOfContract DEF Objects, ExtraObjects, DocumentObjects
      <3> QED
        BY <1>2, <3>1 DEF Build
    <2> QED
      BY <2>2, <2>3, DictsOfContract, SameIsShown
  <1>3. ASSUME NEW e \in Documents, BuildRaises(e) PROVE FALSE
    BY <1>3, SameIsShown DEF BuildRaises
  <1>4. ASSUME NEW object \in Objects, Edit(object)
        PROVE  /\ InReport' = InReport
               /\ InExtra' # InExtra \/ \A e \in Built \ {d} : Shown(e)' = Shown(e)
    <2>1. /\ content \in [Objects -> Nat]
          /\ content' = [content EXCEPT ![object] = @ + 1]
          /\ UNCHANGED <<lengths, contract, head, counted>>
      BY <1>4 DEF Edit, IInv, IsState
    <2>2. PICK key \in Dicts : contract[d][key] = object
      BY <2>1, DictsOfContract, SameIsShown
    <2>3. object \in {<<"extra", key>>, <<d, key>>} /\ d # "report" /\ d # "extra"
      BY <1>1, <2>2, DictsOfContract, EvidenceAssumption
    <2>4. InReport' = InReport
      <3>1. \A other \in ReportObjects : other # object
        BY <2>3 DEF ReportObjects
      <3>2. \A other \in ReportObjects : content'[other] = content[other]
        BY <2>1, <3>1 DEF Objects
      <3> QED
        BY <2>1, <3>2 DEF InReport
    <2>5. CASE object = <<"extra", key>>
      <3>1. object \in ExtraObjects /\ content'[object] # content[object]
        BY <2>1, <2>5 DEF ExtraObjects
      <3>2. InExtra'[object] # InExtra[object]
        BY <3>1 DEF InExtra
      <3> QED
        BY <2>4, <3>2
    <2>6. CASE object = <<d, key>>
      <3>1. ASSUME NEW e \in Built \ {d} PROVE Shown(e)' = Shown(e)
        <4>1. ASSUME NEW k \in Dicts
              PROVE  content'[contract[e][k]] = content[contract[e][k]]
          <5>1. contract[e][k] \in {<<"extra", k>>, <<e, k>>}
            BY DictsOfContract
          <5>2. contract[e][k] \in Objects /\ contract[e][k] # object
            BY <2>3, <2>6, <5>1 DEF Built, Objects, ExtraObjects, DocumentObjects
          <5> QED
            BY <2>1, <5>2
        <4> QED
          BY <2>1, <4>1, DictsOfContract, SameIsShown
      <3> QED
        BY <2>4, <3>1
    <2> QED
      BY <2>3, <2>5, <2>6
  <1>5. ASSUME NEW key \in Lists, AddFinding(key) PROVE FALSE
    BY <1>5, SameIsShown DEF AddFinding
  <1>6. CASE UNCHANGED vars
    BY <1>6, SameIsShown DEF vars
  <1> QED
    BY <1>2, <1>3, <1>4, <1>5, <1>6 DEF Next

\* No step changes what a built document shows, in its contract or beside it, together with
\* the report, and none changes two documents unless it changes the extra they share
\* (contracts.py:58-70, 85-93).
THEOREM DocumentsStayApart == Spec => EditsStayApart
  <1>1. IInv /\ [Next]_vars =>
          [\A d \in Built : Shown(d)' # Shown(d) =>
             /\ InReport' = InReport
             /\ InExtra' # InExtra \/ \A e \in Built \ {d} : Shown(e)' = Shown(e)]_vars
    BY StepStaysApart
  <1> QED
    BY <1>1, StartsInInv, NextKeepsIInv, PTL DEF Spec, EditsStayApart

=============================================================================
