-------------------------- MODULE EvidenceMetadata --------------------------
(***************************************************************************)
(* The evidence metadata that services build from their reports            *)
(* (src/sharedai/evidence/contracts.py), as far as dictionaries are copied *)
(* or shared on the way.  A service goes on working on its report, on what *)
(* it passed as extra and on the metadata it got; each of these changes a  *)
(* dictionary in place.                                                    *)
(*                                                                         *)
(* A dictionary is an object, content what it holds now.  EvidenceContract *)
(* and its model_dump() build new dictionaries; dict.update and dict.get   *)
(* hand objects on as they are.                                            *)
(***************************************************************************)
EXTENDS Integers, FiniteSetsExt, TLC

CONSTANTS
  Documents,  \* calls of evidence_metadata on one report, with one extra
  MaxEdits    \* changes of dictionaries and lists, of whatever owner

ASSUME EvidenceAssumption ==
  MaxEdits \in Nat /\ "report" \notin Documents /\ "extra" \notin Documents

Dicts == {"policy", "summary"}     \* the keys of a contract that are dictionaries
Lists == {"issues", "exposures"}   \* of the five keys finding_count looks at
Texts == {"mode", "analysis_mode"} \* "mode" stands for workspace and version as well

ReportObjects   == {"report"} \X {"policy", "summary", "stats"}
ExtraObjects    == {"extra"} \X Dicts
DocumentObjects == Documents \X Dicts
Objects         == ReportObjects \cup ExtraObjects \cup DocumentObjects

VARIABLES
  kinds,     \* what the report has under a key: "absent", "dict" or "list", "other"
  lengths,   \* of the values under the keys of Lists
  extra,     \* the keys of Dicts and Texts that extra has
  content,   \* of each dictionary, as a number of changes; 0 is the empty one
  stage,     \* of each call: "waiting", "built", "raised"
  contract,  \* metadata["evidence"]: whose value is under each key, extra's or its own
  head,      \* the same of the keys beside it in the metadata
  counted,   \* finding_count of each contract
  edits      \* changes so far

vars == <<kinds, lengths, extra, content, stage, contract, head, counted, edits>>

-----------------------------------------------------------------------------
\* report_summary: the dictionary a contract's summary is copied from, if any.
report_summary ==
  IF kinds["summary"] = "dict" THEN {<<"report", "summary">>}
  ELSE IF kinds["stats"] = "dict" THEN {<<"report", "stats">>} ELSE {}

Copied(key) ==
  IF key = "summary" THEN report_summary
  ELSE IF kinds["policy"] = "dict" THEN {<<"report", "policy">>} ELSE {}

\* Only lists count; what else is found under the keys may have a length as well.
finding_count == MapThenSumSet(LAMBDA key : lengths[key],
                               {key \in Lists : kinds[key] = "list"})

\* Mutated form of build_evidence_contract: the report's own dictionaries.
ReportAsItIs(d) ==
  [key \in Dicts \cup Texts |->
     IF key \in extra THEN <<"extra", key>>
     ELSE IF key \in Texts \/ Copied(key) = {} THEN <<d, key>>
     ELSE CHOOSE object \in Copied(key) : TRUE]

\* The validated copy, then contract.update(extra).
build_evidence_contract(d) ==
  [key \in Dicts \cup Texts |-> IF key \in extra THEN <<"extra", key>> ELSE <<d, key>>]

\* What evidence_metadata puts beside the contract: mode, workspace and version are the
\* call's and the module's, whatever extra has replaced; the rest is the contract's.
MetadataObjects(d, evidence) == [evidence EXCEPT !["mode"] = <<d, "mode">>]

-----------------------------------------------------------------------------
Init ==
  /\ \E dicts \in [{"policy", "summary", "stats"} -> {"absent", "dict", "other"}],
        lists \in [Lists -> {"absent", "list", "other"}] : kinds = dicts @@ lists
  /\ lengths = [key \in Lists |-> IF kinds[key] = "absent" THEN 0 ELSE 1]
  /\ extra \in SUBSET (Dicts \cup Texts)
  /\ content = [object \in Objects |-> 0]
  /\ stage = [d \in Documents |-> "waiting"]
  /\ contract = [d \in Documents |-> <<>>] /\ head = [d \in Documents |-> <<>>]
  /\ counted = [d \in Documents |-> 0] /\ edits = 0

\* The content of the new dictionary under key.
ContentOf(key) ==
  IF Copied(key) = {} THEN 0 ELSE content[CHOOSE object \in Copied(key) : TRUE]

\* EvidenceContract validates: get() gives its default for an absent key only.  (A value
\* of another type under analysis_mode, artifacts or tables is refused in the same way.)
Valid == kinds["policy"] \in {"absent", "dict"}

Build(d) ==
  /\ stage[d] = "waiting" /\ Valid
  /\ stage' = [stage EXCEPT ![d] = "built"]
  /\ content' = [object \in Objects |->
                   IF object[1] = d THEN ContentOf(object[2]) ELSE content[object]]
  /\ contract' = [contract EXCEPT ![d] = build_evidence_contract(d)]
  /\ head' = [head EXCEPT ![d] = MetadataObjects(d, build_evidence_contract(d))]
  /\ counted' = [counted EXCEPT ![d] = finding_count]
  /\ UNCHANGED <<kinds, lengths, extra, edits>>

\* A ValidationError of the contract, which no one catches.
BuildRaises(d) ==
  /\ stage[d] = "waiting" /\ ~ Valid
  /\ stage' = [stage EXCEPT ![d] = "raised"]
  /\ UNCHANGED <<kinds, lengths, extra, content, contract, head, counted, edits>>

Held(d) == {contract[d][key] : key \in Dicts} \cup {head[d][key] : key \in Dicts}

\* The service changes a dictionary it can reach.
Edit(object) ==
  /\ edits < MaxEdits /\ edits' = edits + 1
  /\ \/ object \in ReportObjects /\ kinds[object[2]] = "dict"
     \/ object \in ExtraObjects /\ object[2] \in extra
     \/ \E d \in Documents : stage[d] = "built" /\ object \in Held(d)
  /\ content' = [content EXCEPT ![object] = @ + 1]
  /\ UNCHANGED <<kinds, lengths, extra, stage, contract, head, counted>>

AddFinding(key) ==
  /\ edits < MaxEdits /\ edits' = edits + 1
  /\ kinds[key] # "absent"
  /\ lengths' = [lengths EXCEPT ![key] = @ + 1]
  /\ UNCHANGED <<kinds, extra, content, stage, contract, head, counted>>

Next ==
  \/ \E d \in Documents : Build(d) \/ BuildRaises(d)
  \/ \E object \in Objects : Edit(object)
  \/ \E key \in Lists : AddFinding(key)

Spec == Init /\ [][Next]_vars

-----------------------------------------------------------------------------
Built == {d \in Documents : stage[d] = "built"}

\* What the metadata of a document shows, in the contract and beside it.
Shown(d) ==
  <<counted[d],
    [key \in Dicts |-> <<content[contract[d][key]], content[head[d][key]]>>],
    [key \in Texts |-> <<contract[d][key], head[d][key]>>]>>

InReport == <<lengths, [object \in ReportObjects |-> content[object]]>>

InExtra == [object \in ExtraObjects |-> content[object]]

\* A document is a copy of its time, in its contract and beside it: what is done to it is
\* not done to the report or, except through a shared extra, to another document, nor the
\* other way round (contracts.py:58-70, 85-93).
EditsStayApart ==
  [][\A d \in Built : Shown(d)' # Shown(d) =>
        /\ InReport' = InReport
        /\ InExtra' # InExtra \/ \A e \in Built \ {d} : Shown(e)' = Shown(e)]_vars

-----------------------------------------------------------------------------
(***************************************************************************)
(* What makes the property inductive: a built document has dictionaries of *)
(* its own, except those that extra hands in, and what is beside its       *)
(* contract are those of the contract.                                     *)
(***************************************************************************)
IsState ==
  /\ content \in [Objects -> Nat]
  /\ stage \in [Documents -> {"waiting", "built", "raised"}]
  /\ counted = [d \in Documents |-> counted[d]]

ContractsAreOwn ==
  contract = [d \in Documents |-> IF stage[d] = "built" THEN build_evidence_contract(d) ELSE <<>>]

HeadsAreOfContracts ==
  head = [d \in Documents |->
            IF stage[d] = "built" THEN MetadataObjects(d, contract[d]) ELSE <<>>]

IInv == IsState /\ ContractsAreOwn /\ HeadsAreOfContracts

=============================================================================
