------------------------------ MODULE SingleUse ------------------------------
(***************************************************************************)
(* What a capability grant promises: it is spent on one request at most,   *)
(* and only that request is ever served on it, once.                       *)
(***************************************************************************)
CONSTANTS Requests, Grants, Unspent, Retired

VARIABLES
  holder,  \* per grant, the request it was spent on, or Unspent or Retired
  users    \* per grant, the requests served on it

vars == <<holder, users>>

Init ==
  /\ holder = [g \in Grants |-> Unspent]
  /\ users = [g \in Grants |-> {}]

Spend(g, r) ==
  /\ holder[g] = Unspent
  /\ holder' = [holder EXCEPT ![g] = r]
  /\ UNCHANGED users

Retire(g) ==
  /\ holder[g] = Unspent
  /\ holder' = [holder EXCEPT ![g] = Retired]
  /\ UNCHANGED users

Serve(g, r) ==
  /\ holder[g] = r /\ users[g] = {}
  /\ users' = [users EXCEPT ![g] = {r}]
  /\ UNCHANGED holder

Next ==
  \E g \in Grants : Retire(g) \/ \E r \in Requests : Spend(g, r) \/ Serve(g, r)

Spec == Init /\ [][Next]_vars

=============================================================================
