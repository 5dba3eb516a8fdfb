------------------------- MODULE ProtectedRouteProofs -------------------------
(***************************************************************************)
(* Theorems about the route with both controls.  Each of its steps is one  *)
(* of GrantReceiver or leaves that module's variables alone, so its        *)
(* invariant IInv holds here too and is used, not proved again.            *)
(***************************************************************************)
EXTENDS ProtectedRoute, GrantReceiverProofs

outerVars == <<vars, outer>>

\* The only value that may be set is the first that is not blank.
LEMMA OnlyValueIsFirst ==
  ASSUME NEW n \in Nat, NEW V, NEW values \in [1..n -> V], NEW k \in 1..n,
         \A i \in 1..n : i # k => values[i] = Blank
  PROVE  FirstNonBlank(values) = values[k]
<1>1. CASE values[k] = Blank
  BY <1>1 DEF FirstNonBlank
<1>2. CASE values[k] # Blank
  <2>1. IsFirstSet(values, k)
    BY <1>2 DEF IsFirstSet
  <2>2. \A i \in 1..n : IsFirstSet(values, i) => i = k
    BY <1>2 DEF IsFirstSet
  <2> QED
    BY <1>2, <2>1, <2>2 DEF FirstNonBlank
<1> QED
  BY <1>1, <1>2

\* The service's dependency lets a request in only on the service's key, presented as
\* X-API-Key or as a bearer token.
LEMMA LetInOnTheKey ==
  ASSUME NEW headers \in Credentials, NEW key \in Keys \cup {Blank, Unreadable}
  PROVE  /\ ServiceStatus(headers, key) \in {200, 401, 403, 500, 503}
         /\ ServiceStatus(headers, key) = 200 =>
              key \in {headers.x_api_key, headers.bearer} \cap Keys
<1> DEFINE source == Only("API_KEY_FILE", key)
           route  == [key |-> "own", accepts |-> FALSE]
           values == <<Blank, key, Blank, Blank, Blank, Blank>>
<1>1. FirstNonBlank(values) = key
  <2>1. values \in [1..6 -> {Blank, key}]
    OBVIOUS
  <2>2. values[2] = key /\ \A i \in 1..6 : i # 2 => values[i] = Blank
    OBVIOUS
  <2> HIDE DEF values
  <2>3. \A i \in 1..6 : i # 2 => values[i] = Blank
    BY <2>2
  <2>4. 6 \in Nat /\ 2 \in 1..6
    OBVIOUS
  <2>5. FirstNonBlank(values) = values[2]
    BY <2>1, <2>3, <2>4, OnlyValueIsFirst, Zenon
  <2> QED
    BY <2>2, <2>5
<1>2. ConfiguredKey(source, route) = Blank
  BY DEF ConfiguredKey, Only, Sources, FileSources, TextSources
<1>3. service_api_key(source, Blank) = key
  BY <1>1 DEF service_api_key, Only, Sources, FileSources, TextSources
<1>4. /\ headers.x_api_key \in Keys \cup {None, Spaces}
      /\ headers.bearer \in Keys \cup {None}
  BY CredentialsAssumption DEF Headers
<1>5. Provided(route, headers) # Blank =>
        Provided(route, headers) \in {headers.x_api_key, headers.bearer}
  BY <1>4 DEF Provided, Strip
<1> QED
  BY <1>2, <1>3, <1>5, KeysAssumption
  DEF ServiceStatus, TokenStatus, CompareStatus

\* A redemption carries an internal token, or it is not sent.
LEMMA AuthorizedHasToken ==
  ASSUME NEW request, NEW required_snapshot, NEW now,
         NEW value \in Keys \cup {Blank, Unreadable},
         Authorization(request, required_snapshot, now, Reading(value)) = "ok"
  PROVE  value \in Keys
<1>1. Reading(value) \in AuthReadings
  BY DEF Reading, AuthReadings
<1>2. AuthHeaders(Reading(value)) = "ok"
  BY <1>1, AuthorizationDecides
<1> QED
  BY <1>2 DEF Reading, AuthHeaders

-----------------------------------------------------------------------------
\* A step of the route is a step of the receiver or leaves the receiver alone.
LEMMA StepIsReceivers == [RouteNext]_outerVars => [Next]_vars
<1> SUFFICES ASSUME RouteNext PROVE [Next]_vars
  BY DEF outerVars, outer
<1>1. ASSUME NEW r \in Requests, CheckToken(r) PROVE Abandon(r) \/ UNCHANGED vars
  BY <1>1 DEF CheckToken, Abandon, vars, Ended
<1>2. ASSUME NEW r \in Requests, SendRedemption(r) PROVE BodyArrives(r)
  <2>1. Reading(InternalToken) \in AuthReadings
    BY DEF Reading, AuthReadings
  <2> QED
    BY <1>2, <2>1 DEF SendRedemption, BodyArrives
<1>3. ASSUME NEW r \in Requests, BeginGrant(r) \/ Finish(r) PROVE Receiver(r)
  BY <1>3 DEF BeginGrant, Finish, Receiver
<1>4. ASSUME NEW r \in Requests, Lose(r) \/ \E a \in Answers : TurnAway(r, a) \/ LetIn(r, a)
      PROVE  Authority(r)
  BY <1>4 DEF Lose, TurnAway, LetIn, Authority
<1>5. ASSUME NEW value, RotateServiceKey(value) \/ RotateReceiverKey(value)
                          \/ RotateBrokerKey(value)
      PROVE  UNCHANGED vars
  BY <1>5 DEF RotateServiceKey, RotateReceiverKey, RotateBrokerKey
<1>6. ASSUME World PROVE Environment
  BY <1>6 DEF World
<1> QED
  BY <1>1, <1>2, <1>3, <1>4, <1>5, <1>6 DEF RouteNext, Next, Receiver

\* The composition implements the receiver, so all that is proved of it holds here.
THEOREM RouteIsReceiver == RouteSpec => Spec
<1>1. RouteInit => Init
  BY DEF RouteInit
<1> QED
  BY <1>1, StepIsReceivers, PTL DEF RouteSpec, Spec, outerVars

LEMMA RouteKeepsIInv == RouteSpec => []IInv
  BY RouteIsReceiver, Inductive, PTL

-----------------------------------------------------------------------------
LEMMA RouteInitInv == RouteInit /\ IInv => RouteIInv
<1> SUFFICES ASSUME RouteInit, IInv PROVE RouteIInv
  OBVIOUS
<1>1. RouteTypeOK
  BY DEF RouteInit, IInv, RouteTypeOK, NotYet
<1>2. \A r \in Requests : /\ pc[r] = "received" /\ wire[r] = Idle /\ gate[r].status = 0
                          /\ ledger[Grant(r)] # r
  BY LedgerAssumption DEF RouteInit, Init, NotYet, IInv, NothingSentYet
<1>3. ran = {} /\ current = {}
  BY DEF RouteInit, Init
<1> QED
  BY <1>1, <1>2, <1>3
  DEF RouteIInv, GateIsOnTheKey, RanBehindGate, CurrentIsSent, CurrentIsTaken, CurrentDenialIsGone

\* The service token is checked: what the gate records is the key it was checked on.
LEMMA CheckTokenStep ==
  ASSUME IInv, IInv', RouteIInv, [Next]_vars, NEW r \in Requests, CheckToken(r)
  PROVE  RouteIInv'
<1> DEFINE code == ServiceStatus(credential[r], service_key)
<1>1. /\ gate[r] = NotYet
      /\ gate' = [gate EXCEPT ![r] = [status |-> code, key |-> service_key]]
      /\ \A q \in Requests : pc'[q] = pc[q] \/ pc'[q] = "dropped"
      /\ UNCHANGED <<wire, ledger, ran, fixed, keys, carried, current>>
  BY DEF CheckToken, IInv, TypeOK
<1>2. /\ code \in {200, 401, 403, 500, 503}
      /\ code = 200 =>
           service_key \in {credential[r].x_api_key, credential[r].bearer} \cap Keys
  BY LetInOnTheKey DEF RouteIInv, RouteTypeOK
<1> HIDE DEF code
<1>3. RouteTypeOK'
  BY <1>1, <1>2 DEF IInv, RouteIInv, RouteTypeOK, fixed, keys
<1>4. GateIsOnTheKey' /\ RanBehindGate'
  BY <1>1, <1>2 DEF IInv, TypeOK, RouteIInv, RouteTypeOK, GateIsOnTheKey, RanBehindGate,
                    NotYet, fixed, keys
<1>5. CurrentIsSent' /\ CurrentIsTaken' /\ CurrentDenialIsGone'
  BY <1>1, <1>2, Constant
  DEF IInv, TypeOK, RouteIInv, RouteTypeOK, CurrentIsSent, CurrentIsTaken, CurrentDenialIsGone, NotYet, fixed, keys
<1> QED
  BY <1>3, <1>4, <1>5 DEF RouteIInv

\* The grant's dependency begins: nothing is sent before the body is there.
LEMMA BeginGrantStep ==
  ASSUME IInv, IInv', RouteIInv, [Next]_vars, NEW r \in Requests, BeginGrant(r)
  PROVE  RouteIInv'
<1>1. /\ pc[r] = "received"
      /\ pc'[r] \in {"body", "refused"}
      /\ \A q \in Requests : q # r => pc'[q] = pc[q]
      /\ UNCHANGED <<wire, ledger, ran, outer>>
  BY DEF BeginGrant, CheckHeaders, RefuseLocally, IInv, TypeOK
<1>2. RouteTypeOK'
  BY <1>1 DEF IInv, RouteIInv, RouteTypeOK, outer
<1>3. GateIsOnTheKey' /\ RanBehindGate'
  BY <1>1 DEF IInv, RouteIInv, GateIsOnTheKey, RanBehindGate, outer
<1>4. CurrentIsSent' /\ CurrentIsTaken' /\ CurrentDenialIsGone'
  BY <1>1, Constant
  DEF IInv, RouteIInv, RouteTypeOK, CurrentIsSent, CurrentIsTaken, CurrentDenialIsGone, outer
<1> QED
  BY <1>2, <1>3, <1>4 DEF RouteIInv

\* A redemption leaves: it carries a token, and when a callable was asked the receiver's.
LEMMA SendStep ==
  ASSUME IInv, IInv', RouteIInv, [Next]_vars, NEW r \in Requests, SendRedemption(r)
  PROVE  RouteIInv'
<1>1. PICK now \in {clock} \cup BadReadings : Authorize(r, now, Reading(InternalToken))
  BY DEF SendRedemption
<1>2. /\ pc[r] = "body" /\ pc'[r] \notin {"received", "body"}
      /\ \A q \in Requests : q # r => pc'[q] = pc[q] /\ wire'[q] = wire[q]
      /\ wire'[r] \in {wire[r], Posted}
      /\ UNCHANGED <<ledger, ran, fixed, keys, gate>>
  BY <1>1 DEF SendRedemption, Authorize, RefuseLocally, IInv, TypeOK
<1>3. r \notin current /\ wire[r] = Idle
  BY <1>2 DEF RouteIInv, CurrentIsSent, IInv, NothingSentYet
<1>4. \/ UNCHANGED <<carried, current>>
      \/ /\ InternalToken \in Keys
         /\ carried' = [carried EXCEPT ![r] = InternalToken]
         /\ current' = IF BrokerStatus(receiver_key, broker_key) = 200
                       THEN current \cup {r} ELSE current
  <2>1. CASE wire'[r] = Posted
    <3>1. Authorization(input[r], snapshot, now, Reading(InternalToken)) = "ok"
      BY <1>1, <1>3, <2>1 DEF Authorize, Idle, Posted
    <3>2. InternalToken \in Keys \cup {Blank, Unreadable}
      BY DEF RouteIInv, RouteTypeOK, InternalToken
    <3> QED
      BY <2>1, <3>1, <3>2, AuthorizedHasToken DEF SendRedemption
  <2>2. CASE wire'[r] # Posted
    BY <2>2 DEF SendRedemption
  <2> QED
    BY <2>1, <2>2
<1>5. RouteTypeOK'
  BY <1>2, <1>4 DEF IInv, RouteIInv, RouteTypeOK, fixed, keys
<1>6. GateIsOnTheKey' /\ RanBehindGate'
  BY <1>2 DEF IInv, RouteIInv, GateIsOnTheKey, RanBehindGate, fixed
<1>7. CurrentIsSent'
  BY <1>2, <1>4 DEF RouteIInv, RouteTypeOK, CurrentIsSent
<1>8. CurrentIsTaken'
  BY <1>2, <1>3, <1>4
  DEF RouteIInv, RouteTypeOK, CurrentIsTaken, InternalToken, fixed, keys
<1>9. CurrentDenialIsGone'
  <2>1. \A q \in current' : q = r \/ q \in current
    BY <1>4
  <2>2. wire'[r].stage # "back"
    BY <1>2, <1>3 DEF Idle, Posted
  <2> QED
    BY <1>2, <2>1, <2>2, Constant
    DEF IInv, RouteIInv, RouteTypeOK, CurrentDenialIsGone, fixed
<1> QED
  BY <1>5, <1>6, <1>7, <1>8, <1>9 DEF RouteIInv

\* The request ends, or the grant's dependency returns; a handler runs behind the gate.
LEMMA FinishStep ==
  ASSUME IInv, IInv', RouteIInv, [Next]_vars, NEW r \in Requests, Finish(r)
  PROVE  RouteIInv'
<1>1. /\ pc'[r] \in {"granted", "answered", "dropped"}
      /\ \A q \in Requests : q # r => pc'[q] = pc[q]
      /\ \A q \in Requests : wire'[q] = wire[q] \/ wire'[q] = Idle
      /\ \A q \in ran' : q \in ran \/ gate[q].status = 200
      /\ UNCHANGED <<ledger, outer>>
  BY DEF Finish, ReceiveAnswer, RedeemFails, RunHandler, RouteRejects, Abandon, Answer,
         IInv, TypeOK
<1>2. RouteTypeOK' /\ GateIsOnTheKey' /\ RanBehindGate'
  BY <1>1 DEF IInv, RouteIInv, RouteTypeOK, GateIsOnTheKey, RanBehindGate, outer
<1>3. CurrentIsSent'
  BY <1>1 DEF RouteIInv, RouteTypeOK, CurrentIsSent, outer
<1>4. CurrentIsTaken' /\ CurrentDenialIsGone'
  BY <1>1, Constant
  DEF IInv, RouteIInv, RouteTypeOK, CurrentIsTaken, CurrentDenialIsGone, outer, Idle
<1> QED
  BY <1>2, <1>3, <1>4 DEF RouteIInv

\* The authority turns a redemption away or lets it in, or a message is lost.
LEMMA AuthorityStep ==
  ASSUME IInv, IInv', RouteIInv, [Next]_vars, NEW r \in Requests,
         Lose(r) \/ \E a \in Answers : TurnAway(r, a) \/ LetIn(r, a)
  PROVE  RouteIInv'
<1>1. /\ wire[r].stage \in {"posted", "back"}
      /\ \A q \in Requests : q # r => wire'[q] = wire[q]
      /\ \A g \in Grants : ledger'[g] = ledger[g] \/ (ledger[g] = Unspent /\ ledger'[g] = r)
      /\ UNCHANGED <<pc, ran, outer>>
  BY Constant DEF Lose, TurnAway, LetIn, LoseMessage, Redeem, Refuse, FailToAnswer, Posted,
         IInv, TypeOK
<1>2. RouteTypeOK' /\ GateIsOnTheKey' /\ RanBehindGate'
  BY <1>1 DEF IInv, RouteIInv, RouteTypeOK, GateIsOnTheKey, RanBehindGate, outer
<1>3. CurrentIsSent' /\ CurrentIsTaken'
  BY <1>1 DEF RouteIInv, CurrentIsSent, CurrentIsTaken, outer
<1>4. CurrentDenialIsGone'
  <2>1. SUFFICES ASSUME reread, NEW q \in current, q \in Requests,
                        wire'[q].stage = "back", wire'[q].answer.kind = "http",
                        wire'[q].answer.status \in (400..499) \ {408, 429}
                 PROVE  ledger'[Grant(q)] # Unspent
    BY <1>1, Constant DEF CurrentDenialIsGone, outer, IInv, RouteIInv, RouteTypeOK
  <2>2. CASE q # r
    <3>1. ledger[Grant(q)] # Unspent
      BY <1>1, <2>1, <2>2 DEF RouteIInv, CurrentDenialIsGone
    <3> QED
      BY <1>1, <2>1, <3>1, Constant DEF IInv
  <2>3. CASE q = r
    <3>1. BrokerStatus(carried[r], broker_key) = 200
      BY <2>1, <2>3 DEF RouteIInv, CurrentIsTaken
    <3>2. ~ Lose(r)
      BY <2>1, <2>3 DEF Lose, LoseMessage, Lost, IInv, TypeOK
    <3>3. PICK a \in Answers : LetIn(r, a)
      BY <3>1, <3>2 DEF TurnAway
    <3>4. wire'[r].answer = a
      BY <3>3 DEF LetIn, Redeem, Refuse, FailToAnswer, Back, IInv, TypeOK
    <3>5. CASE Redeem(r, a)
      BY <2>3, <3>5, Constant, LedgerAssumption DEF Redeem, IInv, TypeOK
    <3>6. CASE Refuse(r, a)
      BY <2>3, <3>6 DEF Refuse
    <3>7. CASE FailToAnswer(r, a)
      BY <2>1, <2>3, <3>3, <3>4, <3>7 DEF FailToAnswer, Refuses, LetIn
    <3> QED
      BY <2>3, <3>3, <3>5, <3>6, <3>7 DEF LetIn
  <2> QED
    BY <2>2, <2>3
<1> QED
  BY <1>2, <1>3, <1>4 DEF RouteIInv

\* A credential is rotated: what was current stays so only while the authority takes it.
LEMMA RotateStep ==
  ASSUME IInv, IInv', RouteIInv, [Next]_vars, NEW value \in Held,
         RotateServiceKey(value) \/ RotateReceiverKey(value) \/ RotateBrokerKey(value)
  PROVE  RouteIInv'
<1>1. UNCHANGED <<vars, fixed, gate, carried>> /\ current' \subseteq current
  BY DEF RotateServiceKey, RotateReceiverKey, RotateBrokerKey
<1>2. RouteTypeOK'
  BY <1>1, HeldAssumption
  DEF RotateServiceKey, RotateReceiverKey, RotateBrokerKey, IInv, RouteIInv, RouteTypeOK, fixed
<1>3. GateIsOnTheKey' /\ RanBehindGate'
  BY <1>1 DEF vars, fixed, IInv, RouteIInv, GateIsOnTheKey, RanBehindGate
<1>4. CurrentIsSent' /\ CurrentDenialIsGone'
  BY <1>1, Constant
  DEF vars, fixed, IInv, RouteIInv, RouteTypeOK, CurrentIsSent, CurrentDenialIsGone
<1>5. CurrentIsTaken'
  BY <1>1 DEF RotateServiceKey, RotateReceiverKey, RotateBrokerKey, fixed, RouteIInv,
              CurrentIsTaken
<1> QED
  BY <1>2, <1>3, <1>4, <1>5 DEF RouteIInv

\* The rest of the world retires unspent grants, and changes nothing else that counts.
LEMMA WorldStepOfRoute ==
  ASSUME IInv, IInv', RouteIInv, [Next]_vars, World \/ UNCHANGED outerVars
  PROVE  RouteIInv'
<1>1. /\ UNCHANGED <<pc, wire, ran, outer>>
      /\ \A g \in Grants : ledger'[g] = ledger[g]
                           \/ (ledger[g] = Unspent /\ ledger'[g] = Retired)
  BY DEF World, Environment, Retire, SetClock, MutateRequired, outerVars, vars, IInv, TypeOK
<1>2. RouteTypeOK' /\ GateIsOnTheKey' /\ RanBehindGate' /\ CurrentIsSent' /\ CurrentIsTaken'
  BY <1>1 DEF IInv, RouteIInv, RouteTypeOK, GateIsOnTheKey, RanBehindGate, CurrentIsSent,
              CurrentIsTaken, outer
<1>3. CurrentDenialIsGone'
  BY <1>1, Constant, LedgerAssumption
  DEF IInv, RouteIInv, RouteTypeOK, CurrentDenialIsGone, outer
<1> QED
  BY <1>2, <1>3 DEF RouteIInv

LEMMA RouteNextInv == IInv /\ IInv' /\ RouteIInv /\ [RouteNext]_outerVars => RouteIInv'
<1> SUFFICES ASSUME IInv, IInv', RouteIInv, [RouteNext]_outerVars PROVE RouteIInv'
  OBVIOUS
<1>1. [Next]_vars
  BY StepIsReceivers
<1> QED
  BY <1>1, CheckTokenStep, BeginGrantStep, SendStep, FinishStep, AuthorityStep, RotateStep,
     WorldStepOfRoute DEF RouteNext

LEMMA RouteInductive == RouteSpec => []RouteIInv
  BY RouteKeepsIInv, RouteInitInv, RouteNextInv, PTL DEF RouteSpec, outerVars

-----------------------------------------------------------------------------
\* Every variable of the composition has its type; a redemption that was sent carried a
\* token (lines 710-723).
THEOREM RouteTypeCorrect == RouteSpec => []RouteTypeOK
<1>1. RouteIInv => RouteTypeOK
  BY DEF RouteIInv
<1> QED
  BY <1>1, RouteInductive, PTL

\* Neither control substitutes for the other: a handler runs only behind both.
THEOREM HandlersRunBehindBothControls == RouteSpec => []BothControls
<1>1. IInv /\ RouteIInv => BothControls
  <2> SUFFICES ASSUME IInv, RouteIInv, NEW r \in ran
               PROVE  /\ gate[r].key \in {credential[r].x_api_key, credential[r].bearer} \cap Keys
                      /\ ledger[Grant(r)] = r
    BY DEF BothControls
  <2>1. r \in Requests
    BY DEF IInv, TypeOK
  <2>2. gate[r].status = 200
    BY DEF RouteIInv, RanBehindGate
  <2> QED
    BY <2>1, <2>2 DEF RouteIInv, GateIsOnTheKey, IInv, RunsOnItsOwnRedemption
<1> QED
  BY <1>1, RouteKeepsIInv, RouteInductive, PTL

\* With a token read anew for every redemption, a rotation that is complete on both sides
\* when a redemption is sent cannot turn a good grant into a denial.
THEOREM CurrentTokenDenialsAreFinal == RouteSpec => CurrentTokenDenialIsFinal
<1> DEFINE Final == \A r \in Requests :
                       (/\ reread /\ r \in current
                        /\ pc[r] = "redeeming" /\ status'[r] = 403
                        /\ wire[r].answer.kind = "http"
                        /\ wire[r].answer.status \in 400..499) => ledger[Grant(r)] # Unspent
<1>1. IInv /\ RouteIInv /\ [RouteNext]_outerVars => [Final]_outerVars
  <2> SUFFICES ASSUME IInv, RouteIInv, [RouteNext]_outerVars, NEW r \in Requests,
                      reread, r \in current, pc[r] = "redeeming", status'[r] = 403,
                      wire[r].answer.kind = "http", wire[r].answer.status \in 400..499
               PROVE  ledger[Grant(r)] # Unspent
    OBVIOUS
  <2>1. [Next]_vars
    BY StepIsReceivers
  <2>2. /\ wire[r].stage = "back" /\ wire[r].answer \in Answers
        /\ RedeemResult(Grant(r), wire[r].answer) # "Raised"
    BY <2>1, RefusedOnAnAnswer
  <2>3. wire[r].answer.status \notin {408, 429}
    BY <2>2 DEF RedeemResult, HttpRedeemResult
  <2> QED
    BY <2>2, <2>3 DEF RouteIInv, CurrentDenialIsGone
<1> QED
  BY <1>1, RouteKeepsIInv, RouteInductive, PTL
  DEF RouteSpec, outerVars, CurrentTokenDenialIsFinal

=============================================================================
