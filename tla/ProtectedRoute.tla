---------------------------- MODULE ProtectedRoute ----------------------------
(***************************************************************************)
(* A route guarded by both controls, service_token_dependency and          *)
(* capability_grant_dependency, and an authority whose own route is        *)
(* guarded by service_token_dependency for the internal token.  FastAPI    *)
(* solves the dependencies of a route one after the other, in the order    *)
(* the route declares them, and stops at the first that raises.            *)
(*                                                                         *)
(* The receiver is that of GrantReceiver: each of its steps below is one   *)
(* of that module with what the composition adds.  The credentials on all  *)
(* three sides, the service's key, the internal token the receiver sends   *)
(* and the one the authority expects, are rotated while requests are on    *)
(* their way; how they are compared is module ServiceKeys.                 *)
(***************************************************************************)
EXTENDS GrantReceiver, ServiceKeys

CONSTANTS
  Held,         \* what a rotation may leave in a file
  Credentials   \* service credentials a request may carry

ASSUME HeldAssumption == Held \subseteq Keys \cup {Blank, Unreadable}
ASSUME CredentialsAssumption == Credentials \subseteq Headers

Orders == {"token_first", "grant_first"}

VARIABLES
  order,         \* how the route declares its two dependencies
  reread,        \* redeem_auth_headers is a callable, not a mapping
  built,         \* the internal token when the route was built
  service_key,   \* what the service's API_KEY_FILE holds
  receiver_key,  \* what the receiver's internal token file holds
  broker_key,    \* what the authority's INTERNAL_API_KEY_FILE holds
  credential,    \* per request, the headers with its service credential
  gate,          \* per request, what require_service_token made of it, and on which key
  carried,       \* per redemption, the internal token it carries
  current        \* the redemptions sent with the receiver's token of that moment, if the
                 \* authority took it then and ever since

outer == <<order, reread, built, service_key, receiver_key, broker_key,
           credential, gate, carried, current>>
keys  == <<service_key, receiver_key, broker_key>>
fixed == <<order, reread, built, credential>>

NotYet == [status |-> 0, key |-> None]

-----------------------------------------------------------------------------
Only(file, value) == [s \in Sources |-> IF s = file THEN value ELSE Blank]

\* What require_service_token makes of a request of the service and of a redemption at the
\* authority.  Only the authority's route takes the internal token.
ServiceStatus(headers, key) ==
  TokenStatus(Only("API_KEY_FILE", key), [key |-> "own", accepts |-> FALSE], headers)

BrokerStatus(token, key) ==
  TokenStatus(Only("INTERNAL_API_KEY_FILE", key), [key |-> "internal", accepts |-> TRUE],
              [x_api_key |-> None, bearer |-> None, internal |-> token])

\* Mutated form of InternalToken: a callable, too, is asked once.
TokenOfConstruction == built

\* _resolved_auth_headers: a callable is asked at every redemption, a mapping holds what
\* it held when the program built it.
InternalToken == IF reread THEN receiver_key ELSE built

\* broker_internal_token_headers on what it finds.
Reading(value) ==
  IF value = Unreadable THEN "unreadable" ELSE IF value = Blank THEN "missing" ELSE "token"

\* FastAPI comes to a dependency once those declared before it have returned.
Reached(r, dependency) ==
  IF dependency = "token"
  THEN order = "token_first" \/ pc[r] = "granted"
  ELSE order = "grant_first" \/ gate[r].status = 200

-----------------------------------------------------------------------------
RouteInit ==
  /\ Init
  /\ order \in Orders /\ reread \in BOOLEAN
  /\ service_key \in Keys /\ receiver_key \in Keys /\ broker_key = receiver_key
  /\ built = receiver_key
  /\ credential \in [Requests -> Credentials]
  /\ gate = [r \in Requests |-> NotYet]
  /\ carried = [r \in Requests |-> None]
  /\ current = {}

\* require_service_token, in a thread of the pool; a refusal ends the request.
CheckToken(r) ==
  /\ gate[r] = NotYet /\ pc[r] \in {"received", "granted"}
  /\ Reached(r, "token")
  /\ LET code == ServiceStatus(credential[r], service_key)
     IN  /\ gate' = [gate EXCEPT ![r] = [status |-> code, key |-> service_key]]
         /\ IF code = 200 THEN UNCHANGED pc ELSE pc' = [pc EXCEPT ![r] = "dropped"]
  /\ UNCHANGED <<input, status, required, snapshot, clock, wire, ledger, ran>>
  /\ UNCHANGED <<fixed, keys, carried, current>>

BeginGrant(r) ==
  /\ Reached(r, "grant")
  /\ CheckHeaders(r)
  /\ UNCHANGED outer

\* The redemption leaves with the token that is read now.
SendRedemption(r) ==
  /\ \E now \in {clock} \cup BadReadings : Authorize(r, now, Reading(InternalToken))
  /\ IF wire'[r] = Posted
     THEN /\ carried' = [carried EXCEPT ![r] = InternalToken]
          /\ current' = IF BrokerStatus(receiver_key, broker_key) = 200 THEN current \cup {r}
                        ELSE current
     ELSE UNCHANGED <<carried, current>>
  /\ UNCHANGED <<fixed, keys, gate>>

Finish(r) ==
  /\ \/ ReceiveAnswer(r) \/ RedeemFails(r)
     \/ gate[r].status = 200 /\ (RunHandler(r) \/ RouteRejects(r))
     \/ Abandon(r)
  /\ UNCHANGED outer

-----------------------------------------------------------------------------
(***************************************************************************)
(* The authority looks at the token first.  A receiver it has let in gets  *)
(* a 401 or a 403 only about a grant that cannot be redeemed.              *)
(***************************************************************************)
TurnAway(r, a) ==
  /\ BrokerStatus(carried[r], broker_key) # 200
  /\ a.kind = "http" /\ a.status = BrokerStatus(carried[r], broker_key)
  /\ FailToAnswer(r, a)
  /\ UNCHANGED outer

LetIn(r, a) ==
  /\ BrokerStatus(carried[r], broker_key) = 200
  /\ a.kind = "http"
  /\ a.status \in {401, 403} => ledger[Grant(r)] # Unspent
  /\ Redeem(r, a) \/ Refuse(r, a) \/ FailToAnswer(r, a)
  /\ UNCHANGED outer

Lose(r) == LoseMessage(r) /\ UNCHANGED outer

\* Operators rotate or remove a credential on one of the three sides.
RotateServiceKey(value) ==
  /\ service_key' = value
  /\ UNCHANGED <<vars, fixed, receiver_key, broker_key, gate, carried, current>>

RotateReceiverKey(value) ==
  /\ receiver_key' = value
  /\ UNCHANGED <<vars, fixed, service_key, broker_key, gate, carried, current>>

RotateBrokerKey(value) ==
  /\ broker_key' = value
  /\ UNCHANGED <<vars, fixed, service_key, receiver_key, gate, carried>>
  /\ current' = {r \in current : BrokerStatus(carried[r], value) = 200}

World == Environment /\ UNCHANGED outer

RouteNext ==
  \/ \E r \in Requests :
       \/ CheckToken(r) \/ BeginGrant(r) \/ SendRedemption(r) \/ Finish(r) \/ Lose(r)
       \/ \E a \in Answers : TurnAway(r, a) \/ LetIn(r, a)
  \/ \E value \in Held :
       RotateServiceKey(value) \/ RotateReceiverKey(value) \/ RotateBrokerKey(value)
  \/ World

RouteSpec == RouteInit /\ [][RouteNext]_<<vars, outer>>

-----------------------------------------------------------------------------
RouteTypeOK ==
  /\ TypeOK
  /\ order \in Orders /\ reread \in BOOLEAN /\ built \in Keys
  /\ {service_key, receiver_key, broker_key} \subseteq Keys \cup {Blank, Unreadable}
  /\ credential \in [Requests -> Credentials]
  /\ gate \in [Requests -> [status : {0, 200, 401, 403, 500, 503},
                            key : Keys \cup {Blank, Unreadable, None}]]
  /\ carried \in [Requests -> Keys \cup {None}]
  /\ current \subseteq Requests

\* "One must never silently substitute for the other" (CAPABILITY_GRANTS.md:66-68): a
\* handler runs only for a request that presented what was the service's key when it was
\* checked, and whose grant was spent on it, whatever was rotated meanwhile.
BothControls ==
  \A r \in ran :
    /\ gate[r].key \in {credential[r].x_api_key, credential[r].bearer} \cap Keys
    /\ ledger[Grant(r)] = r

\* A receiver whose token file is up to date loses nothing by earlier rotations: when
\* redeem_auth_headers is a callable, a 403 for a 4xx answer means that the grant is gone,
\* if the authority took the receiver's token when the redemption was sent and the token
\* has not been replaced at the authority since (lines 679-683, 710-714).
CurrentTokenDenialIsFinal ==
  [][\A r \in Requests :
       (/\ reread /\ r \in current
        /\ pc[r] = "redeeming" /\ status'[r] = 403
        /\ wire[r].answer.kind = "http"
        /\ wire[r].answer.status \in 400..499) => ledger[Grant(r)] # Unspent]_<<vars, outer>>

-----------------------------------------------------------------------------
(***************************************************************************)
(* What makes them inductive, beside the invariant IInv of the receiver.   *)
(***************************************************************************)
GateIsOnTheKey ==
  \A r \in Requests : gate[r].status = 200 =>
     gate[r].key \in {credential[r].x_api_key, credential[r].bearer} \cap Keys

RanBehindGate == \A r \in ran : gate[r].status = 200

CurrentIsTaken ==
  reread => \A r \in current : BrokerStatus(carried[r], broker_key) = 200

CurrentDenialIsGone ==
  reread => \A r \in current :
    (/\ wire[r].stage = "back" /\ wire[r].answer.kind = "http"
     /\ wire[r].answer.status \in (400..499) \ {408, 429}) => ledger[Grant(r)] # Unspent

CurrentIsSent == \A r \in current : pc[r] \notin {"received", "body"}

RouteIInv ==
  /\ RouteTypeOK
  /\ GateIsOnTheKey /\ RanBehindGate
  /\ CurrentIsSent /\ CurrentIsTaken /\ CurrentDenialIsGone

=============================================================================
