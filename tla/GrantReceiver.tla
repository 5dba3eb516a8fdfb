---------------------------- MODULE GrantReceiver ----------------------------
(***************************************************************************)
(* A route guarded by capability_grant_dependency, serving several         *)
(* requests at once, and the single-use authority it redeems at.  The      *)
(* coroutine require_capability_grant is interleaved where it awaits: for  *)
(* the request body and for the authority's answer.  Between two awaits it *)
(* runs without interruption, as the event loop guarantees.                *)
(*                                                                         *)
(* The authority, the network between, FastAPI's routing and the client    *)
(* are not in the repository: they are modelled as broadly as the code     *)
(* uses them.                                                              *)
(***************************************************************************)
EXTENDS GrantVerifier

CONSTANTS
  Requests,       \* HTTP requests that reach the route
  Grants,         \* grant ids
  Inputs,         \* what a request may carry
  RequiredValues, \* mappings the route's program may hold as required_claims
  Answers,        \* what may come back for a redemption
  Times,          \* readings of the wall clock
  BadReadings,    \* what now() may return besides the time: {} or {NaN}
  Unspent,        \* a grant the authority has not redeemed yet
  Retired         \* a grant it revoked or let expire unredeemed

GrantOf(request) == request.token.claims.grant_id

ASSUME GrantsAssumption  == \A in \in Inputs : GrantOf(in) \in Grants
ASSUME LedgerAssumption  == /\ Unspent # Retired
                            /\ Unspent \notin Requests /\ Retired \notin Requests
ASSUME ReadingAssumption ==
  /\ Times \subseteq Nat /\ BadReadings \subseteq {NaN} /\ NaN \notin Nat
  /\ \A in \in Inputs : /\ in.token.claims.not_before \in Nat
                        /\ in.token.claims.expires_at \in Nat
ASSUME AnswersAssumption ==
  \A a \in Answers : a.kind = "http" \/ (a.kind = "value" /\ a.value \in RedeemResults)

VARIABLES
  input,     \* what each request carries, fixed by its client
  pc,        \* where its coroutine stands
  status,    \* its HTTP status, 0 while it has none
  required,  \* the mapping the route was built from, still in its program's hands
  snapshot,  \* required_claims_snapshot of the route
  clock,     \* the wall clock; it may be set back
  wire,      \* per request, the exchange with the authority
  ledger,    \* at the authority: the request each grant was redeemed for
  ran        \* the requests whose handler ran

vars == <<input, pc, status, required, snapshot, clock, wire, ledger, ran>>

\* "refused" is a request the receiver turned down by itself, before the redeemer.
Stages == {"received", "body", "redeeming", "granted", "refused", "answered", "dropped"}
Ended  == {"refused", "answered", "dropped"}

Idle      == [stage |-> "idle"]
Posted    == [stage |-> "posted"]
Lost      == [stage |-> "lost"]
Back(a)   == [stage |-> "back", answer |-> a]

Grant(r) == GrantOf(input[r])

-----------------------------------------------------------------------------
Init ==
  /\ input \in [Requests -> Inputs]
  /\ pc = [r \in Requests |-> "received"]
  /\ status = [r \in Requests |-> 0]
  /\ required \in RequiredValues
  /\ snapshot = required
  /\ clock \in Times
  /\ wire = [r \in Requests |-> Idle]
  /\ ledger = [g \in Grants |-> Unspent]
  /\ ran = {}

Answer(r, code) ==
  /\ pc' = [pc EXCEPT ![r] = "answered"]
  /\ status' = [status EXCEPT ![r] = code]

\* A status of the receiver's own making: the redeemer has not been called.
RefuseLocally(r, code) ==
  /\ pc' = [pc EXCEPT ![r] = "refused"]
  /\ status' = [status EXCEPT ![r] = code]

\* The receiver.

\* Up to the await of the body: a grant header that is missing or repeated is a 401.
CheckHeaders(r) ==
  /\ pc[r] = "received"
  /\ IF SingleHeaders(input[r].copies)
     THEN pc' = [pc EXCEPT ![r] = "body"] /\ UNCHANGED status
     ELSE RefuseLocally(r, 401)
  /\ UNCHANGED <<input, required, snapshot, clock, wire, ledger, ran>>

\* Mutated form of Authorize: the redemption is sent off before the internal token is read.
AuthorizeThenReadToken(r, now, reading) ==
  /\ pc[r] = "body"
  /\ LET outcome == Authorization(input[r], snapshot, now, "token")
     IN  IF outcome = "ok"
         THEN /\ wire' = [wire EXCEPT ![r] = Posted]
              /\ IF AuthHeaders(reading) = "ok"
                 THEN pc' = [pc EXCEPT ![r] = "redeeming"] /\ UNCHANGED status
                 ELSE RefuseLocally(r, StatusOf[AuthHeaders(reading)])
         ELSE RefuseLocally(r, StatusOf[outcome]) /\ UNCHANGED wire
  /\ UNCHANGED <<input, required, snapshot, clock, ledger, ran>>

\* The body is there: rebuild, verify, read the clock and the internal token, and hand
\* the redemption to the redeemer, all before the next await.
Authorize(r, now, reading) ==
  /\ pc[r] = "body"
  /\ LET outcome == Authorization(input[r], snapshot, now, reading)
     IN  IF outcome = "ok"
         THEN /\ pc' = [pc EXCEPT ![r] = "redeeming"]
              /\ wire' = [wire EXCEPT ![r] = Posted]
              /\ UNCHANGED status
         ELSE RefuseLocally(r, StatusOf[outcome]) /\ UNCHANGED wire
  /\ UNCHANGED <<input, required, snapshot, clock, ledger, ran>>

BodyArrives(r) ==
  \E now \in {clock} \cup BadReadings, reading \in AuthReadings :
     Authorize(r, now, reading)

\* Mutated forms of ReceiveAnswer: any true value lets the request pass, and an authority
\* that is busy or fails is asked again, and again.
ReceiveTruthy(r) ==
  /\ pc[r] = "redeeming"
  /\ wire[r].stage = "back"
  /\ LET result == RedeemResult(Grant(r), wire[r].answer)
     IN  IF result \in {"True", "Truthy"}
         THEN pc' = [pc EXCEPT ![r] = "granted"] /\ UNCHANGED status
         ELSE Answer(r, RedeemStatus[result])
  /\ wire' = [wire EXCEPT ![r] = Idle]
  /\ UNCHANGED <<input, required, snapshot, clock, ledger, ran>>

ReceiveOrRetry(r) ==
  /\ pc[r] = "redeeming"
  /\ wire[r].stage = "back"
  /\ LET result == RedeemResult(Grant(r), wire[r].answer)
     IN  IF result = "Raised"
         THEN wire' = [wire EXCEPT ![r] = Posted] /\ UNCHANGED <<pc, status>>
         ELSE /\ wire' = [wire EXCEPT ![r] = Idle]
              /\ IF result = "True"
                 THEN pc' = [pc EXCEPT ![r] = "granted"] /\ UNCHANGED status
                 ELSE Answer(r, RedeemStatus[result])
  /\ UNCHANGED <<input, required, snapshot, clock, ledger, ran>>

\* The await of the redeemer ends with an answer.
ReceiveAnswer(r) ==
  /\ pc[r] = "redeeming"
  /\ wire[r].stage = "back"
  /\ LET result == RedeemResult(Grant(r), wire[r].answer)
     IN  IF result = "True"
         THEN pc' = [pc EXCEPT ![r] = "granted"] /\ UNCHANGED status
         ELSE Answer(r, RedeemStatus[result])
  /\ wire' = [wire EXCEPT ![r] = Idle]
  /\ UNCHANGED <<input, required, snapshot, clock, ledger, ran>>

\* It ends without one: the timeout of the client, a connection that fails, or an
\* endpoint template that does not format.  The redemption may still be on its way.
RedeemFails(r) ==
  /\ pc[r] = "redeeming"
  /\ Answer(r, RedeemStatus["Raised"])
  /\ UNCHANGED <<input, required, snapshot, clock, wire, ledger, ran>>

\* FastAPI, after the dependency returned the grant: the handler, or a 422 when the
\* rest of the request does not fit the route.
RunHandler(r) ==
  /\ pc[r] = "granted"
  /\ ran' = ran \cup {r}
  /\ Answer(r, 200)
  /\ UNCHANGED <<input, required, snapshot, clock, wire, ledger>>

RouteRejects(r) ==
  /\ pc[r] = "granted"
  /\ Answer(r, 422)
  /\ UNCHANGED <<input, required, snapshot, clock, wire, ledger, ran>>

\* The client disconnects, the task is cancelled or the process stops.
Abandon(r) ==
  /\ pc[r] \notin Ended
  /\ pc' = [pc EXCEPT ![r] = "dropped"]
  /\ UNCHANGED <<input, status, required, snapshot, clock, wire, ledger, ran>>

-----------------------------------------------------------------------------
(***************************************************************************)
(* The authority.  It redeems a grant once and says so, refuses a spent or *)
(* retired one, and may at any time fail, answer nonsense or refuse the    *)
(* receiver's internal token: 401 when it is missing, 403 when it is wrong *)
(* (verify_service_token).  An answer may be lost, so a redemption may be  *)
(* known to it alone.                                                      *)
(***************************************************************************)
Acknowledges(grant_id, a) ==
  IF a.kind = "value" THEN a.value = "True"
  ELSE /\ a.status \in 200..299 /\ a.json
       /\ a.redeemed /\ a.grant_id = grant_id /\ a.event = "trimmed"

Refuses(a) ==
  IF a.kind = "value" THEN a.value \in {"False", "Denied"}
  ELSE \/ a.status \in (400..499) \ {401, 403, 408, 429}
       \/ a.status \in 200..299 /\ a.json /\ ~ a.redeemed

Redeem(r, a) ==
  /\ wire[r] = Posted
  /\ ledger[Grant(r)] = Unspent
  /\ ~ Refuses(a)
  /\ ledger' = [ledger EXCEPT ![Grant(r)] = r]
  /\ wire' = [wire EXCEPT ![r] = Back(a)]
  /\ UNCHANGED <<input, pc, status, required, snapshot, clock, ran>>

Refuse(r, a) ==
  /\ wire[r] = Posted
  /\ ledger[Grant(r)] # Unspent
  /\ Refuses(a)
  /\ wire' = [wire EXCEPT ![r] = Back(a)]
  /\ UNCHANGED <<input, pc, status, required, snapshot, clock, ledger, ran>>

FailToAnswer(r, a) ==
  /\ wire[r] = Posted
  /\ ~ Acknowledges(Grant(r), a) /\ ~ Refuses(a)
  /\ wire' = [wire EXCEPT ![r] = Back(a)]
  /\ UNCHANGED <<input, pc, status, required, snapshot, clock, ledger, ran>>

LoseMessage(r) ==
  /\ wire[r].stage \in {"posted", "back"}
  /\ wire' = [wire EXCEPT ![r] = Lost]
  /\ UNCHANGED <<input, pc, status, required, snapshot, clock, ledger, ran>>

Retire(g) ==
  /\ ledger[g] = Unspent
  /\ ledger' = [ledger EXCEPT ![g] = Retired]
  /\ UNCHANGED <<input, pc, status, required, snapshot, clock, wire, ran>>

-----------------------------------------------------------------------------
\* The rest of the world: time, and the program that built the route.

SetClock(time) ==
  /\ clock' = time
  /\ UNCHANGED <<input, pc, status, required, snapshot, wire, ledger, ran>>

\* The route's program changes the mapping it passed as required_claims.
MutateRequired(value) ==
  /\ required' = value
  /\ UNCHANGED <<input, pc, status, snapshot, clock, wire, ledger, ran>>

Receiver(r) ==
  \/ CheckHeaders(r) \/ BodyArrives(r) \/ ReceiveAnswer(r)
  \/ RedeemFails(r)  \/ RunHandler(r)  \/ RouteRejects(r) \/ Abandon(r)

Authority(r) ==
  \/ \E a \in Answers : Redeem(r, a) \/ Refuse(r, a) \/ FailToAnswer(r, a)
  \/ LoseMessage(r)

Environment ==
  \/ \E g \in Grants : Retire(g)
  \/ \E time \in Times : SetClock(time)
  \/ \E value \in RequiredValues : MutateRequired(value)

Next == (\E r \in Requests : Receiver(r) \/ Authority(r)) \/ Environment

Spec == Init /\ [][Next]_vars

(***************************************************************************)
(* The event loop runs every coroutine whose await is over.  Nothing is    *)
(* asked of the client, whose body is awaited without a timeout, nor of    *)
(* the redeemer, which is whatever callback the route was given.           *)
(***************************************************************************)
Fairness ==
  \A r \in Requests : WF_vars(CheckHeaders(r)) /\ WF_vars(ReceiveAnswer(r))

FairSpec == Spec /\ Fairness

-----------------------------------------------------------------------------
Exchanges == {Idle, Posted, Lost} \cup {Back(a) : a \in Answers}

TypeOK ==
  /\ input \in [Requests -> Inputs]
  /\ pc \in [Requests -> Stages]
  /\ status \in [Requests -> {0, 200, 400, 401, 403, 422, 500, 503}]
  /\ required \in RequiredValues /\ snapshot \in RequiredValues
  /\ clock \in Times
  /\ wire \in [Requests -> Exchanges]
  /\ ledger \in [Grants -> Requests \cup {Unspent, Retired}]
  /\ ran \subseteq Requests

\* A request the dependency let through, or whose handler ran, is the one request the
\* authority spent the grant on: no answer, whatever its form, and no second request
\* with the same token makes the handler run otherwise (lines 859-869).
RunsOnItsOwnRedemption ==
  \A r \in Requests :
     (pc[r] = "granted" \/ r \in ran) => ledger[Grant(r)] = r

\* The grant a request carries is exact: signed by the trusted issuer for this
\* audience, over the canonical value of this request, its method, its path, this route's
\* profile and these headers.
Exact(request) ==
  LET claims == request.token.claims
  IN  /\ request.token.signed_by = Verifier.public_key
      /\ claims.own_hash
      /\ claims.issuer = Verifier.issuer
      /\ claims.key_id = Verifier.key_id
      /\ claims.audience = Verifier.audience
      /\ claims.request_hash = Reconstruct(request.http)
      /\ claims.transport.profile = RouteProfile
      /\ claims.transport.method = Upper[request.http.method]
      /\ claims.transport.path = request.raw_path
      /\ \A name \in BoundHeaders :
            request.copies[name] = 1 /\ request.headers[name] = claims[name]

\* It carries every claim the route required when it was built.
CarriesRequired(claims) ==
  \A key \in DOMAIN snapshot :
     key \in DOMAIN claims.signed /\ claims.signed[key] = snapshot[key]

Entitled(r) == Exact(input[r]) /\ CarriesRequired(input[r].token.claims)

\* Whatever a grant was spent on had the canonical value, the method, the path, the profile
\* and the headers that were signed, and the claims the route required when it was built,
\* even if the caller's mapping has changed since: an inexact grant is denied "before the
\* grant can be redeemed" (capability_grants.py:766).
SpentGrantsAreExact ==
  \A r \in Requests : ledger[Grant(r)] = r => Entitled(r)

\* A request the receiver refuses by itself never costs a grant, not even later: whether for
\* its headers, its form, an inexact or untimely grant, or an internal token that is missing,
\* malformed or cannot be read, with whatever status (lines 817-857).
LocalRefusalSpendsNothing ==
  \A r \in Requests : pc[r] = "refused" => ledger[Grant(r)] # r

\* A redemption is sent only while the grant is valid by the true time at that moment,
\* however long the body was awaited and whatever else the clock function returned.
RedeemOnlyWhileValid ==
  [][\A r \in Requests :
       (wire[r] = Idle /\ wire'[r] = Posted) =>
          /\ input[r].token.claims.not_before <= clock
          /\ clock < input[r].token.claims.expires_at]_vars

\* What an authority may answer without a word about the grant.
SpeaksOfSomethingElse(a) ==
  a.status \in {401, 403} \/ (a.status \in 200..299 /\ a.json /\ a.redeemed)

\* A 403 that stands for an HTTP answer of the authority is a statement about the grant: it
\* can no longer be redeemed.  An authority that is busy, fails, redirects or answers no JSON
\* never becomes a 403.  Two kinds of answers do without speaking of the grant: a 401 or 403,
\* which may be about the receiver's token and is the subject of module ProtectedRoute, and
\* an odd acknowledgement, of another grant or without its event (lines 679-697, 867-868).
DenialIsFinal ==
  [][\A r \in Requests :
       (/\ pc[r] = "redeeming" /\ status'[r] = 403
        /\ wire[r].answer.kind = "http"
        /\ ~ SpeaksOfSomethingElse(wire[r].answer)) => ledger[Grant(r)] # Unspent]_vars

\* A request that never gets through the dependency waits for ever for its client's body or
\* for its redeemer, and for nothing else: what has come back ends it (lines 825, 862-869).
OnlyAwaitsMayLast ==
  \A r \in Requests :
    \/ <>(pc[r] \in Ended \cup {"granted"})
    \/ <>[](pc[r] = "body")
    \/ <>[](pc[r] = "redeeming" /\ wire[r].stage # "back")

\* The receiver and the authority together keep the promise of module SingleUse: the
\* ledger is its holder, the requests that ran on a grant its users.
Users == [g \in Grants |-> {r \in ran : Grant(r) = g}]

SU == INSTANCE SingleUse WITH holder <- ledger, users <- Users

KeepsSingleUse == SU!Spec

-----------------------------------------------------------------------------
(***************************************************************************)
(* The invariant that is inductive.  Beside the types and the promises     *)
(* above it says what an answer on the wire tells about the ledger, and    *)
(* what has been checked once a redemption is on its way.                  *)
(***************************************************************************)
AcknowledgedIsSpent ==
  \A r \in Requests :
     (wire[r].stage = "back" /\ Acknowledges(Grant(r), wire[r].answer)) =>
        ledger[Grant(r)] = r

RefusedIsGone ==
  \A r \in Requests :
     (wire[r].stage = "back" /\ Refuses(wire[r].answer)) => ledger[Grant(r)] # Unspent

RanIsAnswered == \A r \in ran : pc[r] = "answered"

OpenHasNoStatus == \A r \in Requests : pc[r] \notin Ended => status[r] = 0

BodyHasSingleHeaders ==
  \A r \in Requests : pc[r] = "body" => SingleHeaders(input[r].copies)

NothingSentYet ==
  \A r \in Requests :
     pc[r] \in {"received", "body", "refused"} =>
        wire[r] = Idle /\ ledger[Grant(r)] # r

SentIsEntitled == \A r \in Requests : wire[r] # Idle => Entitled(r)

IInv ==
  /\ TypeOK
  /\ AcknowledgedIsSpent /\ RefusedIsGone
  /\ RunsOnItsOwnRedemption /\ RanIsAnswered
  /\ OpenHasNoStatus /\ BodyHasSingleHeaders
  /\ NothingSentYet /\ SentIsEntitled /\ SpentGrantsAreExact

=============================================================================
