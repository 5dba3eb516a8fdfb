---------------------------- MODULE GrantVerifier ----------------------------
(***************************************************************************)
(* What the receiver decides by itself about one request that carries a    *)
(* capability grant, in the order the code decides it                      *)
(* (src/sharedai/servicekit/capability_grants.py).  Operators only: the    *)
(* receiver as a process is module GrantReceiver.                          *)
(*                                                                         *)
(* A request is [headers, copies, token, http, raw_path]: the values of    *)
(* the bound headers, how often every grant header occurs, the token of    *)
(* the grant header, the HTTP request of module RequestPayload and the     *)
(* path of the ASGI scope.  A token is [compact, signed_by, schema,        *)
(* claims]: its shape decodes, the key that signed it, its claims are      *)
(* canonical JSON of the schema, and these claims.                         *)
(***************************************************************************)
EXTENDS RequestPayload

CONSTANTS
  Verifier,      \* [issuer, key_id, audience, public_key]
  RouteProfile,  \* transport type, service, auth and TLS profile of the route
  NaN,           \* a clock reading that is not a finite number
  BadPath        \* a raw path that is missing or no plain absolute path

(***************************************************************************)
(* The outcome of a check: "ok" or what it raises, "format" and "denied"   *)
(* for the two grant errors and "error" for any other exception.           *)
(***************************************************************************)
Errors == {"format", "denied", "error"}

Require(condition, error) == IF condition THEN "ok" ELSE error

IsFirst(i, outcomes) ==
  /\ outcomes[i] # "ok"
  /\ \A j \in DOMAIN outcomes : j < i => outcomes[j] = "ok"

\* Checks run in sequence: the first that raises decides, the later ones never run.
FirstRaise(outcomes) ==
  IF \A i \in DOMAIN outcomes : outcomes[i] = "ok" THEN "ok"
  ELSE outcomes[CHOOSE i \in DOMAIN outcomes : IsFirst(i, outcomes)]

\* Every comparison with a NaN is false.
Less(x, y)    == x # NaN /\ y # NaN /\ x < y
AtLeast(x, y) == x # NaN /\ y # NaN /\ x >= y

-----------------------------------------------------------------------------
BoundHeaders == {"grant_id", "task_id", "trace_id", "action_id",
                 "attempt_id", "idempotency_key"}

GrantHeaders == BoundHeaders \cup {"token"}

\* _single_header on the token header and on every bound header.
SingleHeaders(copies) == \A name \in GrantHeaders : copies[name] = 1

\* reconstruct_fastapi_raw_path.
RawPathOutcome(raw_path) == Require(raw_path # BadPath, "format")

\* Mutated form of ExpectedTransport: the method is taken from the grant.
TransportOfAnyMethod(request) ==
  [profile |-> RouteProfile,
   method  |-> request.token.claims.transport.method,
   path    |-> request.raw_path]

\* The transport the route expects of this request.
ExpectedTransport(request) ==
  [profile |-> RouteProfile,
   method  |-> Upper[request.http.method],
   path    |-> request.raw_path]

\* CapabilityGrantVerifier._verify_bound_headers.
BoundHeadersMatch(claims, headers) ==
  \A name \in BoundHeaders : headers[name] = claims[name]

\* Mutated form of IsFinite: whatever the clock returns is a time.
AnyReading(now) == TRUE

\* math.isfinite on the reading of the clock.
IsFinite(now) == now # NaN

\* CapabilityGrantVerifier.verify: token and claims first, then the clock, then
\* what binds the grant to this request.
verify(token, request_payload, transport, headers, now) ==
  LET claims == token.claims
  IN  FirstRaise(<<
        Require(token.compact, "format"),
        Require(token.signed_by = Verifier.public_key, "denied"),
        Require(token.schema, "format"),
        Require(claims.own_hash, "denied"),
        Require(claims.issuer = Verifier.issuer, "denied"),
        Require(claims.key_id = Verifier.key_id, "denied"),
        Require(claims.audience = Verifier.audience, "denied"),
        Require(/\ ~ Less(claims.not_before, claims.issued_at)
                /\ ~ AtLeast(claims.not_before, claims.expires_at), "format"),
        Require(IsFinite(now), "format"),
        Require(~ Less(now, claims.not_before), "denied"),
        Require(~ AtLeast(now, claims.expires_at), "denied"),
        Require(claims.request_hash = request_payload, "denied"),
        Require(claims.transport = transport, "denied"),
        Require(BoundHeadersMatch(claims, headers), "denied") >>)

\* _verify_required_claims, on the canonical texts in the route's snapshot.
RequiredClaimsHold(claims, snapshot) ==
  \A key \in DOMAIN snapshot :
     key \in DOMAIN claims.signed /\ claims.signed[key] = snapshot[key]

\* _resolved_auth_headers over broker_internal_token_headers, by what reading the
\* internal token gives.
AuthReadings == {"token", "missing", "malformed", "unreadable"}

AuthHeaders(reading) ==
  [token |-> "ok", missing |-> "denied", malformed |-> "format",
   unreadable |-> "error"][reading]

\* The try block of require_capability_grant, from the rebuilt request to the headers
\* for the authority.
Authorization(request, snapshot, now, reading) ==
  LET payload == Reconstruct(request.http)
  IN  IF payload = Malformed THEN "format" ELSE IF payload = Crashed THEN "error"
      ELSE FirstRaise(<<
        RawPathOutcome(request.raw_path),
        verify(request.token, payload, ExpectedTransport(request),
               request.headers, now),
        Require(RequiredClaimsHold(request.token.claims, snapshot), "denied"),
        AuthHeaders(reading) >>)

\* The status of each error of that block; nothing catches any other exception.
StatusOf == [format |-> 400, denied |-> 403, error |-> 500]

-----------------------------------------------------------------------------
(***************************************************************************)
(* What the redeemer returns for what came back.  An answer of kind "http" *)
(* is [status, json, redeemed, grant_id, event]; one of kind "value" is    *)
(* what a redeemer other than the HTTP one returned or raised.             *)
(***************************************************************************)
RedeemResults == {"True", "Truthy", "False", "Denied", "Raised"}

\* Mutated forms of HttpRedeemResult: an acknowledgement of any grant counts, and a
\* busy authority is taken for one that refuses.
AnyGrantRedeemed(grant_id, answer) ==
  IF answer.status \in 400..499 \ {408, 429} THEN "False"
  ELSE IF answer.status \in 200..299 /\ answer.json
  THEN IF answer.redeemed /\ answer.event = "trimmed" THEN "True" ELSE "False"
  ELSE "Raised"

BusyRefuses(grant_id, answer) ==
  IF answer.status \in 400..499 THEN "False"
  ELSE IF answer.status \in 200..299 /\ answer.json
  THEN IF answer.redeemed /\ answer.grant_id = grant_id /\ answer.event = "trimmed"
       THEN "True" ELSE "False"
  ELSE "Raised"

\* AsyncHTTPCapabilityGrantRedeemer.__call__, once the response is there.
HttpRedeemResult(grant_id, answer) ==
  CASE answer.status \in {408, 429} -> "Raised"
    [] answer.status \in (400..499) \ {408, 429} -> "False"
    [] answer.status \notin (200..299) \cup (400..499) -> "Raised"
    [] answer.status \in 200..299 ->
         IF ~ answer.json THEN "Raised"
         ELSE IF /\ answer.redeemed
                 /\ answer.grant_id = grant_id
                 /\ answer.event = "trimmed"
              THEN "True" ELSE "False"

RedeemResult(grant_id, answer) ==
  IF answer.kind = "http" THEN HttpRedeemResult(grant_id, answer)
  ELSE answer.value

\* Mutated form of RedeemStatus: a code of its own for an authority that is unavailable.
RedeemStatusGateway == [True |-> 200, Truthy |-> 403, False |-> 403,
                        Denied |-> 403, Raised |-> 504]

\* The end of require_capability_grant: only an explicit True lets the request pass.
RedeemStatus == [True |-> 200, Truthy |-> 403, False |-> 403,
                 Denied |-> 403, Raised |-> 503]

=============================================================================
