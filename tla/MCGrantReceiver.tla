--------------------------- MODULE MCGrantReceiver ---------------------------
(***************************************************************************)
(* Instances of GrantReceiver.  One grant per id, each valid from time 2   *)
(* up to, not including, time 4, for a POST with a query; what else a      *)
(* request may carry differs from a valid one in one or two fields.        *)
(***************************************************************************)
EXTENDS GrantReceiver

CONSTANTS r1, r2, r3, g1, g2

MCVerifier == [issuer |-> "issuer", key_id |-> "key", audience |-> "receiver",
               public_key |-> "trusted"]

ValidHttp == [method |-> "POST", media |-> "application/json",
              content |-> Text(Str("x")), query |-> << <<"a", "1">> >>]

IdsOf(g) == [name \in BoundHeaders |-> IF name = "grant_id" THEN g ELSE name]

ValidClaims(g) ==
  IdsOf(g) @@
  [own_hash |-> TRUE, issuer |-> "issuer", key_id |-> "key", audience |-> "receiver",
   request_hash |-> Obj([json |-> Str("x"), params |-> Obj([a |-> Str("1")])]),
   transport |-> [profile |-> RouteProfile, method |-> "POST", path |-> "/route"],
   issued_at |-> 1, not_before |-> 2, expires_at |-> 4,
   signed |-> [scope |-> Str("write")]]

ValidRequest(g) ==
  [headers |-> IdsOf(g),
   copies |-> [name \in GrantHeaders |-> 1],
   token |-> [compact |-> TRUE, signed_by |-> "trusted", schema |-> TRUE,
              claims |-> ValidClaims(g)],
   http |-> ValidHttp,
   raw_path |-> "/route"]

ValidInputs == {ValidRequest(g1), ValidRequest(g2)}

With(claims) == [ValidRequest(g1) EXCEPT !.token.claims = claims]

\* One request per way of being inexact, and some that are wrong in two ways.
InexactInputs ==
  LET v == ValidRequest(g1)  c == ValidClaims(g1)
  IN  { [v EXCEPT !.token.compact = FALSE],
        [v EXCEPT !.token.signed_by = "other"],
        [v EXCEPT !.token.signed_by = "other", !.http.content = Unparsed],
        [v EXCEPT !.token.schema = FALSE],
        [v EXCEPT !.raw_path = "/other"],
        [v EXCEPT !.raw_path = BadPath],
        [v EXCEPT !.http.method = "GET"],
        [v EXCEPT !.http.method = "PUT"],
        [v EXCEPT !.http.media = "text/plain"],
        [v EXCEPT !.http.content = NoBytes],
        [v EXCEPT !.http.content = Overlong],
        [v EXCEPT !.http.content = NoBytes, !.http.media = ""],
        [v EXCEPT !.http.query = <<>>],
        [v EXCEPT !.copies["token"] = 2],
        [v EXCEPT !.copies["attempt_id"] = 0],
        [v EXCEPT !.copies["idempotency_key"] = 2],
        [v EXCEPT !.headers["grant_id"] = g2],
        [v EXCEPT !.headers["task_id"] = "other"],
        With([c EXCEPT !.own_hash = FALSE]),
        With([c EXCEPT !.issuer = "other"]),
        With([c EXCEPT !.key_id = "other"]),
        With([c EXCEPT !.audience = "other"]),
        With([c EXCEPT !.issued_at = 3]),
        With([c EXCEPT !.expires_at = 2]),
        With([c EXCEPT !.request_hash = Str("x")]),
        With([c EXCEPT !.transport.profile = "other"]),
        With([c EXCEPT !.signed = [scope |-> Str("read")]]),
        With([c EXCEPT !.signed = [other |-> Str("write")]]) }

AllInputs == ValidInputs \cup InexactInputs

NoRequired    == {<<>>}
MCRequired    == {<<>>, [scope |-> Str("write")]}

Http(code, json, redeemed, g, event) ==
  [kind |-> "http", status |-> code, json |-> json, redeemed |-> redeemed,
   grant_id |-> g, event |-> event]

Code(code)   == Http(code, FALSE, FALSE, g1, "none")
Value(value) == [kind |-> "value", value |-> value]

\* What tells apart the redeemer's ways out; the rest of the codes behave like these.
RaceAnswers ==
  { Http(200, TRUE, TRUE, g1, "trimmed"), Http(200, TRUE, TRUE, g2, "trimmed"),
    Http(200, TRUE, FALSE, g1, "trimmed"), Code(409), Code(429),
    Value("Truthy") }

AllAnswers ==
  RaceAnswers \cup
  { Code(503), Http(201, TRUE, TRUE, g1, "untrimmed"), Http(204, FALSE, FALSE, g1, "none"),
    Http(302, TRUE, TRUE, g1, "trimmed"), Code(401), Code(403), Code(404), Code(408), Code(500),
    Value("True"), Value("False"), Value("Denied"), Value("Raised") }

Symmetry     == Permutations(Requests)

NoBadReading == {}
NaNReading   == {NaN}
InTime       == {3}
MCTimes      == 1..4

=============================================================================
