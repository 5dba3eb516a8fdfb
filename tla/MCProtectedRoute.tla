--------------------------- MODULE MCProtectedRoute ---------------------------
(***************************************************************************)
(* Instances of ProtectedRoute: exact requests on one grant.               *)
(***************************************************************************)
EXTENDS ProtectedRoute

CONSTANTS k1, k2, r1, r2, g1

MCVerifier == [issuer |-> "issuer", key_id |-> "key", audience |-> "receiver",
               public_key |-> "trusted"]

IdsOf(g) == [name \in BoundHeaders |-> IF name = "grant_id" THEN g ELSE name]

Exact1 ==
  [headers |-> IdsOf(g1),
   copies |-> [name \in GrantHeaders |-> 1],
   token |-> [compact |-> TRUE, signed_by |-> "trusted", schema |-> TRUE,
              claims |-> IdsOf(g1) @@
                [own_hash |-> TRUE, issuer |-> "issuer", key_id |-> "key",
                 audience |-> "receiver", request_hash |-> Obj(<<>>),
                 transport |-> [profile |-> RouteProfile, method |-> "GET",
                                path |-> "/route"],
                 issued_at |-> 1, not_before |-> 1, expires_at |-> 4,
                 signed |-> <<>>]],
   http |-> [method |-> "GET", media |-> "", content |-> NoBytes, query |-> <<>>],
   raw_path |-> "/route"]

MCInputs == {Exact1}
NoRequired == {<<>>}
NoBadReading == {}
InTime == {2}

Key(k, internal) == [x_api_key |-> k, bearer |-> None, internal |-> internal]

MCCredentials == {Key(k1, None)}

Http(code, json, redeemed) ==
  [kind |-> "http", status |-> code, json |-> json, redeemed |-> redeemed,
   grant_id |-> g1, event |-> "trimmed"]

MCHeld   == {k2, ""}
Symmetry == Permutations(Requests)

\* Redeemed, wrong token or denied, denied, and no key at the authority.
MCAnswers == { Http(200, TRUE, TRUE), Http(403, TRUE, FALSE), Http(409, TRUE, FALSE),
               Http(503, TRUE, FALSE) }

=============================================================================
