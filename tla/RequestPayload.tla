--------------------------- MODULE RequestPayload ---------------------------
(***************************************************************************)
(* The request value that a capability grant is bound to.  The sender      *)
(* hashes canonical_request_payload(method, body, params); the receiver    *)
(* rebuilds the same value from the HTTP request it was sent               *)
(* (src/sharedai/servicekit/capability_grants.py).  Operators only: the    *)
(* exchange between the two sides is module RequestExchange.               *)
(*                                                                         *)
(* A JSON value is a pair whose first element is its type.  Two values are *)
(* equal exactly when their canonical JSON texts are, so the SHA-256 of a  *)
(* canonical text is represented by the value itself.                      *)
(***************************************************************************)
EXTENDS Naturals, Sequences, SequencesExt

Null       == <<"null", 0>>
Str(text)  == <<"string", text>>
Arr(items) == <<"array", items>>
Obj(map)   == <<"object", map>>

\* What stands for a raised CapabilityGrantFormatError, and for any other exception.
Malformed  == <<"malformed", 0>>
Crashed    == <<"crashed", 0>>

\* method.upper() on the methods of the model; any other method fails _METHOD_RE.
Upper == [GET |-> "GET", get |-> "GET", HEAD |-> "HEAD",
          POST |-> "POST", post |-> "POST", PUT |-> "PUT"]

SafeMethods == {"GET", "HEAD"}

-----------------------------------------------------------------------------
(***************************************************************************)
(* Query parameters, as the sender's program has them: a sequence of       *)
(* <<key, raw>>, the items of a mapping or the pairs of a sequence; bytes  *)
(* are given by the text they decode to, if any.  A number is given by its *)
(* text, which is str() on both sides.                                     *)
(***************************************************************************)
Scalars == ({"none", "undecodable"} \X {0}) \cup ({"bool"} \X BOOLEAN)
           \cup ({"text", "bytes"} \X STRING)

Params == Seq(STRING \X (Scalars \cup ({"list"} \X Seq(Scalars))))

\* Mutated form of QueryText: str() on every value.
PlainText(raw) ==
  CASE raw[1] = "none" -> "None"
    [] raw[1] = "bool" -> IF raw[2] THEN "True" ELSE "False"
    [] raw[1] \in {"text", "bytes"} -> raw[2]

QueryText(raw) ==
  CASE raw[1] = "none" -> ""
    [] raw[1] = "bool" -> IF raw[2] THEN "true" ELSE "false"
    [] raw[1] \in {"text", "bytes"} -> raw[2]

QueryValues(raw) == IF raw[1] = "list" THEN raw[2] ELSE <<raw>>

QueryDecodes(params) ==
  \A i \in DOMAIN params : \A j \in DOMAIN QueryValues(params[i][2]) :
     QueryValues(params[i][2])[j][1] # "undecodable"

\* _query_value_pairs: one <<key, text>> per value, lists spread out in place.
QueryValuePairs(params) ==
  FlattenSeq([i \in DOMAIN params |->
    LET values == QueryValues(params[i][2])
    IN  [j \in DOMAIN values |-> <<params[i][1], QueryText(values[j])>>]])

Collect(values, pair, key) ==
  IF pair[1] = key THEN Append(values, Str(pair[2])) ELSE values

\* The list grouped[key], after all pairs.
ValuesOf(pairs, key) ==
  LET grouped[n \in 0..Len(pairs)] ==
        IF n = 0 THEN <<>> ELSE Collect(grouped[n - 1], pairs[n], key)
  IN  grouped[Len(pairs)]

\* Mutated form of CanonicalQuery: the last value of a key replaces those before.
LastOfEach(pairs) ==
  [key \in {pairs[i][1] : i \in DOMAIN pairs} |-> Last(ValuesOf(pairs, key))]

\* canonical_query_params: a lone value stands for itself, several become an array.
CanonicalQuery(pairs) ==
  [key \in {pairs[i][1] : i \in DOMAIN pairs} |->
     LET values == ValuesOf(pairs, key)
     IN  IF Len(values) = 1 THEN values[1] ELSE Arr(values)]

-----------------------------------------------------------------------------
\* canonical_request_payload, on pairs already spread out and decoded.
CanonicalPayload(method, body, pairs) ==
  LET query == CanonicalQuery(pairs)
  IN  CASE method \notin DOMAIN Upper -> Malformed
        [] method \in DOMAIN Upper /\ Upper[method] \in SafeMethods ->
             IF body # Null THEN Malformed ELSE Obj(query)
        [] method \in DOMAIN Upper /\ Upper[method] \notin SafeMethods ->
             IF DOMAIN query # {}
             THEN Obj([json |-> body, params |-> Obj(query)])
             ELSE body

\* The same function as the sender calls it, on its own parameter values.
SenderPayload(call) ==
  IF QueryDecodes(call.params)
  THEN CanonicalPayload(call.method, call.body, QueryValuePairs(call.params))
  ELSE Malformed

(***************************************************************************)
(* An HTTP request as ASGI presents it: its method, its media type (the    *)
(* part of Content-Type before ";"), its raw body (no bytes, bytes that    *)
(* strict_json_loads refuses, bytes on which json.loads raises what that   *)
(* function does not catch, a nesting too deep or a number too long, or a  *)
(* JSON text), its decoded query items.                                    *)
(***************************************************************************)
NoBytes   == <<"empty", 0>>
Unparsed  == <<"unparsed", 0>>
Overlong  == <<"overlong", 0>>
Text(json) == <<"text", json>>

JsonMedia == {"application/json", "application/problem+json"}

\* reconstruct_fastapi_request, after the body has arrived.
Reconstruct(http) ==
  IF /\ http.content # NoBytes
     /\ \/ http.method \in DOMAIN Upper /\ Upper[http.method] \in SafeMethods
        \/ http.media \notin JsonMedia
        \/ http.content = Unparsed
  THEN Malformed
  ELSE IF http.content = Overlong THEN Crashed
  ELSE CanonicalPayload(http.method,
                        IF http.content = NoBytes THEN Null ELSE http.content[2],
                        http.query)

=============================================================================
