--------------------------- MODULE RequestExchange ---------------------------
(***************************************************************************)
(* A sender has a grant issued for one call and an HTTP client puts a call *)
(* on the wire; the receiver rebuilds the canonical value of what arrives  *)
(* and compares it with the one in the grant.  The two calls may be the    *)
(* same one or two different ones.                                         *)
(***************************************************************************)
EXTENDS RequestPayload

CONSTANTS
  Calls,    \* the calls a sender may make: [method, body, form, params]
  Nothing,  \* no call issued yet, nothing on the wire, no verdict
  Repr      \* Python's str() of a parameter value that is bytes or a list

\* The parameters of a call are the items of a mapping or the pairs of a sequence.
ASSUME CallsAssumption ==
  \A call \in Calls :
    /\ call.params \in Params /\ call.form \in {"mapping", "pairs"}
    /\ call.form = "mapping" =>
         \A i, j \in DOMAIN call.params : call.params[i][1] = call.params[j][1] => i = j

VARIABLES
  granted,       \* the call the grant was issued for
  request_hash,  \* the canonical value the grant carries
  sent,          \* the call the HTTP client was given
  http,          \* the request on the wire
  verdict        \* whether the receiver found its hash equal

vars == <<granted, request_hash, sent, http, verdict>>

-----------------------------------------------------------------------------
(***************************************************************************)
(* The HTTP client and the ASGI server, outside the repository.  httpx     *)
(* writes True, False and None in a query as true, false and nothing and   *)
(* str() of any other value, bytes included.  It repeats the key for a     *)
(* list that is an item of a mapping; a list in a sequence of pairs is a   *)
(* value like any other.  The server hands the items over in order.  (httpx*)
(* puts the pairs of one key together, which changes the order of keys     *)
(* only and is left out.)                                                  *)
(***************************************************************************)
HttpxQueryText(raw) ==
  IF raw[1] = "none" THEN ""
  ELSE IF raw[1] = "bool" THEN [b \in BOOLEAN |-> IF b THEN "true" ELSE "false"][raw[2]]
  ELSE IF raw[1] = "text" THEN raw[2]
  ELSE Repr[raw]

HttpxValues(call, raw) == IF call.form = "mapping" THEN QueryValues(raw) ELSE <<raw>>

WireForm(call) ==
  [method  |-> call.method,
   media   |-> IF call.body = Null THEN "" ELSE "application/json",
   content |-> IF call.body = Null THEN NoBytes ELSE Text(call.body),
   query   |-> FlattenSeq([i \in DOMAIN call.params |->
                 LET values == HttpxValues(call, call.params[i][2])
                 IN  [j \in DOMAIN values |->
                        <<call.params[i][1], HttpxQueryText(values[j])>>]])]

ASSUME NothingAssumption ==
  /\ Nothing \notin Calls \cup BOOLEAN
  /\ \A call \in Calls : Nothing \notin {SenderPayload(call), WireForm(call)}

-----------------------------------------------------------------------------
Init ==
  /\ granted = Nothing /\ request_hash = Nothing
  /\ sent = Nothing /\ http = Nothing /\ verdict = Nothing

\* Mutated form of Issue: the grant is not bound to its call.
IssueUnbound(call) ==
  /\ granted = Nothing
  /\ SenderPayload(call) # Malformed
  /\ granted' = call
  /\ UNCHANGED <<request_hash, sent, http, verdict>>

\* The sender computes the value the authority will sign; an error sends nothing.
Issue(call) ==
  /\ granted = Nothing
  /\ SenderPayload(call) # Malformed
  /\ granted' = call
  /\ request_hash' = SenderPayload(call)
  /\ UNCHANGED <<sent, http, verdict>>

\* The HTTP client knows nothing of grants and sends what it is given.
Send(call) ==
  /\ sent = Nothing
  /\ sent' = call
  /\ http' = WireForm(call)
  /\ UNCHANGED <<granted, request_hash, verdict>>

Check ==
  /\ granted # Nothing /\ sent # Nothing /\ verdict = Nothing
  /\ verdict' = (Reconstruct(http) = request_hash)
  /\ UNCHANGED <<granted, request_hash, sent, http>>

Next == (\E call \in Calls : Issue(call) \/ Send(call)) \/ Check

Spec == Init /\ [][Next]_vars

-----------------------------------------------------------------------------
\* A call whose parameters have values that both sides write alike: no bytes, and no list
\* in a sequence of pairs.
Portable(call) ==
  \A i \in DOMAIN call.params :
    LET raw == call.params[i][2]
    IN  /\ raw[1] = "list" => call.form = "mapping"
        /\ \A j \in DOMAIN QueryValues(raw) :
              QueryValues(raw)[j][1] \notin {"bytes", "undecodable"}

Keys(call) == {call.params[i][1] : i \in DOMAIN call.params}

\* What a reader of the two calls would call the same request: the same body, and
\* for every key the same values in the same order once they are on the wire.
SameContent(a, b) ==
  /\ a.body = b.body
  /\ \A key \in Keys(a) \cup Keys(b) :
        ValuesOf(WireForm(a).query, key) = ValuesOf(WireForm(b).query, key)

HasQuery(call) == WireForm(call).query # <<>>

TypeOK ==
  /\ granted \in Calls \cup {Nothing}
  /\ sent \in Calls \cup {Nothing}
  /\ verdict \in BOOLEAN \cup {Nothing}
  /\ (granted = Nothing) = (request_hash = Nothing)
  /\ (sent = Nothing) = (http = Nothing)

-----------------------------------------------------------------------------
(***************************************************************************)
(* What makes the properties below inductive: what has been computed is    *)
(* still what the two calls give.                                          *)
(***************************************************************************)
GrantIsBound ==
  IF granted = Nothing THEN request_hash = Nothing
  ELSE granted \in Calls /\ request_hash = SenderPayload(granted) /\ request_hash # Malformed

WireIsOfSent ==
  IF sent = Nothing THEN http = Nothing
  ELSE sent \in Calls /\ http = WireForm(sent)

VerdictCompares ==
  verdict # Nothing => /\ granted # Nothing /\ sent # Nothing
                       /\ verdict = (Reconstruct(http) = request_hash)

IInv == GrantIsBound /\ WireIsOfSent /\ VerdictCompares

-----------------------------------------------------------------------------
\* A portable request sent as it was granted is recognised: booleans, None, numbers, lists
\* and repeated keys, in whatever order of keys, are normalised by the sender
\* (canonical_request_payload) and by the receiver (reconstruct_fastapi_request) to one
\* value, after the client and the server have re-encoded the query in between.  (Of a call
\* that is not portable this is false: it is denied although it is sent as it was granted.)
SameRequestRecognised ==
  (verdict # Nothing /\ granted = sent /\ Portable(granted)) => verdict

\* A request that is recognised in the place of a portable one has the same content, if
\* they have one method and both or neither carry a query: canonical_request_payload
\* confuses no two of them, whatever the parameters of the one that is sent.
RecognisedIsSameRequest ==
  (/\ verdict = TRUE
   /\ Portable(granted)
   /\ granted.method = sent.method
   /\ HasQuery(granted) = HasQuery(sent)) => SameContent(granted, sent)

\* README.md:34-35 says the token is verified against the "exact request": a
\* recognised request of the granted method is the granted one, query or not (the grants
\* of its run are portable).
ExactRequest ==
  (verdict = TRUE /\ granted.method = sent.method) => SameContent(granted, sent)

=============================================================================
