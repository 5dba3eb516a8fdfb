----------------------------- MODULE ServiceAuth -----------------------------
(***************************************************************************)
(* A route guarded by service_token_dependency, while its operator sets,   *)
(* rotates and removes the credential in the places where the service      *)
(* looks for it at every request anew.                                     *)
(***************************************************************************)
EXTENDS ServiceKeys

CONSTANTS
  Used,        \* the sources the operator may set
  Routes       \* the routes that may be guarded

ASSUME RoutesAssumption ==
  Used \subseteq Sources /\ Routes \subseteq [key : {"own", "internal"}, accepts : BOOLEAN]

VARIABLES
  source,  \* the value each source has now
  route,   \* the route that service_token_dependency guards
  verdict  \* the first request since the sources changed, and its status

vars == <<source, route, verdict>>

NoRequest == [headers |-> None, status |-> 0]

-----------------------------------------------------------------------------
Init ==
  /\ source = [s \in Sources |-> Blank]
  /\ route \in Routes
  /\ verdict = NoRequest

\* The operator sets, rotates or removes a credential.
SetSource(s, value) ==
  /\ value = Unreadable => s \in FileSources
  /\ source' = [source EXCEPT ![s] = value]
  /\ verdict' = NoRequest
  /\ UNCHANGED route

\* require_service_token on one request.  Nothing is kept from one request to the next,
\* so the first after each change shows what all of them get.
Request(headers) ==
  /\ verdict = NoRequest
  /\ verdict' = [headers |-> headers, status |-> TokenStatus(source, route, headers)]
  /\ UNCHANGED <<source, route>>

Next ==
  \/ \E s \in Used, value \in Keys \cup {Blank, Unreadable} : SetSource(s, value)
  \/ \E headers \in Headers : Request(headers)

Spec == Init /\ [][Next]_vars

-----------------------------------------------------------------------------
TypeOK ==
  /\ source \in [Sources -> Keys \cup {Blank, Unreadable}]
  /\ \A s \in TextSources : source[s] # Unreadable
  /\ route \in Routes
  /\ verdict \in [headers : Headers, status : {200, 401, 403, 500, 503}] \cup {NoRequest}

Rank == [configured |-> 1, API_KEY_FILE |-> 2, INTERNAL_API_KEY_FILE |-> 3,
         API_KEY |-> 4, INTERNAL_API_KEY |-> 5, DEFAULT_SECRET_FILE |-> 6]

\* On a service's own route a request is let in only on a key that some source holds now
\* while every source of a higher rank is blank: a file outranks a variable, and a key
\* that was rotated or removed no longer opens anything (auth.py:28-39, 67-79).
AcceptedOnTheRankingKey ==
  (verdict.status = 200 /\ route.key = "own") =>
     \E s \in DOMAIN Rank :
        /\ source[s] \in {verdict.headers.x_api_key, verdict.headers.bearer,
                          verdict.headers.internal} \cap Keys
        /\ \A other \in DOMAIN Rank : Rank[other] < Rank[s] => source[other] = Blank

\* internal_service_api_key resolves "never a public service key" (auth.py:43): nothing
\* that is done to API_KEY and API_KEY_FILE changes it.
InternalIgnoresPublic ==
  [][(\A s \in Sources \ {"API_KEY", "API_KEY_FILE"} : source'[s] = source[s]) =>
        internal_service_api_key(source, Blank)' = internal_service_api_key(source, Blank)]_vars

\* X-Internal-Token alone opens only a route built with accept_internal_token
\* (CAPABILITY_GRANTS.md:60-61).
InternalTokenOnlyWhereEnabled ==
  (/\ verdict.status = 200
   /\ verdict.headers.x_api_key = None /\ verdict.headers.bearer = None) => route.accepts

\* CAPABILITY_GRANTS.md:62-64: a broker's route resolves its credential with
\* internal_service_api_key() "so generic API_KEY/API_KEY_FILE values can never
\* substitute for internal receiver authentication".
BrokerTakesInternalKeyOnly ==
  (verdict.status = 200 /\ route.key = "internal") =>
     internal_service_api_key(source, Blank) \in Keys

=============================================================================
