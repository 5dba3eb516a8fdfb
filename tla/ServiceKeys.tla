----------------------------- MODULE ServiceKeys -----------------------------
(***************************************************************************)
(* The shared service credential (src/sharedai/servicekit/auth.py): where  *)
(* a service finds it, and how a request's headers are held to it.         *)
(* Operators only.  A source is a function from the names of the places to *)
(* what they hold, a route is [key, accepts]: which credential its         *)
(* configured_key() gives, and accept_internal_token.  Values are stripped *)
(* texts; the text of nothing is Blank.                                    *)
(***************************************************************************)
EXTENDS Naturals

CONSTANTS
  Keys,        \* non-blank credentials
  NonAscii,    \* those of them that are not plain ASCII
  Unreadable,  \* what a file gives that exists but cannot be read
  None         \* a header that is absent

Blank == ""

ASSUME KeysAssumption ==
  /\ {Unreadable, Blank, None} \cap Keys = {} /\ Unreadable # Blank
  /\ NonAscii \subseteq Keys

FileSources == {"API_KEY_FILE", "INTERNAL_API_KEY_FILE", "ORC_INTERNAL_API_KEY_FILE",
                "DEFAULT_SECRET_FILE"}
TextSources == {"configured", "API_KEY", "INTERNAL_API_KEY", "ORC_INTERNAL_API_KEY"}
Sources == FileSources \cup TextSources

-----------------------------------------------------------------------------
\* The first of the values that is not blank; an unreadable file raises when its turn
\* comes.
IsFirstSet(values, i) ==
  values[i] # Blank /\ \A j \in DOMAIN values : j < i => values[j] = Blank

FirstNonBlank(values) ==
  IF \A i \in DOMAIN values : values[i] = Blank THEN Blank
  ELSE values[CHOOSE i \in DOMAIN values : IsFirstSet(values, i)]

\* Mutated form of service_api_key: the environment is asked before the files.
EnvironmentFirst(source, configured_key) ==
  FirstNonBlank(<<configured_key, source["API_KEY"], source["INTERNAL_API_KEY"],
                  source["API_KEY_FILE"], source["INTERNAL_API_KEY_FILE"],
                  source["DEFAULT_SECRET_FILE"]>>)

service_api_key(source, configured_key) ==
  FirstNonBlank(<<configured_key, source["API_KEY_FILE"], source["INTERNAL_API_KEY_FILE"],
                  source["API_KEY"], source["INTERNAL_API_KEY"],
                  source["DEFAULT_SECRET_FILE"]>>)

\* Mutated form of internal_service_api_key: the public key stands in for it.
WithPublicKey(source, configured_key) ==
  FirstNonBlank(<<configured_key, source["INTERNAL_API_KEY_FILE"],
                  source["ORC_INTERNAL_API_KEY_FILE"], source["INTERNAL_API_KEY"],
                  source["ORC_INTERNAL_API_KEY"], source["API_KEY"],
                  source["DEFAULT_SECRET_FILE"]>>)

internal_service_api_key(source, configured_key) ==
  FirstNonBlank(<<configured_key, source["INTERNAL_API_KEY_FILE"],
                  source["ORC_INTERNAL_API_KEY_FILE"], source["INTERNAL_API_KEY"],
                  source["ORC_INTERNAL_API_KEY"], source["DEFAULT_SECRET_FILE"]>>)

\* configured_key() of the route: the service's own setting, or, on a broker's route, the
\* internal credential (CAPABILITY_GRANTS.md:62).
ConfiguredKey(source, route) ==
  IF route.key = "own" THEN source["configured"] ELSE internal_service_api_key(source, Blank)

(***************************************************************************)
(* The credential headers of a request: X-API-Key, the token after         *)
(* "Bearer ", X-Internal-Token.  The first that is there and not empty     *)
(* speaks for the request, even if it is only spaces, which are stripped   *)
(* afterwards.                                                             *)
(***************************************************************************)
Spaces  == "  "
Headers == [x_api_key : Keys \cup {None, Spaces}, bearer : Keys \cup {None},
            internal : Keys \cup {None}]

Strip(text) == IF text = Spaces THEN Blank ELSE text

\* Mutated form of Provided: the internal token counts on every route.
ProvidedAnywhere(route, headers) ==
  IF headers.x_api_key # None THEN Strip(headers.x_api_key)
  ELSE IF headers.bearer # None THEN headers.bearer
  ELSE IF headers.internal # None THEN headers.internal ELSE Blank

Provided(route, headers) ==
  IF headers.x_api_key # None THEN Strip(headers.x_api_key)
  ELSE IF headers.bearer # None THEN headers.bearer
  ELSE IF route.accepts /\ headers.internal # None THEN headers.internal ELSE Blank

\* secrets.compare_digest: a TypeError on texts that are not ASCII.
CompareStatus(provided, expected) ==
  IF {provided, expected} \cap NonAscii # {} THEN 500
  ELSE IF provided = expected THEN 200 ELSE 403

\* Mutated forms of TokenStatus: a service without a key lets everyone in, or has a code
\* of its own.
OpenWithoutKey(source, route, headers) ==
  LET expected == service_api_key(source, ConfiguredKey(source, route))
  IN  IF expected \notin Keys THEN 200
      ELSE IF Provided(route, headers) = Blank THEN 401
      ELSE CompareStatus(Provided(route, headers), expected)

StatusNotImplemented(source, route, headers) ==
  LET expected == service_api_key(source, ConfiguredKey(source, route))
  IN  IF expected \notin Keys THEN 501
      ELSE IF Provided(route, headers) = Blank THEN 401
      ELSE CompareStatus(Provided(route, headers), expected)

\* verify_service_token; nothing catches what an unreadable file raises.
TokenStatus(source, route, headers) ==
  LET expected == service_api_key(source, ConfiguredKey(source, route))
  IN  IF expected = Unreadable THEN 500
      ELSE IF expected = Blank THEN 503
      ELSE IF Provided(route, headers) = Blank THEN 401
      ELSE CompareStatus(Provided(route, headers), expected)

=============================================================================
