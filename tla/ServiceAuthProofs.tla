-------------------------- MODULE ServiceAuthProofs --------------------------
(***************************************************************************)
(* Theorems about ServiceAuth, for any keys, sources and routes.           *)
(***************************************************************************)
EXTENDS ServiceAuth, TLAPS

SourceValues == Keys \cup {Blank, Unreadable}

\* What makes the properties inductive: the verdict on record is that of the sources as
\* they are now.
VerdictIsCurrent ==
  verdict = NoRequest \/
    /\ verdict.headers \in Headers
    /\ verdict.status = TokenStatus(source, route, verdict.headers)

AuthInv == TypeOK /\ VerdictIsCurrent

\* Six places in order: unless all are blank, one is the first that is not.
LEMMA FirstOfSix ==
  ASSUME NEW V, NEW values \in [1..6 -> V], \E i \in 1..6 : values[i] # Blank
  PROVE  \E i \in 1..6 : IsFirstSet(values, i)
<1> DOMAIN values = 1..6
  OBVIOUS
<1>1. CASE values[1] # Blank
  BY <1>1 DEF IsFirstSet
<1>2. CASE values[1] = Blank /\ values[2] # Blank
  BY <1>2 DEF IsFirstSet
<1>3. CASE values[1] = Blank /\ values[2] = Blank /\ values[3] # Blank
  BY <1>3 DEF IsFirstSet
<1>4. CASE values[1] = Blank /\ values[2] = Blank /\ values[3] = Blank /\ values[4] # Blank
  BY <1>4 DEF IsFirstSet
<1>5. CASE /\ values[1] = Blank /\ values[2] = Blank /\ values[3] = Blank
           /\ values[4] = Blank /\ values[5] # Blank
  BY <1>5 DEF IsFirstSet
<1>6. CASE /\ values[1] = Blank /\ values[2] = Blank /\ values[3] = Blank
           /\ values[4] = Blank /\ values[5] = Blank /\ values[6] # Blank
  BY <1>6 DEF IsFirstSet
<1> QED
  BY <1>1, <1>2, <1>3, <1>4, <1>5, <1>6

LEMMA ResolvesToTheFirst ==
  ASSUME NEW V, NEW values \in [1..6 -> V], FirstNonBlank(values) # Blank
  PROVE  \E i \in 1..6 : IsFirstSet(values, i) /\ FirstNonBlank(values) = values[i]
<1> DOMAIN values = 1..6
  OBVIOUS
<1>1. \E i \in 1..6 : values[i] # Blank
  BY DEF FirstNonBlank
<1>2. \E i \in 1..6 : IsFirstSet(values, i)
  BY <1>1, FirstOfSix
<1> QED
  BY <1>1, <1>2 DEF FirstNonBlank

\* service_api_key on a service's own route gives a key that some source holds while every
\* source of a higher rank is blank (auth.py:28-39).
LEMMA OwnKeyRanks ==
  ASSUME source \in [Sources -> SourceValues],
         service_api_key(source, source["configured"]) # Blank
  PROVE  \E s \in DOMAIN Rank :
           /\ source[s] = service_api_key(source, source["configured"])
           /\ \A other \in DOMAIN Rank : Rank[other] < Rank[s] => source[other] = Blank
<1> DEFINE values == <<source["configured"], source["API_KEY_FILE"],
                       source["INTERNAL_API_KEY_FILE"], source["API_KEY"],
                       source["INTERNAL_API_KEY"], source["DEFAULT_SECRET_FILE"]>>
           names  == <<"configured", "API_KEY_FILE", "INTERNAL_API_KEY_FILE", "API_KEY",
                       "INTERNAL_API_KEY", "DEFAULT_SECRET_FILE">>
<1>1. service_api_key(source, source["configured"]) = FirstNonBlank(values)
  BY DEF service_api_key
<1>2. values \in [1..6 -> SourceValues]
  BY DEF Sources, FileSources, TextSources
<1>3. \A i \in 1..6 : values[i] = source[names[i]]
  OBVIOUS
<1>4. DOMAIN Rank = {names[i] : i \in 1..6}
  BY DEF Rank
<1>5. \A i \in 1..6 : Rank[names[i]] = i
  BY DEF Rank
<1>6. DOMAIN values = 1..6
  OBVIOUS
<1> HIDE DEF values, names
<1>7. PICK i \in 1..6 : IsFirstSet(values, i) /\ FirstNonBlank(values) = values[i]
  BY <1>1, <1>2, ResolvesToTheFirst
<1>8. \A other \in DOMAIN Rank : Rank[other] < Rank[names[i]] => source[other] = Blank
  BY <1>3, <1>4, <1>5, <1>6, <1>7 DEF IsFirstSet
<1> QED
  BY <1>1, <1>3, <1>4, <1>7, <1>8

\* A request is let in only on the key, and the key is one of its headers.
LEMMA LetInOnTheExpectedKey ==
  ASSUME NEW headers \in Headers, NEW r \in Routes, TokenStatus(source, r, headers) = 200
  PROVE  /\ Provided(r, headers) = service_api_key(source, ConfiguredKey(source, r))
         /\ Provided(r, headers) # Blank
         /\ Provided(r, headers) \in {headers.x_api_key, headers.bearer, headers.internal}
         /\ Provided(r, headers) \in Keys
<1>1. /\ headers.x_api_key \in Keys \cup {None, Spaces}
      /\ headers.bearer \in Keys \cup {None} /\ headers.internal \in Keys \cup {None}
  BY DEF Headers
<1>2. /\ Provided(r, headers) = service_api_key(source, ConfiguredKey(source, r))
      /\ Provided(r, headers) # Blank
  BY DEF TokenStatus, CompareStatus
<1> QED
  BY <1>1, <1>2 DEF Provided, Strip

-----------------------------------------------------------------------------
LEMMA AuthInit == Init => AuthInv
<1>1. FileSources \cap TextSources = {} /\ TextSources \subseteq Sources
  BY DEF FileSources, TextSources, Sources
<1> QED
  BY <1>1, KeysAssumption DEF Init, AuthInv, TypeOK, VerdictIsCurrent

LEMMA AuthStep == AuthInv /\ [Next]_vars => AuthInv'
<1> SUFFICES ASSUME AuthInv, [Next]_vars PROVE AuthInv'
  OBVIOUS
<1>1. ASSUME NEW s \in Used, NEW value \in Keys \cup {Blank, Unreadable}, SetSource(s, value)
      PROVE  AuthInv'
  <2>1. source' \in [Sources -> Keys \cup {Blank, Unreadable}]
    BY <1>1, RoutesAssumption DEF SetSource, AuthInv, TypeOK
  <2>2. \A t \in TextSources : source'[t] # Unreadable
    <3>1. FileSources \cap TextSources = {} /\ TextSources \subseteq Sources
      BY DEF FileSources, TextSources, Sources
    <3> QED
      BY <1>1, <3>1 DEF SetSource, AuthInv, TypeOK
  <2>3. verdict' = NoRequest /\ route' = route
    BY <1>1 DEF SetSource
  <2> QED
    BY <2>1, <2>2, <2>3 DEF AuthInv, TypeOK, VerdictIsCurrent
<1>2. ASSUME NEW headers \in Headers, Request(headers) PROVE AuthInv'
  <2>1. TokenStatus(source, route, headers) \in {200, 401, 403, 500, 503}
    BY DEF TokenStatus, CompareStatus
  <2>2. verdict' = [headers |-> headers, status |-> TokenStatus(source, route, headers)]
        /\ source' = source /\ route' = route
    BY <1>2 DEF Request
  <2>3. TypeOK'
    BY <2>1, <2>2 DEF AuthInv, TypeOK
  <2>4. VerdictIsCurrent'
    BY <2>2 DEF VerdictIsCurrent
  <2> QED
    BY <2>3, <2>4 DEF AuthInv
<1>3. CASE UNCHANGED vars
  BY <1>3 DEF vars, AuthInv, TypeOK, VerdictIsCurrent
<1> QED
  BY <1>1, <1>2, <1>3 DEF Next

LEMMA AuthInductive == Spec => []AuthInv
  BY AuthInit, AuthStep, PTL DEF Spec

\* Every variable keeps its type: verify_service_token has no status but these.
THEOREM AuthTypeCorrect == Spec => []TypeOK
<1>1. AuthInv => TypeOK
  BY DEF AuthInv
<1> QED
  BY AuthInductive, <1>1, PTL

\* A service's own route opens on the ranking key only (auth.py:28-39, 67-79).
THEOREM OnlyTheRankingKeyOpens == Spec => []AcceptedOnTheRankingKey
<1>1. AuthInv => AcceptedOnTheRankingKey
  <2> SUFFICES ASSUME AuthInv, verdict.status = 200, route.key = "own"
               PROVE  \E s \in DOMAIN Rank :
                 /\ source[s] \in {verdict.headers.x_api_key, verdict.headers.bearer,
                                   verdict.headers.internal} \cap Keys
                 /\ \A other \in DOMAIN Rank : Rank[other] < Rank[s] => source[other] = Blank
    BY DEF AcceptedOnTheRankingKey
  <2>1. verdict.headers \in Headers /\ TokenStatus(source, route, verdict.headers) = 200
    BY DEF AuthInv, VerdictIsCurrent, NoRequest
  <2>2. route \in Routes /\ source \in [Sources -> SourceValues]
    BY DEF AuthInv, TypeOK, SourceValues
  <2>3. ConfiguredKey(source, route) = source["configured"]
    BY DEF ConfiguredKey
  <2> QED
    BY <2>1, <2>2, <2>3, LetInOnTheExpectedKey, OwnKeyRanks
<1> QED
  BY AuthInductive, <1>1, PTL

\* X-Internal-Token alone opens only a route that enables it (auth.py:74-75).
THEOREM InternalTokenNeedsEnabling == Spec => []InternalTokenOnlyWhereEnabled
<1>1. AuthInv => InternalTokenOnlyWhereEnabled
  <2> SUFFICES ASSUME AuthInv, verdict.status = 200, verdict.headers.x_api_key = None,
                      verdict.headers.bearer = None
               PROVE  route.accepts
    BY DEF InternalTokenOnlyWhereEnabled
  <2>1. verdict.headers \in Headers /\ TokenStatus(source, route, verdict.headers) = 200
    BY DEF AuthInv, VerdictIsCurrent, NoRequest
  <2>2. Provided(route, verdict.headers) # Blank
    BY <2>1, LetInOnTheExpectedKey DEF AuthInv, TypeOK
  <2> QED
    BY <2>2 DEF Provided
<1> QED
  BY AuthInductive, <1>1, PTL

\* No change of a public source changes what the internal resolution gives (auth.py:42-55).
THEOREM InternalResolutionIgnoresPublic == Spec => InternalIgnoresPublic
<1>1. (\A s \in Sources \ {"API_KEY", "API_KEY_FILE"} : source'[s] = source[s]) =>
        internal_service_api_key(source, Blank)' = internal_service_api_key(source, Blank)
  BY DEF internal_service_api_key, Sources, FileSources, TextSources
<1> QED
  BY <1>1, PTL DEF Spec, InternalIgnoresPublic

=============================================================================
