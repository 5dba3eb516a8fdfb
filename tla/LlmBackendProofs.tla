--------------------------- MODULE LlmBackendProofs ---------------------------
(***************************************************************************)
(* Where prompts may go, in which dialect, and what is shown of the reply, *)
(* for every set of base URLs, hosts and texts.  The library's induction   *)
(* theorems cannot be applied here, so induction is by the least           *)
(* counterexample, which WFMin gives.                                      *)
(***************************************************************************)
EXTENDS LlmBackend, WellFoundedInduction, TLAPS

LEMMA LeastNatural ==
  ASSUME NEW T \in SUBSET Nat, T # {}
  PROVE  \E m \in T : \A k \in T : m <= k
  <1> DEFINE R == {ss \in Nat \X Nat : ss[1] < ss[2]}
  <1>1. OpToRel(<, Nat) = R
    BY Zenon DEF OpToRel
  <1>2. IsWellFoundedOn(R, Nat)
    BY <1>1, NatLessThanWellFounded, Zenon
  <1>3. \E m \in T : \A k \in T : <<k, m>> \notin R
    <2> HIDE DEF R
    <2> QED
      BY <1>2, WFMin
  <1>4. PICK m \in T : \A k \in T : <<k, m>> \notin R
    BY <1>3
  <1>5. ASSUME NEW k \in T PROVE m <= k
    <2>1. ~ (k < m)
      BY <1>4
    <2> QED
      BY <2>1
  <1> QED
    BY <1>5

\* Induction over the naturals, for a set in the place of a predicate.
LEMMA NatInductionInSet ==
  ASSUME NEW S, 0 \in S, \A n \in Nat : n \in S => n + 1 \in S
  PROVE  Nat \subseteq S
  <1> SUFFICES ASSUME Nat \ S # {} PROVE FALSE
    OBVIOUS
  <1>1. PICK m \in Nat \ S : \A k \in Nat \ S : m <= k
    BY LeastNatural
  <1>2. m - 1 \in Nat /\ m - 1 \in S
    BY <1>1
  <1> QED
    BY <1>2

-----------------------------------------------------------------------------
\* Whichever source ranks first, what is loaded has the fields of a URL.
LEMMA LoadedIsUrl ==
  ASSUME NEW one \in Urls, NEW other \in Urls, NEW source \in [Sources -> {one, other, NoUrl}]
  PROVE  IsUrl(LoadedUrl(source))
  <1>1. LoadedUrl(source) \in {one, other, DefaultUrl}
    BY DEF LoadedUrl, Sources
  <1>2. IsUrl(one) /\ IsUrl(other)
    BY UrlAssumption DEF IsUrl
  <1>3. IsUrl(DefaultUrl)
    <2>1. DefaultUrl.path = <<>>
      BY DEF DefaultUrl
    <2> QED
      BY <2>1 DEF IsUrl
  <1> QED
    BY <1>1, <1>2, <1>3

\* Both endpoint rules change the path and nothing else (backend_url.py:46-62).
LEMMA EndpointsKeepTheAuthority ==
  ASSUME NEW url, IsUrl(url), NEW field \in {"scheme", "user", "password", "host"}
  PROVE  llm_chat_url(url)[field] = url[field] /\ ollama_generate_url(url)[field] = url[field]
  <1>1. field \in DOMAIN url /\ field # "path"
    BY DEF IsUrl, DefaultUrl
  <1> DEFINE At(path) == [url EXCEPT !.path = path]
  <1>2. \A path : At(path)[field] = url[field]
    BY <1>1
  <1>3. \E path : llm_chat_url(url) = At(path)
    <2> DEFINE root == RStrip(url.path)
               tail == IF url.port = 11434 THEN root \o <<"api", "chat">>
                       ELSE IF EndsWithV1(root) THEN root \o <<"chat", "completions">>
                       ELSE root \o <<"v1", "chat", "completions">>
    <2>1. llm_chat_url(url) = At(tail)
      BY DEF llm_chat_url
    <2> HIDE DEF tail, At
    <2> QED
      BY <2>1
  <1>4. \E path : ollama_generate_url(url) = At(path)
    BY Zenon DEF ollama_generate_url
  <1> QED
    BY <1>2, <1>3, <1>4

LEMMA StartsInInv == Init => IInv
  <1> SUFFICES ASSUME Init PROVE IInv
    OBVIOUS
  <1>1. IsExchange /\ exchange.endpoint = NoUrl
    BY DEF Init, IsExchange, Idle
  <1>2. exchange.stage # "returned"
    BY DEF Init, Idle
  <1> QED
    BY <1>1, <1>2 DEF Init, IInv, UrlIsLoadedOnce, EndpointIsOfValidUrl, ChatIsOfBaseUrl,
                      TextIsOfReply

\* A call is posted only where the loaded URL is valid.
LEMMA PostStep ==
  ASSUME IInv, NEW kind, NEW endpoint, NEW payload, Post(kind, endpoint, payload),
         \A field \in {"scheme", "user", "password", "host"} : endpoint[field] = base_url[field],
         kind = "chat" => /\ endpoint = llm_chat_url(base_url)
                          /\ payload = build_chat_payload(base_url)
  PROVE  IInv'
  <1>1. UrlIsLoadedOnce'
    BY DEF IInv, UrlIsLoadedOnce, Post
  <1>2. CASE Valid(base_url)
    <2>1. exchange' = [Idle EXCEPT !.stage = "posted", !.kind = kind,
                                   !.endpoint = endpoint, !.payload = payload]
      BY <1>2 DEF Post
    <2>2. /\ IsExchange' /\ exchange'.endpoint = endpoint /\ exchange'.stage = "posted"
          /\ exchange'.kind = kind /\ exchange'.payload = payload
      BY <2>1 DEF IsExchange, Idle
    <2>3. base_url' = base_url /\ base_url # NoUrl
      BY DEF Post
    <2>4. EndpointIsOfValidUrl'
      BY <1>2, <2>2, <2>3 DEF EndpointIsOfValidUrl, Valid
    <2>5. ChatIsOfBaseUrl' /\ TextIsOfReply'
      BY <2>2, <2>3 DEF ChatIsOfBaseUrl, TextIsOfReply
    <2> QED
      BY <1>1, <2>2, <2>4, <2>5 DEF IInv
  <1>3. CASE ~ Valid(base_url)
    <2>1. exchange' = [Idle EXCEPT !.stage = "raised", !.kind = kind]
      BY <1>3 DEF Post
    <2>2. IsExchange' /\ exchange'.endpoint = NoUrl /\ exchange'.stage = "raised"
      BY <2>1 DEF IsExchange, Idle
    <2> QED
      BY <1>1, <2>2 DEF IInv, EndpointIsOfValidUrl, ChatIsOfBaseUrl, TextIsOfReply
  <1> QED
    BY <1>2, <1>3

\* Whatever the call ends with, its endpoint, kind and payload are those of the post, or
\* it has no endpoint any more.
LEMMA EndStep ==
  ASSUME IInv, UNCHANGED base_url, IsExchange', TextIsOfReply',
         \/ exchange'.endpoint = NoUrl
         \/ /\ exchange'.endpoint = exchange.endpoint
            /\ exchange'.kind = exchange.kind /\ exchange'.payload = exchange.payload
  PROVE  IInv'
  <1>1. UrlIsLoadedOnce' /\ EndpointIsOfValidUrl'
    BY DEF IInv, UrlIsLoadedOnce, EndpointIsOfValidUrl, Valid
  <1>2. ChatIsOfBaseUrl'
    BY DEF IInv, ChatIsOfBaseUrl
  <1> QED
    BY <1>1, <1>2 DEF IInv

LEMMA NextKeepsIInv == IInv /\ [Next]_vars => IInv'
  <1> SUFFICES ASSUME IInv, [Next]_vars PROVE IInv'
    OBVIOUS
  <1>1. CASE LoadSettings
    <2>1. exchange.endpoint = NoUrl /\ exchange' = exchange
      BY <1>1 DEF IInv, EndpointIsOfValidUrl, LoadSettings
    <2>2. UrlIsLoadedOnce'
      BY <1>1, LoadedIsUrl DEF LoadSettings, UrlIsLoadedOnce, IsUrl
    <2> QED
      BY <2>1, <2>2 DEF IInv, IsExchange, EndpointIsOfValidUrl, ChatIsOfBaseUrl, TextIsOfReply
  <1>2. CASE LogUrl
    BY <1>2, EndStep DEF LogUrl, IInv, IsExchange, TextIsOfReply
  <1>3. CASE CallChat
    <2>1. IsUrl(base_url)
      BY <1>3 DEF CallChat, Post, IInv, UrlIsLoadedOnce
    <2> QED
      BY <1>3, <2>1, PostStep, EndpointsKeepTheAuthority DEF CallChat
  <1>4. CASE CallGenerate
    <2>1. IsUrl(base_url)
      BY <1>4 DEF CallGenerate, Post, IInv, UrlIsLoadedOnce
    <2> QED
      BY <1>4, <2>1, PostStep, EndpointsKeepTheAuthority DEF CallGenerate
  <1>5. ASSUME NEW shape \in Shapes, NEW text \in Texts, Reply(shape, text)
        PROVE  IInv'
    <2> DEFINE reply == [shape |-> shape, text |-> text]
    <2>1. IsExchange
      BY DEF IInv
    <2>2. /\ IsExchange' /\ exchange'.endpoint = exchange.endpoint /\ UNCHANGED base_url
          /\ exchange'.kind = exchange.kind /\ exchange'.payload = exchange.payload
          /\ exchange'.reply = reply
      BY <1>5, <2>1 DEF Reply, IsExchange, Idle
    <2>3. exchange'.stage = "returned" => exchange'.text = Parsed(exchange.kind, reply)
      <3>1. CASE Parses(exchange.kind, reply)
        BY <1>5, <2>1, <3>1 DEF Reply, IsExchange, Idle
      <3>2. CASE ~ Parses(exchange.kind, reply)
        BY <1>5, <2>1, <3>2 DEF Reply, IsExchange, Idle
      <3> QED
        BY <3>1, <3>2
    <2>4. TextIsOfReply'
      BY <2>2, <2>3 DEF TextIsOfReply
    <2> QED
      BY <2>2, <2>4, EndStep
  <1>6. CASE Fail
    <2>1. IsExchange
      BY DEF IInv
    <2>2. /\ IsExchange' /\ exchange'.endpoint = exchange.endpoint /\ UNCHANGED base_url
          /\ exchange'.kind = exchange.kind /\ exchange'.payload = exchange.payload
          /\ exchange'.stage = "raised"
      BY <1>6, <2>1 DEF Fail, IsExchange, Idle
    <2> QED
      BY <2>2, EndStep DEF TextIsOfReply
  <1>7. CASE Again
    <2>1. /\ IsExchange' /\ exchange'.endpoint = NoUrl /\ UNCHANGED base_url
          /\ exchange'.stage = "idle"
      BY <1>7 DEF Again, IsExchange, Idle
    <2> QED
      BY <2>1, EndStep DEF TextIsOfReply
  <1>8. CASE UNCHANGED vars
    BY <1>8, EndStep DEF vars, IInv, IsExchange, TextIsOfReply
  <1> QED
    BY <1>1, <1>2, <1>3, <1>4, <1>5, <1>6, <1>7, <1>8 DEF Next

-----------------------------------------------------------------------------
\* Whatever is configured, a prompt goes over HTTPS to an allowed host and carries no
\* credentials of the URL (backend_url.py:34-42, http_client.py:26-33).
THEOREM PromptsStayLocal == Spec => []PostsOnlyToLocalBackends
  <1>1. IInv => PostsOnlyToLocalBackends
    BY DEF IInv, EndpointIsOfValidUrl, PostsOnlyToLocalBackends, Valid
  <1> QED
    BY <1>1, StartsInInv, NextKeepsIInv, PTL DEF Spec

-----------------------------------------------------------------------------
LEMMA MaxIsIn ==
  ASSUME NEW n \in Nat, NEW T \in SUBSET (1..n), T # {}
  PROVE  Max(T) \in T
  <1> DEFINE U == {k \in Nat : \E i \in T : k = n - i}
  <1>1. U # {}
    <2>1. PICK i \in T : TRUE
      OBVIOUS
    <2>2. n - i \in Nat
      OBVIOUS
    <2> QED
      BY <2>1, <2>2
  <1>2. PICK m \in U : \A k \in U : m <= k
    BY <1>1, LeastNatural
  <1>3. PICK i \in T : m = n - i
    BY <1>2
  <1>4. ASSUME NEW k \in T PROVE i >= k
    <2>1. n - k \in Nat /\ k \in 1..n /\ i \in 1..n
      OBVIOUS
    <2>2. m <= n - k
      BY <1>2, <2>1
    <2> QED
      BY <1>3, <2>1, <2>2
  <1> QED
    BY <1>4 DEF Max

LEMMA RootIsPath ==
  ASSUME NEW X, NEW path \in Seq(X)
  PROVE  RStrip(path) \in Seq(X)
  <1> DEFINE named == {i \in DOMAIN path : path[i] # ""}
  <1>1. RStrip(path) = IF named = {} THEN <<>> ELSE SubSeq(path, 1, Max(named))
    BY Zenon DEF RStrip
  <1>2. named \in SUBSET (1..Len(path)) /\ Len(path) \in Nat
    <2>1. DOMAIN path = 1..Len(path) /\ Len(path) \in Nat
      OBVIOUS
    <2> QED
      BY <2>1, Zenon
  <1> HIDE DEF named
  <1>3. CASE named = {}
    BY <1>1, <1>3
  <1>4. CASE named # {}
    <2>1. Max(named) \in 1..Len(path)
      BY <1>2, <1>4, MaxIsIn
    <2> QED
      BY <1>1, <1>4, <2>1
  <1> QED
    BY <1>3, <1>4

LEMMA ThreeOfSeq ==
  ASSUME NEW X, NEW seq \in Seq(X), NEW n \in Nat, n + 3 = Len(seq)
  PROVE  SubSeq(seq, n + 1, Len(seq)) = <<seq[n + 1], seq[n + 2], seq[n + 3]>>
  <1> DEFINE part == SubSeq(seq, n + 1, Len(seq))
  <1>1. part \in Seq(X) /\ Len(part) = 3
    OBVIOUS
  <1>2. part[1] = seq[n + 1] /\ part[2] = seq[n + 2] /\ part[3] = seq[n + 3]
    OBVIOUS
  <1> HIDE DEF part
  <1>3. part = <<seq[n + 1], seq[n + 2], seq[n + 3]>>
    BY <1>1, <1>2
  <1> QED
    BY <1>3 DEF part

LEMMA HeadOfConcat ==
  ASSUME NEW X, NEW left \in Seq(X), NEW right \in Seq(X)
  PROVE  SubSeq(left \o right, 1, Len(left)) = left
  OBVIOUS

\* The three rules of llm_chat_url (backend_url.py:46-55), seen from the path they yield.
LEMMA OpenAIPathFits ==
  ASSUME NEW X, NEW root \in Seq(X), {"v1", "chat", "completions"} \subseteq X,
         NEW path,
         path = IF EndsWithV1(root) THEN root \o <<"chat", "completions">>
                ELSE root \o <<"v1", "chat", "completions">>
  PROVE  IsOpenAIPath(path, root)
  <1> DEFINE n == Len(path) - Len(OpenAIEndpoint)
  <1>1. ASSUME n \in Nat, SubSeq(path, n + 1, Len(path)) = OpenAIEndpoint,
               root = SubSeq(path, 1, IF EndsWithV1(root) THEN n + 1 ELSE n)
        PROVE  IsOpenAIPath(path, root)
    <2>1. n >= 0
      BY <1>1
    <2> QED
      BY <1>1, <2>1, Zenon DEF IsOpenAIPath
  <1>2. CASE EndsWithV1(root)
    <2>1. /\ path = root \o <<"chat", "completions">> /\ path \in Seq(X)
          /\ <<"chat", "completions">> \in Seq(X)
      BY <1>2
    <2>2. Len(root) >= 1 /\ root[Len(root)] = "v1"
      BY <1>2 DEF EndsWithV1, Last
    <2>3. n + 1 = Len(root) /\ n \in Nat /\ Len(path) = n + 3
      BY <2>1, <2>2 DEF OpenAIEndpoint
    <2>4. path[n + 1] = "v1" /\ path[n + 2] = "chat" /\ path[n + 3] = "completions"
      BY <2>1, <2>2, <2>3
    <2>5. root = SubSeq(path, 1, n + 1)
      <3>1. SubSeq(root \o <<"chat", "completions">>, 1, Len(root)) = root
        BY <2>1, HeadOfConcat
      <3> QED
        BY <2>1, <2>3, <3>1
    <2> HIDE DEF n
    <2>6. SubSeq(path, n + 1, Len(path)) = OpenAIEndpoint
      <3>1. SubSeq(path, n + 1, Len(path)) = <<path[n + 1], path[n + 2], path[n + 3]>>
        BY <2>1, <2>3, ThreeOfSeq
      <3> QED
        BY <2>4, <3>1 DEF OpenAIEndpoint
    <2> QED
      BY <1>1, <1>2, <2>3, <2>5, <2>6
  <1>3. CASE ~ EndsWithV1(root)
    <2>1. path = root \o OpenAIEndpoint /\ path \in Seq(X) /\ OpenAIEndpoint \in Seq(X)
      BY <1>3 DEF OpenAIEndpoint
    <2>2. n = Len(root) /\ n \in Nat /\ Len(path) = n + 3
      BY <2>1 DEF OpenAIEndpoint
    <2>3. path[n + 1] = "v1" /\ path[n + 2] = "chat" /\ path[n + 3] = "completions"
      BY <2>1, <2>2 DEF OpenAIEndpoint
    <2>4. root = SubSeq(path, 1, n)
      <3>1. SubSeq(root \o OpenAIEndpoint, 1, Len(root)) = root
        BY <2>1, HeadOfConcat
      <3> QED
        BY <2>1, <2>2, <3>1
    <2> HIDE DEF n
    <2>5. SubSeq(path, n + 1, Len(path)) = OpenAIEndpoint
      <3>1. SubSeq(path, n + 1, Len(path)) = <<path[n + 1], path[n + 2], path[n + 3]>>
        BY <2>1, <2>2, ThreeOfSeq
      <3> QED
        BY <2>3, <3>1 DEF OpenAIEndpoint
    <2> QED
      BY <1>1, <1>3, <2>2, <2>4, <2>5
  <1> QED
    BY <1>2, <1>3

\* The payload is in the dialect of the endpoint it is posted to, whatever the base URL:
\* the two rules that look at the URL, one for each, never disagree (backend_url.py:46-55,
\* chat_payload.py:24-32).
THEOREM PayloadsFitTheirEndpoint == Spec => []DialectFitsEndpoint
  <1>1. IInv => DialectFitsEndpoint
    <2> SUFFICES ASSUME IInv, exchange.endpoint # NoUrl, exchange.kind = "chat"
                 PROVE  DialectFitsEndpoint
      BY DEF DialectFitsEndpoint
    <2> DEFINE X    == STRING \cup {"v1", "chat", "completions"}
               path == exchange.endpoint.path
               root == RStrip(base_url.path)
    <2>1. /\ IsUrl(base_url)
          /\ exchange.endpoint = llm_chat_url(base_url)
          /\ exchange.payload = build_chat_payload(base_url)
      BY DEF IInv, UrlIsLoadedOnce, EndpointIsOfValidUrl, ChatIsOfBaseUrl
    <2>2. root \in Seq(X)
      <3>1. base_url.path \in Seq(X)
        BY <2>1 DEF IsUrl
      <3> QED
        BY <3>1, RootIsPath
    <2>3. path = IF base_url.port = 11434 THEN root \o <<"api", "chat">>
                 ELSE IF EndsWithV1(root) THEN root \o <<"chat", "completions">>
                 ELSE root \o <<"v1", "chat", "completions">>
      <3>1. "path" \in DOMAIN base_url
        BY <2>1 DEF IsUrl, DefaultUrl
      <3> QED
        BY <2>1, <3>1 DEF llm_chat_url
    <2>4. "options" \in exchange.payload <=> base_url.port = 11434
      BY <2>1 DEF build_chat_payload, is_ollama_backend
    <2>5. CASE base_url.port = 11434
      BY <2>3, <2>4, <2>5 DEF DialectFitsEndpoint
    <2>6. CASE base_url.port # 11434
      <3> HIDE DEF X, path, root
      <3>1. {"v1", "chat", "completions"} \subseteq X
        BY DEF X
      <3>2. path = IF EndsWithV1(root) THEN root \o <<"chat", "completions">>
                   ELSE root \o <<"v1", "chat", "completions">>
        BY <2>3, <2>6
      <3>3. IsOpenAIPath(path, root)
        BY <2>2, <3>1, <3>2, OpenAIPathFits, Zenon
      <3> QED
        BY <2>4, <2>6, <3>3 DEF DialectFitsEndpoint, path, root
    <2> QED
      BY <2>5, <2>6
  <1> QED
    BY <1>1, StartsInInv, NextKeepsIInv, PTL DEF Spec

-----------------------------------------------------------------------------
\* What the recursive functions of WithoutBlocks, WithoutTags and SaidAloud have after
\* each of the first n tokens.
Unread == [out |-> <<>>, held |-> <<>>]

IsScanned(f, text, n) ==
  f = [i \in 0..n |-> IF i = 0 THEN Unread ELSE Scan(f[i - 1], text[i])]

Keep(kept, token) == IF token \in Tags THEN kept ELSE Append(kept, token)

IsKept(f, text, n) == f = [i \in 0..n |-> IF i = 0 THEN <<>> ELSE Keep(f[i - 1], text[i])]

Show(shown, text, i) == IF Visible(text, i) THEN Append(shown, text[i]) ELSE shown

IsShown(f, text, n) == f = [i \in 0..n |-> IF i = 0 THEN <<>> ELSE Show(f[i - 1], text, i)]

LEMMA ScannedExists ==
  ASSUME NEW text, Len(text) \in Nat
  PROVE  \E f : IsScanned(f, text, Len(text)) /\ WithoutBlocks(text) = f[Len(text)].out \o f[Len(text)].held
  <1> DEFINE S == {n \in Nat : \E f : IsScanned(f, text, n)}
  <1>1. 0 \in S
    <2>1. IsScanned([i \in 0..0 |-> Unread], text, 0)
      BY DEF IsScanned
    <2> QED
      BY <2>1
  <1>2. ASSUME NEW n \in Nat, n \in S PROVE n + 1 \in S
    <2>1. PICK f : IsScanned(f, text, n)
      BY <1>2
    <2> DEFINE g == [i \in 0..(n + 1) |-> IF i = n + 1 THEN Scan(f[n], text[i]) ELSE f[i]]
    <2>2. IsScanned(g, text, n + 1)
      BY <2>1 DEF IsScanned
    <2> HIDE DEF g
    <2> QED
      BY <2>2
  <1>3. Len(text) \in S
    <2> HIDE DEF S
    <2> QED
      BY <1>1, <1>2, NatInductionInSet
  <1>4. \E f : IsScanned(f, text, Len(text))
    BY <1>3
  <1> QED
    BY <1>4 DEF WithoutBlocks, IsScanned, Unread

LEMMA KeptExists ==
  ASSUME NEW text, Len(text) \in Nat
  PROVE  \E f : IsKept(f, text, Len(text)) /\ WithoutTags(text) = f[Len(text)]
  <1> DEFINE S == {n \in Nat : \E f : IsKept(f, text, n)}
  <1>1. 0 \in S
    <2>1. IsKept([i \in 0..0 |-> <<>>], text, 0)
      BY DEF IsKept
    <2> QED
      BY <2>1
  <1>2. ASSUME NEW n \in Nat, n \in S PROVE n + 1 \in S
    <2>1. PICK f : IsKept(f, text, n)
      BY <1>2
    <2> DEFINE g == [i \in 0..(n + 1) |-> IF i = n + 1 THEN Keep(f[n], text[i]) ELSE f[i]]
    <2>2. IsKept(g, text, n + 1)
      BY <2>1 DEF IsKept
    <2> HIDE DEF g
    <2> QED
      BY <2>2
  <1>3. Len(text) \in S
    <2> HIDE DEF S
    <2> QED
      BY <1>1, <1>2, NatInductionInSet
  <1>4. \E f : IsKept(f, text, Len(text))
    BY <1>3
  <1> QED
    BY <1>4 DEF WithoutTags, IsKept, Keep

LEMMA ShownExists ==
  ASSUME NEW text, Len(text) \in Nat
  PROVE  \E f : IsShown(f, text, Len(text)) /\ SaidAloud(text) = f[Len(text)]
  <1> DEFINE S == {n \in Nat : \E f : IsShown(f, text, n)}
  <1>1. 0 \in S
    <2>1. IsShown([i \in 0..0 |-> <<>>], text, 0)
      BY DEF IsShown
    <2> QED
      BY <2>1
  <1>2. ASSUME NEW n \in Nat, n \in S PROVE n + 1 \in S
    <2>1. PICK f : IsShown(f, text, n)
      BY <1>2
    <2> DEFINE g == [i \in 0..(n + 1) |-> IF i = n + 1 THEN Show(f[n], text, i) ELSE f[i]]
    <2>2. IsShown(g, text, n + 1)
      BY <2>1 DEF IsShown
    <2> HIDE DEF g
    <2> QED
      BY <2>2
  <1>3. Len(text) \in S
    <2> HIDE DEF S
    <2> QED
      BY <1>1, <1>2, NatInductionInSet
  <1>4. \E f : IsShown(f, text, Len(text))
    BY <1>3
  <1> QED
    BY <1>4 DEF SaidAloud, IsShown, Show

\* Removing the tags is done token by token.
LEMMA TagsOfAppend ==
  ASSUME NEW X, NEW text \in Seq(X), NEW token \in X
  PROVE  WithoutTags(Append(text, token)) = Keep(WithoutTags(text), token)
  <1> DEFINE last == Len(text)
             longer == Append(text, token)
  <1>1. last \in Nat /\ Len(longer) = last + 1 /\ longer[last + 1] = token
    OBVIOUS
  <1>2. \A i \in 1..last : longer[i] = text[i]
    OBVIOUS
  <1> HIDE DEF longer, last
  <1>3. PICK f : IsKept(f, text, last) /\ WithoutTags(text) = f[last]
    BY <1>1, KeptExists DEF last
  <1>4. PICK g : IsKept(g, longer, last + 1) /\ WithoutTags(longer) = g[last + 1]
    BY <1>1, KeptExists
  <1> DEFINE S == {n \in Nat : n <= last => g[n] = f[n]}
  <1>5. 0 \in S
    BY <1>1, <1>3, <1>4 DEF IsKept
  <1>6. ASSUME NEW n \in Nat, n \in S PROVE n + 1 \in S
    <2> SUFFICES ASSUME n + 1 <= last PROVE g[n + 1] = f[n + 1]
      OBVIOUS
    <2>1. f[n + 1] = Keep(f[n], text[n + 1]) /\ g[n + 1] = Keep(g[n], longer[n + 1])
      BY <1>1, <1>3, <1>4 DEF IsKept
    <2>2. g[n] = f[n] /\ longer[n + 1] = text[n + 1]
      BY <1>1, <1>2, <1>6
    <2> QED
      BY <2>1, <2>2
  <1>7. last \in S
    <2> HIDE DEF S
    <2> QED
      BY <1>1, <1>5, <1>6, NatInductionInSet
  <1>8. g[last + 1] = Keep(g[last], token)
    BY <1>1, <1>4 DEF IsKept
  <1>9. g[last] = f[last]
    BY <1>1, <1>7
  <1> QED
    BY <1>3, <1>4, <1>8, <1>9 DEF longer

LEMMA HiddenNext ==
  ASSUME NEW text, NEW n \in Nat
  PROVE  Hidden(text, n + 2) <=> (text[n + 1] = Open \/ (Hidden(text, n + 1) /\ text[n + 1] # Close))
  <1>1. ASSUME text[n + 1] = Open PROVE Hidden(text, n + 2)
    <2>1. n + 1 \in 1..((n + 2) - 1) /\ \A k \in (n + 1)..((n + 2) - 1) : text[k] # Close
      BY <1>1 DEF Open, Close
    <2> QED
      BY <1>1, <2>1 DEF Hidden
  <1>2. ASSUME Hidden(text, n + 1), text[n + 1] # Close PROVE Hidden(text, n + 2)
    <2>1. PICK j \in 1..((n + 1) - 1) : text[j] = Open /\ \A k \in j..((n + 1) - 1) : text[k] # Close
      BY <1>2 DEF Hidden
    <2>2. j \in 1..((n + 2) - 1) /\ \A k \in j..((n + 2) - 1) : text[k] # Close
      <3>1. \A k \in j..((n + 2) - 1) : k = n + 1 \/ k \in j..((n + 1) - 1)
        OBVIOUS
      <3> QED
        BY <1>2, <2>1, <3>1
    <2> QED
      BY <2>1, <2>2 DEF Hidden
  <1>3. ASSUME Hidden(text, n + 2), text[n + 1] # Open
        PROVE  Hidden(text, n + 1) /\ text[n + 1] # Close
    <2>1. PICK j \in 1..((n + 2) - 1) : text[j] = Open /\ \A k \in j..((n + 2) - 1) : text[k] # Close
      BY <1>3 DEF Hidden
    <2>2. j # n + 1 /\ n + 1 \in j..((n + 2) - 1)
      BY <1>3, <2>1
    <2>3. j \in 1..((n + 1) - 1) /\ \A k \in j..((n + 1) - 1) : k \in j..((n + 2) - 1)
      BY <2>2
    <2> QED
      BY <2>1, <2>2, <2>3 DEF Hidden
  <1> QED
    BY <1>1, <1>2, <1>3

\* What the scan has put out and what it holds back, after the first n tokens.
ScanInv(seen, shown, text, n, X) ==
  /\ seen.out \in Seq(X) /\ seen.held \in Seq(X)
  /\ \A i \in 1..Len(seen.out) : seen.out[i] # Open
  /\ seen.held # <<>> <=> Hidden(text, n + 1)
  /\ seen.held # <<>> => seen.held[1] = Open
  /\ WithoutTags(seen.out) = shown

LEMMA ScanStep ==
  ASSUME NEW X, NEW text \in Seq(X), NEW n \in Nat, n + 1 <= Len(text),
         NEW token, token = text[n + 1],
         NEW seen, NEW shown, ScanInv(seen, shown, text, n, X),
         NEW next, next = Scan(seen, token)
  PROVE  ScanInv(next, Show(shown, text, n + 1), text, n + 1, X)
  <1>1. token \in X /\ (n + 1) + 1 = n + 2
    OBVIOUS
  <1>2. Hidden(text, (n + 1) + 1) <=> (token = Open \/ (Hidden(text, n + 1) /\ token # Close))
    BY <1>1, HiddenNext
  <1>3. CASE seen.held = <<>> /\ token = Open
    <2>1. next = [out |-> seen.out, held |-> <<token>>]
      BY <1>3 DEF Scan
    <2>2. Show(shown, text, n + 1) = shown
      BY <1>3 DEF Show, Visible, Tags
    <2> QED
      <3>1. next.out = seen.out /\ next.held = <<token>>
        BY <2>1
      <3>2. Hidden(text, (n + 1) + 1)
        BY <1>2, <1>3
      <3>3. <<token>> \in Seq(X) /\ <<token>> # <<>> /\ <<token>>[1] = Open
        BY <1>1, <1>3
      <3> QED
        BY <2>2, <3>1, <3>2, <3>3 DEF ScanInv
  <1>4. CASE seen.held = <<>> /\ token # Open
    <2>1. next = [out |-> Append(seen.out, token), held |-> <<>>]
      BY <1>4 DEF Scan
    <2>2. ~ Hidden(text, n + 1)
      BY <1>4 DEF ScanInv
    <2>3. Show(shown, text, n + 1) = Keep(shown, token)
      BY <1>4, <2>2 DEF Show, Visible, Keep
    <2>4. WithoutTags(Append(seen.out, token)) = Keep(shown, token)
      BY <1>1, TagsOfAppend DEF ScanInv
    <2>5. /\ Append(seen.out, token) \in Seq(X)
          /\ \A i \in 1..Len(Append(seen.out, token)) : Append(seen.out, token)[i] # Open
      BY <1>1, <1>4 DEF ScanInv
    <2> QED
      BY <1>2, <1>4, <2>1, <2>2, <2>3, <2>4, <2>5 DEF ScanInv
  <1>5. CASE seen.held # <<>>
    <2>1. Hidden(text, n + 1)
      BY <1>5 DEF ScanInv
    <2>2. Show(shown, text, n + 1) = shown
      BY <2>1 DEF Show, Visible
    <2>3. CASE token = Close
      <3>1. next = [out |-> seen.out, held |-> <<>>]
        BY <1>5, <2>3 DEF Scan
      <3>2. next.out = seen.out /\ next.held = <<>>
        BY <3>1
      <3>3. token # Open
        BY <2>3 DEF Open, Close
      <3>4. ~ Hidden(text, (n + 1) + 1)
        BY <1>2, <2>3, <3>3
      <3> QED
        BY <2>2, <3>2, <3>4 DEF ScanInv
    <2>4. CASE token # Close
      <3>1. next = [out |-> seen.out, held |-> Append(seen.held, token)]
        BY <1>5, <2>4 DEF Scan
      <3>2. /\ Append(seen.held, token) \in Seq(X) /\ Append(seen.held, token) # <<>>
            /\ Append(seen.held, token)[1] = Open
        BY <1>1, <1>5 DEF ScanInv
      <3> QED
        BY <1>2, <2>1, <2>2, <2>4, <3>1, <3>2 DEF ScanInv
    <2> QED
      BY <2>3, <2>4
  <1> QED
    BY <1>3, <1>4, <1>5

\* A block that nothing closes begins where the scan has begun to hold back.
LEMMA OpenBlockIsHeld ==
  ASSUME NEW X, NEW out \in Seq(X), NEW held \in Seq(X),
         \A i \in 1..Len(out) : out[i] # Open,
         held # <<>> => held[1] = Open
  PROVE  WithoutOpenBlock(out \o held) = out
  <1> DEFINE text   == out \o held
             opened == {i \in DOMAIN text : text[i] = Open}
             cut    == Len(out) + 1
  <1>1. WithoutOpenBlock(text) = IF opened = {} THEN text ELSE SubSeq(text, 1, Min(opened) - 1)
    BY Zenon DEF WithoutOpenBlock
  <1>2. \A i \in opened : i \in Nat /\ cut <= i
    OBVIOUS
  <1>3. CASE held = <<>>
    <2>1. opened = {} /\ text = out
      BY <1>2, <1>3
    <2> QED
      BY <1>1, <2>1
  <1>4. CASE held # <<>>
    <2>1. cut \in opened /\ cut - 1 = Len(out)
      BY <1>4
    <2>2. SubSeq(text, 1, Len(out)) = out
      OBVIOUS
    <2> HIDE DEF text, opened, cut
    <2>3. Min(opened) = cut
      BY <1>2, <2>1 DEF Min
    <2> QED
      BY <1>1, <2>1, <2>2, <2>3 DEF text
  <1> QED
    BY <1>3, <1>4

\* The three patterns of strip_think, one after the other, leave what is said aloud.
LEMMA StrippedIsSaidAloud ==
  ASSUME NEW X, NEW text \in Seq(X)
  PROVE  strip_think(text) = SaidAloud(text)
  <1>0. Len(text) \in Nat
    OBVIOUS
  <1>1. PICK f : /\ IsScanned(f, text, Len(text))
                 /\ WithoutBlocks(text) = f[Len(text)].out \o f[Len(text)].held
    BY <1>0, ScannedExists
  <1>2. PICK h : IsShown(h, text, Len(text)) /\ SaidAloud(text) = h[Len(text)]
    BY <1>0, ShownExists
  <1> DEFINE S == {n \in Nat : n <= Len(text) => ScanInv(f[n], h[n], text, n, X)}
  <1>3. 0 \in S
    <2>1. f[0] = Unread /\ h[0] = <<>>
      BY <1>0, <1>1, <1>2 DEF IsScanned, IsShown
    <2>2. ~ Hidden(text, 0 + 1)
      BY DEF Hidden
    <2>3. WithoutTags(<<>>) = <<>>
      <3>1. PICK k : IsKept(k, <<>>, 0) /\ WithoutTags(<<>>) = k[0]
        BY KeptExists
      <3> QED
        BY <3>1 DEF IsKept
    <2>4. ScanInv(Unread, <<>>, text, 0, X)
      <3>1. Unread.out = <<>> /\ Unread.held = <<>>
        BY DEF Unread
      <3> QED
        BY <2>2, <2>3, <3>1 DEF ScanInv
    <2> QED
      BY <2>1, <2>4
  <1>4. ASSUME NEW n \in Nat, n \in S PROVE n + 1 \in S
    <2> SUFFICES ASSUME n + 1 <= Len(text)
                 PROVE  ScanInv(f[n + 1], h[n + 1], text, n + 1, X)
      OBVIOUS
    <2>1. f[n + 1] = Scan(f[n], text[n + 1]) /\ h[n + 1] = Show(h[n], text, n + 1)
      BY <1>0, <1>1, <1>2 DEF IsScanned, IsShown
    <2>2. ScanInv(f[n], h[n], text, n, X)
      BY <1>0, <1>4
    <2>3. ScanInv(f[n + 1], Show(h[n], text, n + 1), text, n + 1, X)
      BY <2>1, <2>2, ScanStep
    <2> QED
      BY <2>1, <2>3
  <1>5. ScanInv(f[Len(text)], h[Len(text)], text, Len(text), X)
    <2>1. Len(text) \in S
      <3> HIDE DEF S
      <3> QED
        BY <1>0, <1>3, <1>4, NatInductionInSet
    <2> QED
      BY <1>0, <2>1
  <1>6. WithoutOpenBlock(WithoutBlocks(text)) = f[Len(text)].out
    BY <1>1, <1>5, OpenBlockIsHeld DEF ScanInv
  <1> QED
    BY <1>2, <1>5, <1>6 DEF strip_think, ScanInv

\* For every reply, of any length and with tags in any order, the service shows exactly
\* what the model said outside its thinking (utils.py:13-18, chat_payload.py:38-43).
THEOREM NoThinkingIsShown == Spec => []ThinkingIsHidden
  <1>1. IInv => ThinkingIsHidden
    <2> SUFFICES ASSUME IInv, exchange.stage = "returned" PROVE ThinkingIsHidden
      BY DEF ThinkingIsHidden
    <2>1. /\ exchange.reply.text \in Seq(STRING)
          /\ exchange.text = Parsed(exchange.kind, exchange.reply)
      BY TextsAssumption DEF IInv, TextIsOfReply
    <2>2. strip_think(exchange.reply.text) = SaidAloud(exchange.reply.text)
      BY <2>1, StrippedIsSaidAloud
    <2> QED
      BY <2>1, <2>2 DEF ThinkingIsHidden, Parsed
  <1> QED
    BY <1>1, StartsInInv, NextKeepsIInv, PTL DEF Spec

=============================================================================
