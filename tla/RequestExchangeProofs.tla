------------------------ MODULE RequestExchangeProofs ------------------------
(***************************************************************************)
(* What the sender and the receiver of a request agree on, for every set   *)
(* of calls: any bodies, any number of parameters with lists of any        *)
(* length.  The library's induction theorems cannot be applied here, so    *)
(* induction is by the least counterexample, which WFMin gives.            *)
(***************************************************************************)
EXTENDS RequestExchange, WellFoundedInduction, TLAPS

LEMMA LeastNatural ==
  ASSUME NEW T \in SUBSET Nat, T # {}
  PROVE  \E m \in T : \A k \in T : m <= k
  <1> DEFINE R == {ss \in Nat \X Nat : ss[1] < ss[2]}
  <1>1. OpToRel(<, Nat) = R
    BY Zenon DEF OpToRel
  <1>2. IsWellFoundedOn(R, Nat)
    BY <1>1, NatLessThanWellFounded, Zenon
  <1>3. \E m \in T : \A k \in T : <<k, m>> \notin R
    <2> HIDE DEF R
    <2> QED
      BY <1>2, WFMin
  <1>4. PICK m \in T : \A k \in T : <<k, m>> \notin R
    BY <1>3
  <1>5. ASSUME NEW k \in T PROVE m <= k
    <2>1. ~ (k < m)
      BY <1>4
    <2> QED
      BY <2>1
  <1> QED
    BY <1>5

\* Induction over the naturals, for a set in the place of a predicate.
LEMMA NatInductionInSet ==
  ASSUME NEW S, 0 \in S, \A n \in Nat : n \in S => n + 1 \in S
  PROVE  Nat \subseteq S
  <1> SUFFICES ASSUME Nat \ S # {} PROVE FALSE
    OBVIOUS
  <1>1. PICK m \in Nat \ S : \A k \in Nat \ S : m <= k
    BY LeastNatural
  <1>2. m - 1 \in Nat /\ m - 1 \in S
    BY <1>1
  <1> QED
    BY <1>2

-----------------------------------------------------------------------------
\* The lists that ValuesOf has for key after each of the first n pairs.
IsGrouped(f, pairs, key, n) ==
  f = [i \in 0..n |->
         IF i = 0 THEN <<>> ELSE Collect(f[i - 1], pairs[i], key)]

LEMMA GroupedExists ==
  ASSUME NEW pairs, Len(pairs) \in Nat, NEW key
  PROVE  \E f : IsGrouped(f, pairs, key, Len(pairs)) /\ ValuesOf(pairs, key) = f[Len(pairs)]
  <1> DEFINE S == {n \in Nat : \E f : IsGrouped(f, pairs, key, n)}
  <1>1. 0 \in S
    <2>1. IsGrouped([i \in 0..0 |-> <<>>], pairs, key, 0)
      BY DEF IsGrouped
    <2> QED
      BY <2>1
  <1>2. ASSUME NEW n \in Nat, n \in S PROVE n + 1 \in S
    <2>1. PICK f : IsGrouped(f, pairs, key, n)
      BY <1>2
    <2> DEFINE g == [i \in 0..(n + 1) |->
                       IF i = n + 1 THEN Collect(f[n], pairs[i], key) ELSE f[i]]
    <2>2. IsGrouped(g, pairs, key, n + 1)
      BY <2>1 DEF IsGrouped
    <2> HIDE DEF g
    <2> QED
      BY <2>2
  <1>3. Len(pairs) \in S
    <2> HIDE DEF S
    <2> QED
      BY <1>1, <1>2, NatInductionInSet
  <1>4. \E f : IsGrouped(f, pairs, key, Len(pairs))
    BY <1>3
  <1> QED
    BY <1>4 DEF ValuesOf, IsGrouped

\* The values of a key are a sequence of strings of the pairs, and a key that no pair has
\* has no values.
LEMMA ValuesAreOfPairs ==
  ASSUME NEW X, NEW pairs \in Seq(X), NEW key
  PROVE  /\ ValuesOf(pairs, key) \in Seq({Str(pair[2]) : pair \in X})
         /\ (\A i \in 1..Len(pairs) : pairs[i][1] # key) => ValuesOf(pairs, key) = <<>>
  <1> DEFINE T == {Str(pair[2]) : pair \in X}
             None == \A i \in 1..Len(pairs) : pairs[i][1] # key
  <1>1. PICK f : IsGrouped(f, pairs, key, Len(pairs)) /\ ValuesOf(pairs, key) = f[Len(pairs)]
    BY GroupedExists
  <1> DEFINE S == {n \in Nat : n <= Len(pairs) => f[n] \in Seq(T) /\ (None => f[n] = <<>>)}
  <1>2. 0 \in S
    BY <1>1 DEF IsGrouped
  <1>3. ASSUME NEW n \in Nat, n \in S PROVE n + 1 \in S
    <2> SUFFICES ASSUME n + 1 <= Len(pairs)
                 PROVE  f[n + 1] \in Seq(T) /\ (None => f[n + 1] = <<>>)
      OBVIOUS
    <2>1. f[n] \in Seq(T) /\ (None => f[n] = <<>>)
      BY <1>3
    <2>2. f[n + 1] = Collect(f[n], pairs[n + 1], key)
      BY <1>1 DEF IsGrouped
    <2>3. n + 1 \in 1..Len(pairs) /\ Str(pairs[n + 1][2]) \in T
      OBVIOUS
    <2> HIDE DEF T
    <2> QED
      BY <2>1, <2>2, <2>3 DEF Collect
  <1>4. Len(pairs) \in S
    <2> HIDE DEF S
    <2> QED
      BY <1>2, <1>3, NatInductionInSet
  <1> QED
    BY <1>1, <1>4

-----------------------------------------------------------------------------
\* What FlattenSeq has after each of the first n sequences.
Joined(sofar, seqs, i) == IF i = 1 THEN seqs[i] ELSE sofar \o seqs[i]

IsFlattened(f, seqs, n) == f = [i \in 1..n |-> Joined(f[i - 1], seqs, i)]

LEMMA FlattenedExists ==
  ASSUME NEW seqs, Len(seqs) \in Nat \ {0}
  PROVE  \E f : IsFlattened(f, seqs, Len(seqs)) /\ FlattenSeq(seqs) = f[Len(seqs)]
  <1> DEFINE S == {n \in Nat : \E f : IsFlattened(f, seqs, n)}
  <1>1. 0 \in S
    <2>1. IsFlattened([i \in 1..0 |-> <<>>], seqs, 0)
      BY DEF IsFlattened
    <2> QED
      BY <2>1
  <1>2. ASSUME NEW n \in Nat, n \in S PROVE n + 1 \in S
    <2>1. PICK f : IsFlattened(f, seqs, n)
      BY <1>2
    <2> DEFINE g == [i \in 1..(n + 1) |-> IF i = n + 1 THEN Joined(f[n], seqs, i) ELSE f[i]]
    <2>2. ASSUME NEW i \in 1..(n + 1) PROVE g[i] = Joined(g[i - 1], seqs, i)
      <3>1. CASE i = 1
        BY <2>1, <3>1 DEF IsFlattened, Joined
      <3>2. CASE i # 1
        BY <2>1, <3>2 DEF IsFlattened
      <3> QED
        BY <3>1, <3>2
    <2>3. IsFlattened(g, seqs, n + 1)
      <3>1. g = [i \in 1..(n + 1) |-> g[i]]
        OBVIOUS
      <3> HIDE DEF g
      <3> QED
        BY <2>2, <3>1 DEF IsFlattened
    <2> HIDE DEF g
    <2> QED
      BY <2>3
  <1>3. Len(seqs) \in S
    <2> HIDE DEF S
    <2> QED
      BY <1>1, <1>2, NatInductionInSet
  <1> QED
    BY <1>3 DEF FlattenSeq, IsFlattened, Joined

LEMMA FlattenedIsSeq ==
  ASSUME NEW X, NEW seqs \in Seq(Seq(X))
  PROVE  FlattenSeq(seqs) \in Seq(X)
  <1>1. CASE Len(seqs) = 0
    BY <1>1 DEF FlattenSeq
  <1>2. CASE Len(seqs) # 0
    <2>1. PICK f : IsFlattened(f, seqs, Len(seqs)) /\ FlattenSeq(seqs) = f[Len(seqs)]
      BY <1>2, FlattenedExists
    <2> DEFINE S == {n \in Nat : n \in 1..Len(seqs) => f[n] \in Seq(X)}
    <2>2. 0 \in S
      OBVIOUS
    <2>3. ASSUME NEW n \in Nat, n \in S PROVE n + 1 \in S
      <3> SUFFICES ASSUME n + 1 \in 1..Len(seqs) PROVE f[n + 1] \in Seq(X)
        OBVIOUS
      <3>1. f[n + 1] = Joined(f[n], seqs, n + 1)
        <4>1. \A i \in 1..Len(seqs) : f[i] = Joined(f[i - 1], seqs, i)
          BY <2>1 DEF IsFlattened
        <4>2. (n + 1) - 1 = n
          OBVIOUS
        <4> QED
          BY <4>1, <4>2, Zenon
      <3>2. seqs[n + 1] \in Seq(X) /\ (n # 0 => f[n] \in Seq(X))
        BY <2>3
      <3> QED
        BY <3>1, <3>2 DEF Joined
    <2>4. Len(seqs) \in S
      <3> HIDE DEF S
      <3> QED
        BY <2>2, <2>3, NatInductionInSet
    <2> QED
      BY <1>2, <2>1, <2>4
  <1> QED
    BY <1>1, <1>2

-----------------------------------------------------------------------------
LEMMA ValuesAreScalars ==
  ASSUME NEW raw \in Scalars \cup ({"list"} \X Seq(Scalars))
  PROVE  QueryValues(raw) \in Seq(Scalars)
  <1>1. CASE raw \in Scalars
    BY <1>1 DEF QueryValues, Scalars
  <1>2. CASE raw \in {"list"} \X Seq(Scalars)
    BY <1>2 DEF QueryValues
  <1> QED
    BY <1>1, <1>2

\* What the HTTP client writes for a value that is not bytes is the text that the sender has
\* hashed for it (_query_value_pairs, capability_grants.py:485-495).
LEMMA SameText ==
  ASSUME NEW raw \in Scalars, raw[1] \notin {"bytes", "undecodable"}
  PROVE  HttpxQueryText(raw) = QueryText(raw)
  <1>1. CASE raw \in {"none"} \X {0}
    BY <1>1 DEF QueryText, HttpxQueryText
  <1>2. CASE raw \in {"bool"} \X BOOLEAN
    <2>1. raw[1] = "bool" /\ (raw[2] = TRUE \/ raw[2] = FALSE)
      BY <1>2
    <2>2. CASE raw[2] = TRUE
      BY <2>1, <2>2 DEF QueryText, HttpxQueryText
    <2>3. CASE raw[2] = FALSE
      BY <2>1, <2>3 DEF QueryText, HttpxQueryText
    <2> QED
      BY <2>1, <2>2, <2>3
  <1>3. CASE raw \in {"text"} \X STRING
    BY <1>3 DEF QueryText, HttpxQueryText
  <1> QED
    BY <1>1, <1>2, <1>3 DEF Scalars

RawValues == Scalars \cup ({"list"} \X Seq(Scalars))

WireItems == STRING \X {HttpxQueryText(raw) : raw \in RawValues}

\* What is on the wire are items, whatever values the call has.
LEMMA WireIsOfItems ==
  ASSUME NEW call \in Calls
  PROVE  WireForm(call).query \in Seq(WireItems)
  <1> DEFINE params == call.params
             Wired(i) == [j \in DOMAIN HttpxValues(call, params[i][2]) |->
                            <<params[i][1], HttpxQueryText(HttpxValues(call, params[i][2])[j])>>]
  <1>1. params \in Seq(STRING \X RawValues)
    BY CallsAssumption DEF Params, RawValues
  <1>2. ASSUME NEW i \in DOMAIN params
        PROVE  Wired(i) \in Seq(WireItems)
    <2> DEFINE values == HttpxValues(call, params[i][2])
    <2>1. params[i][1] \in STRING /\ params[i][2] \in RawValues
      BY <1>1, <1>2
    <2>2. values \in Seq(RawValues)
      <3>1. QueryValues(params[i][2]) \in Seq(Scalars)
        BY <2>1, ValuesAreScalars DEF RawValues
      <3>2. Scalars \subseteq RawValues
        BY DEF RawValues
      <3>3. QueryValues(params[i][2]) \in Seq(RawValues)
        BY <3>1, <3>2
      <3>4. CASE call.form = "mapping"
        BY <3>3, <3>4 DEF HttpxValues
      <3>5. CASE call.form # "mapping"
        BY <2>1, <3>5 DEF HttpxValues
      <3> QED
        BY <3>4, <3>5
    <2>3. ASSUME NEW j \in DOMAIN values
          PROVE  <<params[i][1], HttpxQueryText(values[j])>> \in WireItems
      <3>1. values[j] \in RawValues
        BY <2>2, <2>3
      <3> HIDE DEF values
      <3> QED
        BY <2>1, <3>1 DEF WireItems
    <2> HIDE DEF values
    <2>4. [j \in DOMAIN values |-> <<params[i][1], HttpxQueryText(values[j])>>] \in Seq(WireItems)
      BY <2>2, <2>3
    <2> QED
      BY <2>4 DEF values
  <1>3. [i \in DOMAIN params |-> Wired(i)] \in Seq(Seq(WireItems))
    <2>1. DOMAIN params = 1..Len(params) /\ Len(params) \in Nat
      BY <1>1
    <2> HIDE DEF Wired
    <2> QED
      BY <1>2, <2>1
  <1> QED
    BY <1>3, FlattenedIsSeq DEF WireForm

\* For a portable call these items are the pairs that the sender has hashed.
LEMMA PortableMeets ==
  ASSUME NEW call \in Calls, Portable(call)
  PROVE  WireForm(call).query = QueryValuePairs(call.params)
  <1> DEFINE params == call.params
             Spread(i) == [j \in DOMAIN QueryValues(params[i][2]) |->
                             <<params[i][1], QueryText(QueryValues(params[i][2])[j])>>]
             Wired(i) == [j \in DOMAIN HttpxValues(call, params[i][2]) |->
                            <<params[i][1], HttpxQueryText(HttpxValues(call, params[i][2])[j])>>]
  <1>1. params \in Params
    BY CallsAssumption
  <1>2. ASSUME NEW i \in DOMAIN params
        PROVE  Wired(i) = Spread(i)
    <2> DEFINE values == QueryValues(params[i][2])
    <2>1. params[i][1] \in STRING /\ values \in Seq(Scalars)
      BY <1>1, <1>2, ValuesAreScalars DEF Params
    <2>2. HttpxValues(call, params[i][2]) = values
      BY <1>2 DEF HttpxValues, QueryValues, Portable
    <2>3. ASSUME NEW j \in DOMAIN values
          PROVE  HttpxQueryText(values[j]) = QueryText(values[j])
      <3>1. values[j] \in Scalars
        BY <2>1, <2>3
      <3>2. values[j][1] \notin {"bytes", "undecodable"}
        BY <1>2, <2>3 DEF Portable
      <3> HIDE DEF values
      <3> QED
        BY <3>1, <3>2, SameText
    <2> QED
      BY <2>2, <2>3
  <1>3. [i \in DOMAIN params |-> Wired(i)] = [i \in DOMAIN params |-> Spread(i)]
    BY <1>2
  <1> QED
    BY <1>3 DEF WireForm, QueryValuePairs

-----------------------------------------------------------------------------
\* reconstruct_fastapi_request gives the canonical value of the body that was sent and of
\* the items on the wire.
LEMMA ReconstructsSent ==
  ASSUME NEW call \in Calls
  PROVE  Reconstruct(WireForm(call))
           = CanonicalPayload(call.method, call.body, WireForm(call).query)
  <1> DEFINE http1 == WireForm(call)
  <1>1. CASE call.body = Null
    <2>1. http1.method = call.method /\ http1.content = NoBytes
      BY <1>1 DEF WireForm
    <2> HIDE DEF http1
    <2>2. Reconstruct(http1) = CanonicalPayload(call.method, call.body, http1.query)
      BY <1>1, <2>1 DEF Reconstruct, NoBytes, Overlong
    <2> QED
      BY <2>2 DEF http1
  <1>2. CASE call.body # Null
    <2>1. /\ http1.method = call.method /\ http1.media = "application/json"
          /\ http1.content = Text(call.body)
      BY <1>2 DEF WireForm
    <2>2. /\ http1.content \notin {NoBytes, Unparsed, Overlong}
          /\ http1.content[2] = call.body
      BY <2>1 DEF Text, NoBytes, Unparsed, Overlong
    <2> HIDE DEF http1
    <2>3. CASE call.method \in DOMAIN Upper /\ Upper[call.method] \in SafeMethods
      <3>1. Reconstruct(http1) = Malformed
        BY <2>1, <2>2, <2>3 DEF Reconstruct
      <3>2. CanonicalPayload(call.method, call.body, http1.query) = Malformed
        BY <1>2, <2>3 DEF CanonicalPayload
      <3> QED
        BY <3>1, <3>2 DEF http1
    <2>4. CASE ~ (call.method \in DOMAIN Upper /\ Upper[call.method] \in SafeMethods)
      <3>1. Reconstruct(http1) = CanonicalPayload(call.method, call.body, http1.query)
        BY <2>1, <2>2, <2>4 DEF Reconstruct, JsonMedia
      <3> QED
        BY <3>1 DEF http1
    <2> QED
      BY <2>3, <2>4
  <1> QED
    BY <1>1, <1>2

\* What canonical_query_params makes of the values of one key.
Grouped(values) == IF Len(values) = 1 THEN values[1] ELSE Arr(values)

\* A lone value is not taken for a list, nor a list for another one.
LEMMA GroupedIsInjective ==
  ASSUME NEW T, \A t \in T : \A items : t # Arr(items),
         NEW v \in Seq(T), NEW w \in Seq(T), Grouped(v) = Grouped(w)
  PROVE  v = w
  <1>1. ASSUME NEW a \in Seq(T), NEW b \in Seq(T), Grouped(a) = Grouped(b), Len(a) = 1, Len(b) # 1
        PROVE  FALSE
    <2>1. Grouped(a) \in T
      <3>1. 1 \in 1..Len(a) /\ Grouped(a) = a[1]
        BY <1>1 DEF Grouped
      <3>2. \A i \in 1..Len(a) : a[i] \in T
        OBVIOUS
      <3> QED
        BY <3>1, <3>2
    <2>2. Grouped(b) = Arr(b)
      BY <1>1 DEF Grouped
    <2> QED
      BY <1>1, <2>1, <2>2
  <1>2. Len(v) = 1 <=> Len(w) = 1
    BY <1>1
  <1>3. CASE Len(v) = 1
    BY <1>2, <1>3 DEF Grouped
  <1>4. CASE Len(v) # 1
    BY <1>2, <1>4 DEF Grouped, Arr
  <1> QED
    BY <1>3, <1>4

\* canonical_query_params loses nothing but the order of the keys: neither the number of a
\* key's values nor their order (capability_grants.py:499-510).
LEMMA QueryKeepsValues ==
  ASSUME NEW X, NEW p \in Seq(X), NEW q \in Seq(X), CanonicalQuery(p) = CanonicalQuery(q), NEW key
  PROVE  ValuesOf(p, key) = ValuesOf(q, key)
  <1> DEFINE KeysOf(pairs) == {pairs[i][1] : i \in DOMAIN pairs}
  <1>1. KeysOf(p) = KeysOf(q)
    BY DEF CanonicalQuery
  <1>2. CASE key \notin KeysOf(p)
    <2>1. \A i \in 1..Len(p) : p[i][1] # key
      BY <1>2
    <2>2. \A i \in 1..Len(q) : q[i][1] # key
      BY <1>1, <1>2
    <2> QED
      BY <2>1, <2>2, ValuesAreOfPairs
  <1>3. CASE key \in KeysOf(p)
    <2> DEFINE T == {Str(pair[2]) : pair \in X}
    <2>1. CanonicalQuery(p)[key] = Grouped(ValuesOf(p, key))
      BY <1>3 DEF CanonicalQuery, Grouped
    <2>2. CanonicalQuery(q)[key] = Grouped(ValuesOf(q, key))
      BY <1>1, <1>3 DEF CanonicalQuery, Grouped
    <2>3. ValuesOf(p, key) \in Seq(T) /\ ValuesOf(q, key) \in Seq(T)
      BY ValuesAreOfPairs
    <2>4. \A t \in T : \A items : t # Arr(items)
      BY DEF Str, Arr
    <2> HIDE DEF T
    <2> QED
      BY <2>1, <2>2, <2>3, <2>4, GroupedIsInjective
  <1> QED
    BY <1>2, <1>3

LEMMA ObjIsInjective == \A m1, m2 : Obj(m1) = Obj(m2) => m1 = m2
  BY DEF Obj

\* canonical_request_payload, without an error, confuses two calls of one method only if one
\* of them has a query and the other has none (capability_grants.py:513-532).
LEMMA PayloadKeepsContent ==
  ASSUME NEW method, NEW body1, NEW body2, NEW pairs1, NEW pairs2,
         (DOMAIN CanonicalQuery(pairs1) = {}) <=> (DOMAIN CanonicalQuery(pairs2) = {}),
         CanonicalPayload(method, body1, pairs1) # Malformed,
         CanonicalPayload(method, body1, pairs1) = CanonicalPayload(method, body2, pairs2)
  PROVE  body1 = body2 /\ CanonicalQuery(pairs1) = CanonicalQuery(pairs2)
  <1> DEFINE query1 == CanonicalQuery(pairs1)
             query2 == CanonicalQuery(pairs2)
  <1>1. method \in DOMAIN Upper
    BY DEF CanonicalPayload
  <1>2. CASE Upper[method] \in SafeMethods
    <2>1. CanonicalPayload(method, body1, pairs1) = Obj(query1) /\ body1 = Null
      BY <1>1, <1>2 DEF CanonicalPayload
    <2>2. CanonicalPayload(method, body2, pairs2) = Obj(query2) /\ body2 = Null
      BY <1>1, <1>2 DEF CanonicalPayload
    <2> HIDE DEF query1, query2
    <2>3. query1 = query2
      BY <2>1, <2>2, ObjIsInjective
    <2> QED
      BY <2>1, <2>2, <2>3 DEF query1, query2
  <1>3. CASE Upper[method] \notin SafeMethods
    <2>1. CASE DOMAIN query1 = {}
      <3>1. query1 = query2
        BY <2>1 DEF CanonicalQuery
      <3> QED
        BY <1>1, <1>3, <2>1, <3>1 DEF CanonicalPayload
    <2>2. CASE DOMAIN query1 # {}
      <3> DEFINE Envelope(body, query) == [json |-> body, params |-> Obj(query)]
      <3>1. CanonicalPayload(method, body1, pairs1) = Obj(Envelope(body1, query1))
        BY <1>1, <1>3, <2>2 DEF CanonicalPayload
      <3>2. CanonicalPayload(method, body2, pairs2) = Obj(Envelope(body2, query2))
        BY <1>1, <1>3, <2>2 DEF CanonicalPayload
      <3>3. Envelope(body1, query1) = Envelope(body2, query2)
        <4> HIDE DEF Envelope
        <4> QED
          BY <3>1, <3>2, ObjIsInjective
      <3>4. body1 = body2 /\ Obj(query1) = Obj(query2)
        <4> HIDE DEF query1, query2
        <4> QED
          BY <3>3
      <3> QED
        BY <3>4, ObjIsInjective, Zenon
    <2> QED
      BY <2>1, <2>2
  <1> QED
    BY <1>2, <1>3

-----------------------------------------------------------------------------
LEMMA StartsInInv == Init => IInv
  BY DEF Init, IInv, GrantIsBound, WireIsOfSent, VerdictCompares

LEMMA NextKeepsIInv == IInv /\ [Next]_vars => IInv'
  <1> SUFFICES ASSUME IInv, [Next]_vars PROVE IInv'
    OBVIOUS
  <1> USE DEF IInv
  <1>1. ASSUME NEW call \in Calls, Issue(call) PROVE IInv'
    <2>1. GrantIsBound'
      BY <1>1, NothingAssumption DEF Issue, GrantIsBound
    <2>2. WireIsOfSent'
      BY <1>1 DEF Issue, WireIsOfSent
    <2>3. VerdictCompares'
      BY <1>1 DEF Issue, VerdictCompares
    <2> QED
      BY <2>1, <2>2, <2>3
  <1>2. ASSUME NEW call \in Calls, Send(call) PROVE IInv'
    <2>1. GrantIsBound'
      BY <1>2 DEF Send, GrantIsBound
    <2>2. WireIsOfSent'
      BY <1>2, NothingAssumption DEF Send, WireIsOfSent
    <2>3. VerdictCompares'
      BY <1>2 DEF Send, VerdictCompares
    <2> QED
      BY <2>1, <2>2, <2>3
  <1>3. CASE Check
    <2>1. GrantIsBound' /\ WireIsOfSent'
      BY <1>3 DEF Check, GrantIsBound, WireIsOfSent
    <2>2. VerdictCompares'
      BY <1>3 DEF Check, VerdictCompares
    <2> QED
      BY <2>1, <2>2
  <1>4. CASE UNCHANGED vars
    BY <1>4 DEF vars, GrantIsBound, WireIsOfSent, VerdictCompares
  <1> QED
    BY <1>1, <1>2, <1>3, <1>4 DEF Next

LEMMA Inductive == Spec => []IInv
  BY StartsInInv, NextKeepsIInv, PTL DEF Spec

\* What is compared when there is a verdict: the value of the call the grant was issued for,
\* and that of what was on the wire.
LEMMA VerdictIsOfPayloads ==
  ASSUME IInv, verdict # Nothing
  PROVE  /\ granted \in Calls /\ sent \in Calls
         /\ SenderPayload(granted) # Malformed
         /\ SenderPayload(granted) = CanonicalPayload(granted.method, granted.body,
                                                     QueryValuePairs(granted.params))
         /\ verdict = (CanonicalPayload(sent.method, sent.body, WireForm(sent).query)
                        = SenderPayload(granted))
  <1>1. granted \in Calls /\ request_hash = SenderPayload(granted) /\ request_hash # Malformed
    BY DEF IInv, VerdictCompares, GrantIsBound
  <1>2. sent \in Calls /\ http = WireForm(sent)
    BY DEF IInv, VerdictCompares, WireIsOfSent
  <1>3. SenderPayload(granted) = CanonicalPayload(granted.method, granted.body,
                                                  QueryValuePairs(granted.params))
    BY <1>1 DEF SenderPayload
  <1>4. verdict = (Reconstruct(http) = request_hash)
    BY DEF IInv, VerdictCompares
  <1> QED
    BY <1>1, <1>2, <1>3, <1>4, ReconstructsSent

\* Every variable of the exchange keeps its type, and a computed value is never taken for
\* one that has not been computed.
THEOREM ExchangeTypeCorrect == Spec => []TypeOK
  <1>1. IInv => TypeOK
    <2> SUFFICES ASSUME IInv PROVE TypeOK
      OBVIOUS
    <2>1. granted \in Calls \cup {Nothing} /\ (granted = Nothing) = (request_hash = Nothing)
      BY NothingAssumption DEF IInv, GrantIsBound
    <2>2. sent \in Calls \cup {Nothing} /\ (sent = Nothing) = (http = Nothing)
      BY NothingAssumption DEF IInv, WireIsOfSent
    <2>3. verdict \in BOOLEAN \cup {Nothing}
      BY DEF IInv, VerdictCompares
    <2> QED
      BY <2>1, <2>2, <2>3 DEF TypeOK
  <1> QED
    BY <1>1, Inductive, PTL

\* A portable request sent as it was granted is recognised, whatever its parameters are, how
\* many and in which order (capability_grants.py:477-554).
THEOREM GrantedRequestsPass == Spec => []SameRequestRecognised
  <1>1. IInv => SameRequestRecognised
    <2> SUFFICES ASSUME IInv, verdict # Nothing, granted = sent, Portable(granted) PROVE verdict
      BY DEF SameRequestRecognised
    <2>1. WireForm(sent).query = QueryValuePairs(granted.params)
      BY VerdictIsOfPayloads, PortableMeets
    <2> QED
      BY <2>1, VerdictIsOfPayloads
  <1> QED
    BY <1>1, Inductive, PTL

\* A call that passes for a portable one of its method, both with a query or both without,
\* has the same content on the wire: canonicalisation forgets nothing that a handler could
\* see, whatever the parameters of the call that is sent (capability_grants.py:499-532).
THEOREM RecognisedRequestsAreGranted == Spec => []RecognisedIsSameRequest
  <1>1. IInv => RecognisedIsSameRequest
    <2> SUFFICES ASSUME IInv, verdict = TRUE, Portable(granted), granted.method = sent.method,
                        HasQuery(granted) = HasQuery(sent)
                 PROVE  SameContent(granted, sent)
      BY DEF RecognisedIsSameRequest
    <2>1. verdict # Nothing
      BY NothingAssumption
    <2> DEFINE g == WireForm(granted).query
               s == WireForm(sent).query
    <2>2. granted \in Calls /\ sent \in Calls
      BY <2>1, VerdictIsOfPayloads
    <2>3. g \in Seq(WireItems) /\ s \in Seq(WireItems)
      BY <2>2, WireIsOfItems
    <2>4. /\ CanonicalPayload(granted.method, granted.body, g) # Malformed
          /\ CanonicalPayload(granted.method, granted.body, g)
               = CanonicalPayload(granted.method, sent.body, s)
      <3>1. QueryValuePairs(granted.params) = g
        BY <2>2, PortableMeets
      <3> QED
        BY <2>1, <3>1, VerdictIsOfPayloads
    <2>5. (DOMAIN CanonicalQuery(g) = {}) <=> (DOMAIN CanonicalQuery(s) = {})
      <3>1. ASSUME NEW pairs \in Seq(WireItems)
            PROVE  DOMAIN CanonicalQuery(pairs) = {} <=> pairs = <<>>
        <4>1. DOMAIN CanonicalQuery(pairs) = {pairs[i][1] : i \in DOMAIN pairs}
          BY DEF CanonicalQuery
        <4>2. DOMAIN pairs = {} <=> pairs = <<>>
          OBVIOUS
        <4> QED
          BY <4>1, <4>2
      <3>2. (g = <<>>) <=> (s = <<>>)
        BY DEF HasQuery
      <3> HIDE DEF g, s
      <3> QED
        BY <2>3, <3>1, <3>2
    <2>6. granted.body = sent.body /\ CanonicalQuery(g) = CanonicalQuery(s)
      BY <2>4, <2>5, PayloadKeepsContent
    <2>7. \A key : ValuesOf(g, key) = ValuesOf(s, key)
      BY <2>3, <2>6, QueryKeepsValues
    <2> QED
      BY <2>6, <2>7 DEF SameContent
  <1> QED
    BY <1>1, Inductive, PTL

=============================================================================
