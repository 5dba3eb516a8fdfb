------------------------- MODULE MCRequestExchange -------------------------
(***************************************************************************)
(* Instances of RequestExchange: calls with and without a body, with the   *)
(* parameters that the two normalisations could treat differently.         *)
(***************************************************************************)
EXTENDS RequestExchange

a(raw) == <<"a", raw>>
b(raw) == <<"b", raw>>
t(text) == <<"text", text>>

Bytes == <<"bytes", "1">>
Bad   == <<"undecodable", 0>>
OneTwo == <<"list", <<t("1"), t("2")>> >>

\* What Python's str() makes of them.
MCRepr == [raw \in {Bytes, Bad, OneTwo} |->
             IF raw = Bytes THEN "b'1'" ELSE IF raw = Bad THEN "b'?'" ELSE "['1', '2']"]

\* No parameter, one, the same key twice in either order, two keys in either order, a
\* list against repeated keys, an empty list, and typed values that need a text form.
PairParams ==
  { <<>>,
    <<a(t("1"))>>,
    <<a(t("1")), a(t("2"))>>,
    <<a(t("2")), a(t("1"))>>,
    <<a(t("1")), b(<<"bool", TRUE>>)>>,
    <<b(t("true")), a(t("1"))>> }

MappingParams ==
  { <<a(OneTwo)>>,
    <<a(<<"list", <<>> >>)>>,
    <<a(<<"none", 0>>)>>,
    <<b(<<"bool", TRUE>>), a(t("1"))>> }

\* Bytes that decode, the text that they become on the wire, bytes that do not decode.
OddParams == { <<a(Bytes)>>, <<a(t("b'1'"))>>, <<a(Bytes), a(Bad)>>, <<a(OneTwo)>>,
               <<a(t("['1', '2']"))>> }

\* Bodies: none, a string, and the object that a request with a query is wrapped in.
MCBodies ==
  { Null,
    Str("x"),
    Obj([json |-> Str("x"), params |-> Obj([a |-> Str("1")])]) }

CallsWith(form, paramsets) ==
  [method : {"POST"}, body : MCBodies, form : {form}, params : paramsets]
  \cup [method : {"GET", "get"}, body : {Null}, form : {form}, params : paramsets]

PortableCalls ==
  CallsWith("pairs", PairParams) \cup CallsWith("mapping", MappingParams)
  \cup {[method |-> "GET", body |-> Str("x"), form |-> "pairs", params |-> <<>>],
        [method |-> "BAD METHOD", body |-> Null, form |-> "pairs", params |-> <<>>]}

AllCalls == PortableCalls \cup CallsWith("pairs", OddParams)

=============================================================================
