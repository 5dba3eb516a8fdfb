------------------------- MODULE GrantReceiverProofs -------------------------
(***************************************************************************)
(* Theorems about the guarded route, for every number of requests, grants, *)
(* inputs and answers.  The first lemmas are about the operators of        *)
(* GrantVerifier, the rest about the inductive invariant IInv.             *)
(***************************************************************************)
EXTENDS GrantReceiver, WellFoundedInduction, TLAPS

Outcomes == Errors \cup {"ok"}

\* Among checks of which some raise there is one that raises first.
LEMMA FirstExists ==
  ASSUME NEW n \in Nat, NEW outcomes \in [1..n -> Outcomes],
         NEW k \in 1..n, outcomes[k] # "ok"
  PROVE  \E i \in DOMAIN outcomes : IsFirst(i, outcomes)
<1> DEFINE Raising == {i \in 1..n : outcomes[i] # "ok"}
<1>1. Raising \subseteq Nat /\ Raising # {}
  OBVIOUS
<1>2. PICK i \in Raising : \A j \in Raising : <<j, i>> \notin OpToRel(<, Nat)
  BY <1>1, NatLessThanWellFounded, WFMin
<1>3. \A j \in Raising : ~ (j < i)
  BY <1>1, <1>2 DEF OpToRel
<1> QED
  BY <1>3 DEF IsFirst

\* A sequence of checks passes exactly when each of them does, and otherwise raises
\* one of the errors.
LEMMA FirstRaiseDecides ==
  ASSUME NEW n \in Nat, NEW outcomes \in [1..n -> Outcomes]
  PROVE  /\ FirstRaise(outcomes) \in Outcomes
         /\ FirstRaise(outcomes) = "ok" <=> \A i \in 1..n : outcomes[i] = "ok"
<1>1. CASE \A i \in 1..n : outcomes[i] = "ok"
  BY <1>1 DEF FirstRaise, Outcomes
<1>2. CASE \E k \in 1..n : outcomes[k] # "ok"
  <2>1. \E i \in DOMAIN outcomes : IsFirst(i, outcomes)
    BY <1>2, FirstExists
  <2>2. PICK i \in 1..n : /\ IsFirst(i, outcomes)
                          /\ i = CHOOSE j \in DOMAIN outcomes : IsFirst(j, outcomes)
    BY <2>1
  <2>3. FirstRaise(outcomes) = outcomes[i]
    BY <1>2, <2>2 DEF FirstRaise
  <2> QED
    BY <1>2, <2>2, <2>3 DEF IsFirst
<1> QED
  BY <1>1, <1>2

\* FirstRaiseDecides for four checks.
LEMMA FourChecks ==
  ASSUME NEW a \in Outcomes, NEW b \in Outcomes, NEW c \in Outcomes, NEW d \in Outcomes
  PROVE  /\ FirstRaise(<<a, b, c, d>>) \in Outcomes
         /\ FirstRaise(<<a, b, c, d>>) = "ok" =>
              a = "ok" /\ b = "ok" /\ c = "ok" /\ d = "ok"
<1> DEFINE outcomes == <<a, b, c, d>>
<1>1. outcomes \in [1..4 -> Outcomes]
  OBVIOUS
<1>2. (\A q \in 1..4 : outcomes[q] = "ok") => a = "ok" /\ b = "ok" /\ c = "ok" /\ d = "ok"
  OBVIOUS
<1> HIDE DEF outcomes
<1>3. /\ FirstRaise(outcomes) \in Outcomes
      /\ FirstRaise(outcomes) = "ok" => \A q \in 1..4 : outcomes[q] = "ok"
  BY <1>1, FirstRaiseDecides
<1> QED
  BY <1>2, <1>3 DEF outcomes

\* What verify returns, and what holds of the token when it does not raise.
LEMMA VerifyDecides ==
  ASSUME NEW token, NEW payload, NEW transport, NEW headers, NEW now
  PROVE  LET claims == token.claims
         IN  /\ verify(token, payload, transport, headers, now) \in Outcomes
             /\ verify(token, payload, transport, headers, now) = "ok" =>
                  /\ token.signed_by = Verifier.public_key
                  /\ claims.own_hash
                  /\ claims.issuer = Verifier.issuer
                  /\ claims.key_id = Verifier.key_id
                  /\ claims.audience = Verifier.audience
                  /\ IsFinite(now)
                  /\ ~ Less(now, claims.not_before)
                  /\ ~ AtLeast(now, claims.expires_at)
                  /\ claims.request_hash = payload
                  /\ claims.transport = transport
                  /\ BoundHeadersMatch(claims, headers)
<1> DEFINE claims == token.claims
           a == Require(token.compact, "format")
           b == Require(token.signed_by = Verifier.public_key, "denied")
           c == Require(token.schema, "format")
           d == Require(claims.own_hash, "denied")
           e == Require(claims.issuer = Verifier.issuer, "denied")
           f == Require(claims.key_id = Verifier.key_id, "denied")
           g == Require(claims.audience = Verifier.audience, "denied")
           h == Require(/\ ~ Less(claims.not_before, claims.issued_at)
                        /\ ~ AtLeast(claims.not_before, claims.expires_at), "format")
           i == Require(IsFinite(now), "format")
           j == Require(~ Less(now, claims.not_before), "denied")
           k == Require(~ AtLeast(now, claims.expires_at), "denied")
           l == Require(claims.request_hash = payload, "denied")
           m == Require(claims.transport = transport, "denied")
           n == Require(BoundHeadersMatch(claims, headers), "denied")
<1>1. /\ a \in Outcomes /\ b \in Outcomes /\ c \in Outcomes /\ d \in Outcomes
      /\ e \in Outcomes /\ f \in Outcomes /\ g \in Outcomes /\ h \in Outcomes
      /\ i \in Outcomes /\ j \in Outcomes /\ k \in Outcomes /\ l \in Outcomes
      /\ m \in Outcomes /\ n \in Outcomes
  BY DEF Require, Outcomes, Errors
<1>2. verify(token, payload, transport, headers, now) =
        FirstRaise(<<a, b, c, d, e, f, g, h, i, j, k, l, m, n>>)
  BY DEF verify
<1>3. /\ b = "ok" => token.signed_by = Verifier.public_key
      /\ d = "ok" => claims.own_hash
      /\ e = "ok" => claims.issuer = Verifier.issuer
      /\ f = "ok" => claims.key_id = Verifier.key_id
      /\ g = "ok" => claims.audience = Verifier.audience
      /\ i = "ok" => IsFinite(now)
      /\ j = "ok" => ~ Less(now, claims.not_before)
      /\ k = "ok" => ~ AtLeast(now, claims.expires_at)
      /\ l = "ok" => claims.request_hash = payload
      /\ m = "ok" => claims.transport = transport
      /\ n = "ok" => BoundHeadersMatch(claims, headers)
  BY DEF Require
<1> HIDE DEF a, b, c, d, e, f, g, h, i, j, k, l, m, n
<1> DEFINE outcomes == <<a, b, c, d, e, f, g, h, i, j, k, l, m, n>>
<1>4. outcomes \in [1..14 -> Outcomes]
  BY <1>1
<1>5. (\A q \in 1..14 : outcomes[q] = "ok") =>
        /\ b = "ok" /\ d = "ok" /\ e = "ok" /\ f = "ok" /\ g = "ok"
        /\ i = "ok" /\ j = "ok" /\ k = "ok" /\ l = "ok" /\ m = "ok" /\ n = "ok"
  OBVIOUS
<1> HIDE DEF outcomes
<1>6. /\ FirstRaise(outcomes) \in Outcomes
      /\ FirstRaise(outcomes) = "ok" => \A q \in 1..14 : outcomes[q] = "ok"
  BY <1>4, FirstRaiseDecides
<1> QED
  BY <1>2, <1>3, <1>5, <1>6 DEF outcomes

\* The same of the whole block of local checks.
LEMMA AuthorizationDecides ==
  ASSUME NEW request, NEW required_snapshot, NEW now, NEW reading \in AuthReadings
  PROVE  LET outcome == Authorization(request, required_snapshot, now, reading)
             claims  == request.token.claims
         IN  /\ outcome \in Outcomes
             /\ outcome = "ok" =>
                  /\ verify(request.token, Reconstruct(request.http),
                            ExpectedTransport(request), request.headers, now) = "ok"
                  /\ RequiredClaimsHold(claims, required_snapshot)
                  /\ AuthHeaders(reading) = "ok"
<1> DEFINE claims == request.token.claims
           a == RawPathOutcome(request.raw_path)
           b == verify(request.token, Reconstruct(request.http),
                       ExpectedTransport(request), request.headers, now)
           c == Require(RequiredClaimsHold(claims, required_snapshot), "denied")
           d == AuthHeaders(reading)
<1>1. a \in Outcomes /\ c \in Outcomes /\ d \in Outcomes
  BY DEF RawPathOutcome, Require, AuthReadings, AuthHeaders, Outcomes, Errors
<1>2. b \in Outcomes
  BY VerifyDecides
<1>3. Authorization(request, required_snapshot, now, reading) =
        IF Reconstruct(request.http) = Malformed THEN "format"
        ELSE IF Reconstruct(request.http) = Crashed THEN "error"
        ELSE FirstRaise(<<a, b, c, d>>)
  BY DEF Authorization
<1>4. /\ c = "ok" => RequiredClaimsHold(claims, required_snapshot)
      /\ d = "ok" => AuthHeaders(reading) = "ok"
  BY DEF Require
<1>5. "format" \in Outcomes /\ "error" \in Outcomes
  BY DEF Outcomes, Errors
<1> HIDE DEF a, c, d
<1> QED
  BY <1>1, <1>2, <1>3, <1>4, <1>5, FourChecks

\* Only an acknowledgement of this very grant makes the redeemer return True.
LEMMA TrueIsAcknowledged ==
  ASSUME NEW grant_id, NEW a \in Answers
  PROVE  /\ RedeemResult(grant_id, a) \in RedeemResults
         /\ RedeemResult(grant_id, a) = "True" => Acknowledges(grant_id, a)
  BY AnswersAssumption
  DEF RedeemResult, HttpRedeemResult, RedeemResults, Acknowledges

\* Of the HTTP answers that the redeemer returns False for, those that speak of the grant
\* refuse it.
LEMMA DeniedIsRefused ==
  ASSUME NEW grant_id, NEW a \in Answers, a.kind = "http", ~ SpeaksOfSomethingElse(a),
         RedeemResult(grant_id, a) # "Raised"
  PROVE  Refuses(a)
  BY DEF RedeemResult, HttpRedeemResult, Refuses, SpeaksOfSomethingElse

-----------------------------------------------------------------------------
LEMMA InitIInv == Init => IInv
<1> SUFFICES ASSUME Init PROVE IInv
  OBVIOUS
<1>1. \A r \in Requests : Grant(r) \in Grants
  BY GrantsAssumption DEF Init, Grant
<1>2. TypeOK
  BY DEF Init, TypeOK, Stages, Exchanges
<1>3. \A r \in Requests : /\ pc[r] = "received" /\ status[r] = 0 /\ wire[r] = Idle
                          /\ ledger[Grant(r)] = Unspent /\ ledger[Grant(r)] # r
  BY <1>1, LedgerAssumption DEF Init
<1>4. ran = {}
  BY DEF Init
<1> QED
  BY <1>2, <1>3, <1>4
  DEF IInv, AcknowledgedIsSpent, RefusedIsGone, RunsOnItsOwnRedemption, RanIsAnswered,
      OpenHasNoStatus, BodyHasSingleHeaders, NothingSentYet, SentIsEntitled,
      SpentGrantsAreExact, Idle

\* No step changes what a request carries, its grant, or what entitles it.
LEMMA Constant ==
  ASSUME TypeOK, [Next]_vars
  PROVE  /\ input' = input
         /\ \A r \in Requests : /\ Grant(r) \in Grants /\ Grant(r)' = Grant(r)
                                /\ Entitled(r)' = Entitled(r)
<1>1. input' = input /\ snapshot' = snapshot
  BY DEF Next, vars, Receiver, Authority, Environment, CheckHeaders, BodyArrives,
         Authorize, ReceiveAnswer, RedeemFails, RunHandler, RouteRejects, Abandon,
         Redeem, Refuse, FailToAnswer, LoseMessage, Retire, SetClock, MutateRequired
<1>2. \A r \in Requests : Grant(r) \in Grants
  BY GrantsAssumption DEF TypeOK, Grant
<1> QED
  BY <1>1, <1>2 DEF Grant, Entitled, CarriesRequired

\* A request that passes the local checks is entitled to redeem its grant, and its grant
\* is valid at that moment.
LEMMA AuthorizedIsEntitled ==
  ASSUME TypeOK, BodyHasSingleHeaders,
         NEW r \in Requests, pc[r] = "body",
         NEW now \in {clock} \cup BadReadings, NEW reading \in AuthReadings,
         Authorization(input[r], snapshot, now, reading) = "ok"
  PROVE  /\ Entitled(r)
         /\ input[r].token.claims.not_before <= clock
         /\ clock < input[r].token.claims.expires_at
<1> DEFINE in == input[r]
           claims == in.token.claims
<1>1. /\ verify(in.token, Reconstruct(in.http), ExpectedTransport(in),
                in.headers, now) = "ok"
      /\ RequiredClaimsHold(claims, snapshot)
  BY AuthorizationDecides
<1>2. /\ in.token.signed_by = Verifier.public_key
      /\ claims.own_hash
      /\ claims.issuer = Verifier.issuer
      /\ claims.key_id = Verifier.key_id
      /\ claims.audience = Verifier.audience
      /\ IsFinite(now)
      /\ ~ Less(now, claims.not_before)
      /\ ~ AtLeast(now, claims.expires_at)
      /\ claims.request_hash = Reconstruct(in.http)
      /\ claims.transport = ExpectedTransport(in)
      /\ BoundHeadersMatch(claims, in.headers)
  BY <1>1, VerifyDecides
<1>3. /\ claims.transport.profile = RouteProfile
      /\ claims.transport.method = Upper[in.http.method]
      /\ claims.transport.path = in.raw_path
  BY <1>2 DEF ExpectedTransport
<1>4. \A name \in BoundHeaders :
         in.copies[name] = 1 /\ in.headers[name] = claims[name]
  BY <1>2 DEF BodyHasSingleHeaders, SingleHeaders, GrantHeaders, BoundHeadersMatch
<1>5. Entitled(r)
  BY <1>1, <1>2, <1>3, <1>4 DEF Entitled, Exact, CarriesRequired, RequiredClaimsHold
<1>6. in \in Inputs
  BY DEF TypeOK
<1>7. now = clock /\ clock \in Nat /\ clock # NaN
  BY <1>2, ReadingAssumption DEF TypeOK, IsFinite
<1>8. claims.not_before \in Nat /\ claims.expires_at \in Nat
  BY <1>6, ReadingAssumption
<1>9. claims.not_before <= clock /\ clock < claims.expires_at
  BY <1>2, <1>7, <1>8, ReadingAssumption DEF Less, AtLeast
<1> QED
  BY <1>5, <1>9

-----------------------------------------------------------------------------
\* The headers are checked: only the stage and the status of r change.
LEMMA CheckHeadersStep ==
  ASSUME IInv, [Next]_vars, NEW r \in Requests, CheckHeaders(r)
  PROVE  IInv'
<1>1. TypeOK'
  BY DEF CheckHeaders, RefuseLocally, IInv, TypeOK, Stages, Exchanges, Idle, Posted, Lost, Back
<1>2. /\ AcknowledgedIsSpent' /\ RefusedIsGone'
      /\ RunsOnItsOwnRedemption' /\ RanIsAnswered'
  BY Constant, LedgerAssumption
  DEF CheckHeaders, RefuseLocally, IInv, TypeOK, AcknowledgedIsSpent, RefusedIsGone,
      RunsOnItsOwnRedemption, RanIsAnswered, Ended, Idle, Posted, Lost, Back
<1>3. /\ OpenHasNoStatus' /\ BodyHasSingleHeaders' /\ NothingSentYet'
      /\ SentIsEntitled' /\ SpentGrantsAreExact'
  BY Constant, LedgerAssumption
  DEF CheckHeaders, RefuseLocally, IInv, TypeOK, OpenHasNoStatus, BodyHasSingleHeaders, NothingSentYet,
      SentIsEntitled, SpentGrantsAreExact, Ended, Idle, Posted, Lost, Back
<1> QED
  BY <1>1, <1>2, <1>3 DEF IInv

\* The body is there: what is sent off is entitled, what is refused sends nothing.
LEMMA BodyArrivesStep ==
  ASSUME IInv, [Next]_vars, NEW r \in Requests, BodyArrives(r)
  PROVE  IInv'
<1>1. PICK now \in {clock} \cup BadReadings, reading \in AuthReadings :
           Authorize(r, now, reading)
  BY DEF BodyArrives
<1> DEFINE outcome == Authorization(input[r], snapshot, now, reading)
<1>2. outcome \in Outcomes
  BY AuthorizationDecides
<1>3. CASE outcome = "ok"
  <2>1. /\ pc[r] = "body" /\ pc' = [pc EXCEPT ![r] = "redeeming"]
        /\ wire' = [wire EXCEPT ![r] = Posted]
        /\ UNCHANGED <<input, status, required, snapshot, clock, ledger, ran>>
    BY <1>1, <1>3 DEF Authorize
  <2>2. Entitled(r)
    BY <1>3, <2>1, AuthorizedIsEntitled DEF IInv
  <2>3. TypeOK'
    BY <2>1 DEF IInv, TypeOK, Stages, Exchanges
  <2>4. /\ AcknowledgedIsSpent' /\ RefusedIsGone'
        /\ RunsOnItsOwnRedemption' /\ RanIsAnswered'
    BY <2>1, Constant
    DEF IInv, TypeOK, AcknowledgedIsSpent, RefusedIsGone, RunsOnItsOwnRedemption,
        RanIsAnswered, Posted
  <2>5. /\ OpenHasNoStatus' /\ BodyHasSingleHeaders' /\ NothingSentYet'
        /\ SentIsEntitled' /\ SpentGrantsAreExact'
    BY <2>1, <2>2, Constant
    DEF IInv, TypeOK, OpenHasNoStatus, BodyHasSingleHeaders, NothingSentYet,
        SentIsEntitled, SpentGrantsAreExact, Ended
  <2> QED
    BY <2>3, <2>4, <2>5 DEF IInv
<1>4. CASE outcome # "ok"
  <2>1. /\ pc[r] = "body" /\ RefuseLocally(r, StatusOf[outcome])
        /\ UNCHANGED <<input, required, snapshot, clock, wire, ledger, ran>>
    BY <1>1, <1>4 DEF Authorize
  <2>2. StatusOf[outcome] \in {400, 403, 500}
    BY <1>2, <1>4 DEF Outcomes, Errors, StatusOf
  <2>3. TypeOK'
    BY <2>1, <2>2 DEF RefuseLocally, IInv, TypeOK, Stages
  <2>4. /\ AcknowledgedIsSpent' /\ RefusedIsGone'
        /\ RunsOnItsOwnRedemption' /\ RanIsAnswered'
    BY <2>1, Constant
    DEF RefuseLocally, IInv, TypeOK, AcknowledgedIsSpent, RefusedIsGone,
        RunsOnItsOwnRedemption, RanIsAnswered
  <2>5. /\ OpenHasNoStatus' /\ BodyHasSingleHeaders' /\ NothingSentYet'
        /\ SentIsEntitled' /\ SpentGrantsAreExact'
    BY <2>1, Constant
    DEF RefuseLocally, IInv, TypeOK, OpenHasNoStatus, BodyHasSingleHeaders, NothingSentYet,
        SentIsEntitled, SpentGrantsAreExact, Ended
  <2> QED
    BY <2>3, <2>4, <2>5 DEF IInv
<1> QED
  BY <1>3, <1>4

\* An answer of the authority is taken: the request goes on only if the ledger has it.
LEMMA ReceiveAnswerStep ==
  ASSUME IInv, [Next]_vars, NEW r \in Requests, ReceiveAnswer(r)
  PROVE  IInv'
<1> DEFINE result == RedeemResult(Grant(r), wire[r].answer)
<1>1. wire[r].answer \in Answers
  BY DEF ReceiveAnswer, IInv, TypeOK, Exchanges, Idle, Posted, Lost, Back
<1>2. /\ result \in RedeemResults
      /\ result = "True" => ledger[Grant(r)] = r
  BY <1>1, TrueIsAcknowledged DEF ReceiveAnswer, IInv, AcknowledgedIsSpent
<1>3. /\ pc[r] = "redeeming" /\ status[r] = 0
      /\ wire' = [wire EXCEPT ![r] = Idle]
      /\ UNCHANGED <<input, required, snapshot, clock, ledger, ran>>
      /\ \/ /\ result = "True" /\ pc' = [pc EXCEPT ![r] = "granted"]
            /\ UNCHANGED status
         \/ /\ pc' = [pc EXCEPT ![r] = "answered"]
            /\ \E code \in {403, 503} : status' = [status EXCEPT ![r] = code]
  BY <1>2 DEF ReceiveAnswer, Answer, RedeemResults, RedeemStatus, IInv, OpenHasNoStatus, Ended
<1> HIDE DEF result
<1>4. TypeOK'
  BY <1>3 DEF IInv, TypeOK, Stages, Exchanges
<1>5. /\ AcknowledgedIsSpent' /\ RefusedIsGone'
      /\ RunsOnItsOwnRedemption' /\ RanIsAnswered'
  BY <1>2, <1>3, Constant
  DEF IInv, TypeOK, AcknowledgedIsSpent, RefusedIsGone, RunsOnItsOwnRedemption,
      RanIsAnswered, Idle
<1>6. /\ OpenHasNoStatus' /\ BodyHasSingleHeaders' /\ NothingSentYet'
      /\ SentIsEntitled' /\ SpentGrantsAreExact'
  BY <1>3, Constant
  DEF IInv, TypeOK, OpenHasNoStatus, BodyHasSingleHeaders, NothingSentYet,
      SentIsEntitled, SpentGrantsAreExact, Ended
<1> QED
  BY <1>4, <1>5, <1>6 DEF IInv

\* The await fails: r is answered, what is on the wire stays there.
LEMMA RedeemFailsStep ==
  ASSUME IInv, [Next]_vars, NEW r \in Requests, RedeemFails(r)
  PROVE  IInv'
<1>1. TypeOK'
  BY DEF RedeemFails, Answer, RedeemStatus, IInv, TypeOK, Stages, Exchanges, Idle, Posted, Lost, Back
<1>2. /\ AcknowledgedIsSpent' /\ RefusedIsGone'
      /\ RunsOnItsOwnRedemption' /\ RanIsAnswered'
  BY Constant, LedgerAssumption
  DEF RedeemFails, Answer, RedeemStatus, IInv, TypeOK, AcknowledgedIsSpent, RefusedIsGone,
      RunsOnItsOwnRedemption, RanIsAnswered, Ended, Idle, Posted, Lost, Back
<1>3. /\ OpenHasNoStatus' /\ BodyHasSingleHeaders' /\ NothingSentYet'
      /\ SentIsEntitled' /\ SpentGrantsAreExact'
  BY Constant, LedgerAssumption
  DEF RedeemFails, Answer, RedeemStatus, IInv, TypeOK, OpenHasNoStatus, BodyHasSingleHeaders, NothingSentYet,
      SentIsEntitled, SpentGrantsAreExact, Ended, Idle, Posted, Lost, Back
<1> QED
  BY <1>1, <1>2, <1>3 DEF IInv

\* The handler of a granted request runs.
LEMMA RunHandlerStep ==
  ASSUME IInv, [Next]_vars, NEW r \in Requests, RunHandler(r)
  PROVE  IInv'
<1>1. TypeOK'
  BY DEF RunHandler, Answer, IInv, TypeOK, Stages, Exchanges, Idle, Posted, Lost, Back
<1>2. /\ AcknowledgedIsSpent' /\ RefusedIsGone'
      /\ RunsOnItsOwnRedemption' /\ RanIsAnswered'
  BY Constant, LedgerAssumption
  DEF RunHandler, Answer, IInv, TypeOK, AcknowledgedIsSpent, RefusedIsGone,
      RunsOnItsOwnRedemption, RanIsAnswered, Ended, Idle, Posted, Lost, Back
<1>3. /\ OpenHasNoStatus' /\ BodyHasSingleHeaders' /\ NothingSentYet'
      /\ SentIsEntitled' /\ SpentGrantsAreExact'
  BY Constant, LedgerAssumption
  DEF RunHandler, Answer, IInv, TypeOK, OpenHasNoStatus, BodyHasSingleHeaders, NothingSentYet,
      SentIsEntitled, SpentGrantsAreExact, Ended, Idle, Posted, Lost, Back
<1> QED
  BY <1>1, <1>2, <1>3 DEF IInv

\* The route rejects a granted request.
LEMMA RouteRejectsStep ==
  ASSUME IInv, [Next]_vars, NEW r \in Requests, RouteRejects(r)
  PROVE  IInv'
<1>1. TypeOK'
  BY DEF RouteRejects, Answer, IInv, TypeOK, Stages, Exchanges, Idle, Posted, Lost, Back
<1>2. /\ AcknowledgedIsSpent' /\ RefusedIsGone'
      /\ RunsOnItsOwnRedemption' /\ RanIsAnswered'
  BY Constant, LedgerAssumption
  DEF RouteRejects, Answer, IInv, TypeOK, AcknowledgedIsSpent, RefusedIsGone,
      RunsOnItsOwnRedemption, RanIsAnswered, Ended, Idle, Posted, Lost, Back
<1>3. /\ OpenHasNoStatus' /\ BodyHasSingleHeaders' /\ NothingSentYet'
      /\ SentIsEntitled' /\ SpentGrantsAreExact'
  BY Constant, LedgerAssumption
  DEF RouteRejects, Answer, IInv, TypeOK, OpenHasNoStatus, BodyHasSingleHeaders, NothingSentYet,
      SentIsEntitled, SpentGrantsAreExact, Ended, Idle, Posted, Lost, Back
<1> QED
  BY <1>1, <1>2, <1>3 DEF IInv

\* A request is given up; it has not run, for what ran is answered.
LEMMA AbandonStep ==
  ASSUME IInv, [Next]_vars, NEW r \in Requests, Abandon(r)
  PROVE  IInv'
<1>1. TypeOK'
  BY DEF Abandon, IInv, TypeOK, Stages, Exchanges, Idle, Posted, Lost, Back
<1>2. /\ AcknowledgedIsSpent' /\ RefusedIsGone'
      /\ RunsOnItsOwnRedemption' /\ RanIsAnswered'
  BY Constant, LedgerAssumption
  DEF Abandon, IInv, TypeOK, AcknowledgedIsSpent, RefusedIsGone,
      RunsOnItsOwnRedemption, RanIsAnswered, Ended, Idle, Posted, Lost, Back
<1>3. /\ OpenHasNoStatus' /\ BodyHasSingleHeaders' /\ NothingSentYet'
      /\ SentIsEntitled' /\ SpentGrantsAreExact'
  BY Constant, LedgerAssumption
  DEF Abandon, IInv, TypeOK, OpenHasNoStatus, BodyHasSingleHeaders, NothingSentYet,
      SentIsEntitled, SpentGrantsAreExact, Ended, Idle, Posted, Lost, Back
<1> QED
  BY <1>1, <1>2, <1>3 DEF IInv

\* The authority spends a grant, which no other request held before.
LEMMA RedeemStep ==
  ASSUME IInv, [Next]_vars, NEW r \in Requests, NEW a \in Answers, Redeem(r, a)
  PROVE  IInv'
<1>1. TypeOK'
  BY Constant, LedgerAssumption DEF Redeem, IInv, TypeOK, Stages, Exchanges, Idle, Posted, Lost, Back
<1>2. /\ AcknowledgedIsSpent' /\ RefusedIsGone'
      /\ RunsOnItsOwnRedemption' /\ RanIsAnswered'
  BY Constant, LedgerAssumption
  DEF Redeem, IInv, TypeOK, AcknowledgedIsSpent, RefusedIsGone,
      RunsOnItsOwnRedemption, RanIsAnswered, Ended, Idle, Posted, Lost, Back
<1>3. /\ OpenHasNoStatus' /\ BodyHasSingleHeaders' /\ NothingSentYet'
      /\ SentIsEntitled' /\ SpentGrantsAreExact'
  BY Constant, LedgerAssumption
  DEF Redeem, IInv, TypeOK, OpenHasNoStatus, BodyHasSingleHeaders, NothingSentYet,
      SentIsEntitled, SpentGrantsAreExact, Ended, Idle, Posted, Lost, Back
<1> QED
  BY <1>1, <1>2, <1>3 DEF IInv

LEMMA RefusalIsNoAcknowledgement ==
  ASSUME NEW grant_id, NEW a \in Answers, Refuses(a)
  PROVE  ~ Acknowledges(grant_id, a)
  BY AnswersAssumption DEF Refuses, Acknowledges

\* The authority refuses a grant; a refusal is no acknowledgement.
LEMMA RefuseStep ==
  ASSUME IInv, [Next]_vars, NEW r \in Requests, NEW a \in Answers, Refuse(r, a)
  PROVE  IInv'
<1>1. TypeOK'
  BY DEF Refuse, IInv, TypeOK, Stages, Exchanges, Idle, Posted, Lost, Back
<1>2. /\ AcknowledgedIsSpent' /\ RefusedIsGone'
      /\ RunsOnItsOwnRedemption' /\ RanIsAnswered'
  BY Constant, LedgerAssumption, RefusalIsNoAcknowledgement
  DEF Refuse, IInv, TypeOK, AcknowledgedIsSpent, RefusedIsGone,
      RunsOnItsOwnRedemption, RanIsAnswered, Ended, Idle, Posted, Lost, Back
<1>3. /\ OpenHasNoStatus' /\ BodyHasSingleHeaders' /\ NothingSentYet'
      /\ SentIsEntitled' /\ SpentGrantsAreExact'
  BY Constant, LedgerAssumption
  DEF Refuse, IInv, TypeOK, OpenHasNoStatus, BodyHasSingleHeaders, NothingSentYet,
      SentIsEntitled, SpentGrantsAreExact, Ended, Idle, Posted, Lost, Back
<1> QED
  BY <1>1, <1>2, <1>3 DEF IInv

\* The authority answers neither way.
LEMMA FailToAnswerStep ==
  ASSUME IInv, [Next]_vars, NEW r \in Requests, NEW a \in Answers, FailToAnswer(r, a)
  PROVE  IInv'
<1>1. TypeOK'
  BY DEF FailToAnswer, IInv, TypeOK, Stages, Exchanges, Idle, Posted, Lost, Back
<1>2. /\ AcknowledgedIsSpent' /\ RefusedIsGone'
      /\ RunsOnItsOwnRedemption' /\ RanIsAnswered'
  BY Constant, LedgerAssumption
  DEF FailToAnswer, IInv, TypeOK, AcknowledgedIsSpent, RefusedIsGone,
      RunsOnItsOwnRedemption, RanIsAnswered, Ended, Idle, Posted, Lost, Back
<1>3. /\ OpenHasNoStatus' /\ BodyHasSingleHeaders' /\ NothingSentYet'
      /\ SentIsEntitled' /\ SpentGrantsAreExact'
  BY Constant, LedgerAssumption
  DEF FailToAnswer, IInv, TypeOK, OpenHasNoStatus, BodyHasSingleHeaders, NothingSentYet,
      SentIsEntitled, SpentGrantsAreExact, Ended, Idle, Posted, Lost, Back
<1> QED
  BY <1>1, <1>2, <1>3 DEF IInv

\* A message is lost.
LEMMA LoseMessageStep ==
  ASSUME IInv, [Next]_vars, NEW r \in Requests, LoseMessage(r)
  PROVE  IInv'
<1>1. TypeOK'
  BY DEF LoseMessage, IInv, TypeOK, Stages, Exchanges, Idle, Posted, Lost, Back
<1>2. /\ AcknowledgedIsSpent' /\ RefusedIsGone'
      /\ RunsOnItsOwnRedemption' /\ RanIsAnswered'
  BY Constant, LedgerAssumption
  DEF LoseMessage, IInv, TypeOK, AcknowledgedIsSpent, RefusedIsGone,
      RunsOnItsOwnRedemption, RanIsAnswered, Ended, Idle, Posted, Lost, Back
<1>3. /\ OpenHasNoStatus' /\ BodyHasSingleHeaders' /\ NothingSentYet'
      /\ SentIsEntitled' /\ SpentGrantsAreExact'
  BY Constant, LedgerAssumption
  DEF LoseMessage, IInv, TypeOK, OpenHasNoStatus, BodyHasSingleHeaders, NothingSentYet,
      SentIsEntitled, SpentGrantsAreExact, Ended, Idle, Posted, Lost, Back
<1> QED
  BY <1>1, <1>2, <1>3 DEF IInv

\* The authority retires a grant no request holds.
LEMMA RetireStep ==
  ASSUME IInv, [Next]_vars, NEW g \in Grants, Retire(g)
  PROVE  IInv'
<1>1. TypeOK'
  BY DEF Retire, IInv, TypeOK, Stages, Exchanges, Idle, Posted, Lost, Back
<1>2. /\ AcknowledgedIsSpent' /\ RefusedIsGone'
      /\ RunsOnItsOwnRedemption' /\ RanIsAnswered'
  BY Constant, LedgerAssumption
  DEF Retire, IInv, TypeOK, AcknowledgedIsSpent, RefusedIsGone,
      RunsOnItsOwnRedemption, RanIsAnswered, Ended, Idle, Posted, Lost, Back
<1>3. /\ OpenHasNoStatus' /\ BodyHasSingleHeaders' /\ NothingSentYet'
      /\ SentIsEntitled' /\ SpentGrantsAreExact'
  BY Constant, LedgerAssumption
  DEF Retire, IInv, TypeOK, OpenHasNoStatus, BodyHasSingleHeaders, NothingSentYet,
      SentIsEntitled, SpentGrantsAreExact, Ended, Idle, Posted, Lost, Back
<1> QED
  BY <1>1, <1>2, <1>3 DEF IInv

\* Time and the route's program disturb nothing.
LEMMA WorldStep ==
  ASSUME IInv, [Next]_vars,
         \/ \E time \in Times : SetClock(time)
         \/ \E value \in RequiredValues : MutateRequired(value)
         \/ UNCHANGED vars
  PROVE  IInv'
<1>1. UNCHANGED <<pc, status, wire, ledger, ran>>
  BY DEF SetClock, MutateRequired, vars
<1>2. TypeOK'
  BY <1>1 DEF SetClock, MutateRequired, vars, IInv, TypeOK
<1> QED
  BY <1>1, <1>2, Constant
  DEF IInv, AcknowledgedIsSpent, RefusedIsGone, RunsOnItsOwnRedemption, RanIsAnswered,
      OpenHasNoStatus, BodyHasSingleHeaders, NothingSentYet, SentIsEntitled,
      SpentGrantsAreExact, TypeOK

LEMMA NextIInv == IInv /\ [Next]_vars => IInv'
<1> SUFFICES ASSUME IInv, [Next]_vars PROVE IInv'
  OBVIOUS
<1>1. ASSUME NEW r \in Requests, Receiver(r) PROVE IInv'
  BY <1>1, CheckHeadersStep, BodyArrivesStep, ReceiveAnswerStep, RedeemFailsStep,
     RunHandlerStep, RouteRejectsStep, AbandonStep DEF Receiver
<1>2. ASSUME NEW r \in Requests, Authority(r) PROVE IInv'
  BY <1>2, RedeemStep, RefuseStep, FailToAnswerStep, LoseMessageStep DEF Authority
<1>3. ASSUME Environment \/ UNCHANGED vars PROVE IInv'
  BY <1>3, RetireStep, WorldStep DEF Environment
<1> QED
  BY <1>1, <1>2, <1>3 DEF Next

LEMMA Inductive == Spec => []IInv
  BY InitIInv, NextIInv, PTL DEF Spec

-----------------------------------------------------------------------------
\* Every variable has its type in every reachable state.
THEOREM TypeCorrect == Spec => []TypeOK
<1>1. IInv => TypeOK
  BY DEF IInv
<1> QED
  BY <1>1, Inductive, PTL

\* A handler runs only on a redemption of its own request: capability_grant_dependency
\* lets a request through only on the authority's acknowledgement of its grant.
THEOREM HandlersRunOnTheirOwnRedemption == Spec => []RunsOnItsOwnRedemption
<1>1. IInv => RunsOnItsOwnRedemption
  BY DEF IInv
<1> QED
  BY <1>1, Inductive, PTL

\* A grant is only ever spent on a request whose canonical value, method, path, profile and
\* bound headers are those the trusted issuer signed, with the claims the route required when
\* it was built (verify and _verify_required_claims).
THEOREM GrantsAreSpentExactly == Spec => []SpentGrantsAreExact
<1>1. IInv => SpentGrantsAreExact
  BY DEF IInv
<1> QED
  BY <1>1, Inductive, PTL

\* A request that the receiver refuses before it calls the redeemer, with a 400, 401, 403 or
\* 500, costs no grant, then or later.
THEOREM LocalRefusalsAreFree == Spec => []LocalRefusalSpendsNothing
<1>1. IInv => LocalRefusalSpendsNothing
  BY DEF IInv, NothingSentYet, LocalRefusalSpendsNothing
<1> QED
  BY <1>1, Inductive, PTL

-----------------------------------------------------------------------------
\* A redemption is sent only while its grant is valid by the true time.
THEOREM RedemptionsAreTimely == Spec => RedeemOnlyWhileValid
<1> DEFINE Timely == \A r \in Requests :
                        (wire[r] = Idle /\ wire'[r] = Posted) =>
                           /\ input[r].token.claims.not_before <= clock
                           /\ clock < input[r].token.claims.expires_at
<1>1. IInv /\ [Next]_vars => [Timely]_vars
  <2> SUFFICES ASSUME IInv, Next, NEW r \in Requests, wire[r] = Idle, wire'[r] = Posted
               PROVE  /\ input[r].token.claims.not_before <= clock
                      /\ clock < input[r].token.claims.expires_at
    BY DEF vars
  <2>1. BodyArrives(r)
    BY DEF IInv, TypeOK, Idle, Posted, Lost, Back, Next, Receiver, Authority, Environment,
           CheckHeaders, BodyArrives, Authorize, ReceiveAnswer, RedeemFails, RunHandler,
           RouteRejects, Abandon, Redeem, Refuse, FailToAnswer, LoseMessage, Retire,
           SetClock, MutateRequired
  <2>2. PICK now \in {clock} \cup BadReadings, reading \in AuthReadings :
             Authorize(r, now, reading)
    BY <2>1 DEF BodyArrives
  <2>3. Authorization(input[r], snapshot, now, reading) = "ok" /\ pc[r] = "body"
    BY <2>2 DEF Authorize, Idle, Posted
  <2> QED
    BY <2>3, AuthorizedIsEntitled DEF IInv
<1> QED
  BY <1>1, Inductive, PTL DEF Spec, RedeemOnlyWhileValid

\* A request that gets a 403 while it awaits the redeemer gets it on an answer that came
\* back and that the redeemer did not raise for.
LEMMA RefusedOnAnAnswer ==
  ASSUME IInv, [Next]_vars, NEW r \in Requests, pc[r] = "redeeming", status'[r] = 403
  PROVE  /\ wire[r].stage = "back" /\ wire[r].answer \in Answers
         /\ RedeemResult(Grant(r), wire[r].answer) # "Raised"
<1>1. status[r] = 0
  BY DEF IInv, OpenHasNoStatus, Ended
<1>2. ReceiveAnswer(r)
  BY <1>1 DEF IInv, TypeOK, Next, vars, Receiver, Authority, Environment, Answer, RefuseLocally,
              RedeemStatus, CheckHeaders, BodyArrives, Authorize, ReceiveAnswer,
              RedeemFails, RunHandler, RouteRejects, Abandon, Redeem, Refuse,
              FailToAnswer, LoseMessage, Retire, SetClock, MutateRequired
<1>3. wire[r].stage = "back" /\ wire[r].answer \in Answers
  BY <1>2 DEF ReceiveAnswer, IInv, TypeOK, Exchanges, Idle, Posted, Lost, Back
<1>4. RedeemResult(Grant(r), wire[r].answer) # "Raised"
  BY <1>1, <1>2 DEF ReceiveAnswer, Answer, RedeemStatus, IInv, TypeOK
<1> QED
  BY <1>3, <1>4

\* A 403 that stands for an HTTP answer about the grant says that the grant is gone: no
\* failure of the authority is told to a client as a denial.
THEOREM DenialsAreFinal == Spec => DenialIsFinal
<1> DEFINE Final == \A r \in Requests :
                       (/\ pc[r] = "redeeming" /\ status'[r] = 403
                        /\ wire[r].answer.kind = "http"
                        /\ ~ SpeaksOfSomethingElse(wire[r].answer)) =>
                           ledger[Grant(r)] # Unspent
<1>1. IInv /\ [Next]_vars => [Final]_vars
  <2> SUFFICES ASSUME IInv, [Next]_vars, NEW r \in Requests,
                      pc[r] = "redeeming", status'[r] = 403,
                      wire[r].answer.kind = "http",
                      ~ SpeaksOfSomethingElse(wire[r].answer)
               PROVE  ledger[Grant(r)] # Unspent
    OBVIOUS
  <2>1. /\ wire[r].stage = "back" /\ wire[r].answer \in Answers
        /\ RedeemResult(Grant(r), wire[r].answer) # "Raised"
    BY RefusedOnAnAnswer
  <2>2. Refuses(wire[r].answer)
    BY <2>1, DeniedIsRefused
  <2> QED
    BY <2>1, <2>2 DEF IInv, RefusedIsGone
<1> QED
  BY <1>1, Inductive, PTL DEF Spec, DenialIsFinal

-----------------------------------------------------------------------------
\* The initial states of the receiver are initial states of SingleUse.
LEMMA InitRefines == Init => SU!Init
  BY DEF Init, SU!Init, Users

\* Every step of it is a step of SingleUse or leaves its variables alone.
LEMMA NextRefines == IInv /\ [Next]_vars => [SU!Next]_(SU!vars)
<1> SUFFICES ASSUME IInv, [Next]_vars PROVE [SU!Next]_(SU!vars)
  OBVIOUS
<1>1. ASSUME NEW r \in Requests, RunHandler(r)
      PROVE  SU!Serve(Grant(r), r)
  <2>1. /\ ledger[Grant(r)] = r /\ r \notin ran /\ ran' = ran \cup {r}
        /\ ledger' = ledger
    BY <1>1 DEF RunHandler, IInv, RunsOnItsOwnRedemption, RanIsAnswered
  <2>2. Users[Grant(r)] = {}
    BY <2>1, Constant DEF Users, IInv, TypeOK, RunsOnItsOwnRedemption
  <2>3. Users' = [Users EXCEPT ![Grant(r)] = {r}]
    <3>1. ran' \subseteq Requests /\ Grant(r) \in Grants
      BY <2>1, Constant DEF IInv, TypeOK
    <3>2. \A g \in Grants : {q \in ran' : Grant(q)' = g} = {q \in ran' : Grant(q) = g}
      BY <3>1, Constant DEF IInv
    <3>3. \A g \in Grants : {q \in ran' : Grant(q) = g} =
             IF g = Grant(r) THEN {q \in ran : Grant(q) = g} \cup {r}
             ELSE {q \in ran : Grant(q) = g}
      BY <2>1
    <3>4. {q \in ran : Grant(q) = Grant(r)} = {}
      BY <2>2, <3>1 DEF Users
    <3>5. Users' = [g \in Grants |-> {q \in ran' : Grant(q)' = g}]
      BY DEF Users
    <3> QED
      BY <3>1, <3>2, <3>3, <3>4, <3>5 DEF Users
  <2> QED
    BY <2>1, <2>2, <2>3 DEF SU!Serve
<1>2. ASSUME NEW r \in Requests, NEW a \in Answers, Redeem(r, a)
      PROVE  SU!Spend(Grant(r), r)
  BY <1>2, Constant DEF Redeem, SU!Spend, Users, IInv, TypeOK
<1>3. ASSUME NEW g \in Grants, Retire(g)
      PROVE  SU!Retire(g)
  BY <1>3, Constant DEF Retire, SU!Retire, Users, IInv, TypeOK
<1>4. ASSUME UNCHANGED <<ledger, ran>>
      PROVE  UNCHANGED SU!vars
  BY <1>4, Constant DEF SU!vars, Users, IInv, TypeOK
<1>5. \/ \E r \in Requests : RunHandler(r)
      \/ \E r \in Requests, a \in Answers : Redeem(r, a)
      \/ \E g \in Grants : Retire(g)
      \/ UNCHANGED <<ledger, ran>>
  BY DEF Next, vars, Receiver, Authority, Environment, CheckHeaders, BodyArrives,
         Authorize, ReceiveAnswer, RedeemFails, RouteRejects, Abandon, Refuse,
         FailToAnswer, LoseMessage, SetClock, MutateRequired
<1> QED
  BY <1>1, <1>2, <1>3, <1>4, <1>5, Constant DEF SU!Next, IInv

\* The route and its authority implement SingleUse: every grant is spent on at most one
\* request, and that request alone is served on it, once.
THEOREM ImplementsSingleUse == Spec => KeepsSingleUse
  BY InitRefines, NextRefines, Inductive, PTL DEF Spec, KeepsSingleUse, SU!Spec

\* No two handlers ever run on one grant, whatever is lost, repeated or answered wrongly
\* on the way (lines 859-869).
THEOREM OneHandlerPerGrant ==
  Spec => [](\A r, q \in ran : Grant(r) = Grant(q) => r = q)
<1>1. IInv => \A r, q \in ran : Grant(r) = Grant(q) => r = q
  BY DEF IInv, TypeOK, RunsOnItsOwnRedemption
<1> QED
  BY <1>1, Inductive, PTL

=============================================================================
