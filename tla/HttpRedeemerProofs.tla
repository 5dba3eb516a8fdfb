-------------------------- MODULE HttpRedeemerProofs --------------------------
(***************************************************************************)
(* The safety properties of HttpRedeemer, for any number of redeemers,     *)
(* clients and redemptions.                                                *)
(***************************************************************************)
EXTENDS HttpRedeemer, TLAPS

\* Nothing is built at the start, and the program's clients are open.
LEMMA StartsInInv == Init => IInv
  <1> SUFFICES ASSUME Init PROVE IInv
    OBVIOUS
  <1>1. Idle \in Redemptions
    BY RedeemerAssumption DEF Idle, Fresh, Redemptions
  <1>2. TypeOK
    BY <1>1 DEF Init, TypeOK, Clients
  <1>3. InjectedStaysOpen /\ EveryOpenClientHasACloser /\ OwnsOrBorrows
    BY DEF Init, InjectedStaysOpen, EveryOpenClientHasACloser, OwnsOrBorrows
  <1> QED
    BY <1>2, <1>3 DEF IInv

\* A construction opens the client it owns, or none (lines 653-654).
LEMMA ConstructStep ==
  ASSUME IInv, NEW d \in Redeemers, NEW s \in Settings,
         NEW injected \in Injected \cup {None}, Construct(d, s, injected)
  PROVE  IInv'
  <1> USE RedeemerAssumption DEF Clients
  <1>1. TypeOK'
    BY DEF IInv, TypeOK, Construct
  <1>2. InjectedStaysOpen'
    BY DEF IInv, InjectedStaysOpen, Construct
  <1>3. EveryOpenClientHasACloser'
    <2> SUFFICES ASSUME NEW k \in open', k \notin Injected
                 PROVE  \E e \in Redeemers : stage'[e] = "built" /\ client'[e] = k
      BY DEF EveryOpenClientHasACloser
    <2>1. CASE k \in open
      <3>1. PICK e \in Redeemers : stage[e] = "built" /\ client[e] = k
        BY <2>1 DEF IInv, EveryOpenClientHasACloser
      <3>2. e # d
        BY <3>1 DEF Construct
      <3> QED
        BY <3>1, <3>2 DEF Construct, IInv, TypeOK
    <2>2. CASE k \notin open
      <3>1. k = d /\ stage'[d] = "built" /\ client'[d] = d
        BY <2>2 DEF Construct, IInv, TypeOK
      <3> QED
        BY <3>1
    <2> QED
      BY <2>1, <2>2
  <1>4. OwnsOrBorrows'
    BY DEF IInv, TypeOK, OwnsOrBorrows, Construct
  <1> QED
    BY <1>1, <1>2, <1>3, <1>4 DEF IInv

\* aclose closes a client only its own redeemer has (lines 699-703).
LEMMA AcloseStep ==
  ASSUME IInv, NEW d \in Redeemers, Aclose(d)
  PROVE  IInv'
  <1> USE RedeemerAssumption DEF Clients
  <1>1. TypeOK'
    BY DEF IInv, TypeOK, Aclose
  <1>2. InjectedStaysOpen'
    BY DEF IInv, InjectedStaysOpen, Aclose, Owns
  <1>3. EveryOpenClientHasACloser'
    <2> SUFFICES ASSUME NEW k \in open', k \notin Injected
                 PROVE  \E e \in Redeemers : stage'[e] = "built" /\ client'[e] = k
      BY DEF EveryOpenClientHasACloser
    <2>1. k \in open
      BY DEF Aclose
    <2>2. PICK e \in Redeemers : stage[e] = "built" /\ client[e] = k
      BY <2>1 DEF IInv, EveryOpenClientHasACloser
    <2>3. e # d
      <3> SUFFICES ASSUME e = d PROVE FALSE
        OBVIOUS
      <3>1. ~ Owns(d)
        BY <2>2 DEF Aclose
      <3> QED
        BY <2>1, <2>2, <3>1 DEF IInv, TypeOK, OwnsOrBorrows, Owns
    <2> QED
      BY <2>2, <2>3 DEF Aclose, IInv, TypeOK
  <1>4. OwnsOrBorrows'
    BY DEF IInv, OwnsOrBorrows, Aclose
  <1> QED
    BY <1>1, <1>2, <1>3, <1>4 DEF IInv

\* The program closes only what it injected, and a redemption touches no client.
LEMMA GiveUpStep ==
  ASSUME IInv, NEW k \in Injected, GiveUp(k)
  PROVE  IInv'
  <1>1. TypeOK'
    BY DEF IInv, TypeOK, GiveUp
  <1>2. InjectedStaysOpen'
    BY DEF IInv, InjectedStaysOpen, GiveUp
  <1>3. EveryOpenClientHasACloser' /\ OwnsOrBorrows'
    BY DEF IInv, EveryOpenClientHasACloser, OwnsOrBorrows, GiveUp
  <1> QED
    BY <1>1, <1>2, <1>3 DEF IInv

LEMMA CallStep ==
  ASSUME IInv, NEW c \in Calls,
         (\E d \in Redeemers : Begin(c, d)) \/ Read(c) \/ Respond(c) \/ Elapse(c)
  PROVE  IInv'
  <1>1. UNCHANGED <<stage, settings, client, open, given_up, stopping>>
    BY DEF Begin, Read, Respond, Elapse, End
  <1>2. TypeOK'
    <2>0. call[c] \in Redemptions
      BY DEF IInv, TypeOK
    <2> USE DEF IInv, TypeOK
    <2>1. ASSUME NEW d \in Redeemers, Begin(c, d) PROVE TypeOK'
      <3>1. Fresh("posted", d, "none") \in Redemptions /\ Fresh("ended", d, "Raised") \in Redemptions
        BY RedeemerAssumption DEF Fresh, Redemptions
      <3> QED
        BY <1>1, <2>1, <3>1 DEF Begin
    <2>2. CASE Read(c)
      <3> DEFINE next == [call[c] EXCEPT !.reads = call[c].reads + 1, !.quiet = FALSE]
      <3>1. call[c].reads + 1 \in 0..MaxReads
        BY RedeemerAssumption, <2>0, <2>2 DEF Read, Redemptions
      <3>2. next \in Redemptions
        BY <2>0, <3>1 DEF Redemptions
      <3>3. call' = [call EXCEPT ![c] = next]
        BY <2>2 DEF Read
      <3> HIDE DEF next
      <3> QED
        BY <1>1, <3>2, <3>3
    <2>3. ASSUME NEW result \in {"True", "False", "Raised"}, End(c, result)
          PROVE  TypeOK'
      <3>1. [call[c] EXCEPT !.stage = "ended", !.result = result] \in Redemptions
        BY <2>0 DEF Redemptions
      <3> QED
        BY <1>1, <2>3, <3>1 DEF End
    <2>4. CASE Elapse(c)
      <3>1. [call[c] EXCEPT !.quiet = TRUE] \in Redemptions
        BY <2>0 DEF Redemptions
      <3>2. CASE End(c, "Raised")
        BY <2>3, <3>2
      <3>3. CASE call' = [call EXCEPT ![c] = [@ EXCEPT !.quiet = TRUE]]
        BY <1>1, <3>1, <3>3
      <3> QED
        BY <2>4, <3>2, <3>3 DEF Elapse
    <2> QED
      BY <2>1, <2>2, <2>3, <2>4 DEF Respond
  <1>3. InjectedStaysOpen' /\ EveryOpenClientHasACloser' /\ OwnsOrBorrows'
    BY <1>1 DEF IInv, InjectedStaysOpen, EveryOpenClientHasACloser, OwnsOrBorrows
  <1> QED
    BY <1>2, <1>3 DEF IInv

LEMMA NextKeepsIInv == IInv /\ [Next]_vars => IInv'
  <1> SUFFICES ASSUME IInv, [Next]_vars PROVE IInv'
    OBVIOUS
  <1>1. CASE Next
    <2>1. CASE \E d \in Redeemers, s \in Settings, injected \in Injected \cup {None} :
                 Construct(d, s, injected)
      BY <2>1, ConstructStep
    <2>2. CASE \E d \in Redeemers : Aclose(d)
      BY <2>2, AcloseStep
    <2>3. CASE \E c \in Calls : \/ \E d \in Redeemers : Begin(c, d)
                               \/ Read(c) \/ Respond(c) \/ Elapse(c)
      BY <2>3, CallStep
    <2>4. CASE \E k \in Injected : GiveUp(k)
      BY <2>4, GiveUpStep
    <2>5. CASE Stop
      BY <2>5 DEF Stop, IInv, TypeOK, InjectedStaysOpen, EveryOpenClientHasACloser,
                  OwnsOrBorrows
    <2> QED
      BY <1>1, <2>1, <2>2, <2>3, <2>4, <2>5 DEF Next
  <1>2. CASE UNCHANGED vars
    BY <1>2 DEF vars, IInv, TypeOK, InjectedStaysOpen, EveryOpenClientHasACloser,
                OwnsOrBorrows
  <1> QED
    BY <1>1, <1>2

LEMMA RedeemerInductive == Spec => []IInv
  BY StartsInInv, NextKeepsIInv, PTL DEF Spec

\* Every variable of the redeemers keeps its type.
THEOREM RedeemerTypeCorrect == Spec => []TypeOK
  <1>1. IInv => TypeOK
    BY DEF IInv
  <1> QED
    BY RedeemerInductive, <1>1, PTL

\* A client the program injected is open until the program closes it (line 700).
THEOREM InjectedClientsStayOpen == Spec => []InjectedStaysOpen
  <1>1. IInv => InjectedStaysOpen
    BY DEF IInv
  <1> QED
    BY RedeemerInductive, <1>1, PTL

\* No client is left open that nobody can close, whatever constructions raise (629-654).
THEOREM NoClientIsOrphaned == Spec => []EveryOpenClientHasACloser
  <1>1. IInv => EveryOpenClientHasACloser
    BY DEF IInv
  <1> QED
    BY RedeemerInductive, <1>1, PTL

=============================================================================
