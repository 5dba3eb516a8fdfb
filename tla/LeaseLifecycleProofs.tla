------------------------ MODULE LeaseLifecycleProofs ------------------------
(***************************************************************************)
(* The safety properties of LeaseLifecycle, for every ttl, interval and    *)
(* bound on the time a request takes.  KeepsItsLease is about the slack a  *)
(* record has: TimeLeft follows it through every step.                     *)
(***************************************************************************)
EXTENDS LeaseLifecycle, TLAPS

\* An interval derived from a ttl of at least 3 fits into it three times (line 217).
LEMMA ThirdFits ==
  ASSUME NEW ttl \in Int
  PROVE  /\ DerivedInterval(ttl) \in Nat \ {0}
         /\ ttl >= 3 => 3 * DerivedInterval(ttl) <= ttl
  <1> DEFINE third == ttl \div 3
  <1>1. third \in Int /\ 3 * third <= ttl
    OBVIOUS
  <1>2. ttl >= 3 => third >= 1
    OBVIOUS
  <1> HIDE DEF third
  <1>3. DerivedInterval(ttl) = AtMost(AtLeastOne(third), DEFAULT_HEARTBEAT_INTERVAL_SECONDS)
    BY DEF DerivedInterval, third
  <1> QED
    BY <1>1, <1>2, <1>3, LeaseAssumption DEF AtMost, AtLeastOne

\* A lease is recorded with a ttl, all of it left, and an interval of its own.
LEMMA LeaseIsARecord ==
  ASSUME NEW ttl \in TTLs, NEW requested \in TTLs, NEW interval \in Intervals,
         NEW rec, rec = LeaseFromRequest(ttl, interval, requested)
  PROVE  /\ rec \in Records /\ rec.left = rec.ttl /\ ~ rec.released
         /\ rec.derived => rec.interval = DerivedInterval(rec.ttl)
  <1> DEFINE t == Or(Or(ttl, requested), DEFAULT_LEASE_TTL_SECONDS)
  <1>1. t \in Int
    BY LeaseAssumption DEF Or
  <1> HIDE DEF t
  <1>2. DerivedInterval(t) \in Nat \ {0}
    BY <1>1, ThirdFits
  <1>3. Or(interval, DerivedInterval(t)) \in Nat \ {0}
    BY <1>2, LeaseAssumption DEF Or
  <1>4. rec = [ttl |-> t, left |-> t, released |-> FALSE,
               interval |-> Or(interval, DerivedInterval(t)),
               derived  |-> interval \in {None, 0}]
    BY DEF LeaseFromRequest, t
  <1>5. rec \in Records
    BY <1>1, <1>3, <1>4 DEF Records
  <1>6. rec.ttl = t /\ rec.left = t /\ ~ rec.released
    BY <1>4
  <1>7. ASSUME rec.derived PROVE rec.interval = DerivedInterval(t)
    <2> DEFINE unset == interval \in {None, 0}
    <2>a. rec = [ttl |-> t, left |-> t, released |-> FALSE,
                 interval |-> Or(interval, DerivedInterval(t)), derived |-> unset]
      BY <1>4
    <2> HIDE DEF unset
    <2>b. rec.derived = unset
      BY <2>a
    <2>1. interval \in {None, 0}
      BY <1>7, <2>b, Zenon DEF unset
    <2>2. rec.interval = Or(interval, DerivedInterval(t))
      BY <1>4
    <2> QED
      BY <2>1, <2>2 DEF Or
  <1> QED
    BY <1>5, <1>6, <1>7

\* An activity is recorded with the ttl the governor chose.
LEMMA ActivityIsARecord ==
  ASSUME NEW ttl \in TTLs \ {None}, NEW rec, rec = ActivityFromRequest(ttl)
  PROVE  rec \in Records /\ rec.left = rec.ttl /\ ~ rec.released /\ ~ rec.derived
  BY LeaseAssumption DEF ActivityFromRequest, Records

\* A heartbeat renews the time of a record and nothing else (lines 229-233, 255-258).
LEMMA RenewalKeepsTheRest ==
  ASSUME NEW rec \in Records
  PROVE  /\ Renewed(rec) \in Records
         /\ Renewed(rec).left = rec.ttl /\ Renewed(rec).ttl = rec.ttl
         /\ Renewed(rec).interval = rec.interval /\ Renewed(rec).derived = rec.derived
         /\ Renewed(rec).released = rec.released
  BY DEF Renewed, Records

-----------------------------------------------------------------------------
\* The client and the worker begin with nothing.
LEMMA StartsInInv == Init => IInv
  <1> SUFFICES ASSUME Init PROVE IInv
    OBVIOUS
  <1>1. TypeOK
    <2>1. 0 \in 0..Timeout /\ 0 \in 0..MaxMisses /\ 0 \in Nat
      BY LeaseAssumption
    <2> QED
      BY <2>1, Zenon DEF Init, TypeOK
  <1>2. InOrder /\ TimeLeft
    BY DEF Init, InOrder, RecordIsTheGrant, CreateComesFirst, LaterCallsHaveARecord,
       IdleIsFresh, HoldsAGrantOrFallback, BeatsItsGrant, ReleasedAtTheEnd,
       DerivedFromTheTtl, TimeLeft
  <1> QED
    BY <1>1, <1>2 DEF IInv, InOrder

\* A request is sent, met by the fallback, or not possible (client.py:39-51, 80-90).
LEMMA RequestStep ==
  ASSUME IInv, RequestLease \/ RegisterActivity
  PROVE  IInv'
  <1> USE LeaseAssumption, RecordsAssumption DEF IInv, InOrder
  <1>a. record = None /\ inbound = {} /\ reply = "none" /\ missed = 0 /\ ~ beating
    BY DEF RequestLease, RegisterActivity, IdleIsFresh, RecordIsTheGrant, BeatsItsGrant
  <1>1. TypeOK'
    BY <1>a DEF TypeOK, RequestLease, RegisterActivity, Ask, HoldFallback, Unconfigured
  <1>2. InOrder'
    BY <1>a DEF TypeOK, RequestLease, RegisterActivity, Ask, HoldFallback, Unconfigured,
       RecordIsTheGrant, CreateComesFirst,
       LaterCallsHaveARecord, IdleIsFresh, HoldsAGrantOrFallback, BeatsItsGrant,
       ReleasedAtTheEnd, DerivedFromTheTtl
  <1>3. TimeLeft'
    BY <1>a DEF TypeOK, RequestLease, RegisterActivity, Ask, HoldFallback,
       Unconfigured, TimeLeft, RecordIsTheGrant, CreateComesFirst,
       IdleIsFresh, BeatsItsGrant
  <1> QED
    BY <1>1, <1>2, <1>3

\* The worker begins to hold what was granted, with two intervals to spare.
LEMMA ReplyStep ==
  ASSUME IInv, ReceiveReply
  PROVE  IInv'
  <1> USE LeaseAssumption, RecordsAssumption DEF IInv, InOrder
  <1>a. record # None => record \in Records /\ record.ttl \in Int
    BY DEF TypeOK, Records
  <1>b. (record # None /\ record.derived /\ record.ttl >= 3)
          => 3 * record.interval <= record.ttl
    BY <1>a, ThirdFits DEF DerivedFromTheTtl
  <1>c. record # None => record.interval \in Nat \ {0} /\ record.left \in Int
    BY <1>a DEF Records
  <1>1. TypeOK'
    BY <1>a, <1>b, <1>c DEF TypeOK, ReceiveReply, RecordIsTheGrant
  <1>2. InOrder'
    BY <1>a, <1>b, <1>c DEF TypeOK, ReceiveReply,
       RecordIsTheGrant, CreateComesFirst,
       LaterCallsHaveARecord, IdleIsFresh, HoldsAGrantOrFallback, BeatsItsGrant,
       ReleasedAtTheEnd, DerivedFromTheTtl
  <1>3. TimeLeft'
    BY <1>a, <1>b, <1>c DEF TypeOK, ReceiveReply, TimeLeft, RecordIsTheGrant,
       CreateComesFirst,
       IdleIsFresh, BeatsItsGrant
  <1> QED
    BY <1>1, <1>2, <1>3

\* A call that raises ends the work before it began.
LEMMA FailureStep ==
  ASSUME IInv, CallFails
  PROVE  IInv'
  <1> USE LeaseAssumption, RecordsAssumption DEF IInv, InOrder
  <1>1. TypeOK'
    BY DEF TypeOK, CallFails
  <1>2. InOrder'
    BY DEF TypeOK, CallFails,
       RecordIsTheGrant, CreateComesFirst,
       LaterCallsHaveARecord, IdleIsFresh, HoldsAGrantOrFallback, BeatsItsGrant,
       ReleasedAtTheEnd, DerivedFromTheTtl
  <1>3. TimeLeft'
    BY DEF TypeOK, CallFails, TimeLeft, RecordIsTheGrant, CreateComesFirst,
       IdleIsFresh, BeatsItsGrant
  <1> QED
    BY <1>1, <1>2, <1>3

\* A heartbeat leaves; the time until the next one is counted from here.
LEMMA BeatStep ==
  ASSUME IInv, Beat
  PROVE  IInv'
  <1> USE LeaseAssumption, RecordsAssumption DEF IInv, InOrder
  <1>a. record # None => record.interval \in Nat \ {0} /\ record.left \in Int
    BY DEF TypeOK, Records
  <1>1. TypeOK'
    BY <1>a DEF TypeOK, Beat, HoldsAGrantOrFallback
  <1>2. InOrder'
    BY <1>a DEF TypeOK, Beat,
       RecordIsTheGrant, CreateComesFirst,
       LaterCallsHaveARecord, IdleIsFresh, HoldsAGrantOrFallback, BeatsItsGrant,
       ReleasedAtTheEnd, DerivedFromTheTtl
  <1>3. TimeLeft'
    BY <1>a DEF TypeOK, Beat, TimeLeft, RecordIsTheGrant, CreateComesFirst,
       IdleIsFresh, BeatsItsGrant, HoldsAGrantOrFallback
  <1> QED
    BY <1>1, <1>2, <1>3

\* The work ends, with or without a release.
LEMMA EndStep ==
  ASSUME IInv, NEW calls \in SUBSET {"release"}, (calls # {} => mode = "url"), End(calls)
  PROVE  IInv'
  <1> USE LeaseAssumption, RecordsAssumption DEF IInv, InOrder
  <1>1. TypeOK'
    BY DEF TypeOK, End
  <1>2. InOrder'
    BY DEF TypeOK, End,
       RecordIsTheGrant, CreateComesFirst,
       LaterCallsHaveARecord, IdleIsFresh, HoldsAGrantOrFallback, BeatsItsGrant,
       ReleasedAtTheEnd, DerivedFromTheTtl
  <1>3. TimeLeft'
    BY DEF TypeOK, End, TimeLeft, RecordIsTheGrant, CreateComesFirst,
       IdleIsFresh, BeatsItsGrant
  <1> QED
    BY <1>1, <1>2, <1>3

\* The governor records what it grants.
LEMMA GrantStep ==
  ASSUME IInv, NEW rec \in Records, rec.left = rec.ttl, ~ rec.released,
         rec.derived => rec.interval = DerivedInterval(rec.ttl), GovernorGrants(rec)
  PROVE  IInv'
  <1> USE LeaseAssumption, RecordsAssumption DEF IInv, InOrder
  <1>a. rec.ttl \in Int /\ rec # None
    BY DEF Records
  <1>1. TypeOK'
    BY <1>a DEF TypeOK, GovernorGrants, Arrives, worker
  <1>2. InOrder'
    BY <1>a DEF TypeOK, GovernorGrants, Arrives, worker,
       RecordIsTheGrant, CreateComesFirst,
       LaterCallsHaveARecord, IdleIsFresh, HoldsAGrantOrFallback, BeatsItsGrant,
       ReleasedAtTheEnd, DerivedFromTheTtl
  <1>3. TimeLeft'
    BY <1>a DEF TypeOK, GovernorGrants, Arrives, worker, TimeLeft,
       RecordIsTheGrant, CreateComesFirst,
       IdleIsFresh, BeatsItsGrant
  <1> QED
    BY <1>1, <1>2, <1>3

\* The governor refuses.
LEMMA RefuseStep ==
  ASSUME IInv, Arrives("create"), reply' = "refused",
         UNCHANGED <<mode, kind, record>>, UNCHANGED worker
  PROVE  IInv'
  <1> USE LeaseAssumption, RecordsAssumption DEF IInv, InOrder
  <1>1. TypeOK'
    BY DEF TypeOK, Arrives, worker
  <1>2. InOrder'
    BY DEF TypeOK, Arrives, worker,
       RecordIsTheGrant, CreateComesFirst,
       LaterCallsHaveARecord, IdleIsFresh, HoldsAGrantOrFallback, BeatsItsGrant,
       ReleasedAtTheEnd, DerivedFromTheTtl
  <1>3. TimeLeft'
    BY DEF TypeOK, Arrives, worker, TimeLeft, RecordIsTheGrant, CreateComesFirst,
       IdleIsFresh, BeatsItsGrant
  <1> QED
    BY <1>1, <1>2, <1>3

\* A heartbeat in time gives the worker its whole ttl again.
LEMMA HeartbeatStep ==
  ASSUME IInv, HeartbeatArrives
  PROVE  IInv'
  <1> USE LeaseAssumption, RecordsAssumption DEF IInv, InOrder
  <1>a. PICK rec \in Records : rec = record
    BY DEF TypeOK, HeartbeatArrives, BeatsItsGrant
  <1>b. rec.ttl \in Int /\ rec.interval \in Nat \ {0} /\ rec # None
    BY <1>a DEF Records
  <1>c. /\ record' \in Records /\ record' # None /\ record'.left = rec.ttl
        /\ record'.ttl = rec.ttl /\ record'.interval = rec.interval
        /\ record'.derived = rec.derived /\ record'.released = rec.released
    BY <1>a, RenewalKeepsTheRest DEF HeartbeatArrives
  <1>d. (rec.derived /\ rec.ttl >= 3) => 3 * rec.interval <= rec.ttl
    BY <1>a, <1>b, ThirdFits DEF DerivedFromTheTtl
  <1>1. TypeOK'
    <2>1. 0 \in 0..MaxMisses
      OBVIOUS
    <2> QED
      BY <1>c, <2>1, Zenon DEF TypeOK, HeartbeatArrives
  <1>2. InOrder'
    BY <1>a, <1>b, <1>c, <1>d DEF TypeOK, HeartbeatArrives,
       RecordIsTheGrant, CreateComesFirst,
       LaterCallsHaveARecord, IdleIsFresh, HoldsAGrantOrFallback, BeatsItsGrant,
       ReleasedAtTheEnd, DerivedFromTheTtl
  <1>3. TimeLeft'
    BY <1>a, <1>b, <1>c, <1>d DEF TypeOK, HeartbeatArrives, TimeLeft,
       RecordIsTheGrant, CreateComesFirst,
       IdleIsFresh, BeatsItsGrant
  <1> QED
    BY <1>1, <1>2, <1>3

\* A heartbeat that is missed costs the spare interval.
LEMMA LateStep ==
  ASSUME IInv, HeartbeatLate
  PROVE  IInv'
  <1> USE LeaseAssumption, RecordsAssumption DEF IInv, InOrder
  <1>a. record # None /\ record.interval \in Nat \ {0} /\ record.left \in Int
    BY DEF TypeOK, Records, HeartbeatLate, BeatsItsGrant
  <1>1. TypeOK'
    <2>1. missed + 1 \in 0..MaxMisses
      BY DEF TypeOK, HeartbeatLate
    <2>2. inbound' \subseteq {"create", "heartbeat", "release"}
      BY DEF TypeOK, HeartbeatLate
    <2> QED
      BY <2>1, <2>2, Zenon DEF TypeOK, HeartbeatLate
  <1>2. InOrder'
    BY <1>a DEF TypeOK, HeartbeatLate,
       RecordIsTheGrant, CreateComesFirst,
       LaterCallsHaveARecord, IdleIsFresh, HoldsAGrantOrFallback, BeatsItsGrant,
       ReleasedAtTheEnd, DerivedFromTheTtl
  <1>3. TimeLeft'
    BY <1>a DEF TypeOK, HeartbeatLate, TimeLeft, RecordIsTheGrant, CreateComesFirst,
       IdleIsFresh, BeatsItsGrant
  <1> QED
    BY <1>1, <1>2, <1>3

\* A heartbeat out of time renews the record as well.
LEMMA LateArrivalStep ==
  ASSUME IInv, LateHeartbeatArrives
  PROVE  IInv'
  <1> USE LeaseAssumption, RecordsAssumption DEF IInv, InOrder
  <1>a. PICK rec \in Records : rec = record
    BY DEF TypeOK, LateHeartbeatArrives, Arrives, LaterCallsHaveARecord
  <1>b. rec.ttl \in Int /\ rec.interval \in Nat \ {0} /\ rec # None
    BY <1>a DEF Records
  <1>c. /\ record' \in Records /\ record' # None /\ record'.left = rec.ttl
        /\ record'.ttl = rec.ttl /\ record'.interval = rec.interval
        /\ record'.derived = rec.derived /\ record'.released = rec.released
    BY <1>a, RenewalKeepsTheRest DEF LateHeartbeatArrives
  <1>d. (rec.derived /\ rec.ttl >= 3) => 3 * rec.interval <= rec.ttl
    BY <1>a, <1>b, ThirdFits DEF DerivedFromTheTtl
  <1>1. TypeOK'
    BY <1>a, <1>b, <1>c, <1>d DEF TypeOK, LateHeartbeatArrives, Arrives, worker
  <1>2. InOrder'
    BY <1>a, <1>b, <1>c, <1>d DEF TypeOK, LateHeartbeatArrives, Arrives, worker,
       RecordIsTheGrant, CreateComesFirst,
       LaterCallsHaveARecord, IdleIsFresh, HoldsAGrantOrFallback, BeatsItsGrant,
       ReleasedAtTheEnd, DerivedFromTheTtl
  <1>3. TimeLeft'
    BY <1>a, <1>b, <1>c, <1>d DEF TypeOK, LateHeartbeatArrives, Arrives, worker,
       TimeLeft, RecordIsTheGrant, CreateComesFirst,
       IdleIsFresh, BeatsItsGrant, HoldsAGrantOrFallback
  <1> QED
    BY <1>1, <1>2, <1>3

\* A release reaches a record whose worker has ended.
LEMMA ReleaseStep ==
  ASSUME IInv, ReleaseArrives
  PROVE  IInv'
  <1> USE LeaseAssumption, RecordsAssumption DEF IInv, InOrder
  <1>a. PICK rec \in Records : rec = record
    BY DEF TypeOK, ReleaseArrives, Arrives, LaterCallsHaveARecord
  <1>b. /\ record' \in Records /\ record' # None /\ record'.left = rec.left
        /\ record'.ttl = rec.ttl /\ record'.interval = rec.interval
        /\ record'.derived = rec.derived /\ rec # None
    BY <1>a DEF ReleaseArrives, Records
  <1>c. stage = "ended"
    BY DEF ReleaseArrives, Arrives, ReleasedAtTheEnd
  <1>1. TypeOK'
    BY <1>a, <1>b, <1>c DEF TypeOK, ReleaseArrives, Arrives, worker
  <1>2. InOrder'
    BY <1>a, <1>b, <1>c DEF TypeOK, ReleaseArrives, Arrives, worker,
       RecordIsTheGrant, CreateComesFirst,
       LaterCallsHaveARecord, IdleIsFresh, HoldsAGrantOrFallback, BeatsItsGrant,
       ReleasedAtTheEnd, DerivedFromTheTtl
  <1>3. TimeLeft'
    BY <1>a, <1>b, <1>c DEF TypeOK, ReleaseArrives, Arrives, worker, TimeLeft,
       RecordIsTheGrant, CreateComesFirst,
       IdleIsFresh, BeatsItsGrant
  <1> QED
    BY <1>1, <1>2, <1>3

\* A call that is lost changes nothing else.
LEMMA LossStep ==
  ASSUME IInv, LoseCall
  PROVE  IInv'
  <1> USE LeaseAssumption, RecordsAssumption DEF IInv, InOrder
  <1>1. TypeOK'
    BY DEF TypeOK, LoseCall, Arrives, worker
  <1>2. InOrder'
    BY DEF TypeOK, LoseCall, Arrives, worker,
       RecordIsTheGrant, CreateComesFirst,
       LaterCallsHaveARecord, IdleIsFresh, HoldsAGrantOrFallback, BeatsItsGrant,
       ReleasedAtTheEnd, DerivedFromTheTtl
  <1>3. TimeLeft'
    BY DEF TypeOK, LoseCall, Arrives, worker, TimeLeft, RecordIsTheGrant, CreateComesFirst,
       IdleIsFresh, BeatsItsGrant
  <1> QED
    BY <1>1, <1>2, <1>3

\* A second takes as much from the record as from the time to the next heartbeat.
LEMMA TickStep ==
  ASSUME IInv, Tick
  PROVE  IInv'
  <1> USE LeaseAssumption, RecordsAssumption DEF IInv, InOrder
  <1>a. record # None =>
          /\ record \in Records /\ record.left \in Int
          /\ record' \in Records /\ record' # None
          /\ record'.ttl = record.ttl /\ record'.interval = record.interval
          /\ record'.derived = record.derived /\ record'.released = record.released
          /\ record'.left = IF record.left > 0 THEN record.left - 1 ELSE record.left
    BY DEF TypeOK, Records, Tick
  <1>b. record = None => record' = None
    BY DEF Tick
  <1>c. record # None => record.interval \in Nat \ {0} /\ record.ttl \in Int
    BY <1>a DEF Records
  <1>1. TypeOK'
    BY <1>a, <1>b, <1>c DEF TypeOK, Tick
  <1>2. InOrder'
    BY <1>a, <1>b, <1>c DEF TypeOK, Tick,
       RecordIsTheGrant, CreateComesFirst,
       LaterCallsHaveARecord, IdleIsFresh, HoldsAGrantOrFallback, BeatsItsGrant,
       ReleasedAtTheEnd, DerivedFromTheTtl
  <1>3. TimeLeft'
    BY <1>a, <1>b, <1>c DEF TypeOK, Tick, TimeLeft, RecordIsTheGrant, CreateComesFirst,
       IdleIsFresh, BeatsItsGrant
  <1> QED
    BY <1>1, <1>2, <1>3

-----------------------------------------------------------------------------
LEMMA NextKeepsIInv == IInv /\ [Next]_vars => IInv'
  <1> SUFFICES ASSUME IInv, [Next]_vars PROVE IInv'
    OBVIOUS
  <1>1. CASE RequestLease \/ RegisterActivity
    BY <1>1, RequestStep
  <1>2. CASE ReceiveReply
    BY <1>2, ReplyStep
  <1>3. CASE CallFails
    BY <1>3, FailureStep
  <1>4. CASE Beat
    BY <1>4, BeatStep
  <1>5. CASE Release \/ Crash
    <2>1. CASE mode = "url" /\ Release
      BY <2>1, EndStep DEF Release
    <2>2. CASE (mode # "url" /\ Release) \/ Crash
      BY <2>2, EndStep DEF Release, Crash
    <2> QED
      BY <1>5, <2>1, <2>2
  <1>6. CASE GovernorDecides
    <2>1. ASSUME NEW ttl \in TTLs, NEW requested \in TTLs, NEW interval \in Intervals,
                 GovernorGrants(LeaseFromRequest(ttl, interval, requested))
          PROVE  IInv'
      BY <2>1, LeaseIsARecord, GrantStep
    <2>2. ASSUME NEW ttl \in TTLs \ {None}, GovernorGrants(ActivityFromRequest(ttl))
          PROVE  IInv'
      BY <2>2, ActivityIsARecord, GrantStep
    <2> QED
      BY <1>6, <2>1, <2>2, RefuseStep DEF GovernorDecides
  <1>7. CASE HeartbeatArrives
    BY <1>7, HeartbeatStep
  <1>8. CASE HeartbeatLate
    BY <1>8, LateStep
  <1>9. CASE LateHeartbeatArrives
    BY <1>9, LateArrivalStep
  <1>10. CASE ReleaseArrives
    BY <1>10, ReleaseStep
  <1>11. CASE LoseCall
    BY <1>11, LossStep
  <1>12. CASE Tick
    BY <1>12, TickStep
  <1>13. CASE UNCHANGED vars
    BY <1>13 DEF vars, IInv, InOrder, TypeOK, RecordIsTheGrant, CreateComesFirst,
       LaterCallsHaveARecord, IdleIsFresh, HoldsAGrantOrFallback, BeatsItsGrant,
       ReleasedAtTheEnd, DerivedFromTheTtl, TimeLeft
  <1> QED
    BY <1>1, <1>2, <1>3, <1>4, <1>5, <1>6, <1>7, <1>8, <1>9, <1>10, <1>11, <1>12, <1>13
    DEF Next

LEMMA LeaseInductive == Spec => []IInv
  <1> QED
    BY StartsInInv, NextKeepsIInv, PTL DEF Spec

-----------------------------------------------------------------------------
\* Every variable keeps its type; an interval is never 0, however short the ttl.
THEOREM LeaseTypeCorrect == Spec => []TypeOK
  <1>1. IInv => TypeOK
    BY DEF IInv
  <1> QED
    BY <1>1, LeaseInductive, PTL

\* A worker that beats at the derived interval keeps its lease although every other
\* heartbeat is lost (schemas.py:211-217), for every ttl of at least 3.
THEOREM BeatingKeepsTheLease == Spec => []KeepsItsLease
  <1>1. IInv => KeepsItsLease
    <2> SUFFICES ASSUME IInv, stage = "holding", record # None, record.derived,
                        record.ttl >= 3, 3 * waited < record.ttl, MaxMisses <= 1
                 PROVE  Active
      BY DEF KeepsItsLease
    <2>1. record.left \in Int /\ record.interval \in Nat /\ due \in Nat
      BY DEF IInv, TypeOK, Records
    <2>2. record.left > 0
      BY <2>1 DEF IInv, InOrder, TimeLeft, BeatsItsGrant
    <2>3. ~ record.released
      BY DEF IInv, InOrder, ReleasedAtTheEnd
    <2> QED
      BY <2>2, <2>3 DEF Active
  <1> QED
    BY <1>1, LeaseInductive, PTL

\* What runs without the governor's knowledge is a lease under the fallback, never an
\* activity (client.py:81-82).
THEOREM HoldingIsRecorded == Spec => []HeldIsRecorded
  <1>1. IInv => HeldIsRecorded
    BY DEF IInv, InOrder, HeldIsRecorded, HoldsAGrantOrFallback
  <1> QED
    BY <1>1, LeaseInductive, PTL

\* No heartbeat, early or late, brings a released record back (schemas.py:229-258).
THEOREM ReleasedForEver == Spec => ReleaseIsFinal
  <1> DEFINE Stays == (record # None /\ record.released) => record'.released
  <1>1. IInv /\ [Next]_vars => [Stays]_vars
    <2> SUFFICES ASSUME IInv, Next, record # None, record.released
                 PROVE  record'.released
      OBVIOUS
    <2>1. record \in Records
      BY DEF IInv, TypeOK
    <2>2. ~ Arrives("create")
      BY DEF IInv, InOrder, RecordIsTheGrant, CreateComesFirst, Arrives
    <2>3. ~ GovernorDecides
      BY <2>2 DEF GovernorDecides, GovernorGrants
    <2>4. CASE HeartbeatArrives \/ LateHeartbeatArrives
      BY <2>1, <2>4, RenewalKeepsTheRest DEF HeartbeatArrives, LateHeartbeatArrives
    <2>5. CASE ReleaseArrives
      BY <2>1, <2>5 DEF ReleaseArrives, Records
    <2>6. CASE Tick
      BY <2>1, <2>6 DEF Tick, Records
    <2>7. CASE UNCHANGED record
      BY <2>7
    <2>8. HeartbeatArrives \/ LateHeartbeatArrives \/ ReleaseArrives \/ Tick \/ UNCHANGED record
      BY <2>3 DEF Next, RequestLease, RegisterActivity, Ask, HoldFallback, Unconfigured,
         ReceiveReply, CallFails, Beat, Release, Crash, End, HeartbeatLate, LoseCall
    <2> QED
      BY <2>4, <2>5, <2>6, <2>7, <2>8
  <1>2. IInv /\ [Next]_vars => [(record # None /\ record.released) => record'.released]_vars
    BY <1>1
  <1> QED
    BY <1>2, LeaseInductive, PTL DEF Spec, ReleaseIsFinal

\* Nothing brings back what a worker has left behind, once its calls have arrived or are
\* lost: the part of OrphanExpires that no fairness is needed for.
THEOREM OrphansStayDown ==
  Spec => [][(stage = "ended" /\ inbound = {} /\ ~ Active)
                => (stage' = "ended" /\ inbound' = {} /\ ~ Active')]_vars
  <1>1. IInv /\ [Next]_vars =>
          [(stage = "ended" /\ inbound = {} /\ ~ Active)
              => (stage' = "ended" /\ inbound' = {} /\ ~ Active')]_vars
    <2> SUFFICES ASSUME IInv, Next, stage = "ended", inbound = {}, ~ Active
                 PROVE  stage' = "ended" /\ inbound' = {} /\ ~ Active'
      OBVIOUS
    <2>1. Tick
      <3>1. \A call : ~ Arrives(call)
        BY DEF Arrives
      <3>2. ~ beating
        BY DEF IInv, InOrder, BeatsItsGrant
      <3> QED
        BY <3>1, <3>2 DEF Next, RequestLease, RegisterActivity, ReceiveReply, CallFails, Beat,
           Release, Crash, End, GovernorDecides, GovernorGrants, HeartbeatArrives,
           HeartbeatLate, LateHeartbeatArrives, ReleaseArrives, LoseCall
    <2>2. record # None => record \in Records
      BY DEF IInv, TypeOK
    <2>3. ~ Active'
      BY <2>1, <2>2 DEF Tick, Active, Records
    <2> QED
      BY <2>1, <2>3 DEF Tick
  <1> QED
    BY <1>1, LeaseInductive, PTL DEF Spec

-----------------------------------------------------------------------------
\* The initial states of worker and governor are initial states of Lease.
LEMMA InitRefines == Init => L!Init
  BY DEF Init, L!Init, Excused, Work, State

\* What a record counts as, by its time and its release.
LEMMA StateOfRecord ==
  ASSUME record # None
  PROVE  /\ State \in {"live", "lapsed", "released"}
         /\ State = "released" <=> record.released
  BY DEF State, Active

LEMMA StateOfNextRecord ==
  ASSUME record' # None
  PROVE  /\ State' \in {"live", "lapsed", "released"}
         /\ State' = "released" <=> record'.released
  BY DEF State, Active

\* A record that is renewed while the worker beats, or after it has ended.
LEMMA RenewalRefines ==
  ASSUME record \in Records, record' = Renewed(record), Work # "before",
         UNCHANGED <<mode, kind, stage>>
  PROVE  [L!Next]_(L!vars)
  <1>1. record # None /\ record' # None /\ record'.released = record.released
    BY RenewalKeepsTheRest, RecordsAssumption
  <1>2. State = "released" <=> State' = "released"
    <2>1. record'.released <=> record.released
      BY <1>1
    <2> QED
      BY <1>1, <2>1, StateOfRecord, StateOfNextRecord
  <1>3. State \in {"live", "lapsed", "released"} /\ State' \in {"live", "lapsed", "released"}
    BY <1>1, StateOfRecord, StateOfNextRecord
  <1>4. UNCHANGED <<Excused, Work>>
    BY DEF Excused, Work
  <1> QED
    BY <1>2, <1>3, <1>4 DEF L!Next, L!vars, L!Lapse, L!Renew

\* A step that leaves the record alone begins the work, ends it, or is none of Lease.
LEMMA WorkerRefines ==
  ASSUME UNCHANGED <<mode, kind, record>>,
         \/ Work' = Work
         \/ Work = "before" /\ Work' = "running" /\ (Excused \/ record # None)
         \/ Work # "over" /\ Work' = "over"
  PROVE  [L!Next]_(L!vars)
  <1>1. UNCHANGED <<Excused, State>>
    BY DEF Excused, State, Active
  <1>2. record # None => State # "none"
    BY StateOfRecord
  <1> QED
    BY <1>1, <1>2 DEF L!Next, L!vars, L!Begin, L!Finish

LEMMA GrantRefines ==
  ASSUME IInv, NEW rec \in Records, ~ rec.released, GovernorGrants(rec)
  PROVE  [L!Next]_(L!vars)
  <1>1. /\ record = None /\ stage \in {"asking", "ended"} /\ mode = "url"
        /\ record' = rec /\ rec # None /\ UNCHANGED <<mode, kind, stage>>
    BY RecordsAssumption DEF IInv, InOrder, CreateComesFirst, RecordIsTheGrant,
       GovernorGrants, Arrives, worker
  <1>2. State = "none" /\ ~ Excused /\ Work # "running" /\ UNCHANGED <<Excused, Work>>
    BY <1>1 DEF State, Excused, Work
  <1>3. State' \in {"live", "lapsed"}
    BY <1>1, StateOfNextRecord
  <1> QED
    BY <1>2, <1>3 DEF L!Next, L!Grant

\* Every step of them is a step of Lease or leaves its variables alone.
LEMMA NextRefines == IInv /\ [Next]_vars => [L!Next]_(L!vars)
  <1> SUFFICES ASSUME IInv, [Next]_vars PROVE [L!Next]_(L!vars)
    OBVIOUS
  <1>a. TypeOK /\ InOrder
    BY DEF IInv
  <1>1. CASE RequestLease \/ RegisterActivity
    <2>1. UNCHANGED <<mode, kind, record>> /\ Work = "before"
      BY <1>1 DEF RequestLease, RegisterActivity, Ask, HoldFallback, Unconfigured, Work
    <2>2. Work' = "before" \/ (Work' = "running" /\ Excused) \/ Work' = "over"
      BY <1>1 DEF RequestLease, RegisterActivity, Ask, HoldFallback, Unconfigured, Work, Excused
    <2> QED
      BY <2>1, <2>2, WorkerRefines
  <1>2. CASE ReceiveReply
    <2>1. /\ UNCHANGED <<mode, kind, record>> /\ Work = "before"
          /\ (Work' = "running" /\ record # None) \/ Work' = "over"
      BY <1>a, <1>2 DEF ReceiveReply, Work, InOrder, RecordIsTheGrant
    <2> QED
      BY <2>1, WorkerRefines
  <1>3. CASE CallFails
    BY <1>3, WorkerRefines DEF CallFails, Work
  <1>4. CASE Beat
    BY <1>4, WorkerRefines DEF Beat, Work
  <1>5. CASE Release \/ Crash
    BY <1>5, WorkerRefines DEF Release, Crash, End, Work
  <1>6. CASE GovernorDecides
    <2>1. ASSUME NEW ttl \in TTLs, NEW requested \in TTLs, NEW interval \in Intervals,
                 GovernorGrants(LeaseFromRequest(ttl, interval, requested))
          PROVE  [L!Next]_(L!vars)
      BY <2>1, LeaseIsARecord, GrantRefines
    <2>2. ASSUME NEW ttl \in TTLs \ {None}, GovernorGrants(ActivityFromRequest(ttl))
          PROVE  [L!Next]_(L!vars)
      BY <2>2, ActivityIsARecord, GrantRefines
    <2>3. ASSUME UNCHANGED <<mode, kind, record>>, UNCHANGED worker
          PROVE  [L!Next]_(L!vars)
      BY <2>3, WorkerRefines DEF worker, Work
    <2> QED
      BY <1>6, <2>1, <2>2, <2>3 DEF GovernorDecides
  <1>7. CASE HeartbeatArrives
    <2>1. record \in Records /\ Work # "before"
      BY <1>a, <1>7 DEF HeartbeatArrives, InOrder, BeatsItsGrant, TypeOK, Work
    <2> QED
      BY <1>7, <2>1, RenewalRefines DEF HeartbeatArrives
  <1>8. CASE HeartbeatLate
    BY <1>8, WorkerRefines DEF HeartbeatLate, Work
  <1>9. CASE LateHeartbeatArrives
    <2>1. record \in Records /\ Work # "before"
      BY <1>a, <1>9 DEF LateHeartbeatArrives, Arrives, InOrder, LaterCallsHaveARecord,
                        IdleIsFresh, TypeOK, Work
    <2> QED
      BY <1>9, <2>1, RenewalRefines DEF LateHeartbeatArrives, worker
  <1>10. CASE ReleaseArrives
    <2>1. record \in Records /\ record # None /\ stage = "ended"
      BY <1>a, <1>10 DEF ReleaseArrives, Arrives, InOrder, LaterCallsHaveARecord,
                         ReleasedAtTheEnd, TypeOK
    <2>2. record' # None /\ record'.released
      BY <1>10, <2>1, RecordsAssumption DEF ReleaseArrives, Records
    <2>3. State \in {"live", "lapsed", "released"} /\ State' = "released"
      BY <2>1, <2>2, StateOfRecord, StateOfNextRecord
    <2>4. UNCHANGED <<Excused, Work>> /\ Work = "over"
      BY <1>10, <2>1 DEF ReleaseArrives, Excused, Work, worker
    <2> QED
      BY <2>3, <2>4 DEF L!Next, L!vars, L!Return
  <1>11. CASE LoseCall
    BY <1>11, WorkerRefines DEF LoseCall, worker, Work
  <1>12. CASE Tick
    <2>1. UNCHANGED <<Excused, Work>>
      BY <1>12 DEF Tick, Excused, Work
    <2>2. CASE record # None /\ record.left > 0
      <3>1. /\ record \in Records /\ record' # None /\ record'.released = record.released
        BY <1>a, <1>12, <2>2, RecordsAssumption DEF Tick, TypeOK, Records
      <3>2. State = IF record.released THEN "released" ELSE "live"
        BY <2>2 DEF State, Active
      <3>3. State' \in {"live", "lapsed", "released"} /\ (State' = "released" <=> record.released)
        <4>1. record'.released <=> record.released
          BY <3>1
        <4> QED
          BY <3>1, <4>1, StateOfNextRecord
      <3> QED
        BY <2>1, <3>2, <3>3 DEF L!Next, L!vars, L!Lapse
    <2>3. CASE ~ (record # None /\ record.left > 0)
      BY <1>12, <2>3, WorkerRefines DEF Tick, Work
    <2> QED
      BY <2>2, <2>3
  <1>13. CASE UNCHANGED vars
    BY <1>13, WorkerRefines DEF vars, Work
  <1> QED
    BY <1>1, <1>2, <1>3, <1>4, <1>5, <1>6, <1>7, <1>8, <1>9, <1>10, <1>11, <1>12, <1>13
    DEF Next

\* Worker and governor implement a lease: begun on a record or excused from one, granted
\* once, renewed for work that has begun only, and given back after it, for good.
THEOREM ImplementsLease == Spec => KeepsLease
  <1> QED
    BY InitRefines, NextRefines, LeaseInductive, PTL DEF Spec, KeepsLease, L!Spec

=============================================================================
