--------------------------- MODULE LeaseLifecycle ---------------------------
(***************************************************************************)
(* One lease, or one activity, between a worker that uses                  *)
(* ResourceGovernorClient and the governor that keeps its LeaseRecord or   *)
(* ActivityRecord (src/sharedai/system/resource_governor).  Time is        *)
(* counted in seconds by countdowns: a record holds how long it has left,  *)
(* expires_at - now, and a worker how long until its next heartbeat.       *)
(*                                                                         *)
(* The governor's service and the worker's loop are not in the repository. *)
(* The governor keeps the record, calls its heartbeat() for every          *)
(* heartbeat that reaches it and sets released_at on a release; the worker *)
(* beats every heartbeat_interval_seconds and releases once.               *)
(***************************************************************************)
EXTENDS Integers

CONSTANTS
  Modes,       \* "url": base_url is set; "fallback" and "off": it is not
  Kinds,       \* "lease", "activity"
  TTLs,        \* ttl_seconds of a decision or an activity, requested_ttl_seconds
  Intervals,   \* heartbeat_interval_seconds of a decision
  None,
  Timeout,     \* of the client's HTTP calls, in seconds
  MaxMisses,   \* heartbeats in a row that may fail to arrive in time
  DEFAULT_LEASE_TTL_SECONDS,
  DEFAULT_HEARTBEAT_INTERVAL_SECONDS

ASSUME LeaseAssumption ==
  /\ Modes \subseteq {"url", "fallback", "off"} /\ Kinds \subseteq {"lease", "activity"}
  /\ TTLs \subseteq Int \cup {None} /\ Intervals \subseteq Nat \cup {None}
  /\ None \notin Int
  /\ Timeout \in Nat /\ MaxMisses \in Nat
  /\ DEFAULT_LEASE_TTL_SECONDS \in Nat \ {0}
  /\ DEFAULT_HEARTBEAT_INTERVAL_SECONDS \in Nat \ {0}

VARIABLES
  mode,     \* how the client is configured
  kind,     \* what the worker asks for
  stage,    \* "idle", "asking", "holding", "ended"
  waited,   \* seconds from the request to its answer, so far
  due,      \* seconds until the next heartbeat
  beating,  \* a heartbeat is on its way, in time
  missed,   \* heartbeats in a row that were not in time
  inbound,  \* the other calls that may still reach the governor
  reply,    \* the governor's answer to the request: "none", "granted", "refused"
  record    \* the governor's record, or None

vars == <<mode, kind, stage, waited, due, beating, missed, inbound, reply, record>>

worker == <<stage, waited, due, beating, missed>>

-----------------------------------------------------------------------------
\* Python's "a or b" on an optional integer.
Or(a, b) == IF a \in {None, 0} THEN b ELSE a

AtLeastOne(n) == IF n < 1 THEN 1 ELSE n
AtMost(n, bound) == IF n > bound THEN bound ELSE n

\* Mutated form of DerivedInterval: a third of the ttl, even of a very short one.
BareThird(ttl) == AtMost(ttl \div 3, DEFAULT_HEARTBEAT_INTERVAL_SECONDS)

\* Mutated form of DerivedInterval: no room for a heartbeat that is lost.
HalfInterval(ttl) == AtMost(AtLeastOne(ttl \div 2), DEFAULT_HEARTBEAT_INTERVAL_SECONDS)

DerivedInterval(ttl) ==
  AtMost(AtLeastOne(ttl \div 3), DEFAULT_HEARTBEAT_INTERVAL_SECONDS)

\* LeaseRecord.from_request.
LeaseFromRequest(ttl_seconds, interval, requested) ==
  LET ttl == Or(Or(ttl_seconds, requested), DEFAULT_LEASE_TTL_SECONDS)
  IN  [ttl |-> ttl, left |-> ttl, released |-> FALSE,
       interval |-> Or(interval, DerivedInterval(ttl)),
       derived  |-> interval \in {None, 0}]

\* ActivityRecord.from_request; the worker beats at an interval of its own.
ActivityFromRequest(ttl_seconds) ==
  [ttl |-> ttl_seconds, left |-> ttl_seconds, released |-> FALSE,
   interval |-> DEFAULT_HEARTBEAT_INTERVAL_SECONDS, derived |-> FALSE]

\* Mutated form of Renewed: a renewed record counts as one that was never released.
RenewedAfresh(rec) == [rec EXCEPT !.left = rec.ttl, !.released = FALSE]

\* LeaseRecord.heartbeat, ActivityRecord.heartbeat: whatever the record's state.
Renewed(rec) == [rec EXCEPT !.left = rec.ttl]

Active == record # None /\ record.left > 0 /\ ~ record.released

-----------------------------------------------------------------------------
Init ==
  /\ mode \in Modes /\ kind \in Kinds
  /\ stage = "idle" /\ waited = 0 /\ due = 0 /\ beating = FALSE /\ missed = 0
  /\ inbound = {} /\ reply = "none" /\ record = None

Ask ==
  /\ stage' = "asking" /\ inbound' = inbound \cup {"create"}
  /\ UNCHANGED <<mode, kind, waited, due, beating, missed, reply, record>>

\* RuntimeError: the client has no URL.
Unconfigured ==
  /\ stage' = "ended"
  /\ UNCHANGED <<mode, kind, waited, due, beating, missed, inbound, reply, record>>

\* _fallback_decision: granted on the spot, without a lease id.
HoldFallback ==
  /\ stage' = "holding" /\ due' = DEFAULT_HEARTBEAT_INTERVAL_SECONDS
  /\ UNCHANGED <<mode, kind, waited, beating, missed, inbound, reply, record>>

RequestLease ==
  /\ stage = "idle" /\ kind = "lease"
  /\ \/ mode = "url" /\ Ask
     \/ mode = "fallback" /\ HoldFallback
     \/ mode = "off" /\ Unconfigured

\* Mutated form of RegisterActivity: the fallback of leases serves activities as well.
RegisterWithFallback ==
  /\ stage = "idle" /\ kind = "activity"
  /\ \/ mode = "url" /\ Ask
     \/ mode = "fallback" /\ HoldFallback
     \/ mode = "off" /\ Unconfigured

RegisterActivity ==
  /\ stage = "idle" /\ kind = "activity"
  /\ \/ mode = "url" /\ Ask
     \/ mode # "url" /\ Unconfigured

\* The call returns a decision; only a granted one lets the worker go on.
ReceiveReply ==
  /\ stage = "asking" /\ reply # "none"
  /\ IF reply = "granted"
     THEN stage' = "holding" /\ due' = record.interval
     ELSE stage' = "ended" /\ UNCHANGED due
  /\ UNCHANGED <<mode, kind, waited, beating, missed, inbound, reply, record>>

\* It raises instead: a timeout, an HTTP error, an answer that does not validate.
CallFails ==
  /\ stage = "asking"
  /\ stage' = "ended"
  /\ UNCHANGED <<mode, kind, waited, due, beating, missed, inbound, reply, record>>

\* Mutated form of Beat: the heartbeats go on when the work has ended.
BeatOn ==
  /\ stage \in {"holding", "ended"} /\ due = 0 /\ record # None
  /\ due' = record.interval /\ beating' = TRUE
  /\ UNCHANGED <<mode, kind, stage, waited, missed, inbound, reply, record>>

\* heartbeat, heartbeat_activity: a call of its own, or nothing with the fallback.
Beat ==
  /\ stage = "holding" /\ due = 0
  /\ IF mode = "url" THEN due' = record.interval /\ beating' = TRUE
     ELSE due' = DEFAULT_HEARTBEAT_INTERVAL_SECONDS /\ UNCHANGED beating
  /\ UNCHANGED <<mode, kind, stage, waited, missed, inbound, reply, record>>

\* The worker ends, leaving the calls it has sent and those of this last step.
End(calls) ==
  /\ stage = "holding"
  /\ stage' = "ended" /\ beating' = FALSE
  /\ inbound' = inbound \cup calls \cup (IF beating THEN {"heartbeat"} ELSE {})
  /\ UNCHANGED <<mode, kind, waited, due, missed, reply, record>>

\* release, release_activity: nothing is sent with the fallback.
Release == End(IF mode = "url" THEN {"release"} ELSE {})

Crash == End({})

-----------------------------------------------------------------------------
\* The governor and the network, outside the repository.

Arrives(call) == call \in inbound /\ inbound' = inbound \ {call}

GovernorGrants(rec) ==
  /\ Arrives("create")
  /\ record' = rec /\ reply' = "granted"
  /\ UNCHANGED <<mode, kind>> /\ UNCHANGED worker

GovernorDecides ==
  \/ /\ kind = "lease"
     /\ \E ttl, requested \in TTLs, interval \in Intervals :
           GovernorGrants(LeaseFromRequest(ttl, interval, requested))
  \/ /\ kind = "activity"
     /\ \E ttl \in TTLs \ {None} : GovernorGrants(ActivityFromRequest(ttl))
  \/ /\ Arrives("create") /\ reply' = "refused"
     /\ UNCHANGED <<mode, kind, record>> /\ UNCHANGED worker

HeartbeatArrives ==
  /\ beating
  /\ beating' = FALSE /\ missed' = 0
  /\ record' = Renewed(record)
  /\ UNCHANGED <<mode, kind, stage, waited, due, inbound, reply>>

\* It does not arrive in time: much later, or never.  The worker's schedule does not wait
\* for it: a call that blocks up to the client's timeout (client.py:58-63) is taken off it.
HeartbeatLate ==
  /\ beating /\ missed < MaxMisses
  /\ beating' = FALSE /\ missed' = missed + 1
  /\ inbound' = inbound \cup {"heartbeat"}
  /\ UNCHANGED <<mode, kind, stage, waited, due, reply, record>>

LateHeartbeatArrives ==
  /\ Arrives("heartbeat")
  /\ record' = Renewed(record)
  /\ UNCHANGED <<mode, kind, reply>> /\ UNCHANGED worker

ReleaseArrives ==
  /\ Arrives("release")
  /\ record' = [record EXCEPT !.released = TRUE]
  /\ UNCHANGED <<mode, kind, reply>> /\ UNCHANGED worker

LoseCall ==
  /\ \E call \in inbound : Arrives(call)
  /\ UNCHANGED <<mode, kind, reply, record>> /\ UNCHANGED worker

\* A second passes: not past the client's timeout, nor past a heartbeat that is due.
Tick ==
  /\ ~ beating
  /\ stage = "asking" => waited < Timeout
  /\ stage = "holding" => due > 0
  /\ waited' = IF stage = "asking" THEN waited + 1 ELSE waited
  /\ due' = IF due > 0 THEN due - 1 ELSE due
  /\ record' = IF record # None /\ record.left > 0
               THEN [record EXCEPT !.left = @ - 1] ELSE record
  /\ UNCHANGED <<mode, kind, stage, beating, missed, inbound, reply>>

Next ==
  \/ RequestLease \/ RegisterActivity \/ ReceiveReply \/ CallFails
  \/ Beat \/ Release \/ Crash
  \/ GovernorDecides \/ HeartbeatArrives \/ HeartbeatLate \/ LateHeartbeatArrives
  \/ ReleaseArrives \/ LoseCall \/ Tick

Spec == Init /\ [][Next]_vars

\* Time passes, and a call that was made in time is over in the end.
Fairness ==
  /\ WF_vars(Tick)
  /\ WF_vars(Beat)
  /\ WF_vars(HeartbeatArrives)
  /\ WF_vars(ReceiveReply \/ CallFails)

FairSpec == Spec /\ Fairness

-----------------------------------------------------------------------------
Records ==
  [ttl : Int, left : Int, released : BOOLEAN, interval : Nat \ {0}, derived : BOOLEAN]

ASSUME RecordsAssumption == None \notin Records

TypeOK ==
  /\ mode \in Modes /\ kind \in Kinds
  /\ stage \in {"idle", "asking", "holding", "ended"}
  /\ waited \in 0..Timeout /\ due \in Nat /\ beating \in BOOLEAN
  /\ missed \in 0..MaxMisses
  /\ inbound \subseteq {"create", "heartbeat", "release"}
  /\ reply \in {"none", "granted", "refused"}
  /\ record \in Records \cup {None}

\* A worker that beats at the interval the record derived from its ttl, whether or not the
\* last call has returned, keeps its lease although every other heartbeat is lost, provided
\* the answer to its request took less than a third of the ttl; a ttl under 3 leaves no such
\* room (schemas.py:211-217).
KeepsItsLease ==
  (/\ stage = "holding" /\ record # None
   /\ record.derived /\ record.ttl >= 3 /\ 3 * waited < record.ttl
   /\ MaxMisses <= 1) => Active

\* Work that runs without the governor's knowledge is a lease under the fallback, never
\* an activity (client.py:81-82; test_activity_client_never_fabricates_fallback_activity).
HeldIsRecorded ==
  (stage = "holding" /\ record = None) => (kind = "lease" /\ mode = "fallback")

\* A released record is never active again, although a heartbeat that was sent before
\* the release may arrive after it (schemas.py:229-233, 255-258).
ReleaseIsFinal ==
  [][(record # None /\ record.released) => record'.released]_vars

Excused == kind = "lease" /\ mode = "fallback"

Work == IF stage \in {"idle", "asking"} THEN "before"
        ELSE IF stage = "holding" THEN "running" ELSE "over"

State == IF record = None THEN "none"
         ELSE IF record.released THEN "released"
         ELSE IF Active THEN "live" ELSE "lapsed"

L == INSTANCE Lease WITH excused <- Excused, work <- Work, lease <- State

\* Worker and governor together keep what a lease promises, although neither sees the
\* other's state and every call may be late or lost (client.py:39-90, schemas.py:198-258).
KeepsLease == L!Spec

\* Resources are given back when the worker is gone, also when the governor's grant or
\* the release was lost: no record stays active for ever (client.py:44-51, 68-76).
OrphanExpires == stage = "ended" ~> [](~ Active)

-----------------------------------------------------------------------------
(***************************************************************************)
(* What makes them inductive: the order of the calls, and how much time a  *)
(* record has left at least, beside the time to the worker's next beat.    *)
(***************************************************************************)
RecordIsTheGrant == record # None <=> reply = "granted"

CreateComesFirst ==
  "create" \in inbound => reply = "none" /\ stage \in {"asking", "ended"} /\ mode = "url"

LaterCallsHaveARecord == inbound \cap {"heartbeat", "release"} # {} => record # None

IdleIsFresh ==
  stage \in {"idle", "asking"} =>
    /\ missed = 0 /\ inbound \subseteq {"create"}
    /\ stage = "asking" => mode = "url"
    /\ stage = "idle" => inbound = {} /\ reply = "none" /\ waited = 0

HoldsAGrantOrFallback ==
  stage = "holding" =>
    \/ mode = "url" /\ record # None /\ due <= record.interval
    \/ mode = "fallback" /\ kind = "lease" /\ record = None /\ inbound = {}

BeatsItsGrant ==
  beating => stage = "holding" /\ mode = "url" /\ record # None /\ due = record.interval

ReleasedAtTheEnd ==
  ("release" \in inbound \/ (record # None /\ record.released)) => stage = "ended"

DerivedFromTheTtl ==
  (record # None /\ record.derived) => record.interval = DerivedInterval(record.ttl)

\* An interval for every heartbeat that may still be missed.
TimeLeft ==
  (/\ record # None /\ record.derived /\ record.ttl >= 3 /\ 3 * waited < record.ttl
   /\ MaxMisses <= 1) =>
     /\ stage = "asking" => record.left >= record.ttl - waited
     /\ stage = "holding" =>
          record.left > due + (IF missed = 0 THEN record.interval ELSE 0)
                            - (IF beating THEN record.interval ELSE 0)

InOrder ==
  /\ RecordIsTheGrant /\ CreateComesFirst /\ LaterCallsHaveARecord /\ IdleIsFresh
  /\ HoldsAGrantOrFallback /\ BeatsItsGrant /\ ReleasedAtTheEnd /\ DerivedFromTheTtl

IInv == TypeOK /\ InOrder /\ TimeLeft

=============================================================================
