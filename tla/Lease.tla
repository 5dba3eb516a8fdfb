-------------------------------- MODULE Lease --------------------------------
(***************************************************************************)
(* What a lease or an activity promises: work begins on a record or, where *)
(* it is excused from one, without; the record is made once, lives and     *)
(* lapses by its time, comes back to life only for work that has begun,    *)
(* and is given back at most once, after the work and for good.            *)
(***************************************************************************)
VARIABLES
  excused,  \* the work may begin without a record
  work,     \* "before", "running", "over"
  lease     \* "none", "live", "lapsed", "released"

vars == <<excused, work, lease>>

Init == excused \in BOOLEAN /\ work = "before" /\ lease = "none"

Begin ==
  /\ work = "before" /\ (excused \/ lease # "none")
  /\ work' = "running" /\ UNCHANGED <<excused, lease>>

Finish ==
  /\ work # "over" /\ work' = "over"
  /\ UNCHANGED <<excused, lease>>

\* Not for work that is running: its record was there before, or it never gets one.
Grant ==
  /\ lease = "none" /\ ~ excused /\ work # "running"
  /\ lease' \in {"live", "lapsed"} /\ UNCHANGED <<excused, work>>

Lapse ==
  /\ lease = "live" /\ lease' = "lapsed"
  /\ UNCHANGED <<excused, work>>

Renew ==
  /\ lease = "lapsed" /\ work # "before" /\ lease' = "live"
  /\ UNCHANGED <<excused, work>>

Return ==
  /\ lease \in {"live", "lapsed"} /\ work = "over" /\ lease' = "released"
  /\ UNCHANGED <<excused, work>>

Next == Begin \/ Finish \/ Grant \/ Lapse \/ Renew \/ Return

Spec == Init /\ [][Next]_vars

=============================================================================
