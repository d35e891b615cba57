---------------------------- MODULE EventDelivery ----------------------------
(***************************************************************************)
(* What the event bridge promises its sinks, without files, offsets or     *)
(* crashes: delivery at least once.  Each profile has a log of events,     *)
(* each sink has seen some events and, per profile, acknowledged some.     *)
(* Only what a sink has seen is ever acknowledged, an acknowledgement is   *)
(* forgotten only when the log as a whole is replaced, and nothing is seen *)
(* that was not emitted.                                                   *)
(***************************************************************************)
CONSTANTS Profiles, Sinks, Events, ProfileOf

VARIABLES
  ever,   \* the events that were emitted
  log,    \* log[p]: the events the log of p holds for the sinks
  seen,   \* seen[s]: the events s was handed
  acked   \* acked[s][p]: the events s will not be handed again from this log

vars == <<ever, log, seen, acked>>

Init ==
  /\ ever  = {}
  /\ log   = [p \in Profiles |-> {}]
  /\ seen  = [s \in Sinks |-> {}]
  /\ acked = [s \in Sinks |-> [p \in Profiles |-> {}]]

(* An event is added to the log of its profile, or is lost or not for the  *)
(* sinks.                                                                  *)
Publish(e) ==
  /\ e \notin ever
  /\ ever' = ever \union {e}
  /\ \/ log' = [log EXCEPT ![ProfileOf[e]] = @ \union {e}]
     \/ log' = log
  /\ UNCHANGED <<seen, acked>>

(* An event arrives with a new log; every sink starts again on it. *)
Replace(e) ==
  LET p == ProfileOf[e] IN
  /\ e \notin ever
  /\ ever' = ever \union {e}
  /\ \E L \in SUBSET ever' : log' = [log EXCEPT ![p] = L]
  /\ acked' = [s \in Sinks |-> [acked[s] EXCEPT ![p] = {}]]
  /\ UNCHANGED seen

Hand(s, e) ==
  /\ e \in ever
  /\ seen' = [seen EXCEPT ![s] = @ \union {e}]
  /\ UNCHANGED <<ever, log, acked>>

Acknowledge(s, p) ==
  /\ \E A \in SUBSET (log[p] \intersect seen[s]) :
       /\ acked[s][p] \subseteq A
       /\ acked' = [acked EXCEPT ![s][p] = A]
  /\ UNCHANGED <<ever, log, seen>>

Next ==
  \/ \E e \in Events : Publish(e) \/ Replace(e)
  \/ \E s \in Sinks, e \in Events : Hand(s, e)
  \/ \E s \in Sinks, p \in Profiles : Acknowledge(s, p)

Spec == Init /\ [][Next]_vars

=============================================================================
