------------------------------- MODULE Router --------------------------------
(***************************************************************************)
(* The decisions of the debate protocol over a thread of typed comments:   *)
(* whom a comment is routed to, the vote count, the deadlock guard, the    *)
(* convergence check (core/orchestrator_router.py) and the gate of a swarm *)
(* (core/swarm_wrapper.py).  They are functions of the thread; who writes  *)
(* it, and what a reader of it sees, is in CommentKinds.                   *)
(*                                                                         *)
(* A thread is the sequence of the kinds of its comments.  Reason strings  *)
(* and the counts copied into a verdict are left out.                      *)
(***************************************************************************)
EXTENDS Naturals, Sequences, FiniteSets

CONSTANTS
  Window,       \* deadlock_window of the gate
  MaxRounds,    \* max_rounds of the convergence check
  RatioNum,     \* its consensus_ratio is RatioNum / RatioDen
  RatioDen

ASSUME RouterConstantsOK ==
  /\ Window \in Nat /\ Window >= 2
  /\ MaxRounds \in Nat
  /\ RatioNum \in Nat /\ RatioDen \in Nat \ {0}

Kinds == {"propose", "ask", "evidence_for", "evidence_against", "challenge",
          "clarify", "refine", "concede", "synthesize", "summarize",
          "meta_directive", "vote_for", "vote_against", "abstain"}

Profiles == {"regent", "hanlinyuan", "archivist"}
Nobody   == "nobody"

-----------------------------------------------------------------------------
(* Routing.  Votes go to an aggregator, which is no profile.               *)

RouteComment(k) ==
  CASE k \in {"challenge", "meta_directive", "synthesize"}  -> "regent"
    [] k = "ask"                                            -> "hanlinyuan"
    [] k \in {"evidence_for", "evidence_against"}           -> "archivist"
    [] k \in {"vote_for", "vote_against", "abstain"}        -> "aggregator"
    [] OTHER                                                -> Nobody

-----------------------------------------------------------------------------
(* Votes *)

Positions(th, k) == {i \in DOMAIN th : th[i] = k}

AggregateVotes(th, k) == Cardinality(Positions(th, k))

For(th)     == AggregateVotes(th, "vote_for")
Against(th) == AggregateVotes(th, "vote_against")

Majority(th) ==
  IF For(th) > Against(th) THEN "for"
  ELSE IF Against(th) > For(th) THEN "against"
  ELSE "none"

(* Abstentions do not dilute the ratio, and a tie never wins. *)
Reaches(n, th) == n * RatioDen >= RatioNum * (For(th) + Against(th))

Consensus(th) ==
  IF For(th) + Against(th) = 0 THEN "none"
  ELSE IF Reaches(For(th), th) /\ For(th) > Against(th) THEN "for"
  ELSE IF Reaches(Against(th), th) /\ Against(th) > For(th) THEN "against"
  ELSE "none"

-----------------------------------------------------------------------------
(* Deadlock *)

Last(th) == th[Len(th)]

SettlingKinds == {"concede", "synthesize", "summarize"}

DetectDeadlock(th, w) ==
  /\ Len(th) >= w
  /\ \A i \in (Len(th) - w + 1) .. Len(th) : th[i] = Last(th)
  /\ Last(th) \notin SettlingKinds

DefaultWindow == 3

(* It looks for the deadlock again, with the default window. *)
DeadlockResponse(th) ==
  IF DetectDeadlock(th, DefaultWindow) THEN "regent" ELSE Nobody

-----------------------------------------------------------------------------
(* Convergence and gate *)

(* Faulty variant: the deadlock guard goes first. *)
ConvergenceCheckStallFirst(th) ==
  IF DetectDeadlock(th, DefaultWindow) THEN "force_regent"
  ELSE IF \/ th # <<>> /\ Last(th) \in SettlingKinds
          \/ Consensus(th) # "none" THEN "converged"
  ELSE IF Len(th) > MaxRounds THEN "force_regent"
  ELSE "continue"

ConvergenceCheck(th) ==
  IF \/ th # <<>> /\ Last(th) \in SettlingKinds
     \/ Consensus(th) # "none" THEN "converged"
  ELSE IF \/ DetectDeadlock(th, DefaultWindow)
          \/ Len(th) > MaxRounds THEN "force_regent"
  ELSE "continue"

(* The gate's own list of settling acts is shorter. *)
GateSettlingKinds == {"concede", "synthesize"}

Verdict(gate, deadlocked, hint) ==
  [gate |-> gate, deadlocked |-> deadlocked, hint |-> hint]

DecideGate(th) ==
  IF th = <<>>                     THEN Verdict("block", FALSE, Nobody)
  ELSE IF DetectDeadlock(th, Window) THEN Verdict("block", TRUE, DeadlockResponse(th))
  ELSE IF Majority(th) = "for"     THEN Verdict("pass", FALSE, Nobody)
  ELSE IF Last(th) \in GateSettlingKinds THEN Verdict("pass", FALSE, Nobody)
  ELSE Verdict("block", FALSE, RouteComment(Last(th)))
=============================================================================
