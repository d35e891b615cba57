---------------------------- MODULE AutoDiscuss ------------------------------
(***************************************************************************)
(* Whether a message to the cabinet group starts a discussion, and which   *)
(* (core/auto_discuss.py, classify_message).                               *)
(*                                                                         *)
(* Abstractions.  A message is the set of the phrases in it that matter; a *)
(* table of patterns is, group by group, the set of phrases it matches.    *)
(* Each phrase stands for the texts that match the same patterns; "VS" is  *)
(* apart from "vs" since the tables ignore the case and the round patterns *)
(* do not.  The topic, the persona and the stance are wording.             *)
(***************************************************************************)
EXTENDS Naturals, FiniteSets

RoleplayPatterns ==
  [opposition      |-> {"vs", "VS", "plans compared"},
   ought_to        |-> {"should we or not", "is it worth it"},
   tradeoff        |-> {"pros and cons"},
   change_proposal |-> {"refactor", "upgrade"},
   alternatives    |-> {"this or that?", "plans compared"}]

SynthesizePatterns ==
  [analysis       |-> {"analyse", "analyse a bit"},
   deep_question  |-> {"why", "root of it", "what is the cause"},
   output_request |-> {"report", "suggestion", "plans compared"}]

NoDiscussPatterns    == {"good morning", "open", "what is the cause"}
SimpleActionPatterns == {"deploy", "open"}

BinaryPatterns   == {"vs", "should we or not", "this or that?"}
CriticalPatterns == {"core architecture"}
ComplexPatterns  == {"choice of technology"}
ShallowPatterns  == {"analyse a bit", "preliminary"}
DeepPatterns     == {"report", "plans compared", "in depth"}

Phrases ==
  UNION {RoleplayPatterns[g] : g \in DOMAIN RoleplayPatterns}
    \union UNION {SynthesizePatterns[g] : g \in DOMAIN SynthesizePatterns}
    \union NoDiscussPatterns \union SimpleActionPatterns \union CriticalPatterns
    \union ComplexPatterns \union ShallowPatterns \union DeepPatterns

Hits(m, patterns) == m \cap patterns # {}

AtMost(n, cap) == IF n > cap THEN cap ELSE n

(* A group counts once, 4 or 3; but a deep question, unless the message    *)
(* asks for an action, counts 3 for each hit, and all of them 4 at most.   *)
StrongGroups == {"opposition", "ought_to", "analysis", "output_request"}

GroupScore(hit) == 4 * Cardinality(hit \cap StrongGroups) + 3 * Cardinality(hit \ StrongGroups)

RoleplayHits(m) == {g \in DOMAIN RoleplayPatterns : Hits(m, RoleplayPatterns[g])}

ScoreRoleplay(m) == AtMost(GroupScore(RoleplayHits(m)), 10)

SynthesizeHits(m) == {g \in {"analysis", "output_request"} : Hits(m, SynthesizePatterns[g])}

Questions(m) ==
  IF Hits(m, SimpleActionPatterns) THEN {} ELSE m \cap SynthesizePatterns.deep_question

ScoreSynthesize(m) ==
  AtMost(GroupScore(SynthesizeHits(m)) + AtMost(3 * Cardinality(Questions(m)), 4), 10)

DetermineRounds(m, score) ==
  CASE Hits(m, BinaryPatterns)   -> 2
    [] ~Hits(m, BinaryPatterns) /\ Hits(m, CriticalPatterns) -> 5
    [] OTHER -> IF Hits(m, ComplexPatterns) \/ score >= 7 THEN 4 ELSE 3

DetermineDepth(m, score) ==
  CASE Hits(m, ShallowPatterns) -> "shallow"
    [] ~Hits(m, ShallowPatterns) /\ (Hits(m, DeepPatterns) \/ score >= 7) -> "deep"
    [] OTHER -> IF score >= 4 THEN "normal" ELSE "shallow"

Skip == [mode |-> "none", rounds |-> 0, depth |-> "none"]

(* Faulty variant: the scores must differ by the threshold. *)
ClassifyMessageByMargin(m) ==
  LET rp == ScoreRoleplay(m)  sy == ScoreSynthesize(m)
      off == m = {} \/ Hits(m, NoDiscussPatterns) \/ (rp < sy + 3 /\ sy < rp + 3)
  IN  CASE off -> Skip
        [] ~off /\ rp > sy ->
             [mode |-> "roleplay", rounds |-> DetermineRounds(m, rp), depth |-> "none"]
        [] OTHER -> [mode |-> "synthesize", rounds |-> 0, depth |-> DetermineDepth(m, sy)]

ClassifyMessage(m) ==
  LET rp == ScoreRoleplay(m)  sy == ScoreSynthesize(m)
      off == m = {} \/ Hits(m, NoDiscussPatterns) \/ rp + sy < 3
  IN  CASE off -> Skip
        [] ~off /\ rp > sy ->
             [mode |-> "roleplay", rounds |-> DetermineRounds(m, rp), depth |-> "none"]
        [] OTHER -> [mode |-> "synthesize", rounds |-> 0, depth |-> DetermineDepth(m, sy)]
=============================================================================
