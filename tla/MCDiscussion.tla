---------------------------- MODULE MCDiscussion -----------------------------
(* Constants of the discussion for TLC: every message of at most two       *)
(* phrases, and two of three.                                              *)
EXTENDS Discussion

MCTasks    == 1..MaxRounds
(* No round; more lines than fit; all lines, although 0 are asked for; one line. *)
MCCalls == {<<0, 3>>, <<3, 3>>, <<2, 0>>, <<2, 1>>}

MCMessages == {{p, q} : p, q \in Phrases} \union {{}}
                \union {{"refactor", "core architecture", "why"},
                        {"report", "suggestion", "deploy"}}
=============================================================================
