--------------------------- MODULE MCCommentKinds ----------------------------
(* Constants of the comment kinds for TLC: the texts are plain words after *)
(* a prefix that is no kind, a vote for in words and a vote against by its *)
(* prefix; or, for the votes in words, a vote for and a vote against.      *)
EXTENDS CommentKinds, TLC

CONSTANTS t1, t2, w1, w2, none

Text(prefix, phrases) == [prefix |-> prefix, phrases |-> phrases]

MCTexts == {Text("unknown", {}), Text("none", {"vote_support", "claim"}),
            Text("vote_against", {"question"})}

MCVotes == {Text("none", {"vote_support"}), Text("none", {"vote_oppose"})}

Symmetry == Permutations(Tasks) \union Permutations(Workers)
=============================================================================
