---------------------------- MODULE CommentKinds -----------------------------
(***************************************************************************)
(* The comments of a debate and their kinds.                               *)
(*                                                                         *)
(*   - Agents write free text with kanban_comment, which touches the table *)
(*     task_comments only; some also record a kind (comment_kind.py,       *)
(*     record_kind).                                                       *)
(*   - Every A2A worker, once a task has ended, runs a backfill over the   *)
(*     comments without a kind: those of its task, then the others up to a *)
(*     limit (task_handler.py, _ensure_comment_kind_backfill).  It guesses *)
(*     a kind from the text (comment_kind_classifier.py).                  *)
(*   - The verifier of a swarm reads the joined view, in which a comment   *)
(*     without a kind is a "propose", and decides with Router.             *)
(*                                                                         *)
(* The tables are in kanban.db, which is in WAL mode.  The backfill reads  *)
(* the rows of one SELECT while it inserts.  As long as that statement is  *)
(* open, its connection reads an old snapshot, and an insert fails at once *)
(* when another connection has committed since.  The driver fetches a row  *)
(* ahead: when the last row is handed out, the statement is closed, and    *)
(* the insert for that row replaces whatever is there by then.             *)
(*                                                                         *)
(* Abstractions.  A text is the set of phrases the patterns look for, and  *)
(* its [KIND] prefix.  Authors, reply links, metadata and the counters a   *)
(* backfill returns are left out; comments are never removed.              *)
(***************************************************************************)
EXTENDS Router, FiniteSetsExt

CONSTANTS
  Tasks,          \* tasks that have a thread
  Texts,          \* what a comment may say: [prefix : , phrases : ]
  Stated,         \* the kinds record_kind is called with by an agent
  Workers,        \* the A2A servers
  SweepLimit,     \* _BACKFILL_SWEEP_LIMIT
  NoKind,         \* not a kind
  MaxComments,    \* bound: comments
  MaxRecords      \* bound: calls of record_kind by agents

-----------------------------------------------------------------------------
(* comment_kind_classifier.py.  The patterns are tried in order; a vote    *)
(* against in Chinese words holds the word for "to oppose".                *)

Pattern(phrases, k) == [phrases |-> phrases, kind |-> k]

Patterns ==
  << Pattern({"directive"},       "meta_directive"),
     Pattern({"audit", "test"},   "evidence_for"),
     Pattern({"handoff", "done"}, "summarize"),
     Pattern({"revision"},        "refine"),
     Pattern({"block", "oppose"}, "challenge"),
     Pattern({"agree"},           "concede"),
     Pattern({"counterexample"},  "evidence_against"),
     Pattern({"citation"},        "evidence_for"),
     Pattern({"verdict"},         "synthesize"),
     Pattern({"recap"},           "summarize"),
     Pattern({"question"},        "ask"),
     Pattern({"alternative"},     "refine"),
     Pattern({"explanation"},     "clarify"),
     Pattern({"vote_support", "thumbs_up"},  "vote_for"),
     Pattern({"vote_oppose", "thumbs_down"}, "vote_against"),
     Pattern({"stand_aside"},     "abstain"),
     Pattern({"claim"},           "propose") >>

Holds(phrase) == IF phrase = "vote_oppose" THEN {phrase, "oppose"} ELSE {phrase}

Phrases == UNION {Patterns[n].phrases : n \in DOMAIN Patterns}

ClassifyHeuristic(x) ==
  LET said == UNION {Holds(p) : p \in x.phrases}
      hits == {n \in DOMAIN Patterns : Patterns[n].phrases \cap said # {}}
  IN  IF hits = {} THEN NoKind ELSE Patterns[Min(hits)].kind

(* Faulty variant: any prefix is taken for a kind. *)
ClassifyAnyPrefix(x) ==
  IF x.prefix # "none" THEN x.prefix ELSE ClassifyHeuristic(x)

(* A prefix that is no kind is no prefix. *)
Classify(x) == IF x.prefix \in Kinds THEN x.prefix ELSE ClassifyHeuristic(x)

All == "all tasks"

ASSUME CommentConstantsOK ==
  /\ Tasks \cap {All, "idle"} = {}
  /\ NoKind \notin Kinds
  /\ Stated \subseteq Kinds
  /\ \A x \in Texts : x.phrases \subseteq Phrases
  /\ SweepLimit \in Nat \ {0} /\ MaxComments \in Nat /\ MaxRecords \in Nat

-----------------------------------------------------------------------------
VARIABLES
  comments,   \* task_comments, in the order of their ids: [task : , text : ]
  kind,       \* a2a_comment_kinds: kind[c], or NoKind
  stated,     \* history: the kind an agent recorded last for c, or NoKind
  sweep,      \* sweep[w]: the backfill of w
  listed,     \* history: what the backfill of w listed for its own task,
              \* until an error ends that
  records     \* history: how many calls of record_kind there were

vars == <<comments, kind, stated, sweep, listed, records>>

Ids  == 1..MaxComments
Idle == [scope |-> "idle", todo |-> {}, done |-> 0, stale |-> FALSE]

Posted == DOMAIN comments

Init ==
  /\ comments = <<>>
  /\ kind     = [c \in Ids |-> NoKind]
  /\ stated   = [c \in Ids |-> NoKind]
  /\ sweep    = [w \in Workers |-> Idle]
  /\ listed   = [w \in Workers |-> {}]
  /\ records  = 0

(* The rows of the SELECT of a backfill; it hands them out in the order of  *)
(* the ids.                                                                 *)
Unclassified(scope) ==
  {c \in Posted : kind[c] = NoKind /\ scope \in {All, comments[c].task}}

(* The statement is open as long as there is a row after the next one. *)
Open(todo) == \E c, d \in todo : c # d

(* A commit: the snapshots that the open statements of the others read     *)
(* grow old, but not that of the worker in own.                            *)
Committed(own, s) ==
  [w \in Workers |->
     [s[w] EXCEPT !.stale = Open(s[w].todo) /\ (w \notin own \/ @)]]

Comment(t, x) ==
  /\ Len(comments) < MaxComments
  /\ comments' = Append(comments, [task |-> t, text |-> x])
  /\ sweep' = Committed({}, sweep)
  /\ UNCHANGED <<kind, stated, listed, records>>

RecordKind(c, k) ==
  /\ records < MaxRecords
  /\ kind'    = [kind EXCEPT ![c] = k]
  /\ stated'  = [stated EXCEPT ![c] = k]
  /\ sweep'   = Committed({}, sweep)
  /\ records' = records + 1
  /\ UNCHANGED <<comments, listed>>

-----------------------------------------------------------------------------
(* The backfill of a worker *)

Listing(scope) ==
  [scope |-> scope, todo |-> Unclassified(scope), done |-> 0, stale |-> FALSE]

Start(w, t) ==
  /\ sweep[w].scope = "idle"
  /\ sweep'  = [sweep EXCEPT ![w] = Listing(t)]
  /\ listed' = [listed EXCEPT ![w] = sweep'[w].todo]
  /\ UNCHANGED <<comments, kind, stated, records>>

(* Faulty variant: the limit holds for the comments of the own task too. *)
AtLimitAnyScope(w) == sweep[w].done >= SweepLimit

AtLimit(w) == sweep[w].scope = All /\ sweep[w].done >= SweepLimit

(* Faulty variant: an insert does not mind what others have committed. *)
OutdatedNever(w) == FALSE

Outdated(w) == Open(sweep[w].todo) /\ sweep[w].stale

(* The body of the loop for one row, to its commit. *)
Insert(w) ==
  /\ sweep[w].todo # {} /\ ~AtLimit(w) /\ ~Outdated(w)
  /\ LET c     == Min(sweep[w].todo)
         guess == Classify(comments[c].text)
     IN  kind' = [kind EXCEPT ![c] = IF guess = NoKind THEN "propose" ELSE guess]
  /\ sweep' = Committed({w}, [sweep EXCEPT ![w].todo = @ \ {Min(@)}, ![w].done = @ + 1])
  /\ UNCHANGED <<comments, stated, listed, records>>

(* "database is locked" ends both scopes. *)
Raise(w) ==
  /\ sweep[w].todo # {} /\ ~AtLimit(w) /\ Outdated(w)
  /\ sweep'  = [sweep EXCEPT ![w] = Idle]
  /\ listed' = [listed EXCEPT ![w] = {}]
  /\ UNCHANGED <<comments, kind, stated, records>>

(* Another error of sqlite3 is logged: that of the own task leaves its     *)
(* comments as they are, and the sweep of all goes on.                     *)
Skip(w) ==
  /\ sweep[w].todo # {} /\ ~AtLimit(w)
  /\ sweep'  = [sweep EXCEPT ![w] = IF @.scope = All THEN Idle ELSE Listing(All)]
  /\ listed' = [listed EXCEPT ![w] = {}]
  /\ UNCHANGED <<comments, kind, stated, records>>

Finish(w) ==
  /\ sweep[w].scope # "idle"
  /\ sweep[w].todo = {} \/ AtLimit(w)
  /\ IF sweep[w].scope = All
     THEN /\ sweep'  = [sweep EXCEPT ![w] = Idle]
          /\ listed' = [listed EXCEPT ![w] = {}]
     ELSE /\ sweep'  = [sweep EXCEPT ![w] = Listing(All)]
          /\ UNCHANGED listed
  /\ UNCHANGED <<comments, kind, stated, records>>

Next ==
  \/ \E t \in Tasks, x \in Texts : Comment(t, x)
  \/ \E c \in Posted, k \in Stated : RecordKind(c, k)
  \/ \E w \in Workers : \/ \E t \in Tasks : Start(w, t)
                        \/ Insert(w) \/ Raise(w) \/ Skip(w) \/ Finish(w)

Spec == Init /\ [][Next]_vars

-----------------------------------------------------------------------------
(* get_thread: the joined view, in the order of the ids *)

Thread(t) ==
  LET ids == {c \in Posted : comments[c].task = t}
      Nth(n) == CHOOSE c \in ids : Cardinality({d \in ids : d <= c}) = n
  IN  [n \in 1..Cardinality(ids) |-> IF kind[Nth(n)] = NoKind THEN "propose" ELSE kind[Nth(n)]]

-----------------------------------------------------------------------------
(* Properties *)

Backfill ==
  [scope : Tasks \union {All, "idle"}, todo : SUBSET Ids, done : Nat, stale : BOOLEAN]

(* Types; a backfill lists posted comments, and only those have a kind.    *)
TypeOK ==
  /\ comments \in Seq([task : Tasks, text : Texts]) /\ Len(comments) <= MaxComments
  /\ kind \in [Ids -> Kinds \union {NoKind}]
  /\ stated \in [Ids -> Stated \union {NoKind}]
  /\ sweep \in [Workers -> Backfill]
  /\ listed \in [Workers -> SUBSET Ids]
  /\ records \in 0..MaxRecords
  /\ \A w \in Workers : sweep[w].todo \subseteq Posted
  /\ \A c \in Ids \ Posted : kind[c] = NoKind /\ stated[c] = NoKind

(* The kind an agent has recorded is replaced by a guess only in the last  *)
(* row that a backfill has listed, whose statement is closed by then.      *)
(* (The backfill is documented to leave rows that have a kind alone,       *)
(* task_handler.py:250.)                                                   *)
StatedKindStands ==
  [][\A c \in Ids :
       stated[c] # NoKind /\ kind'[c] # kind[c]
         => \/ kind'[c] = stated'[c]
            \/ \E w \in Workers : sweep[w].todo = {c}]_vars

(* A worker whose backfill has got past its own task without an error has  *)
(* left no comment of that task that it listed without a kind, the default *)
(* included.                                                               *)
OwnTaskClassified ==
  \A w \in Workers, c \in Ids :
    sweep[w].scope = All /\ c \in listed[w] => kind[c] # NoKind

(* The two readers of a thread, the convergence check and the gate, never  *)
(* contradict each other: votes that carry a side settle the debate, and   *)
(* open the gate only to "for", unless the last acts are all alike; a      *)
(* concede or a synthesis as the last act settles both, whatever came      *)
(* before it.                                                              *)
VerdictsAgree ==
  \A t \in Tasks :
    LET th == Thread(t)
        settled == th # <<>> /\ Last(th) \in GateSettlingKinds
    IN  /\ Consensus(th) # "none" \/ settled => ConvergenceCheck(th) = "converged"
        /\ settled => DecideGate(th).gate = "pass"
        /\ ~settled /\ Consensus(th) = "for" /\ ~DetectDeadlock(th, Window)
             => DecideGate(th).gate = "pass"
        /\ ~settled /\ Consensus(th) = "against" => DecideGate(th).gate = "block"

(* What a comment without a prefix votes in its own words. *)
Vote(x) ==
  IF x.phrases = {"vote_support"} THEN "for"
  ELSE IF x.phrases = {"vote_oppose"} THEN "against"
  ELSE "none"

Voters(t, side) ==
  {c \in Posted : comments[c].task = t /\ Vote(comments[c].text) = side}

(* The patterns are documented to be in an order in which the more         *)
(* specific one comes first (comment_kind_classifier.py:34): once all the  *)
(* comments have a kind and no agent has recorded one, a thread in which   *)
(* more vote against than for does not pass the gate by its votes.         *)
GateCountsVotes ==
  \A t \in Tasks :
    /\ records = 0
    /\ \A c \in Posted : kind[c] # NoKind
    /\ Cardinality(Voters(t, "against")) > Cardinality(Voters(t, "for"))
    => Majority(Thread(t)) # "for"
=============================================================================
