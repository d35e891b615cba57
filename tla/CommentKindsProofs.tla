------------------------- MODULE CommentKindsProofs --------------------------
(***************************************************************************)
(* Proofs about the comment kinds, for any tasks, texts, workers and       *)
(* limits: a recorded kind stands but for the last row of a listing, a     *)
(* task is classified when its backfill has passed it, and the readers of  *)
(* a thread do not contradict each other.                                  *)
(***************************************************************************)
EXTENDS CommentKinds, FiniteSetTheorems, WellFoundedInduction, TLAPS

(* A nonempty set of naturals has a least element: of its initial parts,   *)
(* which are finite, a least one belongs to it.                            *)
LEMMA MinIsLeast ==
  ASSUME NEW T \in SUBSET Nat, T # {}
  PROVE  Min(T) \in T /\ \A y \in T : Min(T) <= y
<1>. DEFINE Upto(n) == T \cap (0..n)
            F == {Upto(n) : n \in T}
<1>1. ASSUME NEW n \in T PROVE IsFiniteSet(Upto(n))
  <2>1. IsFiniteSet(0..n)
    BY FS_Interval
  <2>. QED
    BY <2>1, FS_Intersection
<1>2. F \subseteq FiniteSubsetsOf(T) /\ F # {}
  BY <1>1 DEF FiniteSubsetsOf
<1>3. PICK S \in F : \A U \in F : ~(<<U, S>> \in StrictSubsetOrdering(T))
  <2>. HIDE DEF F
  <2>. QED
    BY <1>2, FS_StrictSubsetOrderingWellFounded, WFMin
<1>4. PICK x \in T : S = Upto(x)
  BY <1>3
<1>5. ASSUME NEW y \in T PROVE x <= y
  <2>. SUFFICES ASSUME y < x PROVE FALSE
    OBVIOUS
  <2>1. Upto(y) \subseteq Upto(x) /\ x \in Upto(x) /\ x \notin Upto(y)
    OBVIOUS
  <2>2. <<Upto(y), S>> \in StrictSubsetOrdering(T)
    BY <2>1, <1>4 DEF StrictSubsetOrdering
  <2>. QED
    BY <2>2, <1>3
<1>. QED
  BY <1>5 DEF Min

(* What the classifier returns is a kind, or none. *)
LEMMA ClassifyType ==
  ASSUME NEW x \in Texts
  PROVE  Classify(x) \in Kinds \union {NoKind}
<1>. DEFINE said == UNION {Holds(p) : p \in x.phrases}
            hits == {n \in DOMAIN Patterns : Patterns[n].phrases \cap said # {}}
<1>1. DOMAIN Patterns = 1..17 /\ \A n \in 1..17 : Patterns[n].kind \in Kinds
  BY DEF Patterns, Pattern, Kinds
<1>2. hits # {} => Min(hits) \in 1..17
  <2>. hits \subseteq 1..17 /\ hits \in SUBSET Nat
    BY <1>1
  <2>. HIDE DEF hits
  <2>. QED
    BY MinIsLeast
<1>. HIDE DEF said
<1>3. ClassifyHeuristic(x) = IF hits = {} THEN NoKind ELSE Patterns[Min(hits)].kind
  BY DEF ClassifyHeuristic, said
<1>. HIDE DEF hits
<1>. QED
  BY <1>1, <1>2, <1>3 DEF Classify

-----------------------------------------------------------------------------
(* What an agent has recorded is a kind of the comment. *)
StatedOK == \A c \in Ids : stated[c] # NoKind => kind[c] # NoKind

(* A backfill that still lists a comment whose kind an agent has recorded  *)
(* reads an old snapshot, unless it is the last row.                       *)
SnapshotsOK ==
  \A w \in Workers, c \in Ids :
    c \in sweep[w].todo /\ stated[c] # NoKind =>
      sweep[w].stale \/ sweep[w].todo = {c}

(* What a backfill has listed of its task, and not yet recorded, is still  *)
(* to do while it is in that scope.                                        *)
ListedOK ==
  \A w \in Workers, c \in Ids :
    c \in listed[w] /\ kind[c] = NoKind =>
      c \in sweep[w].todo /\ sweep[w].scope \notin {All, "idle"}

IInv == TypeOK /\ StatedOK /\ SnapshotsOK /\ ListedOK

LEMMA CommittedFields ==
  ASSUME NEW s \in [Workers -> Backfill], NEW own
  PROVE  /\ Committed(own, s) \in [Workers -> Backfill]
         /\ \A w \in Workers :
              /\ Committed(own, s)[w].scope = s[w].scope
              /\ Committed(own, s)[w].todo  = s[w].todo
              /\ Committed(own, s)[w].done  = s[w].done
              /\ Committed(own, s)[w].stale <=> (Open(s[w].todo) /\ (w \notin own \/ s[w].stale))
<1>. SUFFICES ASSUME NEW w \in Workers
              PROVE  /\ Committed(own, s)[w] \in Backfill
                     /\ Committed(own, s)[w].scope = s[w].scope
                     /\ Committed(own, s)[w].todo  = s[w].todo
                     /\ Committed(own, s)[w].done  = s[w].done
                     /\ Committed(own, s)[w].stale
                          <=> (Open(s[w].todo) /\ (w \notin own \/ s[w].stale))
  BY DEF Committed
<1>1. Open(s[w].todo) \in BOOLEAN
  BY DEF Open
<1>2. /\ s[w] \in Backfill
      /\ Committed(own, s)[w] = [s[w] EXCEPT !.stale = Open(s[w].todo) /\ (w \notin own \/ @)]
  BY DEF Committed
<1>. QED
  BY <1>1, <1>2 DEF Backfill

LEMMA ListingType ==
  ASSUME TypeOK, NEW scope \in Tasks \union {All}
  PROVE  /\ Listing(scope) \in Backfill
         /\ Listing(scope).scope = scope
         /\ Listing(scope).todo = Unclassified(scope)
         /\ Unclassified(scope) \subseteq Posted
         /\ \A c \in Unclassified(scope) : kind[c] = NoKind
<1>1. Unclassified(scope) \subseteq Posted /\ Posted \subseteq Ids
  BY CommentConstantsOK DEF Unclassified, TypeOK, Posted, Ids
<1>. QED
  BY <1>1 DEF Listing, Backfill, Unclassified

-----------------------------------------------------------------------------
LEMMA InitIInv == Init => IInv
<1>. SUFFICES ASSUME Init PROVE IInv
  OBVIOUS
<1>1. Idle \in Backfill /\ Idle.todo = {}
  BY DEF Idle, Backfill
<1>2. TypeOK
  BY <1>1, CommentConstantsOK DEF Init, TypeOK, Posted
<1>. QED
  BY <1>1, <1>2 DEF Init, IInv, StatedOK, SnapshotsOK, ListedOK

LEMMA CommentStep ==
  ASSUME IInv, NEW t \in Tasks, NEW x \in Texts, Comment(t, x)
  PROVE  IInv'
<1>. USE DEF IInv, Comment
<1>1. /\ sweep' \in [Workers -> Backfill]
      /\ \A w \in Workers : sweep'[w].todo = sweep[w].todo /\ sweep'[w].scope = sweep[w].scope
      /\ \A w \in Workers : (sweep'[w].stale <=> Open(sweep[w].todo))
  BY CommittedFields DEF TypeOK
<1>2. /\ comments' \in Seq([task : Tasks, text : Texts])
      /\ Len(comments') = Len(comments) + 1
      /\ Len(comments) \in Nat
  <2>1. comments \in Seq([task : Tasks, text : Texts])
    BY DEF TypeOK
  <2>2. [task |-> t, text |-> x] \in [task : Tasks, text : Texts]
    OBVIOUS
  <2>. QED
    BY <2>1, <2>2
<1>3. Posted \subseteq Posted'
  BY <1>2 DEF TypeOK, Posted
<1>4. TypeOK'
  <2>1. Len(comments') <= MaxComments
    BY <1>2, CommentConstantsOK
  <2>. QED
    BY <1>1, <1>2, <1>3, <2>1 DEF TypeOK
<1>5. SnapshotsOK'
  BY <1>1 DEF SnapshotsOK, Open
<1>. QED
  BY <1>1, <1>4, <1>5 DEF StatedOK, ListedOK, Ids

LEMMA RecordKindStep ==
  ASSUME IInv, NEW c \in Posted, NEW k \in Stated, RecordKind(c, k)
  PROVE  IInv'
<1>. USE CommentConstantsOK DEF IInv, RecordKind
<1>1. /\ sweep' \in [Workers -> Backfill]
      /\ \A w \in Workers : sweep'[w].todo = sweep[w].todo /\ sweep'[w].scope = sweep[w].scope
      /\ \A w \in Workers : (sweep'[w].stale <=> Open(sweep[w].todo))
  BY CommittedFields DEF TypeOK
<1>2. TypeOK'
  <2>1. /\ UNCHANGED <<comments, listed>> /\ records' \in 0..MaxRecords
        /\ c \in Ids /\ Posted' = Posted
    BY DEF TypeOK, Posted, Ids
  <2>2. /\ kind' \in [Ids -> Kinds \union {NoKind}]
        /\ stated' \in [Ids -> Stated \union {NoKind}]
        /\ \A d \in Ids \ Posted : kind'[d] = NoKind /\ stated'[d] = NoKind
    BY <2>1 DEF TypeOK
  <2>. QED
    BY <1>1, <2>1, <2>2 DEF TypeOK
<1>3. SnapshotsOK'
  BY <1>1 DEF SnapshotsOK, Open
<1>4. StatedOK' /\ ListedOK'
  BY <1>1 DEF TypeOK, StatedOK, ListedOK
<1>. QED
  BY <1>2, <1>3, <1>4

LEMMA StartStep ==
  ASSUME IInv, NEW w \in Workers, NEW t \in Tasks, Start(w, t)
  PROVE  IInv'
<1>. USE CommentConstantsOK DEF IInv, Start
<1>1. /\ Listing(t) \in Backfill /\ Listing(t).todo \subseteq Posted
      /\ Listing(t).scope = t
      /\ \A c \in Listing(t).todo : kind[c] = NoKind
  BY ListingType
<1>2. sweep'[w] = Listing(t) /\ \A v \in Workers \ {w} : sweep'[v] = sweep[v]
  BY DEF TypeOK
<1>3. listed'[w] = Listing(t).todo /\ \A v \in Workers \ {w} : listed'[v] = listed[v]
  BY <1>2 DEF TypeOK
<1>4. TypeOK'
  BY <1>1, <1>2, <1>3 DEF TypeOK, Posted, Ids
<1>5. SnapshotsOK'
  BY <1>1, <1>2 DEF SnapshotsOK, StatedOK
<1>6. ListedOK'
  BY <1>1, <1>2, <1>3 DEF ListedOK
<1>. QED
  BY <1>4, <1>5, <1>6 DEF StatedOK

(* The row of an insert, and what it leaves of the backfills. *)
LEMMA InsertFacts ==
  ASSUME TypeOK, NEW w \in Workers, Insert(w)
  PROVE  LET c == Min(sweep[w].todo) IN
         /\ c \in Posted /\ c \in Ids /\ c \in sweep[w].todo
         /\ \E k \in Kinds : kind' = [kind EXCEPT ![c] = k]
         /\ sweep' \in [Workers -> Backfill]
         /\ sweep'[w].todo = sweep[w].todo \ {c}
         /\ (sweep'[w].stale <=> Open(sweep[w].todo \ {c}) /\ sweep[w].stale)
         /\ \A v \in Workers : sweep'[v].scope = sweep[v].scope
         /\ \A v \in Workers \ {w} :
              sweep'[v].todo = sweep[v].todo /\ (sweep'[v].stale <=> Open(sweep[v].todo))
<1>. DEFINE c == Min(sweep[w].todo)
            s == [sweep EXCEPT ![w].todo = @ \ {Min(@)}, ![w].done = @ + 1]
<1>. USE CommentConstantsOK
<1>1. sweep[w].todo \in SUBSET Posted /\ Posted \in SUBSET Ids /\ Ids \in SUBSET Nat
  BY DEF TypeOK, Posted, Ids
<1>2. c \in sweep[w].todo
  BY <1>1, MinIsLeast DEF Insert
<1>3. \E k \in Kinds : kind' = [kind EXCEPT ![c] = k]
  <2>1. comments[c].text \in Texts
    <3>1. c \in DOMAIN comments
      BY <1>1, <1>2 DEF Posted
    <3>. HIDE DEF c
    <3>2. comments \in Seq([task : Tasks, text : Texts])
      BY DEF TypeOK
    <3>3. ASSUME NEW R, comments \in Seq(R), NEW i \in DOMAIN comments PROVE comments[i] \in R
      BY <3>3
    <3>4. comments[c] \in [task : Tasks, text : Texts]
      BY <3>1, <3>2, <3>3
    <3>. QED
      BY <3>4
  <2>2. Classify(comments[c].text) \in Kinds \union {NoKind}
    BY <2>1, ClassifyType
  <2>. QED
    BY <2>2 DEF Insert, Kinds
<1>4. /\ s \in [Workers -> Backfill]
      /\ s[w].todo = sweep[w].todo \ {c} /\ s[w].scope = sweep[w].scope
      /\ s[w].stale = sweep[w].stale
      /\ \A v \in Workers \ {w} : s[v] = sweep[v]
  <2>1. sweep[w] \in Backfill
    BY DEF TypeOK
  <2>2. s[w] = [sweep[w] EXCEPT !.todo = sweep[w].todo \ {c}, !.done = sweep[w].done + 1]
    BY DEF TypeOK
  <2>3. sweep[w].todo \ {c} \in SUBSET Ids
    BY <1>1
  <2>4. /\ s[w] \in Backfill
        /\ s[w].todo = sweep[w].todo \ {c} /\ s[w].scope = sweep[w].scope
        /\ s[w].stale = sweep[w].stale
    <3>1. /\ sweep[w].scope \in Tasks \union {All, "idle"}
          /\ sweep[w].done \in Nat /\ sweep[w].stale \in BOOLEAN
          /\ sweep[w] = [scope |-> sweep[w].scope, todo |-> sweep[w].todo,
                          done |-> sweep[w].done, stale |-> sweep[w].stale]
      BY <2>1 DEF Backfill
    <3>2. s[w] = [scope |-> sweep[w].scope, todo |-> sweep[w].todo \ {c},
                  done |-> sweep[w].done + 1, stale |-> sweep[w].stale]
      <4>. HIDE DEF c, s
      <4>. QED
        BY <3>1, <2>2
    <3>. HIDE DEF c, s
    <3>. QED
      BY <3>1, <3>2, <2>3 DEF Backfill
  <2>. QED
    BY <2>4 DEF TypeOK
<1>5. sweep' = Committed({w}, s)
  BY DEF Insert
<1>. HIDE DEF s
<1>6. /\ Committed({w}, s) \in [Workers -> Backfill]
      /\ \A v \in Workers :
           /\ Committed({w}, s)[v].scope = s[v].scope
           /\ Committed({w}, s)[v].todo  = s[v].todo
           /\ Committed({w}, s)[v].stale <=> (Open(s[v].todo) /\ (v \notin {w} \/ s[v].stale))
  BY <1>4, CommittedFields
<1>. HIDE DEF c
<1>7. /\ sweep' \in [Workers -> Backfill]
      /\ sweep'[w].todo = sweep[w].todo \ {c}
      /\ (sweep'[w].stale <=> Open(sweep[w].todo \ {c}) /\ sweep[w].stale)
  BY <1>4, <1>5, <1>6
<1>8. /\ \A v \in Workers : sweep'[v].scope = sweep[v].scope
      /\ \A v \in Workers \ {w} :
           sweep'[v].todo = sweep[v].todo /\ (sweep'[v].stale <=> Open(sweep[v].todo))
  BY <1>4, <1>5, <1>6
<1>9. c \in Posted /\ c \in Ids
  BY <1>1, <1>2
<1>. QED
  BY <1>2, <1>3, <1>7, <1>8, <1>9 DEF c

LEMMA InsertStep ==
  ASSUME IInv, NEW w \in Workers, Insert(w)
  PROVE  IInv'
<1>. DEFINE c == Min(sweep[w].todo)
<1>. USE CommentConstantsOK DEF IInv
<1>1. /\ c \in Posted /\ c \in Ids /\ c \in sweep[w].todo
      /\ \E k \in Kinds : kind' = [kind EXCEPT ![c] = k]
      /\ sweep' \in [Workers -> Backfill]
      /\ sweep'[w].todo = sweep[w].todo \ {c}
      /\ (sweep'[w].stale <=> Open(sweep[w].todo \ {c}) /\ sweep[w].stale)
      /\ \A v \in Workers : sweep'[v].scope = sweep[v].scope
      /\ \A v \in Workers \ {w} :
           sweep'[v].todo = sweep[v].todo /\ (sweep'[v].stale <=> Open(sweep[v].todo))
  BY InsertFacts
<1>2. UNCHANGED <<comments, stated, listed, records>>
  BY DEF Insert
<1>. HIDE DEF c
<1>3. TypeOK'
  <2>1. Posted' = Posted
    BY <1>2 DEF Posted
  <2>2. /\ kind' \in [Ids -> Kinds \union {NoKind}]
        /\ \A d \in Ids \ Posted : kind'[d] = NoKind /\ stated'[d] = NoKind
    BY <1>1, <1>2 DEF TypeOK
  <2>3. \A v \in Workers : sweep'[v].todo \subseteq Posted
    BY <1>1 DEF TypeOK
  <2>. QED
    BY <1>1, <1>2, <2>1, <2>2, <2>3 DEF TypeOK
<1>4. SnapshotsOK'
  BY <1>1, <1>2 DEF SnapshotsOK, Open
<1>5. StatedOK' /\ ListedOK'
  BY <1>1, <1>2 DEF TypeOK, StatedOK, ListedOK
<1>. QED
  BY <1>3, <1>4, <1>5

LEMMA EndStep ==
  ASSUME IInv, NEW w \in Workers, Raise(w) \/ Skip(w) \/ Finish(w)
  PROVE  IInv'
<1>. USE CommentConstantsOK DEF IInv
<1>1. Idle \in Backfill /\ Idle.todo = {}
  BY DEF Idle, Backfill
<1>2. CASE /\ sweep' = [sweep EXCEPT ![w] = Idle]
           /\ listed' = [listed EXCEPT ![w] = {}]
           /\ UNCHANGED <<comments, kind, stated, records>>
  <2>1. TypeOK'
    BY <1>1, <1>2 DEF TypeOK, Posted
  <2>. QED
    BY <1>1, <1>2, <2>1 DEF TypeOK, StatedOK, SnapshotsOK, ListedOK
<1>3. CASE /\ sweep' = [sweep EXCEPT ![w] = Listing(All)]
           /\ UNCHANGED <<comments, kind, stated, records>>
           /\ \/ sweep[w].todo = {} /\ UNCHANGED listed
              \/ listed' = [listed EXCEPT ![w] = {}]
  <2>1. /\ Listing(All) \in Backfill /\ Listing(All).todo \subseteq Posted
        /\ \A c \in Listing(All).todo : kind[c] = NoKind
    BY ListingType
  <2>2. sweep'[w] = Listing(All) /\ \A v \in Workers \ {w} : sweep'[v] = sweep[v]
    BY <1>3 DEF TypeOK
  <2>3. TypeOK'
    BY <1>3, <2>1, <2>2 DEF TypeOK, Posted
  <2>4. SnapshotsOK'
    BY <1>3, <2>1, <2>2 DEF SnapshotsOK, StatedOK, TypeOK, Posted
  <2>5. ListedOK'
    <3>1. listed'[w] \subseteq listed[w] /\ \A v \in Workers \ {w} : listed'[v] = listed[v]
      BY <1>3 DEF TypeOK
    <3>2. sweep[w].todo = {} \/ listed'[w] = {}
      BY <1>3 DEF TypeOK
    <3>. QED
      BY <1>3, <2>2, <3>1, <3>2 DEF ListedOK
  <2>. QED
    BY <1>3, <2>3, <2>4, <2>5 DEF StatedOK
<1>. QED
  BY <1>2, <1>3 DEF Raise, Skip, Finish, AtLimit

LEMMA NextIInv == IInv /\ [Next]_vars => IInv'
<1>. SUFFICES ASSUME IInv, [Next]_vars PROVE IInv'
  OBVIOUS
<1>1. CASE UNCHANGED vars
  BY <1>1 DEF IInv, TypeOK, StatedOK, SnapshotsOK, ListedOK, Posted, vars
<1>2. CASE Next
  BY <1>2, CommentStep, RecordKindStep, StartStep, InsertStep, EndStep DEF Next
<1>. QED
  BY <1>1, <1>2

(* For any tasks, texts, workers and bounds the variables have their       *)
(* types, and only posted comments have a kind.                            *)
THEOREM TypeCorrect == Spec => []TypeOK
<1>1. IInv => TypeOK
  BY DEF IInv
<1>. QED
  BY InitIInv, NextIInv, <1>1, PTL DEF Spec

(* A worker whose backfill has got past its own task without an error has  *)
(* left no comment of that task that it listed without a kind.             *)
THEOREM OwnTaskIsClassified == Spec => []OwnTaskClassified
<1>1. IInv => OwnTaskClassified
  BY DEF IInv, ListedOK, OwnTaskClassified
<1>. QED
  BY InitIInv, NextIInv, <1>1, PTL DEF Spec

(* However backfills, commits and agents interleave, a guess replaces a    *)
(* kind that an agent recorded only in the last row of a listing.          *)
THEOREM StatedKindsStand == Spec => StatedKindStands
<1>. DEFINE Stands ==
  \A c \in Ids :
       stated[c] # NoKind /\ kind'[c] # kind[c]
         => \/ kind'[c] = stated'[c]
            \/ \E w \in Workers : sweep[w].todo = {c}
<1>1. ASSUME IInv, [Next]_vars PROVE Stands
  <2>1. ASSUME NEW d \in Posted, NEW k \in Stated, RecordKind(d, k) PROVE Stands
    BY <1>1, <2>1 DEF IInv, TypeOK, RecordKind
  <2>2. ASSUME NEW w \in Workers, Insert(w) PROVE Stands
    <3>. DEFINE d == Min(sweep[w].todo)
    <3>1. d \in sweep[w].todo /\ \E k \in Kinds : kind' = [kind EXCEPT ![d] = k]
      BY <1>1, <2>2, InsertFacts DEF IInv
    <3>2. Open(sweep[w].todo) => ~sweep[w].stale
      BY <2>2 DEF Insert, Outdated
    <3>. HIDE DEF d
    <3>3. stated[d] # NoKind /\ d \in Ids => sweep[w].todo = {d}
      BY <1>1, <3>1, <3>2 DEF IInv, SnapshotsOK, Open
    <3>. QED
      BY <1>1, <3>1, <3>3 DEF IInv, TypeOK
  <2>3. CASE kind' = kind
    BY <2>3
  <2>. QED
    BY <1>1, <2>1, <2>2, <2>3 DEF Next, Comment, Start, Raise, Skip, Finish, vars
<1>. QED
  BY InitIInv, NextIInv, <1>1, PTL DEF Spec, StatedKindStands

-----------------------------------------------------------------------------
(* Whatever the agents write and the backfills make of it, and for any     *)
(* ratio, window and round cap: the convergence check and the gate never   *)
(* contradict each other over a thread.                                    *)
THEOREM VerdictsDoAgree == Spec => []VerdictsAgree
<1>1. ASSUME NEW th, For(th) \in Nat, Against(th) \in Nat
      PROVE  LET settled == th # <<>> /\ Last(th) \in GateSettlingKinds
             IN  /\ Consensus(th) # "none" \/ settled => ConvergenceCheck(th) = "converged"
                 /\ settled => DecideGate(th).gate = "pass"
                 /\ ~settled /\ Consensus(th) = "for" /\ ~DetectDeadlock(th, Window)
                      => DecideGate(th).gate = "pass"
                 /\ ~settled /\ Consensus(th) = "against" => DecideGate(th).gate = "block"
  <2>. DEFINE settled == th # <<>> /\ Last(th) \in GateSettlingKinds
  <2>1. Last(th) \in GateSettlingKinds => Last(th) \in SettlingKinds
    BY DEF GateSettlingKinds, SettlingKinds
  <2>2. \A g, d, x : Verdict(g, d, x).gate = g
    BY DEF Verdict
  <2>3. Consensus(th) # "none" \/ settled => ConvergenceCheck(th) = "converged"
    BY <2>1 DEF ConvergenceCheck
  <2>4. settled => DecideGate(th).gate = "pass"
    BY <2>1, <2>2 DEF DecideGate, DetectDeadlock
  <2>5. Consensus(th) = "for" => For(th) > Against(th)
    BY DEF Consensus
  <2>6. Consensus(th) = "against" => Against(th) > For(th)
    BY DEF Consensus
  <2>7. /\ For(th) > Against(th) => Majority(th) = "for"
        /\ Against(th) > For(th) => Majority(th) # "for"
    BY <1>1 DEF Majority
  <2>8. \A x \in {"for"} : Majority(th) = x /\ th # <<>> /\ ~DetectDeadlock(th, Window)
          => DecideGate(th).gate = "pass"
    BY <2>2 DEF DecideGate
  <2>9. Majority(th) # "for" /\ ~settled => DecideGate(th).gate = "block"
    BY <2>2 DEF DecideGate
  <2>10. th = <<>> => For(th) = 0 /\ Against(th) = 0
    BY FS_EmptySet DEF For, Against, AggregateVotes, Positions
  <2>. QED
    BY <1>1, <2>3, <2>4, <2>5, <2>6, <2>7, <2>8, <2>9, <2>10
<1>2. ASSUME IInv PROVE VerdictsAgree
  <2>. SUFFICES ASSUME NEW t \in Tasks
                PROVE  For(Thread(t)) \in Nat /\ Against(Thread(t)) \in Nat
    BY <1>1 DEF VerdictsAgree
  <2>. DEFINE ids == {c \in Posted : comments[c].task = t}
              th == Thread(t)
  <2>1. IsFiniteSet(ids)
    <3>1. Posted = 1..Len(comments) /\ Len(comments) \in Nat
      BY <1>2 DEF IInv, TypeOK, Posted
    <3>2. IsFiniteSet(Posted)
      BY <3>1, FS_Interval
    <3>. QED
      BY <3>2, FS_Subset
  <2>2. DOMAIN th = 1..Cardinality(ids)
    BY DEF Thread
  <2>3. IsFiniteSet(DOMAIN th)
    BY <2>1, <2>2, FS_CardinalityType, FS_Interval
  <2>. HIDE DEF th
  <2>4. ASSUME NEW k PROVE AggregateVotes(th, k) \in Nat
    <3>1. Positions(th, k) \subseteq DOMAIN th
      BY DEF Positions
    <3>2. IsFiniteSet(Positions(th, k))
      BY <2>3, <3>1, FS_Subset
    <3>. QED
      BY <3>2, FS_CardinalityType DEF AggregateVotes
  <2>. QED
    BY <2>4 DEF For, Against, th
<1>. QED
  BY InitIInv, NextIInv, <1>2, PTL DEF Spec
=============================================================================
