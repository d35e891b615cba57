-------------------------- MODULE TaskServerProofs ---------------------------
(***************************************************************************)
(* Proofs about the task server, for any clients, ids, store sizes, ttls   *)
(* and bounds: counter, rows, handlers and worker threads agree, wherever  *)
(* a handler or a worker is killed or raises.                              *)
(***************************************************************************)
EXTENDS TaskServer, FiniteSetTheorems, TLAPS

Busy     == {p \in Posts : worker[p] \in Alive \union {"broken"}}
Done     == {p \in Posts : worker[p] = "done"}
Counted  == {p \in Posts : handler[p] \in {"counted", "miscounted"}}
Unpruned == {p \in Posts : handler[p] \in {"saved", "unpruned"}}

(* The thread of POST p saved its task and started no worker (yet). *)
Unworked == Holding \union Stopped

(* A POST that was not sent has no thread, only an accepted POST has a     *)
(* worker, and a worker that is about to save knows what.                  *)
ThreadsOK ==
  /\ \A c \in Clients, n \in Nat :
       <<c, n>> \in Posts /\ n > attempt[c] => handler[<<c, n>>] = "none"
  /\ \A p \in Posts : worker[p] # "none" => handler[p] = "201"
  /\ \A p \in Posts : worker[p] \in {"ran", "raised"} => outcome[p] \in Final

(* A final status was saved by a worker that is done. *)
FinalIsDone ==
  /\ \A i \in Ids : store[i] # NoRow /\ store[i].status \in Final
       => \E p \in Posts : Tid(p) = i /\ worker[p] = "done"
  /\ \A c \in Clients : client[c] \in Final
       => \E p \in Posts : Tid(p) = IdOf[c] /\ worker[p] = "done"

Finite == IsFiniteSet(Stored(store))

IInv ==
  /\ TypeOK
  /\ ThreadsOK
  /\ Finite
  /\ CounterCountsWorkers
  /\ WorkingHasWorker
  /\ StoreBounded
  /\ FinalIsDone
  /\ ResultStands

WorkerStates == {"none", "dropped", "done", "broken", "killed"} \union Alive

(* Every post belongs to a client, whose id is its id. *)
LEMMA PostsOfClients ==
  /\ \A p \in Posts : p[1] \in Clients /\ Tid(p) \in Ids
  /\ \A c \in Clients, n \in Nat : <<c, n>> \in Posts => Tid(<<c, n>>) = IdOf[c]
<1>1. \A p \in Posts : \E c \in Clients : \E n \in 1..(Retries[c] + 1) : p = <<c, n>>
  BY DEF Posts
<1>. QED
  BY <1>1, ServerConstantsOK DEF Tid

LEMMA PostsAreFinite == IsFiniteSet(Posts)
<1>. DEFINE Of(c) == {<<c, n>> : n \in 1..(Retries[c] + 1)}
<1>1. ASSUME NEW c \in Clients PROVE IsFiniteSet(Of(c))
  <2>. DEFINE f == [n \in 1..(Retries[c] + 1) |-> <<c, n>>]
  <2>1. IsFiniteSet(1..(Retries[c] + 1))
    BY FS_Interval, ServerConstantsOK
  <2>2. f \in Surjection(1..(Retries[c] + 1), Of(c))
    BY DEF Surjection
  <2>. QED
    BY <2>1, <2>2, FS_Surjection
<1>2. IsFiniteSet({Of(c) : c \in Clients})
  <2>. DEFINE g == [c \in Clients |-> Of(c)]
  <2>1. g \in Surjection(Clients, {Of(c) : c \in Clients})
    BY DEF Surjection
  <2>. QED
    BY <2>1, FS_Surjection, ServerConstantsOK
<1>. QED
  BY <1>1, <1>2, FS_UNION DEF Posts

(* So the threads in a state can be counted. *)
LEMMA ThreadsAreFinite ==
  ASSUME NEW S \in SUBSET Posts
  PROVE  IsFiniteSet(S) /\ Cardinality(S) \in Nat
BY PostsAreFinite, FS_Subset, FS_CardinalityType

(* The counts of the two properties, as cardinalities. *)
LEMMA CountsAsSets ==
  /\ CounterCountsWorkers <=> working = Cardinality(Busy) + Cardinality(Counted)
  /\ StoreBounded <=>
       Cardinality(Stored(store)) <= MaxTasks + Cardinality(Done) + Cardinality(Unpruned)
  /\ IsFiniteSet(Busy) /\ Cardinality(Busy) \in Nat
  /\ IsFiniteSet(Done) /\ Cardinality(Done) \in Nat
  /\ IsFiniteSet(Counted) /\ Cardinality(Counted) \in Nat
  /\ IsFiniteSet(Unpruned) /\ Cardinality(Unpruned) \in Nat
<1>1. Busy \subseteq Posts /\ Done \subseteq Posts /\ Counted \subseteq Posts /\ Unpruned \subseteq Posts
  BY DEF Busy, Done, Counted, Unpruned
<1>2. CounterCountsWorkers <=> working = Cardinality(Busy) + Cardinality(Counted)
  BY DEF CounterCountsWorkers, Busy, Counted
<1>3. StoreBounded <=>
        Cardinality(Stored(store)) <= MaxTasks + Cardinality(Done) + Cardinality(Unpruned)
  BY DEF StoreBounded, Done, Unpruned
<1>. QED
  BY <1>1, <1>2, <1>3, ThreadsAreFinite

(* The same in the next state. *)
LEMMA CountsAfter ==
  /\ CounterCountsWorkers' <=> working' = Cardinality(Busy') + Cardinality(Counted')
  /\ StoreBounded' <=>
       Cardinality(Stored(store)') <= MaxTasks + Cardinality(Done') + Cardinality(Unpruned')
  /\ IsFiniteSet(Busy') /\ Cardinality(Busy') \in Nat
  /\ IsFiniteSet(Done') /\ Cardinality(Done') \in Nat
  /\ IsFiniteSet(Counted') /\ Cardinality(Counted') \in Nat
  /\ IsFiniteSet(Unpruned') /\ Cardinality(Unpruned') \in Nat
<1>1. Busy' \subseteq Posts /\ Done' \subseteq Posts /\ Counted' \subseteq Posts /\ Unpruned' \subseteq Posts
  BY DEF Busy, Done, Counted, Unpruned
<1>2. CounterCountsWorkers' <=> working' = Cardinality(Busy') + Cardinality(Counted')
  BY DEF CounterCountsWorkers, Busy, Counted
<1>3. StoreBounded' <=>
        Cardinality(Stored(store)') <= MaxTasks + Cardinality(Done') + Cardinality(Unpruned')
  BY DEF StoreBounded, Done, Unpruned
<1>. QED
  BY <1>1, <1>2, <1>3, ThreadsAreFinite

LEMMA InitIInv == Init => IInv
<1>. SUFFICES ASSUME Init PROVE IInv
  OBVIOUS
<1>. USE ServerConstantsOK DEF Init
<1>1. TypeOK
  BY DEF TypeOK, HandlerStates
<1>2. ThreadsOK
  BY DEF ThreadsOK
<1>3. Busy = {} /\ Done = {} /\ Counted = {} /\ Unpruned = {} /\ Stored(store) = {}
  BY DEF Busy, Done, Counted, Unpruned, Stored, Alive
<1>4. Finite /\ CounterCountsWorkers /\ StoreBounded
  <2>1. IsFiniteSet({}) /\ Cardinality({}) = 0
    BY FS_EmptySet
  <2>2. working = 0 /\ MaxTasks \in Nat
    OBVIOUS
  <2>. QED
    BY ONLY <1>3, <2>1, <2>2, CountsAsSets DEF Finite
<1>5. WorkingHasWorker /\ FinalIsDone /\ ResultStands
  BY DEF WorkingHasWorker, FinalIsDone, ResultStands, Final
<1>. QED
  BY <1>1, <1>2, <1>4, <1>5 DEF IInv

-----------------------------------------------------------------------------
(* Clients, handlers and the clock *)

(* What was saved by a handler that started no worker is still so. *)
HandlersStay ==
  \A p \in Posts : /\ handler[p] \in Unworked => handler'[p] \in Unworked
                   /\ handler[p] = "201" => handler'[p] = "201"

(* Where no worker moves and rows only go. *)
LEMMA RowsGo ==
  ASSUME IInv, HandlersStay, UNCHANGED <<worker, client>>,
         \A i \in Ids : store'[i] = store[i] \/ store'[i] = NoRow
  PROVE  WorkingHasWorker' /\ FinalIsDone' /\ ResultStands'
<1>1. WorkingHasWorker'
  <2>. SUFFICES ASSUME NEW i \in Ids, store'[i] # NoRow, store'[i].status = "working"
                PROVE  \E p \in Posts :
                         Tid(p) = i /\ (worker'[p] \in Alive \/ handler'[p] \in Holding
                                          \/ Abandoned(p)')
    BY DEF WorkingHasWorker
  <2>1. PICK p \in Posts :
          Tid(p) = i /\ (worker[p] \in Alive \/ handler[p] \in Holding \/ Abandoned(p))
    BY DEF IInv, WorkingHasWorker
  <2>. QED
    BY <2>1 DEF HandlersStay, Unworked, Stopped, Abandoned
<1>2. FinalIsDone'
  BY DEF IInv, FinalIsDone
<1>3. ResultStands'
  <2>1. Savers \subseteq Savers'
    BY DEF HandlersStay, Savers, Unworked
  <2>2. \A c \in Clients : IdOf[c] \in Ids
    BY ServerConstantsOK
  <2>. QED
    BY <2>1, <2>2 DEF IInv, ResultStands
<1>. QED
  BY <1>1, <1>2, <1>3

(* Where no row and no count changes either. *)
LEMMA QuietKeeps ==
  ASSUME IInv, UNCHANGED <<store, worker, working>>, Counted' = Counted, Unpruned' = Unpruned
  PROVE  Finite' /\ CounterCountsWorkers' /\ StoreBounded'
<1>1. Busy' = Busy /\ Done' = Done /\ Stored(store)' = Stored(store)
  BY DEF Busy, Done, Stored
<1>2. Finite'
  BY <1>1 DEF IInv, Finite
<1>. QED
  BY <1>1, <1>2, CountsAsSets, CountsAfter DEF IInv

LEMMA TickStep ==
  ASSUME IInv, Tick
  PROVE  IInv'
<1>. USE DEF Tick
<1>1. TypeOK'
  BY ServerConstantsOK DEF IInv, TypeOK, Row
<1>2. ThreadsOK' /\ HandlersStay
  BY DEF IInv, ThreadsOK, HandlersStay
<1>3. Counted' = Counted /\ Unpruned' = Unpruned
  BY DEF Counted, Unpruned
<1>. QED
  BY <1>1, <1>2, <1>3, RowsGo, QuietKeeps DEF IInv

(* A client moves: only a poll that finds a final status returns one. *)
LEMMA ClientMoves ==
  ASSUME IInv, HandlersStay, UNCHANGED <<store, worker>>,
         \A c \in Clients : client'[c] \in Final =>
           \/ client'[c] = client[c]
           \/ store[IdOf[c]] # NoRow /\ store[IdOf[c]].status = client'[c]
  PROVE  WorkingHasWorker' /\ FinalIsDone' /\ ResultStands'
<1>1. WorkingHasWorker'
  <2>. SUFFICES ASSUME NEW i \in Ids, store[i] # NoRow, store[i].status = "working"
                PROVE  \E p \in Posts :
                         Tid(p) = i /\ (worker'[p] \in Alive \/ handler'[p] \in Holding
                                          \/ Abandoned(p)')
    BY DEF WorkingHasWorker
  <2>1. PICK p \in Posts :
          Tid(p) = i /\ (worker[p] \in Alive \/ handler[p] \in Holding \/ Abandoned(p))
    BY DEF IInv, WorkingHasWorker
  <2>. QED
    BY <2>1 DEF HandlersStay, Unworked, Stopped, Abandoned
<1>2. \A c \in Clients : IdOf[c] \in Ids
  BY ServerConstantsOK
<1>3. FinalIsDone'
  BY <1>2 DEF IInv, FinalIsDone
<1>4. ResultStands'
  <2>1. Savers \subseteq Savers'
    BY DEF HandlersStay, Savers, Unworked
  <2>. QED
    BY <1>2, <2>1 DEF IInv, ResultStands
<1>. QED
  BY <1>1, <1>3, <1>4

LEMMA SendStep ==
  ASSUME IInv, NEW c \in Clients, Send(c)
  PROVE  IInv'
<1>0. /\ attempt' = [attempt EXCEPT ![c] = @ + 1] /\ attempt \in [Clients -> Nat]
      /\ handler' = [handler EXCEPT ![<<c, attempt[c] + 1>>] = "sent"]
      /\ handler \in [Posts -> HandlerStates]
      /\ client' = [client EXCEPT ![c] = "wait"]
      /\ UNCHANGED <<store, clock, stamp, worker, outcome, working, faults>>
  BY DEF IInv, TypeOK, Send
<1>1. TypeOK'
  <2>1. attempt' \in [Clients -> Nat]
    BY <1>0
  <2>2. handler' \in [Posts -> HandlerStates]
    BY <1>0 DEF HandlerStates
  <2>. QED
    BY <1>0, <2>1, <2>2 DEF IInv, TypeOK
<1>2. \A p \in Posts : handler'[p] = handler[p] \/ (handler[p] = "none" /\ handler'[p] = "sent")
  <2>. TAKE p \in Posts
  <2>1. CASE p = <<c, attempt[c] + 1>>
    <3>1. attempt[c] + 1 \in Nat /\ attempt[c] + 1 > attempt[c]
      BY <1>0
    <3>2. handler[p] = "none"
      BY <2>1, <3>1 DEF IInv, ThreadsOK
    <3>3. handler'[p] = "sent"
      BY <1>0, <2>1
    <3>. QED
      BY <3>2, <3>3
  <2>2. CASE p # <<c, attempt[c] + 1>>
    BY <1>0, <2>2
  <2>. QED
    BY <2>1, <2>2
<1>3. ThreadsOK'
  <2>1. ASSUME NEW d \in Clients, NEW n \in Nat, <<d, n>> \in Posts, n > attempt'[d]
        PROVE  handler'[<<d, n>>] = "none"
    <3>1. n > attempt[d] /\ handler[<<d, n>>] = "none"
      BY <1>0, <2>1 DEF IInv, ThreadsOK
    <3>2. <<d, n>> # <<c, attempt[c] + 1>>
      BY <1>0, <2>1
    <3>. QED
      BY <1>0, <3>1, <3>2
  <2>2. \A p \in Posts : worker[p] # "none" => handler'[p] = "201"
    BY <1>2 DEF IInv, ThreadsOK
  <2>. QED
    BY <1>0, <2>1, <2>2 DEF IInv, ThreadsOK
<1>4. HandlersStay /\ Counted' = Counted /\ Unpruned' = Unpruned
  BY <1>2 DEF HandlersStay, Counted, Unpruned, Unworked, Holding, Stopped
<1>5. WorkingHasWorker' /\ FinalIsDone' /\ ResultStands'
  BY <1>0, <1>4, ClientMoves DEF IInv, TypeOK, Final
<1>. QED
  BY <1>0, <1>1, <1>3, <1>4, <1>5, QuietKeeps DEF IInv

LEMMA ClientStep ==
  ASSUME IInv, NEW c \in Clients, Accepted(c) \/ SendFails(c) \/ PollEnds(c)
  PROVE  IInv'
<1>0. /\ UNCHANGED <<store, clock, attempt, handler, stamp, worker, outcome, working, faults>>
      /\ \E a \in {"poll", "send", "noResult"} \union Final :
           /\ client' = [client EXCEPT ![c] = a]
           /\ a \in Final => store[IdOf[c]] # NoRow /\ store[IdOf[c]].status = a
  BY DEF Accepted, SendFails, PollEnds, Final
<1>1. TypeOK'
  BY <1>0 DEF IInv, TypeOK
<1>2. ThreadsOK' /\ HandlersStay /\ Counted' = Counted /\ Unpruned' = Unpruned
  BY <1>0 DEF IInv, ThreadsOK, HandlersStay, Counted, Unpruned
<1>3. WorkingHasWorker' /\ FinalIsDone' /\ ResultStands'
  BY <1>0, <1>2, ClientMoves DEF IInv, TypeOK
<1>. QED
  BY <1>0, <1>1, <1>2, <1>3, QuietKeeps DEF IInv

(* A handler before its task is saved. *)
LEMMA HandlerMoves ==
  ASSUME IInv, NEW p \in Posts,
         TurnAway(p) \/ LookUp(p) \/ (HandlerRaises(p) /\ handler[p] = "built")
  PROVE  IInv'
<1>0. /\ UNCHANGED <<store, clock, client, attempt, worker, outcome, working>>
      /\ handler[p] \in {"sent", "built"}
      /\ \E a \in {"refused", "built"} : handler' = [handler EXCEPT ![p] = a]
      /\ stamp' \in [Posts -> 0..MaxTime]
      /\ faults' \in 0..MaxFaults
      /\ handler \in [Posts -> HandlerStates]
  BY ServerConstantsOK DEF IInv, TypeOK, TurnAway, LookUp, HandlerRaises
<1>1. TypeOK'
  BY <1>0 DEF IInv, TypeOK, HandlerStates
<1>2. ThreadsOK'
  BY <1>0 DEF IInv, ThreadsOK, TypeOK
<1>3. HandlersStay /\ Counted' = Counted /\ Unpruned' = Unpruned
  BY <1>0 DEF HandlersStay, Counted, Unpruned, Unworked, Holding, Stopped
<1>. QED
  BY <1>0, <1>1, <1>2, <1>3, RowsGo, QuietKeeps DEF IInv

-----------------------------------------------------------------------------
(* The store *)

Table == [Ids -> Row \union {NoRow}]

LEMMA RowsAreNoRow == NoRow \notin Row
<1>1. Row \subseteq [status : {"working", "completed", "failed"}, created : Nat]
  BY ServerConstantsOK DEF Row, Final
<1>. QED
  BY <1>1, ServerConstantsOK

(* An upsert writes one row, with the status given. *)
LEMMA UpsertWrites ==
  ASSUME NEW s \in Table, NEW i \in Ids,
         NEW status \in {"working"} \union Final, NEW created \in 0..MaxTime
  PROVE  /\ Upsert(s, i, status, created) \in Table
         /\ Stored(Upsert(s, i, status, created)) = Stored(s) \union {i}
         /\ Upsert(s, i, status, created)[i].status = status
         /\ \A j \in Ids \ {i} : Upsert(s, i, status, created)[j] = s[j]
<1>. DEFINE row == [status  |-> status,
                    created |-> IF s[i] # NoRow THEN s[i].created ELSE created]
<1>1. row \in Row /\ row.status = status
  BY DEF Row, Table
<1>2. Upsert(s, i, status, created) = [s EXCEPT ![i] = row]
  BY DEF Upsert
<1>3. row # NoRow
  BY <1>1, RowsAreNoRow
<1>. HIDE DEF row
<1>. QED
  BY <1>1, <1>2, <1>3 DEF Table, Stored

(* Keeping some rows deletes the others and changes none. *)
LEMMA OnlyDeletes ==
  ASSUME NEW s \in Table, IsFiniteSet(Stored(s)), NEW K \in SUBSET Stored(s)
  PROVE  /\ Only(s, K) \in Table
         /\ \A i \in Ids : Only(s, K)[i] = s[i] \/ Only(s, K)[i] = NoRow
         /\ Stored(Only(s, K)) = K
         /\ IsFiniteSet(K) /\ Cardinality(K) \in Nat
         /\ Cardinality(K) <= Cardinality(Stored(s))
<1>1. IsFiniteSet(K) /\ Cardinality(K) \in Nat /\ Cardinality(K) <= Cardinality(Stored(s))
  BY FS_Subset, FS_CardinalityType
<1>2. /\ Only(s, K) \in Table
      /\ \A i \in Ids : Only(s, K)[i] = s[i] \/ Only(s, K)[i] = NoRow
  BY DEF Only, Table
<1>3. Stored(Only(s, K)) = K
  BY DEF Only, Stored
<1>. QED
  BY <1>1, <1>2, <1>3

(* A prune leaves MaxTasks rows at most. *)
LEMMA PrunedDeletes ==
  ASSUME NEW s \in Table, IsFiniteSet(Stored(s)), NEW t \in Pruned(s)
  PROVE  /\ t \in Table
         /\ \A i \in Ids : t[i] = s[i] \/ t[i] = NoRow
         /\ IsFiniteSet(Stored(t))
         /\ Cardinality(Stored(t)) <= MaxTasks
<1>0. PICK F \in Unexpired(s) : \E K \in Newest(s, F, MaxTasks) : t = Only(s, K)
  BY DEF Pruned
<1>1. PICK K \in SUBSET F :
        /\ Cardinality(K) = IF Cardinality(F) <= MaxTasks THEN Cardinality(F) ELSE MaxTasks
        /\ t = Only(s, K)
  BY <1>0 DEF Newest
<1>2. F \in SUBSET Stored(s) /\ K \in SUBSET Stored(s)
  BY DEF Unexpired
<1>3. Cardinality(F) \in Nat
  BY <1>2, FS_Subset, FS_CardinalityType
<1>4. Cardinality(K) <= MaxTasks
  BY <1>1, <1>3, ServerConstantsOK
<1>. QED
  BY <1>1, <1>2, <1>4, OnlyDeletes

-----------------------------------------------------------------------------
(* The handler, under the lock *)

LEMMA HandlerFacts ==
  ASSUME IInv, NEW p \in Posts, handler[p] \in {"built"} \union Holding
  PROVE  /\ Tid(p) \in Ids /\ store \in Table /\ clock \in Nat /\ stamp[p] \in 0..MaxTime
         /\ worker \in [Posts -> WorkerStates] /\ handler \in [Posts -> HandlerStates]
         /\ working \in Nat
         /\ \A c \in Clients : IdOf[c] \in Ids
         /\ worker[p] = "none"
<1>1. worker[p] = "none"
  BY DEF IInv, ThreadsOK, Holding
<1>. QED
  BY <1>1, PostsOfClients, ServerConstantsOK DEF IInv, TypeOK, Table, WorkerStates

LEMMA SaveTaskStep ==
  ASSUME IInv, NEW p \in Posts, SaveTask(p)
  PROVE  IInv'
<1>1. /\ handler[p] = "built"
      /\ store'   = Upsert(store, Tid(p), "working", stamp[p])
      /\ stamp'   = [stamp EXCEPT ![p] = 0]
      /\ handler' = [handler EXCEPT ![p] = "saved"]
      /\ UNCHANGED <<clock, client, attempt, worker, outcome, working, faults>>
  BY DEF SaveTask
<1>2. /\ Tid(p) \in Ids /\ store \in Table /\ clock \in Nat /\ stamp[p] \in 0..MaxTime
      /\ worker \in [Posts -> WorkerStates] /\ handler \in [Posts -> HandlerStates]
      /\ \A c \in Clients : IdOf[c] \in Ids
      /\ worker[p] = "none"
  BY <1>1, HandlerFacts
<1>3. /\ store' \in Table
      /\ Stored(store)' = Stored(store) \union {Tid(p)}
      /\ store'[Tid(p)].status = "working"
      /\ \A j \in Ids \ {Tid(p)} : store'[j] = store[j]
  <2>. DEFINE up == Upsert(store, Tid(p), "working", stamp[p])
  <2>1. /\ up \in Table
        /\ Stored(up) = Stored(store) \union {Tid(p)}
        /\ up[Tid(p)].status = "working"
        /\ \A j \in Ids \ {Tid(p)} : up[j] = store[j]
    <3>1. "working" \in {"working"} \union Final
      OBVIOUS
    <3>. QED
      BY <1>2, <3>1, UpsertWrites
  <2>. HIDE DEF up
  <2>2. Stored(store)' = Stored(up)
    BY <1>1 DEF Stored, up
  <2>. QED
    BY <1>1, <2>1, <2>2 DEF up
<1>4. TypeOK'
  BY <1>1, <1>2, <1>3, ServerConstantsOK DEF IInv, TypeOK, Table, HandlerStates, Holding
<1>5. ThreadsOK'
  BY <1>1, <1>2 DEF IInv, ThreadsOK
<1>6. /\ Busy' = Busy /\ Done' = Done /\ Counted' = Counted
      /\ Unpruned' = Unpruned \union {p} /\ p \notin Unpruned
  BY <1>1, <1>2 DEF Busy, Done, Counted, Unpruned
<1>7. Finite' /\ CounterCountsWorkers' /\ StoreBounded'
  <2>1. Cardinality(Unpruned') = Cardinality(Unpruned) + 1
    BY <1>6, FS_AddElement, CountsAsSets
  <2>2. IsFiniteSet(Stored(store)) /\ Cardinality(Stored(store)) \in Nat
    BY FS_CardinalityType DEF IInv, Finite
  <2>3. /\ IsFiniteSet(Stored(store) \union {Tid(p)})
        /\ \/ Cardinality(Stored(store) \union {Tid(p)}) = Cardinality(Stored(store))
           \/ Cardinality(Stored(store) \union {Tid(p)}) = Cardinality(Stored(store)) + 1
    BY <2>2, FS_AddElement
  <2>4. /\ working = Cardinality(Busy) + Cardinality(Counted)
        /\ Cardinality(Stored(store)) <= MaxTasks + Cardinality(Done) + Cardinality(Unpruned)
        /\ Cardinality(Done) \in Nat /\ Cardinality(Unpruned) \in Nat
    BY CountsAsSets DEF IInv
  <2>5. Cardinality(Stored(store)') <= MaxTasks + Cardinality(Done') + Cardinality(Unpruned')
    BY <1>3, <1>6, <2>1, <2>2, <2>3, <2>4, ServerConstantsOK
  <2>. QED
    BY <1>1, <1>3, <1>6, <2>3, <2>4, <2>5, CountsAfter DEF Finite
<1>8. WorkingHasWorker'
  <2>. SUFFICES ASSUME NEW i \in Ids, store'[i] # NoRow, store'[i].status = "working"
                PROVE  \E q \in Posts :
                         Tid(q) = i /\ (worker'[q] \in Alive \/ handler'[q] \in Holding
                                          \/ Abandoned(q)')
    BY DEF WorkingHasWorker
  <2>1. CASE i = Tid(p)
    BY <1>1, <1>2, <2>1 DEF Holding
  <2>2. CASE i # Tid(p)
    <3>1. PICK q \in Posts :
            Tid(q) = i /\ (worker[q] \in Alive \/ handler[q] \in Holding \/ Abandoned(q))
      BY <1>3, <2>2 DEF IInv, WorkingHasWorker
    <3>2. q # p
      BY <2>2, <3>1
    <3>3. worker'[q] = worker[q] /\ handler'[q] = handler[q]
      BY <1>1, <1>2, <3>2
    <3>. QED
      BY <3>1, <3>3 DEF Abandoned
  <2>. QED
    BY <2>1, <2>2
<1>9. FinalIsDone'
  <2>1. ASSUME NEW i \in Ids, store'[i] # NoRow, store'[i].status \in Final
        PROVE  \E q \in Posts : Tid(q) = i /\ worker[q] = "done"
    <3>1. i # Tid(p)
      BY <1>3, <2>1 DEF Final
    <3>. QED
      BY <1>3, <2>1, <3>1 DEF IInv, FinalIsDone
  <2>. QED
    BY <1>1, <2>1 DEF IInv, FinalIsDone
<1>10. ResultStands'
  <2>. SUFFICES ASSUME NEW c \in Clients, client[c] \in Final,
                       \A q, r \in Savers' : Tid(q) = IdOf[c] /\ Tid(r) = IdOf[c] => q = r
                PROVE  store'[IdOf[c]] = NoRow \/ store'[IdOf[c]].status = client[c]
    BY <1>1 DEF ResultStands
  <2>1. Savers' = Savers \union {p}
    BY <1>1, <1>2 DEF Savers, Holding
  <2>2. PICK q \in Posts : Tid(q) = IdOf[c] /\ worker[q] = "done"
    BY DEF IInv, FinalIsDone
  <2>3. q \in Savers /\ q # p
    BY <1>1, <2>2 DEF IInv, ThreadsOK, Savers
  <2>4. Tid(p) # IdOf[c]
    BY <2>1, <2>2, <2>3
  <2>5. store[IdOf[c]] = NoRow \/ store[IdOf[c]].status = client[c]
    BY <2>1 DEF IInv, ResultStands
  <2>. QED
    BY <1>2, <1>3, <2>4, <2>5
<1>. QED
  BY <1>4, <1>5, <1>7, <1>8, <1>9, <1>10 DEF IInv

(* A prune that comes to its end. *)
LEMMA PruneStep ==
  ASSUME IInv, NEW p \in Posts, PruneStore(p)
  PROVE  IInv'
<1>1. /\ handler[p] = "saved"
      /\ store' \in Pruned(store)
      /\ handler' = [handler EXCEPT ![p] = "pruned"]
      /\ UNCHANGED <<clock, client, attempt, stamp, worker, outcome, working, faults>>
  BY DEF PruneStore
<1>2. store \in Table /\ handler \in [Posts -> HandlerStates]
  BY <1>1, HandlerFacts DEF Holding
<1>3. /\ store' \in Table
      /\ \A i \in Ids : store'[i] = store[i] \/ store'[i] = NoRow
      /\ IsFiniteSet(Stored(store)')
      /\ Cardinality(Stored(store)') <= MaxTasks
  <2>1. IsFiniteSet(Stored(store))
    BY DEF IInv, Finite
  <2>2. Stored(store)' = Stored(store')
    BY DEF Stored
  <2>. QED
    BY <1>1, <1>2, <2>1, <2>2, PrunedDeletes
<1>4. HandlersStay /\ Counted' = Counted /\ Busy' = Busy
  BY <1>1, <1>2 DEF HandlersStay, Unworked, Holding, Counted, Busy
<1>5. TypeOK'
  BY <1>1, <1>2, <1>3 DEF IInv, TypeOK, Table, HandlerStates, Holding
<1>6. ThreadsOK'
  BY <1>1, <1>2 DEF IInv, ThreadsOK
<1>7. Finite' /\ CounterCountsWorkers' /\ StoreBounded'
  <2>1. Cardinality(Stored(store)') \in Nat
    BY <1>3, FS_CardinalityType
  <2>2. Cardinality(Stored(store)') <= MaxTasks + Cardinality(Done') + Cardinality(Unpruned')
    BY <1>3, <2>1, CountsAfter, ServerConstantsOK
  <2>. QED
    BY <1>1, <1>3, <1>4, <2>2, CountsAsSets, CountsAfter DEF IInv, Finite
<1>. QED
  BY <1>1, <1>3, <1>4, <1>5, <1>6, <1>7, RowsGo DEF IInv

(* The count, and a prune or a Thread.start that raises. *)
LEMMA CountOrRaiseStep ==
  ASSUME IInv, NEW p \in Posts,
         CountTask(p) \/ (HandlerRaises(p) /\ handler[p] # "built")
  PROVE  IInv'
<1>1. /\ UNCHANGED <<clock, client, attempt, stamp, worker, outcome>>
      /\ faults' \in 0..MaxFaults
      /\ \/ /\ handler[p] = "saved" /\ handler' = [handler EXCEPT ![p] = "unpruned"]
            /\ store' \in {store} \union {Only(store, F) : F \in Unexpired(store)}
            /\ working' = working
         \/ /\ handler[p] = "counted" /\ handler' = [handler EXCEPT ![p] = "miscounted"]
            /\ store' = store /\ working' = working
         \/ /\ handler[p] = "pruned" /\ handler' = [handler EXCEPT ![p] = "counted"]
            /\ store' = store /\ working' = working + 1
  BY ServerConstantsOK DEF CountTask, HandlerRaises, IInv, TypeOK
<1>2. /\ store \in Table /\ handler \in [Posts -> HandlerStates] /\ working \in Nat
      /\ worker \in [Posts -> WorkerStates] /\ worker[p] = "none"
  BY <1>1, HandlerFacts DEF Holding
<1>3. /\ store' \in Table
      /\ \A i \in Ids : store'[i] = store[i] \/ store'[i] = NoRow
      /\ IsFiniteSet(Stored(store)')
      /\ Cardinality(Stored(store)') <= Cardinality(Stored(store))
      /\ Cardinality(Stored(store)') \in Nat /\ Cardinality(Stored(store)) \in Nat
  <2>1. IsFiniteSet(Stored(store)) /\ Cardinality(Stored(store)) \in Nat
    BY FS_CardinalityType DEF IInv, Finite
  <2>2. Stored(store)' = Stored(store')
    BY DEF Stored
  <2>3. CASE store' = store
    BY <1>2, <2>1, <2>2, <2>3
  <2>4. CASE store' # store
    <3>1. PICK F \in Unexpired(store) : store' = Only(store, F)
      BY <1>1, <2>4
    <3>2. F \in SUBSET Stored(store)
      BY DEF Unexpired
    <3>. QED
      BY <1>2, <2>1, <2>2, <3>1, <3>2, OnlyDeletes
  <2>. QED
    BY <2>3, <2>4
<1>4. HandlersStay /\ Busy' = Busy /\ Done' = Done /\ Unpruned' = Unpruned
  BY <1>1, <1>2 DEF HandlersStay, Unworked, Holding, Stopped, Busy, Done, Unpruned
<1>5. TypeOK'
  BY <1>1, <1>2, <1>3 DEF IInv, TypeOK, Table, HandlerStates, Holding, Stopped
<1>6. ThreadsOK'
  BY <1>1, <1>2 DEF IInv, ThreadsOK
<1>7. Cardinality(Counted') = Cardinality(Counted) + (working' - working)
  <2>1. CASE handler[p] = "pruned"
    <3>1. Counted' = Counted \union {p} /\ p \notin Counted /\ working' = working + 1
      BY <1>1, <1>2, <2>1 DEF Counted
    <3>2. IsFiniteSet(Counted) /\ Cardinality(Counted) \in Nat
      BY CountsAsSets
    <3>3. Cardinality(Counted \union {p}) = Cardinality(Counted) + 1
      BY <3>1, <3>2, FS_AddElement
    <3>4. working' - working = 1
      BY <1>2, <3>1
    <3>. QED
      BY <3>1, <3>3, <3>4
  <2>2. CASE handler[p] # "pruned"
    <3>1. Counted' = Counted /\ working' = working
      BY <1>1, <1>2, <2>2 DEF Counted
    <3>. QED
      BY <1>2, <3>1, CountsAsSets
  <2>. QED
    BY <2>1, <2>2
<1>8. Finite' /\ CounterCountsWorkers' /\ StoreBounded'
  <2>1. /\ working = Cardinality(Busy) + Cardinality(Counted)
        /\ Cardinality(Stored(store)) <= MaxTasks + Cardinality(Done) + Cardinality(Unpruned)
    BY CountsAsSets DEF IInv
  <2>2. working' \in Nat
    BY <1>5 DEF TypeOK
  <2>3. working' = Cardinality(Busy') + Cardinality(Counted')
    BY <1>2, <1>4, <1>7, <2>1, <2>2, CountsAsSets
  <2>4. Cardinality(Stored(store)') <= MaxTasks + Cardinality(Done') + Cardinality(Unpruned')
    BY <1>3, <1>4, <2>1, CountsAsSets, ServerConstantsOK
  <2>. QED
    BY <1>3, <2>3, <2>4, CountsAfter DEF Finite
<1>. QED
  BY <1>1, <1>3, <1>4, <1>5, <1>6, <1>8, RowsGo DEF IInv

(* The task's place in the count passes to its worker. *)
LEMMA StartWorkerStep ==
  ASSUME IInv, NEW p \in Posts, StartWorker(p)
  PROVE  IInv'
<1>1. /\ handler[p] = "counted"
      /\ worker'  = [worker EXCEPT ![p] = "started"]
      /\ handler' = [handler EXCEPT ![p] = "201"]
      /\ UNCHANGED <<store, clock, client, attempt, stamp, outcome, working, faults>>
  BY DEF StartWorker
<1>2. /\ handler \in [Posts -> HandlerStates] /\ worker \in [Posts -> WorkerStates]
      /\ worker[p] = "none" /\ \A c \in Clients : IdOf[c] \in Ids
  BY <1>1, HandlerFacts DEF Holding
<1>3. /\ Busy' = Busy \union {p} /\ p \notin Busy /\ Counted' = Counted \ {p} /\ p \in Counted
      /\ Done' = Done /\ Unpruned' = Unpruned /\ Stored(store)' = Stored(store)
      /\ Savers' = Savers
  BY <1>1, <1>2 DEF Busy, Counted, Done, Unpruned, Stored, Alive, Savers, Holding
<1>4. TypeOK'
  BY <1>1, <1>2 DEF IInv, TypeOK, WorkerStates, Alive, HandlerStates
<1>5. ThreadsOK'
  BY <1>1, <1>2 DEF IInv, ThreadsOK
<1>6. Finite' /\ CounterCountsWorkers' /\ StoreBounded'
  <2>1. /\ Cardinality(Busy') = Cardinality(Busy) + 1
        /\ Cardinality(Counted') = Cardinality(Counted) - 1
    BY <1>3, FS_AddElement, FS_RemoveElement, CountsAsSets
  <2>2. working' = Cardinality(Busy') + Cardinality(Counted')
    BY <1>1, <2>1, CountsAsSets DEF IInv
  <2>. QED
    BY <1>3, <2>2, CountsAsSets, CountsAfter DEF IInv, Finite
<1>7. WorkingHasWorker'
  <2>. SUFFICES ASSUME NEW i \in Ids, store[i] # NoRow, store[i].status = "working"
                PROVE  \E q \in Posts :
                         Tid(q) = i /\ (worker'[q] \in Alive \/ handler'[q] \in Holding
                                          \/ Abandoned(q)')
    BY <1>1 DEF WorkingHasWorker
  <2>1. PICK q \in Posts :
          Tid(q) = i /\ (worker[q] \in Alive \/ handler[q] \in Holding \/ Abandoned(q))
    BY DEF IInv, WorkingHasWorker
  <2>2. CASE q = p
    BY <1>1, <1>2, <2>1, <2>2 DEF Alive
  <2>3. CASE q # p
    BY <1>1, <1>2, <2>1, <2>3 DEF Abandoned
  <2>. QED
    BY <2>2, <2>3
<1>8. FinalIsDone'
  <2>1. \A q \in Posts : worker[q] = "done" => worker'[q] = "done"
    BY <1>1, <1>2
  <2>. QED
    BY <1>1, <2>1 DEF IInv, FinalIsDone
<1>9. ResultStands'
  BY <1>1, <1>3 DEF IInv, ResultStands
<1>. QED
  BY <1>4, <1>5, <1>6, <1>7, <1>8, <1>9 DEF IInv

-----------------------------------------------------------------------------
(* The worker *)

(* A worker that moves on without being done leaves rows and results. *)
LEMMA WorkerMoves ==
  ASSUME IInv, NEW p \in Posts,
         worker[p] \in Alive,
         NEW to \in {"dropped", "running", "ran", "raised", "broken"},
         worker' = [worker EXCEPT ![p] = to],
         to = "dropped" => store[Tid(p)] = NoRow,
         working' = IF to = "dropped" THEN working - 1 ELSE working,
         UNCHANGED <<store, clock, client, attempt, handler>>
  PROVE  /\ Finite' /\ CounterCountsWorkers' /\ WorkingHasWorker' /\ StoreBounded'
         /\ FinalIsDone' /\ ResultStands' /\ working' \in Nat
         /\ worker' \in [Posts -> WorkerStates]
<1>1. worker \in [Posts -> WorkerStates]
  BY DEF IInv, TypeOK, WorkerStates
<1>2. /\ Done' = Done /\ Counted' = Counted /\ Unpruned' = Unpruned /\ Savers' = Savers
      /\ p \in Busy
      /\ Busy' = IF to = "dropped" THEN Busy \ {p} ELSE Busy
      /\ Stored(store)' = Stored(store)
  BY <1>1 DEF Busy, Done, Alive, Stored, Counted, Unpruned, Savers
<1>3. /\ Cardinality(Busy') \in Nat
      /\ Cardinality(Busy') = IF to = "dropped" THEN Cardinality(Busy) - 1 ELSE Cardinality(Busy)
  BY <1>2, FS_RemoveElement, CountsAsSets, CountsAfter
<1>4. working = Cardinality(Busy) + Cardinality(Counted) /\ Cardinality(Counted) \in Nat
  BY CountsAsSets DEF IInv
<1>5. working' = Cardinality(Busy') + Cardinality(Counted') /\ working' \in Nat
  BY <1>2, <1>3, <1>4, CountsAsSets
<1>6. Finite' /\ CounterCountsWorkers' /\ StoreBounded'
  BY <1>2, <1>5, CountsAsSets, CountsAfter DEF IInv, Finite
<1>7. WorkingHasWorker'
  <2>. SUFFICES ASSUME NEW i \in Ids, store[i] # NoRow, store[i].status = "working"
                PROVE  \E q \in Posts :
                         Tid(q) = i /\ (worker'[q] \in Alive \/ handler[q] \in Holding
                                          \/ Abandoned(q)')
    BY DEF WorkingHasWorker
  <2>1. PICK q \in Posts :
          Tid(q) = i /\ (worker[q] \in Alive \/ handler[q] \in Holding \/ Abandoned(q))
    BY DEF IInv, WorkingHasWorker
  <2>2. CASE q = p
    <3>1. to # "dropped"
      BY <2>1, <2>2
    <3>. QED
      BY <1>1, <2>1, <2>2, <3>1 DEF Alive, Abandoned
  <2>3. CASE q # p
    BY <1>1, <2>1, <2>3 DEF Abandoned
  <2>. QED
    BY <2>2, <2>3
<1>8. FinalIsDone'
  BY <1>1 DEF IInv, FinalIsDone, Alive
<1>9. ResultStands'
  BY <1>2 DEF IInv, ResultStands
<1>. QED
  BY <1>1, <1>5, <1>6, <1>7, <1>8, <1>9 DEF Alive, WorkerStates

LEMMA BeginStep ==
  ASSUME IInv, NEW p \in Posts, Begin(p)
  PROVE  IInv'
<1>1. Tid(p) \in Ids /\ handler[p] = "201"
  BY PostsOfClients DEF Begin, IInv, ThreadsOK
<1>2. \E to \in {"dropped", "running"} :
        /\ worker' = [worker EXCEPT ![p] = to]
        /\ to = "dropped" => store[Tid(p)] = NoRow
        /\ working' = IF to = "dropped" THEN working - 1 ELSE working
  BY DEF Begin
<1>3. /\ worker[p] \in Alive
      /\ UNCHANGED <<store, clock, client, attempt, handler, outcome, faults>>
  BY DEF Begin, Alive
<1>4. stamp' \in [Posts -> 0..MaxTime]
  BY <1>1 DEF Begin, IInv, TypeOK, Row
<1>5. /\ Finite' /\ CounterCountsWorkers' /\ WorkingHasWorker' /\ StoreBounded'
      /\ FinalIsDone' /\ ResultStands' /\ working' \in Nat
      /\ worker' \in [Posts -> WorkerStates]
  BY <1>2, <1>3, WorkerMoves
<1>6. TypeOK'
  BY <1>3, <1>4, <1>5 DEF IInv, TypeOK, WorkerStates
<1>7. ThreadsOK'
  BY <1>1, <1>2, <1>3 DEF IInv, ThreadsOK, TypeOK
<1>. QED
  BY <1>5, <1>6, <1>7 DEF IInv

LEMMA RunOrFaultStep ==
  ASSUME IInv, NEW p \in Posts, BeginRaises(p) \/ Run(p) \/ SaveRaises(p)
  PROVE  IInv'
<1>1. handler[p] = "201" /\ worker[p] \in Alive
  BY DEF BeginRaises, Run, SaveRaises, IInv, ThreadsOK, Alive
<1>2. \E to \in {"broken", "ran", "raised"} :
        /\ worker' = [worker EXCEPT ![p] = to]
        /\ to \in {"ran", "raised"} => \E s \in Final : outcome' = [outcome EXCEPT ![p] = s]
        /\ outcome' = outcome \/ \E s \in Final \union {"none"} : outcome' = [outcome EXCEPT ![p] = s]
  BY DEF BeginRaises, Run, SaveRaises, Final
<1>3. UNCHANGED <<store, clock, client, attempt, handler, working>>
  BY DEF BeginRaises, Run, SaveRaises
<1>4. faults' \in 0..MaxFaults /\ stamp' \in [Posts -> 0..MaxTime]
  BY ServerConstantsOK DEF BeginRaises, Run, SaveRaises, IInv, TypeOK
<1>5. /\ Finite' /\ CounterCountsWorkers' /\ WorkingHasWorker' /\ StoreBounded'
      /\ FinalIsDone' /\ ResultStands' /\ working' \in Nat
      /\ worker' \in [Posts -> WorkerStates]
  BY <1>1, <1>2, <1>3, WorkerMoves
<1>6. TypeOK'
  BY <1>2, <1>3, <1>4, <1>5 DEF IInv, TypeOK, WorkerStates
<1>7. ThreadsOK'
  BY <1>1, <1>2, <1>3 DEF IInv, ThreadsOK, TypeOK
<1>. QED
  BY <1>5, <1>6, <1>7 DEF IInv

LEMMA SaveResultStep ==
  ASSUME IInv, NEW p \in Posts, SaveResult(p)
  PROVE  IInv'
<1>1. /\ Tid(p) \in Ids
      /\ store \in Table
      /\ stamp[p] \in 0..MaxTime
      /\ worker \in [Posts -> WorkerStates]
      /\ \A c \in Clients : IdOf[c] \in Ids
  BY PostsOfClients, ServerConstantsOK DEF IInv, TypeOK, Table, WorkerStates
<1>2. /\ worker[p] \in {"ran", "raised"}
      /\ store' = Upsert(store, Tid(p), outcome[p], stamp[p])
      /\ working' = working - 1
      /\ worker' = [worker EXCEPT ![p] = "done"]
      /\ stamp' = [stamp EXCEPT ![p] = 0]
      /\ outcome' = [outcome EXCEPT ![p] = "none"]
      /\ UNCHANGED <<clock, client, attempt, handler, faults>>
  BY DEF SaveResult
<1>3. handler[p] = "201" /\ outcome[p] \in Final
  BY <1>2 DEF IInv, ThreadsOK
<1>4. /\ store' \in Table
      /\ Stored(store)' = Stored(store) \union {Tid(p)}
      /\ store'[Tid(p)].status \in Final
      /\ \A j \in Ids \ {Tid(p)} : store'[j] = store[j]
  <2>. DEFINE up == Upsert(store, Tid(p), outcome[p], stamp[p])
  <2>1. /\ up \in Table
        /\ Stored(up) = Stored(store) \union {Tid(p)}
        /\ up[Tid(p)].status = outcome[p]
        /\ \A j \in Ids \ {Tid(p)} : up[j] = store[j]
    <3>1. ASSUME NEW i \in Ids, NEW status \in {"working"} \union Final,
                 NEW created \in 0..MaxTime
          PROVE  /\ Upsert(store, i, status, created) \in Table
                 /\ Stored(Upsert(store, i, status, created)) = Stored(store) \union {i}
                 /\ Upsert(store, i, status, created)[i].status = status
                 /\ \A j \in Ids \ {i} : Upsert(store, i, status, created)[j] = store[j]
      BY <1>1, UpsertWrites
    <3>2. outcome[p] \in {"working"} \union Final
      BY <1>3
    <3>. QED
      BY ONLY <1>1, <3>1, <3>2
  <2>2. Stored(store)' = Stored(up)
    BY <1>2 DEF Stored
  <2>3. store' = up
    BY <1>2
  <2>. HIDE DEF up
  <2>. QED
    BY <1>3, <2>1, <2>2, <2>3
<1>5. /\ Busy' = Busy \ {p} /\ p \in Busy /\ Done' = Done \union {p} /\ p \notin Done
      /\ Counted' = Counted /\ Unpruned' = Unpruned /\ Savers' = Savers
  BY <1>1, <1>2 DEF Busy, Done, Alive, Counted, Unpruned, Savers
<1>6. /\ Cardinality(Busy') = Cardinality(Busy) - 1
      /\ Cardinality(Done') = Cardinality(Done) + 1
  BY <1>5, FS_AddElement, FS_RemoveElement, CountsAsSets
<1>7. /\ IsFiniteSet(Stored(store)')
      /\ Cardinality(Stored(store)) \in Nat
      /\ Cardinality(Stored(store)') <= Cardinality(Stored(store)) + 1
      /\ Cardinality(Stored(store)') \in Nat
  <2>1. IsFiniteSet(Stored(store)) /\ Cardinality(Stored(store)) \in Nat
    BY FS_CardinalityType DEF IInv, Finite
  <2>2. /\ IsFiniteSet(Stored(store) \union {Tid(p)})
        /\ \/ Cardinality(Stored(store) \union {Tid(p)}) = Cardinality(Stored(store))
           \/ Cardinality(Stored(store) \union {Tid(p)}) = Cardinality(Stored(store)) + 1
    BY ONLY <2>1, FS_AddElement
  <2>. QED
    BY <1>4, <2>1, <2>2
<1>8. Finite' /\ CounterCountsWorkers' /\ StoreBounded' /\ working' \in Nat
  <2>1. /\ working = Cardinality(Busy) + Cardinality(Counted)
        /\ Cardinality(Stored(store)) <= MaxTasks + Cardinality(Done) + Cardinality(Unpruned)
    BY CountsAsSets DEF IInv
  <2>2. working' = Cardinality(Busy') + Cardinality(Counted') /\ working' \in Nat
    BY <1>2, <1>5, <1>6, <2>1, CountsAsSets, CountsAfter
  <2>3. Cardinality(Stored(store)') <= MaxTasks + Cardinality(Done') + Cardinality(Unpruned')
    BY <1>5, <1>6, <1>7, <2>1, CountsAsSets, ServerConstantsOK
  <2>. QED
    BY <1>7, <2>2, <2>3, CountsAfter DEF Finite
<1>9. TypeOK'
  BY <1>1, <1>2, <1>4, <1>8, ServerConstantsOK DEF IInv, TypeOK, Table, WorkerStates
<1>10. ThreadsOK'
  BY <1>1, <1>2, <1>3 DEF IInv, ThreadsOK, TypeOK
<1>11. WorkingHasWorker'
  <2>. SUFFICES ASSUME NEW i \in Ids, store'[i] # NoRow, store'[i].status = "working"
                PROVE  \E q \in Posts :
                         Tid(q) = i /\ (worker'[q] \in Alive \/ handler'[q] \in Holding
                                          \/ Abandoned(q)')
    BY DEF WorkingHasWorker
  <2>1. i # Tid(p)
    BY <1>4 DEF Final
  <2>2. PICK q \in Posts :
          Tid(q) = i /\ (worker[q] \in Alive \/ handler[q] \in Holding \/ Abandoned(q))
    BY <1>4, <2>1 DEF IInv, WorkingHasWorker
  <2>3. q # p
    BY <2>1, <2>2
  <2>. QED
    BY <1>1, <1>2, <2>2, <2>3 DEF Abandoned
<1>12. FinalIsDone'
  <2>1. \A q \in Posts : worker[q] = "done" \/ q = p => worker'[q] = "done"
    BY <1>1, <1>2
  <2>2. ASSUME NEW i \in Ids, store'[i] # NoRow, store'[i].status \in Final
        PROVE  \E q \in Posts : Tid(q) = i /\ worker'[q] = "done"
    <3>1. CASE i = Tid(p)
      BY <2>1, <3>1
    <3>2. CASE i # Tid(p)
      BY <1>4, <2>1, <2>2, <3>2 DEF IInv, FinalIsDone
    <3>. QED
      BY <3>1, <3>2
  <2>. QED
    BY <1>2, <2>1, <2>2 DEF IInv, FinalIsDone
<1>13. ResultStands'
  <2>. SUFFICES ASSUME NEW c \in Clients, client[c] \in Final,
                       \A q, r \in Savers : Tid(q) = IdOf[c] /\ Tid(r) = IdOf[c] => q = r
                PROVE  store'[IdOf[c]] = NoRow \/ store'[IdOf[c]].status = client[c]
    BY <1>2, <1>5 DEF ResultStands
  <2>1. PICK q \in Posts : Tid(q) = IdOf[c] /\ worker[q] = "done"
    BY DEF IInv, FinalIsDone
  <2>2. q \in Savers /\ p \in Savers /\ q # p
    BY <1>2, <1>3, <2>1 DEF IInv, ThreadsOK, Savers
  <2>3. Tid(p) # IdOf[c]
    BY <2>1, <2>2
  <2>. QED
    BY <1>1, <1>4, <2>3 DEF IInv, ResultStands
<1>. QED
  BY <1>8, <1>9, <1>10, <1>11, <1>12, <1>13 DEF IInv

LEMMA RestartStep ==
  ASSUME IInv, Restart
  PROVE  IInv'
<1>1. /\ worker \in [Posts -> WorkerStates]
      /\ handler \in [Posts -> HandlerStates]
      /\ worker' = [p \in Posts |->
                      IF worker[p] \in Alive \union {"broken"} THEN "killed" ELSE worker[p]]
      /\ handler' = [p \in Posts |-> Left(handler[p])]
      /\ working' = 0
      /\ stamp'   = [p \in Posts |-> 0]
      /\ outcome' = [p \in Posts |-> "none"]
      /\ UNCHANGED <<store, clock, client, attempt>>
  BY DEF IInv, TypeOK, Restart, WorkerStates
<1>2. faults' \in 0..MaxFaults
  BY ServerConstantsOK DEF Restart, IInv, TypeOK
<1>3. \A h \in HandlerStates :
        /\ Left(h) \in HandlerStates \ {"counted", "miscounted", "saved"}
        /\ h \in Unworked => Left(h) \in Stopped
        /\ h = "201" <=> Left(h) = "201"
        /\ h = "none" => Left(h) = "none"
        /\ h \in {"saved", "unpruned"} <=> Left(h) = "unpruned"
  BY DEF Left, HandlerStates, Unworked, Holding, Stopped
<1>4. /\ Busy' = {} /\ Counted' = {} /\ Done' = Done /\ Unpruned' = Unpruned
      /\ Stored(store)' = Stored(store)
  BY <1>1, <1>3 DEF Busy, Done, Counted, Unpruned, Stored, Alive
<1>5. TypeOK'
  BY <1>1, <1>2, <1>3, ServerConstantsOK DEF IInv, TypeOK, WorkerStates
<1>6. ThreadsOK'
  BY <1>1, <1>3 DEF IInv, ThreadsOK, Alive, WorkerStates
<1>7. Finite' /\ CounterCountsWorkers' /\ StoreBounded'
  <2>1. working' = Cardinality(Busy') + Cardinality(Counted')
    BY <1>1, <1>4, FS_EmptySet
  <2>. QED
    BY <1>4, <2>1, CountsAsSets, CountsAfter DEF IInv, Finite
<1>8. WorkingHasWorker'
  <2>. SUFFICES ASSUME NEW i \in Ids, store[i] # NoRow, store[i].status = "working"
                PROVE  \E p \in Posts : Tid(p) = i /\ Abandoned(p)'
    BY <1>1 DEF WorkingHasWorker
  <2>1. PICK p \in Posts :
          Tid(p) = i /\ (worker[p] \in Alive \/ handler[p] \in Holding \/ Abandoned(p))
    BY DEF IInv, WorkingHasWorker
  <2>2. CASE worker[p] \in Alive \union {"broken", "killed"}
    BY <1>1, <2>1, <2>2 DEF Abandoned
  <2>3. CASE handler[p] \in Unworked
    <3>1. handler'[p] \in Stopped
      BY <1>1, <1>3, <2>3
    <3>. QED
      BY <2>1, <3>1 DEF Abandoned, Stopped
  <2>. QED
    BY <2>1, <2>2, <2>3 DEF Abandoned, Unworked, Stopped
<1>9. FinalIsDone'
  BY <1>1 DEF IInv, FinalIsDone, Alive
<1>10. ResultStands'
  <2>1. Savers \subseteq Savers'
    BY <1>1, <1>3 DEF Savers, Unworked
  <2>. QED
    BY <1>1, <2>1 DEF IInv, ResultStands
<1>. QED
  BY <1>5, <1>6, <1>7, <1>8, <1>9, <1>10 DEF IInv

-----------------------------------------------------------------------------
LEMMA NextIInv == IInv /\ [Next]_vars => IInv'
<1>. SUFFICES ASSUME IInv, [Next]_vars PROVE IInv'
  OBVIOUS
<1>1. ASSUME NEW c \in Clients, Client(c) PROVE IInv'
  BY <1>1, SendStep, ClientStep DEF Client
<1>2. ASSUME NEW p \in Posts, Handler(p) PROVE IInv'
  <2>1. CASE HandlerRaises(p)
    BY <2>1, HandlerMoves, CountOrRaiseStep
  <2>2. CASE TurnAway(p) \/ LookUp(p) \/ CountTask(p)
    BY <2>2, HandlerMoves, CountOrRaiseStep
  <2>. QED
    BY <1>2, <2>1, <2>2, SaveTaskStep, PruneStep, StartWorkerStep DEF Handler
<1>3. ASSUME NEW p \in Posts, Worker(p) PROVE IInv'
  BY <1>3, BeginStep, RunOrFaultStep, SaveResultStep DEF Worker
<1>4. CASE UNCHANGED vars
  <2>1. /\ UNCHANGED <<store, worker, working, client>>
        /\ UNCHANGED <<clock, attempt, handler, stamp, outcome, faults>>
    BY <1>4 DEF vars
  <2>2. TypeOK' /\ ThreadsOK' /\ HandlersStay /\ Counted' = Counted /\ Unpruned' = Unpruned
    BY <2>1 DEF IInv, TypeOK, ThreadsOK, HandlersStay, Counted, Unpruned
  <2>. QED
    BY <2>1, <2>2, RowsGo, QuietKeeps DEF IInv
<1>. QED
  BY <1>1, <1>2, <1>3, <1>4, TickStep, RestartStep DEF Next

LEMMA InvariantHolds == Spec => []IInv
<1>. QED
  BY InitIInv, NextIInv, PTL DEF Spec

(* The types of the state of server, store and clients. *)
THEOREM TypeCorrect == Spec => []TypeOK
<1>1. IInv => TypeOK
  BY DEF IInv
<1>. QED
  BY <1>1, InvariantHolds, PTL

(* tasks_working counts the worker threads on every path, and the tasks    *)
(* whose worker is to be started or could not be, for any number of        *)
(* clients, retries, restarts and errors.                                  *)
THEOREM CounterCorrect == Spec => []CounterCountsWorkers
<1>1. IInv => CounterCountsWorkers
  BY DEF IInv
<1>. QED
  BY <1>1, InvariantHolds, PTL

(* A row says "working" only while its handler is about to start a worker, *)
(* a worker of it is alive, or its task was abandoned: stopped by a kill   *)
(* or a raise in the worker, or in the handler between save and start.     *)
THEOREM WorkingIsWorked == Spec => []WorkingHasWorker
<1>1. IInv => WorkingHasWorker
  BY DEF IInv
<1>. QED
  BY <1>1, InvariantHolds, PTL

(* The store holds max_tasks rows, the results that came back after a      *)
(* prune, and the tasks whose prune is to come or was stopped, at most.    *)
THEOREM StoreIsBounded == Spec => []StoreBounded
<1>1. IInv => StoreBounded
  BY DEF IInv
<1>. QED
  BY <1>1, InvariantHolds, PTL

(* What a client has polled stands, unless a second POST of its id saved a *)
(* task, answered or not.                                                  *)
THEOREM ResultsStand == Spec => []ResultStands
<1>1. IInv => ResultStands
  BY DEF IInv
<1>. QED
  BY <1>1, InvariantHolds, PTL

=============================================================================
