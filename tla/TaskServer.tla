----------------------------- MODULE TaskServer ------------------------------
(***************************************************************************)
(* One A2A server process and the clients that submit tasks to it.         *)
(*                                                                         *)
(*   - A client (core/discuss.py, _a2a_send and _a2a_poll) makes an id,    *)
(*     posts the task until it is accepted, each time with the same id and *)
(*     a timeout, and then polls the task until its status is final.       *)
(*   - Every POST has a thread of its own (core/server.py, do_POST), which *)
(*     looks the id up, builds the task, and then, under _exec_lock, saves *)
(*     it, prunes the store, counts it and starts a worker thread: each a  *)
(*     step of its own, as neither workers nor look-ups take that lock, a  *)
(*     kill may fall between them, and all but the count may raise.        *)
(*   - A worker (_execute_task) reads the task, runs it (task_handler.py), *)
(*     and saves the result.                                               *)
(*   - The store (core/storage.py) is one SQLite table that outlives the   *)
(*     process; it serialises its calls with a lock, so each call is one   *)
(*     step here.                                                          *)
(*                                                                         *)
(* Abstractions.  A row is its status and created_at.  The clock moves in  *)
(* whole steps.  A request that the rate limiter, the authorization or the *)
(* body check turns away changes nothing, and the client treats every such *)
(* answer alike.  Running a task is one step that completes or fails; the  *)
(* event it emits is in EventBridge.                                       *)
(***************************************************************************)
EXTENDS Naturals, FiniteSets

CONSTANTS
  Clients,      \* callers of _a2a_send
  Ids,          \* ids that clients make, by the millisecond
  IdOf,         \* the id a client makes
  Retries,      \* the retries argument of a client's call
  MaxTasks,     \* A2A_MAX_TASKS, if it is a limit
  Ttl,          \* A2A_TASK_TTL, in steps of the clock; 0: rows do not age
  NoRow,        \* not a row
  MaxTime,      \* bound: steps of the clock
  MaxFaults     \* bound: restarts of the server and calls that raise

ASSUME ServerConstantsOK ==
  /\ IdOf \in [Clients -> Ids]
  /\ Retries \in [Clients -> Nat]
  /\ MaxTasks \in Nat \ {0}
  /\ Ttl \in Nat
  /\ NoRow \notin [status : {"working", "completed", "failed"}, created : Nat]
  /\ MaxTime \in Nat /\ MaxFaults \in Nat
  /\ IsFiniteSet(Clients)

VARIABLES
  store,     \* store[i]: the row of task id i, or NoRow
  clock,     \* now
  client,    \* client[c]: what it does
  attempt,   \* attempt[c]: the number of its current POST
  handler,   \* handler[p]: where the thread of POST p is
  stamp,     \* stamp[p]: the created_at of the task that p builds, its worker reads
  worker,    \* worker[p]: where the worker that POST p started is
  outcome,   \* outcome[p]: the status the worker is about to save
  working,   \* the tasks_working counter
  faults     \* history: how many of those there were

vars == <<store, clock, client, attempt, handler, stamp, worker, outcome,
          working, faults>>

Posts == UNION {{<<c, n>> : n \in 1..(Retries[c] + 1)} : c \in Clients}
Tid(p) == IdOf[p[1]]

Final == {"completed", "failed"}
Alive == {"started", "running", "ran", "raised"}

(* A thread that holds _exec_lock, and one that was stopped with its task  *)
(* saved: before the prune was over, after the count, or before its worker *)
(* was started.  A "refused" thread ended with nothing saved.              *)
Holding == {"saved", "pruned", "counted"}
Stopped == {"unpruned", "miscounted", "unstarted"}
HandlerStates == {"none", "sent", "refused", "built", "201"} \union Holding \union Stopped

Row   == [status : {"working"} \union Final, created : 0..MaxTime]

Init ==
  /\ store    = [i \in Ids |-> NoRow]
  /\ clock    = 0
  /\ client   = [c \in Clients |-> "send"]
  /\ attempt  = [c \in Clients |-> 0]
  /\ handler  = [p \in Posts |-> "none"]
  /\ stamp    = [p \in Posts |-> 0]
  /\ worker   = [p \in Posts |-> "none"]
  /\ outcome  = [p \in Posts |-> "none"]
  /\ working  = 0
  /\ faults   = 0

Tick ==
  /\ clock < MaxTime
  /\ clock' = clock + 1
  /\ UNCHANGED <<store, client, attempt, handler, stamp, worker, outcome,
                 working, faults>>

-----------------------------------------------------------------------------
(* The client *)

Send(c) ==
  /\ client[c] = "send"
  /\ attempt' = [attempt EXCEPT ![c] = @ + 1]
  /\ handler' = [handler EXCEPT ![<<c, attempt'[c]>>] = "sent"]
  /\ client'  = [client EXCEPT ![c] = "wait"]
  /\ UNCHANGED <<store, clock, stamp, worker, outcome, working, faults>>

Accepted(c) ==
  /\ client[c] = "wait"
  /\ handler[<<c, attempt[c]>>] = "201"
  /\ client' = [client EXCEPT ![c] = "poll"]
  /\ UNCHANGED <<store, clock, attempt, handler, stamp, worker, outcome,
                 working, faults>>

(* No answer in time, a lost one, no server, or an answer that is an       *)
(* error, 409 included: try again or give up with ConnectionError.  The    *)
(* thread of the POST goes on.                                             *)
SendFails(c) ==
  /\ client[c] = "wait"
  /\ client' = [client EXCEPT ![c] = IF attempt[c] <= Retries[c] THEN "send" ELSE "noResult"]
  /\ UNCHANGED <<store, clock, attempt, handler, stamp, worker, outcome,
                 working, faults>>

(* A poll that finds a final status returns it; any other answer, 404      *)
(* included, is polled again until the time is up.                         *)
PollEnds(c) ==
  /\ client[c] = "poll"
  /\ LET row == store[IdOf[c]] IN
       client' = [client EXCEPT ![c] =
                    IF row # NoRow /\ row.status \in Final THEN row.status ELSE "noResult"]
  /\ UNCHANGED <<store, clock, attempt, handler, stamp, worker, outcome,
                 working, faults>>

-----------------------------------------------------------------------------
(* do_POST *)

TurnAway(p) ==
  /\ handler[p] = "sent"
  /\ handler' = [handler EXCEPT ![p] = "refused"]
  /\ UNCHANGED <<store, clock, client, attempt, stamp, worker, outcome,
                 working, faults>>

(* The id is looked up (409 if it has a row), and the task built, before   *)
(* _exec_lock is taken.                                                    *)
LookUp(p) ==
  /\ handler[p] = "sent"
  /\ IF store[Tid(p)] # NoRow
     THEN handler' = [handler EXCEPT ![p] = "refused"] /\ UNCHANGED stamp
     ELSE /\ handler' = [handler EXCEPT ![p] = "built"]
          /\ stamp'   = [stamp EXCEPT ![p] = clock]
  /\ UNCHANGED <<store, clock, client, attempt, worker, outcome, working, faults>>

Stored(s) == {i \in Ids : s[i] # NoRow}

(* Faulty variant: ON CONFLICT DO NOTHING. *)
UpsertKeepsRow(s, i, status, created) ==
  IF s[i] # NoRow THEN s
  ELSE [s EXCEPT ![i] = [status |-> status, created |-> created]]

(* ON CONFLICT keeps the created_at of the row. *)
Upsert(s, i, status, created) ==
  [s EXCEPT ![i] = [status  |-> status,
                    created |-> IF s[i] # NoRow THEN s[i].created ELSE created]]

(* What a ttl, if there is one, may leave of s: a row of the step of the   *)
(* clock that its cutoff falls into may be older or newer than the cutoff. *)
Unexpired(s) ==
  {F \in SUBSET Stored(s) :
     IF Ttl = 0 THEN F = Stored(s)
     ELSE /\ \A i \in F : s[i].created + Ttl >= clock
          /\ \A i \in Stored(s) \ F : s[i].created + Ttl <= clock}

(* Of the rows in F the n newest; rows of the same step in any order. *)
Newest(s, F, n) ==
  {K \in SUBSET F :
     /\ Cardinality(K) = IF Cardinality(F) <= n THEN Cardinality(F) ELSE n
     /\ \A i \in K, j \in F \ K : s[i].created >= s[j].created}

Only(s, K) == [i \in Ids |-> IF i \in K THEN s[i] ELSE NoRow]

(* Faulty variant: one row too many is kept. *)
PrunedOneMore(s) ==
  {Only(s, K) : K \in UNION {Newest(s, F, MaxTasks + 1) : F \in Unexpired(s)}}

(* What prune may leave of s: rows past their ttl go, and then all but the *)
(* MaxTasks newest.                                                        *)
Pruned(s) ==
  {Only(s, K) : K \in UNION {Newest(s, F, MaxTasks) : F \in Unexpired(s)}}

SaveTask(p) ==
  /\ handler[p] = "built"
  /\ \A q \in Posts : handler[q] \notin Holding
  /\ store'   = Upsert(store, Tid(p), "working", stamp[p])
  /\ stamp'   = [stamp EXCEPT ![p] = 0]
  /\ handler' = [handler EXCEPT ![p] = "saved"]
  /\ UNCHANGED <<clock, client, attempt, worker, outcome, working, faults>>

PruneStore(p) ==
  /\ handler[p] = "saved"
  /\ store'   \in Pruned(store)
  /\ handler' = [handler EXCEPT ![p] = "pruned"]
  /\ UNCHANGED <<clock, client, attempt, stamp, worker, outcome, working, faults>>

CountTask(p) ==
  /\ handler[p] = "pruned"
  /\ working' = working + 1
  /\ handler' = [handler EXCEPT ![p] = "counted"]
  /\ UNCHANGED <<store, clock, client, attempt, stamp, worker, outcome, faults>>

(* The thread is started and the answer sent, which arrives with Accepted, *)
(* or not at all.                                                          *)
StartWorker(p) ==
  /\ handler[p] = "counted"
  /\ worker'  = [worker EXCEPT ![p] = "started"]
  /\ handler' = [handler EXCEPT ![p] = "201"]
  /\ UNCHANGED <<store, clock, client, attempt, stamp, outcome, working, faults>>

(* save, prune, in either of its two statements, or Thread.start raises:   *)
(* the thread ends without an answer, and the lock is released.            *)
HandlerRaises(p) ==
  /\ faults < MaxFaults
  /\ faults' = faults + 1
  /\ \/ /\ handler[p] = "built"
        /\ \A q \in Posts : handler[q] \notin Holding
        /\ handler' = [handler EXCEPT ![p] = "refused"]
        /\ stamp'   = [stamp EXCEPT ![p] = 0]
        /\ UNCHANGED store
     \/ /\ handler[p] = "saved"
        /\ handler' = [handler EXCEPT ![p] = "unpruned"]
        /\ store' \in {store} \union {Only(store, F) : F \in Unexpired(store)}
        /\ UNCHANGED stamp
     \/ /\ handler[p] = "counted"
        /\ handler' = [handler EXCEPT ![p] = "miscounted"]
        /\ UNCHANGED <<store, stamp>>
  /\ UNCHANGED <<clock, client, attempt, worker, outcome, working>>

-----------------------------------------------------------------------------
(* _execute_task *)

(* Faulty variant: a dropped task stays counted. *)
BeginKeepsCount(p) ==
  /\ worker[p] = "started"
  /\ worker' = [worker EXCEPT ![p] = IF store[Tid(p)] = NoRow THEN "dropped" ELSE "running"]
  /\ UNCHANGED <<store, clock, client, attempt, handler, stamp, outcome, working, faults>>

(* The row may be pruned already: the task is then dropped. *)
Begin(p) ==
  /\ worker[p] = "started"
  /\ IF store[Tid(p)] = NoRow
     THEN worker' = [worker EXCEPT ![p] = "dropped"] /\ working' = working - 1
     ELSE worker' = [worker EXCEPT ![p] = "running"] /\ UNCHANGED working
  /\ stamp' = IF store[Tid(p)] = NoRow THEN stamp
              ELSE [stamp EXCEPT ![p] = store[Tid(p)].created]
  /\ UNCHANGED <<store, clock, client, attempt, handler, outcome, faults>>

(* Faulty variant: the look-up that raises is caught, and the task saved   *)
(* without a status.                                                       *)
BeginRaisesCaught(p) ==
  /\ worker[p] = "started"
  /\ faults < MaxFaults
  /\ faults' = faults + 1
  /\ worker' = [worker EXCEPT ![p] = "raised"]
  /\ UNCHANGED <<store, clock, client, attempt, handler, stamp, outcome, working>>

(* The look-up raises: nothing catches it. *)
BeginRaises(p) ==
  /\ worker[p] = "started"
  /\ faults < MaxFaults
  /\ faults' = faults + 1
  /\ worker' = [worker EXCEPT ![p] = "broken"]
  /\ UNCHANGED <<store, clock, client, attempt, handler, stamp, outcome, working>>

(* Faulty variant: a task that fails is not saved. *)
RunSavesSuccessOnly(p) ==
  /\ worker[p] = "running"
  /\ \E s \in Final :
       /\ outcome' = [outcome EXCEPT ![p] = s]
       /\ worker'  = [worker EXCEPT ![p] = IF s = "failed" THEN "done" ELSE "ran"]
       /\ working' = IF s = "failed" THEN working - 1 ELSE working
  /\ UNCHANGED <<store, clock, client, attempt, handler, stamp, faults>>

Run(p) ==
  /\ worker[p] = "running"
  /\ outcome' \in {[outcome EXCEPT ![p] = s] : s \in Final}
  /\ worker'  = [worker EXCEPT ![p] = "ran"]
  /\ UNCHANGED <<store, clock, client, attempt, handler, stamp, working, faults>>

(* The result carries the created_at of the row that was read, so a row    *)
(* that was pruned meanwhile comes back with its age.                      *)
SaveResult(p) ==
  /\ worker[p] \in {"ran", "raised"}
  /\ store'   = Upsert(store, Tid(p), outcome[p], stamp[p])
  /\ working' = working - 1
  /\ worker'  = [worker EXCEPT ![p] = "done"]
  /\ stamp'   = [stamp EXCEPT ![p] = 0]
  /\ outcome' = [outcome EXCEPT ![p] = "none"]
  /\ UNCHANGED <<clock, client, attempt, handler, faults>>

(* Faulty variant: what raises comes after the save. *)
SaveRaisesLate(p) ==
  /\ worker[p] \in {"ran", "raised"}
  /\ faults < MaxFaults
  /\ faults'  = faults + 1
  /\ store'   = Upsert(store, Tid(p), outcome[p], stamp[p])
  /\ worker'  = [worker EXCEPT ![p] = IF @ = "ran" THEN "raised" ELSE "broken"]
  /\ outcome' = [outcome EXCEPT ![p] = "failed"]
  /\ UNCHANGED <<clock, client, attempt, handler, stamp, working>>

(* The save raises: the task is to be saved as failed; that save raises    *)
(* too: the thread ends with the task still counted as working.            *)
SaveRaises(p) ==
  /\ worker[p] \in {"ran", "raised"}
  /\ faults < MaxFaults
  /\ faults'  = faults + 1
  /\ IF worker[p] = "ran"
     THEN /\ worker'  = [worker EXCEPT ![p] = "raised"]
          /\ outcome' = [outcome EXCEPT ![p] = "failed"]
          /\ UNCHANGED stamp
     ELSE /\ worker'  = [worker EXCEPT ![p] = "broken"]
          /\ outcome' = [outcome EXCEPT ![p] = "none"]
          /\ stamp'   = [stamp EXCEPT ![p] = 0]
  /\ UNCHANGED <<store, clock, client, attempt, handler, working>>

-----------------------------------------------------------------------------
(* Where a handler is left when its process ends. *)
Left(h) ==
  CASE h \in {"sent", "built"}                   -> "refused"
    [] h = "saved"                               -> "unpruned"
    [] h \in {"pruned", "counted", "miscounted"} -> "unstarted"
    [] OTHER                                     -> h

(* The server is killed, or shut down, and started again: its threads and  *)
(* counters are gone, the store stays.                                     *)
Restart ==
  /\ faults < MaxFaults
  /\ faults'  = faults + 1
  /\ handler' = [p \in Posts |-> Left(handler[p])]
  /\ worker'  = [p \in Posts |->
                   IF worker[p] \in Alive \union {"broken"} THEN "killed" ELSE worker[p]]
  /\ working' = 0
  /\ stamp'   = [p \in Posts |-> 0]
  /\ outcome' = [p \in Posts |-> "none"]
  /\ UNCHANGED <<store, clock, client, attempt>>

-----------------------------------------------------------------------------
Client(c)  == Send(c) \/ Accepted(c) \/ SendFails(c) \/ PollEnds(c)
Handler(p) == \/ TurnAway(p) \/ LookUp(p) \/ SaveTask(p) \/ PruneStore(p) \/ CountTask(p)
              \/ StartWorker(p) \/ HandlerRaises(p)
Worker(p)  == Begin(p) \/ BeginRaises(p) \/ Run(p) \/ SaveResult(p) \/ SaveRaises(p)

Next ==
  \/ \E c \in Clients : Client(c)
  \/ \E p \in Posts : Handler(p) \/ Worker(p)
  \/ Tick
  \/ Restart

Spec == Init /\ [][Next]_vars

(* Handlers and workers are threads, and every run of a task has a         *)
(* timeout.  As each takes finitely many steps, it is enough that some     *)
(* thread goes on.                                                         *)
Threads  == \E p \in Posts : Handler(p) \/ Worker(p)
FairSpec == Spec /\ WF_vars(Threads)

-----------------------------------------------------------------------------
(* Properties *)

TypeOK ==
  /\ store    \in [Ids -> Row \union {NoRow}]
  /\ clock    \in 0..MaxTime
  /\ client   \in [Clients -> {"send", "wait", "poll", "noResult"} \union Final]
  /\ attempt  \in [Clients -> Nat]
  /\ handler  \in [Posts -> HandlerStates]
  /\ stamp    \in [Posts -> 0..MaxTime]
  /\ worker   \in [Posts -> {"none", "dropped", "done", "broken", "killed"} \union Alive]
  /\ outcome  \in [Posts -> {"none"} \union Final]
  /\ working  \in Nat
  /\ faults   \in 0..MaxFaults

(* tasks_working is the number of workers of this process, on every path a *)
(* worker can take: done, dropped, failed.  Only a thread that the store   *)
(* killed, and a task whose thread is not started yet or could not be,     *)
(* are counted too.                                                        *)
CounterCountsWorkers ==
  working = Cardinality({p \in Posts : worker[p] \in Alive \union {"broken"}})
            + Cardinality({p \in Posts : handler[p] \in {"counted", "miscounted"}})

(* A task that nobody will finish: its worker was stopped by a restart or  *)
(* by the store, or the thread of its POST was stopped before that started *)
(* a worker.                                                               *)
Abandoned(p) ==
  \/ worker[p] \in {"broken", "killed"}
  \/ handler[p] \in {"unpruned", "miscounted", "unstarted"}

(* A row says "working" only while a POST of that id is about to start a   *)
(* worker, a worker of it is alive, or its task was abandoned.             *)
WorkingHasWorker ==
  \A i \in Ids :
    store[i] # NoRow /\ store[i].status = "working"
      => \E p \in Posts :
           Tid(p) = i /\ (worker[p] \in Alive \/ handler[p] \in Holding \/ Abandoned(p))

(* The store exceeds max_tasks only by results of tasks that finished      *)
(* after their row was pruned, and by tasks whose prune is still to come   *)
(* or was stopped.                                                         *)
StoreBounded ==
  Cardinality(Stored(store)) <=
    MaxTasks + Cardinality({p \in Posts : worker[p] = "done"})
             + Cardinality({p \in Posts : handler[p] \in {"saved", "unpruned"}})

(* The POSTs that saved their task. *)
Savers == {p \in Posts : handler[p] \in Holding \union Stopped \union {"201"}}

(* What a poll has returned stands: as long as the row exists it keeps     *)
(* that status, unless a second POST of its id saved a task.               *)
ResultStands ==
  \A c \in Clients :
    client[c] \in Final /\ (\A p, q \in Savers : Tid(p) = IdOf[c] /\ Tid(q) = IdOf[c] => p = q)
      => store[IdOf[c]] = NoRow \/ store[IdOf[c]].status = client[c]

(* Once a POST was accepted, its row is gone, or its status is final, or a *)
(* task of its id was abandoned.                                           *)
Settled(p) ==
  handler[p] = "201" =>
    \/ store[Tid(p)] = NoRow
    \/ store[Tid(p)].status \in Final
    \/ \E q \in Posts : Tid(q) = Tid(p) /\ Abandoned(q)

(* However POSTs, prunes and errors interleave, again and again every      *)
(* accepted task is settled: no client polls one in vain, unless its row   *)
(* was pruned or a task of its id was abandoned.                           *)
EventuallyFinal == []<>(\A p \in Posts : Settled(p))

(* _exec_lock "guards _store.save+spawn against double-execute races"      *)
(* (core/server.py:56): an id never has two workers at once.  For the      *)
(* record: it does not hold, as the id is looked up before the lock is     *)
(* taken, and no run checks it.                                            *)
NoDoubleExecute ==
  \A p, q \in Posts :
    Tid(p) = Tid(q) /\ worker[p] \in Alive /\ worker[q] \in Alive => p = q

=============================================================================
