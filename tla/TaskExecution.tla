---------------------------- MODULE TaskExecution ----------------------------
(***************************************************************************)
(* How a task server runs the tasks it accepted (core/task_handler.py,     *)
(* handle_task): it creates a run on the API server of the profile and     *)
(* polls it; when the create call fails, it runs the prompt in a process   *)
(* of its own, a chat, and waits for that.                                 *)
(*                                                                         *)
(*   - The create call may fail after the API server took the run: the     *)
(*     prompt then runs twice.                                             *)
(*   - Giving up on a run does not stop it; giving up on a chat kills it.  *)
(*   - A client that repeats its POST (core/discuss.py, _a2a_send) can get *)
(*     two workers for one id: the handler looks for the id before it      *)
(*     takes the lock under which it saves the task (core/server.py,       *)
(*     do_POST).  The handlers of a task share one row of the store.       *)
(*                                                                         *)
(* The agent that carries out the prompt is external.  The prompts of a    *)
(* discussion tell it to post its answer to the group and to return the    *)
(* text too.  It may return any text, whether or not it has posted; the    *)
(* texts are told apart as far as _classify does.                          *)
(***************************************************************************)
EXTENDS Naturals, Sequences

CONSTANTS
  Tasks,       \* the tasks a server is given
  Posts,       \* how often a client posts one task, at most
  MaxFaults    \* bound: failures and irregular answers

VARIABLES
  handler,     \* handler[w]: where the handler of a POST, or its worker thread, is
  copy,        \* copy[w][c]: the run, or the chat, of worker w
  result,      \* result[t]: the row of task t
  lost,        \* history: the workers whose create call failed although it was taken
  group,       \* the messages in the Telegram group
  faults       \* history: how many failures there were

execution == <<handler, copy, result, lost>>

Copies == {"run", "chat"}
Texts  == {"empty", "plain", "unable", "unable, sent"}

None    == [at |-> "none", posted |-> FALSE, status |-> "none", text |-> "empty"]
Running == [None EXCEPT !.at = "running"]

(* The nth POST of task t has the worker <<t, n>>. *)
Workers == Tasks \X (1..Posts)

(* What a worker saves; posted is history: whether its agent had posted.   *)
NoResult == [status |-> "none", semantic |-> "?", text |-> "empty", posted |-> FALSE]
GivenUp  == [NoResult EXCEPT !.status = "failed"]

Answer(t) == [by |-> "default", round |-> t]

Fault(n) ==
  /\ faults + n <= MaxFaults
  /\ faults' = faults + n

ExecutionInit ==
  /\ handler = [w \in Workers |-> "none"]
  /\ copy    = [w \in Workers |-> [c \in Copies |-> None]]
  /\ result  = [t \in Tasks |-> NoResult]
  /\ lost    = {}

(* Of the POSTs of a task, those in saved have their workers; those in     *)
(* late were looked up, but not saved yet.                                 *)
Take(t, saved, late) ==
  handler' = [w \in Workers |-> CASE w[1] = t /\ w[2] \in saved -> "create"
                                  [] w[1] = t /\ w[2] \in late  -> "posted"
                                  [] OTHER -> handler[w]]

(* A handler that had not found the id saves the task again. *)
TakeLate(w) ==
  /\ handler[w] = "posted"
  /\ handler' = [handler EXCEPT ![w] = "create"]
  /\ result'  = [result EXCEPT ![w[1]] = NoResult]
  /\ UNCHANGED <<copy, lost, group, faults>>

CreateRun(w) ==
  /\ handler[w] = "create"
  /\ handler' = [handler EXCEPT ![w] = "poll"]
  /\ copy'    = [copy EXCEPT ![w]["run"] = Running]
  /\ UNCHANGED <<result, lost, group, faults>>

(* No answer in 10 s, or no JSON. *)
CreateRunLost(w) ==
  /\ handler[w] = "create"
  /\ Fault(1)
  /\ handler' = [handler EXCEPT ![w] = "chat"]
  /\ copy'    = [copy EXCEPT ![w] = [c \in Copies |-> Running]]
  /\ lost'    = lost \union {w}
  /\ UNCHANGED <<result, group>>

CreateRunRefused(w) ==
  /\ handler[w] = "create"
  /\ Fault(1)
  /\ handler' = [handler EXCEPT ![w] = "chat"]
  /\ copy'    = [copy EXCEPT ![w]["chat"] = Running]
  /\ UNCHANGED <<result, lost, group>>

-----------------------------------------------------------------------------
(* The agent *)

Post(w, c) ==
  /\ copy[w][c].at = "running" /\ ~copy[w][c].posted
  /\ group' = Append(group, Answer(w[1]))
  /\ copy'  = [copy EXCEPT ![w][c].posted = TRUE]
  /\ UNCHANGED <<handler, result, lost, faults>>

(* How the agent ends: usually it posted, and does not say that it could not. *)
Ended(k) ==
  {[k EXCEPT !.at = "ended", !.status = "completed", !.text = x] : x \in Texts}
    \union {[k EXCEPT !.at = "ended", !.status = "failed", !.text = x] : x \in {"empty", "plain"}}

AsUsual(k) == k.posted /\ k.status = "completed" /\ k.text = "plain"

(* A run that no worker polls any more need not end: it posts, or does not. *)
RunEnds(w) ==
  /\ handler[w] = "poll" /\ copy[w]["run"].at = "running"
  /\ \E k \in Ended(copy[w]["run"]) :
       /\ Fault(IF AsUsual(k) THEN 0 ELSE 1)
       /\ copy' = [copy EXCEPT ![w]["run"] = k]
  /\ UNCHANGED <<handler, result, lost, group>>

-----------------------------------------------------------------------------
(* The worker *)

(* Faulty variant: a text that says it was sent has succeeded. *)
ClassifySentFirst(status, text) ==
  CASE status = "failed" -> "failed"
    [] status = "completed" /\ text = "empty"  -> "degraded"
    [] status = "completed" /\ text = "unable" -> "degraded"
    [] OTHER -> "succeeded"

Classify(status, text) ==
  CASE status = "failed" -> "failed"
    [] status = "completed" /\ text \in {"empty", "unable", "unable, sent"} -> "degraded"
    [] OTHER -> "succeeded"

Result(k) == [status |-> k.status, semantic |-> Classify(k.status, k.text),
              text |-> k.text, posted |-> k.posted]

Finish(w, r) ==
  /\ handler' = [handler EXCEPT ![w] = "done"]
  /\ result'  = [result EXCEPT ![w[1]] = r]

(* Faulty variant: a worker that gave up tries a chat. *)
PollRunFallsBack(w) ==
  /\ handler[w] = "poll"
  /\ IF copy[w]["run"].at = "ended"
     THEN Finish(w, Result(copy[w]["run"])) /\ UNCHANGED copy
     ELSE /\ handler' = [handler EXCEPT ![w] = "chat"]
          /\ copy'    = [copy EXCEPT ![w]["chat"] = Running]
          /\ UNCHANGED result
  /\ UNCHANGED <<lost, group, faults>>

(* Faulty variant: without its deadline. *)
PollRunForever(w) ==
  /\ handler[w] = "poll" /\ copy[w]["run"].at = "ended"
  /\ Finish(w, Result(copy[w]["run"]))
  /\ UNCHANGED <<copy, lost, group, faults>>

(* The poll that finds the run ended, or the last before the deadline.  A  *)
(* run that no poll finds ended is one that goes on.                       *)
PollRun(w) ==
  /\ handler[w] = "poll"
  /\ \/ copy[w]["run"].at = "ended"   /\ Finish(w, Result(copy[w]["run"]))
     \/ copy[w]["run"].at = "running" /\ Finish(w, GivenUp)
  /\ UNCHANGED <<copy, lost, group, faults>>

ChatEnds(w) ==
  /\ handler[w] = "chat"
  /\ \E k \in Ended(copy[w]["chat"]) :
       /\ Fault(IF AsUsual(k) THEN 0 ELSE 1)
       /\ copy' = [copy EXCEPT ![w]["chat"] = k]
       /\ Finish(w, Result(k))
  /\ UNCHANGED <<lost, group>>

ChatTimeout(w) ==
  /\ handler[w] = "chat"
  /\ copy' = [copy EXCEPT ![w]["chat"].at = "ended"]
  /\ Finish(w, GivenUp)
  /\ UNCHANGED <<lost, group, faults>>

Create(w) == CreateRun(w) \/ CreateRunLost(w) \/ CreateRunRefused(w)
Work(w)   == TakeLate(w) \/ Create(w) \/ PollRun(w) \/ ChatEnds(w) \/ ChatTimeout(w)
Agent(w)  == RunEnds(w) \/ \E c \in Copies : Post(w, c)
=============================================================================
