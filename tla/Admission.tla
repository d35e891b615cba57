------------------------------ MODULE Admission ------------------------------
(***************************************************************************)
(* What stands before and behind a task at a task server: the shared token *)
(* (core/auth.py), the rate limiter (core/rate_limiter.py, called by       *)
(* do_POST of core/server.py), and the alert on tasks that scored low      *)
(* (core/audit_hook.py, maybe_alert, called by _execute_task).             *)
(*                                                                         *)
(*   - Every process that serves or calls looks for the token file when it *)
(*     starts, and makes one if there is none or it is empty.  It keeps    *)
(*     the token for its life.                                             *)
(*   - A POST has a thread of its own.  It reads the clock before it takes *)
(*     the limiter's lock, and is authorized after.                        *)
(*   - Workers test and set the alert cooldown without a lock.             *)
(*                                                                         *)
(* Abstractions.  One server and its callers; the others only resolve the  *)
(* token.  A token is the number of its making.  The token in the          *)
(* environment, and CORS, which changes nothing, are left out.  What an    *)
(* accepted task does is in TaskServer; here it only scores.               *)
(***************************************************************************)
EXTENDS Integers, Sequences, FiniteSets

CONSTANTS
  Procs,       \* processes that share the token file
  Server,      \* the one whose requests are modelled
  Requests,    \* POSTs to it
  CallerOf,    \* the process that makes a request
  Burst,       \* A2A_RATE_BURST
  Window,      \* _WINDOW_SECONDS, in steps of the clock
  Cooldown,    \* ALERT_COOLDOWN_S, in steps of the clock
  MaxTime,     \* bound: steps of the clock
  MaxFaults    \* bound: kills of processes and failed file operations

ASSUME AdmissionConstantsOK ==
  /\ Server \in Procs /\ CallerOf \in [Requests -> Procs \ {Server}]
  /\ IsFiniteSet(Requests)
  /\ Burst \in Nat \ {0} /\ Window \in Nat \ {0} /\ Cooldown \in Nat \ {0}
  /\ MaxTime \in Nat /\ MaxFaults \in Nat

VARIABLES
  file,        \* the token file: NoFile, Empty, or a token
  made,        \* how many tokens have been made
  proc,        \* proc[p]: where its start is
  token,       \* token[p]: its _active_token
  failures,    \* history: failed file operations
  kills,       \* history: kills of processes
  raced,       \* history: processes that looked while another made the file
  clock,       \* time.monotonic(), and time.time()
  request,     \* request[r]: where the thread, then the worker, of r is
  stamp,       \* stamp[r]: the clock that r read last
  window,      \* the deque of the limiter: stamps
  passed,      \* history: the requests that had the lock, in that order
  tested,      \* history: tested[r]: the alert that was the last one in its test
  alerts       \* _last_alert_ts is the time of the last: [by : , at : ]

tokens  == <<file, made, proc, token, failures, kills, raced>>
limiter == <<stamp, window, passed>>
vars == <<tokens, clock, request, limiter, tested, alerts>>

NoFile == -1
Empty  == 0

Init ==
  /\ file = NoFile /\ made = 0
  /\ proc = [p \in Procs |-> "start"] /\ token = [p \in Procs |-> Empty]
  /\ failures = 0 /\ kills = 0 /\ raced = {}
  /\ clock = 0
  /\ request = [r \in Requests |-> "none"] /\ stamp = [r \in Requests |-> 0]
  /\ window = <<>> /\ passed = <<>>
  /\ tested = [r \in Requests |-> 0] /\ alerts = <<>>

Tick ==
  /\ clock < MaxTime
  /\ clock' = clock + 1
  /\ UNCHANGED <<tokens, request, limiter, tested, alerts>>

-----------------------------------------------------------------------------
(* load_or_create_token *)

Making == {p \in Procs : proc[p] \in {"make", "write"}}

(* A process that looks while another makes the file races it. *)
Race(p) == raced' = IF Making \ {p} # {} THEN raced \union Making \union {p} ELSE raced

Finds(p, content) ==
  IF content \in {NoFile, Empty}
  THEN proc' = [proc EXCEPT ![p] = "make"] /\ UNCHANGED token
  ELSE proc' = [proc EXCEPT ![p] = "up"] /\ token' = [token EXCEPT ![p] = content]

Fault ==
  /\ failures + kills < MaxFaults
  /\ failures' = failures + 1
  /\ UNCHANGED kills

(* Faulty variant: the file is there, so it has a token. *)
LookTakesEmpty(p) ==
  /\ proc[p] = "start"
  /\ IF file = NoFile THEN Finds(p, file) ELSE
       proc' = [proc EXCEPT ![p] = "up"] /\ token' = [token EXCEPT ![p] = file]
  /\ Race(p)
  /\ UNCHANGED <<file, made, failures, kills, clock, request, limiter, tested, alerts>>

Look(p) ==
  /\ proc[p] = "start"
  /\ Finds(p, file)
  /\ Race(p)
  /\ UNCHANGED <<file, made, failures, kills, clock, request, limiter, tested, alerts>>

LookFails(p) ==
  /\ proc[p] = "start" /\ file # NoFile
  /\ Fault
  /\ Finds(p, Empty)
  /\ Race(p)
  /\ UNCHANGED <<file, made, clock, request, limiter, tested, alerts>>

(* os.open truncates the file. *)
Make(p) ==
  /\ proc[p] = "make"
  /\ file' = Empty
  /\ proc' = [proc EXCEPT ![p] = "write"]
  /\ UNCHANGED <<made, token, failures, kills, raced, clock, request, limiter, tested, alerts>>

Up(p) ==
  /\ made'  = made + 1
  /\ token' = [token EXCEPT ![p] = made']
  /\ proc'  = [proc EXCEPT ![p] = "up"]
  /\ UNCHANGED <<raced, clock, request, limiter, tested, alerts>>

Write(p) ==
  /\ proc[p] = "write"
  /\ Up(p)
  /\ file' = made'
  /\ UNCHANGED <<failures, kills>>

(* The token serves, but is not kept. *)
MakeFails(p) ==
  /\ proc[p] \in {"make", "write"}
  /\ Fault
  /\ Up(p)
  /\ UNCHANGED file

(* The requests to a server that is killed are lost with it. *)
Kill(p) ==
  /\ failures + kills < MaxFaults
  /\ kills' = kills + 1
  /\ proc'  = [proc EXCEPT ![p] = "start"]
  /\ token' = [token EXCEPT ![p] = Empty]
  /\ raced' = raced \ {p}
  /\ proc[p] # "start"
  /\ p = Server => \A r \in Requests : request[r] = "none"
  /\ UNCHANGED <<file, made, failures, clock, request, limiter, tested, alerts>>

-----------------------------------------------------------------------------
(* do_POST: RateLimiter.check, then check_auth *)

Arrive(r) ==
  /\ request[r] = "none"
  /\ proc[Server] = "up" /\ proc[CallerOf[r]] = "up"
  /\ stamp'   = [stamp EXCEPT ![r] = clock]
  /\ request' = [request EXCEPT ![r] = "stamped"]
  /\ UNCHANGED <<tokens, clock, window, passed, tested, alerts>>

(* Faulty variant: a stamp from the window's edge is old. *)
RemainingShort(w, cutoff) ==
  LET fresh == {i \in DOMAIN w : w[i] > cutoff} IN
  IF fresh = {} THEN <<>>
  ELSE SubSeq(w, CHOOSE i \in fresh : \A j \in fresh : i <= j, Len(w))

(* The stamps that remain when the old ones at the head have been removed. *)
Remaining(w, cutoff) ==
  LET fresh == {i \in DOMAIN w : w[i] >= cutoff} IN
  IF fresh = {} THEN <<>>
  ELSE SubSeq(w, CHOOSE i \in fresh : \A j \in fresh : i <= j, Len(w))

(* Faulty variant: one too many. *)
RoomForOneMore(w) == Len(w) <= Burst

Room(w) == Len(w) < Burst

Check(r) ==
  /\ request[r] = "stamped"
  /\ LET w == Remaining(window, stamp[r] - Window) IN
       /\ window'  = IF Room(w) THEN Append(w, stamp[r]) ELSE w
       /\ request' = [request EXCEPT ![r] = IF Room(w) THEN "admitted" ELSE "429"]
       /\ passed'  = Append(passed, [stamp |-> stamp[r], ok |-> Room(w)])
  /\ UNCHANGED <<tokens, clock, stamp, tested, alerts>>

Authorize(r) ==
  /\ request[r] = "admitted"
  /\ request' = [request EXCEPT ![r] =
                   IF token[CallerOf[r]] = token[Server] THEN "working" ELSE "401"]
  /\ UNCHANGED <<tokens, clock, limiter, tested, alerts>>

-----------------------------------------------------------------------------
(* _execute_task: score_task, then maybe_alert *)

ScoresWell(r) ==
  /\ request[r] = "working"
  /\ request' = [request EXCEPT ![r] = "done"]
  /\ UNCHANGED <<tokens, clock, limiter, tested, alerts>>

(* Faulty variant: the cooldown starts with the first alert and is not renewed. *)
CoolFirst(now) == alerts = <<>> \/ now - alerts[1].at >= Cooldown

Cool(now) == alerts = <<>> \/ now - alerts[Len(alerts)].at >= Cooldown

ScoresLow(r) ==
  /\ request[r] = "working"
  /\ request' = [request EXCEPT ![r] = IF Cool(clock) THEN "alert" ELSE "done"]
  /\ stamp'   = [stamp EXCEPT ![r] = clock]
  /\ tested'  = [tested EXCEPT ![r] = Len(alerts)]
  /\ UNCHANGED <<tokens, clock, window, passed, alerts>>

Alert(r) ==
  /\ request[r] = "alert"
  /\ alerts'  = Append(alerts, [by |-> r, at |-> stamp[r]])
  /\ request' = [request EXCEPT ![r] = "done"]
  /\ UNCHANGED <<tokens, clock, limiter, tested>>

-----------------------------------------------------------------------------
Start(p)   == Look(p) \/ LookFails(p) \/ Make(p) \/ Write(p) \/ MakeFails(p)
Handle(r)  == Arrive(r) \/ Check(r) \/ Authorize(r)
Execute(r) == ScoresWell(r) \/ ScoresLow(r) \/ Alert(r)

Next ==
  \/ Tick
  \/ \E p \in Procs : Start(p) \/ Kill(p)
  \/ \E r \in Requests : Handle(r) \/ Execute(r)

Spec == Init /\ [][Next]_vars

-----------------------------------------------------------------------------
TypeOK ==
  /\ made \in Nat /\ file \in {NoFile} \union (0..made)
  /\ proc \in [Procs -> {"start", "make", "write", "up"}]
  /\ token \in [Procs -> 0..made]
  /\ failures \in 0..MaxFaults /\ kills \in 0..MaxFaults /\ raced \subseteq Procs
  /\ clock \in 0..MaxTime
  /\ request \in [Requests -> {"none", "stamped", "admitted", "429", "401", "working",
                               "alert", "done"}]
  /\ stamp \in [Requests -> 0..clock]
  /\ window \in Seq(0..clock) /\ Len(window) <= Burst
  /\ passed \in Seq([stamp : 0..clock, ok : BOOLEAN])
  /\ tested \in [Requests -> 0..Len(alerts)]
  /\ alerts \in Seq([by : Requests, at : 0..clock])

(* The token is shared (auth.py, load_or_create_token): as long as no file *)
(* operation failed, a process that did not look while another made the    *)
(* file holds the token that is in it, so that all of them agree, kills    *)
(* and restarts included; a process that raced may hold another one for    *)
(* its life.                                                               *)
TokensAgree ==
  failures = 0 =>
    \A p \in Procs : proc[p] = "up" /\ p \notin raced => file = token[p] /\ file # Empty

Admitted(n, since) == {m \in 1..(n - 1) : passed[m].ok /\ passed[m].stamp >= since}

(* The limit (rate_limiter.py, check): a request whose stamp is the latest *)
(* so far is admitted only if fewer than Burst were within the window, and *)
(* as long as the stamps came in order none of them is refused needlessly. *)
(* A thread that got the lock late may exceed or waste the limit.          *)
LimiterExact ==
  \A n \in DOMAIN passed :
    LET s == passed[n].stamp
        latest == \A m \in 1..(n - 1) : passed[m].stamp <= s
        sorted == \A m \in 1..(n - 1) : passed[m].stamp <= passed[m + 1].stamp
        full == Cardinality(Admitted(n, s - Window)) >= Burst
    IN  /\ latest /\ passed[n].ok => ~full
        /\ sorted /\ ~passed[n].ok => full

(* The cooldown (audit_hook.py, maybe_alert): of two alerts that are less  *)
(* than the cooldown apart, the later was tested before the earlier was    *)
(* set, or an alert that raced so came between them and set the time back. *)
AlertsSpaced ==
  \A i, j \in DOMAIN alerts :
    i < j => \/ alerts[j].at - alerts[i].at >= Cooldown
             \/ \E k \in (i + 1)..j : tested[alerts[k].by] < i
=============================================================================
