# Verification of hermes-s6m-a2a

TLA+ models of `core/`: the A2A transport (task servers, their clients, their
registry, what runs a task), the discussions and debates that are led over it,
and the empire-thread event bridge with its sinks; the TLC configurations that
check them, and theorems about them that the TLA+ proof system checks. Paths
below are relative to the repository; `core/` is the implementation, the
`s6m-config/dispatcher` copy of `a2a_dispatch.py` is identical to the one there.

## 1. The system

One machine runs about 16 *profiles* (agents). Each profile has a task server
(`core/server.py`, a threaded HTTP server started by launchd or by the plugin
of the profile's gateway), a SQLite store of tasks, and a JSONL file of events,
`empire-thread.jsonl`. Clients post tasks and poll them. Every finished task
and some tool calls of the gateway are recorded as events; one daemon for the
whole machine tails all the JSONL files and hands every event to several sinks.
A debate layer posts typed comments on kanban tasks and decides when a debate
has converged.

```
 discuss / dispatcher --POST,GET--> task server --thread--> task_handler --> API server / subprocess
        |                             |   |                      |
   auto_discuss, router,            store registry          emit_empire_event
   swarm gate, comment kinds       (SQLite) (flock+JSON)         |
                                                                 v
 gateway plugin --spawns--> task server        gateway hook --> empire-thread.jsonl
                                                                 |
                                             event-bridge daemon (cursor per sink x profile)
                                                                 |
                                                  audit | obsidian | supermemory sinks
```

### Inventory

| component | state | operations | how it interacts | what is hard | what makes it correct |
|---|---|---|---|---|---|
| event emission (`empire_emit.py`, `audit_hook.py`) | the JSONL file of a profile | hook: append a line; task thread: read all, rename a longer copy over it | files, no lock, several processes | torn writes, lost updates, a new inode per completed task | an emitted event is in the file; the file stays a sequence of lines |
| event bridge (`event_bridge/core.py`, `cursor.py`, `daemon.py`, `paths.py`) | a cursor (inode, offset) per sink and profile | tick, consume_for, save_atomic | tails the files, calls the sinks | a kill at any point, a rename between stat and open, half lines, lines that cannot be decoded or written | no event skipped, bounded redelivery, nobody starved |
| pending queue (`event_bridge/pending.py`) | queue file, cursor file, `.compact` file | enqueue, iter_pending, advance, maybe_compact | one producer thread, one consumer thread | a kill between a rename and the reset of the cursor, an append during a compaction, torn tails, short writes | every enqueued item delivered, one redelivery per kill |
| sinks (`sinks/*.py`, `dlq.py`, `rollup.py`) | notes, day files, compressed day files | write, roll_and_compress; count a day | called by the daemon | redelivery, a kill inside a write or between two file operations, short writes, late events | at-least-once input gives one note; a day is compressed once and nothing is lost |
| task server and store (`server.py`, `storage.py`) | rows, `tasks_working`, threads | POST, worker, prune, restart | HTTP, SQLite | two POSTs of one id, a prune of a live task, a restart or a raise between the save of a task and its thread | counter, rows and threads agree; a task gets a final status |
| A2A client (`discuss.py`, `_a2a_send`, `_a2a_poll`) | an id and a deadline | send with retries, poll | HTTP to the server | a lost answer, a late answer, equal ids | the result it returns is the task's |
| task execution (`task_handler.py`) | none of its own | handle_task through the API server, fallback to a subprocess | HTTP, subprocess | a create that times out after it was accepted; classification of results | a prompt is run once; every end is classified |
| registry and server lifecycle (`registry.py`, `plugin.py`, `server.py` main) | a JSON file under an flock; processes, pids, ports | kill_stale, upsert, remove, get_all, cleanup_stale; spawn, bind, shutdown | signals, launchd KeepAlive | mutual reaping, a victim that needs its reaper's lock, reused pids, a slow `ps`, a registry file that fails or is damaged | a serving server is listed, an entry has an owner, every profile ends up served |
| discussion (`discuss.py`: roleplay, synthesize, auto; `auto_discuss.py`) | rounds, errors, status of one discussion | classify_message; post, ask, poll, relay | Telegram group, A2A client | answers that come late, twice or unposted; a relay that fails; the prompt and the group drift apart | the group reads what is recorded, in order; prompt and exit code tell the truth; it ends |
| debate protocol (`orchestrator_router.py`, `swarm_wrapper.py`) | none: it reads the comment thread of a task | route_comment, aggregate_votes, detect_deadlock, convergence_check, decide_gate | kanban database | several functions decide on one thread | they do not contradict each other |
| comment kinds (`comment_kind.py`, `_backfill.py`, `_classifier.py`) | table a2a_comment_kinds | record_kind, get_thread, backfill | SQLite, several processes | the backfill writes what it selected earlier | an explicit kind is never overwritten by a guess |
| rate limiter, audit alert (`rate_limiter.py`, `maybe_alert`) | window of stamps; set and time of alerts | check; maybe_alert | concurrent request and task threads | time read before the lock; test and set apart | at most `burst` per window; one alert per cooldown |
| skills (`skill_sanitizer.py`, `skill_resolver.py`) | the skills column | sanitize, sweep_ready | kanban database | read-modify-write | no unknown skill is dispatched |
| authentication (`auth.py`) | a token file | load_or_create_token, check_auth | every request | two first starts at once | one token |
| gateway proxy, dispatcher (`gateway.py`, `a2a_dispatch.py`) | a cache | forward | HTTP | 502 for an accepted POST | |
| identity, paths, agent card, port map, scripts, plists | none | lookups, checks | | | |

## 2. Plan

The order was: the event bridge (the longest protocol with kills in it, and the
one everything else is recorded through), the pending queue, the task server
with its clients, the registry; then what these four carry: the sinks behind
the bridge (`Sinks`), the debate over typed comments (`Router`, `CommentKinds`),
the discussion over the task server (`AutoDiscuss`, `TaskExecution`,
`Discussion`), and what stands before and behind a task (`Admission`). Each
state machine but `TaskExecution`, which `Discussion` contains, has a run of its
own and a module of proofs.

What is left is the read-modify-write of `skill_sanitizer.py` on the kanban
database. Of the properties that the passing runs check, every
invariant, every action property and the refinement is also a theorem
(section 5).

## 3. The modules

Each module names in its header what it abstracts. Definitions that begin with
"Faulty variant" are wrong versions of the definition below them; they are not
part of any specification and serve to see that a property can fail.

How they compose: `EventBridge` implements `EventDelivery`; `CommentKinds`
extends `Router` and applies it to the threads it produces; `Discussion`
extends `AutoDiscuss` and `TaskExecution` and steps the worker threads and the
agent beside the discussion. What two state machines have in common is in
detail in one of them: `TaskServer` has the POST, the retry and the store and
one step `Run` for the work, `TaskExecution` has that work and, for the POSTs
of a task, one step `Take` and a `TakeLate` for each that is saved after it;
`EventBridge` counts what a sink is handed, `Sinks` has what it does with it and
a log that grows and is replaced.

### EventBridge, EventDelivery

`EventBridge` has one action per file operation of the three kinds of process.

* Emitters. `HookOpen`, `HookWrite` (or `HookHead` then `HookTail` for a line
  that reaches the file in two parts), `HookFail` are `_emit_handler`: an open
  in append mode, a write, an error that is swallowed. `TaskRead`,
  `TaskReplace`, `TaskFail` are `emit_empire_event`: `read_bytes`, then
  `os.replace`. A line is an event and a form: whole, an open tail, or what an
  open tail becomes when something else is written behind it.
* Daemon. `Tick` lists the files; `Stat`, `Open`, `ReadLine`, `Save` are
  `consume_for`. Nothing catches what `json.loads` raises on a line that is not
  UTF-8, nor what a sink's `write` raises: `FatalLine` ends the daemon at a line
  that does so every time (`Poison` says which sink cannot write which event),
  `WriteRaises` once, with the event written or not. `Crash` and `Restart` are a
  kill and launchd. The cursor is (inode, number of lines).

`EventDelivery` is the promise: a log per profile, what each sink has seen, and
what it has acknowledged; only what was seen is acknowledged, and
acknowledgements are forgotten only when the log is replaced. `AtLeastOnce` says
that the bridge implements it, with the log being the lines of the file the
path names and the acknowledged events those before a cursor about that inode.

### PendingQueue

`Enqueue`, `Repair`, `OpenAppend`, `Write` are `enqueue` with its repair of a
torn tail (`Write` may be short, which the code does not look at; `EnqueueFails`
is an `OSError`); `List`, `Deliver`, `Advance` a consumer that lists, delivers,
and advances past each item, as the tests do (what is listed is a set of lines);
`CompactCopy`, `CompactReplace`, `CompactReset` the three effects of
`maybe_compact`. The cursor is two numbers, as in the code: `cursor` (`line_no`)
numbers what is listed and decides whether to compact, `seek` (`byte_offset`)
says where reading begins, and they differ by `shift` once a consumer was
stopped between the rename and the reset of a compaction: the old offset then
falls anywhere in the new file, into a line too (`cut`). `ListRaises` says that a
line that is not UTF-8, which only a tear inside a character makes, is behind the
cursor: `iter_pending` catches `JSONDecodeError` only, so no listing gets by.
`Kill` may leave the line that was being written whole, torn, or without its
newline; `ConsumerRaises` ends a pass of the consumer. `mishaps` records the
three ways in which the code can lose an item (`unreset`: the stop just named;
`raced`: an append to the file being replaced; `short`: a short write), so that
`NoneSkipped` can say that there is no fourth.

### TaskServer

Clients (`Send`, `Accepted`, `SendFails`, `PollEnds`), the thread of a POST
(`TurnAway`, `LookUp`, and under `_exec_lock` one step each for the save, the
prune, the count and the thread start: `SaveTask`, `PruneStore`, `CountTask`,
`StartWorker`; `HandlerRaises` for each of them that may raise) and the worker
(`Begin`, `BeginRaises`, `Run`, `SaveResult`, `SaveRaises`), over a store whose
calls are atomic. `Upsert` and
`Pruned` are its SQL statements; rows of equal age are pruned in any order, and
a ttl of 0 prunes none by age. `Restart` ends the threads, wherever they are, and
keeps the rows; `handler` remembers where a thread was stopped, as a row that
was saved for it may stay `working` (`Abandoned`).

### Registry

Processes start (`LaunchdStart`, `GatewayBoot`, `GatewaySpawn`), reap
(`KillNothing`, `KillDead`, `KillSpares` when `ps` fails, `KillTerm`, then
`KillOver` or `KillForce`, with the flock held from `KillTerm` on), and serve
(`Bind`, `InstallHandlers`, `Upsert`, `Shutdown`, `Remove`, `Close`). `Prune`
is `get_all` and `cleanup_stale`. The accesses of the file may fail: `KillFails`
(logged, nobody is reaped), `DropVictim` (the last write of `kill_stale`),
`UpsertFails` ("continuing anyway": the server serves unlisted), `RemoveFails`
(the entry stays); a file that cannot be read or parsed counts as empty, so the
`Upsert` that reads it drops all other entries, and `Damage` all of them. Pids
are reused as soon as they are free. `stale` and `mislaid` record the two ways in
which registry and processes may disagree: a server ended with its entry left;
a running server's entry was not written, or was taken.

### Sinks

`Emit`, `EmitReplacing` and `Midnight` are the environment: a hook appends to the
log, a task completion renames a longer copy to it, so that every cursor is
dropped and the whole log is handed out again; a sink that has the old file open
reads that to its end (`size`). A tick of the daemon is the audit
sink (`AuditWrite` per event, `AuditEnd` saves its cursor), the obsidian sink
(`NoteCreate`, `NoteWrite`: `write_text` creates, then writes; `NoteExists`;
`ObsidianEnd`) and the compression of past days (`Seal`: temporary file and
rename; `RemoveDay`; `SkipDay`; `RollEnd`). `Kill` may fall between any two
steps, `AuditWriteKilled` inside a write; `AuditWriteShort` is a short `os.write`,
which tears a line without a kill. `Counted` is how often `rollup.py` counts an
event. The histories `tears` and `shorts` say how many lines of a day a kill or a
short write has torn.

### Router, CommentKinds

`Router` has the decisions as operators over a thread, the sequence of the
kinds of its comments: `RouteComment`, `AggregateVotes` and `Consensus`,
`DetectDeadlock`, `ConvergenceCheck`, `DecideGate`. `CommentKinds` produces the
threads: agents comment and record kinds (`Comment`, `RecordKind`); a worker
backfills the comments of its task, then the others up to a limit (`Start`,
`Insert`, `Finish`, `Raise` when its snapshot is old, which ends both scopes, and
`Skip` for another error, after which the second scope goes on), one row per step.
`Classify` is the classifier with its patterns in their order. `Committed` is
what a commit does to the open read snapshots of the other connections (WAL):
an `INSERT` on an old snapshot fails; but the statement of a backfill is closed
when its last row is handed out, so the insert for that row replaces whatever
is there.

### AutoDiscuss, TaskExecution, Discussion

`AutoDiscuss` is `classify_message` over messages that are sets of phrases:
scores, thresholds, rounds and depth. `TaskExecution` is `handle_task`
(`CreateRun`, `CreateRunLost`, `CreateRunRefused`, `PollRun`, `ChatEnds`,
`ChatTimeout`) and the agent (`Post`, `RunEnds`), which goes on after a worker
gave up. A worker is a POST of a task: `Take` starts the one whose POST was saved
first, and each POST that had looked the id up before that is saved later, with a
worker of its own (`TakeLate`). The agent may return any text, whether or not it
posted. `Classify` is `_classify` over the kinds of text it tells apart.
`Discussion` is the command line: `Roleplay`, `Synthesize`, `AutoStart` and
`AutoSkip` begin, then `Speak`, `Ask` (or `AskFails`), `Poll`, `Relay` per
round; `NextRound` is the head of the loop and `Aggregate` the status at its
end. `TgSend` delivers a message zero, one or two times whatever it reports. A
line of the group is who wrote it and the round it is about, so "the answer of
round r" can be found in the group, in a prompt, or in neither.

### Admission

`Look`, `LookFails`, `Make`, `Write`, `MakeFails` are `load_or_create_token` of
each process; `Arrive`, `Check` and `Authorize` a POST: the clock is read, the
lock taken, the token compared; `ScoresLow` and `Alert` the test and the set of
`maybe_alert`. `raced`, `passed` and `tested` are histories: which processes
looked while another made the file, in which order the stamps reached the
limiter, and which alert a test has seen.

## 4. The runs

| run | instance | shows |
|---|---|---|
| `bridge_safety` | 1 profile, 2 sinks, 2 hook events (one long, one a writeback), 1 task event, 1 kill or raise, both bad forms | `CursorNeverAhead`, `DuplicatesBounded`, `CursorNeverBack`, `AtLeastOnce` |
| `bridge_liveness` | 2 profiles, 2 sinks, 2 hook events (one of which the second sink cannot write), 1 task event, 1 kill or raise, both bad forms | `EventuallyHanded` |
| `bridge_lost_update` | 1 hook event, 1 task event | counterexample to `EmissionKeepsLines` |
| `pending_queue` | 3 items, compaction past 0 lines and size 1, 2 kills or raises of the consumer, old offsets up to 2 | `NoneSkipped`, `OneRedeliveryPerKill`, `EventuallyDelivered` |
| `task_server` | 2 clients, one retrying once, store of 1 task, ttl 1, 1 clock step, 2 faults | `CounterCountsWorkers`, `WorkingHasWorker`, `StoreBounded`, `ResultStands`, `EventuallyFinal` |
| `registry` | 2 launchd jobs of two profiles, 1 gateway boot, 3 pids, 4 ports, 2 faults | `ServingListed`, `EntryOwned`, `Settles` |
| `registry_recycled` | 2 launchd jobs, 1 fault | counterexample to `ReapsOwnProfile` |
| `sinks` | 3 events, 2 midnights, 1 kill or raise, 1 task completion, 1 short write per day | `AuditKeeps`, `NotesWhole`, `RollLosesNothing`, `EventuallyCompressed` |
| `comment_kinds` | 2 tasks, 2 workers, 3 comments, 1 recorded kind, sweep limit 1 | `OwnTaskClassified`, `VerdictsAgree`, `StatedKindStands` |
| `comment_votes` | votes in words | counterexample to `GateCountsVotes` |
| `discussion` | up to 3 rounds, 2 POSTs per prompt, `history_window` 0, 1 and 3, 1 fault; messages of up to 2 phrases | `CarriedOutOnce`, `AnswerReadBeforeNext`, `PromptUpToDate`, `ExitTellsTruth`, `AutoDecides`, `EverythingSettles` |
| `admission` | 3 processes, 3 requests, burst 2, window 1, cooldown 2, 3 clock steps, 1 fault | `TokensAgree`, `LimiterExact`, `AlertsSpaced` |

Every run that passes checks a type invariant as well, `bridge_liveness`
excepted. `comment_kinds` (tasks, workers) and `admission` (requests) use
symmetry: they check invariants and an action property, no liveness, and no
value of the permuted sets is named by the specification.

### Bounds

* `bridge_safety`: two appends and one rename are the smallest file histories
  with a torn line, a glued line, a lost line and two inodes; the writeback
  shows the line that a sink rejects. One kill suffices for each crash point,
  as all that survives a kill is the cursor files. `MaxHanded` (4) is above the
  3 that one kill and two inodes allow, so it does not mask
  `DuplicatesBounded`.
* `bridge_liveness`: an event that the second sink cannot write stops that sink
  of the first profile and both sinks of the second, and not the first sink of
  the first: the two sides of `Blocked`.
* `pending_queue`: a compaction needs two lines, and one item more to be
  enqueued during it; two kills give a kill during the recovery from a kill. An
  old offset that falls behind 0, 1 or 2 lines of the new file, or into one, is
  before, at and behind its end, as it has one or two lines.
* `task_server`: with one place in the store every second accept prunes, which
  makes a prune of a live row and its resurrection frequent; two POSTs of one
  client are a retry, and two POSTs of one id; with the ttl of 1 a row may expire
  at the only clock step. Two faults are what it takes to break both saves of a
  worker, or to stop one handler of an id and its other worker.
* `registry`: two starters of one profile is what it takes to reap each other,
  a second profile to reap the wrong one; three pids for three servers make
  every free pid a reused one. Stable ports are chosen so that the scan of the
  gateway wraps around (and so that it does not end on the port of the other
  profile, see section 7).
* `sinks`: two midnights give a day that is compressed, one that is the last
  before today, and today; three events put a late one after a compression and
  two into one file. One kill, one replaced log and one short write per day
  combine in every order; the safety theorems hold for any number of them.
* `comment_kinds`: an outdated snapshot needs two rows in a listing and a commit
  of somebody else between them; a replaced kind needs a record between the
  listing and its last row; two tasks and a limit of 1 make the second scope
  stop short. Three comments are the shortest thread that the deadlock guard
  looks at, and a majority of two with a comment that is no vote.
* `discussion`: an answer of round 1 that comes in round 3 needs three rounds;
  the windows are all lines, one line, and an odd number of lines that cuts a
  round in two. Two POSTs are a retry with two workers. One fault is one cause:
  two together only combine their effects, and the safety theorems hold for any
  number of faults and POSTs. The messages of two phrases reach every table and every pair of
  tables; the two of three the scores that no pair reaches.
* `admission`: three requests are one more than the burst, and let one be late
  while two are in order; with three processes two make the token file while a
  third looks.

### Fairness

* `EventBridge`: weak fairness of `Daemon`: the loop of `daemon.run` never
  returns and launchd restarts the process. None of the emitters.
* `PendingQueue`: weak fairness of `Consumer`. None of the producer, of
  compactions in particular none beyond being steps of the consumer's thread.
* `TaskServer`: weak fairness of handlers and workers together: they are
  threads, and the runs of a task have timeouts; as each takes finitely many
  steps, it is enough that some thread goes on. None of clients or the clock.
* `Sinks`: weak fairness of `Daemon`, as in `EventBridge`.
* `Discussion`: weak fairness of the discussion and the workers together: every
  call they make has a timeout, and each makes finitely many, so that it is
  enough that one of them goes on. None of the agent.
* `Registry`: weak fairness of each process (and of the launchd job that
  restarts it: `KeepAlive` is true in the plists). The flock is never wanted
  for ever: whoever takes it for more than a step releases it by `KillOver` or
  `KillForce`, which time forces. None of gateway boots, prunes or faults.

### Findings

Each of these runs has a counterexample to one property, which is what the code
says of itself.

* `emit_empire_event` loses lines that others append between its read and its
  rename (`bridge_lost_update`).
* `kill_stale` can kill the server of another profile through a reused pid
  (`registry_recycled`).
* Votes against in Chinese words are classified as challenges, so that a thread
  with more votes against than for can pass the gate by its majority
  (`comment_votes`).

Some definitions are kept for the record of what does not hold, without a run
of their own, in the modules they are about: a line that is not UTF-8 stops the
daemon at every pass over the file (`CorruptLineSkipped` in `EventBridge`;
`EventuallyHanded` therefore excepts what such a line, or one that a sink cannot
write, is in front of) and every listing of the pending queue
(`DamageIsSkipped` in `PendingQueue`); `maybe_compact` loses undelivered items
when it is killed between the rename and the reset of the cursor
(`KillLosesNothing`); two POSTs of one
id can both start a worker (`NoDoubleExecute` in `TaskServer`); two starts of a
profile at once can leave two servers, one of them unlisted (`NoAccumulation`
in `Registry`).

Differences between the code and what is said of it that are in the models as
the code has them:

* `kill_stale` holds the lock which its victim's `remove` needs, so a victim
  that serves always waits out its grace time and is killed (in `Registry` only
  `KillForce` ends such a wait).
* A restart of the server, or a call that raises, between the save of a task and
  the start of its worker or while that runs, leaves the row `working` for ever
  (`Abandoned`, in `WorkingHasWorker` and the exception in `EventuallyFinal`);
  and the retry of a client may save `working` over a result that was polled (the
  exception in `ResultStands`).
* A server whose upsert failed serves unlisted, one whose remove failed leaves
  its entry, and a damaged registry file drops all entries (the exceptions in
  `ServingListed` and `EntryOwned`).
* A short write is not looked at, by the audit sink or by the pending queue
  (`AuditKeeps` counts its losses, `NoneSkipped` excepts it).
* `_classify` calls any completed text that matches no pattern a success, posted
  or not (`task_handler.py:209`), and a success is not relayed
  (`discuss.py:537`): the group never reads an answer that the agent returned
  without posting it (`Unsaid`, the exception in `AnswerReadBeforeNext`).
* A prompt that was posted again may be carried out by two workers, which share
  a row (`CarriedOutOnce` counts both).
* The gate blocks a thread whose last three comments are all votes for, as a
  deadlock, although the verifier's text (`swarm_wrapper.py`, from line 66) says
  that a majority passes (the exception in `VerdictsAgree`).
* The backfill is called idempotent (`task_handler.py:250`), and is, but for the
  last row of a listing (the exception in `StatedKindStands`).
* The alert is limited to one in five minutes (`audit_hook.py:81`) and the token
  is shared (`auth.py:17`) as long as nobody races (the exceptions in
  `AlertsSpaced` and `TokensAgree`).
* A rollup counts an event again that was handed out again, by a kill and by
  every task completion (`AuditKeeps`); a day file that stays beside its `.gz`, of a late event or a
  kill, stays for ever (`EventuallyCompressed`).
* `history_window = 0` keeps the whole history (`PromptUpToDate`); whether a
  relay was posted is not looked at (`AnswerReadBeforeNext`); a round that
  timed out leaves no error in a roleplay, so exit code 0 says that one round
  succeeded, not all (`ExitTellsTruth`).
* The examples in the docstring of `auto_discuss.py`: "should we or not" leads
  to two rounds, not three, and "analyse a bit" to a shallow synthesis; the
  pattern for "what is the cause" never starts a discussion, as the list of
  messages to skip has it too.

## 5. What is proved

For every value of the constants that the `ASSUME` of a module allows (any
finite or infinite sets of profiles, sinks, events, servers, pids; any bounds).

`EventBridgeProofs`

* `TypeCorrect`: `Spec => []TypeOK`.
* `NeverAhead`: `Spec => []CursorNeverAhead`. The invariant alone is not
  inductive: between `Stat` and `Save` the daemon holds a cursor in memory and a
  file that the path may no longer name. The strengthening `IInv` adds
  `InodesMade` (an inode that anything refers to was created, so a fresh one is
  referred to by nobody: a rename invalidates every cursor) and `PassOK` (a pass
  whose cursor is about the file that the path still names has that very file
  open, and everything before the cursor in memory was handed over). The lemma
  `ExtendKeeps` says what an append does to a file: complete lines stay.
* `NeverBack`: `Spec => CursorNeverBack`. A second invariant `LInv` is needed:
  `PassForward` (a pass stands at or past the cursor saved for its inode, and
  the saved cursor is never about a newer inode than the pass: a rename between
  the stat and the open cannot make a `Save` go back), `Written` (inodes, open
  files and lines stay with their profile), `LinesEmitted` and `OnePlace` (an
  event's line has one number in every file and every copy a rename may bring).
* `DuplicatesAreBounded`: `Spec => []DuplicatesBounded`. `Budget` is the
  account: what a sink was handed of an event, and what it is still owed, is
  within the kills, the writes that raised and the inodes of the profile, as long
  as no line ends every pass over it (`AllReadable`). Owed is at most two: one
  for an inode no pass has begun with (`Afresh`), one if the line is ahead of
  where the pass stands or the next one resumes (`Unread`). Handing pays a debt;
  only a kill, a write that raises or a rename makes a new one, and each adds to
  the other side. `OnePlace` is what keeps a line from being read twice in a
  pass.
* `DeliversAtLeastOnce`: `Spec => AtLeastOnce`, the refinement of
  `EventDelivery`. `InitMaps` maps the initial states; there is one lemma for
  each kind of step that changes what the abstract variables see:
  `HookOpenMaps` (an empty file is no log yet: a stutter), `HookAddMaps` (an
  append is `Publish`, with the log unchanged if the line cannot be read or the
  inode has lost its name; a head alone is a stutter), `TaskReplaceMaps`
  (`Replace`: some set of emitted events, all acknowledgements dropped),
  `ReadLineMaps` (`Hand`, or a stutter for a line that is skipped or rejected),
  `SaveMaps` (`Acknowledge`: the lines before the new cursor were handed over,
  by `PassOK`, and include those acknowledged before, by `PassForward`), and
  `QuietMaps` for all others. `NextMaps` puts them together.

`RegistryProofs`

* `TypeCorrect`, `ServingIsListed` (`Spec => []ServingListed`) and
  `EntryHasOwner` (`Spec => []EntryOwned`). `IInv` adds `PidsOK` (a process has
  a pid from start to end and no two have the same) and `LockOK` (the entry the
  holder of the flock will drop is still the one it looked at, and is not its
  own pid). The accesses that fail and the damage of the file are actions like
  the others. `PidsOK` is what makes the `expected_pid` of `remove` safe, `LockOK`
  what makes the final pop of `kill_stale` safe. There is one lemma per action
  and, in it, one step per conjunct.

`TaskServerProofs`

* `TypeCorrect`, `CounterCorrect` (`Spec => []CounterCountsWorkers`),
  `WorkingIsWorked` (`Spec => []WorkingHasWorker`), `StoreIsBounded`
  (`Spec => []StoreBounded`) and `ResultsStand` (`Spec => []ResultStands`).
  `IInv` adds `ThreadsOK` (a POST that was not sent has no thread, and only a
  POST whose thread got as far as the start of a worker has one: so no step
  starts a second worker for a POST), `Finite` (the stored rows are a finite
  set, which is what the counts need), and `FinalIsDone`: a final row, or a
  result that a client has polled, was saved by a worker that is done.
  `FinalIsDone` is why a result stands: once a worker of an id is done, a step
  that changes the row needs a second POST of that id that saved. The sets
  `Unpruned` and `Counted` are the threads between save and prune and between
  count and start: the excess of the store over its bound, and of the counter
  over the busy workers, is theirs and that of the threads that stopped there.
  `UpsertWrites` and `PrunedDeletes` are the lemmas about the two SQL
  statements. Assumed: finitely many clients, and a row that is not `NoRow`.

`PendingQueueProofs`

* `TypeCorrect`, `NoneIsSkipped` (`Spec => []NoneSkipped`). `IInv` has two
  parts. `BatchOK` holds even of a listing that is numbered wrongly. As long as
  no cursor was left from a file that is gone (`Sound`: no "unreset" mishap),
  `Straight` holds: line number and byte offset are of one place (`OneNumber`),
  the listing is of whole lines behind the cursor, and the one being advanced
  past was delivered (`ListedOK`), and a listing leaves out no item before one of
  its own (`NoGapOK`). Without a mishap of any kind an item is appended behind a
  newline, behind the cursor (`AppendOK`). `LeastFirst` gives the least element
  of a set of line numbers.
* `KillsPayForRedelivery`: `Spec => []OneRedeliveryPerKill`. The second
  invariant `RInv`, under `Sound` too, says where a redelivery can come from:
  `ItemsApart` (an item has one line in the file and one in the copy, and no
  delivery before its line is whole) and `DueFirst` (what was delivered and not
  advanced past, `Due`, is the first whole line behind the cursor, so there is at
  most one such line). `Paid` is the account: redeliveries so far, and one more
  if a line is due, are within the kills and raises. Only one of these between a
  delivery and its `Advance` makes a line due; a compaction copies, renames and
  resets without making one. `SoundBefore` lets the induction run under the
  condition: a mishap is never forgotten.
* `FirstInFirstOut`: of the lines behind the cursor an item is delivered only
  if those before it were, under `Sound`. This follows from `RInv` and `NoGapOK`,
  kills, raises and compactions included; no run checks it on its own.

`SinksProofs`

* `TypeCorrect`, `AuditFileKeeps` (`Spec => []AuditKeeps`), `RollLoses` (`Spec
  => RollLosesNothing`), `NotesAreWhole` (`Spec => []NotesWhole`). `IInv` adds
  `SealedOK` (between the rename and the removal the `.gz` holds the lines of
  the day file), `LossOK` (the events lost of a day, and one more if its file
  ends in part of a line, are no more than its tears and twice its short
  writes), `CountOK` (how often a file has an event is paid for by the kills and
  the replacements of the log: `Paid` withholds the one of a file that the audit
  sink has still to write again), `CursorsOK` and `NotesOK`. The lemmas
  `CountAppend` and `AppendedFacts` say what an append adds and keeps.

`CommentKindsProofs`

* `TypeCorrect`, `OwnTaskIsClassified`, `StatedKindsStand`
  (`Spec => StatedKindStands`) and `VerdictsDoAgree` (`Spec => []VerdictsAgree`).
  `IInv` adds `StatedOK`, `SnapshotsOK` (a backfill that still lists a comment
  whose kind was recorded reads an old snapshot, or is at its last row: this is
  why an insert replaces a recorded kind only there) and `ListedOK`.
  `VerdictsDoAgree` is a fact about the functions of `Router` for every thread,
  ratio, window and round cap; it needs no invariant beyond the types.

`AdmissionProofs`

* `TypeCorrect`, `TokensDoAgree`, `AlertsAreSpaced`, `LimiterIsExact`. `IInv`
  adds `AloneOK` (a process that makes the file unraced is alone in it),
  `TokensOK` (once an unraced process is up nobody makes the file), `TestsOK`
  (what an alert in the making has seen) and
  `WindowOK`: the window is, in order, the stamps of admitted requests, and an
  admitted request that is not in it was too old for one that had the lock
  since. The map from places in the window to requests is what turns its length
  into a count of requests, in both directions. Assumed: finitely many requests,
  a burst of at least 1.

`DiscussionProofs`

* `TypeCorrect`, `OnceCarriedOut` (`Spec => []CarriedOutOnce`), `AnswersAreRead`
  (`Spec => []AnswerReadBeforeNext`), `PromptsAreUpToDate`
  (`Spec => []PromptUpToDate`), `ExitIsTrue` (`Spec => []ExitTellsTruth`). `IInv`
  relates the four parts that step on their own: `CopiesOK` (a worker
  and the copies of its prompt, both only for a POST whose create call was lost;
  a row that was well said has a copy that posted), `PostsOK` (the answers to a
  task in the group, counted, are those of the runs and chats of all its POSTs),
  `HandlersOK` and `RegentsOK` (no task and no message of the regent is ahead of
  the discussion), `RoundsOK`, `SpokenOK`, `PromptOK`, `EndOK`. That the answer
  is read first then follows at the poll: the answer is in the group and, by
  `RegentsOK`, the next message is not; `ReadStays` keeps it so while the group
  grows. `HistoryFacts` and `ClipFacts` place each round in the prompt. Assumed:
  tasks are the numbers of the rounds.
* `DecidesWell` (`Spec => []AutoDecides`) and `DiscussedIf`: facts about
  `ClassifyMessage` for every message; they need no invariant. Every group
  counts at least 3, so the threshold of 3 turns a message down only if nothing
  in it counts (`ScoresOf`), and a further phrase can only add to the groups
  that are hit (`FurtherPhrase`), unless it is a simple action, which silences
  the deep questions.

Two properties are stated so that they can be reasoned about: redeliveries are
counted as the pairs of an item and the number of a further delivery
(`Redeliveries`), and `DuplicatesBounded` excepts files with a line that ends
every pass over it through `AllReadable`. The scores of `AutoDiscuss` count the
groups of weight 4 and those of weight 3 (`GroupScore`), as a sum over a set
could only be reasoned about by induction.

Only model-checked: the liveness properties `EventuallyHanded`,
`EventuallyDelivered`, `EventuallyFinal`, `Settles`, `EventuallyCompressed` and
`EverythingSettles`, which are out of the prover's reach (fairness, `ENABLED`).
The three counterexamples of section 4 are TLC's too.

## 6. Running the checks

`tlc -config EventBridge_safety.cfg MCEventBridge.tla`, and likewise for the
other configurations with the `MC` module of the same component;
`tlapm EventBridgeProofs.tla`, and likewise for the other modules of proofs. A
passing run takes from a few seconds to three minutes.

## 7. What is not modelled

* The skill sanitizer and resolver: a filter over one column and a look-up of
  files, each of which runs to its end in one call.
* The gateway proxy and the dispatcher (stateless), identity, paths, the agent
  card, the port map (lookups and a hash), the scripts, plists and the
  documentation generator.
* Of the sinks: the supermemory sink, which keeps no state and drops an event
  whose call fails; `write_daily_rollup` and the dead-letter file, which no code
  of the repository calls.
* Of the debate: `create_swarm`, which hands its arguments to a library.
* Of a discussion: persona, stance, topic, pre-written messages, the wording of
  prompts, dry runs. Of a task: the environment of the chat process and the
  loading of the keyword file.
* Of authentication: the public paths, the CORS headers and the token in the
  environment. `_alerted_tasks`: every request has its own id, so it never
  decides.
* The reading of `GET` handlers (`/tasks`, `/health`, `/metrics`).
* A restart of default's server during a discussion is left out of
  `Discussion`; what it does to rows and workers is in `TaskServer`.
* A gateway whose scan takes the stable port of another profile: the server of
  that profile then cannot bind until the gateway's server ends. The ports of
  the `registry` run are far enough apart that this does not happen there.
* The port probe binds the port for a moment, and may make a server's own bind
  fail; the server is then started again.
