----------------------------- MODULE Discussion ------------------------------
(***************************************************************************)
(* A discussion between the regent and default in the cabinet group        *)
(* (core/discuss.py), composed with the workers of default's task server   *)
(* (TaskExecution) and the classification of messages (AutoDiscuss).       *)
(*                                                                         *)
(*   - roleplay: in each round the regent posts to the group, gives        *)
(*     default the end of the history and the message as a task, and polls *)
(*     for the answer, which default posts itself.  If default could not,  *)
(*     the regent relays the text.                                         *)
(*   - synthesize: one task, whose text is returned.                       *)
(*   - A round whose poll times out goes on at default's side: its answer  *)
(*     may come while a later round runs.                                  *)
(*                                                                         *)
(* Abstractions.  One discussion.  _a2a_send is one step: what became of   *)
(* its POSTs, of which TaskServer has the detail, as far as workers go; a  *)
(* POST that was given up may still be taken later.  _tg_send is one step: *)
(* a process that was killed, or did not say "sent", may have delivered.   *)
(* The texts, the roles in the prompts and dry runs are left out, and the  *)
(* server does not restart.                                                *)
(***************************************************************************)
EXTENDS AutoDiscuss, TaskExecution

CONSTANTS
  Messages,     \* messages that --auto is started with
  Calls,        \* calls of roleplay: <<rounds, history_window>>
  HistoryWindow,\* DEFAULT_HISTORY_WINDOW
  MaxRounds     \* bound: rounds that are played

ASSUME DiscussionConstantsOK ==
  /\ \A m \in Messages : m \subseteq Phrases
  /\ Calls \subseteq (0..MaxRounds) \X Nat /\ HistoryWindow \in Nat
  /\ MaxRounds \in Nat \ {0} /\ Tasks = 1..MaxRounds /\ MaxFaults \in Nat
  /\ Posts \in Nat \ {0}

VARIABLES
  message,      \* the message that --auto is to classify
  mode,         \* the mode of the discussion
  total,        \* how many rounds there are to be
  window,       \* history_window
  phase,        \* what the discussion does
  rounds,       \* result.rounds
  errors,       \* the kinds of result.errors, each with its round
  status,       \* result.semantic_status
  prompt,       \* the lines of history in the prompt of the last task
  unrelayed     \* history: the answers whose relay failed

talk == <<message, mode, total, window, phase, rounds, errors, status, prompt, unrelayed>>
vars == <<talk, execution, group, faults>>

Regent(r) == [by |-> "regent", round |-> r]
Relayed(r) == [by |-> "relay", round |-> r]

(* The round that is being played. *)
Current == Len(rounds) + 1

Init ==
  /\ message \in Messages
  /\ mode = "none" /\ total = 0 /\ window = HistoryWindow
  /\ phase = "start"
  /\ rounds = <<>> /\ errors = {} /\ status = "none" /\ prompt = <<>>
  /\ unrelayed = {}
  /\ ExecutionInit /\ group = <<>> /\ faults = 0

-----------------------------------------------------------------------------
Aggregate(rs) ==
  LET good == {n \in DOMAIN rs : rs[n].semantic = "succeeded"}
  IN  CASE good = {} -> "failed"
        [] good # {} /\ good = DOMAIN rs -> "succeeded"
        [] OTHER -> "degraded"

(* Faulty variant: one round too many. *)
NextRoundOneMore(rs) ==
  IF Len(rs) <= total'
  THEN phase' = "speak" /\ UNCHANGED status
  ELSE phase' = "done" /\ status' = Aggregate(rs)

(* The head of the loop over the rounds. *)
NextRound(rs) ==
  IF Len(rs) < total'
  THEN phase' = "speak" /\ UNCHANGED status
  ELSE phase' = "done" /\ status' = Aggregate(rs)

Begin(m, n, w) ==
  /\ phase = "start"
  /\ message' = {}
  /\ mode' = m /\ window' = w
  /\ total' = AtMost(n, MaxRounds)
  /\ IF m = "roleplay" THEN NextRound(<<>>) ELSE phase' = "ask" /\ UNCHANGED status
  /\ UNCHANGED <<rounds, errors, prompt, unrelayed, execution, group, faults>>

Roleplay == \E c \in Calls : Begin("roleplay", c[1], c[2])

Synthesize == Begin("synthesize", 1, HistoryWindow)

(* The command line's --auto. *)
AutoStart ==
  LET d == ClassifyMessage(message) IN
  d.mode # "none" /\ Begin(d.mode, IF d.mode = "roleplay" THEN d.rounds ELSE 1, HistoryWindow)

AutoSkip ==
  /\ phase = "start"
  /\ ClassifyMessage(message).mode = "none"
  /\ message' = {}
  /\ mode'    = "auto_skip"
  /\ phase'   = "done"
  /\ status'  = "skipped"
  /\ errors'  = {<<"skip", 0>>}
  /\ UNCHANGED <<total, window, rounds, prompt, unrelayed, execution, group, faults>>

-----------------------------------------------------------------------------
(* _tg_send: it reports success or not after n messages were delivered.    *)
TgSend(line, ok) ==
  \E n \in 0..2 :
    /\ ok => n >= 1
    /\ Fault(IF ok /\ n = 1 THEN 0 ELSE 1)
    /\ group' = group \o [i \in 1..n |-> line]

Speak ==
  /\ phase = "speak"
  /\ \E ok \in BOOLEAN :
       /\ TgSend(Regent(Current), ok)
       /\ errors' = IF ok THEN errors ELSE errors \union {<<"post", Current>>}
  /\ phase' = "ask"
  /\ UNCHANGED <<message, mode, total, window, rounds, status, prompt, unrelayed, execution>>

(* default's line of a round comes before the message that it answers; it  *)
(* is blank if there is no text, though an answer may still reach the group. *)
DefaultLine(rs, r) == IF rs[r].text = "empty" THEN [Answer(r) EXCEPT !.by = "nobody"] ELSE Answer(r)

History(rs) ==
  [i \in 1..(2 * Len(rs)) |->
     IF i % 2 = 1 THEN DefaultLine(rs, (i + 1) \div 2) ELSE Regent(i \div 2)]

(* Faulty variant: the first lines. *)
ClipOldest(h, w) == SubSeq(h, 1, AtMost(w, Len(h)))

(* h[-w:], which for 0 is all of h. *)
Clip(h, w) == IF w = 0 \/ w >= Len(h) THEN h ELSE SubSeq(h, Len(h) - w + 1, Len(h))

Prompted == prompt' = IF mode = "roleplay" THEN Clip(History(rounds), window) ELSE <<>>

(* The nth POST was answered, and saved the task.  Those before it were    *)
(* not; each may have passed the look-up too.                              *)
Ask ==
  /\ phase = "ask"
  /\ Prompted
  /\ \E n \in 1..Posts : \E late \in SUBSET (1..(n - 1)) :
       /\ Fault(IF n = 1 THEN 0 ELSE 1)
       /\ Take(Current, {n}, late)
  /\ phase' = "poll"
  /\ UNCHANGED <<message, mode, total, window, rounds, errors, status, unrelayed,
                 copy, result, lost, group>>

(* ConnectionError: the discussion ends, whatever became of the POSTs. *)
AskFails ==
  /\ phase = "ask"
  /\ Fault(1)
  /\ Prompted
  /\ \E late \in SUBSET (1..Posts) : Take(Current, {}, late)
  /\ errors' = errors \union {<<"ask", Current>>}
  /\ phase'  = "done"
  /\ status' = IF mode = "roleplay" THEN Aggregate(rounds) ELSE "failed"
  /\ UNCHANGED <<message, mode, total, window, rounds, unrelayed, copy, result, lost, group>>

-----------------------------------------------------------------------------
(* What a poll returns: the result once there is one, or that its time is up. *)
Polled == {GivenUp} \union ({result[Current]} \ {NoResult})

(* Faulty variant: a timeout is taken for an answer. *)
EndSynthesizeLenient(x) ==
  /\ mode = "synthesize"
  /\ rounds' = Append(rounds, x)
  /\ errors' = errors
  /\ status' = x.semantic
  /\ phase'  = "done"

EndSynthesize(x) ==
  /\ mode = "synthesize"
  /\ rounds' = Append(rounds, x)
  /\ errors' = IF x.status = "failed" THEN errors \union {<<"answer", Current>>} ELSE errors
  /\ status' = x.semantic
  /\ phase'  = "done"

EndRound(x) ==
  /\ mode = "roleplay"
  /\ rounds' = Append(rounds, x)
  /\ IF x.semantic = "degraded" /\ x.text # "empty"
     THEN phase' = "relay" /\ UNCHANGED status
     ELSE NextRound(rounds')
  /\ UNCHANGED errors

Poll ==
  /\ phase = "poll"
  /\ UNCHANGED total
  /\ \E x \in Polled : EndSynthesize(x) \/ EndRound(x)
  /\ UNCHANGED <<message, mode, window, prompt, unrelayed, execution, group, faults>>

(* Whether the relay was posted is not looked at. *)
Relay ==
  /\ phase = "relay"
  /\ UNCHANGED total
  /\ \E ok \in BOOLEAN :
       /\ TgSend(Relayed(Len(rounds)), ok)
       /\ unrelayed' = IF ok THEN unrelayed ELSE unrelayed \union {Len(rounds)}
  /\ NextRound(rounds)
  /\ UNCHANGED <<message, mode, window, rounds, errors, prompt, execution>>

(* The exit code of the command line. *)
ExitCode == IF errors = {} /\ status # "failed" THEN 0 ELSE 1

Talk == Roleplay \/ Synthesize \/ AutoStart \/ AutoSkip \/ Speak \/ Ask \/ AskFails \/ Poll \/ Relay

(* The discussion and every worker have ended. *)
Quiet == phase = "done" /\ \A w \in Workers : handler[w] \in {"none", "done"}

Next ==
  \/ Talk
  \/ \E w \in Workers : (Work(w) \/ Agent(w)) /\ UNCHANGED talk
  \/ Quiet /\ UNCHANGED vars

Spec == Init /\ [][Next]_vars

(* Every call of the discussion and of a worker returns or times out, and  *)
(* each of them makes finitely many, so it is enough that one of them goes *)
(* on while any can: how they share the machine is left open.  The agent   *)
(* need not do anything.                                                   *)
FairSpec == Spec /\ WF_vars(Talk \/ \E w \in Workers : Work(w) /\ UNCHANGED talk)

-----------------------------------------------------------------------------
Line == [by : {"regent", "default", "relay", "nobody"}, round : Tasks]

Outcome == [status : {"none", "completed", "failed"},
            semantic : {"succeeded", "degraded", "failed", "?"}, text : Texts, posted : BOOLEAN]

TypeOK ==
  /\ message \subseteq Phrases
  /\ mode \in {"none", "roleplay", "synthesize", "auto_skip"}
  /\ total \in 0..MaxRounds
  /\ window \in Nat
  /\ phase \in {"start", "speak", "ask", "poll", "relay", "done"}
  /\ rounds \in Seq(Outcome) /\ Len(rounds) <= total
  /\ errors \subseteq {"skip", "post", "ask", "answer"} \X (0..MaxRounds)
  /\ status \in {"none", "skipped", "succeeded", "degraded", "failed", "?"}
  /\ prompt \in Seq(Line) /\ group \in Seq(Line)
  /\ unrelayed \subseteq Tasks /\ lost \subseteq Workers
  /\ handler \in [Workers -> {"none", "posted", "create", "poll", "chat", "done"}]
  /\ copy \in [Workers -> [Copies -> [at : {"none", "running", "ended"}, posted : BOOLEAN,
                                     status : {"none", "completed", "failed"}, text : Texts]]]
  /\ result \in [Tasks -> Outcome]
  /\ faults \in 0..MaxFaults

Count(line) == Cardinality({i \in DOMAIN group : group[i] = line})

(* A worker carries its prompt out once, unless the answer to its create   *)
(* call was lost (task_handler.py, _via_api_server): the run and the chat  *)
(* then both post to the group.  So the group gets no more answers to a    *)
(* prompt than POSTs of it were accepted (server.py, do_POST) and create   *)
(* calls of it lost, however late the runs of earlier rounds end.          *)
CarriedOutOnce ==
  /\ \A w \in Workers :
       copy[w]["run"].at # "none" /\ copy[w]["chat"].at # "none" => w \in lost
  /\ \A t \in Tasks :
       LET accepted == {n \in 1..Posts : handler[<<t, n>>] \notin {"none", "posted"}}
           twice    == {n \in 1..Posts : <<t, n>> \in lost}
       IN  Count(Answer(t)) <= Cardinality(accepted) + Cardinality(twice)

(* A text that neither was posted nor says that it could not be: _classify *)
(* calls it a success (task_handler.py), and nobody relays it.             *)
Unsaid(x) == ~x.posted /\ x.text = "plain"

(* When the regent goes on to the next round, the group has read the       *)
(* answer that the discussion recorded, from default or relayed            *)
(* (discuss.py, roleplay), unless the relay failed, or the agent returned  *)
(* a text as if it had posted it: the text of a round that did not fail is *)
(* in the group before the regent's next message.                          *)
AnswerReadBeforeNext ==
  \A r \in DOMAIN rounds :
    LET read == {i \in DOMAIN group : group[i] \in {Answer(r), Relayed(r)}}
        next == {i \in DOMAIN group : group[i] = Regent(r + 1)}
    IN  \/ rounds[r].text = "empty" \/ rounds[r].semantic \notin {"succeeded", "degraded"}
        \/ mode = "synthesize" \/ r \in unrelayed \/ Unsaid(rounds[r])
        \/ phase = "relay" /\ r = Len(rounds)
        \/ read # {} /\ \A i \in next : \E j \in read : j < i

(* What default is told of the discussion (discuss.py, roleplay): a prompt *)
(* has no more than history_window lines, but all of them if that is 0;    *)
(* with room for two lines it ends with the last recorded answer and the   *)
(* message that it answered; and an answer that is in the group but not in *)
(* a prompt with room for it belongs to this round, or to one that was     *)
(* recorded without a text.                                                *)
PromptUpToDate ==
  phase = "poll" /\ mode = "roleplay" =>
    LET told == {prompt[n] : n \in DOMAIN prompt}
        oldest == IF window = 0 THEN 1 ELSE Current - window \div 2
    IN
    /\ Len(prompt) <= window \/ window = 0
    /\ window # 1 /\ rounds # <<>> =>
         \E n \in DOMAIN prompt : /\ n = Len(prompt) - 1
                                  /\ prompt[n] = DefaultLine(rounds, Len(rounds))
                                  /\ prompt[n + 1] = Regent(Len(rounds))
    /\ \A i \in DOMAIN group :
         group[i].by = "default" /\ group[i].round >= oldest /\ group[i] \notin told =>
           group[i].round = Current \/ rounds[group[i].round].text = "empty"

(* Exit code 0 (discuss.py, main) tells the caller that every round was    *)
(* asked and at least one answered, and every message of the regent is in  *)
(* the group, before the next; of a synthesis, that default completed it.  *)
ExitTellsTruth ==
  phase = "done" /\ ExitCode = 0 =>
    /\ mode \in {"roleplay", "synthesize"}
    /\ mode = "roleplay" =>
         /\ Len(rounds) = total
         /\ \E r \in DOMAIN rounds : rounds[r].semantic = "succeeded"
         /\ \A r \in 1..total : Count(Regent(r)) >= 1
    /\ mode = "synthesize" => rounds[1].status = "completed"

(* The decision on a message (auto_discuss.py, classify_message): a mode   *)
(* that the discussion plays, with rounds or a depth that it knows; and a  *)
(* further phrase never stops a discussion, unless it asks for an action   *)
(* or a fact.                                                              *)
AutoDecides ==
  phase = "start" =>
    LET d == ClassifyMessage(message) IN
    /\ d.mode = "roleplay"   => d.rounds \in 2..5
    /\ d.mode = "synthesize" => d.depth \in {"shallow", "normal", "deep"}
    /\ d.mode # "none" =>
         \A p \in Phrases \ (NoDiscussPatterns \union SimpleActionPatterns) :
           ClassifyMessage(message \union {p}).mode # "none"

(* Whatever default's agent does, the discussion ends (discuss.py) and     *)
(* every task that the server took gets a result (task_handler.py).        *)
EverythingSettles ==
  <>[]Quiet
=============================================================================
