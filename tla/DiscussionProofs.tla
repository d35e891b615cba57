-------------------------- MODULE DiscussionProofs ---------------------------
(***************************************************************************)
(* Proofs about a discussion with the workers of default, for any number   *)
(* of rounds, any messages, calls and failures: how often a prompt is      *)
(* carried out, what the group has read and default was told, what the     *)
(* exit code says, and what is decided on a message.                       *)
(***************************************************************************)
EXTENDS Discussion, FiniteSetTheorems, SequenceTheorems, TLAPS

-----------------------------------------------------------------------------
(* The inductive invariant *)

Good(x) == x.semantic = "succeeded" /\ x.text # "empty" /\ ~Unsaid(x)

(* A copy of the prompt of t was posted. *)
Posted(t) == \E w \in Workers, c \in Copies : w[1] = t /\ copy[w][c].posted

(* What a worker and the copies of its prompt have in common. *)
CopyOK(w) ==
  /\ handler[w] \in {"none", "posted", "create"} =>
       copy[w]["run"].at = "none" /\ copy[w]["chat"].at = "none"
  /\ handler[w] = "poll" => copy[w]["chat"].at = "none"
  /\ handler[w] = "chat" => copy[w]["chat"].at # "none"
  /\ copy[w]["run"].at # "none" /\ copy[w]["chat"].at # "none" => w \in lost
  /\ \A c \in Copies : copy[w][c].at = "none" => ~copy[w][c].posted
  /\ copy[w]["run"].at = "ended" => copy[w]["run"].status \in {"completed", "failed"}

(* A row without a result is empty, and what was well said was posted. *)
RowOK(t, x) ==
  /\ x = NoResult \/ x.status \in {"completed", "failed"}
  /\ Good(x) => Posted(t)

CopiesOK ==
  /\ \A w \in Workers : CopyOK(w)
  /\ \A t \in Tasks : RowOK(t, result[t])

(* The answers in the group were posted by the copies. *)
Ran(t)     == {n \in 1..Posts : copy[<<t, n>>]["run"].posted}
Chatted(t) == {n \in 1..Posts : copy[<<t, n>>]["chat"].posted}

PostsOK ==
  \A t \in Tasks : Count(Answer(t)) = Cardinality(Ran(t)) + Cardinality(Chatted(t))

(* Where the discussion is. *)
TalkOK ==
  /\ phase = "start" => mode = "none" /\ rounds = <<>>
  /\ phase \in {"speak", "relay"} => mode = "roleplay"
  /\ phase \in {"ask", "poll"} => mode \in {"roleplay", "synthesize"}
  /\ phase \in {"ask", "poll"} /\ mode = "synthesize" => rounds = <<>>
  /\ phase \in {"speak", "ask", "poll"} => Len(rounds) < total
  /\ phase = "relay" => rounds # <<>>
  /\ phase = "done" => mode # "none"

(* No task and no message of the regent is ahead of the discussion. *)
HandlersOK ==
  \A w \in Workers :
    handler[w] # "none" =>
      w[1] <= Len(rounds) \/ (w[1] = Current /\ phase \in {"poll", "done"})

RegentsOK ==
  \A i \in DOMAIN group :
    group[i].by = "regent" =>
      \/ group[i].round <= Len(rounds)
      \/ group[i].round = Current /\ phase \in {"ask", "poll", "done"}

InGroup(line) == \E i \in DOMAIN group : group[i] = line

(* A recorded answer that is said to have been posted was. *)
RoundsOK == \A r \in DOMAIN rounds : Good(rounds[r]) => InGroup(Answer(r))

(* Without an error, the regent's messages of the rounds so far are posted. *)
SpokenOK ==
  mode = "roleplay" /\ errors = {} =>
    \A r \in 1..total :
      r <= Len(rounds) \/ (r = Current /\ phase \in {"ask", "poll"}) => InGroup(Regent(r))

PromptOK ==
  phase = "poll" /\ mode = "roleplay" => prompt = Clip(History(rounds), window)

(* How the discussion ended. *)
EndOK ==
  phase = "done" /\ errors = {} =>
    /\ mode = "roleplay" => Len(rounds) = total /\ status = Aggregate(rounds)
    /\ mode = "synthesize" => rounds # <<>> /\ rounds[1].status = "completed"
    /\ mode # "auto_skip"

IInv ==
  /\ TypeOK /\ CopiesOK /\ PostsOK /\ TalkOK /\ HandlersOK /\ RegentsOK
  /\ RoundsOK /\ SpokenOK /\ PromptOK /\ EndOK /\ AnswerReadBeforeNext

-----------------------------------------------------------------------------
(* Types *)

CopyType == [at : {"none", "running", "ended"}, posted : BOOLEAN,
             status : {"none", "completed", "failed"}, text : Texts]

HandlerType == {"none", "posted", "create", "poll", "chat", "done"}

USE DiscussionConstantsOK

LEMMA RoundsType ==
  ASSUME TypeOK
  PROVE  /\ Len(rounds) \in Nat /\ DOMAIN rounds = 1..Len(rounds)
         /\ \A r \in 1..Len(rounds) : rounds[r] \in Outcome
         /\ Len(group) \in Nat /\ DOMAIN group = 1..Len(group)
         /\ \A i \in 1..Len(group) : group[i] \in Line
         /\ total \in 0..MaxRounds /\ Len(rounds) <= total
<1>1. rounds \in Seq(Outcome) /\ group \in Seq(Line)
  BY DEF TypeOK
<1>2. /\ \A r \in 1..Len(rounds) : rounds[r] \in Outcome
      /\ \A i \in 1..Len(group) : group[i] \in Line
  BY <1>1, ElementOfSeq
<1>. QED
  BY <1>1, <1>2, LenProperties DEF TypeOK

LEMMA WorkerFacts ==
  /\ \A w \in Workers : w[1] \in Tasks /\ w[2] \in 1..Posts /\ w = <<w[1], w[2]>>
  /\ \A t \in Tasks, n \in 1..Posts :
       <<t, n>> \in Workers /\ <<t, n>>[1] = t /\ <<t, n>>[2] = n
BY DEF Workers

LEMMA LineTypes ==
  ASSUME NEW r \in Tasks
  PROVE  Regent(r) \in Line /\ Relayed(r) \in Line /\ Answer(r) \in Line
BY DEF Regent, Relayed, Answer, Line

LEMMA AggregateType ==
  ASSUME NEW rs
  PROVE  Aggregate(rs) \in {"failed", "succeeded", "degraded"}
BY DEF Aggregate

(* n lines are added to the group. *)
Grown(n, line) ==
  /\ Len(group') = Len(group) + n
  /\ \A i \in 1..Len(group) : group'[i] = group[i]
  /\ \A i \in (Len(group) + 1)..(Len(group) + n) : group'[i] = line

LEMMA SendGrows ==
  ASSUME TypeOK, NEW line \in Line, NEW ok \in BOOLEAN, TgSend(line, ok)
  PROVE  /\ group' \in Seq(Line) /\ faults' \in 0..MaxFaults
         /\ \E n \in 0..2 : Grown(n, line) /\ (ok => n >= 1)
<1>1. group \in Seq(Line) /\ faults \in 0..MaxFaults
  BY DEF TypeOK
<1>2. PICK n \in 0..2 :
        /\ ok => n >= 1
        /\ Fault(IF ok /\ n = 1 THEN 0 ELSE 1)
        /\ group' = group \o [i \in 1..n |-> line]
  BY DEF TgSend
<1>3. faults' \in 0..MaxFaults
  BY <1>1, <1>2 DEF Fault
<1>. DEFINE new == [i \in 1..n |-> line]
<1>4. new \in Seq(Line) /\ Len(new) = n /\ \A i \in 1..n : new[i] = line
  OBVIOUS
<1>. HIDE DEF new
<1>5. /\ group' \in Seq(Line) /\ Len(group') = Len(group) + Len(new)
      /\ \A i \in 1..(Len(group) + Len(new)) :
           group'[i] = IF i <= Len(group) THEN group[i] ELSE new[i - Len(group)]
  BY <1>1, <1>2, <1>4, ConcatProperties DEF new
<1>6. Len(group) \in Nat
  BY <1>1, LenProperties
<1>7. Grown(n, line)
  BY <1>4, <1>5, <1>6 DEF Grown
<1>. QED
  BY <1>2, <1>3, <1>5, <1>7

LEMMA PostGrows ==
  ASSUME TypeOK, NEW w \in Workers, NEW c, Post(w, c)
  PROVE  group' \in Seq(Line) /\ Grown(1, Answer(w[1]))
<1>1. /\ group \in Seq(Line) /\ Answer(w[1]) \in Line
      /\ group' = Append(group, Answer(w[1]))
  BY WorkerFacts, LineTypes DEF TypeOK, Post
<1>2. /\ group' \in Seq(Line) /\ Len(group') = Len(group) + 1
      /\ \A i \in 1..Len(group) : group'[i] = group[i]
      /\ group'[Len(group) + 1] = Answer(w[1])
  BY <1>1, AppendProperties
<1>3. Len(group) \in Nat
  BY <1>1, LenProperties
<1>. QED
  BY <1>2, <1>3 DEF Grown

-----------------------------------------------------------------------------
(* The workers and the agent *)

LEMMA CopyExcept ==
  ASSUME NEW k \in CopyType
  PROVE  /\ [k EXCEPT !.at = "ended"] \in CopyType
         /\ [k EXCEPT !.posted = TRUE] \in CopyType
<1>1. [k EXCEPT !.at = "ended"] \in CopyType
  BY DEF CopyType
<1>2. [k EXCEPT !.posted = TRUE] \in CopyType
  BY DEF CopyType
<1>. QED
  BY <1>1, <1>2

(* How a copy may end: what is well said was posted. *)
LEMMA EndedFacts ==
  ASSUME NEW k \in CopyType, NEW e \in Ended(k)
  PROVE  /\ e \in CopyType /\ e.at = "ended" /\ e.posted = k.posted
         /\ e.status \in {"completed", "failed"}
<1>1. /\ k.posted \in BOOLEAN /\ "ended" \in {"none", "running", "ended"}
      /\ {"completed", "failed"} \subseteq {"none", "completed", "failed"}
      /\ {"empty", "plain"} \subseteq Texts
  BY DEF CopyType, Texts
<1>2. PICK b \in {"completed", "failed"}, x \in Texts :
        e = [k EXCEPT !.at = "ended", !.status = b, !.text = x]
  BY <1>1 DEF Ended
<1>3. e = [at |-> "ended", posted |-> k.posted, status |-> b, text |-> x]
  BY <1>2 DEF CopyType
<1>4. e \in CopyType
  BY <1>1, <1>3 DEF CopyType
<1>. QED
  BY <1>3, <1>4

LEMMA ResultFacts ==
  ASSUME NEW k \in CopyType, k.status \in {"completed", "failed"}
  PROVE  /\ Result(k) \in Outcome /\ Result(k).status \in {"completed", "failed"}
         /\ Good(Result(k)) => k.posted
<1>1. /\ k.status \in {"none", "completed", "failed"} /\ k.text \in Texts
      /\ k.posted \in BOOLEAN
  BY DEF CopyType
<1>2. Classify(k.status, k.text) \in {"succeeded", "degraded", "failed"}
  BY DEF Classify
<1>3. /\ Result(k).status = k.status /\ Result(k).text = k.text
      /\ Result(k).posted = k.posted /\ Result(k).semantic = Classify(k.status, k.text)
  BY DEF Result
<1>4. Result(k) \in Outcome
  BY <1>1, <1>2 DEF Result, Outcome
<1>5. Good(Result(k)) => k.text = "plain"
  BY <1>1, <1>3 DEF Good, Classify, Texts
<1>. QED
  BY <1>3, <1>4, <1>5 DEF Good, Unsaid

(* What a step of a worker or of the agent changes is about one worker. *)
LEMMA WorkTypes ==
  ASSUME TypeOK, NEW w \in Workers, Work(w) \/ Agent(w)
  PROVE  /\ handler' \in [Workers -> HandlerType]
         /\ copy' \in [Workers -> [Copies -> CopyType]]
         /\ result' \in [Tasks -> Outcome]
         /\ lost' \subseteq Workers /\ faults' \in 0..MaxFaults
         /\ group' \in Seq(Line)
         /\ \A u \in Workers \ {w} : /\ handler'[u] = handler[u] /\ copy'[u] = copy[u]
                                     /\ (u \in lost' <=> u \in lost)
<1>1. /\ handler \in [Workers -> HandlerType]
      /\ copy \in [Workers -> [Copies -> CopyType]] /\ result \in [Tasks -> Outcome]
      /\ lost \subseteq Workers /\ faults \in 0..MaxFaults /\ group \in Seq(Line)
  BY DEF TypeOK, CopyType, HandlerType
<1>2. Running \in CopyType /\ GivenUp \in Outcome /\ NoResult \in Outcome
  BY DEF Running, None, CopyType, Texts, GivenUp, NoResult, Outcome
<1>2a. {"none", "posted", "create", "poll", "chat", "done"} = HandlerType /\ w[1] \in Tasks
  BY WorkerFacts DEF HandlerType
<1>3. ASSUME NEW k \in CopyType PROVE Result(k) \in Outcome
  BY <1>3 DEF Result, Classify, CopyType, Outcome
<1>4. ASSUME NEW k \in CopyType, NEW e \in Ended(k) PROVE e \in CopyType
  BY EndedFacts
<1>4a. CASE TakeLate(w)
  BY <1>1, <1>2, <1>2a, <1>4a DEF TakeLate
<1>5. CASE CreateRun(w)
  BY <1>1, <1>2, <1>2a, <1>5 DEF CreateRun, Copies
<1>6. CASE CreateRunLost(w)
  BY <1>1, <1>2, <1>2a, <1>6 DEF CreateRunLost, Copies, Fault
<1>7. CASE CreateRunRefused(w)
  <2>1. copy' \in [Workers -> [Copies -> CopyType]] /\ \A u \in Workers \ {w} : copy'[u] = copy[u]
    BY <1>1, <1>2, <1>7 DEF CreateRunRefused, Copies
  <2>2. handler' = [handler EXCEPT ![w] = "chat"] /\ faults' \in 0..MaxFaults
    BY <1>1, <1>7 DEF CreateRunRefused, Fault
  <2>3. UNCHANGED <<result, lost, group>>
    BY <1>7 DEF CreateRunRefused
  <2>. QED
    BY <1>1, <1>2a, <2>1, <2>2, <2>3
<1>8. CASE PollRun(w)
  <2>1. PICK x \in Outcome : Finish(w, x)
    BY <1>1, <1>2, <1>3, <1>8 DEF PollRun, Copies
  <2>2. UNCHANGED <<copy, lost, group, faults>>
    BY <1>8 DEF PollRun
  <2>. QED
    BY <1>1, <1>2a, <2>1, <2>2 DEF Finish
<1>9. CASE ChatEnds(w)
  <2>1. PICK k \in Ended(copy[w]["chat"]) :
          /\ Fault(IF AsUsual(k) THEN 0 ELSE 1)
          /\ copy' = [copy EXCEPT ![w]["chat"] = k]
          /\ Finish(w, Result(k))
    BY <1>9 DEF ChatEnds
  <2>2. k \in CopyType /\ Result(k) \in Outcome
    BY <1>1, <1>3, <1>4 DEF Copies
  <2>3. copy' \in [Workers -> [Copies -> CopyType]] /\ \A u \in Workers \ {w} : copy'[u] = copy[u]
    BY <1>1, <2>1, <2>2 DEF Copies
  <2>4. faults' \in 0..MaxFaults
    BY <1>1, <2>1 DEF Fault
  <2>. QED
    BY <1>1, <1>2a, <1>9, <2>1, <2>2, <2>3, <2>4 DEF ChatEnds, Finish
<1>10. CASE ChatTimeout(w)
  <2>1. copy' \in [Workers -> [Copies -> CopyType]] /\ \A u \in Workers \ {w} : copy'[u] = copy[u]
    <3>1. [copy[w]["chat"] EXCEPT !.at = "ended"] \in CopyType
      <4>1. copy[w]["chat"] \in CopyType
        BY <1>1 DEF Copies
      <4>. QED
        BY <4>1, CopyExcept
    <3>2. copy' = [copy EXCEPT ![w]["chat"] = [copy[w]["chat"] EXCEPT !.at = "ended"]]
      BY <1>1, <1>10 DEF ChatTimeout, Copies
    <3>. QED
      BY <1>1, <3>1, <3>2 DEF Copies
  <2>. QED
    BY <1>1, <1>2, <1>2a, <1>10, <2>1 DEF ChatTimeout, Finish
<1>11. CASE RunEnds(w)
  <2>1. PICK k \in Ended(copy[w]["run"]) :
          /\ Fault(IF AsUsual(k) THEN 0 ELSE 1)
          /\ copy' = [copy EXCEPT ![w]["run"] = k]
    BY <1>11 DEF RunEnds
  <2>2. k \in CopyType
    BY <1>1, <1>4 DEF Copies
  <2>3. copy' \in [Workers -> [Copies -> CopyType]] /\ \A u \in Workers \ {w} : copy'[u] = copy[u]
    BY <1>1, <2>1, <2>2 DEF Copies
  <2>4. faults' \in 0..MaxFaults
    BY <1>1, <2>1 DEF Fault
  <2>. QED
    BY <1>1, <1>11, <2>3, <2>4 DEF RunEnds
<1>12. ASSUME NEW c \in Copies, Post(w, c)
       PROVE  /\ copy' \in [Workers -> [Copies -> CopyType]]
              /\ \A u \in Workers \ {w} : copy'[u] = copy[u]
              /\ group' \in Seq(Line)
              /\ UNCHANGED <<handler, result, lost, faults>>
  <2>1. [copy[w][c] EXCEPT !.posted = TRUE] \in CopyType
    <3>1. copy[w][c] \in CopyType
      BY <1>1
    <3>. QED
      BY <3>1, CopyExcept
  <2>2. copy' = [copy EXCEPT ![w][c] = [copy[w][c] EXCEPT !.posted = TRUE]]
    BY <1>1, <1>12 DEF Post
  <2>3. copy' \in [Workers -> [Copies -> CopyType]] /\ \A u \in Workers \ {w} : copy'[u] = copy[u]
    BY <1>1, <2>1, <2>2
  <2>. QED
    BY <1>12, <2>3, PostGrows DEF Post
<1>. QED
  BY <1>1, <1>4a, <1>5, <1>6, <1>7, <1>8, <1>9, <1>10, <1>11, <1>12 DEF Work, Create, Agent

(* Only the agent posts, and only a copy that runs. *)
LEMMA PostedSame ==
  ASSUME TypeOK, CopiesOK, NEW w \in Workers, Work(w) \/ RunEnds(w)
  PROVE  /\ group' = group
         /\ \A u \in Workers, c \in Copies : copy'[u][c].posted = copy[u][c].posted
<1>1. /\ copy \in [Workers -> [Copies -> CopyType]]
      /\ \A u \in Workers \ {w} : copy'[u] = copy[u]
  BY WorkTypes DEF TypeOK, CopyType, Agent
<1>2. "run" \in Copies /\ "chat" \in Copies /\ \A c \in Copies : c = "run" \/ c = "chat"
  BY DEF Copies
<1>3. copy[w]["run"] \in CopyType /\ copy[w]["chat"] \in CopyType /\ CopyOK(w)
  BY <1>1, <1>2 DEF CopiesOK
<1>4. Running.posted = FALSE
  BY DEF Running, None
<1>5. ASSUME CreateRun(w) \/ CreateRunLost(w) \/ CreateRunRefused(w)
      PROVE  \A c \in Copies : copy'[w][c].posted = copy[w][c].posted
  <2>1. copy[w]["run"].posted = FALSE /\ copy[w]["chat"].posted = FALSE
    BY <1>2, <1>3, <1>5 DEF CreateRun, CreateRunLost, CreateRunRefused, CopyOK, CopyType
  <2>2. /\ copy'[w]["run"] = Running \/ copy'[w]["run"] = copy[w]["run"]
        /\ copy'[w]["chat"] = Running \/ copy'[w]["chat"] = copy[w]["chat"]
    BY <1>1, <1>2, <1>5 DEF CreateRun, CreateRunLost, CreateRunRefused
  <2>. QED
    BY <1>2, <1>4, <2>1, <2>2
<1>6. ASSUME NEW c \in Copies, NEW k \in Ended(copy[w][c]), copy' = [copy EXCEPT ![w][c] = k]
      PROVE  \A d \in Copies : copy'[w][d].posted = copy[w][d].posted
  <2>1. k.posted = copy[w][c].posted
    BY <1>1, EndedFacts
  <2>2. copy'[w][c] = k /\ \A d \in Copies \ {c} : copy'[w][d] = copy[w][d]
    BY <1>1, <1>6
  <2>. QED
    BY <2>1, <2>2
<1>7. ASSUME ChatTimeout(w) PROVE \A d \in Copies : copy'[w][d].posted = copy[w][d].posted
  <2>1. /\ copy'[w]["run"] = copy[w]["run"]
        /\ copy'[w]["chat"] = [copy[w]["chat"] EXCEPT !.at = "ended"]
    BY <1>1, <1>2, <1>7 DEF ChatTimeout
  <2>2. copy'[w]["chat"].posted = copy[w]["chat"].posted
    BY <1>3, <2>1 DEF CopyType
  <2>. QED
    BY <1>2, <2>1, <2>2
<1>8. \A c \in Copies : copy'[w][c].posted = copy[w][c].posted
  <2>0. CASE TakeLate(w)
    BY <2>0 DEF TakeLate
  <2>1. CASE PollRun(w)
    BY <2>1 DEF PollRun
  <2>2. CASE ChatEnds(w)
    BY <1>2, <1>6, <2>2 DEF ChatEnds
  <2>3. CASE RunEnds(w)
    BY <1>2, <1>6, <2>3 DEF RunEnds
  <2>. QED
    BY <1>5, <1>7, <2>0, <2>1, <2>2, <2>3 DEF Work, Create
<1>9. group' = group
  BY DEF Work, TakeLate, Create, CreateRun, CreateRunLost, CreateRunRefused, PollRun, ChatEnds,
         ChatTimeout, RunEnds
<1>. QED
  BY <1>1, <1>8, <1>9

LEMMA PostedStays ==
  ASSUME TypeOK, CopiesOK, NEW w \in Workers, Work(w) \/ Agent(w)
  PROVE  \A t \in Tasks : Posted(t) => Posted(t)'
<1>1. CASE Work(w) \/ RunEnds(w)
  BY <1>1, PostedSame DEF Posted
<1>2. ASSUME NEW c \in Copies, Post(w, c)
      PROVE  \A u \in Workers, d \in Copies : copy[u][d].posted => copy'[u][d].posted
  <2>1. /\ copy \in [Workers -> [Copies -> CopyType]]
        /\ copy' = [copy EXCEPT ![w][c] = [copy[w][c] EXCEPT !.posted = TRUE]]
    BY <1>2 DEF TypeOK, CopyType, Post
  <2>2. copy'[w][c].posted /\ \A d \in Copies \ {c} : copy'[w][d] = copy[w][d]
    BY <2>1 DEF CopyType
  <2>3. \A u \in Workers \ {w} : copy'[u] = copy[u]
    BY <2>1
  <2>. QED
    BY <2>2, <2>3
<1>3. CASE \E c \in Copies : Post(w, c)
  BY <1>2, <1>3 DEF Posted
<1>. QED
  BY <1>1, <1>3 DEF Agent

(* What a step makes of the row of the task. *)
NewRow(w) ==
  \/ result' = result
  \/ \E x : /\ result' = [result EXCEPT ![w[1]] = x]
            /\ x = NoResult \/ x.status \in {"completed", "failed"}
            /\ Good(x) => \E c \in Copies : copy'[w][c].posted

LEMMA CopiesStep ==
  ASSUME TypeOK, CopiesOK, NEW w \in Workers, Work(w) \/ Agent(w)
  PROVE  CopiesOK'
<1>1. /\ handler \in [Workers -> HandlerType]
      /\ copy \in [Workers -> [Copies -> CopyType]] /\ result \in [Tasks -> Outcome]
  BY DEF TypeOK, CopyType, HandlerType
<1>2. /\ \A u \in Workers \ {w} : /\ handler'[u] = handler[u] /\ copy'[u] = copy[u]
                                  /\ (u \in lost' <=> u \in lost)
      /\ handler' \in [Workers -> HandlerType]
      /\ copy' \in [Workers -> [Copies -> CopyType]]
  BY WorkTypes
<1>3. CopyOK(w)
  BY DEF CopiesOK
<1>4. "run" \in Copies /\ "chat" \in Copies /\ \A c \in Copies : c = "run" \/ c = "chat"
  BY DEF Copies
<1>5. copy[w]["run"] \in CopyType /\ copy[w]["chat"] \in CopyType
  BY <1>1, <1>4
<1>6. Running.at = "running" /\ ~Running.posted
  BY DEF Running, None
<1>6a. /\ ~Good(GivenUp) /\ GivenUp.status \in {"completed", "failed"} /\ ~Good(NoResult)
  BY DEF GivenUp, NoResult, Good
<1>6b. ASSUME TakeLate(w) PROVE CopyOK(w)' /\ NewRow(w)
  <2>1. /\ handler[w] = "posted" /\ handler'[w] = "create" /\ copy' = copy /\ lost' = lost
        /\ result' = [result EXCEPT ![w[1]] = NoResult]
    BY <1>1, <1>6b DEF TakeLate
  <2>. QED
    BY <1>3, <1>6a, <2>1 DEF CopyOK, NewRow
<1>7. ASSUME CreateRun(w) PROVE CopyOK(w)' /\ NewRow(w)
  <2>1. /\ handler[w] = "create" /\ handler'[w] = "poll" /\ lost' = lost
        /\ copy'[w]["run"] = Running /\ copy'[w]["chat"] = copy[w]["chat"]
        /\ result' = result
    BY <1>1, <1>4, <1>7 DEF CreateRun
  <2>. QED
    BY <1>3, <1>4, <1>6, <2>1 DEF CopyOK, NewRow
<1>8. ASSUME CreateRunLost(w) PROVE CopyOK(w)' /\ NewRow(w)
  <2>1. /\ handler'[w] = "chat" /\ w \in lost'
        /\ copy'[w]["run"] = Running /\ copy'[w]["chat"] = Running
        /\ result' = result
    BY <1>1, <1>4, <1>8 DEF CreateRunLost
  <2>. QED
    BY <1>3, <1>4, <1>6, <2>1 DEF CopyOK, NewRow
<1>9. ASSUME CreateRunRefused(w) PROVE CopyOK(w)' /\ NewRow(w)
  <2>1. /\ handler[w] = "create" /\ handler'[w] = "chat" /\ lost' = lost
        /\ copy'[w]["run"] = copy[w]["run"] /\ copy'[w]["chat"] = Running
        /\ result' = result
    BY <1>1, <1>4, <1>9 DEF CreateRunRefused
  <2>. QED
    BY <1>3, <1>4, <1>6, <2>1 DEF CopyOK, NewRow
<1>10. ASSUME PollRun(w) PROVE CopyOK(w)' /\ NewRow(w)
  <2>1. /\ handler[w] = "poll" /\ handler'[w] = "done" /\ copy' = copy /\ lost' = lost
    BY <1>1, <1>10 DEF PollRun, Finish
  <2>2. CopyOK(w)'
    BY <1>3, <2>1 DEF CopyOK
  <2>3. \/ copy[w]["run"].at = "ended" /\ result' = [result EXCEPT ![w[1]] = Result(copy[w]["run"])]
        \/ result' = [result EXCEPT ![w[1]] = GivenUp]
    BY <1>10 DEF PollRun, Finish
  <2>4. CASE result' = [result EXCEPT ![w[1]] = GivenUp]
    BY <1>6a, <2>2, <2>4 DEF NewRow
  <2>5. CASE copy[w]["run"].at = "ended" /\ result' = [result EXCEPT ![w[1]] = Result(copy[w]["run"])]
    <3>1. copy[w]["run"].status \in {"completed", "failed"}
      BY <1>3, <2>5 DEF CopyOK
    <3>2. /\ Result(copy[w]["run"]).status \in {"completed", "failed"}
          /\ Good(Result(copy[w]["run"])) => copy[w]["run"].posted
      BY <1>5, <3>1, ResultFacts
    <3>3. Good(Result(copy[w]["run"])) => \E c \in Copies : copy'[w][c].posted
      BY <1>4, <2>1, <3>2
    <3>. QED
      BY <2>2, <2>5, <3>2, <3>3 DEF NewRow
  <2>. QED
    BY <2>3, <2>4, <2>5
<1>11. ASSUME ChatEnds(w) PROVE CopyOK(w)' /\ NewRow(w)
  <2>1. PICK k \in Ended(copy[w]["chat"]) :
          copy' = [copy EXCEPT ![w]["chat"] = k] /\ Finish(w, Result(k))
    BY <1>11 DEF ChatEnds
  <2>2. k \in CopyType /\ k.at = "ended" /\ k.status \in {"completed", "failed"}
    BY <1>5, EndedFacts
  <2>3. /\ handler[w] = "chat" /\ handler'[w] = "done" /\ lost' = lost
        /\ copy'[w]["run"] = copy[w]["run"] /\ copy'[w]["chat"] = k
        /\ result' = [result EXCEPT ![w[1]] = Result(k)]
    BY <1>1, <1>4, <1>11, <2>1 DEF ChatEnds, Finish
  <2>4. CopyOK(w)'
    BY <1>3, <1>4, <2>2, <2>3 DEF CopyOK
  <2>5. /\ Result(k).status \in {"completed", "failed"}
        /\ Good(Result(k)) => copy'[w]["chat"].posted
    BY <2>2, <2>3, ResultFacts
  <2>6. Good(Result(k)) => \E c \in Copies : copy'[w][c].posted
    BY <1>4, <2>5
  <2>. QED
    BY <2>3, <2>4, <2>5, <2>6 DEF NewRow
<1>12. ASSUME ChatTimeout(w) PROVE CopyOK(w)' /\ NewRow(w)
  <2>1. /\ handler[w] = "chat" /\ handler'[w] = "done" /\ lost' = lost
        /\ copy'[w]["run"] = copy[w]["run"]
        /\ copy'[w]["chat"] = [copy[w]["chat"] EXCEPT !.at = "ended"]
        /\ result' = [result EXCEPT ![w[1]] = GivenUp]
    BY <1>1, <1>4, <1>12 DEF ChatTimeout, Finish
  <2>2. copy'[w]["chat"].at = "ended" /\ copy'[w]["chat"].posted = copy[w]["chat"].posted
    BY <1>5, <2>1 DEF CopyType
  <2>3. CopyOK(w)'
    BY <1>3, <1>4, <2>1, <2>2 DEF CopyOK
  <2>. QED
    BY <1>6a, <2>1, <2>3 DEF NewRow
<1>13. ASSUME RunEnds(w) PROVE CopyOK(w)' /\ NewRow(w)
  <2>1. PICK k \in Ended(copy[w]["run"]) : copy' = [copy EXCEPT ![w]["run"] = k]
    BY <1>13 DEF RunEnds
  <2>2. k.at = "ended" /\ k.status \in {"completed", "failed"}
    BY <1>5, EndedFacts
  <2>3. /\ copy[w]["run"].at = "running" /\ UNCHANGED <<handler, result, lost>>
        /\ copy'[w]["run"] = k /\ copy'[w]["chat"] = copy[w]["chat"]
    BY <1>1, <1>4, <1>13, <2>1 DEF RunEnds
  <2>4. CopyOK(w)'
    BY <1>3, <1>4, <2>2, <2>3 DEF CopyOK
  <2>. QED
    BY <2>3, <2>4 DEF NewRow
<1>14. ASSUME NEW c \in Copies, Post(w, c) PROVE CopyOK(w)' /\ NewRow(w)
  <2>1. /\ copy[w][c].at = "running" /\ UNCHANGED <<handler, result, lost>>
        /\ copy'[w][c] = [copy[w][c] EXCEPT !.posted = TRUE]
        /\ \A d \in Copies \ {c} : copy'[w][d] = copy[w][d]
    BY <1>1, <1>14 DEF Post
  <2>2. copy'[w][c].at = "running"
    BY <1>1, <2>1 DEF CopyType
  <2>3. \A d \in Copies : copy'[w][d].at = copy[w][d].at
    BY <2>1, <2>2
  <2>4. copy'[w]["run"].at = "ended" => copy'[w]["run"] = copy[w]["run"]
    BY <1>4, <2>1, <2>2
  <2>5. \A d \in Copies : copy'[w][d].at = "none" => ~copy'[w][d].posted
    BY <1>3, <2>1, <2>2 DEF CopyOK
  <2>6. /\ copy'[w]["run"].at = copy[w]["run"].at
        /\ copy'[w]["chat"].at = copy[w]["chat"].at
        /\ handler' = handler /\ lost' = lost
    BY <1>4, <2>1, <2>3
  <2>7. copy'[w]["run"].at = "ended" => copy'[w]["run"].status \in {"completed", "failed"}
    BY <1>3, <2>4 DEF CopyOK
  <2>8. CopyOK(w)'
    BY <1>3, <2>5, <2>6, <2>7 DEF CopyOK
  <2>. QED
    BY <2>1, <2>8 DEF NewRow
<1>15. CopyOK(w)' /\ NewRow(w)
  BY <1>6b, <1>7, <1>8, <1>9, <1>10, <1>11, <1>12, <1>13, <1>14 DEF Work, Create, Agent
<1>16. ASSUME NEW u \in Workers PROVE CopyOK(u)'
  <2>1. CASE u # w
    <3>1. CopyOK(u)
      BY DEF CopiesOK
    <3>. QED
      BY <1>2, <2>1, <3>1 DEF CopyOK
  <2>. QED
    BY <1>15, <2>1
<1>17. ASSUME NEW t \in Tasks PROVE RowOK(t, result[t])'
  <2>1. RowOK(t, result[t]) /\ (Posted(t) => Posted(t)')
    BY PostedStays DEF CopiesOK
  <2>2. CASE result'[t] = result[t]
    BY <2>1, <2>2 DEF RowOK, Good, Unsaid
  <2>3. ASSUME NEW x, result' = [result EXCEPT ![w[1]] = x], t = w[1],
               x = NoResult \/ x.status \in {"completed", "failed"},
               Good(x) => \E c \in Copies : copy'[w][c].posted
        PROVE  RowOK(t, result[t])'
    <3>1. result'[t] = x
      BY <1>1, <2>3
    <3>2. Good(x) => Posted(t)'
      BY <2>3 DEF Posted
    <3>. QED
      BY <2>3, <3>1, <3>2 DEF RowOK, Good, Unsaid
  <2>4. ASSUME NEW x, result' = [result EXCEPT ![w[1]] = x], t # w[1]
        PROVE  result'[t] = result[t]
    BY <1>1, <2>4
  <2>. QED
    BY <1>15, <2>2, <2>3, <2>4 DEF NewRow
<1>. QED
  BY <1>16, <1>17 DEF CopiesOK

-----------------------------------------------------------------------------
(* The group *)

Places(line) == {i \in DOMAIN group : group[i] = line}

LEMMA PlacesFinite ==
  ASSUME TypeOK, NEW line
  PROVE  IsFiniteSet(Places(line)) /\ Cardinality(Places(line)) \in Nat
         /\ Count(line) = Cardinality(Places(line))
<1>1. DOMAIN group = 1..Len(group) /\ Len(group) \in Nat
  BY RoundsType
<1>2. IsFiniteSet(1..Len(group))
  BY <1>1, FS_Interval
<1>3. IsFiniteSet(Places(line))
  BY <1>1, <1>2, FS_Subset DEF Places
<1>. QED
  BY <1>3, FS_CardinalityType DEF Places, Count

LEMMA PlacesGrow ==
  ASSUME TypeOK, TypeOK', NEW n \in 0..2, NEW line, Grown(n, line)
  PROVE  /\ \A other : other # line => Places(other)' = Places(other)
         /\ n = 1 => Places(line)' = Places(line) \union {Len(group) + 1}
         /\ n = 0 => Places(line)' = Places(line)
<1>1. /\ Len(group) \in Nat /\ DOMAIN group = 1..Len(group)
      /\ DOMAIN group' = 1..(Len(group) + n)
      /\ \A i \in 1..Len(group) : group'[i] = group[i]
      /\ \A i \in (Len(group) + 1)..(Len(group) + n) : group'[i] = line
  BY RoundsType DEF Grown, TypeOK
<1>2. \A i \in 1..(Len(group) + n) : i \in 1..Len(group) \/ i \in (Len(group) + 1)..(Len(group) + n)
  BY <1>1
<1>3. 1..Len(group) \subseteq 1..(Len(group) + n)
  BY <1>1
<1>4. (Len(group) + 1)..(Len(group) + n) \subseteq 1..(Len(group) + n)
  BY <1>1
<1>5. ASSUME NEW other, other # line PROVE Places(other)' = Places(other)
  BY <1>1, <1>2, <1>3, <1>5 DEF Places
<1>6. Places(line)' = Places(line) \union ((Len(group) + 1)..(Len(group) + n))
  BY <1>1, <1>2, <1>3, <1>4 DEF Places
<1>7. n = 1 => (Len(group) + 1)..(Len(group) + n) = {Len(group) + 1}
  BY <1>1
<1>8. n = 0 => (Len(group) + 1)..(Len(group) + n) = {}
  BY <1>1
<1>. QED
  BY <1>5, <1>6, <1>7, <1>8

(* A line that is in the group stays there, where it is. *)
LEMMA GroupStays ==
  ASSUME TypeOK, TypeOK', NEW n \in 0..2, NEW line, Grown(n, line)
  PROVE  /\ \A other : InGroup(other) => InGroup(other)'
         /\ n >= 1 => InGroup(line)'
         /\ \A i \in DOMAIN group' :
              \/ i \in DOMAIN group /\ group'[i] = group[i]
              \/ group'[i] = line /\ \A j \in DOMAIN group : j < i
<1>1. /\ Len(group) \in Nat /\ DOMAIN group = 1..Len(group)
      /\ DOMAIN group' = 1..(Len(group) + n)
      /\ \A i \in 1..Len(group) : group'[i] = group[i]
      /\ \A i \in (Len(group) + 1)..(Len(group) + n) : group'[i] = line
  BY RoundsType DEF Grown, TypeOK
<1>2. 1..Len(group) \subseteq 1..(Len(group) + n)
  BY <1>1
<1>3. n >= 1 => Len(group) + 1 \in 1..(Len(group) + n)
                /\ Len(group) + 1 \in (Len(group) + 1)..(Len(group) + n)
  BY <1>1
<1>4. \A i \in 1..(Len(group) + n) :
        \/ i \in 1..Len(group)
        \/ i \in (Len(group) + 1)..(Len(group) + n) /\ \A j \in 1..Len(group) : j < i
  BY <1>1
<1>. QED
  BY <1>1, <1>2, <1>3, <1>4 DEF InGroup

-----------------------------------------------------------------------------
(* The prompt *)

LEMMA DefaultLineFacts ==
  ASSUME NEW rs \in Seq(Outcome), NEW r \in Tasks, r \in 1..Len(rs)
  PROVE  /\ DefaultLine(rs, r) \in Line
         /\ rs[r].text # "empty" => DefaultLine(rs, r) = Answer(r)
<1>1. [Answer(r) EXCEPT !.by = "nobody"] = [by |-> "nobody", round |-> r]
  BY DEF Answer
<1>. QED
  BY <1>1, LineTypes DEF DefaultLine, Line

(* Each round adds the line of default and that of the regent. *)
LEMMA HistoryFacts ==
  ASSUME NEW rs \in Seq(Outcome), Len(rs) <= MaxRounds
  PROVE  /\ History(rs) \in Seq(Line) /\ Len(History(rs)) = 2 * Len(rs)
         /\ \A r \in 1..Len(rs) : /\ History(rs)[2 * r - 1] = DefaultLine(rs, r)
                                  /\ History(rs)[2 * r] = Regent(r)
<1>1. Len(rs) \in Nat /\ 1..Len(rs) \subseteq Tasks
  BY LenProperties
<1>2. ASSUME NEW i \in 1..(2 * Len(rs))
      PROVE  /\ i % 2 = 1 => (i + 1) \div 2 \in 1..Len(rs)
             /\ i % 2 # 1 => i \div 2 \in 1..Len(rs)
  BY <1>1
<1>3. ASSUME NEW i \in 1..(2 * Len(rs)) PROVE History(rs)[i] \in Line
  <2>1. CASE i % 2 = 1
    BY <1>1, <1>2, <2>1, DefaultLineFacts DEF History
  <2>2. CASE i % 2 # 1
    BY <1>1, <1>2, <2>2, LineTypes DEF History
  <2>. QED
    BY <2>1, <2>2
<1>4. History(rs) \in Seq(Line) /\ Len(History(rs)) = 2 * Len(rs)
  <2>1. 2 * Len(rs) \in Nat /\ DOMAIN History(rs) = 1..(2 * Len(rs))
    BY <1>1 DEF History
  <2>2. History(rs) = [i \in 1..(2 * Len(rs)) |-> History(rs)[i]]
    BY DEF History
  <2>3. History(rs) \in [1..(2 * Len(rs)) -> Line]
    BY <1>3, <2>2
  <2>. QED
    BY <2>1, <2>3, SeqDef, LenProperties
<1>5. ASSUME NEW r \in 1..Len(rs)
      PROVE  /\ History(rs)[2 * r - 1] = DefaultLine(rs, r)
             /\ History(rs)[2 * r] = Regent(r)
  <2>1. /\ 2 * r - 1 \in 1..(2 * Len(rs)) /\ (2 * r - 1) % 2 = 1
        /\ ((2 * r - 1) + 1) \div 2 = r
        /\ 2 * r \in 1..(2 * Len(rs)) /\ (2 * r) % 2 # 1 /\ (2 * r) \div 2 = r
    BY <1>1
  <2>. QED
    BY <2>1 DEF History
<1>. QED
  BY <1>4, <1>5

(* The last w lines, or all. *)
LEMMA ClipFacts ==
  ASSUME NEW h \in Seq(Line), NEW w \in Nat
  PROVE  /\ Clip(h, w) \in Seq(Line)
         /\ Len(Clip(h, w)) = IF w = 0 \/ w >= Len(h) THEN Len(h) ELSE w
         /\ \A i \in 1..Len(Clip(h, w)) : Clip(h, w)[i] = h[Len(h) - Len(Clip(h, w)) + i]
<1>1. Len(h) \in Nat
  BY LenProperties
<1>2. CASE w = 0 \/ w >= Len(h)
  <2>1. Clip(h, w) = h
    BY <1>2 DEF Clip
  <2>2. \A i \in 1..Len(h) : Len(h) - Len(h) + i = i
    BY <1>1
  <2>. QED
    BY <1>2, <2>1, <2>2
<1>3. CASE ~(w = 0 \/ w >= Len(h))
  <2>1. /\ Len(h) - w + 1 \in 1..Len(h) /\ Len(h) \in 1..Len(h)
        /\ Len(h) - (Len(h) - w + 1) + 1 = w
    BY <1>1, <1>3
  <2>. DEFINE k == Len(h) - w + 1
              c == SubSeq(h, k, Len(h))
  <2>2. /\ c \in Seq(Line) /\ Len(c) = Len(h) - k + 1
        /\ \A i \in 1..(Len(h) - k + 1) : c[i] = h[k + i - 1]
    <3>1. k \in 1..Len(h)
      BY <2>1
    <3>. HIDE DEF k
    <3>. QED
      BY <3>1, SubSeqProperties
  <2>3. Clip(h, w) = c
    BY <1>3 DEF Clip
  <2>4. Len(c) = w /\ \A i \in 1..w : k + i - 1 = Len(h) - w + i
    BY <1>1, <2>1, <2>2
  <2>. HIDE DEF c
  <2>. QED
    BY <1>1, <1>3, <2>1, <2>2, <2>3, <2>4
<1>. QED
  BY <1>2, <1>3

LEMMA PromptType ==
  ASSUME TypeOK
  PROVE  Clip(History(rounds), window) \in Seq(Line)
<1>1. rounds \in Seq(Outcome) /\ Len(rounds) <= MaxRounds /\ window \in Nat
  BY RoundsType DEF TypeOK
<1>. QED
  BY <1>1, HistoryFacts, ClipFacts

-----------------------------------------------------------------------------
(* The discussion *)

LEMMA DecisionType ==
  ASSUME NEW m, ClassifyMessage(m).mode = "roleplay"
  PROVE  ClassifyMessage(m).rounds \in Nat
BY DEF ClassifyMessage, Skip, DetermineRounds

LEMMA DecisionMode ==
  ASSUME NEW m, ClassifyMessage(m).mode # "none"
  PROVE  ClassifyMessage(m).mode \in {"roleplay", "synthesize"}
BY DEF ClassifyMessage, Skip

(* Roleplay, Synthesize and AutoStart begin a discussion of n rounds. *)
LEMMA BeginCases ==
  ASSUME Roleplay \/ Synthesize \/ AutoStart, TypeOK
  PROVE  \E m \in {"roleplay", "synthesize"}, n \in Nat, w \in Nat :
           Begin(m, n, w) /\ (m = "synthesize" => n = 1)
<1>1. HistoryWindow \in Nat
  OBVIOUS
<1>2. CASE Roleplay
  <2>1. PICK c \in Calls : Begin("roleplay", c[1], c[2])
    BY <1>2 DEF Roleplay
  <2>2. c[1] \in Nat /\ c[2] \in Nat
    OBVIOUS
  <2>. QED
    BY <2>1, <2>2
<1>3. CASE Synthesize
  BY <1>1, <1>3 DEF Synthesize
<1>4. CASE AutoStart
  <2>. DEFINE d == ClassifyMessage(message)
  <2>1. /\ d.mode # "none"
        /\ Begin(d.mode, IF d.mode = "roleplay" THEN d.rounds ELSE 1, HistoryWindow)
    BY <1>4 DEF AutoStart
  <2>2. d.mode \in {"roleplay", "synthesize"} /\ (d.mode = "roleplay" => d.rounds \in Nat)
    BY <2>1, DecisionMode, DecisionType
  <2>. HIDE DEF d
  <2>. QED
    BY <1>1, <2>1, <2>2
<1>. QED
  BY <1>2, <1>3, <1>4

LEMMA CurrentType ==
  ASSUME TypeOK, TalkOK
  PROVE  /\ phase \in {"speak", "ask", "poll"} => Current \in Tasks /\ Current \in 1..total
         /\ phase = "relay" => Len(rounds) \in Tasks
         /\ Current \in Nat /\ Current = Len(rounds) + 1
<1>1. Len(rounds) \in Nat /\ total \in 0..MaxRounds /\ Len(rounds) <= total
  BY RoundsType
<1>2. phase = "relay" => Len(rounds) >= 1
  <2>1. rounds \in Seq(Outcome)
    BY DEF TypeOK
  <2>. QED
    BY <1>1, <2>1, EmptySeq DEF TalkOK
<1>. QED
  BY <1>1, <1>2 DEF TalkOK, Current

(* What a poll returns. *)
LEMMA PolledFacts ==
  ASSUME TypeOK, TalkOK, CopiesOK, phase = "poll", NEW x \in Polled
  PROVE  /\ x \in Outcome /\ x.status \in {"completed", "failed"}
         /\ Good(x) => Posted(Current)
<1>1. Current \in Tasks
  BY CurrentType
<1>2. CASE x = GivenUp
  BY <1>2 DEF GivenUp, NoResult, Outcome, Texts, Good
<1>3. CASE x = result[Current] /\ x # NoResult
  <2>1. result[Current] \in Outcome
    BY <1>1 DEF TypeOK
  <2>2. RowOK(Current, result[Current])
    BY <1>1 DEF CopiesOK
  <2>. QED
    BY <1>3, <2>1, <2>2 DEF RowOK
<1>. QED
  BY <1>2, <1>3 DEF Polled

LEMMA NextRoundFacts ==
  ASSUME NEW rs, NextRound(rs)
  PROVE  \/ Len(rs) < total' /\ phase' = "speak" /\ status' = status
         \/ ~(Len(rs) < total') /\ phase' = "done" /\ status' = Aggregate(rs)
BY DEF NextRound

LEMMA InitTypes == Init => TypeOK
<1>. SUFFICES ASSUME Init PROVE TypeOK
  OBVIOUS
<1>1. None \in CopyType /\ NoResult \in Outcome
  BY DEF None, CopyType, NoResult, Outcome, Texts
<1>2. /\ handler \in [Workers -> HandlerType]
      /\ copy \in [Workers -> [Copies -> CopyType]]
      /\ result \in [Tasks -> Outcome] /\ lost \subseteq Workers
  BY <1>1 DEF Init, ExecutionInit, HandlerType
<1>. QED
  BY <1>2, EmptySeq DEF Init, TypeOK, CopyType, HandlerType

(* The variables of the workers, of the group, and of the discussion.      *)
ExecutionTypes ==
  /\ handler \in [Workers -> HandlerType]
  /\ copy \in [Workers -> [Copies -> CopyType]]
  /\ result \in [Tasks -> Outcome] /\ lost \subseteq Workers
  /\ group \in Seq(Line) /\ faults \in 0..MaxFaults

TalkTypes ==
  /\ message \subseteq Phrases
  /\ mode \in {"none", "roleplay", "synthesize", "auto_skip"}
  /\ total \in 0..MaxRounds /\ window \in Nat
  /\ phase \in {"start", "speak", "ask", "poll", "relay", "done"}
  /\ rounds \in Seq(Outcome) /\ Len(rounds) <= total
  /\ errors \subseteq {"skip", "post", "ask", "answer"} \X (0..MaxRounds)
  /\ status \in {"none", "skipped", "succeeded", "degraded", "failed", "?"}
  /\ prompt \in Seq(Line) /\ unrelayed \subseteq Tasks

LEMMA TypesSplit == TypeOK <=> ExecutionTypes /\ TalkTypes
BY DEF TypeOK, ExecutionTypes, TalkTypes, CopyType, HandlerType

LEMMA TakeTypes ==
  ASSUME TypeOK, NEW t \in Tasks, NEW saved, NEW late, Take(t, saved, late)
  PROVE  /\ handler' \in [Workers -> HandlerType]
         /\ \A w \in Workers : \/ handler'[w] = handler[w]
                               \/ w[1] = t /\ handler'[w] \in {"posted", "create"}
<1>1. handler \in [Workers -> HandlerType]
  BY DEF TypeOK, HandlerType
<1>2. ASSUME NEW w \in Workers
      PROVE  \/ handler'[w] = handler[w]
             \/ w[1] = t /\ handler'[w] \in {"posted", "create"}
  BY DEF Take
<1>3. \A w \in Workers : handler'[w] \in HandlerType
  BY <1>1, <1>2 DEF HandlerType
<1>4. handler' = [w \in Workers |-> handler'[w]]
  BY DEF Take
<1>. QED
  BY <1>2, <1>3, <1>4

LEMMA TalkTypeStep ==
  ASSUME TypeOK, TalkOK, CopiesOK, Talk
  PROVE  TypeOK'
<1>1. ExecutionTypes /\ TalkTypes
  BY TypesSplit
<1>2. /\ Len(rounds) \in Nat /\ MaxRounds \in Nat /\ total \in 0..MaxRounds
      /\ Len(rounds) <= total
  BY RoundsType
<1>3. CASE Roleplay \/ Synthesize \/ AutoStart
  <2>1. PICK m \in {"roleplay", "synthesize"}, n \in Nat, w \in Nat : Begin(m, n, w)
    BY <1>3, BeginCases
  <2>2. rounds = <<>>
    BY <2>1 DEF Begin, TalkOK
  <2>3. AtMost(n, MaxRounds) \in 0..MaxRounds
    BY <1>2 DEF AtMost
  <2>4. /\ phase' \in {"start", "speak", "ask", "poll", "relay", "done"}
        /\ status' \in {"none", "skipped", "succeeded", "degraded", "failed", "?"}
    BY <1>1, <2>1, AggregateType DEF Begin, NextRound, TalkTypes
  <2>5. ExecutionTypes'
    BY <1>1, <2>1 DEF Begin, ExecutionTypes, execution
  <2>6. rounds' = rounds /\ Len(rounds) = 0
    BY <2>1, <2>2, EmptySeq DEF Begin
  <2>7. TalkTypes'
    BY <1>1, <2>1, <2>3, <2>4, <2>6 DEF Begin, TalkTypes
  <2>. QED
    BY <2>5, <2>7, TypesSplit, PTL
<1>4. CASE AutoSkip
  <2>1. ExecutionTypes'
    BY <1>1, <1>4 DEF AutoSkip, ExecutionTypes, execution
  <2>2. TalkTypes'
    BY <1>1, <1>2, <1>4 DEF AutoSkip, TalkTypes
  <2>. QED
    BY <2>1, <2>2, TypesSplit, PTL
<1>5. CASE Speak
  <2>1. Current \in Tasks
    BY <1>5, CurrentType DEF Speak
  <2>2. PICK ok \in BOOLEAN :
          /\ TgSend(Regent(Current), ok)
          /\ errors' = IF ok THEN errors ELSE errors \union {<<"post", Current>>}
    BY <1>5 DEF Speak
  <2>3. group' \in Seq(Line) /\ faults' \in 0..MaxFaults
    BY <2>1, <2>2, SendGrows, LineTypes
  <2>4. <<"post", Current>> \in {"skip", "post", "ask", "answer"} \X (0..MaxRounds)
    BY <2>1
  <2>5. errors' \subseteq {"skip", "post", "ask", "answer"} \X (0..MaxRounds)
    BY <1>1, <2>2, <2>4 DEF TalkTypes
  <2>6. ExecutionTypes'
    BY <1>1, <1>5, <2>3 DEF Speak, ExecutionTypes, execution
  <2>7. TalkTypes'
    BY <1>1, <1>5, <2>5 DEF Speak, TalkTypes
  <2>. QED
    BY <2>6, <2>7, TypesSplit, PTL
<1>6. CASE Ask \/ AskFails
  <2>1. Current \in Tasks
    BY <1>6, CurrentType DEF Ask, AskFails
  <2>2. handler' \in [Workers -> HandlerType]
    BY <1>6, <2>1, TakeTypes DEF Ask, AskFails
  <2>3. prompt' \in Seq(Line)
    BY <1>6, PromptType, EmptySeq DEF Ask, AskFails, Prompted
  <2>4. <<"ask", Current>> \in {"skip", "post", "ask", "answer"} \X (0..MaxRounds)
    BY <2>1
  <2>5. errors' \subseteq {"skip", "post", "ask", "answer"} \X (0..MaxRounds)
    BY <1>1, <1>6, <2>4 DEF Ask, AskFails, TalkTypes
  <2>6. /\ phase' \in {"poll", "done"}
        /\ status' \in {"none", "skipped", "succeeded", "degraded", "failed", "?"}
    BY <1>1, <1>6, AggregateType DEF Ask, AskFails, TalkTypes
  <2>6a. faults' \in 0..MaxFaults
    <3>1. \E n \in {0, 1} : Fault(n)
      BY <1>6 DEF Ask, AskFails
    <3>. QED
      BY <1>1, <3>1 DEF Fault, ExecutionTypes
  <2>7. UNCHANGED <<message, mode, total, window, rounds, unrelayed, copy, result, lost, group>>
    BY <1>6 DEF Ask, AskFails
  <2>8. ExecutionTypes'
    BY <1>1, <2>2, <2>6a, <2>7 DEF ExecutionTypes
  <2>9. TalkTypes'
    BY <1>1, <2>3, <2>5, <2>6, <2>7 DEF TalkTypes
  <2>. QED
    BY <2>8, <2>9, TypesSplit, PTL
<1>7. CASE Poll
  <2>1. PICK x \in Polled : EndSynthesize(x) \/ EndRound(x)
    BY <1>7 DEF Poll
  <2>2. /\ phase = "poll" /\ Current \in Tasks /\ Current \in 1..total
        /\ total' = total
        /\ UNCHANGED <<message, mode, window, prompt, unrelayed, execution, group, faults>>
    BY <1>7, CurrentType DEF Poll
  <2>3. x \in Outcome
    BY <2>1, <2>2, PolledFacts
  <2>4. /\ rounds' = Append(rounds, x)
        /\ errors' \in {errors, errors \union {<<"answer", Current>>}}
        /\ phase' \in {"done", "relay", "speak"}
        /\ status' \in {status, x.semantic, Aggregate(rounds')}
    BY <2>1 DEF EndSynthesize, EndRound, NextRound
  <2>5. rounds' \in Seq(Outcome) /\ Len(rounds') = Len(rounds) + 1
    BY <1>1, <2>3, <2>4, AppendProperties DEF TalkTypes
  <2>6. Len(rounds') <= total
    BY <1>2, <2>2, <2>5 DEF Current
  <2>7. <<"answer", Current>> \in {"skip", "post", "ask", "answer"} \X (0..MaxRounds)
    BY <2>2
  <2>8. errors' \subseteq {"skip", "post", "ask", "answer"} \X (0..MaxRounds)
    BY <1>1, <2>4, <2>7 DEF TalkTypes
  <2>9. status' \in {"none", "skipped", "succeeded", "degraded", "failed", "?"}
    BY <1>1, <2>3, <2>4, AggregateType DEF TalkTypes, Outcome
  <2>10. ExecutionTypes'
    BY <1>1, <2>2 DEF ExecutionTypes, execution
  <2>11. TalkTypes'
    BY <1>1, <2>2, <2>4, <2>5, <2>6, <2>8, <2>9 DEF TalkTypes
  <2>. QED
    BY <2>10, <2>11, TypesSplit, PTL
<1>8. CASE Relay
  <2>1. Len(rounds) \in Tasks
    BY <1>8, CurrentType DEF Relay
  <2>2. PICK ok \in BOOLEAN :
          /\ TgSend(Relayed(Len(rounds)), ok)
          /\ unrelayed' = IF ok THEN unrelayed ELSE unrelayed \union {Len(rounds)}
    BY <1>8 DEF Relay
  <2>3. group' \in Seq(Line) /\ faults' \in 0..MaxFaults
    BY <2>1, <2>2, SendGrows, LineTypes
  <2>4. unrelayed' \subseteq Tasks
    BY <1>1, <2>1, <2>2 DEF TalkTypes
  <2>5. /\ phase' \in {"speak", "done"}
        /\ status' \in {"none", "skipped", "succeeded", "degraded", "failed", "?"}
    BY <1>1, <1>8, AggregateType DEF Relay, NextRound, TalkTypes
  <2>6. ExecutionTypes'
    BY <1>1, <1>8, <2>3 DEF Relay, ExecutionTypes, execution
  <2>7. TalkTypes'
    BY <1>1, <1>8, <2>4, <2>5 DEF Relay, TalkTypes
  <2>. QED
    BY <2>6, <2>7, TypesSplit, PTL
<1>. QED
  BY <1>3, <1>4, <1>5, <1>6, <1>7, <1>8 DEF Talk

LEMMA WorkTypeStep ==
  ASSUME TypeOK, NEW w \in Workers, Work(w) \/ Agent(w), UNCHANGED talk
  PROVE  TypeOK'
<1>1. TalkTypes
  BY TypesSplit
<1>2. TalkTypes'
  BY <1>1 DEF TalkTypes, talk
<1>3. ExecutionTypes'
  BY WorkTypes DEF ExecutionTypes
<1>. QED
  BY <1>2, <1>3, TypesSplit, PTL

-----------------------------------------------------------------------------
(* Workers, copies and the answers in the group *)

LEMMA AnswersDiffer ==
  ASSUME NEW t, NEW u
  PROVE  /\ t # u => Answer(t) # Answer(u)
         /\ Answer(t) # Regent(u) /\ Answer(t) # Relayed(u) /\ Regent(t) # Relayed(u)
BY DEF Answer, Regent, Relayed

(* The copies of a prompt that posted. *)
LEMMA PostersFinite ==
  ASSUME TypeOK, NEW t \in Tasks
  PROVE  /\ IsFiniteSet(Ran(t)) /\ Cardinality(Ran(t)) \in Nat
         /\ IsFiniteSet(Chatted(t)) /\ Cardinality(Chatted(t)) \in Nat
         /\ (Ran(t) # {} \/ Chatted(t) # {}) <=> Posted(t)
<1>1. IsFiniteSet(1..Posts) /\ Ran(t) \subseteq 1..Posts /\ Chatted(t) \subseteq 1..Posts
  BY FS_Interval DEF Ran, Chatted
<1>2. IsFiniteSet(Ran(t)) /\ IsFiniteSet(Chatted(t))
  BY <1>1, FS_Subset
<1>3. Posted(t) => Ran(t) # {} \/ Chatted(t) # {}
  BY WorkerFacts DEF Posted, Ran, Chatted, Copies
<1>4. Ran(t) # {} \/ Chatted(t) # {} => Posted(t)
  BY WorkerFacts DEF Posted, Ran, Chatted, Copies
<1>. QED
  BY <1>2, <1>3, <1>4, FS_CardinalityType

LEMMA PostsStep ==
  ASSUME TypeOK, TypeOK', CopiesOK, PostsOK, NEW w \in Workers, Work(w) \/ Agent(w)
  PROVE  PostsOK'
<1>1. CASE Work(w) \/ RunEnds(w)
  <2>1. group' = group /\ \A t \in Tasks : Ran(t)' = Ran(t) /\ Chatted(t)' = Chatted(t)
    BY <1>1, PostedSame, WorkerFacts DEF Ran, Chatted, Copies
  <2>. QED
    BY <2>1 DEF PostsOK, Count
<1>2. ASSUME NEW c \in Copies, Post(w, c) PROVE PostsOK'
  <2>1. /\ copy \in [Workers -> [Copies -> CopyType]]
        /\ copy[w][c].posted = FALSE
        /\ copy' = [copy EXCEPT ![w][c] = [copy[w][c] EXCEPT !.posted = TRUE]]
    BY <1>2 DEF TypeOK, CopyType, Post
  <2>1a. copy[w] \in [Copies -> CopyType] /\ copy[w][c] \in CopyType
    BY <2>1
  <2>1b. /\ copy'[w] = [copy[w] EXCEPT ![c] = [copy[w][c] EXCEPT !.posted = TRUE]]
         /\ \A u \in Workers \ {w} : copy'[u] = copy[u]
    BY <2>1
  <2>1c. [copy[w][c] EXCEPT !.posted = TRUE].posted = TRUE
    BY <2>1a DEF CopyType
  <2>2. /\ copy'[w][c].posted = TRUE
        /\ \A d \in Copies \ {c} : copy'[w][d] = copy[w][d]
        /\ \A u \in Workers \ {w} : copy'[u] = copy[u]
    BY <2>1a, <2>1b, <2>1c
  <2>. PICK t \in Tasks, n \in 1..Posts : w = <<t, n>> /\ t = w[1]
    BY WorkerFacts
  <2>3. Grown(1, Answer(t))
    BY <1>2, PostGrows
  <2>4. /\ \A u \in Tasks \ {t} : Places(Answer(u))' = Places(Answer(u))
        /\ Places(Answer(t))' = Places(Answer(t)) \union {Len(group) + 1}
    BY <2>3, PlacesGrow, AnswersDiffer
  <2>5. /\ \A u \in Tasks : Count(Answer(u)) = Cardinality(Places(Answer(u)))
        /\ \A u \in Tasks : Count(Answer(u))' = Cardinality(Places(Answer(u))')
    BY DEF Count, Places
  <2>6. Len(group) + 1 \notin Places(Answer(t))
    BY RoundsType DEF Places
  <2>7. /\ IsFiniteSet(Places(Answer(t)))
        /\ Cardinality(Places(Answer(t)) \union {Len(group) + 1}) =
             Cardinality(Places(Answer(t))) + 1
    BY <2>6, PlacesFinite, FS_AddElement
  <2>8. Count(Answer(t)) = Cardinality(Ran(t)) + Cardinality(Chatted(t))
    BY DEF PostsOK
  <2>9. Count(Answer(t))' = Count(Answer(t)) + 1
    BY <2>4, <2>5, <2>7
  <2>10. ASSUME NEW i \in 1..Posts, i # n PROVE copy'[<<t, i>>] = copy[<<t, i>>]
    <3>1. <<t, i>> \in Workers /\ <<t, i>> # <<t, n>>
      BY <2>10, WorkerFacts
    <3>. QED
      BY <2>2, <3>1
  <2>10a. PICK ran, ran2, chatted, chatted2 :
            ran = Ran(t) /\ ran2 = Ran(t)' /\ chatted = Chatted(t) /\ chatted2 = Chatted(t)'
    OBVIOUS
  <2>10b. /\ IsFiniteSet(ran) /\ Cardinality(ran) \in Nat
          /\ IsFiniteSet(chatted) /\ Cardinality(chatted) \in Nat
    BY <2>10a, PostersFinite
  <2>11. Cardinality(ran2) + Cardinality(chatted2) = Cardinality(ran) + Cardinality(chatted) + 1
    <3>1. CASE c = "run"
      <4>1. /\ copy'[<<t, n>>]["run"].posted /\ ~copy[<<t, n>>]["run"].posted
            /\ copy'[<<t, n>>]["chat"] = copy[<<t, n>>]["chat"]
        BY <2>1, <2>2, <3>1 DEF Copies
      <4>2. ran2 = ran \union {n} /\ n \notin ran
        BY <2>10, <2>10a, <4>1 DEF Ran
      <4>3. chatted2 = chatted
        BY <2>10, <2>10a, <4>1 DEF Chatted
      <4>4. Cardinality(ran \union {n}) = Cardinality(ran) + 1
        BY <2>10b, <4>2, FS_AddElement
      <4>. QED
        BY ONLY <2>10b, <4>2, <4>3, <4>4
    <3>2. CASE c = "chat"
      <4>1. /\ copy'[<<t, n>>]["chat"].posted /\ ~copy[<<t, n>>]["chat"].posted
            /\ copy'[<<t, n>>]["run"] = copy[<<t, n>>]["run"]
        BY <2>1, <2>2, <3>2 DEF Copies
      <4>2. chatted2 = chatted \union {n} /\ n \notin chatted
        BY <2>10, <2>10a, <4>1 DEF Chatted
      <4>3. ran2 = ran
        BY <2>10, <2>10a, <4>1 DEF Ran
      <4>4. Cardinality(chatted \union {n}) = Cardinality(chatted) + 1
        BY <2>10b, <4>2, FS_AddElement
      <4>. QED
        BY ONLY <2>10b, <4>2, <4>3, <4>4
    <3>. QED
      BY <3>1, <3>2 DEF Copies
  <2>12. ASSUME NEW u \in Tasks, u # t PROVE Ran(u)' = Ran(u) /\ Chatted(u)' = Chatted(u)
    <3>1. \A i \in 1..Posts : <<u, i>> \in Workers /\ <<u, i>> # <<t, n>>
      BY <2>12, WorkerFacts
    <3>2. \A i \in 1..Posts : copy'[<<u, i>>] = copy[<<u, i>>]
      BY <2>2, <3>1
    <3>. QED
      BY <3>2 DEF Ran, Chatted
  <2>13. ASSUME NEW u \in Tasks
         PROVE  Count(Answer(u))' = Cardinality(Ran(u)') + Cardinality(Chatted(u)')
    <3>1. CASE u = t
      <4>1. Count(Answer(t)) = Cardinality(ran) + Cardinality(chatted)
        BY <2>8, <2>10a
      <4>2. Count(Answer(t))' = Cardinality(ran2) + Cardinality(chatted2)
        BY <2>9, <2>11, <4>1
      <4>. QED
        BY <2>10a, <3>1, <4>2
    <3>2. CASE u # t
      <4>1. Count(Answer(u))' = Count(Answer(u))
        BY <2>4, <2>5, <3>2
      <4>2. Count(Answer(u)) = Cardinality(Ran(u)) + Cardinality(Chatted(u))
        BY DEF PostsOK
      <4>. QED
        BY <2>12, <3>2, <4>1, <4>2
    <3>. QED
      BY <3>1, <3>2
  <2>. QED
    BY <2>13 DEF PostsOK
<1>. QED
  BY <1>1, <1>2 DEF Agent

(* An answer is in the group exactly if a copy has posted it. *)
LEMMA InGroupPosted ==
  ASSUME TypeOK, PostsOK, NEW t \in Tasks
  PROVE  InGroup(Answer(t)) <=> Posted(t)
<1>1. InGroup(Answer(t)) <=> Places(Answer(t)) # {}
  BY DEF Places, InGroup
<1>2. Places(Answer(t)) # {} <=> Count(Answer(t)) # 0
  BY PlacesFinite, FS_EmptySet
<1>3. Count(Answer(t)) = Cardinality(Ran(t)) + Cardinality(Chatted(t))
  BY DEF PostsOK
<1>4. /\ Cardinality(Ran(t)) \in Nat /\ Cardinality(Chatted(t)) \in Nat
      /\ Ran(t) = {} <=> Cardinality(Ran(t)) = 0
      /\ Chatted(t) = {} <=> Cardinality(Chatted(t)) = 0
  BY PostersFinite, FS_EmptySet
<1>5. Count(Answer(t)) # 0 <=> Ran(t) # {} \/ Chatted(t) # {}
  BY <1>3, <1>4
<1>. QED
  BY <1>1, <1>2, <1>5, PostersFinite

-----------------------------------------------------------------------------
(* What the group has read *)

HasRead(r) == {i \in DOMAIN group : group[i] \in {Answer(r), Relayed(r)}}

ReadFirst(r) ==
  /\ HasRead(r) # {}
  /\ \A i \in DOMAIN group : group[i] = Regent(r + 1) => \E j \in HasRead(r) : j < i

Excused(r) ==
  \/ rounds[r].text = "empty" \/ rounds[r].semantic \notin {"succeeded", "degraded"}
  \/ mode = "synthesize" \/ r \in unrelayed \/ Unsaid(rounds[r])

LEMMA ReadForm ==
  AnswerReadBeforeNext <=>
    \A r \in DOMAIN rounds : Excused(r) \/ (phase = "relay" /\ r = Len(rounds)) \/ ReadFirst(r)
BY DEF AnswerReadBeforeNext, Excused, ReadFirst, HasRead

LEMMA ReadFormNext ==
  ASSUME \A r \in DOMAIN rounds' :
           Excused(r)' \/ (phase' = "relay" /\ r = Len(rounds')) \/ ReadFirst(r)'
  PROVE  AnswerReadBeforeNext'
BY DEF AnswerReadBeforeNext, Excused, ReadFirst, HasRead

LEMMA NextTypes ==
  ASSUME TypeOK'
  PROVE  /\ Len(rounds') \in Nat /\ DOMAIN rounds' = 1..Len(rounds')
         /\ Len(group') \in Nat /\ DOMAIN group' = 1..Len(group')
         /\ total' \in 0..MaxRounds /\ Len(rounds') <= total'
<1>1. rounds' \in Seq(Outcome) /\ group' \in Seq(Line)
  BY DEF TypeOK
<1>. QED
  BY <1>1, LenProperties DEF TypeOK

LEMMA ReadStays ==
  ASSUME TypeOK, TypeOK', NEW n \in 0..2, NEW line, Grown(n, line),
         NEW r \in Nat, ReadFirst(r)
  PROVE  ReadFirst(r)'
<1>1. /\ \A i \in DOMAIN group : i \in DOMAIN group' /\ group'[i] = group[i]
      /\ \A i \in DOMAIN group' :
           i \in DOMAIN group \/ \A j \in DOMAIN group : j < i
  BY RoundsType, NextTypes DEF Grown
<1>2. HasRead(r) \subseteq HasRead(r)'
  BY <1>1 DEF HasRead
<1>3. ASSUME NEW i \in DOMAIN group', group'[i] = Regent(r + 1)
      PROVE  \E j \in HasRead(r)' : j < i
  <2>1. CASE i \in DOMAIN group
    BY <1>1, <1>2, <1>3, <2>1 DEF ReadFirst
  <2>2. CASE \A j \in DOMAIN group : j < i
    BY <1>2, <2>2 DEF ReadFirst, HasRead
  <2>. QED
    BY <1>1, <2>1, <2>2
<1>. QED
  BY <1>2, <1>3 DEF ReadFirst

(* An answer that is in the group before the regent goes on is read first. *)
LEMMA ReadAtOnce ==
  ASSUME NEW r, NEW line \in {Answer(r), Relayed(r)}, InGroup(line), ~InGroup(Regent(r + 1))
  PROVE  ReadFirst(r)
BY DEF ReadFirst, HasRead, InGroup

(* The regent has not spoken in the rounds to come. *)
LEMMA NotSpokenYet ==
  ASSUME TypeOK, RegentsOK, NEW r \in Nat, r > Len(rounds),
         r > Current \/ phase \notin {"ask", "poll", "done"}
  PROVE  ~InGroup(Regent(r))
<1>. SUFFICES ASSUME NEW i \in DOMAIN group, group[i] = Regent(r) PROVE FALSE
  BY DEF InGroup
<1>1. group[i].by = "regent" /\ group[i].round = r
  BY DEF Regent
<1>. QED
  BY <1>1, RoundsType DEF RegentsOK, Current

-----------------------------------------------------------------------------
(* The steps of the discussion and the workers *)

LEMMA TalkExecution ==
  ASSUME Talk
  PROVE  /\ UNCHANGED <<copy, result, lost>>
         /\ handler' = handler \/ (phase = "ask" /\ \E saved, late : Take(Current, saved, late))
BY DEF Talk, Roleplay, Synthesize, AutoStart, Begin, AutoSkip, Speak, Ask, AskFails, Poll,
       Relay, execution

LEMMA TalkGroup ==
  ASSUME TypeOK, TalkOK, Talk
  PROVE  \/ group' = group
         \/ \E n \in 0..2 : Speak /\ Grown(n, Regent(Current))
         \/ \E n \in 0..2 : Relay /\ Grown(n, Relayed(Len(rounds)))
<1>1. CASE Speak
  <2>1. Regent(Current) \in Line
    BY <1>1, CurrentType, LineTypes DEF Speak
  <2>. QED
    BY <1>1, <2>1, SendGrows DEF Speak
<1>2. CASE Relay
  <2>1. Relayed(Len(rounds)) \in Line
    BY <1>2, CurrentType, LineTypes DEF Relay
  <2>. QED
    BY <1>2, <2>1, SendGrows DEF Relay
<1>3. CASE ~Speak /\ ~Relay
  BY <1>3 DEF Talk, Roleplay, Synthesize, AutoStart, Begin, AutoSkip, Ask, AskFails, Poll
<1>. QED
  BY <1>1, <1>2, <1>3

LEMMA TalkCopies ==
  ASSUME TypeOK, TalkOK, CopiesOK, HandlersOK, Talk
  PROVE  CopiesOK'
<1>1. UNCHANGED <<copy, result, lost>>
  BY TalkExecution
<1>2. \A t \in Tasks : RowOK(t, result[t])'
  BY <1>1 DEF CopiesOK, RowOK, Posted, Good, Unsaid
<1>3. ASSUME NEW w \in Workers, handler'[w] = handler[w] PROVE CopyOK(w)'
  <2>1. CopyOK(w)
    BY DEF CopiesOK
  <2>. QED
    BY <1>1, <1>3, <2>1 DEF CopyOK, Copies
<1>4. CASE handler' = handler
  BY <1>2, <1>3, <1>4 DEF CopiesOK
<1>5. ASSUME phase = "ask", NEW saved, NEW late, Take(Current, saved, late)
      PROVE  CopiesOK'
  <2>1. PICK c \in Tasks : c = Current /\ c = Len(rounds) + 1 /\ Len(rounds) \in Nat
    BY <1>5, CurrentType, RoundsType
  <2>2. \A w \in Workers : w[1] = c => handler[w] = "none"
    <3>. SUFFICES ASSUME NEW w \in Workers, w[1] = c, handler[w] # "none" PROVE FALSE
      OBVIOUS
    <3>1. w[1] <= Len(rounds) \/ phase \in {"poll", "done"}
      BY DEF HandlersOK
    <3>. QED
      BY <1>5, <2>1, <3>1
  <2>3. \A w \in Workers : \/ handler'[w] = handler[w]
                           \/ w[1] = c /\ handler'[w] \in {"posted", "create"}
    <3>1. Take(c, saved, late)
      BY <1>5, <2>1
    <3>. QED
      BY <3>1, TakeTypes
  <2>4. ASSUME NEW w \in Workers, w[1] = c, handler'[w] \in {"posted", "create"}
        PROVE  CopyOK(w)'
    <3>1. CopyOK(w) /\ handler[w] = "none"
      BY <2>2, <2>4 DEF CopiesOK
    <3>. QED
      BY <1>1, <2>4, <3>1 DEF CopyOK, Copies
  <2>. QED
    BY <1>2, <1>3, <2>3, <2>4 DEF CopiesOK
<1>. QED
  BY <1>4, <1>5, TalkExecution

LEMMA TalkPosts ==
  ASSUME TypeOK, TypeOK', TalkOK, PostsOK, Talk
  PROVE  PostsOK'
<1>1. \A t \in Tasks : Places(Answer(t))' = Places(Answer(t))
  <2>1. CASE group' = group
    BY <2>1 DEF Places
  <2>2. ASSUME NEW n \in 0..2, NEW line, Grown(n, line), \A t \in Tasks : Answer(t) # line
        PROVE  \A t \in Tasks : Places(Answer(t))' = Places(Answer(t))
    BY <2>2, PlacesGrow
  <2>3. \A t \in Tasks : Answer(t) # Regent(Current) /\ Answer(t) # Relayed(Len(rounds))
    BY AnswersDiffer
  <2>. QED
    BY <2>1, <2>2, <2>3, TalkGroup
<1>2. \A t \in Tasks : Count(Answer(t))' = Count(Answer(t))
  BY <1>1 DEF Count, Places
<1>3. \A t \in Tasks : Ran(t)' = Ran(t) /\ Chatted(t)' = Chatted(t)
  BY TalkExecution DEF Ran, Chatted
<1>. QED
  BY <1>2, <1>3 DEF PostsOK

-----------------------------------------------------------------------------
(* Each step of the discussion preserves the rest of the invariant *)

Rest ==
  /\ TalkOK /\ HandlersOK /\ RegentsOK /\ RoundsOK /\ SpokenOK /\ PromptOK
  /\ EndOK /\ AnswerReadBeforeNext

LEMMA BeginRest ==
  ASSUME IInv, TypeOK', Roleplay \/ Synthesize \/ AutoStart
  PROVE  Rest'
<1>1. PICK m \in {"roleplay", "synthesize"}, n \in Nat, k \in Nat :
        Begin(m, n, k) /\ (m = "synthesize" => n = 1)
  BY BeginCases DEF IInv
<1>2. /\ phase = "start" /\ mode' = m /\ total' = AtMost(n, MaxRounds)
      /\ IF m = "roleplay" THEN NextRound(<<>>) ELSE phase' = "ask" /\ UNCHANGED status
      /\ UNCHANGED <<rounds, errors, prompt, unrelayed, handler, group>>
  BY <1>1 DEF Begin, execution
<1>3. /\ rounds = <<>> /\ Len(rounds) = 0 /\ DOMAIN rounds = {} /\ rounds' = <<>>
      /\ Len(rounds') = 0 /\ DOMAIN rounds' = {} /\ Current' = 1
  BY <1>2 DEF IInv, TalkOK, Current
<1>4. /\ total' \in 0..MaxRounds /\ (m = "synthesize" => total' = 1)
      /\ m = "roleplay" => \/ 0 < total' /\ phase' = "speak"
                           \/ ~(0 < total') /\ phase' = "done" /\ status' = Aggregate(<<>>)
  BY <1>1, <1>2, <1>3, NextTypes, NextRoundFacts DEF AtMost
<1>5. TalkOK'
  BY <1>2, <1>3, <1>4 DEF TalkOK
<1>6. HandlersOK' /\ RegentsOK'
  <2>1. \A w \in Workers : handler[w] = "none"
    BY <1>2, <1>3, WorkerFacts DEF IInv, HandlersOK
  <2>2. \A i \in DOMAIN group : group[i].by # "regent"
    <3>1. \A i \in DOMAIN group : group[i].round \in Tasks
      BY RoundsType DEF IInv, Line
    <3>. QED
      BY <1>2, <1>3, <3>1 DEF IInv, RegentsOK
  <2>. QED
    BY <1>2, <2>1, <2>2 DEF HandlersOK, RegentsOK
<1>7. RoundsOK' /\ AnswerReadBeforeNext'
  BY <1>3 DEF RoundsOK, AnswerReadBeforeNext
<1>8. SpokenOK' /\ PromptOK' /\ EndOK'
  BY <1>2, <1>3, <1>4 DEF SpokenOK, PromptOK, EndOK
<1>. QED
  BY <1>5, <1>6, <1>7, <1>8 DEF Rest

LEMMA SkipRest ==
  ASSUME IInv, TypeOK', AutoSkip
  PROVE  Rest'
<1>1. /\ phase = "start" /\ mode' = "auto_skip" /\ phase' = "done"
      /\ errors' = {<<"skip", 0>>} /\ UNCHANGED <<rounds, total, handler, group>>
  BY DEF AutoSkip, execution
<1>2. /\ Len(rounds) = 0 /\ DOMAIN rounds = {} /\ rounds = <<>>
  BY <1>1 DEF IInv, TalkOK
<1>3. TalkOK' /\ HandlersOK' /\ RegentsOK'
  BY <1>1, <1>2 DEF IInv, TalkOK, HandlersOK, RegentsOK, Current
<1>4. RoundsOK' /\ AnswerReadBeforeNext'
  BY <1>1, <1>2 DEF RoundsOK, AnswerReadBeforeNext
<1>5. SpokenOK' /\ PromptOK' /\ EndOK'
  BY <1>1 DEF SpokenOK, PromptOK, EndOK
<1>. QED
  BY <1>3, <1>4, <1>5 DEF Rest

LEMMA SpeakRest ==
  ASSUME IInv, TypeOK', Speak
  PROVE  Rest'
<1>. PICK c \in Tasks : c = Current
  BY CurrentType DEF IInv, Speak
<1>1. PICK ok \in BOOLEAN :
        /\ TgSend(Regent(c), ok)
        /\ errors' = IF ok THEN errors ELSE errors \union {<<"post", c>>}
  BY DEF Speak
<1>2. /\ phase = "speak" /\ phase' = "ask" /\ mode = "roleplay"
      /\ UNCHANGED <<mode, total, rounds, status, unrelayed, handler>>
      /\ Current' = c
  BY DEF Speak, IInv, TalkOK, execution, Current
<1>3. c = Len(rounds) + 1 /\ Len(rounds) \in Nat
  BY RoundsType DEF IInv, Current
<1>4. PICK n \in 0..2 : Grown(n, Regent(c)) /\ (ok => n >= 1)
  BY <1>1, <1>3, SendGrows, LineTypes DEF IInv
<1>5. /\ \A other : InGroup(other) => InGroup(other)'
      /\ n >= 1 => InGroup(Regent(c))'
      /\ \A i \in DOMAIN group' :
           (i \in DOMAIN group /\ group'[i] = group[i]) \/ group'[i] = Regent(c)
  BY <1>4, GroupStays DEF IInv
<1>6. TalkOK'
  BY <1>2 DEF IInv, TalkOK
<1>7. HandlersOK'
  BY <1>2 DEF IInv, HandlersOK
<1>8. RegentsOK'
  <2>1. Regent(c).round = c
    BY DEF Regent
  <2>. QED
    BY <1>2, <1>3, <1>5, <2>1 DEF IInv, RegentsOK
<1>9. RoundsOK'
  BY <1>2, <1>5 DEF IInv, RoundsOK
<1>10. SpokenOK'
  <2>. SUFFICES ASSUME errors' = {}, NEW r \in 1..total, r <= Len(rounds) \/ r = c
                PROVE  InGroup(Regent(r))'
    BY <1>2 DEF SpokenOK
  <2>1. ok /\ errors = {}
    BY <1>1
  <2>2. CASE r = c
    BY <1>4, <1>5, <2>1, <2>2
  <2>3. CASE r <= Len(rounds)
    BY <1>2, <1>5, <2>1, <2>3 DEF IInv, SpokenOK
  <2>. QED
    BY <2>2, <2>3
<1>11. PromptOK' /\ EndOK'
  BY <1>2 DEF PromptOK, EndOK
<1>12. AnswerReadBeforeNext'
  <2>1. ASSUME NEW r \in DOMAIN rounds PROVE Excused(r)' \/ ReadFirst(r)'
    <3>1. Excused(r) \/ ReadFirst(r)
      BY <1>2, ReadForm DEF IInv
    <3>2. r \in Nat
      BY RoundsType DEF IInv
    <3>. QED
      BY <1>2, <1>4, <3>1, <3>2, ReadStays DEF IInv, Excused
  <2>2. \A r \in DOMAIN rounds' :
          Excused(r)' \/ (phase' = "relay" /\ r = Len(rounds')) \/ ReadFirst(r)'
    BY <1>2, <2>1
  <2>. QED
    BY <2>2, ReadFormNext
<1>. QED
  BY <1>6, <1>7, <1>8, <1>9, <1>10, <1>11, <1>12 DEF Rest

LEMMA AskRest ==
  ASSUME IInv, TypeOK', Ask \/ AskFails
  PROVE  Rest'
<1>. PICK c \in Tasks : c = Current
  BY CurrentType DEF IInv, Ask, AskFails
<1>1. /\ phase = "ask" /\ UNCHANGED <<mode, total, window, rounds, unrelayed, group>>
      /\ Current' = c /\ c = Len(rounds) + 1
      /\ \E saved, late : Take(c, saved, late)
      /\ \/ /\ phase' = "poll" /\ UNCHANGED errors
            /\ mode = "roleplay" => prompt' = Clip(History(rounds), window)
         \/ phase' = "done" /\ errors' # {}
  BY DEF Ask, AskFails, Prompted, Current
<1>2. TalkOK'
  BY <1>1 DEF IInv, TalkOK
<1>3. HandlersOK'
  BY <1>1, TakeTypes DEF IInv, HandlersOK
<1>4. RegentsOK' /\ RoundsOK'
  BY <1>1 DEF IInv, RegentsOK, RoundsOK, InGroup
<1>5. SpokenOK' /\ PromptOK' /\ EndOK'
  BY <1>1 DEF IInv, SpokenOK, PromptOK, EndOK, InGroup
<1>6. AnswerReadBeforeNext'
  <2>1. \A r \in DOMAIN rounds : Excused(r)' \/ ReadFirst(r)'
    BY <1>1, ReadForm DEF IInv, Excused, ReadFirst, HasRead
  <2>. QED
    BY <1>1, <2>1, ReadFormNext
<1>. QED
  BY <1>2, <1>3, <1>4, <1>5, <1>6 DEF Rest

LEMMA PollRest ==
  ASSUME IInv, TypeOK', Poll
  PROVE  Rest'
<1>. PICK c \in Tasks : c = Current
  BY CurrentType DEF IInv, Poll
<1>1. PICK x \in Polled : EndSynthesize(x) \/ EndRound(x)
  BY DEF Poll
<1>2. /\ phase = "poll" /\ mode \in {"roleplay", "synthesize"}
      /\ UNCHANGED <<mode, total, window, unrelayed, handler, copy, group>>
  BY DEF Poll, IInv, TalkOK, execution
<1>3. /\ x \in Outcome /\ x.status \in {"completed", "failed"}
      /\ Good(x) => InGroup(Answer(c))
  BY <1>2, PolledFacts, InGroupPosted DEF IInv
<1>4. /\ Len(rounds) \in Nat /\ c = Len(rounds) + 1 /\ rounds \in Seq(Outcome)
      /\ DOMAIN rounds = 1..Len(rounds)
      /\ c \in 1..total
  BY <1>2, RoundsType, CurrentType DEF IInv, TypeOK
<1>5. rounds' = Append(rounds, x)
  BY <1>1 DEF EndSynthesize, EndRound
<1>6. /\ Len(rounds') = c /\ DOMAIN rounds' = 1..c /\ rounds'[c] = x
      /\ \A r \in 1..Len(rounds) : rounds'[r] = rounds[r]
      /\ rounds' # <<>>
  BY <1>3, <1>4, <1>5, AppendProperties, NextTypes
<1>7. ASSUME mode = "synthesize"
      PROVE  TalkOK' /\ SpokenOK' /\ PromptOK' /\ EndOK' /\ AnswerReadBeforeNext'
  <2>1. /\ EndSynthesize(x) /\ phase' = "done" /\ rounds = <<>>
        /\ errors' = {} => x.status # "failed"
    BY <1>1, <1>2, <1>7 DEF EndRound, EndSynthesize, IInv, TalkOK
  <2>2. c = 1 /\ rounds'[1].status = x.status
    BY <1>4, <1>6, <2>1
  <2>3. TalkOK' /\ SpokenOK' /\ PromptOK' /\ EndOK'
    BY <1>2, <1>3, <1>6, <1>7, <2>1, <2>2 DEF TalkOK, SpokenOK, PromptOK, EndOK
  <2>4. AnswerReadBeforeNext'
    BY <1>2, <1>7 DEF AnswerReadBeforeNext
  <2>. QED
    BY <2>3, <2>4
<1>8. ASSUME mode = "roleplay"
      PROVE  TalkOK' /\ SpokenOK' /\ PromptOK' /\ EndOK' /\ AnswerReadBeforeNext'
  <2>1. /\ EndRound(x) /\ errors' = errors
        /\ \/ x.semantic = "degraded" /\ x.text # "empty" /\ phase' = "relay"
           \/ /\ ~(x.semantic = "degraded" /\ x.text # "empty")
              /\ \/ c < total /\ phase' = "speak"
                 \/ c = total /\ phase' = "done" /\ status' = Aggregate(rounds')
    <3>1. EndRound(x)
      BY <1>1, <1>8 DEF EndSynthesize
    <3>2. NextRound(rounds') =>
            \/ c < total /\ phase' = "speak"
            \/ c = total /\ phase' = "done" /\ status' = Aggregate(rounds')
      BY <1>2, <1>4, <1>6, NextTypes, RoundsType DEF NextRound, IInv
    <3>. QED
      BY <3>1, <3>2 DEF EndRound
  <2>2. TalkOK' /\ PromptOK' /\ EndOK'
    BY <1>2, <1>6, <1>8, <2>1, NextTypes DEF TalkOK, PromptOK, EndOK, IInv
  <2>3. SpokenOK'
    <3>. SUFFICES ASSUME errors = {}, NEW r \in 1..total, r <= c
                  PROVE  InGroup(Regent(r))'
      BY <1>2, <1>6, <2>1 DEF SpokenOK
    <3>1. InGroup(Regent(r))
      BY <1>2, <1>4, <1>8 DEF IInv, SpokenOK
    <3>. QED
      BY <1>2, <3>1 DEF InGroup
  <2>4. AnswerReadBeforeNext'
    <3>1. ASSUME NEW r \in 1..Len(rounds) PROVE Excused(r)' \/ ReadFirst(r)'
      <4>1. Excused(r) \/ ReadFirst(r)
        BY <1>2, <1>4, ReadForm DEF IInv
      <4>2. ReadFirst(r) => ReadFirst(r)'
        BY <1>2 DEF ReadFirst, HasRead
      <4>3. Excused(r) => Excused(r)'
        BY <1>2, <1>6 DEF Excused
      <4>. QED
        BY <4>1, <4>2, <4>3
    <3>2. Excused(c)' \/ phase' = "relay" \/ ReadFirst(c)'
      <4>1. CASE Good(x)
        <5>1. ~InGroup(Regent(c + 1))
          BY <1>2, <1>4, NotSpokenYet DEF IInv
        <5>2. ReadFirst(c)
          BY <1>3, <4>1, <5>1, ReadAtOnce
        <5>. QED
          BY <1>2, <5>2 DEF ReadFirst, HasRead
      <4>2. CASE x.text = "empty" \/ x.semantic \notin {"succeeded", "degraded"}
        BY <1>6, <4>2 DEF Excused
      <4>3. CASE x.semantic = "degraded" /\ x.text # "empty"
        BY <2>1, <4>3
      <4>4. CASE Unsaid(x)
        BY <1>6, <4>4 DEF Excused
      <4>. QED
        BY <4>1, <4>2, <4>3, <4>4 DEF Good
    <3>3. ASSUME NEW r \in DOMAIN rounds'
          PROVE  Excused(r)' \/ (phase' = "relay" /\ r = Len(rounds')) \/ ReadFirst(r)'
      BY <1>4, <1>6, <3>1, <3>2
    <3>. QED
      BY <3>3, ReadFormNext
  <2>. QED
    BY <2>2, <2>3, <2>4
<1>9. HandlersOK' /\ RegentsOK'
  <2>1. HandlersOK'
    <3>. SUFFICES ASSUME NEW w \in Workers, handler[w] # "none" PROVE w[1] <= c
      BY <1>2, <1>6 DEF HandlersOK
    <3>1. w[1] <= Len(rounds) \/ w[1] = c
      BY DEF IInv, HandlersOK
    <3>2. w[1] \in Nat
      BY WorkerFacts
    <3>. QED
      BY <1>4, <3>1, <3>2
  <2>2. \A i \in DOMAIN group : group[i].round \in Nat
    BY RoundsType DEF IInv, Line
  <2>3. RegentsOK'
    BY <1>2, <1>4, <1>6, <2>2 DEF IInv, RegentsOK
  <2>. QED
    BY <2>1, <2>3
<1>10. RoundsOK'
  <2>1. ASSUME NEW r \in 1..c, Good(rounds'[r]) PROVE InGroup(Answer(r))
    <3>1. CASE r = c
      BY <1>3, <1>6, <2>1, <3>1
    <3>2. CASE r \in 1..Len(rounds)
      BY <1>4, <1>6, <2>1, <3>2 DEF IInv, RoundsOK
    <3>. QED
      BY <1>4, <3>1, <3>2
  <2>. QED
    BY <1>2, <1>6, <2>1 DEF RoundsOK, InGroup
<1>. QED
  BY <1>2, <1>7, <1>8, <1>9, <1>10 DEF Rest

LEMMA RelayRest ==
  ASSUME IInv, TypeOK', Relay
  PROVE  Rest'
<1>. PICK c \in Tasks : c = Len(rounds)
  BY CurrentType DEF IInv, Relay
<1>1. PICK ok \in BOOLEAN :
        /\ TgSend(Relayed(c), ok)
        /\ unrelayed' = IF ok THEN unrelayed ELSE unrelayed \union {c}
  BY DEF Relay
<1>2. /\ phase = "relay" /\ mode = "roleplay" /\ NextRound(rounds)
      /\ UNCHANGED <<mode, total, rounds, errors, handler>>
  BY DEF Relay, IInv, TalkOK, execution
<1>3. /\ Len(rounds') = c /\ DOMAIN rounds = 1..c /\ DOMAIN rounds' = 1..c
      /\ Current' = Current /\ Current = c + 1 /\ c <= total
      /\ total \in Nat
  BY <1>2, RoundsType DEF IInv, Current
<1>4. \/ c < total /\ phase' = "speak"
      \/ c = total /\ phase' = "done" /\ status' = Aggregate(rounds')
  BY <1>2, <1>3 DEF NextRound
<1>5. PICK n \in 0..2 : Grown(n, Relayed(c)) /\ (ok => n >= 1)
  BY <1>1, SendGrows, LineTypes DEF IInv
<1>6. /\ \A other : InGroup(other) => InGroup(other)'
      /\ n >= 1 => InGroup(Relayed(c))'
      /\ \A i \in DOMAIN group' :
           (i \in DOMAIN group /\ group'[i] = group[i]) \/ group'[i] = Relayed(c)
  BY <1>5, GroupStays DEF IInv
<1>7. TalkOK' /\ PromptOK' /\ EndOK'
  BY <1>2, <1>3, <1>4 DEF TalkOK, PromptOK, EndOK, IInv
<1>8. HandlersOK' /\ RegentsOK'
  <2>1. Relayed(c).by # "regent"
    BY DEF Relayed
  <2>. QED
    BY <1>2, <1>3, <1>6, <2>1 DEF IInv, HandlersOK, RegentsOK
<1>9. RoundsOK' /\ SpokenOK'
  BY <1>2, <1>3, <1>4, <1>6 DEF IInv, RoundsOK, SpokenOK
<1>10. AnswerReadBeforeNext'
  <2>1. ASSUME NEW r \in 1..c, r # c PROVE Excused(r)' \/ ReadFirst(r)'
    <3>1. Excused(r) \/ ReadFirst(r)
      BY <1>3, <2>1, ReadForm DEF IInv
    <3>2. Excused(r) => Excused(r)'
      BY <1>1, <1>2 DEF Excused
    <3>. QED
      BY <1>5, <3>1, <3>2, ReadStays DEF IInv
  <2>2. Excused(c)' \/ ReadFirst(c)'
    <3>1. CASE ~ok
      BY <1>1, <3>1 DEF Excused
    <3>2. CASE ok
      <4>1. ~InGroup(Regent(c + 1))
        BY <1>2, <1>3, NotSpokenYet DEF IInv
      <4>2. ~InGroup(Regent(c + 1))'
        <5>1. \A i \in DOMAIN group' : group'[i] # Regent(c + 1)
          BY <1>6, <4>1, AnswersDiffer DEF InGroup
        <5>. QED
          BY <5>1 DEF InGroup
      <4>. QED
        BY <1>5, <1>6, <3>2, <4>2 DEF ReadFirst, HasRead, InGroup
    <3>. QED
      BY <3>1, <3>2
  <2>. QED
    BY <1>2, <1>3, <2>1, <2>2, ReadFormNext
<1>. QED
  BY <1>7, <1>8, <1>9, <1>10 DEF Rest

(* A worker works on a task that was taken, and the agent answers it. *)
LEMMA WorkHandlers ==
  ASSUME TypeOK, NEW w \in Workers, Work(w) \/ Agent(w), NEW u \in Workers, handler'[u] # "none"
  PROVE  handler[u] # "none"
<1>1. u # w => handler'[u] = handler[u]
  BY WorkTypes
<1>2. Work(w) => handler[w] # "none"
  BY DEF Work, TakeLate, Create, CreateRun, CreateRunLost, CreateRunRefused, PollRun, ChatEnds, ChatTimeout
<1>3. Agent(w) => handler' = handler
  BY DEF Agent, RunEnds, Post
<1>. QED
  BY <1>1, <1>2, <1>3

LEMMA WorkGroup ==
  ASSUME TypeOK, CopiesOK, NEW w \in Workers, Work(w) \/ Agent(w)
  PROVE  \E n \in 0..2 : Grown(n, Answer(w[1]))
<1>1. CASE Work(w) \/ RunEnds(w)
  <2>1. Grown(0, Answer(w[1]))
    BY <1>1, PostedSame, RoundsType DEF Grown
  <2>. QED
    BY <2>1
<1>2. CASE \E c \in Copies : Post(w, c)
  BY <1>2, PostGrows
<1>. QED
  BY <1>1, <1>2 DEF Agent

LEMMA WorkRest ==
  ASSUME IInv, TypeOK', NEW w \in Workers, Work(w) \/ Agent(w), UNCHANGED talk
  PROVE  Rest'
<1>1. /\ UNCHANGED <<mode, total, window, phase, rounds, errors, status, prompt, unrelayed>>
      /\ Current' = Current
  BY DEF talk, Current
<1>2. PICK n \in 0..2 : Grown(n, Answer(w[1]))
  BY WorkGroup DEF IInv
<1>3. /\ \A other : InGroup(other) => InGroup(other)'
      /\ \A i \in DOMAIN group' :
           (i \in DOMAIN group /\ group'[i] = group[i]) \/ group'[i] = Answer(w[1])
  BY <1>2, GroupStays DEF IInv
<1>4. TalkOK' /\ PromptOK' /\ EndOK'
  BY <1>1 DEF IInv, TalkOK, PromptOK, EndOK
<1>5. HandlersOK'
  BY <1>1, WorkHandlers DEF IInv, HandlersOK
<1>6. RegentsOK'
  <2>1. Answer(w[1]).by # "regent"
    BY DEF Answer
  <2>. QED
    BY <1>1, <1>3, <2>1 DEF IInv, RegentsOK
<1>7. RoundsOK' /\ SpokenOK'
  BY <1>1, <1>3 DEF IInv, RoundsOK, SpokenOK
<1>8. AnswerReadBeforeNext'
  <2>1. ASSUME NEW r \in DOMAIN rounds
        PROVE  Excused(r)' \/ (phase = "relay" /\ r = Len(rounds)) \/ ReadFirst(r)'
    <3>1. Excused(r) \/ (phase = "relay" /\ r = Len(rounds)) \/ ReadFirst(r)
      BY ReadForm DEF IInv
    <3>2. Excused(r) => Excused(r)'
      BY <1>1 DEF Excused
    <3>3. r \in Nat
      BY RoundsType DEF IInv
    <3>. QED
      BY <1>2, <3>1, <3>2, <3>3, ReadStays DEF IInv
  <2>. QED
    BY <1>1, <2>1, ReadFormNext
<1>. QED
  BY <1>4, <1>5, <1>6, <1>7, <1>8 DEF Rest

-----------------------------------------------------------------------------
(* The invariant is inductive *)

LEMMA InitIInv == Init => IInv
<1>. SUFFICES ASSUME Init PROVE IInv
  OBVIOUS
<1>1. TypeOK
  BY InitTypes
<1>2. /\ handler = [w \in Workers |-> "none"] /\ copy = [w \in Workers |-> [c \in Copies |-> None]]
      /\ result = [t \in Tasks |-> NoResult]
      /\ group = <<>> /\ rounds = <<>> /\ phase = "start" /\ mode = "none"
      /\ DOMAIN group = {} /\ DOMAIN rounds = {}
  BY DEF Init, ExecutionInit
<1>3. \A w \in Workers, c \in Copies : ~copy[w][c].posted /\ copy[w][c].at = "none"
  BY <1>2 DEF None
<1>4. CopiesOK
  <2>1. \A w \in Workers : CopyOK(w)
    BY <1>2, <1>3 DEF CopyOK, Copies
  <2>2. \A t \in Tasks : RowOK(t, result[t])
    BY <1>2 DEF RowOK, Good, NoResult
  <2>. QED
    BY <2>1, <2>2 DEF CopiesOK
<1>5. PostsOK
  <2>1. \A t \in Tasks : Places(Answer(t)) = {}
    BY <1>2 DEF Places
  <2>2. \A t \in Tasks : Count(Answer(t)) = 0
    BY <1>1, <2>1, PlacesFinite, FS_EmptySet
  <2>3. \A t \in Tasks : Ran(t) = {} /\ Chatted(t) = {}
    BY <1>3, WorkerFacts DEF Ran, Chatted, Copies
  <2>4. Cardinality({}) = 0
    BY FS_EmptySet
  <2>5. ASSUME NEW t \in Tasks
        PROVE  Count(Answer(t)) = Cardinality(Ran(t)) + Cardinality(Chatted(t))
    <3>1. Cardinality(Ran(t)) = 0 /\ Cardinality(Chatted(t)) = 0 /\ Count(Answer(t)) = 0
      BY <2>2, <2>3, <2>4
    <3>. QED
      BY ONLY <3>1
  <2>. QED
    BY <2>5 DEF PostsOK
<1>6. TalkOK /\ HandlersOK /\ RegentsOK /\ RoundsOK /\ SpokenOK /\ PromptOK /\ EndOK
  BY <1>2 DEF TalkOK, HandlersOK, RegentsOK, RoundsOK, SpokenOK, PromptOK, EndOK
<1>7. AnswerReadBeforeNext
  BY <1>2 DEF AnswerReadBeforeNext
<1>. QED
  BY <1>1, <1>4, <1>5, <1>6, <1>7 DEF IInv

LEMMA NextIInv == IInv /\ [Next]_vars => IInv'
<1>. SUFFICES ASSUME IInv, [Next]_vars PROVE IInv'
  OBVIOUS
<1>1. CASE Talk
  <2>1. TypeOK'
    BY <1>1, TalkTypeStep DEF IInv
  <2>2. CopiesOK' /\ PostsOK'
    BY <1>1, <2>1, TalkCopies, TalkPosts DEF IInv
  <2>3. Rest'
    BY <1>1, <2>1, BeginRest, SkipRest, SpeakRest, AskRest, PollRest, RelayRest DEF Talk
  <2>. QED
    BY <2>1, <2>2, <2>3 DEF IInv, Rest
<1>2. ASSUME NEW w \in Workers, Work(w) \/ Agent(w), UNCHANGED talk
      PROVE  IInv'
  <2>1. TypeOK'
    BY <1>2, WorkTypeStep DEF IInv
  <2>2. CopiesOK' /\ PostsOK'
    BY <1>2, <2>1, CopiesStep, PostsStep DEF IInv
  <2>3. Rest'
    BY <1>2, <2>1, WorkRest
  <2>. QED
    BY <2>1, <2>2, <2>3 DEF IInv, Rest
<1>3. CASE UNCHANGED vars
  <2>1. /\ UNCHANGED <<message, mode, total, window, phase, rounds, errors, status, prompt,
                      unrelayed, handler, copy, result, lost, group, faults>>
        /\ Current' = Current
    BY <1>3 DEF vars, talk, execution, Current
  <2>2. TypeOK'
    BY <2>1 DEF IInv, TypeOK
  <2>3. CopiesOK' /\ PostsOK'
    BY <2>1 DEF IInv, CopiesOK, CopyOK, RowOK, Posted, Good, Unsaid, PostsOK, Ran, Chatted, Count
  <2>4. TalkOK' /\ HandlersOK' /\ RegentsOK' /\ RoundsOK' /\ SpokenOK' /\ PromptOK' /\ EndOK'
    BY <2>1 DEF IInv, TalkOK, HandlersOK, RegentsOK, RoundsOK, InGroup, SpokenOK, PromptOK, EndOK
  <2>5. AnswerReadBeforeNext'
    BY <2>1 DEF IInv, AnswerReadBeforeNext
  <2>. QED
    BY <2>2, <2>3, <2>4, <2>5 DEF IInv
<1>. QED
  BY <1>1, <1>2, <1>3 DEF Next

LEMMA Invariance == Spec => []IInv
BY InitIInv, NextIInv, PTL DEF Spec

-----------------------------------------------------------------------------
(* The variables have their types, for any number of rounds and failures.  *)
THEOREM TypeCorrect == Spec => []TypeOK
BY Invariance, PTL DEF IInv

(* A worker carries its prompt out once, unless the answer to its create   *)
(* call was lost, and the group gets no more answers than POSTs of the     *)
(* prompt were accepted and create calls lost, whatever the discussion     *)
(* does meanwhile.                                                         *)
THEOREM OnceCarriedOut == Spec => []CarriedOutOnce
<1>1. IInv => CarriedOutOnce
  <2>. SUFFICES ASSUME IInv PROVE CarriedOutOnce
    OBVIOUS
  <2>1. \A w \in Workers : CopyOK(w)
    BY DEF IInv, CopiesOK
  <2>2. ASSUME NEW t \in Tasks, NEW accepted, NEW twice,
               accepted = {n \in 1..Posts : handler[<<t, n>>] \notin {"none", "posted"}},
               twice = {n \in 1..Posts : <<t, n>> \in lost}
        PROVE  Count(Answer(t)) <= Cardinality(accepted) + Cardinality(twice)
    <3>1. /\ IsFiniteSet(Ran(t)) /\ IsFiniteSet(Chatted(t))
          /\ Cardinality(Ran(t)) \in Nat /\ Cardinality(Chatted(t)) \in Nat
          /\ Count(Answer(t)) = Cardinality(Ran(t)) + Cardinality(Chatted(t))
      BY PostersFinite DEF IInv, PostsOK
    <3>2. IsFiniteSet(accepted) /\ IsFiniteSet(twice)
      <4>1. IsFiniteSet(1..Posts)
        BY FS_Interval
      <4>2. accepted \subseteq 1..Posts /\ twice \subseteq 1..Posts
        BY <2>2
      <4>. QED
        BY <4>1, <4>2, FS_Subset
    <3>3. Cardinality(Ran(t) \union Chatted(t)) =
            Cardinality(Ran(t)) + Cardinality(Chatted(t)) - Cardinality(Ran(t) \cap Chatted(t))
      BY <3>1, FS_Union
    <3>4. Ran(t) \union Chatted(t) \subseteq accepted
      BY <2>1, <2>2, WorkerFacts DEF Ran, Chatted, CopyOK, Copies
    <3>5. Ran(t) \cap Chatted(t) \subseteq twice
      BY <2>1, <2>2, WorkerFacts DEF Ran, Chatted, CopyOK, Copies
    <3>6. /\ Cardinality(Ran(t) \union Chatted(t)) <= Cardinality(accepted)
          /\ Cardinality(Ran(t) \cap Chatted(t)) <= Cardinality(twice)
          /\ Cardinality(accepted) \in Nat /\ Cardinality(twice) \in Nat
      BY <3>2, <3>4, <3>5, FS_Subset, FS_CardinalityType
    <3>7. IsFiniteSet(Ran(t) \cap Chatted(t)) /\ Cardinality(Ran(t) \cap Chatted(t)) \in Nat
      BY <3>1, FS_Intersection, FS_CardinalityType
    <3>. QED
      BY <3>1, <3>3, <3>6, <3>7
  <2>3. \A w \in Workers :
          copy[w]["run"].at # "none" /\ copy[w]["chat"].at # "none" => w \in lost
    BY <2>1 DEF CopyOK
  <2>. QED
    BY <2>2, <2>3 DEF CarriedOutOnce
<1>. QED
  BY <1>1, Invariance, PTL

(* The group has read the recorded answer before the regent goes on.       *)
THEOREM AnswersAreRead == Spec => []AnswerReadBeforeNext
BY Invariance, PTL DEF IInv

(* Exit code 0 means that the regent's messages are in the group, that     *)
(* every round was played and one succeeded, or that default completed.    *)
THEOREM ExitIsTrue == Spec => []ExitTellsTruth
<1>1. IInv => ExitTellsTruth
  <2>. SUFFICES ASSUME IInv, phase = "done", ExitCode = 0
                PROVE  /\ mode \in {"roleplay", "synthesize"}
                       /\ mode = "roleplay" =>
                            /\ Len(rounds) = total
                            /\ \E r \in DOMAIN rounds : rounds[r].semantic = "succeeded"
                            /\ \A r \in 1..total : Count(Regent(r)) >= 1
                       /\ mode = "synthesize" => rounds[1].status = "completed"
    BY DEF ExitTellsTruth
  <2>1. errors = {} /\ status # "failed"
    BY DEF ExitCode
  <2>2. mode \in {"roleplay", "synthesize"} /\ (mode = "synthesize" => rounds[1].status = "completed")
    BY <2>1 DEF IInv, TypeOK, TalkOK, EndOK
  <2>3. ASSUME mode = "roleplay"
        PROVE  /\ Len(rounds) = total
               /\ \E r \in DOMAIN rounds : rounds[r].semantic = "succeeded"
    BY <2>1, <2>3 DEF IInv, EndOK, Aggregate
  <2>4. ASSUME mode = "roleplay", NEW r \in 1..total PROVE Count(Regent(r)) >= 1
    <3>1. InGroup(Regent(r))
      <4>1. r <= Len(rounds)
        BY <2>3, <2>4
      <4>. QED
        BY <2>1, <2>4, <4>1 DEF IInv, SpokenOK
    <3>2. Places(Regent(r)) # {}
      BY <3>1 DEF Places, InGroup
    <3>3. Count(Regent(r)) # 0 /\ Count(Regent(r)) \in Nat
      BY <3>2, PlacesFinite, FS_EmptySet DEF IInv
    <3>. QED
      BY <3>3
  <2>. QED
    BY <2>2, <2>3, <2>4
<1>. QED
  BY <1>1, Invariance, PTL

(* A prompt ends with the last answer and the message it answered, and has *)
(* every answer in the group that there is room for.                       *)
THEOREM PromptsAreUpToDate == Spec => []PromptUpToDate
<1>. DEFINE told == {prompt[n] : n \in DOMAIN prompt}
            oldest == IF window = 0 THEN 1 ELSE Current - window \div 2
<1>1. IInv => PromptUpToDate
  <2>. SUFFICES ASSUME IInv, phase = "poll", mode = "roleplay"
                PROVE  /\ Len(prompt) <= window \/ window = 0
                       /\ window # 1 /\ rounds # <<>> =>
                            \E n \in DOMAIN prompt :
                              /\ n = Len(prompt) - 1
                              /\ prompt[n] = DefaultLine(rounds, Len(rounds))
                              /\ prompt[n + 1] = Regent(Len(rounds))
                       /\ \A i \in DOMAIN group :
                            group[i].by = "default" /\ group[i].round >= oldest
                              /\ group[i] \notin told =>
                              group[i].round = Current \/ rounds[group[i].round].text = "empty"
    BY DEF PromptUpToDate
  <2>. DEFINE h == History(rounds)
              L == Len(rounds)
              p == Len(prompt)
  <2>1. /\ L \in Nat /\ rounds \in Seq(Outcome) /\ L <= MaxRounds /\ window \in Nat
        /\ Current = L + 1 /\ MaxRounds \in Nat
    BY RoundsType DEF IInv, TypeOK, Current
  <2>2. /\ h \in Seq(Line) /\ Len(h) = 2 * L
        /\ \A r \in 1..L : h[2 * r - 1] = DefaultLine(rounds, r) /\ h[2 * r] = Regent(r)
    BY <2>1, HistoryFacts
  <2>3. prompt = Clip(h, window)
    BY DEF IInv, PromptOK
  <2>. HIDE DEF h
  <2>4. /\ prompt \in Seq(Line)
        /\ p = IF window = 0 \/ window >= 2 * L THEN 2 * L ELSE window
        /\ \A i \in 1..p : prompt[i] = h[2 * L - p + i]
    <3>1. /\ Clip(h, window) \in Seq(Line)
          /\ Len(Clip(h, window)) = IF window = 0 \/ window >= Len(h) THEN Len(h) ELSE window
          /\ \A i \in 1..Len(Clip(h, window)) :
               Clip(h, window)[i] = h[Len(h) - Len(Clip(h, window)) + i]
      BY <2>1, <2>2, ClipFacts
    <3>. QED
      BY <2>2, <2>3, <3>1
  <2>5. p \in Nat /\ DOMAIN prompt = 1..p
    BY <2>4, LenProperties
  <2>6. p <= window \/ window = 0
    BY <2>1, <2>4
  <2>7. ASSUME window # 1, rounds # <<>>
        PROVE  \E n \in DOMAIN prompt : /\ n = p - 1
                                        /\ prompt[n] = DefaultLine(rounds, L)
                                        /\ prompt[n + 1] = Regent(L)
    <3>1. L >= 1
      BY <2>1, <2>7, EmptySeq
    <3>2. p - 1 \in 1..p /\ p \in 1..p
      BY <2>1, <2>4, <2>7, <3>1
    <3>3. 2 * L - p + (p - 1) = 2 * L - 1 /\ 2 * L - p + p = 2 * L /\ (p - 1) + 1 = p
      BY <2>1, <2>5
    <3>4. prompt[p - 1] = h[2 * L - 1] /\ prompt[p] = h[2 * L]
      BY <2>4, <3>2, <3>3
    <3>5. h[2 * L - 1] = DefaultLine(rounds, L) /\ h[2 * L] = Regent(L)
      BY <2>1, <2>2, <3>1
    <3>. QED
      BY <2>5, <3>2, <3>3, <3>4, <3>5
  <2>8. ASSUME NEW i \in DOMAIN group, group[i].by = "default",
               group[i].round >= oldest, group[i] \notin told
        PROVE  group[i].round = Current \/ rounds[group[i].round].text = "empty"
    <3>1. PICK r \in Tasks : r = group[i].round /\ group[i] = Answer(r)
      BY <2>8, RoundsType DEF IInv, Line, Answer
    <3>2. PICK w \in Workers, d \in Copies : w[1] = r /\ copy[w][d].posted
      BY <3>1, InGroupPosted DEF IInv, InGroup, Posted
    <3>3. handler[w] # "none"
      BY <3>2 DEF IInv, CopiesOK, CopyOK, Copies
    <3>4. r <= L \/ r = Current
      BY <3>2, <3>3 DEF IInv, HandlersOK
    <3>5. ASSUME r <= L, rounds[r].text # "empty" PROVE FALSE
      <4>1. r \in 1..L
        BY <2>1, <3>5
      <4>2. h[2 * r - 1] = Answer(r)
        BY <2>1, <2>2, <3>5, <4>1, DefaultLineFacts
      <4>. DEFINE k == (2 * r - 1) - (2 * L - p)
      <4>3. k \in 1..p /\ 2 * L - p + k = 2 * r - 1
        <5>1. CASE window = 0 \/ window >= 2 * L
          <6>1. p = 2 * L
            BY <2>4, <5>1
          <6>. QED
            BY ONLY <2>1, <4>1, <6>1
        <5>2. CASE ~(window = 0 \/ window >= 2 * L)
          <6>1. r >= L + 1 - window \div 2
            BY <2>1, <2>8, <3>1, <5>2
          <6>2. 2 * (window \div 2) <= window
            BY <2>1
          <6>3. p = window
            BY <2>4, <5>2
          <6>4. /\ L \in Nat /\ r \in 1..L /\ window \in Nat /\ window \div 2 \in Nat
                /\ ~(window = 0 \/ window >= 2 * L)
            BY <2>1, <4>1, <5>2
          <6>. QED
            BY ONLY <6>1, <6>2, <6>3, <6>4
        <5>. QED
          BY <5>1, <5>2
      <4>4. prompt[k] = Answer(r)
        BY <2>4, <4>2, <4>3
      <4>. QED
        BY <2>5, <2>8, <3>1, <4>3, <4>4
    <3>. QED
      BY <3>1, <3>4, <3>5
  <2>. QED
    BY <2>6, <2>7, <2>8
<1>. QED
  BY <1>1, Invariance, PTL-----------------------------------------------------------------------------
(* The decision on a message (AutoDiscuss): what the scores come to, and   *)
(* that a message is worth a discussion exactly if something in it hits.   *)

LEMMA GroupScoreOf ==
  ASSUME NEW hit, IsFiniteSet(hit)
  PROVE  /\ GroupScore(hit) \in Nat
         /\ hit = {} => GroupScore(hit) = 0
         /\ hit # {} => GroupScore(hit) >= 3
<1>. DEFINE strong == hit \cap StrongGroups
            weak   == hit \ StrongGroups
<1>1. IsFiniteSet(strong) /\ IsFiniteSet(weak)
  BY FS_Subset
<1>2. /\ Cardinality(strong) \in Nat /\ Cardinality(weak) \in Nat
      /\ strong = {} <=> Cardinality(strong) = 0
      /\ weak = {} <=> Cardinality(weak) = 0
  BY <1>1, FS_CardinalityType, FS_EmptySet
<1>3. hit = {} <=> strong = {} /\ weak = {}
  OBVIOUS
<1>4. GroupScore(hit) = 4 * Cardinality(strong) + 3 * Cardinality(weak)
  BY DEF GroupScore
<1>. HIDE DEF strong, weak
<1>. QED
  BY <1>2, <1>3, <1>4

LEMMA HitsFinite ==
  ASSUME NEW m
  PROVE  IsFiniteSet(RoleplayHits(m)) /\ IsFiniteSet(SynthesizeHits(m)) /\ IsFiniteSet(Questions(m))
<1>1. /\ IsFiniteSet({"opposition", "ought_to", "tradeoff", "change_proposal", "alternatives"})
      /\ IsFiniteSet({"analysis", "output_request"})
      /\ IsFiniteSet({"why", "root of it", "what is the cause"})
      /\ IsFiniteSet({})
  <2>1. \A a, b, c, d, e : IsFiniteSet({a, b, c, d, e})
    <3>. TAKE a, b, c, d, e
    <3>1. IsFiniteSet({a}) /\ IsFiniteSet({a} \union {b})
      BY FS_Singleton, FS_AddElement
    <3>2. IsFiniteSet(({a} \union {b}) \union {c})
      BY <3>1, FS_AddElement
    <3>3. IsFiniteSet((({a} \union {b}) \union {c}) \union {d})
      BY <3>2, FS_AddElement
    <3>4. IsFiniteSet(((({a} \union {b}) \union {c}) \union {d}) \union {e})
      BY <3>3, FS_AddElement
    <3>5. {a, b, c, d, e} = ((({a} \union {b}) \union {c}) \union {d}) \union {e}
      OBVIOUS
    <3>. QED
      BY <3>4, <3>5
  <2>2. IsFiniteSet({"opposition", "ought_to", "tradeoff", "change_proposal", "alternatives"})
    BY <2>1, Zenon
  <2>3. \A a, b, c : IsFiniteSet({a, b, c}) /\ IsFiniteSet({a, b})
    <3>. TAKE a, b, c
    <3>1. IsFiniteSet({a, b, c, c, c}) /\ IsFiniteSet({a, b, b, b, b})
      BY <2>1, Zenon
    <3>2. {a, b, c, c, c} = {a, b, c} /\ {a, b, b, b, b} = {a, b}
      OBVIOUS
    <3>. QED
      BY <3>1, <3>2
  <2>4. IsFiniteSet({"analysis", "output_request"})
    BY <2>3, Zenon
  <2>5. IsFiniteSet({"why", "root of it", "what is the cause"})
    BY <2>3, Zenon
  <2>. QED
    BY <2>2, <2>4, <2>5, FS_EmptySet
<1>2. RoleplayHits(m) \subseteq {"opposition", "ought_to", "tradeoff", "change_proposal", "alternatives"}
  BY DEF RoleplayHits, RoleplayPatterns
<1>3. SynthesizeHits(m) \subseteq {"analysis", "output_request"}
  BY DEF SynthesizeHits
<1>4. Questions(m) \subseteq {"why", "root of it", "what is the cause"}
  BY DEF Questions, SynthesizePatterns
<1>. QED
  BY <1>1, <1>2, <1>3, <1>4, FS_Subset

LEMMA ScoresOf ==
  ASSUME NEW m
  PROVE  /\ ScoreRoleplay(m) \in 0..10 /\ ScoreSynthesize(m) \in 0..10
         /\ ScoreRoleplay(m) + ScoreSynthesize(m) < 3
              <=> RoleplayHits(m) = {} /\ SynthesizeHits(m) = {} /\ Questions(m) = {}
<1>1. /\ GroupScore(RoleplayHits(m)) \in Nat
      /\ RoleplayHits(m) = {} => GroupScore(RoleplayHits(m)) = 0
      /\ RoleplayHits(m) # {} => GroupScore(RoleplayHits(m)) >= 3
  BY HitsFinite, GroupScoreOf
<1>2. /\ GroupScore(SynthesizeHits(m)) \in Nat
      /\ SynthesizeHits(m) = {} => GroupScore(SynthesizeHits(m)) = 0
      /\ SynthesizeHits(m) # {} => GroupScore(SynthesizeHits(m)) >= 3
  BY HitsFinite, GroupScoreOf
<1>3. Cardinality(Questions(m)) \in Nat /\ (Questions(m) = {} <=> Cardinality(Questions(m)) = 0)
  BY HitsFinite, FS_CardinalityType, FS_EmptySet
<1>4. /\ ScoreRoleplay(m) \in 0..10
      /\ ScoreRoleplay(m) < 3 <=> RoleplayHits(m) = {}
      /\ ScoreRoleplay(m) = 0 <=> RoleplayHits(m) = {}
  BY <1>1 DEF ScoreRoleplay, AtMost
<1>5. /\ ScoreSynthesize(m) \in 0..10
      /\ ScoreSynthesize(m) < 3 <=> SynthesizeHits(m) = {} /\ Questions(m) = {}
      /\ ScoreSynthesize(m) = 0 <=> SynthesizeHits(m) = {} /\ Questions(m) = {}
  <2>. PICK n \in Nat, q \in Nat :
         /\ n = GroupScore(SynthesizeHits(m)) /\ q = Cardinality(Questions(m))
    BY <1>2, <1>3
  <2>1. ScoreSynthesize(m) = AtMost(n + AtMost(3 * q, 4), 10)
    BY DEF ScoreSynthesize
  <2>2. n = 0 \/ n >= 3
    BY <1>2
  <2>3. AtMost(3 * q, 4) \in 0..4 /\ (AtMost(3 * q, 4) = 0 <=> q = 0) /\ (q # 0 => AtMost(3 * q, 4) >= 3)
    BY DEF AtMost
  <2>4. PICK k \in 0..4 : k = AtMost(3 * q, 4)
    BY <2>3
  <2>5. ScoreSynthesize(m) = IF n + k < 10 THEN n + k ELSE 10
    BY <2>1, <2>4 DEF AtMost
  <2>6. /\ ScoreSynthesize(m) \in 0..10
        /\ ScoreSynthesize(m) < 3 <=> n = 0 /\ q = 0
        /\ ScoreSynthesize(m) = 0 <=> n = 0 /\ q = 0
    BY ONLY <2>2, <2>3, <2>4, <2>5
  <2>7. (n = 0 <=> SynthesizeHits(m) = {}) /\ (q = 0 <=> Questions(m) = {})
    BY <1>2, <1>3
  <2>. QED
    BY <2>6, <2>7
<1>. QED
  BY <1>4, <1>5

(* The threshold of 3 turns nothing down that counted at all: a message is *)
(* discussed exactly if none of the patterns against it matches and some   *)
(* pattern for it counts (auto_discuss.py, classify_message).              *)
THEOREM DiscussedIf ==
  ASSUME NEW m
  PROVE  ClassifyMessage(m).mode # "none"
           <=> /\ m # {} /\ ~Hits(m, NoDiscussPatterns)
               /\ RoleplayHits(m) # {} \/ SynthesizeHits(m) # {} \/ Questions(m) # {}
<1>. DEFINE off == \/ m = {} \/ Hits(m, NoDiscussPatterns)
                   \/ ScoreRoleplay(m) + ScoreSynthesize(m) < 3
<1>1. CASE off
  <2>1. ClassifyMessage(m) = Skip
    BY <1>1 DEF ClassifyMessage
  <2>. QED
    BY <1>1, <2>1, ScoresOf DEF Skip
<1>2. CASE ~off
  <2>1. ClassifyMessage(m).mode \in {"roleplay", "synthesize"}
    BY <1>2 DEF ClassifyMessage
  <2>. QED
    BY <1>2, <2>1, ScoresOf
<1>. QED
  BY <1>1, <1>2

LEMMA FurtherPhrase ==
  ASSUME NEW m, NEW p \in Phrases \ (NoDiscussPatterns \union SimpleActionPatterns),
         ClassifyMessage(m).mode # "none"
  PROVE  ClassifyMessage(m \union {p}).mode # "none"
<1>1. /\ m # {} /\ ~Hits(m, NoDiscussPatterns)
      /\ RoleplayHits(m) # {} \/ SynthesizeHits(m) # {} \/ Questions(m) # {}
  BY DiscussedIf
<1>2. m \union {p} # {} /\ ~Hits(m \union {p}, NoDiscussPatterns)
  BY <1>1 DEF Hits
<1>3. /\ RoleplayHits(m) \subseteq RoleplayHits(m \union {p})
      /\ SynthesizeHits(m) \subseteq SynthesizeHits(m \union {p})
  BY DEF RoleplayHits, SynthesizeHits, Hits
<1>4. Questions(m) \subseteq Questions(m \union {p})
  <2>1. Hits(m \union {p}, SimpleActionPatterns) => Hits(m, SimpleActionPatterns)
    BY DEF Hits
  <2>. QED
    BY <2>1 DEF Questions
<1>. QED
  BY <1>1, <1>2, <1>3, <1>4, DiscussedIf

LEMMA DecisionPlayable ==
  ASSUME NEW m
  PROVE  /\ ClassifyMessage(m).mode = "roleplay" => ClassifyMessage(m).rounds \in 2..5
         /\ ClassifyMessage(m).mode = "synthesize" =>
              ClassifyMessage(m).depth \in {"shallow", "normal", "deep"}
<1>1. \A s : DetermineRounds(m, s) \in 2..5
  BY DEF DetermineRounds
<1>2. \A s : DetermineDepth(m, s) \in {"shallow", "normal", "deep"}
  BY DEF DetermineDepth
<1>3. \/ ClassifyMessage(m) = Skip
      \/ ClassifyMessage(m) = [mode |-> "roleplay", rounds |-> DetermineRounds(m, ScoreRoleplay(m)),
                               depth |-> "none"]
      \/ ClassifyMessage(m) = [mode |-> "synthesize", rounds |-> 0,
                               depth |-> DetermineDepth(m, ScoreSynthesize(m))]
  BY DEF ClassifyMessage
<1>. QED
  BY <1>1, <1>2, <1>3 DEF Skip

(* Whatever the message, the decision names rounds or a depth that the     *)
(* discussion knows, and a further phrase that asks for neither an action  *)
(* nor a fact never takes it back (auto_discuss.py, classify_message).     *)
THEOREM DecidesWell == Spec => []AutoDecides
<1>1. AutoDecides
  BY DecisionPlayable, FurtherPhrase DEF AutoDecides
<1>. QED
  BY <1>1, PTL

=============================================================================
