--------------------------- MODULE AdmissionProofs ---------------------------
(***************************************************************************)
(* Proofs about what stands before and behind a task, for any processes,   *)
(* requests, limits and faults: who holds which token, and how far apart   *)
(* the alerts are.                                                         *)
(***************************************************************************)
EXTENDS Admission, FiniteSetTheorems, SequenceTheorems, WellFoundedInduction, TLAPS

-----------------------------------------------------------------------------
(* The inductive invariant *)

(* A process that makes the file and did not race is alone in making it. *)
AloneOK == \A p \in Making : p \notin raced => Making = {p}

(* Once a process is up that did not race, nobody makes the file. *)
TokensOK ==
  failures = 0 =>
    \A p \in Procs : proc[p] = "up" /\ p \notin raced =>
      file = token[p] /\ file # Empty /\ Making = {}

Spaced(t, at) == t = 0 \/ at - alerts[t].at >= Cooldown

(* What a worker found when it tested the cooldown. *)
TestsOK ==
  /\ \A r \in Requests : request[r] = "alert" => Spaced(tested[r], stamp[r])
  /\ \A i \in DOMAIN alerts : request[alerts[i].by] = "done"

(* The window w holds, in their order, the stamps of admitted requests:    *)
(* f[i] is the request of the i-th.                                        *)
Tracks(f, w) ==
  /\ f \in [1..Len(w) -> 1..Len(passed)]
  /\ \A i, j \in 1..Len(w) : i < j => f[i] < f[j]
  /\ \A i \in 1..Len(w) : passed[f[i]].ok /\ passed[f[i]].stamp = w[i]

(* The admitted requests that are not in the window are too old for one    *)
(* that had the lock.                                                      *)
TooOld(m, n) == passed[m].stamp < passed[n].stamp - Window

WindowOK ==
  \E f : /\ Tracks(f, window)
         /\ \A m \in 1..Len(passed) :
              passed[m].ok => \/ \E i \in 1..Len(window) : f[i] = m
                              \/ \E n \in 1..Len(passed) : TooOld(m, n)

IInv == /\ TypeOK /\ AloneOK /\ TokensOK /\ TestsOK /\ AlertsSpaced
        /\ WindowOK /\ LimiterExact

-----------------------------------------------------------------------------
(* The window *)

LEMMA SubSeqType ==
  ASSUME NEW S, NEW w \in Seq(S), NEW i \in 1..Len(w)
  PROVE  /\ SubSeq(w, i, Len(w)) \in Seq(S)
         /\ Len(SubSeq(w, i, Len(w))) = Len(w) - i + 1
         /\ \A n \in 1..(Len(w) - i + 1) : SubSeq(w, i, Len(w))[n] = w[i + n - 1]
BY SubSeqProperties

(* The first index of a set of indices. *)
LEMMA FirstExists ==
  ASSUME NEW T \in SUBSET Nat, T # {}
  PROVE  \E i \in T : \A j \in T : i <= j
<1>. DEFINE Upto(n) == T \cap (0..n)
            F == {Upto(n) : n \in T}
<1>1. ASSUME NEW n \in T PROVE IsFiniteSet(Upto(n))
  <2>1. IsFiniteSet(0..n)
    BY FS_Interval
  <2>. QED
    BY <2>1, FS_Intersection
<1>2. F \subseteq FiniteSubsetsOf(T) /\ F # {}
  BY <1>1 DEF FiniteSubsetsOf
<1>3. PICK S \in F : \A U \in F : ~(<<U, S>> \in StrictSubsetOrdering(T))
  <2>. HIDE DEF F
  <2>. QED
    BY <1>2, FS_StrictSubsetOrderingWellFounded, WFMin
<1>4. PICK i \in T : S = Upto(i)
  BY <1>3
<1>5. ASSUME NEW j \in T, j < i PROVE FALSE
  <2>1. Upto(j) \subseteq Upto(i) /\ i \in Upto(i) /\ i \notin Upto(j)
    BY <1>5
  <2>2. <<Upto(j), S>> \in StrictSubsetOrdering(T)
    BY <2>1, <1>4 DEF StrictSubsetOrdering
  <2>. QED
    BY <2>2, <1>3
<1>. QED
  BY <1>5

Fresh(w, cutoff) == {i \in DOMAIN w : w[i] >= cutoff}

(* What remains of a window begins with its first stamp that is not old. *)
LEMMA RemainingFacts ==
  ASSUME NEW S \in SUBSET Int, NEW w \in Seq(S), NEW cutoff \in Int
  PROVE  \/ Fresh(w, cutoff) = {} /\ Remaining(w, cutoff) = <<>>
         \/ \E i \in Fresh(w, cutoff) :
              /\ i \in 1..Len(w)
              /\ \A j \in Fresh(w, cutoff) : i <= j
              /\ Remaining(w, cutoff) = SubSeq(w, i, Len(w))
<1>. DEFINE fresh == Fresh(w, cutoff)
            first == CHOOSE i \in fresh : \A j \in fresh : i <= j
<1>1. fresh \in SUBSET Nat /\ fresh \subseteq 1..Len(w)
  BY DEF Fresh
<1>2. Remaining(w, cutoff) = IF fresh = {} THEN <<>> ELSE SubSeq(w, first, Len(w))
  BY DEF Remaining, Fresh
<1>. HIDE DEF fresh
<1>3. fresh # {} => first \in fresh /\ \A j \in fresh : first <= j
  BY <1>1, FirstExists
<1>. HIDE DEF first
<1>. QED
  BY <1>1, <1>2, <1>3 DEF fresh

LEMMA RemainingType ==
  ASSUME NEW S \in SUBSET Int, NEW w \in Seq(S), NEW cutoff \in Int
  PROVE  /\ Remaining(w, cutoff) \in Seq(S)
         /\ Len(Remaining(w, cutoff)) <= Len(w)
<1>1. CASE Remaining(w, cutoff) = <<>>
  BY <1>1, EmptySeq
<1>2. ASSUME NEW i \in 1..Len(w), Remaining(w, cutoff) = SubSeq(w, i, Len(w))
      PROVE  Remaining(w, cutoff) \in Seq(S) /\ Len(Remaining(w, cutoff)) <= Len(w)
  BY <1>2, SubSeqType
<1>. QED
  BY <1>1, <1>2, RemainingFacts

LEMMA SeqGrows ==
  ASSUME NEW S, NEW T, S \subseteq T, NEW w \in Seq(S)
  PROVE  w \in Seq(T)
OBVIOUS

-----------------------------------------------------------------------------
LEMMA InitIInv == Init => IInv
<1>. SUFFICES ASSUME Init PROVE IInv
  OBVIOUS
<1>. USE AdmissionConstantsOK DEF Init
<1>1. TypeOK
  BY EmptySeq DEF TypeOK, NoFile, Empty
<1>2. Making = {}
  BY DEF Making
<1>3. AloneOK /\ TokensOK /\ TestsOK /\ AlertsSpaced
  BY <1>2 DEF AloneOK, TokensOK, TestsOK, AlertsSpaced
<1>4. Len(passed) = 0 /\ Len(window) = 0 /\ DOMAIN passed = {} /\ 1..0 = {}
  BY EmptySeq
<1>5. WindowOK
  <2>1. Tracks([i \in 1..0 |-> 0], window)
    BY <1>4 DEF Tracks
  <2>. QED
    BY <1>4, <2>1 DEF WindowOK
<1>6. LimiterExact
  BY <1>4 DEF LimiterExact
<1>. QED
  BY <1>1, <1>3, <1>5, <1>6 DEF IInv

(* The start and the kill of a process. *)
LEMMA StartTypes ==
  ASSUME TypeOK, NEW p \in Procs, Start(p) \/ Kill(p)
  PROVE  /\ made' \in Nat /\ made <= made' /\ file' \in {NoFile} \union (0..made')
         /\ proc' \in [Procs -> {"start", "make", "write", "up"}]
         /\ token' \in [Procs -> 0..made']
         /\ failures' \in 0..MaxFaults /\ kills' \in 0..MaxFaults
         /\ raced' \subseteq Procs
         /\ UNCHANGED <<clock, request, limiter, tested, alerts>>
<1>. USE AdmissionConstantsOK DEF TypeOK, NoFile, Empty
<1>1. CASE Look(p)
  <2>1. raced' \subseteq Procs
    BY <1>1 DEF Look, Race, Making
  <2>2. proc' \in [Procs -> {"start", "make", "write", "up"}]
    BY <1>1 DEF Look, Finds
  <2>3. token' \in [Procs -> 0..made]
    BY <1>1 DEF Look, Finds
  <2>. QED
    BY <1>1, <2>1, <2>2, <2>3 DEF Look
<1>2. CASE LookFails(p)
  <2>1. proc' = [proc EXCEPT ![p] = "make"] /\ token' = token
    BY <1>2 DEF LookFails, Finds
  <2>2. proc' \in [Procs -> {"start", "make", "write", "up"}]
    BY <2>1
  <2>3. failures' \in 0..MaxFaults /\ kills' = kills /\ raced' \subseteq Procs
    BY <1>2 DEF LookFails, Fault, Race, Making
  <2>. QED
    BY <1>2, <2>1, <2>2, <2>3 DEF LookFails
<1>3. CASE Make(p)
  <2>1. proc' = [proc EXCEPT ![p] = "write"] /\ file' = Empty
    BY <1>3 DEF Make
  <2>2. proc' \in [Procs -> {"start", "make", "write", "up"}]
    BY <2>1
  <2>3. file' \in {NoFile} \union (0..made)
    BY <2>1
  <2>. QED
    BY <1>3, <2>2, <2>3 DEF Make
<1>4. CASE Write(p) \/ MakeFails(p)
  <2>1. /\ made' = made + 1 /\ made' \in Nat
        /\ token' = [token EXCEPT ![p] = made'] /\ proc' = [proc EXCEPT ![p] = "up"]
        /\ UNCHANGED <<raced, clock, request, limiter, tested, alerts>>
    BY <1>4 DEF Write, MakeFails, Up
  <2>2. token' \in [Procs -> 0..made']
    BY <2>1
  <2>3. proc' \in [Procs -> {"start", "make", "write", "up"}]
    BY <2>1
  <2>4. file \in {NoFile} \union (0..made') /\ made' \in {NoFile} \union (0..made')
    BY <2>1
  <2>5. /\ file' \in {file, made'}
        /\ failures' \in 0..MaxFaults /\ kills' \in 0..MaxFaults
    <3>1. CASE Write(p)
      BY <3>1 DEF Write
    <3>2. CASE MakeFails(p)
      BY <3>2 DEF MakeFails, Fault
    <3>. QED
      BY <1>4, <3>1, <3>2
  <2>. QED
    BY <2>1, <2>2, <2>3, <2>4, <2>5
<1>5. CASE Kill(p)
  BY <1>5 DEF Kill
<1>. QED
  BY <1>1, <1>2, <1>3, <1>4, <1>5 DEF Start

(* A request. *)
LEMMA RequestTypes ==
  ASSUME TypeOK, NEW r \in Requests, Handle(r) \/ Execute(r)
  PROVE  /\ request' \in [Requests -> {"none", "stamped", "admitted", "429", "401", "working",
                                       "alert", "done"}]
         /\ stamp' \in [Requests -> 0..clock]
         /\ window' \in Seq(0..clock) /\ Len(window') <= Burst
         /\ passed' \in Seq([stamp : 0..clock, ok : BOOLEAN])
         /\ tested' \in [Requests -> 0..Len(alerts')]
         /\ alerts' \in Seq([by : Requests, at : 0..clock])
         /\ UNCHANGED <<tokens, clock>>
<1>. USE AdmissionConstantsOK
<1>1. CASE Arrive(r)
  BY <1>1 DEF TypeOK, Arrive
<1>2. CASE Check(r)
  <2>. DEFINE w == Remaining(window, stamp[r] - Window)
  <2>1. stamp[r] \in 0..clock /\ clock \in Nat /\ window \in Seq(0..clock) /\ Len(window) <= Burst
    BY DEF TypeOK
  <2>2. w \in Seq(0..clock) /\ Len(w) <= Len(window) /\ Len(w) \in Nat /\ Len(window) \in Nat
    BY <2>1, RemainingType
  <2>. HIDE DEF w
  <2>3. Append(w, stamp[r]) \in Seq(0..clock) /\ Len(Append(w, stamp[r])) = Len(w) + 1
    BY <2>1, <2>2, AppendProperties
  <2>4. window' = IF Room(w) THEN Append(w, stamp[r]) ELSE w
    BY <1>2 DEF Check, w
  <2>5. window' \in Seq(0..clock) /\ Len(window') <= Burst
    <3>1. CASE Room(w)
      BY <2>2, <2>3, <2>4, <3>1 DEF Room
    <3>2. CASE ~Room(w)
      BY <2>1, <2>2, <2>4, <3>2
    <3>. QED
      BY <3>1, <3>2
  <2>6. passed' \in Seq([stamp : 0..clock, ok : BOOLEAN])
    <3>1. passed' = Append(passed, [stamp |-> stamp[r], ok |-> Room(w)])
      BY <1>2 DEF Check, w
    <3>2. [stamp |-> stamp[r], ok |-> Room(w)] \in [stamp : 0..clock, ok : BOOLEAN]
      BY <2>1 DEF Room
    <3>. QED
      BY <3>1, <3>2, AppendProperties DEF TypeOK
  <2>. QED
    BY <1>2, <2>5, <2>6 DEF TypeOK, Check
<1>3. CASE Authorize(r)
  BY <1>3 DEF TypeOK, Authorize, limiter
<1>4. CASE ScoresWell(r)
  BY <1>4 DEF TypeOK, ScoresWell, limiter
<1>5. CASE ScoresLow(r)
  BY <1>5 DEF TypeOK, ScoresLow
<1>6. CASE Alert(r)
  <2>1. [by |-> r, at |-> stamp[r]] \in [by : Requests, at : 0..clock]
    BY DEF TypeOK
  <2>2. alerts' \in Seq([by : Requests, at : 0..clock]) /\ Len(alerts') = Len(alerts) + 1
    BY <1>6, <2>1, AppendProperties DEF TypeOK, Alert
  <2>. QED
    BY <1>6, <2>2 DEF TypeOK, Alert, limiter
<1>. QED
  BY <1>1, <1>2, <1>3, <1>4, <1>5, <1>6 DEF Handle, Execute

LEMMA TypeStep ==
  ASSUME TypeOK, [Next]_vars
  PROVE  TypeOK'
<1>1. CASE Tick
  <2>1. clock' \in 0..MaxTime /\ 0..clock \subseteq 0..clock'
    BY <1>1, AdmissionConstantsOK DEF Tick, TypeOK
  <2>2. /\ [stamp : 0..clock, ok : BOOLEAN] \subseteq [stamp : 0..clock', ok : BOOLEAN]
        /\ [by : Requests, at : 0..clock] \subseteq [by : Requests, at : 0..clock']
    BY <2>1
  <2>3. /\ window \in Seq(0..clock')
        /\ passed \in Seq([stamp : 0..clock', ok : BOOLEAN])
        /\ alerts \in Seq([by : Requests, at : 0..clock'])
    BY <2>1, <2>2, SeqGrows DEF TypeOK
  <2>. QED
    BY <1>1, <2>1, <2>3 DEF Tick, TypeOK, tokens, limiter
<1>2. ASSUME NEW p \in Procs, Start(p) \/ Kill(p) PROVE TypeOK'
  BY <1>2, StartTypes DEF TypeOK, limiter
<1>3. ASSUME NEW r \in Requests, Handle(r) \/ Execute(r) PROVE TypeOK'
  BY <1>3, RequestTypes DEF TypeOK, tokens
<1>4. CASE UNCHANGED vars
  BY <1>4 DEF TypeOK, vars, tokens, limiter
<1>. QED
  BY <1>1, <1>2, <1>3, <1>4 DEF Next

-----------------------------------------------------------------------------
(* Tokens *)

(* Who makes the file after a step. *)
LEMMA MakingStep ==
  ASSUME IInv, NEW p \in Procs, Start(p) \/ Kill(p)
  PROVE  /\ \A q \in Procs \ {p} : proc'[q] = proc[q] /\ token'[q] = token[q]
         /\ \A q \in Procs \ {p} : q \in Making' <=> q \in Making
         /\ proc'[p] \in {"start", "make", "write", "up"}
         /\ p \in Making' <=> proc'[p] \in {"make", "write"}
<1>1. /\ proc' \in [Procs -> {"start", "make", "write", "up"}]
      /\ \A q \in Procs \ {p} : proc'[q] = proc[q] /\ token'[q] = token[q]
  <2>1. proc \in [Procs -> {"start", "make", "write", "up"}] /\ token \in [Procs -> 0..made]
    BY DEF IInv, TypeOK
  <2>2. \/ proc' = [proc EXCEPT ![p] = "make"]
        \/ proc' = [proc EXCEPT ![p] = "write"]
        \/ proc' = [proc EXCEPT ![p] = "up"]
        \/ proc' = [proc EXCEPT ![p] = "start"]
    BY DEF Start, Look, LookFails, Make, Write, MakeFails, Kill, Finds, Up
  <2>3. token' = token \/ \E v : token' = [token EXCEPT ![p] = v]
    BY DEF Start, Look, LookFails, Make, Write, MakeFails, Kill, Finds, Up
  <2>. QED
    BY <2>1, <2>2, <2>3
<1>. QED
  BY <1>1 DEF Making

LEMMA AloneStep ==
  ASSUME IInv, NEW p \in Procs, Start(p) \/ Kill(p)
  PROVE  AloneOK'
<1>. SUFFICES ASSUME NEW q \in Making', q \notin raced'
              PROVE  Making' = {q}
  BY DEF AloneOK
<1>1. Making' \subseteq Procs /\ Making \subseteq Procs
  BY DEF Making
<1>2. CASE Look(p) \/ LookFails(p)
  <2>1. raced' = IF Making \ {p} # {} THEN raced \union Making \union {p} ELSE raced
    BY <1>2 DEF Look, LookFails, Race
  <2>2. proc[p] = "start" /\ p \notin Making
    BY <1>2 DEF Look, LookFails, Making
  <2>3. Making = {}
    <3>. SUFFICES ASSUME Making # {} PROVE FALSE
      OBVIOUS
    <3>1. raced' = raced \union Making \union {p}
      BY <2>1, <2>2
    <3>2. q \notin Making /\ q # p
      BY <3>1
    <3>. QED
      BY <1>1, <3>2, MakingStep
  <2>. QED
    BY <1>1, <2>3, MakingStep
<1>3. CASE Make(p)
  <2>1. raced' = raced /\ p \in Making /\ p \in Making'
    BY <1>3, MakingStep DEF Make, Making, IInv, TypeOK
  <2>2. Making' = Making
    BY <1>1, <2>1, MakingStep
  <2>. QED
    BY <2>1, <2>2 DEF IInv, AloneOK
<1>4. CASE Write(p) \/ MakeFails(p)
  <2>1. raced' = raced /\ p \in Making /\ proc'[p] = "up"
    BY <1>4 DEF Write, MakeFails, Up, Making, IInv, TypeOK
  <2>2. q # p /\ q \in Making
    BY <1>1, <2>1, MakingStep
  <2>. QED
    BY <2>1, <2>2 DEF IInv, AloneOK
<1>5. CASE Kill(p)
  <2>1. raced' = raced \ {p} /\ proc'[p] = "start"
    BY <1>5 DEF Kill, IInv, TypeOK
  <2>2. q # p /\ q \in Making /\ q \notin raced
    BY <1>1, <2>1, MakingStep
  <2>3. Making = {q}
    BY <2>2 DEF IInv, AloneOK
  <2>. QED
    BY <1>1, <2>1, <2>3, MakingStep
<1>. QED
  BY <1>2, <1>3, <1>4, <1>5 DEF Start

LEMMA TokensStep ==
  ASSUME IInv, NEW p \in Procs, Start(p) \/ Kill(p)
  PROVE  TokensOK'
<1>. SUFFICES ASSUME failures' = 0, NEW q \in Procs, proc'[q] = "up", q \notin raced'
              PROVE  file' = token'[q] /\ file' # Empty /\ Making' = {}
  BY DEF TokensOK
<1>1. Making' \subseteq Procs /\ Making \subseteq Procs
  BY DEF Making
<1>2. failures = 0 /\ ~LookFails(p) /\ ~MakeFails(p)
  BY DEF IInv, TypeOK, Start, Look, LookFails, Make, Write, MakeFails, Kill, Fault
<1>3. CASE Look(p)
  <2>1. /\ raced' = IF Making \ {p} # {} THEN raced \union Making \union {p} ELSE raced
        /\ proc[p] = "start" /\ p \notin Making /\ file' = file
    BY <1>3 DEF Look, Race, Making
  <2>2. CASE q = p
    <3>1. file \notin {NoFile, Empty} /\ token'[p] = file
      BY <1>3, <2>2 DEF Look, Finds, IInv, TypeOK
    <3>2. Making = {}
      BY <2>1, <2>2
    <3>. QED
      BY <1>1, <2>1, <2>2, <3>1, <3>2, MakingStep
  <2>3. CASE q # p
    <3>1. q \notin raced /\ proc[q] = "up" /\ token'[q] = token[q]
      BY <2>1, <2>3, MakingStep
    <3>2. file = token[q] /\ file # Empty /\ Making = {}
      BY <1>2, <3>1 DEF IInv, TokensOK
    <3>3. file \notin {NoFile, Empty}
      BY <3>2 DEF IInv, TypeOK, NoFile
    <3>4. proc'[p] = "up"
      BY <1>3, <3>3 DEF Look, Finds, IInv, TypeOK
    <3>. QED
      BY <1>1, <2>1, <3>1, <3>2, <3>4, MakingStep
  <2>. QED
    BY <2>2, <2>3
<1>4. CASE Make(p) \/ Write(p)
  <2>1. p \in Making /\ raced' = raced
    BY <1>4 DEF Make, Write, Up, Making
  <2>2. q = p
    <3>. SUFFICES ASSUME q # p PROVE FALSE
      OBVIOUS
    <3>1. proc[q] = "up" /\ q \notin raced
      BY <2>1, MakingStep
    <3>. QED
      BY <1>2, <2>1, <3>1 DEF IInv, TokensOK
  <2>3. Write(p)
    BY <1>4, <2>2 DEF Make, IInv, TypeOK
  <2>4. Making = {p}
    BY <2>1, <2>2 DEF IInv, AloneOK
  <2>5. file' = made + 1 /\ token'[p] = made + 1 /\ made \in Nat
    BY <2>3 DEF Write, Up, IInv, TypeOK
  <2>. QED
    BY <1>1, <2>2, <2>4, <2>5, MakingStep DEF Empty
<1>5. CASE Kill(p)
  <2>1. raced' = raced \ {p} /\ proc'[p] = "start" /\ file' = file
    BY <1>5 DEF Kill, IInv, TypeOK
  <2>2. q # p /\ proc[q] = "up" /\ q \notin raced /\ token'[q] = token[q]
    BY <2>1, MakingStep
  <2>3. file = token[q] /\ file # Empty /\ Making = {}
    BY <1>2, <2>2 DEF IInv, TokensOK
  <2>. QED
    BY <1>1, <2>1, <2>2, <2>3, MakingStep
<1>. QED
  BY <1>2, <1>3, <1>4, <1>5 DEF Start

-----------------------------------------------------------------------------
(* Alerts *)

LEMMA AlertType ==
  ASSUME TypeOK
  PROVE  /\ DOMAIN alerts = 1..Len(alerts) /\ Len(alerts) \in Nat
         /\ \A i \in DOMAIN alerts : alerts[i].by \in Requests /\ alerts[i].at \in 0..clock
         /\ clock \in Nat
<1>1. alerts \in Seq([by : Requests, at : 0..clock]) /\ clock \in Nat
  BY DEF TypeOK
<1>2. DOMAIN alerts = 1..Len(alerts) /\ Len(alerts) \in Nat
  BY <1>1
<1>3. ASSUME NEW i \in 1..Len(alerts) PROVE alerts[i] \in [by : Requests, at : 0..clock]
  BY <1>1, ElementOfSeq
<1>. QED
  BY <1>1, <1>2, <1>3

(* What an alert adds. *)
LEMMA AlertFacts ==
  ASSUME TypeOK, NEW r \in Requests, Alert(r)
  PROVE  /\ DOMAIN alerts = 1..Len(alerts) /\ Len(alerts) \in Nat
         /\ Len(alerts') = Len(alerts) + 1 /\ DOMAIN alerts' = 1..(Len(alerts) + 1)
         /\ \A i \in DOMAIN alerts :
              alerts'[i] = alerts[i] /\ alerts[i].by \in Requests /\ alerts[i].at \in 0..clock
         /\ alerts'[Len(alerts) + 1] = [by |-> r, at |-> stamp[r]]
         /\ request'[r] = "done" /\ \A q \in Requests \ {r} : request'[q] = request[q]
         /\ tested' = tested /\ stamp' = stamp
<1>1. alerts \in Seq([by : Requests, at : 0..clock]) /\ [by |-> r, at |-> stamp[r]] \in [by : Requests, at : 0..clock]
  BY DEF TypeOK
<1>2. alerts' = Append(alerts, [by |-> r, at |-> stamp[r]])
  BY DEF Alert
<1>3. /\ DOMAIN alerts = 1..Len(alerts) /\ Len(alerts) \in Nat
      /\ Len(alerts') = Len(alerts) + 1
      /\ alerts' \in Seq([by : Requests, at : 0..clock])
      /\ \A i \in 1..Len(alerts) : alerts'[i] = alerts[i]
      /\ alerts'[Len(alerts) + 1] = [by |-> r, at |-> stamp[r]]
  BY <1>1, <1>2, AppendProperties
<1>4. \A i \in 1..Len(alerts) : alerts[i] \in [by : Requests, at : 0..clock]
  BY <1>1, ElementOfSeq
<1>5. /\ request'[r] = "done" /\ \A q \in Requests \ {r} : request'[q] = request[q]
      /\ tested' = tested /\ stamp' = stamp
  BY DEF Alert, TypeOK, limiter
<1>6. DOMAIN alerts' = 1..(Len(alerts) + 1)
  BY <1>3
<1>. QED
  BY <1>3, <1>4, <1>5, <1>6

LEMMA TestsStep ==
  ASSUME IInv, NEW r \in Requests, Handle(r) \/ Execute(r)
  PROVE  TestsOK'
<1>1. /\ DOMAIN alerts = 1..Len(alerts) /\ Len(alerts) \in Nat
      /\ \A i \in DOMAIN alerts : alerts[i].by \in Requests /\ alerts[i].at \in 0..clock
      /\ clock \in Nat
  BY AlertType DEF IInv
<1>2. CASE Arrive(r) \/ Check(r) \/ Authorize(r) \/ ScoresWell(r)
  <2>1. /\ alerts' = alerts /\ tested' = tested
        /\ \A q \in Requests : stamp'[q] = stamp[q] \/ request'[q] # "alert"
        /\ \A q \in Requests : request'[q] = "alert" => request[q] = "alert"
        /\ \A q \in Requests : request[q] = "done" => request'[q] = "done"
    BY <1>2 DEF Arrive, Check, Authorize, ScoresWell, IInv, TypeOK, limiter
  <2>. QED
    BY <1>1, <2>1 DEF IInv, TestsOK, Spaced
<1>3. CASE ScoresLow(r)
  <2>1. /\ alerts' = alerts /\ request[r] = "working"
        /\ \A q \in Requests \ {r} : request'[q] = request[q] /\ tested'[q] = tested[q] /\ stamp'[q] = stamp[q]
        /\ request'[r] = "alert" => Cool(clock)
        /\ stamp'[r] = clock /\ tested'[r] = Len(alerts)
    BY <1>3 DEF ScoresLow, IInv, TypeOK
  <2>2. request'[r] = "alert" => Spaced(tested'[r], stamp'[r])
    BY <1>1, <2>1 DEF Spaced, Cool
  <2>. QED
    BY <1>1, <2>1, <2>2 DEF IInv, TestsOK, Spaced
<1>4. CASE Alert(r)
  <2>1. /\ \A i \in DOMAIN alerts : alerts'[i] = alerts[i] /\ alerts[i].by \in Requests
        /\ DOMAIN alerts' = DOMAIN alerts \union {Len(alerts) + 1}
        /\ alerts'[Len(alerts) + 1].by = r
        /\ request'[r] = "done" /\ \A q \in Requests \ {r} : request'[q] = request[q]
        /\ tested' = tested /\ stamp' = stamp
    <3>1. /\ \A i \in DOMAIN alerts : alerts'[i] = alerts[i] /\ alerts[i].by \in Requests
          /\ DOMAIN alerts' = 1..(Len(alerts) + 1)
          /\ alerts'[Len(alerts) + 1] = [by |-> r, at |-> stamp[r]]
          /\ request'[r] = "done" /\ \A q \in Requests \ {r} : request'[q] = request[q]
          /\ tested' = tested /\ stamp' = stamp
      BY <1>4, AlertFacts DEF IInv
    <3>2. DOMAIN alerts' = DOMAIN alerts \union {Len(alerts) + 1}
      BY <1>1, <3>1
    <3>3. alerts'[Len(alerts) + 1].by = r
      BY <3>1
    <3>. QED
      BY <3>1, <3>2, <3>3, Zenon
  <2>2. ASSUME NEW q \in Requests, request'[q] = "alert" PROVE Spaced(tested[q], stamp[q])'
    <3>1. q # r /\ request[q] = "alert"
      BY <2>1, <2>2
    <3>2. tested[q] = 0 \/ tested[q] \in DOMAIN alerts
      BY <1>1 DEF IInv, TypeOK
    <3>3. Spaced(tested[q], stamp[q])
      BY <3>1 DEF IInv, TestsOK
    <3>. QED
      BY <2>1, <3>2, <3>3 DEF Spaced
  <2>3. \A i \in DOMAIN alerts' : request'[alerts'[i].by] = "done"
    BY <2>1 DEF IInv, TestsOK
  <2>. QED
    <3>1. \A q \in Requests : request'[q] = "alert" => Spaced(tested[q], stamp[q])'
      BY <2>2
    <3>. QED
      BY <2>3, <3>1 DEF TestsOK
<1>. QED
  BY <1>2, <1>3, <1>4 DEF Handle, Execute

(* The latest alert of those before it that its worker saw is the one to   *)
(* keep away from; those before that one are farther away, or raced.       *)
LEMMA SpacedStep ==
  ASSUME IInv, NEW r \in Requests, Handle(r) \/ Execute(r)
  PROVE  AlertsSpaced'
<1>1. CASE ~Alert(r)
  <2>1. alerts' = alerts /\ \A q \in Requests : request[q] = "done" => tested'[q] = tested[q]
    BY <1>1 DEF Handle, Execute, Arrive, Check, Authorize, ScoresWell, ScoresLow, IInv, TypeOK
  <2>2. \A k \in DOMAIN alerts : tested'[alerts[k].by] = tested[alerts[k].by]
    BY <2>1, AlertType DEF IInv, TestsOK
  <2>3. DOMAIN alerts = 1..Len(alerts) /\ Len(alerts) \in Nat
    BY DEF IInv, TypeOK
  <2>4. AlertsSpaced
    BY DEF IInv
  <2>. QED
    BY <2>1, <2>2, <2>3, <2>4 DEF AlertsSpaced
<1>2. CASE Alert(r)
  <2>. DEFINE n == Len(alerts) + 1
              t == tested[r]
  <2>1. /\ DOMAIN alerts = 1..Len(alerts) /\ Len(alerts) \in Nat /\ DOMAIN alerts' = 1..n
        /\ \A i \in 1..Len(alerts) :
             alerts'[i] = alerts[i] /\ alerts[i].by \in Requests /\ alerts[i].at \in Int
        /\ alerts'[n] = [by |-> r, at |-> stamp[r]]
        /\ tested' = tested
    BY <1>2, AlertFacts DEF IInv
  <2>2. t \in 0..Len(alerts) /\ stamp[r] \in Int /\ Cooldown \in Nat /\ Spaced(t, stamp[r])
    BY <1>2, AdmissionConstantsOK DEF IInv, TypeOK, TestsOK, Alert
  <2>3. ASSUME NEW i \in 1..Len(alerts), NEW j \in 1..Len(alerts), i < j
        PROVE  \/ alerts[j].at - alerts[i].at >= Cooldown
               \/ \E k \in (i + 1)..j : tested[alerts[k].by] < i
    BY <2>1, <2>3 DEF IInv, AlertsSpaced
  <2>4. ASSUME NEW i \in 1..Len(alerts)
        PROVE  \/ stamp[r] - alerts[i].at >= Cooldown
               \/ \E k \in (i + 1)..n : tested'[alerts'[k].by] < i
    <3>1. CASE t < i
      <4>1. n \in (i + 1)..n /\ tested'[alerts'[n].by] = t
        BY <2>1
      <4>. QED
        BY <3>1, <4>1
    <3>2. CASE t = i
      BY <2>1, <2>2, <3>2 DEF Spaced
    <3>3. CASE t > i
      <4>1. t \in 1..Len(alerts) /\ stamp[r] - alerts[t].at >= Cooldown
        BY <2>1, <2>2, <3>3 DEF Spaced
      <4>2. CASE alerts[t].at - alerts[i].at >= Cooldown
        BY <2>1, <2>2, <4>1, <4>2
      <4>3. ASSUME NEW k \in (i + 1)..t, tested[alerts[k].by] < i
            PROVE  \E m \in (i + 1)..n : tested'[alerts'[m].by] < i
        <5>1. k \in (i + 1)..n /\ k \in 1..Len(alerts)
          BY <2>1, <4>1
        <5>. QED
          BY <2>1, <4>3, <5>1
      <4>. QED
        BY <2>3, <3>3, <4>1, <4>2, <4>3
    <3>. QED
      BY <2>1, <2>2, <3>1, <3>2, <3>3
  <2>5. ASSUME NEW i \in 1..n, NEW j \in 1..n, i < j
        PROVE  \/ alerts'[j].at - alerts'[i].at >= Cooldown
               \/ \E k \in (i + 1)..j : tested'[alerts'[k].by] < i
    <3>1. i \in 1..Len(alerts) /\ (j = n \/ j \in 1..Len(alerts))
      BY <2>1, <2>5
    <3>2. CASE j = n
      BY <2>1, <2>4, <3>1, <3>2
    <3>3. CASE j \in 1..Len(alerts)
      <4>1. \A k \in (i + 1)..j : k \in 1..Len(alerts)
        BY <2>1, <3>1, <3>3
      <4>. QED
        BY <2>1, <2>3, <2>5, <3>1, <3>3, <4>1
    <3>. QED
      BY <3>1, <3>2, <3>3
  <2>. HIDE DEF n
  <2>. QED
    BY <2>1, <2>5 DEF AlertsSpaced
<1>. QED
  BY <1>1, <1>2

-----------------------------------------------------------------------------
(* The limit *)

LEMMA PassedType ==
  ASSUME TypeOK
  PROVE  /\ Len(passed) \in Nat /\ DOMAIN passed = 1..Len(passed) /\ clock \in Nat
         /\ \A m \in 1..Len(passed) : passed[m].ok \in BOOLEAN /\ passed[m].stamp \in 0..clock
         /\ window \in Seq(0..clock) /\ Len(window) \in Nat
         /\ Window \in Nat /\ Burst \in Nat
<1>1. /\ passed \in Seq([stamp : 0..clock, ok : BOOLEAN]) /\ clock \in Nat
      /\ window \in Seq(0..clock)
  BY AdmissionConstantsOK DEF TypeOK
<1>2. \A m \in 1..Len(passed) : passed[m] \in [stamp : 0..clock, ok : BOOLEAN]
  BY <1>1, ElementOfSeq
<1>. QED
  BY <1>1, <1>2, AdmissionConstantsOK, LenProperties

(* Pruning takes the head of the window, and nothing that is not old. *)
LEMMA RemainingTracked ==
  ASSUME TypeOK, WindowOK, NEW s \in Int
  PROVE  \E g : /\ Tracks(g, Remaining(window, s - Window))
                /\ \A m \in 1..Len(passed) :
                     passed[m].ok =>
                       \/ \E i \in 1..Len(Remaining(window, s - Window)) : g[i] = m
                       \/ passed[m].stamp < s - Window
                       \/ \E n \in 1..Len(passed) : TooOld(m, n)
<1>. DEFINE c == s - Window
            w == Remaining(window, c)
            Tracked ==
              \E g : /\ Tracks(g, w)
                     /\ \A m \in 1..Len(passed) :
                          passed[m].ok => \/ \E i \in 1..Len(w) : g[i] = m
                                          \/ passed[m].stamp < c
                                          \/ \E n \in 1..Len(passed) : TooOld(m, n)
<1>0. /\ window \in Seq(0..clock) /\ 0..clock \in SUBSET Int /\ c \in Int
      /\ Len(window) \in Nat /\ DOMAIN window = 1..Len(window) /\ Len(passed) \in Nat
      /\ \A i \in 1..Len(window) : window[i] \in Int
  BY PassedType
<1>1. PICK f : /\ Tracks(f, window)
               /\ \A m \in 1..Len(passed) :
                    passed[m].ok => \/ \E i \in 1..Len(window) : f[i] = m
                                    \/ \E n \in 1..Len(passed) : TooOld(m, n)
  BY DEF WindowOK
<1>2. \A i \in 1..Len(window) : window[i] < c => passed[f[i]].stamp < c
  BY <1>1 DEF Tracks
<1>3. ASSUME Fresh(window, c) = {}, w = <<>> PROVE Tracked
  <2>1. \A i \in 1..Len(window) : window[i] < c
    BY <1>0, <1>3 DEF Fresh
  <2>. DEFINE g == [i \in {} |-> 1]
  <2>2. Len(w) = 0 /\ 1..Len(w) = {}
    BY <1>3, EmptySeq
  <2>. HIDE DEF w
  <2>3. Tracks(g, w)
    BY <2>2 DEF Tracks
  <2>4. ASSUME NEW m \in 1..Len(passed), passed[m].ok
        PROVE passed[m].stamp < c \/ \E n \in 1..Len(passed) : TooOld(m, n)
    BY <1>1, <1>2, <2>1, <2>4
  <2>. QED
    BY <2>3, <2>4 DEF w
<1>4. ASSUME NEW k \in Fresh(window, c), k \in 1..Len(window),
             \A j \in Fresh(window, c) : k <= j,
             w = SubSeq(window, k, Len(window))
      PROVE  Tracked
  <2>1. /\ Len(w) = Len(window) - k + 1
        /\ \A n \in 1..Len(w) : w[n] = window[k + n - 1] /\ k + n - 1 \in 1..Len(window)
    <3>1. /\ Len(w) = Len(window) - k + 1
          /\ \A n \in 1..(Len(window) - k + 1) : w[n] = window[k + n - 1]
      BY <1>0, <1>4, SubSeqType
    <3>2. \A n \in 1..(Len(window) - k + 1) : k + n - 1 \in 1..Len(window)
      BY <1>0, <1>4
    <3>. HIDE DEF w
    <3>. QED
      BY <3>1, <3>2
  <2>2. \A j \in 1..Len(window) : j < k => window[j] < c
    BY <1>0, <1>4 DEF Fresh
  <2>. HIDE DEF w
  <2>. DEFINE g == [n \in 1..Len(w) |-> f[k + n - 1]]
  <2>3. Tracks(g, w)
    <3>1. \A i, j \in 1..Len(w) : i < j => k + i - 1 < k + j - 1
      BY <1>4, <2>1
    <3>. QED
      BY <1>1, <2>1, <3>1 DEF Tracks
  <2>4. ASSUME NEW i \in 1..Len(window), i >= k PROVE \E n \in 1..Len(w) : g[n] = f[i]
    <3>1. i - k + 1 \in 1..Len(w) /\ k + (i - k + 1) - 1 = i
      BY <1>0, <1>4, <2>1, <2>4
    <3>. QED
      BY <3>1
  <2>. HIDE DEF g
  <2>5. ASSUME NEW m \in 1..Len(passed), passed[m].ok
        PROVE  \/ \E i \in 1..Len(w) : g[i] = m
               \/ passed[m].stamp < c
               \/ \E n \in 1..Len(passed) : TooOld(m, n)
    <3>1. CASE \E n \in 1..Len(passed) : TooOld(m, n)
      BY <3>1
    <3>2. ASSUME NEW i \in 1..Len(window), f[i] = m
          PROVE  passed[m].stamp < c \/ \E n \in 1..Len(w) : g[n] = m
      <4>1. CASE i < k
        <5>1. window[i] < c
          BY <2>2, <4>1
        <5>. QED
          BY <1>2, <3>2, <5>1
      <4>2. CASE i >= k
        BY <2>4, <3>2, <4>2
      <4>3. i < k \/ i >= k
        BY <1>4
      <4>. QED
        BY <4>1, <4>2, <4>3
    <3>. QED
      BY <1>1, <2>5, <3>1, <3>2
  <2>. QED
    BY <2>3, <2>5
<1>5. \/ Fresh(window, c) = {} /\ w = <<>>
      \/ \E k \in Fresh(window, c) :
           /\ k \in 1..Len(window)
           /\ \A j \in Fresh(window, c) : k <= j
           /\ w = SubSeq(window, k, Len(window))
  BY <1>0, RemainingFacts
<1>. HIDE DEF w
<1>. HIDE DEF Tracked
<1>6. Tracked
  BY <1>3, <1>4, <1>5
<1>. QED
  BY <1>6 DEF w, Tracked

(* What the last request to have the lock, with stamp s, adds to passed. *)
LEMMA CheckFacts ==
  ASSUME TypeOK, NEW r \in Requests, Check(r)
  PROVE  LET s == stamp[r]
             w == Remaining(window, s - Window)
             n == Len(passed) + 1
         IN  /\ s \in 0..clock /\ clock' = clock
             /\ w \in Seq(0..clock) /\ Len(w) \in Nat
             /\ \A i \in 1..Len(w) : w[i] \in 0..clock
             /\ window' = IF Room(w) THEN Append(w, s) ELSE w
             /\ Len(passed') = n /\ DOMAIN passed' = 1..n
             /\ \A m \in 1..Len(passed) : passed'[m] = passed[m]
             /\ passed'[n].stamp = s /\ passed'[n].ok = Room(w)
<1>. DEFINE s == stamp[r]
            w == Remaining(window, s - Window)
            x == [stamp |-> s, ok |-> Room(w)]
<1>1. s \in 0..clock /\ clock \in Nat /\ clock' = clock
  BY AdmissionConstantsOK DEF TypeOK, Check
<1>2. w \in Seq(0..clock) /\ Len(w) \in Nat
  <2>1. s - Window \in Int /\ window \in Seq(0..clock) /\ 0..clock \in SUBSET Int
    BY <1>1, PassedType
  <2>. QED
    BY <2>1, RemainingType, LenProperties
<1>3. window' = IF Room(w) THEN Append(w, s) ELSE w
  BY DEF Check
<1>4. passed' = Append(passed, x) /\ x \in [stamp : 0..clock, ok : BOOLEAN]
  BY <1>1 DEF Check, Room
<1>. HIDE DEF w
<1>5. x.stamp = s /\ x.ok = Room(w)
  OBVIOUS
<1>6. \A i \in 1..Len(w) : w[i] \in 0..clock
  BY <1>2, ElementOfSeq
<1>. HIDE DEF x
<1>7. /\ Len(passed') = Len(passed) + 1
      /\ \A m \in 1..Len(passed) : passed'[m] = passed[m]
      /\ passed'[Len(passed) + 1] = x
      /\ DOMAIN passed' = 1..(Len(passed) + 1)
  <2>1. passed \in Seq([stamp : 0..clock, ok : BOOLEAN])
    BY DEF TypeOK
  <2>2. /\ passed' \in Seq([stamp : 0..clock, ok : BOOLEAN])
        /\ Len(passed') = Len(passed) + 1
        /\ \A m \in 1..Len(passed) : passed'[m] = passed[m]
        /\ passed'[Len(passed) + 1] = x
    BY <1>4, <2>1, AppendProperties
  <2>. QED
    BY <2>2, LenProperties
<1>. HIDE DEF s
<1>8. /\ s \in 0..clock /\ clock' = clock
      /\ w \in Seq(0..clock) /\ Len(w) \in Nat
      /\ \A i \in 1..Len(w) : w[i] \in 0..clock
      /\ window' = IF Room(w) THEN Append(w, s) ELSE w
      /\ Len(passed') = Len(passed) + 1 /\ DOMAIN passed' = 1..(Len(passed) + 1)
      /\ \A m \in 1..Len(passed) : passed'[m] = passed[m]
      /\ passed'[Len(passed) + 1].stamp = s /\ passed'[Len(passed) + 1].ok = Room(w)
  BY <1>1, <1>2, <1>3, <1>5, <1>6, <1>7
<1>. QED
  BY <1>8 DEF s, w

LEMMA WindowStep ==
  ASSUME TypeOK, WindowOK, NEW r \in Requests, Check(r)
  PROVE  WindowOK'
<1>. DEFINE s == stamp[r]
            w == Remaining(window, s - Window)
            n == Len(passed) + 1
<1>1. /\ s \in 0..clock
      /\ w \in Seq(0..clock) /\ Len(w) \in Nat
      /\ \A i \in 1..Len(w) : w[i] \in 0..clock
      /\ window' = IF Room(w) THEN Append(w, s) ELSE w
      /\ Len(passed') = n
      /\ \A m \in 1..Len(passed) : passed'[m] = passed[m]
      /\ passed'[n].stamp = s /\ passed'[n].ok = Room(w)
  BY CheckFacts
<1>2. /\ Len(passed) \in Nat /\ Window \in Nat
      /\ \A m \in 1..Len(passed) : passed[m].stamp \in Int
  BY PassedType
<1>3. s \in Int
  BY <1>1
<1>. HIDE DEF s
<1>4. PICK g : /\ Tracks(g, w)
               /\ \A m \in 1..Len(passed) :
                    passed[m].ok =>
                       \/ \E i \in 1..Len(w) : g[i] = m
                       \/ passed[m].stamp < s - Window
                       \/ \E k \in 1..Len(passed) : TooOld(m, k)
  BY <1>3, RemainingTracked
<1>. HIDE DEF w
<1>5. n \in 1..Len(passed') /\ Len(passed) < n /\ 1..Len(passed) \subseteq 1..Len(passed')
  BY <1>1, <1>2
<1>. HIDE DEF n
<1>6. ASSUME NEW m \in 1..Len(passed),
             passed[m].stamp < s - Window \/ \E k \in 1..Len(passed) : TooOld(m, k)
      PROVE  \E k \in 1..Len(passed') : TooOld(m, k)'
  BY <1>1, <1>5, <1>6 DEF TooOld
<1>7. \A m \in 1..Len(passed') : m \in 1..Len(passed) \/ m = n
  BY <1>1, <1>2 DEF n
<1>8. CASE Room(w)
  <2>1. Len(window') = Len(w) + 1 /\ (\A i \in 1..Len(w) : window'[i] = w[i]) /\ window'[Len(w) + 1] = s
    BY <1>1, <1>8, AppendProperties
  <2>. DEFINE h == [i \in 1..Len(window') |-> IF i \in 1..Len(w) THEN g[i] ELSE n]
  <2>2. /\ \A i \in 1..Len(window') : i \in 1..Len(w) \/ i = Len(w) + 1
        /\ 1..Len(w) \subseteq 1..Len(window') /\ Len(w) + 1 \in 1..Len(window')
        /\ Len(w) + 1 \notin 1..Len(w)
        /\ \A i, j \in 1..Len(window') : i < j => i \in 1..Len(w)
    BY <1>1, <2>1
  <2>3. (\A i \in 1..Len(w) : h[i] = g[i]) /\ h[Len(w) + 1] = n
    BY <2>2
  <2>4. h \in [1..Len(window') -> 1..Len(passed')]
    BY <1>4, <1>5, <2>2 DEF Tracks
  <2>. HIDE DEF h
  <2>5. \A i, j \in 1..Len(window') : i < j => h[i] < h[j]
    <3>. SUFFICES ASSUME NEW i \in 1..Len(window'), NEW j \in 1..Len(window'), i < j
                  PROVE  h[i] < h[j]
      OBVIOUS
    <3>1. i \in 1..Len(w) /\ h[i] = g[i] /\ g[i] \in 1..Len(passed)
      BY <1>4, <2>2, <2>3 DEF Tracks
    <3>2. CASE j \in 1..Len(w)
      BY <1>4, <2>3, <3>1, <3>2 DEF Tracks
    <3>3. CASE j = Len(w) + 1
      <4>1. h[j] = Len(passed) + 1
        BY <2>3, <3>3 DEF n
      <4>. QED
        BY <1>2, <3>1, <4>1
    <3>. QED
      BY <2>2, <3>2, <3>3
  <2>6. \A i \in 1..Len(window') : passed'[h[i]].ok /\ passed'[h[i]].stamp = window'[i]
    <3>1. ASSUME NEW i \in 1..Len(w)
          PROVE  passed'[h[i]].ok /\ passed'[h[i]].stamp = window'[i]
      <4>1. h[i] = g[i] /\ g[i] \in 1..Len(passed) /\ passed[g[i]].ok /\ passed[g[i]].stamp = w[i]
        BY <1>4, <2>3 DEF Tracks
      <4>. QED
        BY <1>1, <2>1, <4>1
    <3>2. passed'[h[Len(w) + 1]].ok /\ passed'[h[Len(w) + 1]].stamp = window'[Len(w) + 1]
      BY <1>1, <1>8, <2>1, <2>3
    <3>. QED
      BY <2>2, <3>1, <3>2
  <2>7. ASSUME NEW m \in 1..Len(passed'), passed'[m].ok
        PROVE  \/ \E i \in 1..Len(window') : h[i] = m
               \/ \E k \in 1..Len(passed') : TooOld(m, k)'
    <3>1. CASE m = n
      BY <2>2, <2>3, <3>1
    <3>2. CASE m \in 1..Len(passed)
      <4>1. passed[m].ok
        BY <1>1, <2>7, <3>2
      <4>2. CASE \E i \in 1..Len(w) : g[i] = m
        BY <2>2, <2>3, <4>2
      <4>. QED
        BY <1>4, <1>6, <3>2, <4>1, <4>2
    <3>. QED
      BY <1>7, <3>1, <3>2
  <2>. QED
    BY <2>4, <2>5, <2>6, <2>7 DEF WindowOK, Tracks
<1>9. CASE ~Room(w)
  <2>1. window' = w
    BY <1>1, <1>9
  <2>2. /\ g \in [1..Len(w) -> 1..Len(passed')]
        /\ \A i, j \in 1..Len(w) : i < j => g[i] < g[j]
        /\ \A i \in 1..Len(w) : passed'[g[i]].ok /\ passed'[g[i]].stamp = w[i]
    BY <1>1, <1>4, <1>5 DEF Tracks
  <2>3. ASSUME NEW m \in 1..Len(passed'), passed'[m].ok
        PROVE  \/ \E i \in 1..Len(w) : g[i] = m
               \/ \E k \in 1..Len(passed') : TooOld(m, k)'
    <3>1. m \in 1..Len(passed)
      BY <1>1, <1>7, <1>9, <2>3
    <3>. QED
      BY <1>1, <1>4, <1>6, <2>3, <3>1
  <2>. QED
    BY <2>1, <2>2, <2>3 DEF WindowOK, Tracks
<1>. QED
  BY <1>8, <1>9

(* Stamps that never fall from one to the next do not fall at all. *)
LEMMA SortedStamps ==
  ASSUME TypeOK, \A m \in 1..(Len(passed) - 1) : passed[m].stamp <= passed[m + 1].stamp,
         NEW a \in 1..Len(passed), NEW b \in 1..Len(passed), a <= b
  PROVE  passed[a].stamp <= passed[b].stamp
<1>1. Len(passed) \in Nat /\ \A m \in 1..Len(passed) : passed[m].stamp \in Int
  BY PassedType
<1>. DEFINE T == {m \in a..Len(passed) : passed[m].stamp < passed[a].stamp}
<1>2. T \in SUBSET Nat
  BY <1>1
<1>3. ASSUME NEW m \in T, \A j \in T : m <= j PROVE FALSE
  <2>1. m \in 1..Len(passed) /\ m - 1 \in a..Len(passed) /\ m - 1 \in 1..(Len(passed) - 1)
        /\ passed[m].stamp < passed[a].stamp
    BY <1>1
  <2>2. m - 1 \notin T /\ (m - 1) + 1 = m /\ m - 1 \in 1..Len(passed)
    BY <1>1, <1>3, <2>1
  <2>3. passed[a].stamp <= passed[m - 1].stamp
    BY <1>1, <2>1, <2>2
  <2>4. passed[m - 1].stamp <= passed[m].stamp
    BY <2>1, <2>2
  <2>. QED
    BY <1>1, <2>1, <2>2, <2>3, <2>4
<1>. HIDE DEF T
<1>4. T = {}
  BY <1>2, <1>3, FirstExists
<1>. QED
  BY <1>1, <1>4 DEF T

(* The requests that the n-th may have to make room for. *)
LEMMA AdmittedStep ==
  ASSUME TypeOK, WindowOK, NEW r \in Requests, Check(r)
  PROVE  LET n == Len(passed) + 1
             s == stamp[r]
         IN  /\ (\A m \in 1..Len(passed) : passed[m].stamp <= s) /\ passed'[n].ok
                  => ~(Cardinality(Admitted(n, s - Window)) >= Burst)
             /\ (\A m \in 1..(Len(passed) - 1) : passed[m].stamp <= passed[m + 1].stamp)
                  /\ ~passed'[n].ok
                  => Cardinality(Admitted(n, s - Window)) >= Burst
<1>. DEFINE s == stamp[r]
            w == Remaining(window, s - Window)
            n == Len(passed) + 1
            A == Admitted(n, s - Window)
<1>1. s \in 0..clock /\ Len(w) \in Nat /\ w \in Seq(0..clock) /\ passed'[n].ok = Room(w)
      /\ \A i \in 1..Len(w) : w[i] \in 0..clock
  BY CheckFacts
<1>2. /\ Len(passed) \in Nat /\ Window \in Nat /\ Burst \in Nat
      /\ window \in Seq(0..clock) /\ clock \in Nat
      /\ \A m \in 1..Len(passed) : passed[m].stamp \in Int
  BY PassedType
<1>3. s \in Int
  BY <1>1
<1>4. PICK g : /\ Tracks(g, w)
               /\ \A m \in 1..Len(passed) :
                    passed[m].ok =>
                       \/ \E i \in 1..Len(w) : g[i] = m
                       \/ passed[m].stamp < s - Window
                       \/ \E k \in 1..Len(passed) : TooOld(m, k)
  BY <1>3, RemainingTracked
<1>5. A = {m \in 1..Len(passed) : passed[m].ok /\ passed[m].stamp >= s - Window}
  BY <1>2 DEF Admitted
<1>6. IsFiniteSet(A) /\ Cardinality(A) \in Nat
  <2>1. IsFiniteSet(1..Len(passed))
    BY <1>2, FS_Interval
  <2>. QED
    BY <1>5, <2>1, FS_Subset, FS_CardinalityType
<1>7. w = <<>> \/ (Len(w) > 0 /\ w[1] >= s - Window)
  <2>1. CASE w = <<>>
    BY <2>1
  <2>2. ASSUME NEW i \in Fresh(window, s - Window), i \in 1..Len(window),
               w = SubSeq(window, i, Len(window))
        PROVE  Len(w) > 0 /\ w[1] >= s - Window
    <3>1. Len(window) \in Nat /\ window[i] >= s - Window
      BY <1>2, LenProperties DEF Fresh
    <3>2. Len(w) = Len(window) - i + 1 /\ 1 \in 1..(Len(window) - i + 1)
          /\ \A k \in 1..(Len(window) - i + 1) : w[k] = window[i + k - 1]
      <4>1. \A S : window \in Seq(S) =>
              /\ Len(w) = Len(window) - i + 1
              /\ \A k \in 1..(Len(window) - i + 1) : w[k] = window[i + k - 1]
        BY <2>2, SubSeqType
      <4>2. 1 \in 1..(Len(window) - i + 1)
        BY <2>2, <3>1
      <4>. HIDE DEF w
      <4>. QED
        BY <1>2, <4>1, <4>2
    <3>. HIDE DEF w
    <3>3. w[1] = window[i + 1 - 1] /\ i + 1 - 1 = i
      BY <2>2, <3>2
    <3>. QED
      BY <2>2, <3>1, <3>2, <3>3
  <2>3. s - Window \in Int /\ 0..clock \in SUBSET Int
    BY <1>2, <1>3
  <2>4. \/ w = <<>>
        \/ \E i \in Fresh(window, s - Window) :
             i \in 1..Len(window) /\ w = SubSeq(window, i, Len(window))
    BY <1>2, <2>3, RemainingFacts
  <2>. HIDE DEF w
  <2>. QED
    BY <2>1, <2>2, <2>4
<1>. HIDE DEF w, s, A
<1>8. IsFiniteSet(1..Len(w)) /\ Cardinality(1..Len(w)) = Len(w)
  <2>1. PICK k \in Nat : k = Len(w)
    BY <1>1
  <2>2. IsFiniteSet(1..k) /\ Cardinality(1..k) = IF 1 > k THEN 0 ELSE k - 1 + 1
    BY FS_Interval
  <2>. QED
    BY <2>1, <2>2
<1>9. ASSUME \A m \in 1..Len(passed) : passed[m].stamp <= s, Room(w)
      PROVE  ~(Cardinality(A) >= Burst)
  <2>. DEFINE I == {g[i] : i \in 1..Len(w)}
  <2>1. A \subseteq I
    <3>. SUFFICES ASSUME NEW m \in A PROVE m \in I
      OBVIOUS
    <3>1. m \in 1..Len(passed) /\ passed[m].ok /\ passed[m].stamp >= s - Window
      BY <1>5
    <3>2. \A k \in 1..Len(passed) : ~TooOld(m, k)
      BY <1>2, <1>3, <1>9, <3>1 DEF TooOld
    <3>3. ~(passed[m].stamp < s - Window)
      BY <1>2, <1>3, <3>1
    <3>. QED
      BY <1>4, <3>1, <3>2, <3>3
  <2>2. g \in Surjection(1..Len(w), I)
    BY <1>4 DEF Tracks, Surjection
  <2>. HIDE DEF I
  <2>3. IsFiniteSet(I) /\ Cardinality(I) <= Len(w) /\ Cardinality(I) \in Nat
    BY <1>8, <2>2, FS_Surjection, FS_CardinalityType
  <2>4. Cardinality(A) <= Cardinality(I)
    BY <2>1, <2>3, FS_Subset
  <2>5. Len(w) < Burst
    BY <1>9 DEF Room
  <2>. QED
    BY <1>1, <1>2, <1>6, <2>3, <2>4, <2>5
<1>10. ASSUME \A m \in 1..(Len(passed) - 1) : passed[m].stamp <= passed[m + 1].stamp, ~Room(w)
       PROVE  Cardinality(A) >= Burst
  <2>1. Len(w) >= Burst
    BY <1>1, <1>2, <1>10 DEF Room
  <2>2. ASSUME NEW i \in 1..Len(w) PROVE g[i] \in A
    <3>1. /\ g[i] \in 1..Len(passed) /\ passed[g[i]].ok
          /\ 1 \in 1..Len(w) /\ g[1] \in 1..Len(passed) /\ passed[g[1]].stamp = w[1]
      BY <1>1, <1>4 DEF Tracks
    <3>2. w # <<>>
      BY <1>1, <2>2, EmptySeq
    <3>3. g[1] <= g[i]
      BY <1>1, <1>4, <3>1 DEF Tracks
    <3>4. passed[g[1]].stamp <= passed[g[i]].stamp
      BY <1>10, <3>1, <3>3, SortedStamps
    <3>. QED
      BY <1>2, <1>3, <1>5, <1>7, <3>1, <3>2, <3>4
  <2>3. g \in Injection(1..Len(w), A)
    <3>1. g \in [1..Len(w) -> A]
      BY <1>4, <2>2 DEF Tracks
    <3>2. ASSUME NEW i \in 1..Len(w), NEW j \in 1..Len(w), g[i] = g[j] PROVE i = j
      <4>1. g[i] \in Int /\ g[j] \in Int
        BY <1>4 DEF Tracks
      <4>2. ~(i < j) /\ ~(j < i)
        BY <1>4, <3>2, <4>1 DEF Tracks
      <4>. QED
        BY <4>2
    <3>. QED
      BY <3>1, <3>2 DEF Injection, IsInjective
  <2>4. Len(w) <= Cardinality(A)
    BY <1>6, <1>8, <2>3, FS_Injection
  <2>. QED
    BY <1>1, <1>2, <1>6, <2>1, <2>4
<1>. QED
  BY <1>1, <1>9, <1>10 DEF s, w, A

ExactAt(n) ==
  LET t == passed[n].stamp
      latest == \A m \in 1..(n - 1) : passed[m].stamp <= t
      sorted == \A m \in 1..(n - 1) : passed[m].stamp <= passed[m + 1].stamp
      full == Cardinality(Admitted(n, t - Window)) >= Burst
  IN  /\ latest /\ passed[n].ok => ~full
      /\ sorted /\ ~passed[n].ok => full

LEMMA LimiterStep ==
  ASSUME TypeOK, WindowOK, LimiterExact, NEW r \in Requests, Check(r)
  PROVE  LimiterExact'
<1>1. PICK last \in Nat, s \in Int : last = Len(passed) + 1 /\ s = stamp[r]
  BY PassedType, CheckFacts
<1>2. /\ Len(passed) \in Nat /\ DOMAIN passed = 1..Len(passed)
      /\ DOMAIN passed' = 1..last
      /\ \A m \in 1..Len(passed) : passed'[m] = passed[m]
      /\ passed'[last].stamp = s
  BY <1>1, PassedType, CheckFacts
<1>3. ASSUME NEW n \in 1..last, NEW c
      PROVE  Admitted(n, c)' = Admitted(n, c)
  <2>1. \A m \in 1..(n - 1) : m \in 1..Len(passed)
    BY <1>1, <1>2
  <2>. QED
    BY <1>2, <2>1 DEF Admitted
<1>4. ASSUME NEW n \in 1..Len(passed) PROVE ExactAt(n)'
  <2>1. ExactAt(n)
    BY <1>2 DEF LimiterExact, ExactAt
  <2>2. n \in 1..last /\ \A m \in 1..(n - 1) : m \in 1..Len(passed) /\ m + 1 \in 1..Len(passed)
    BY <1>1, <1>2
  <2>3. passed'[n] = passed[n]
    BY <1>2
  <2>4. Admitted(n, passed[n].stamp - Window)' = Admitted(n, passed[n].stamp - Window)
    BY <1>3, <2>2, <2>3 DEF Admitted
  <2>. QED
    BY <1>2, <2>1, <2>2, <2>3, <2>4 DEF ExactAt
<1>5. ExactAt(last)'
  <2>1. Admitted(last, passed[last].stamp - Window)' = Admitted(last, s - Window)
    <3>1. last \in 1..last
      BY <1>1, <1>2
    <3>2. Admitted(last, s - Window)' = Admitted(last, s - Window)
      BY <1>3, <3>1
    <3>. QED
      BY <1>2, <3>2 DEF Admitted
  <2>2. last - 1 = Len(passed)
    BY <1>1, <1>2
  <2>3. (\A m \in 1..(last - 1) : passed'[m].stamp <= s)
          => \A m \in 1..Len(passed) : passed[m].stamp <= s
    BY <1>2, <2>2
  <2>4. (\A m \in 1..(last - 1) : passed'[m].stamp <= passed'[m + 1].stamp)
          => \A m \in 1..(Len(passed) - 1) : passed[m].stamp <= passed[m + 1].stamp
    <3>1. \A m \in 1..(Len(passed) - 1) :
             m \in 1..(last - 1) /\ m \in 1..Len(passed) /\ m + 1 \in 1..Len(passed)
      BY <1>1, <1>2
    <3>. QED
      BY <1>2, <3>1
  <2>5. /\ (\A m \in 1..Len(passed) : passed[m].stamp <= s) /\ passed'[last].ok
             => ~(Cardinality(Admitted(last, s - Window)) >= Burst)
        /\ (\A m \in 1..(Len(passed) - 1) : passed[m].stamp <= passed[m + 1].stamp)
             /\ ~passed'[last].ok
             => Cardinality(Admitted(last, s - Window)) >= Burst
    BY <1>1, AdmittedStep
  <2>. QED
    BY <1>2, <2>1, <2>3, <2>4, <2>5 DEF ExactAt
<1>6. \A n \in 1..last : n \in 1..Len(passed) \/ n = last
  BY <1>1, <1>2
<1>7. \A n \in DOMAIN passed' : ExactAt(n)'
  BY <1>2, <1>4, <1>5, <1>6
<1>. QED
  BY <1>7 DEF LimiterExact, ExactAt

-----------------------------------------------------------------------------
(* Results *)

LEMMA NextIInv == IInv /\ [Next]_vars => IInv'
<1>. SUFFICES ASSUME IInv, [Next]_vars PROVE IInv'
  OBVIOUS
<1>1. TypeOK'
  BY TypeStep DEF IInv
<1>2. ASSUME UNCHANGED tokens PROVE AloneOK' /\ TokensOK'
  BY <1>2 DEF IInv, AloneOK, TokensOK, Making, tokens
<1>3. ASSUME UNCHANGED <<request, stamp, tested, alerts>> PROVE TestsOK' /\ AlertsSpaced'
  BY <1>3 DEF IInv, TestsOK, Spaced, AlertsSpaced
<1>4. ASSUME UNCHANGED <<window, passed>> PROVE WindowOK' /\ LimiterExact'
  <2>1. WindowOK /\ LimiterExact
    BY DEF IInv
  <2>2. WindowOK'
    BY <1>4, <2>1 DEF WindowOK, Tracks, TooOld
  <2>. QED
    BY <1>4, <2>1, <2>2 DEF LimiterExact, Admitted
<1>5. CASE Tick \/ UNCHANGED vars
  <2>1. UNCHANGED <<tokens, request, stamp, tested, alerts, window, passed>>
    BY <1>5 DEF Tick, vars, limiter
  <2>. QED
    BY <1>1, <1>2, <1>3, <1>4, <2>1 DEF IInv
<1>6. ASSUME NEW p \in Procs, Start(p) \/ Kill(p) PROVE IInv'
  <2>1. UNCHANGED <<request, stamp, tested, alerts, window, passed>>
    BY <1>6, StartTypes DEF IInv, limiter
  <2>2. AloneOK' /\ TokensOK'
    BY <1>6, AloneStep, TokensStep
  <2>. QED
    BY <1>1, <1>3, <1>4, <2>1, <2>2 DEF IInv
<1>7. ASSUME NEW r \in Requests, Handle(r) \/ Execute(r) PROVE IInv'
  <2>1. UNCHANGED tokens
    BY <1>7, RequestTypes DEF IInv
  <2>2. TestsOK' /\ AlertsSpaced'
    BY <1>7, TestsStep, SpacedStep
  <2>3. WindowOK' /\ LimiterExact'
    <3>1. CASE Check(r)
      BY <3>1, WindowStep, LimiterStep DEF IInv
    <3>2. CASE ~Check(r)
      <4>1. UNCHANGED <<window, passed>>
        BY <1>7, <3>2 DEF Handle, Execute, Arrive, Authorize, ScoresWell, ScoresLow, Alert, limiter
      <4>. QED
        BY <1>4, <4>1
    <3>. QED
      BY <3>1, <3>2
  <2>. QED
    BY <1>1, <1>2, <2>1, <2>2, <2>3 DEF IInv
<1>. QED
  BY <1>5, <1>6, <1>7 DEF Next

(* The variables have their types; the window of the limiter never holds   *)
(* more than Burst stamps.                                                 *)
THEOREM TypeCorrect == Spec => []TypeOK
<1>1. IInv => TypeOK
  BY DEF IInv
<1>. QED
  BY InitIInv, NextIInv, <1>1, PTL DEF Spec

(* For any processes and any kills: without a failed file operation, those *)
(* that did not race hold the token that is in the file.                   *)
THEOREM TokensDoAgree == Spec => []TokensAgree
<1>1. IInv => TokensAgree
  BY DEF IInv, TokensOK, TokensAgree
<1>. QED
  BY InitIInv, NextIInv, <1>1, PTL DEF Spec

(* For any workers and any cooldown: alerts that are too close to each     *)
(* other are the work of a test that raced.                                *)
THEOREM AlertsAreSpaced == Spec => []AlertsSpaced
<1>1. IInv => AlertsSpaced
  BY DEF IInv
<1>. QED
  BY InitIInv, NextIInv, <1>1, PTL DEF Spec

(* For any number of requests, any burst and window, and stamps that are   *)
(* out of order: the limiter admits and refuses what it should when the    *)
(* stamp is the latest, or when the stamps came in order.                  *)
THEOREM LimiterIsExact == Spec => []LimiterExact
<1>1. IInv => LimiterExact
  BY DEF IInv
<1>. QED
  BY InitIInv, NextIInv, <1>1, PTL DEF Spec
=============================================================================
