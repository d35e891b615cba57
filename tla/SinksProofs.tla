----------------------------- MODULE SinksProofs -----------------------------
(***************************************************************************)
(* Proofs about the files of the sinks, for any number of events, days and *)
(* kills: what the audit file may lose, that compression loses nothing,    *)
(* and that every event has its note.                                      *)
(***************************************************************************)
EXTENDS Sinks, FiniteSetTheorems, SequenceTheorems, TLAPS

-----------------------------------------------------------------------------
(* The inductive invariant *)

(* The copy of a sealed day is that of the day file, which is still there. *)
SealedOK ==
  phase = "sealed" => pos \in Days /\ day[pos] # NoFile /\ gz[pos] = day[pos]

(* How far the audit sink has ever got. *)
Reached == IF phase = "audit" /\ pos > passed["audit"] THEN pos ELSE passed["audit"]

Lost(d, k) == {n \in 1..k : log[n] = d /\ n \notin Readable(d)}

Torn(d) == IF torn[d] THEN 1 ELSE 0

(* A line that was torn and not joined yet will lose another event. *)
LossOK ==
  /\ phase = "audit" => pos <= Len(log)
  /\ \A d \in Days : Cardinality(Lost(d, Reached)) + Torn(d) <= tears[d] + 2 * shorts[d]
  /\ \A d \in Days : tears[d] <= kills

(* A cursor as it is now is no further than one ever was. *)
CursorsOK == \A s \in SinkNames : saved[s] <= passed[s]

(* What is handed out once more is paid for by a kill or a replacement:    *)
(* before for what the audit sink still has to write from a replaced file, *)
(* and the saved cursor counts as the first time.                          *)
One(b) == IF b THEN 1 ELSE 0

Paid(n) ==
  kills + replaced +
    (IF phase = "audit" THEN One(n <= pos) - One(size # Len(log)) ELSE One(n <= saved["audit"]))

CountOK ==
  \A d \in Days, n \in Events :
    Counted(day[d], n) <= Paid(n) /\ Counted(gz[d], n) <= Paid(n)

Partial == {n \in Events : note[n] = "partial" /\ ~(phase = "note" /\ n = pos + 1)}

NotesOK ==
  /\ \A n \in 1..passed["obsidian"] : note[n] # "none"
  /\ phase \in {"obsidian", "note"} =>
       pos <= Len(log) /\ \A n \in 1..pos : note[n] # "none"
  /\ phase = "note" => pos < Len(log) /\ note[pos + 1] = "partial"
  /\ Cardinality(Partial) <= kills

IInv == TypeOK /\ SealedOK /\ CursorsOK /\ LossOK /\ CountOK /\ NotesOK

-----------------------------------------------------------------------------
(* Files *)

LEMMA LinesType ==
  ASSUME NEW f \in File
  PROVE  Lines(f) \in Seq(0..MaxEvents) /\ (f # NoFile => Lines(f) = f)
<1>1. <<>> \in Seq(0..MaxEvents)
  BY EmptySeq
<1>. QED
  BY <1>1 DEF File, Lines

(* How often a line is in a sequence of lines. *)
LEMMA CountType ==
  ASSUME NEW l \in Seq(0..MaxEvents), NEW n
  PROVE  Cardinality({i \in DOMAIN l : l[i] = n}) \in Nat
<1>1. IsFiniteSet(1..Len(l)) /\ {i \in DOMAIN l : l[i] = n} \subseteq 1..Len(l)
  <2>1. Len(l) \in Nat /\ DOMAIN l = 1..Len(l)
    OBVIOUS
  <2>. QED
    BY <2>1, FS_Interval
<1>. QED
  BY <1>1, FS_Subset, FS_CardinalityType

LEMMA CountAppend ==
  ASSUME NEW l \in Seq(0..MaxEvents), NEW e \in 0..MaxEvents, NEW n
  PROVE  /\ Cardinality({i \in DOMAIN l : l[i] = n}) \in Nat
         /\ Cardinality({i \in DOMAIN Append(l, e) : Append(l, e)[i] = n})
              <= Cardinality({i \in DOMAIN l : l[i] = n}) + One(e = n)
<1>. DEFINE A == {i \in DOMAIN l : l[i] = n}
            g == Append(l, e)
            B == {i \in DOMAIN g : g[i] = n}
<1>1. /\ Len(l) \in Nat /\ DOMAIN l = 1..Len(l) /\ DOMAIN g = 1..(Len(l) + 1)
      /\ \A i \in 1..Len(l) : g[i] = l[i]
      /\ g[Len(l) + 1] = e
  BY AppendProperties
<1>2. IsFiniteSet(A) /\ Cardinality(A) \in Nat
  <2>1. IsFiniteSet(1..Len(l)) /\ A \subseteq 1..Len(l)
    BY <1>1, FS_Interval
  <2>. QED
    BY <2>1, FS_Subset, FS_CardinalityType
<1>. HIDE DEF g
<1>3. CASE e = n
  <2>1. B = A \union {Len(l) + 1} /\ Len(l) + 1 \notin A
    BY <1>1, <1>3
  <2>2. Cardinality(B) = Cardinality(A) + 1
    <3>. HIDE DEF A, B
    <3>. QED
      BY <1>2, <2>1, FS_AddElement
  <2>3. Cardinality(B) <= Cardinality(A) + One(e = n)
    <3>. HIDE DEF A, B
    <3>. QED
      BY <1>2, <1>3, <2>2 DEF One
  <2>. QED
    BY <1>2, <2>3 DEF g
<1>4. CASE e # n
  <2>1. B = A
    BY <1>1, <1>4
  <2>2. Cardinality(B) <= Cardinality(A) + One(e = n)
    <3>. HIDE DEF A, B
    <3>. QED
      BY <1>2, <1>4, <2>1 DEF One
  <2>. QED
    BY <1>2, <2>2 DEF g
<1>. QED
  BY <1>3, <1>4

LEMMA CountedType ==
  ASSUME NEW f \in File, NEW n
  PROVE  Counted(f, n) \in Nat /\ Counted(NoFile, n) = 0 /\ Counted(Lines(f), n) = Counted(f, n)
<1>1. Lines(f) \in Seq(0..MaxEvents) /\ Lines(Lines(f)) = Lines(f)
  BY LinesType DEF Lines
<1>2. Counted(f, n) \in Nat
  BY <1>1, CountType DEF Counted
<1>3. Counted(NoFile, n) = 0
  <2>1. {i \in DOMAIN Lines(NoFile) : Lines(NoFile)[i] = n} = {}
    BY DEF Lines
  <2>. QED
    BY <2>1, FS_EmptySet DEF Counted
<1>. QED
  BY <1>1, <1>2, <1>3 DEF Counted

(* What an append makes of a file: the lines that were there stay, and the *)
(* new one is the event, unless part of a line precedes it.                *)
LEMMA AppendedFacts ==
  ASSUME NEW f \in File, NEW isTorn \in BOOLEAN, NEW n \in Events
  PROVE  LET g == Appended(f, isTorn, n) IN
         /\ g \in File /\ g # NoFile /\ Lines(g) = g
         /\ Range(Lines(f)) \subseteq Range(g)
         /\ ~isTorn => Range(g) = Range(Lines(f)) \union {n}
         /\ \A m \in Events : Counted(g, m) <= Counted(f, m) + One(m = n)
<1>. DEFINE l == Lines(f)
            e == IF isTorn THEN Unreadable ELSE n
            g == Appended(f, isTorn, n)
<1>. USE SinksConstantsOK
<1>1. l \in Seq(0..MaxEvents) /\ e \in 0..MaxEvents
  BY LinesType DEF Events, Unreadable
<1>2. g = Append(l, e)
  BY DEF Appended
<1>7. /\ ~isTorn => e = n
      /\ \A m \in Events : e = m => m = n
  BY DEF e, Unreadable, Events
<1>. HIDE DEF l, e, g
<1>3. /\ g \in Seq(0..MaxEvents) /\ Len(g) = Len(l) + 1 /\ Len(l) \in Nat
      /\ \A i \in 1..Len(l) : g[i] = l[i]
      /\ g[Len(l) + 1] = e
      /\ DOMAIN g = 1..(Len(l) + 1) /\ DOMAIN l = 1..Len(l)
  BY <1>1, <1>2, AppendProperties
<1>4. g \in File /\ g # NoFile /\ Lines(g) = g
  <2>1. g \in Seq(Nat)
    BY <1>3
  <2>. QED
    BY <1>3, <2>1 DEF File, Lines
<1>5. Range(g) = Range(l) \union {e}
  BY <1>3 DEF Range
<1>6. \A m \in Events : Counted(g, m) <= Counted(f, m) + One(m = n)
  <2>. TAKE m \in Events
  <2>1. /\ Cardinality({i \in DOMAIN l : l[i] = m}) \in Nat
        /\ Cardinality({i \in DOMAIN Append(l, e) : Append(l, e)[i] = m})
              <= Cardinality({i \in DOMAIN l : l[i] = m}) + One(e = m)
    BY <1>1, CountAppend
  <2>2. Counted(f, m) = Cardinality({i \in DOMAIN l : l[i] = m})
    BY DEF Counted, l
  <2>3. Counted(g, m) = Cardinality({i \in DOMAIN Append(l, e) : Append(l, e)[i] = m})
    BY <1>2, <1>4 DEF Counted
  <2>4. Counted(f, m) \in Nat /\ Counted(g, m) <= Counted(f, m) + One(e = m)
    BY <2>1, <2>2, <2>3
  <2>5. Counted(g, m) \in Nat
    BY <1>4, CountedType
  <2>. QED
    BY <1>7, <2>4, <2>5 DEF One
<1>. QED
  BY <1>4, <1>5, <1>6, <1>7 DEF l, g

(* The event that the audit sink writes next, and its day. *)
LEMMA NextEvent ==
  ASSUME TypeOK, pos < size
  PROVE  /\ pos + 1 \in Events /\ pos + 1 \in 1..Len(log)
         /\ log[pos + 1] \in Days
         /\ day[log[pos + 1]] \in File /\ torn[log[pos + 1]] \in BOOLEAN
<1>1. pos + 1 \in Events /\ pos + 1 \in 1..Len(log)
  BY SinksConstantsOK DEF TypeOK, Events
<1>2. log[pos + 1] \in Days
  BY <1>1, ElementOfSeq DEF TypeOK
<1>. QED
  BY <1>1, <1>2 DEF TypeOK

(* The day that the compression seals. *)
LEMMA SealedDay ==
  ASSUME TypeOK, pos < cutoff
  PROVE  pos \in Days
BY SinksConstantsOK DEF TypeOK, Days

-----------------------------------------------------------------------------
LEMMA InitIInv == Init => IInv
<1>. SUFFICES ASSUME Init PROVE IInv
  OBVIOUS
<1>. USE SinksConstantsOK DEF Init
<1>2. TypeOK
  BY EmptySeq DEF TypeOK, File, Days, Events, SinkNames
<1>3. LossOK
  <2>1. Reached = 0 /\ Len(log) = 0 /\ pos = 0
    BY DEF Reached, SinkNames
  <2>2. ASSUME NEW d \in Days
        PROVE  /\ Cardinality(Lost(d, Reached)) = 0 /\ Torn(d) = 0
               /\ tears[d] = 0 /\ shorts[d] = 0
    <3>1. Lost(d, Reached) = {}
      BY <2>1 DEF Lost
    <3>. QED
      BY <3>1, FS_EmptySet DEF Torn
  <2>. QED
    BY <2>1, <2>2 DEF LossOK
<1>4. NotesOK
  <2>1. Partial = {}
    BY DEF Partial
  <2>. QED
    BY <2>1, FS_EmptySet DEF NotesOK, SinkNames
<1>5. CountOK
  <2>. SUFFICES ASSUME NEW d \in Days, NEW n \in Events
                PROVE  Counted(day[d], n) <= Paid(n) /\ Counted(gz[d], n) <= Paid(n)
    BY DEF CountOK
  <2>1. Paid(n) = 0
    BY DEF Paid, One, Events
  <2>2. day[d] = NoFile /\ gz[d] = NoFile /\ NoFile \in File
    BY DEF File
  <2>3. Counted(NoFile, n) = 0
    BY <2>2, CountedType
  <2>. QED
    BY <2>1, <2>2, <2>3
<1>. QED
  BY <1>2, <1>3, <1>4, <1>5 DEF IInv, SealedOK, CursorsOK

(* The types that are about numbers and the log, one by one. *)
LEMMA TypeFacts ==
  ASSUME TypeOK
  PROVE  /\ Len(log) \in Nat /\ Len(log) <= MaxEvents /\ log \in Seq(Days)
         /\ size \in Nat /\ size <= Len(log) /\ pos \in Nat
         /\ \A s \in SinkNames : /\ saved[s] \in Nat /\ saved[s] <= Len(log)
                                 /\ passed[s] \in Nat /\ passed[s] <= Len(log)
         /\ saved \in [SinkNames -> Nat] /\ passed \in [SinkNames -> Nat]
         /\ kills \in Nat /\ replaced \in Nat /\ today \in Nat /\ cutoff \in Nat
         /\ \A d \in Days : tears[d] \in Nat /\ shorts[d] \in Nat
<1>1. Len(log) \in Nat /\ Len(log) <= MaxEvents /\ log \in Seq(Days)
  BY DEF TypeOK
<1>2. size \in 0..Len(log) /\ pos \in Nat /\ today \in Nat /\ cutoff \in Nat
  BY DEF TypeOK, Days
<1>3. saved \in [SinkNames -> 0..Len(log)] /\ passed \in [SinkNames -> 0..Len(log)]
  BY DEF TypeOK
<1>4. /\ kills \in Nat /\ replaced \in Nat
      /\ \A d \in Days : tears[d] \in Nat /\ shorts[d] \in Nat
  BY DEF TypeOK
<1>. QED
  BY <1>1, <1>2, <1>3, <1>4

(* The parts of the type invariant, as each group of actions changes them. *)
CursorTypes ==
  /\ log \in Seq(Days) /\ Len(log) <= MaxEvents
  /\ pos \in Nat /\ size \in 0..Len(log)
  /\ saved \in [SinkNames -> 0..Len(log)] /\ passed \in [SinkNames -> 0..Len(log)]

FileTypes ==
  /\ day \in [Days -> File] /\ torn \in [Days -> BOOLEAN]
  /\ gz \in [Days -> File]

OtherTypes ==
  /\ today \in Days /\ cutoff \in 0..today
  /\ phase \in {"audit", "obsidian", "note", "roll", "sealed", "down"}
  /\ note \in [Events -> {"none", "partial", "whole"}]
  /\ replaced \in 0..MaxReplaced

MishapTypes ==
  /\ kills \in 0..MaxKills
  /\ tears \in [Days -> 0..MaxKills] /\ shorts \in [Days -> 0..MaxShorts]

LEMMA CursorTypesStep ==
  ASSUME IInv, [Next]_vars
  PROVE  CursorTypes'
<1>. USE SinksConstantsOK DEF env, cursors, audit, mishaps
<1>0. /\ TypeOK
      /\ Len(log) \in Nat /\ Len(log) <= MaxEvents /\ log \in Seq(Days)
      /\ size \in Nat /\ size <= Len(log) /\ pos \in Nat
      /\ saved \in [SinkNames -> 0..Len(log)] /\ passed \in [SinkNames -> 0..Len(log)]
      /\ today \in Days
  BY TypeFacts DEF IInv, TypeOK
<1>1. CASE Emit \/ EmitReplacing
  <2>1. log' = Append(log, today) /\ Len(log) < MaxEvents
    BY <1>1 DEF Emit, EmitReplacing
  <2>2. log' \in Seq(Days) /\ Len(log') = Len(log) + 1 /\ Len(log') <= MaxEvents
    BY <1>0, <2>1, AppendProperties
  <2>3. /\ pos' = pos /\ passed' = passed
        /\ size' \in {size, size + 1}
        /\ saved' \in {saved, [s \in SinkNames |-> 0]}
    BY <1>1 DEF Emit, EmitReplacing
  <2>4. size' \in 0..Len(log')
    BY <1>0, <2>2, <2>3
  <2>5. passed' \in [SinkNames -> 0..Len(log')] /\ saved' \in [SinkNames -> 0..Len(log')]
    BY <1>0, <2>2, <2>3
  <2>. QED
    BY <1>0, <2>2, <2>3, <2>4, <2>5 DEF CursorTypes
<1>2. CASE AuditEnd \/ ObsidianEnd
  <2>1. PICK s \in SinkNames : SaveCursor(s)
    BY <1>2 DEF AuditEnd, ObsidianEnd, SinkNames
  <2>2. log' = log /\ pos = size /\ size' \in {size, Len(log)} /\ pos' \in {0, saved["obsidian"]}
    BY <1>2 DEF AuditEnd, ObsidianEnd, Open
  <2>3. saved' \in [SinkNames -> 0..Len(log)] /\ passed' \in [SinkNames -> 0..Len(log)]
    BY <1>0, <2>1, <2>2 DEF SaveCursor
  <2>4. pos' \in Nat /\ size' \in 0..Len(log)
    BY <1>0, <2>2 DEF SinkNames
  <2>. QED
    BY <1>0, <2>2, <2>3, <2>4 DEF CursorTypes
<1>3. CASE RollEnd \/ Restart
  <2>1. /\ log' = log /\ saved' = saved /\ passed' = passed
        /\ pos' = saved["audit"] /\ size' = Len(log)
    BY <1>3 DEF RollEnd, Restart, Open
  <2>. QED
    BY <1>0, <2>1 DEF CursorTypes, SinkNames
<1>4. CASE \/ Midnight \/ AuditWrite \/ AuditWriteKilled \/ AuditWriteShort \/ NoteCreate
           \/ NoteWrite \/ NoteExists \/ Seal \/ RemoveDay \/ SkipDay \/ Kill \/ UNCHANGED vars
  <2>1. /\ log' = log /\ saved' = saved /\ passed' = passed /\ size' = size
        /\ pos' \in {pos, pos + 1}
    BY <1>4 DEF Midnight, AuditWrite, AuditWriteKilled, AuditWriteShort, NoteCreate,
       NoteWrite, NoteExists, Seal, RemoveDay, SkipDay, Kill, vars
  <2>. QED
    BY <1>0, <2>1 DEF CursorTypes
<1>. QED
  BY <1>1, <1>2, <1>3, <1>4 DEF Next, Daemon

LEMMA FileTypesStep ==
  ASSUME IInv, [Next]_vars
  PROVE  FileTypes'
<1>. USE DEF env, audit
<1>0. /\ TypeOK
      /\ day \in [Days -> File] /\ torn \in [Days -> BOOLEAN] /\ gz \in [Days -> File]
      /\ NoFile \in File
  BY DEF IInv, TypeOK, File
<1>1. CASE AuditWrite
  <2>1. PICK d \in Days, n \in Events :
          /\ day'  = [day EXCEPT ![d] = Appended(@, torn[d], n)]
          /\ torn' = [torn EXCEPT ![d] = FALSE]
          /\ gz' = gz
    BY <1>0, <1>1, NextEvent DEF AuditWrite
  <2>2. Appended(day[d], torn[d], n) \in File
    BY <1>0, AppendedFacts
  <2>. QED
    BY <1>0, <2>1, <2>2 DEF FileTypes
<1>2. CASE AuditWriteKilled \/ AuditWriteShort
  <2>1. PICK d \in Days : Tear(d) /\ gz' = gz
    BY <1>0, <1>2, NextEvent DEF AuditWriteKilled, AuditWriteShort
  <2>2. Lines(day[d]) \in File
    BY <1>0, LinesType DEF File
  <2>. QED
    BY <1>0, <2>1, <2>2 DEF FileTypes, Tear
<1>3. CASE Seal
  BY <1>0, <1>3, SealedDay DEF Seal, FileTypes
<1>4. CASE RemoveDay
  BY <1>0, <1>4 DEF RemoveDay, FileTypes
<1>5. CASE \/ Emit \/ EmitReplacing \/ Midnight \/ AuditEnd \/ NoteCreate \/ NoteWrite \/ NoteExists
           \/ ObsidianEnd \/ SkipDay \/ RollEnd \/ Kill \/ Restart \/ UNCHANGED vars
  <2>1. UNCHANGED <<day, torn, gz>>
    BY <1>5 DEF Emit, EmitReplacing, Midnight, AuditEnd, NoteCreate, NoteWrite, NoteExists,
       ObsidianEnd, SkipDay, RollEnd, Kill, Restart, vars
  <2>. QED
    BY <1>0, <2>1 DEF FileTypes
<1>. QED
  BY <1>1, <1>2, <1>3, <1>4, <1>5 DEF Next, Daemon

LEMMA OtherTypesStep ==
  ASSUME IInv, [Next]_vars
  PROVE  OtherTypes'
<1>. USE SinksConstantsOK DEF env
<1>0. OtherTypes
  BY DEF IInv, TypeOK, OtherTypes
<1>1. today' \in Days /\ cutoff' \in 0..today'
  BY <1>0 DEF OtherTypes, Days, Next, Daemon, Emit, EmitReplacing, Midnight, AuditWrite,
     AuditWriteShort, AuditWriteKilled, AuditEnd, NoteCreate, NoteWrite, NoteExists, ObsidianEnd,
     Seal, RemoveDay, SkipDay, RollEnd, Kill, Restart, vars
<1>2. phase' \in {"audit", "obsidian", "note", "roll", "sealed", "down"}
  BY <1>0 DEF OtherTypes, Next, Daemon, Emit, EmitReplacing, Midnight, AuditWrite,
     AuditWriteShort, AuditWriteKilled, AuditEnd, NoteCreate, NoteWrite, NoteExists, ObsidianEnd,
     Seal, RemoveDay, SkipDay, RollEnd, Kill, Restart, Open, vars
<1>3. note' \in [Events -> {"none", "partial", "whole"}]
  BY <1>0 DEF OtherTypes, Next, Daemon, Emit, EmitReplacing, Midnight, AuditWrite,
     AuditWriteShort, AuditWriteKilled, AuditEnd, NoteCreate, NoteWrite, NoteExists, ObsidianEnd,
     Seal, RemoveDay, SkipDay, RollEnd, Kill, Restart, vars
<1>4. replaced' \in 0..MaxReplaced
  BY <1>0 DEF OtherTypes, Next, Daemon, Emit, EmitReplacing, Midnight, AuditWrite,
     AuditWriteShort, AuditWriteKilled, AuditEnd, NoteCreate, NoteWrite, NoteExists, ObsidianEnd,
     Seal, RemoveDay, SkipDay, RollEnd, Kill, Restart, vars
<1>. QED
  BY <1>1, <1>2, <1>3, <1>4 DEF OtherTypes

LEMMA MishapTypesStep ==
  ASSUME IInv, [Next]_vars
  PROVE  MishapTypes'
<1>. USE SinksConstantsOK DEF mishaps
<1>0. TypeOK /\ MishapTypes /\ \A d \in Days : tears[d] <= kills
  BY DEF IInv, LossOK, TypeOK, MishapTypes
<1>1. CASE AuditWriteKilled
  <2>1. PICK d \in Days : tears' = [tears EXCEPT ![d] = @ + 1]
    BY <1>0, <1>1, NextEvent DEF AuditWriteKilled
  <2>2. kills < MaxKills /\ kills' = kills + 1 /\ shorts' = shorts
    BY <1>1 DEF AuditWriteKilled
  <2>. QED
    BY <1>0, <2>1, <2>2 DEF MishapTypes
<1>2. CASE AuditWriteShort
  <2>1. PICK d \in Days : shorts[d] < MaxShorts /\ shorts' = [shorts EXCEPT ![d] = @ + 1]
    BY <1>0, <1>2, NextEvent DEF AuditWriteShort
  <2>. QED
    BY <1>0, <1>2, <2>1 DEF MishapTypes, AuditWriteShort
<1>3. CASE Kill
  BY <1>0, <1>3 DEF MishapTypes, Kill
<1>4. CASE \/ Emit \/ EmitReplacing \/ Midnight \/ AuditWrite \/ AuditEnd \/ NoteCreate
           \/ NoteWrite \/ NoteExists \/ ObsidianEnd \/ Seal \/ RemoveDay \/ SkipDay \/ RollEnd
           \/ Restart \/ UNCHANGED vars
  <2>1. UNCHANGED <<kills, tears, shorts>>
    BY <1>4 DEF Emit, EmitReplacing, Midnight, AuditWrite, AuditEnd, NoteCreate, NoteWrite,
       NoteExists, ObsidianEnd, Seal, RemoveDay, SkipDay, RollEnd, Restart, vars
  <2>. QED
    BY <1>0, <2>1 DEF MishapTypes
<1>. QED
  BY <1>1, <1>2, <1>3, <1>4 DEF Next, Daemon

LEMMA TypeStep ==
  ASSUME IInv, [Next]_vars
  PROVE  TypeOK'
BY CursorTypesStep, FileTypesStep, OtherTypesStep, MishapTypesStep
   DEF TypeOK, CursorTypes, FileTypes, OtherTypes, MishapTypes

LEMMA SealedStep ==
  ASSUME IInv, [Next]_vars
  PROVE  SealedOK'
<1>1. CASE Seal
  BY <1>1, SealedDay DEF IInv, TypeOK, SealedOK, Seal, Sealable, audit
<1>. QED
  BY <1>1 DEF IInv, SealedOK, Next, Daemon, vars, env, audit, Emit, EmitReplacing, Midnight,
     AuditWrite, AuditWriteShort, AuditWriteKilled, AuditEnd, NoteCreate, NoteWrite, NoteExists,
     ObsidianEnd, RemoveDay, SkipDay, RollEnd, Kill, Restart, Open

LEMMA CursorsStep ==
  ASSUME IInv, [Next]_vars
  PROVE  CursorsOK'
<1>. USE DEF IInv, TypeOK, CursorsOK, env, cursors, SinkNames
<1>1. CASE EmitReplacing
  BY <1>1 DEF EmitReplacing
<1>2. CASE AuditEnd \/ ObsidianEnd
  BY <1>2 DEF AuditEnd, ObsidianEnd, SaveCursor
<1>3. CASE [Next]_vars /\ ~EmitReplacing /\ ~AuditEnd /\ ~ObsidianEnd
  <2>1. UNCHANGED <<saved, passed>>
    BY <1>3 DEF Next, Daemon, vars, Emit, Midnight, AuditWrite, AuditWriteShort, AuditWriteKilled,
       NoteCreate, NoteWrite, NoteExists, Seal, RemoveDay, SkipDay, RollEnd, Kill, Restart
  <2>. QED
    BY <2>1
<1>. QED
  BY <1>1, <1>2, <1>3

(* What every step keeps in the files of a day. *)
LEMMA FilesStep ==
  ASSUME IInv, [Next]_vars, NEW d \in Days
  PROVE  Readable(d) \subseteq Readable(d)'
<1>. USE SinksConstantsOK DEF IInv, env, audit
<1>1. CASE AuditWrite
  <2>1. CASE log[pos + 1] = d
    <3>1. Range(Lines(day[d])) \subseteq Range(Lines(day'[d]))
      <4>1. day'[d] = Appended(day[d], torn[d], pos + 1)
        BY <1>1, <2>1 DEF TypeOK, AuditWrite
      <4>. QED
        BY <1>1, <2>1, <4>1, NextEvent, AppendedFacts DEF AuditWrite
    <3>. QED
      BY <1>1, <3>1 DEF AuditWrite, Readable
  <2>2. CASE log[pos + 1] # d
    BY <1>1, <2>2 DEF TypeOK, AuditWrite, Readable
  <2>. QED
    BY <2>1, <2>2
<1>2. CASE AuditWriteKilled \/ AuditWriteShort
  <2>1. Lines(day'[d]) = Lines(day[d])
    <3>1. Lines(Lines(day[d])) = Lines(day[d])
      BY DEF Lines
    <3>. QED
      BY <1>2, <3>1 DEF TypeOK, AuditWriteKilled, AuditWriteShort, Tear
  <2>. QED
    BY <1>2, <2>1 DEF AuditWriteKilled, AuditWriteShort, Readable
<1>3. CASE Seal
  <2>1. CASE pos = d
    BY <1>3, <2>1 DEF TypeOK, Seal, Sealable, Readable, Lines, Range
  <2>2. CASE pos # d
    BY <1>3, <2>2 DEF TypeOK, Seal, Readable
  <2>. QED
    BY <2>1, <2>2
<1>4. CASE RemoveDay
  <2>1. CASE pos = d
    BY <1>4, <2>1 DEF TypeOK, SealedOK, RemoveDay, Readable
  <2>2. CASE pos # d
    BY <1>4, <2>2 DEF TypeOK, RemoveDay, Readable
  <2>. QED
    BY <2>1, <2>2
<1>. QED
  BY <1>1, <1>2, <1>3, <1>4 DEF Next, Daemon, vars, Emit, EmitReplacing, Midnight, AuditEnd,
     NoteCreate, NoteWrite, NoteExists, ObsidianEnd, SkipDay, RollEnd, Kill, Restart, Readable

-----------------------------------------------------------------------------
(* What the audit files may lose *)

LEMMA LostFinite ==
  ASSUME NEW d, NEW k \in Nat
  PROVE  IsFiniteSet(Lost(d, k)) /\ Cardinality(Lost(d, k)) \in Nat
<1>1. IsFiniteSet(1..k) /\ Lost(d, k) \subseteq 1..k
  BY FS_Interval DEF Lost
<1>. QED
  BY <1>1, FS_Subset, FS_CardinalityType

LEMMA LostSmaller ==
  ASSUME NEW S, NEW T, IsFiniteSet(T), S \subseteq T
  PROVE  Cardinality(S) <= Cardinality(T) /\ Cardinality(S) \in Nat /\ Cardinality(T) \in Nat
BY FS_Subset, FS_CardinalityType

(* How far the audit sink has got, in numbers. *)
LEMMA ReachedType ==
  ASSUME IInv
  PROVE  /\ Reached \in Nat /\ Reached <= Len(log) /\ Len(log) \in Nat
         /\ passed["audit"] \in Nat /\ passed["audit"] <= Reached
         /\ phase = "audit" => pos <= Reached
<1>1. /\ Len(log) \in Nat /\ pos \in Nat
      /\ passed["audit"] \in Nat /\ passed["audit"] <= Len(log)
      /\ phase = "audit" => pos <= Len(log)
  BY TypeFacts DEF IInv, LossOK, SinkNames
<1>2. CASE phase = "audit" /\ pos > passed["audit"]
  <2>1. Reached = pos
    BY <1>2 DEF Reached
  <2>. QED
    BY <1>1, <1>2, <2>1
<1>3. CASE phase # "audit" \/ pos <= passed["audit"]
  <2>1. Reached = passed["audit"]
    BY <1>1, <1>3 DEF Reached
  <2>. QED
    BY <1>1, <1>3, <2>1
<1>. QED
  BY <1>1, <1>2, <1>3

(* A step of the bridge, or of another sink, or of the compression. *)
LEMMA QuietLoss ==
  ASSUME IInv, [Next]_vars, Reached' <= Reached, Reached' \in Nat,
         phase' = "audit" => pos' <= Len(log'),
         tears' = tears, shorts' = shorts, kills <= kills',
         \A d \in Days : torn'[d] => torn[d],
         \A n \in 1..Len(log) : log'[n] = log[n], Len(log) <= Len(log')
  PROVE  LossOK'
<1>. USE DEF IInv
<1>1. Reached \in Nat /\ Reached <= Len(log) /\ Len(log) \in Nat /\ Len(log') \in Nat
  <2>1. Reached \in Nat /\ Reached <= Len(log) /\ Len(log) \in Nat
    BY ReachedType
  <2>2. log' \in Seq(Days)
    BY TypeStep DEF TypeOK
  <2>. QED
    BY <2>1, <2>2
<1>2. ASSUME NEW d \in Days
      PROVE  /\ Cardinality(Lost(d, Reached)') + Torn(d)' <= tears[d] + 2 * shorts[d]
             /\ tears[d] <= kills'
  <2>1. Lost(d, Reached)' \subseteq Lost(d, Reached)
    <3>1. Readable(d) \subseteq Readable(d)'
      BY FilesStep
    <3>. QED
      BY <1>1, <3>1 DEF Lost
  <2>2. /\ Cardinality(Lost(d, Reached)') <= Cardinality(Lost(d, Reached))
        /\ Cardinality(Lost(d, Reached)') \in Nat /\ Cardinality(Lost(d, Reached)) \in Nat
    BY <1>1, <2>1, LostFinite, LostSmaller
  <2>3. Torn(d)' <= Torn(d) /\ Torn(d)' \in Nat /\ Torn(d) \in Nat
    BY DEF Torn
  <2>4. /\ Cardinality(Lost(d, Reached)) + Torn(d) <= tears[d] + 2 * shorts[d]
        /\ tears[d] <= kills
    BY DEF LossOK
  <2>5. tears[d] \in Nat /\ shorts[d] \in Nat /\ kills \in Nat /\ kills' \in Nat
    BY TypeStep, SinksConstantsOK DEF TypeOK
  <2>. QED
    BY <2>2, <2>3, <2>4, <2>5
<1>3. (\A d \in Days : Cardinality(Lost(d, Reached)) + Torn(d) <= tears[d] + 2 * shorts[d])'
  BY <1>2
<1>. QED
  BY <1>1, <1>2, <1>3 DEF LossOK

(* One more event may be missing after a write. *)
LEMMA LostOneMore ==
  ASSUME IInv, [Next]_vars, NEW e \in Days, NEW k \in Nat, k <= Reached + 1, NEW n,
         log' = log, k <= Len(log), n = k \/ k <= Reached
  PROVE  /\ Lost(e, k)' \subseteq Lost(e, Reached) \union {n}
         /\ Cardinality(Lost(e, k)') \in Nat /\ Cardinality(Lost(e, Reached)) \in Nat
         /\ Cardinality(Lost(e, k)') <= Cardinality(Lost(e, Reached)) + 1
         /\ n \notin Lost(e, k)' => Cardinality(Lost(e, k)') <= Cardinality(Lost(e, Reached))
<1>1. Reached \in Nat /\ Reached <= Len(log)
  BY ReachedType
<1>2. Lost(e, k)' \subseteq Lost(e, Reached) \union {n}
  <2>1. Readable(e) \subseteq Readable(e)'
    BY FilesStep
  <2>. QED
    BY <1>1, <2>1 DEF Lost
<1>3. IsFiniteSet(Lost(e, Reached)) /\ Cardinality(Lost(e, Reached)) \in Nat
  BY <1>1, LostFinite
<1>4. /\ IsFiniteSet(Lost(e, Reached) \union {n})
      /\ Cardinality(Lost(e, Reached) \union {n}) =
           IF n \in Lost(e, Reached) THEN Cardinality(Lost(e, Reached))
                                      ELSE Cardinality(Lost(e, Reached)) + 1
  BY <1>3, FS_AddElement
<1>5. /\ Cardinality(Lost(e, k)') <= Cardinality(Lost(e, Reached) \union {n})
      /\ Cardinality(Lost(e, k)') \in Nat
  BY <1>2, <1>4, LostSmaller
<1>6. n \notin Lost(e, k)' => Cardinality(Lost(e, k)') <= Cardinality(Lost(e, Reached))
  <2>. SUFFICES ASSUME n \notin Lost(e, k)'
                PROVE  Cardinality(Lost(e, k)') <= Cardinality(Lost(e, Reached))
    OBVIOUS
  <2>1. Lost(e, k)' \subseteq Lost(e, Reached)
    BY <1>2
  <2>. QED
    BY <1>3, <2>1, LostSmaller
<1>. QED
  BY <1>2, <1>3, <1>4, <1>5, <1>6

LEMMA AuditWriteLoss ==
  ASSUME IInv, AuditWrite
  PROVE  LossOK'
<1>. USE SinksConstantsOK DEF IInv
<1>. DEFINE d == log[pos + 1]
<1>1. /\ pos + 1 \in Events /\ pos + 1 \in 1..Len(log) /\ d \in Days
      /\ day[d] \in File /\ torn[d] \in BOOLEAN
  BY NextEvent DEF AuditWrite
<1>2. /\ phase = "audit" /\ phase' = "audit" /\ pos' = pos + 1 /\ pos \in Nat
      /\ day' = [day EXCEPT ![d] = Appended(@, torn[d], pos + 1)]
      /\ torn' = [torn EXCEPT ![d] = FALSE]
      /\ UNCHANGED <<log, passed, gz, kills, tears, shorts>>
      /\ [Next]_vars
  BY DEF AuditWrite, TypeOK, env, cursors, mishaps, Next, Daemon
<1>3. PICK k : k = Reached'
  OBVIOUS
<1>4. /\ k \in Nat /\ k <= Reached + 1 /\ k <= Len(log) /\ (pos + 1 = k \/ k <= Reached)
      /\ pos + 1 <= k
  BY <1>1, <1>2, <1>3, ReachedType DEF Reached
<1>5. ASSUME NEW e \in Days
      PROVE  Cardinality(Lost(e, k)') + Torn(e)' <= tears[e] + 2 * shorts[e]
  <2>1. /\ Cardinality(Lost(e, k)') \in Nat /\ Cardinality(Lost(e, Reached)) \in Nat
        /\ Cardinality(Lost(e, k)') <= Cardinality(Lost(e, Reached)) + 1
        /\ pos + 1 \notin Lost(e, k)' => Cardinality(Lost(e, k)') <= Cardinality(Lost(e, Reached))
    BY <1>2, <1>4, LostOneMore
  <2>2. /\ Cardinality(Lost(e, Reached)) + Torn(e) <= tears[e] + 2 * shorts[e]
        /\ tears[e] \in Nat /\ shorts[e] \in Nat
    BY DEF LossOK, TypeOK
  <2>3. torn'[e] <=> (e # d /\ torn[e])
    BY <1>1, <1>2 DEF TypeOK
  <2>4. CASE e = d /\ torn[d]
    <3>1. Torn(e)' = 0 /\ Torn(e) = 1
      BY <2>3, <2>4 DEF Torn
    <3>. QED
      BY <2>1, <2>2, <3>1
  <2>5. CASE ~(e = d /\ torn[d])
    <3>1. Torn(e)' <= Torn(e) /\ Torn(e)' \in Nat /\ Torn(e) \in Nat
      BY <2>3 DEF Torn
    <3>2. pos + 1 \notin Lost(e, k)'
      <4>1. CASE e # d
        BY <1>2, <4>1 DEF Lost
      <4>2. CASE e = d /\ ~torn[d]
        <5>1. day'[d] = Appended(day[d], torn[d], pos + 1)
          BY <1>1, <1>2 DEF TypeOK
        <5>2. pos + 1 \in Range(Lines(day'[d]))
          BY <1>1, <4>2, <5>1, AppendedFacts
        <5>3. pos + 1 \in Readable(e)'
          BY <1>1, <4>2, <5>2 DEF Readable, Unreadable, Events
        <5>. QED
          BY <5>3 DEF Lost
      <4>. QED
        BY <2>5, <4>1, <4>2
    <3>. QED
      BY <2>1, <2>2, <3>1, <3>2
  <2>. QED
    BY <2>4, <2>5
<1>6. \A e \in Days : Lost(e, Reached)' = Lost(e, k)'
  BY <1>3
<1>. QED
  BY <1>1, <1>2, <1>5, <1>6 DEF LossOK

(* A short write loses its own event, and the one that will be joined. *)
LEMMA AuditWriteShortLoss ==
  ASSUME IInv, AuditWriteShort
  PROVE  LossOK'
<1>. USE SinksConstantsOK DEF IInv
<1>. DEFINE d == log[pos + 1]
<1>1. pos + 1 \in Events /\ pos + 1 \in 1..Len(log) /\ d \in Days
  BY NextEvent DEF AuditWriteShort
<1>2. /\ phase = "audit" /\ phase' = "audit" /\ pos' = pos + 1 /\ pos \in Nat
      /\ torn' = [torn EXCEPT ![d] = TRUE]
      /\ shorts' = [shorts EXCEPT ![d] = @ + 1]
      /\ UNCHANGED <<log, passed, gz, kills, tears>>
      /\ [Next]_vars
  BY DEF AuditWriteShort, Tear, TypeOK, env, cursors, Next, Daemon
<1>3. PICK k : k = Reached'
  OBVIOUS
<1>4. /\ k \in Nat /\ k <= Reached + 1 /\ k <= Len(log) /\ (pos + 1 = k \/ k <= Reached)
  BY <1>1, <1>2, <1>3, ReachedType DEF Reached
<1>5. ASSUME NEW e \in Days
      PROVE  Cardinality(Lost(e, k)') + Torn(e)' <= tears[e] + 2 * shorts'[e]
  <2>1. /\ Cardinality(Lost(e, k)') \in Nat /\ Cardinality(Lost(e, Reached)) \in Nat
        /\ Cardinality(Lost(e, k)') <= Cardinality(Lost(e, Reached)) + 1
        /\ pos + 1 \notin Lost(e, k)' => Cardinality(Lost(e, k)') <= Cardinality(Lost(e, Reached))
    BY <1>2, <1>4, LostOneMore
  <2>2. /\ Cardinality(Lost(e, Reached)) + Torn(e) <= tears[e] + 2 * shorts[e]
        /\ tears[e] \in Nat /\ shorts[e] \in Nat
    BY DEF LossOK, TypeOK
  <2>3. CASE e = d
    <3>1. shorts'[e] = shorts[e] + 1
      BY <1>1, <1>2, <2>3 DEF TypeOK
    <3>2. Torn(e)' \in {0, 1} /\ Torn(e) \in {0, 1}
      BY DEF Torn
    <3>. QED
      BY <2>1, <2>2, <3>1, <3>2
  <2>4. CASE e # d
    <3>1. shorts'[e] = shorts[e] /\ Torn(e)' = Torn(e) /\ Torn(e) \in Nat
      BY <1>1, <1>2, <2>4 DEF TypeOK, Torn
    <3>2. pos + 1 \notin Lost(e, k)'
      BY <1>2, <2>4 DEF Lost
    <3>. QED
      BY <2>1, <2>2, <3>1, <3>2
  <2>. QED
    BY <2>3, <2>4
<1>6. \A e \in Days : Lost(e, Reached)' = Lost(e, k)'
  BY <1>3
<1>. QED
  BY <1>1, <1>2, <1>5, <1>6 DEF LossOK

LEMMA AuditWriteKilledLoss ==
  ASSUME IInv, AuditWriteKilled
  PROVE  LossOK'
<1>. USE SinksConstantsOK DEF IInv
<1>. DEFINE d == log[pos + 1]
<1>1. d \in Days
  BY NextEvent DEF AuditWriteKilled
<1>2. /\ phase' = "down"
      /\ torn' = [torn EXCEPT ![d] = TRUE]
      /\ tears' = [tears EXCEPT ![d] = @ + 1]
      /\ kills' = kills + 1
      /\ UNCHANGED <<log, passed, gz, shorts>>
      /\ [Next]_vars
  BY DEF AuditWriteKilled, Tear, env, cursors, Next
<1>3. PICK k : k = Reached'
  OBVIOUS
<1>4. k \in Nat /\ k <= Reached
  BY <1>2, <1>3, ReachedType DEF Reached
<1>5. ASSUME NEW e \in Days
      PROVE  /\ Cardinality(Lost(e, k)') + Torn(e)' <= tears'[e] + 2 * shorts[e]
             /\ tears'[e] <= kills'
  <2>1. Lost(e, k)' \subseteq Lost(e, Reached)
    <3>1. Readable(e) \subseteq Readable(e)'
      BY <1>2, FilesStep
    <3>. QED
      BY <1>2, <1>4, <3>1, ReachedType DEF Lost
  <2>2. /\ Cardinality(Lost(e, k)') <= Cardinality(Lost(e, Reached))
        /\ Cardinality(Lost(e, k)') \in Nat /\ Cardinality(Lost(e, Reached)) \in Nat
    BY <2>1, LostFinite, LostSmaller, ReachedType
  <2>3. /\ Cardinality(Lost(e, Reached)) + Torn(e) <= tears[e] + 2 * shorts[e]
        /\ tears[e] <= kills
        /\ tears[e] \in Nat /\ shorts[e] \in Nat /\ kills \in Nat
    BY DEF LossOK, TypeOK
  <2>4. Torn(e) \in {0, 1} /\ Torn(e)' \in {0, 1}
    BY DEF Torn
  <2>5. IF e = d THEN tears'[e] = tears[e] + 1
                 ELSE tears'[e] = tears[e] /\ Torn(e)' = Torn(e)
    BY <1>1, <1>2 DEF TypeOK, Torn
  <2>. QED
    BY <1>2, <2>2, <2>3, <2>4, <2>5
<1>6. \A e \in Days : Lost(e, Reached)' = Lost(e, k)'
  BY <1>3
<1>. QED
  BY <1>2, <1>5, <1>6 DEF LossOK

LEMMA LossStep ==
  ASSUME IInv, [Next]_vars
  PROVE  LossOK'
<1>. USE DEF env, cursors, audit, mishaps
<1>0. /\ Reached \in Nat /\ Reached <= Len(log) /\ Len(log) \in Nat
      /\ passed["audit"] \in Nat /\ passed["audit"] <= Reached
      /\ phase = "audit" => pos <= Reached
      /\ pos \in Nat /\ kills \in Nat
      /\ saved["audit"] \in 0..Len(log)
      /\ TypeOK
  BY ReachedType, TypeFacts DEF IInv, SinkNames
<1>1. CASE Emit \/ EmitReplacing
  <2>1. Len(log') = Len(log) + 1 /\ \A n \in 1..Len(log) : log'[n] = log[n]
    <3>1. log' = Append(log, today) /\ log \in Seq(Days) /\ today \in Days
      BY <1>0, <1>1 DEF Emit, EmitReplacing, TypeOK
    <3>. QED
      BY <3>1, AppendProperties
  <2>2. UNCHANGED <<phase, pos, passed, torn, kills, tears, shorts>>
    BY <1>1 DEF Emit, EmitReplacing
  <2>3. Reached' = Reached
    BY <2>2 DEF Reached
  <2>. QED
    BY <1>0, <2>1, <2>2, <2>3, QuietLoss
<1>2. CASE AuditEnd
  <2>1. /\ phase = "audit" /\ phase' = "obsidian" /\ passed'["audit"] = pos
        /\ UNCHANGED <<log, torn, kills, tears, shorts>>
    BY <1>0, <1>2, TypeFacts DEF AuditEnd, SaveCursor, Open, SinkNames
  <2>2. Reached' = pos
    BY <2>1 DEF Reached
  <2>. QED
    BY <1>0, <2>1, <2>2, QuietLoss
<1>3. CASE RollEnd \/ Restart
  <2>1. /\ phase' = "audit" /\ pos' = saved["audit"]
        /\ UNCHANGED <<log, torn, kills, tears, shorts, passed>>
    BY <1>3 DEF RollEnd, Restart, Open
  <2>2. pos' <= passed["audit"] => Reached' <= Reached /\ Reached' \in Nat
    BY <1>0, <2>1 DEF Reached
  <2>3. pos' <= passed["audit"]
    BY <2>1 DEF IInv, CursorsOK, SinkNames
  <2>. QED
    BY <1>0, <2>1, <2>2, <2>3, QuietLoss
<1>4. CASE Midnight \/ NoteCreate \/ NoteWrite \/ NoteExists \/ Seal \/ SkipDay \/ Kill
  <2>1. /\ UNCHANGED <<log, passed, torn, tears, shorts>> /\ kills <= kills'
        /\ phase' = "audit" => phase = "audit" /\ pos' = pos
        /\ passed["audit"]' = passed["audit"]
    BY <1>0, <1>4 DEF Midnight, NoteCreate, NoteWrite, NoteExists, Seal, SkipDay, Kill
  <2>2. Reached' <= Reached /\ Reached' \in Nat
    BY <1>0, <2>1 DEF Reached
  <2>. QED
    BY <1>0, <2>1, <2>2, QuietLoss
<1>5. CASE ObsidianEnd
  <2>1. /\ UNCHANGED <<log, torn, tears, shorts, kills>> /\ phase' = "roll"
        /\ passed'["audit"] = passed["audit"]
    BY <1>0, <1>5 DEF ObsidianEnd, SaveCursor, TypeOK, SinkNames
  <2>2. Reached' <= Reached /\ Reached' \in Nat
    BY <1>0, <2>1 DEF Reached
  <2>. QED
    BY <1>0, <2>1, <2>2, QuietLoss
<1>6. CASE RemoveDay
  <2>1. /\ UNCHANGED <<log, passed, tears, shorts, kills>> /\ phase' = "roll"
        /\ \A d \in Days : torn'[d] => torn[d]
    BY <1>0, <1>6 DEF RemoveDay, TypeOK
  <2>2. Reached' <= Reached /\ Reached' \in Nat
    BY <1>0, <2>1 DEF Reached
  <2>. QED
    BY <1>0, <2>1, <2>2, QuietLoss
<1>7. CASE UNCHANGED vars
  <2>1. UNCHANGED <<log, phase, pos, passed, torn, tears, shorts, kills>>
    BY <1>7 DEF vars
  <2>2. Reached' = Reached
    BY <2>1 DEF Reached
  <2>. QED
    BY <1>0, <2>1, <2>2, QuietLoss
<1>. QED
  BY <1>1, <1>2, <1>3, <1>4, <1>5, <1>6, <1>7, AuditWriteLoss, AuditWriteShortLoss,
     AuditWriteKilledLoss DEF Next, Daemon

-----------------------------------------------------------------------------
(* How often a file counts an event *)

LEMMA PaidType ==
  ASSUME TypeOK, NEW n \in Events
  PROVE  Paid(n) \in Int
BY TypeFacts DEF Paid, One

LEMMA PaidNextType ==
  ASSUME TypeOK', NEW n \in Events
  PROVE  Paid(n)' \in Int
<1>1. kills' \in Nat /\ replaced' \in Nat
  BY DEF TypeOK
<1>. QED
  BY <1>1 DEF Paid, One

(* A step that pays as much and writes nothing, but for a day removed and  *)
(* its copy.                                                               *)
LEMMA QuietCount ==
  ASSUME IInv,
         \A n \in Events : Paid(n) <= Paid(n)',
         \A n \in Events : Paid(n)' \in Int,
         \A d \in Days : /\ day'[d] \in {day[d], NoFile, Lines(day[d])}
                         /\ gz'[d] \in {gz[d], day[d]}
  PROVE  CountOK'
<1>. SUFFICES ASSUME NEW d \in Days, NEW n \in Events
              PROVE  Counted(day'[d], n) <= Paid(n)' /\ Counted(gz'[d], n) <= Paid(n)'
  BY DEF CountOK
<1>1. day[d] \in File /\ gz[d] \in File
  BY DEF IInv, TypeOK
<1>2. /\ Counted(day[d], n) \in Nat /\ Counted(gz[d], n) \in Nat /\ Counted(NoFile, n) = 0
      /\ Counted(Lines(day[d]), n) = Counted(day[d], n)
  BY <1>1, CountedType
<1>3. Counted(day[d], n) <= Paid(n) /\ Counted(gz[d], n) <= Paid(n) /\ Paid(n) \in Int
  BY PaidType DEF IInv, CountOK
<1>4. Paid(n) <= Paid(n)' /\ Paid(n)' \in Int
  OBVIOUS
<1>5. /\ Counted(day'[d], n) = Counted(day[d], n) \/ Counted(day'[d], n) = 0
      /\ Counted(gz'[d], n) = Counted(gz[d], n) \/ Counted(gz'[d], n) = Counted(day[d], n)
  BY <1>2
<1>. QED
  BY <1>2, <1>3, <1>4, <1>5

LEMMA AuditWriteCount ==
  ASSUME IInv, AuditWrite
  PROVE  CountOK'
<1>. DEFINE d == log[pos + 1]
<1>1. /\ pos + 1 \in Events /\ d \in Days
      /\ day[d] \in File /\ torn[d] \in BOOLEAN
  BY NextEvent DEF AuditWrite, IInv
<1>2. /\ phase = "audit" /\ phase' = "audit" /\ pos' = pos + 1 /\ pos \in Nat
      /\ day' = [day EXCEPT ![d] = Appended(@, torn[d], pos + 1)]
      /\ UNCHANGED <<log, size, gz, kills, replaced>>
  BY DEF IInv, AuditWrite, TypeOK, env, cursors, mishaps
<1>3. ASSUME NEW n \in Events
      PROVE  Paid(n)' = Paid(n) + One(n = pos + 1) /\ Paid(n) \in Int
  <2>1. Paid(n) \in Int
    BY PaidType DEF IInv
  <2>2. One(n <= pos + 1) = One(n <= pos) + One(n = pos + 1)
    BY <1>2 DEF One, Events
  <2>3. /\ Paid(n)  = kills + replaced + (One(n <= pos) - One(size # Len(log)))
        /\ Paid(n)' = kills + replaced + (One(n <= pos + 1) - One(size # Len(log)))
    BY <1>2 DEF Paid, One
  <2>4. /\ kills \in Nat /\ replaced \in Nat /\ One(n <= pos) \in Nat
        /\ One(n = pos + 1) \in Nat /\ One(size # Len(log)) \in Nat
    BY DEF IInv, TypeOK, One
  <2>. QED
    BY <2>1, <2>2, <2>3, <2>4
<1>4. ASSUME NEW e \in Days, NEW n \in Events
      PROVE  Counted(day'[e], n) <= Paid(n)' /\ Counted(gz'[e], n) <= Paid(n)'
  <2>1. /\ Counted(day[e], n) <= Paid(n) /\ Counted(gz[e], n) <= Paid(n)
        /\ day[e] \in File /\ gz[e] \in File
    BY DEF IInv, CountOK, TypeOK
  <2>2. Counted(day[e], n) \in Nat /\ Counted(gz[e], n) \in Nat
    BY <2>1, CountedType
  <2>3. One(n = pos + 1) \in Nat
    BY DEF One
  <2>4. Counted(day'[e], n) <= Counted(day[e], n) + One(n = pos + 1) /\ Counted(day'[e], n) \in Nat
    <3>1. CASE e = d
      <4>1. day'[e] = Appended(day[d], torn[d], pos + 1)
        BY <1>1, <1>2, <3>1 DEF IInv, TypeOK
      <4>2. day'[e] \in File /\ Counted(day'[e], n) <= Counted(day[d], n) + One(n = pos + 1)
        BY <1>1, <4>1, AppendedFacts
      <4>. QED
        BY <3>1, <4>2, CountedType
    <3>2. CASE e # d
      <4>1. day'[e] = day[e]
        BY <1>1, <1>2, <3>2 DEF IInv, TypeOK
      <4>. QED
        BY <2>2, <2>3, <4>1
    <3>. QED
      BY <3>1, <3>2
  <2>5. gz'[e] = gz[e]
    BY <1>2
  <2>. QED
    BY <1>3, <2>1, <2>2, <2>3, <2>4, <2>5
<1>. QED
  BY <1>4 DEF CountOK

LEMMA CountStep ==
  ASSUME IInv, [Next]_vars
  PROVE  CountOK'
<1>. USE DEF env, cursors, audit, mishaps
<1>0. /\ TypeOK /\ TypeOK' /\ pos \in Nat /\ kills \in Nat /\ replaced \in Nat
      /\ Len(log) \in Nat /\ size \in Nat /\ size <= Len(log)
      /\ saved["audit"] \in Nat
      /\ \A n \in Events : Paid(n) \in Int /\ Paid(n)' \in Int
      /\ Events \subseteq Nat
  <2>1. TypeOK /\ TypeOK' /\ "audit" \in SinkNames
    BY TypeStep DEF IInv, SinkNames
  <2>2. \A n \in Events : Paid(n) \in Int /\ Paid(n)' \in Int
    BY <2>1, PaidType, PaidNextType
  <2>. QED
    BY <2>1, <2>2, TypeFacts DEF Events
<1>1. CASE Emit
  <2>1. /\ Len(log') = Len(log) + 1 /\ size' = IF size = Len(log) THEN size + 1 ELSE size
        /\ UNCHANGED <<phase, pos, saved, kills, replaced, day, gz>>
    BY <1>0, <1>1 DEF Emit, TypeOK
  <2>2. (size' # Len(log')) <=> (size # Len(log))
    BY <1>0, <2>1
  <2>3. \A n \in Events : Paid(n)' = Paid(n)
    BY <2>1, <2>2 DEF Paid, One
  <2>. QED
    BY <1>0, <2>1, <2>3, QuietCount
<1>2. CASE EmitReplacing
  <2>1. /\ Len(log') = Len(log) + 1 /\ size' = size /\ saved'["audit"] = 0
        /\ replaced' = replaced + 1
        /\ UNCHANGED <<phase, pos, kills, day, gz>>
    BY <1>0, <1>2 DEF EmitReplacing, TypeOK, SinkNames
  <2>2. size' # Len(log')
    BY <1>0, <2>1
  <2>3. ASSUME NEW n \in Events PROVE Paid(n) <= Paid(n)'
    <3>1. One(n <= pos) \in Nat /\ One(size # Len(log)) \in Nat /\ One(n <= saved["audit"]) \in {0, 1}
      BY DEF One
    <3>2. CASE phase = "audit"
      <4>1. /\ Paid(n) = kills + replaced + (One(n <= pos) - One(size # Len(log)))
            /\ Paid(n)' = kills + (replaced + 1) + (One(n <= pos) - 1)
        BY <2>1, <2>2, <3>2 DEF Paid, One
      <4>. QED
        BY <1>0, <3>1, <4>1
    <3>3. CASE phase # "audit"
      <4>1. /\ Paid(n) = kills + replaced + One(n <= saved["audit"])
            /\ Paid(n)' = kills + (replaced + 1) + 0
        BY <1>0, <2>1, <3>3 DEF Paid, One, Events
      <4>. QED
        BY <1>0, <3>1, <4>1
    <3>. QED
      BY <3>2, <3>3
  <2>. QED
    BY <1>0, <2>1, <2>3, QuietCount
<1>3. CASE AuditEnd
  <2>1. /\ phase = "audit" /\ phase' = "obsidian"
        /\ saved'["audit"] = IF size = Len(log) THEN pos ELSE 0
        /\ UNCHANGED <<kills, replaced, day, gz>>
    BY <1>0, <1>3 DEF AuditEnd, SaveCursor, Open, TypeOK, SinkNames
  <2>2. ASSUME NEW n \in Events PROVE Paid(n) <= Paid(n)'
    <3>1. /\ Paid(n) = kills + replaced + (One(n <= pos) - One(size # Len(log)))
          /\ Paid(n)' = kills + replaced + One(n <= saved'["audit"])
      BY <2>1 DEF Paid
    <3>2. One(n <= pos) - One(size # Len(log)) <= One(n <= saved'["audit"])
      BY <1>0, <2>1 DEF One, Events
    <3>3. One(n <= pos) \in Nat /\ One(size # Len(log)) \in Nat /\ One(n <= saved'["audit"]) \in Nat
      BY DEF One
    <3>. QED
      BY <1>0, <3>1, <3>2, <3>3
  <2>. QED
    BY <1>0, <2>1, <2>2, QuietCount
<1>4. CASE RollEnd \/ Restart
  <2>1. /\ phase # "audit" /\ phase' = "audit" /\ pos' = saved["audit"] /\ size' = Len(log)
        /\ UNCHANGED <<log, kills, replaced, day, gz>>
    BY <1>4 DEF RollEnd, Restart, Open
  <2>2. ASSUME NEW n \in Events PROVE Paid(n)' = Paid(n)
    <3>1. /\ Paid(n) = kills + replaced + One(n <= saved["audit"])
          /\ Paid(n)' = kills + replaced + (One(n <= saved["audit"]) - 0)
      BY <2>1 DEF Paid, One
    <3>2. One(n <= saved["audit"]) \in Nat
      BY DEF One
    <3>. QED
      BY <1>0, <3>1, <3>2
  <2>. QED
    BY <1>0, <2>1, <2>2, QuietCount
<1>5. CASE Kill \/ AuditWriteKilled
  <2>1. /\ phase' = "down" /\ kills' = kills + 1
        /\ UNCHANGED <<saved, replaced, gz>>
        /\ \A d \in Days : day'[d] \in {day[d], Lines(day[d])}
    BY <1>0, <1>5 DEF Kill, AuditWriteKilled, Tear, TypeOK
  <2>2. ASSUME NEW n \in Events PROVE Paid(n) <= Paid(n)'
    <3>1. Paid(n)' = (kills + 1) + replaced + One(n <= saved["audit"])
      BY <2>1 DEF Paid, One
    <3>2. /\ One(n <= pos) \in {0, 1} /\ One(size # Len(log)) \in {0, 1}
          /\ One(n <= saved["audit"]) \in {0, 1}
      BY DEF One
    <3>3. \/ Paid(n) = kills + replaced + One(n <= saved["audit"])
          \/ Paid(n) = kills + replaced + (One(n <= pos) - One(size # Len(log)))
      BY DEF Paid
    <3>. QED
      BY <1>0, <3>1, <3>2, <3>3
  <2>. QED
    BY <1>0, <2>1, <2>2, QuietCount
<1>6. CASE AuditWriteShort
  <2>1. /\ phase = "audit" /\ phase' = "audit" /\ pos' = pos + 1
        /\ UNCHANGED <<log, size, kills, replaced, gz>>
        /\ \A d \in Days : day'[d] \in {day[d], Lines(day[d])}
    BY <1>0, <1>6 DEF AuditWriteShort, Tear, TypeOK
  <2>2. ASSUME NEW n \in Events PROVE Paid(n) <= Paid(n)'
    <3>1. /\ Paid(n) = kills + replaced + (One(n <= pos) - One(size # Len(log)))
          /\ Paid(n)' = kills + replaced + (One(n <= pos + 1) - One(size # Len(log)))
      BY <2>1 DEF Paid
    <3>2. One(n <= pos) <= One(n <= pos + 1)
      BY <1>0 DEF One
    <3>3. One(n <= pos) \in Nat /\ One(size # Len(log)) \in Nat /\ One(n <= pos + 1) \in Nat
      BY DEF One
    <3>. QED
      BY <1>0, <3>1, <3>2, <3>3
  <2>. QED
    BY <1>0, <2>1, <2>2, QuietCount
<1>7. CASE \/ Midnight \/ NoteCreate \/ NoteWrite \/ NoteExists \/ ObsidianEnd
           \/ Seal \/ RemoveDay \/ SkipDay \/ UNCHANGED vars
  <2>1. /\ UNCHANGED <<log, size, kills, replaced>> /\ saved'["audit"] = saved["audit"]
        /\ phase' = "audit" <=> phase = "audit"
        /\ phase = "audit" => pos' = pos
    BY <1>0, <1>7 DEF Midnight, NoteCreate, NoteWrite, NoteExists, ObsidianEnd, SaveCursor, Seal,
       RemoveDay, SkipDay, vars, TypeOK, SinkNames
  <2>2. \A n \in Events : Paid(n)' = Paid(n)
    BY <2>1 DEF Paid, One
  <2>3. \A d \in Days : day'[d] \in {day[d], NoFile} /\ gz'[d] \in {gz[d], day[d]}
    BY <1>0, <1>7 DEF Midnight, NoteCreate, NoteWrite, NoteExists, ObsidianEnd, Seal, RemoveDay,
       SkipDay, vars, TypeOK
  <2>. QED
    BY <1>0, <2>2, <2>3, QuietCount
<1>. QED
  BY <1>1, <1>2, <1>3, <1>4, <1>5, <1>6, <1>7, AuditWriteCount DEF Next, Daemon

-----------------------------------------------------------------------------
(* Notes *)

LEMMA PartialFinite == IsFiniteSet(Partial) /\ Cardinality(Partial) \in Nat
<1>1. IsFiniteSet(Events) /\ Partial \subseteq Events
  BY SinksConstantsOK, FS_Interval DEF Events, Partial
<1>. QED
  BY <1>1, FS_Subset, FS_CardinalityType

LEMMA NotesStep ==
  ASSUME IInv, [Next]_vars
  PROVE  NotesOK'
<1>. USE SinksConstantsOK DEF IInv, env, cursors, audit, mishaps, SinkNames
<1>1. \A n \in Events : note[n] # "none" => note'[n] # "none"
  BY DEF Next, Daemon, TypeOK, Emit, EmitReplacing, Midnight, AuditWrite, AuditWriteShort, AuditWriteKilled, AuditEnd, NoteCreate,
     NoteWrite, NoteExists, ObsidianEnd, Seal, RemoveDay, SkipDay, RollEnd, Kill, Restart, Open, vars
<1>2. /\ passed["obsidian"] \in Nat /\ passed["obsidian"] <= Len(log)
      /\ saved["obsidian"] \in Nat /\ saved["obsidian"] <= passed["obsidian"] /\ Len(log) <= MaxEvents
      /\ Len(log) \in Nat /\ pos \in Nat /\ kills \in Nat
      /\ size \in Nat /\ size <= Len(log)
  BY TypeFacts DEF CursorsOK
<1>3. 1..passed["obsidian"] \subseteq Events
  BY <1>2 DEF Events
<1>4. phase \in {"obsidian", "note"} => 1..pos \subseteq Events
  BY <1>2 DEF NotesOK, Events
<1>5. Len(log') \in Nat /\ Len(log) <= Len(log')
  <2>1. log' = log \/ log' = Append(log, today)
    BY DEF Next, Daemon, Emit, EmitReplacing, Midnight, AuditWrite, AuditWriteShort,
       AuditWriteKilled, AuditEnd, NoteCreate, NoteWrite, NoteExists, ObsidianEnd, Seal,
       RemoveDay, SkipDay, RollEnd, Kill, Restart, vars
  <2>2. log \in Seq(Days) /\ today \in Days
    BY DEF TypeOK
  <2>. QED
    BY <1>2, <2>1, <2>2, AppendProperties
<1>6. \A n \in 1..passed'["obsidian"] : note'[n] # "none"
  <2>1. CASE ObsidianEnd
    BY <2>1 DEF ObsidianEnd, SaveCursor, NotesOK, TypeOK
  <2>2. CASE ~ObsidianEnd
    <3>1. passed'["obsidian"] = passed["obsidian"]
      BY <2>2 DEF SaveCursor, Next, Daemon, TypeOK, Emit, EmitReplacing, Midnight, AuditWrite, AuditWriteShort, AuditWriteKilled, AuditEnd, NoteCreate,
         NoteWrite, NoteExists, Seal, RemoveDay, SkipDay, RollEnd, Kill, Restart, Open, vars
    <3>. QED
      BY <1>1, <1>3, <3>1 DEF NotesOK
  <2>. QED
    BY <2>1, <2>2
<1>7. phase' \in {"obsidian", "note"} =>
        pos' <= Len(log') /\ \A n \in 1..pos' : note'[n] # "none"
  <2>1. CASE AuditEnd
    BY <1>2, <2>1 DEF AuditEnd, Open, NotesOK
  <2>2. CASE NoteWrite
    <3>1. pos + 1 \in Events /\ pos < Len(log) /\ note'[pos + 1] = "whole" /\ pos' = pos + 1
      BY <1>2, <2>2 DEF NoteWrite, NotesOK, Events, TypeOK
    <3>. QED
      BY <1>1, <1>2, <1>4, <2>2, <3>1 DEF NoteWrite, NotesOK
  <2>3. CASE NoteExists
    <3>1. pos < Len(log) /\ note'[pos + 1] # "none" /\ pos' = pos + 1
      BY <1>2, <2>3 DEF NoteExists
    <3>. QED
      BY <1>2, <2>3, <3>1 DEF NoteExists, NotesOK
  <2>4. CASE ~AuditEnd /\ ~NoteWrite /\ ~NoteExists
    <3>1. phase' \in {"obsidian", "note"} => phase \in {"obsidian", "note"} /\ pos' = pos
      BY <2>4 DEF Next, Daemon, Emit, EmitReplacing, Midnight, AuditWrite, AuditWriteShort, AuditWriteKilled, NoteCreate,
         ObsidianEnd, Seal, RemoveDay, SkipDay, RollEnd, Kill, Restart, Open, vars
    <3>. QED
      BY <1>1, <1>2, <1>4, <1>5, <3>1 DEF NotesOK
  <2>. QED
    BY <2>1, <2>2, <2>3, <2>4
<1>8. phase' = "note" => pos' < Len(log') /\ note'[pos' + 1] = "partial"
  <2>1. CASE NoteCreate
    BY <1>2, <2>1 DEF NoteCreate, TypeOK, Events
  <2>2. CASE ~NoteCreate
    <3>1. phase' = "note" => phase = "note" /\ pos' = pos /\ note' = note
      BY <2>2 DEF Next, Daemon, Emit, EmitReplacing, Midnight, AuditWrite, AuditWriteShort, AuditWriteKilled, AuditEnd, NoteWrite,
         NoteExists, ObsidianEnd, Seal, RemoveDay, SkipDay, RollEnd, Kill, Restart, Open, vars
    <3>. QED
      BY <1>2, <1>5, <3>1 DEF NotesOK
  <2>. QED
    BY <2>1, <2>2
<1>9. Cardinality(Partial') <= kills'
  <2>1. IsFiniteSet(Partial) /\ Cardinality(Partial) \in Nat /\ Cardinality(Partial) <= kills
    BY PartialFinite DEF NotesOK
  <2>2. CASE Kill
    <3>1. Partial' \subseteq Partial \union {pos + 1} /\ kills' = kills + 1
      BY <2>2 DEF Kill, Partial
    <3>2. /\ IsFiniteSet(Partial \union {pos + 1})
          /\ Cardinality(Partial \union {pos + 1}) =
               IF pos + 1 \in Partial THEN Cardinality(Partial) ELSE Cardinality(Partial) + 1
      BY <2>1, FS_AddElement
    <3>3. /\ Cardinality(Partial') <= Cardinality(Partial \union {pos + 1})
          /\ Cardinality(Partial') \in Nat
      BY <3>1, <3>2, LostSmaller
    <3>. QED
      BY <1>2, <2>1, <3>1, <3>2, <3>3
  <2>3. CASE ~Kill
    <3>1. Partial' \subseteq Partial
      <4>1. CASE NoteCreate
        BY <4>1 DEF NoteCreate, Partial, TypeOK
      <4>2. CASE NoteWrite
        BY <1>2, <4>2 DEF NoteWrite, Partial, TypeOK
      <4>3. CASE ~NoteCreate /\ ~NoteWrite
        <5>1. note' = note /\ (phase = "note" => phase' = "note" /\ pos' = pos)
          BY <2>3, <4>3 DEF Next, Daemon, Emit, EmitReplacing, Midnight, AuditWrite, AuditWriteShort, AuditWriteKilled, AuditEnd,
             NoteExists, ObsidianEnd, Seal, RemoveDay, SkipDay, RollEnd, Restart, Open, vars
        <5>. QED
          BY <5>1 DEF Partial
      <4>. QED
        BY <4>1, <4>2, <4>3
    <3>2. kills <= kills' /\ kills' \in Nat
      BY <1>2, <2>3 DEF Next, Daemon, Emit, EmitReplacing, Midnight, AuditWrite, AuditWriteShort, AuditWriteKilled, AuditEnd, NoteCreate,
         NoteWrite, NoteExists, ObsidianEnd, Seal, RemoveDay, SkipDay, RollEnd, Restart, Open, vars
    <3>3. Cardinality(Partial') <= Cardinality(Partial) /\ Cardinality(Partial') \in Nat
      BY <2>1, <3>1, LostSmaller
    <3>. QED
      BY <1>2, <2>1, <3>2, <3>3
  <2>. QED
    BY <2>2, <2>3
<1>. QED
  BY <1>6, <1>7, <1>8, <1>9 DEF NotesOK

-----------------------------------------------------------------------------
(* Results *)

LEMMA Inductive == Spec => []IInv
<1>1. IInv /\ [Next]_vars => IInv'
  BY TypeStep, SealedStep, CursorsStep, LossStep, CountStep, NotesStep DEF IInv
<1>. QED
  BY InitIInv, <1>1, PTL DEF Spec

(* The variables have their types, for any number of events, days, kills. *)
THEOREM TypeCorrect == Spec => []TypeOK
<1>1. IInv => TypeOK
  BY DEF IInv
<1>. QED
  BY Inductive, <1>1, PTL

(* Of the events of a day that a cursor has passed, no more are missing    *)
(* than one per line torn by a crash and two per short write; and a rollup *)
(* counts an event once more at most per kill and per task completion.     *)
THEOREM AuditFileKeeps == Spec => []AuditKeeps
<1>1. ASSUME IInv PROVE AuditKeeps
  <2>1. ASSUME NEW d \in Days PROVE Cardinality(Missing(d)) <= tears[d] + 2 * shorts[d]
    <3>1. passed["audit"] \in Nat /\ Reached \in Nat /\ passed["audit"] <= Reached
      BY <1>1, ReachedType
    <3>2. Missing(d) \subseteq Lost(d, Reached)
      BY <3>1 DEF Missing, Lost
    <3>3. IsFiniteSet(Lost(d, Reached))
      BY <3>1, LostFinite
    <3>4. /\ Cardinality(Missing(d)) <= Cardinality(Lost(d, Reached))
          /\ Cardinality(Missing(d)) \in Nat /\ Cardinality(Lost(d, Reached)) \in Nat
      BY <3>2, <3>3, LostSmaller
    <3>5. /\ Cardinality(Lost(d, Reached)) + Torn(d) <= tears[d] + 2 * shorts[d]
          /\ tears[d] \in Nat /\ shorts[d] \in Nat /\ Torn(d) \in Nat
      BY <1>1 DEF IInv, LossOK, TypeOK, Torn
    <3>. QED
      BY <3>4, <3>5
  <2>2. ASSUME NEW d \in Days, NEW f \in {day[d], gz[d]}, NEW n \in Events
        PROVE  Counted(f, n) <= 1 + kills + replaced
    <3>1. Counted(f, n) <= Paid(n) /\ f \in File
      BY <1>1 DEF IInv, CountOK, TypeOK
    <3>2. Counted(f, n) \in Nat
      BY <3>1, CountedType
    <3>3. /\ One(n <= pos) \in {0, 1} /\ One(size # Len(log)) \in {0, 1}
          /\ One(n <= saved["audit"]) \in {0, 1}
      BY DEF One
    <3>4. kills \in Nat /\ replaced \in Nat
      BY <1>1 DEF IInv, TypeOK
    <3>5. \/ Paid(n) = kills + replaced + One(n <= saved["audit"])
          \/ Paid(n) = kills + replaced + (One(n <= pos) - One(size # Len(log)))
      BY DEF Paid
    <3>. QED
      BY <3>1, <3>2, <3>3, <3>4, <3>5
  <2>. QED
    BY <2>1, <2>2 DEF AuditKeeps
<1>. QED
  BY Inductive, <1>1, PTL

(* No step, kills included, takes an event out of the files of its day. *)
THEOREM RollLoses == Spec => RollLosesNothing
<1>1. IInv /\ [Next]_vars => [\A d \in Days : Readable(d) \subseteq Readable(d)']_vars
  BY FilesStep
<1>. QED
  BY Inductive, <1>1, PTL DEF Spec, RollLosesNothing

(* Every event that the obsidian cursor has passed has its note, and no    *)
(* more notes stay partial than there were kills.                          *)
THEOREM NotesAreWhole == Spec => []NotesWhole
<1>1. IInv => NotesWhole
  BY DEF IInv, NotesOK, Partial, NotesWhole
<1>. QED
  BY Inductive, <1>1, PTL
=============================================================================
