------------------------- MODULE PendingQueueProofs --------------------------
(***************************************************************************)
(* Proofs about the pending queue, for any items, thresholds, kills and    *)
(* landing places: without the three mishaps no item whose enqueue         *)
(* returned is skipped; and as long as no cursor was left from a file that *)
(* is gone, a kill or a raise costs one redelivery at most, and what is    *)
(* pending is delivered in its order.                                      *)
(***************************************************************************)
EXTENDS PendingQueue, FiniteSetTheorems, SequenceTheorems, WellFoundedInduction, TLAPS

-----------------------------------------------------------------------------
(* The inductive invariant *)

ItemOK == ppc # "idle" => item \in begun

(* What holds even of a listing that is numbered wrongly. *)
BatchOK ==
  /\ cpc \notin {"deliver", "advance"} => batch = {}
  /\ cpc = "deliver" => batch # {}
  /\ \A n \in batch : n + shift \in Nat

(* No cursor was left from a file that is gone. *)
Sound == "unreset" \notin mishaps

(* What the consumer has listed and not advanced past. *)
Listed == batch \union (IF cpc = "advance" THEN {lineNo} ELSE {})

ListedOK ==
  /\ \A n \in Listed : n \in 1..Len(file) /\ n > cursor /\ file[n].form = "whole"
  /\ cpc = "advance" => delivered[file[lineNo].it] > 0 /\ \A n \in batch : lineNo < n

(* A listing leaves no item out that comes before one of its own. *)
NoGapOK ==
  \A m \in Listed : \A n \in (cursor + 1)..m : file[n].form = "whole" => n \in Listed

(* The line number and the byte offset are of one place, and so are the    *)
(* numbers of a listing and the places of its lines.                       *)
OneNumber == seek = cursor /\ cut = "none" /\ shift = 0

Straight == OneNumber /\ ListedOK /\ NoGapOK

(* Without a mishap an item is appended to a file that ends in a newline,  *)
(* behind the cursor.                                                      *)
AppendOK ==
  mishaps = {} =>
    /\ ppc \in {"open", "write"} => ~OpenTail(file)
    /\ cpc # "replaced" => cursor <= Len(file)

IInv == TypeOK /\ ItemOK /\ BatchOK /\ (Sound => Straight) /\ AppendOK /\ NoneSkipped

-----------------------------------------------------------------------------
(* A nonempty set of naturals has a least element: of its initial parts,   *)
(* which are finite, a least one belongs to it.                            *)
LEMMA LeastFirst ==
  ASSUME NEW T \in SUBSET Nat, T # {}
  PROVE  Min(T) \in T /\ \A y \in T : Min(T) <= y
<1>. DEFINE Upto(n) == T \cap (0..n)
            F == {Upto(n) : n \in T}
<1>1. ASSUME NEW n \in T PROVE IsFiniteSet(Upto(n))
  <2>1. IsFiniteSet(0..n)
    BY FS_Interval
  <2>. QED
    BY <2>1, FS_Intersection
<1>2. F \subseteq FiniteSubsetsOf(T) /\ F # {}
  BY <1>1 DEF FiniteSubsetsOf
<1>3. PICK S \in F : \A U \in F : ~(<<U, S>> \in StrictSubsetOrdering(T))
  <2>. HIDE DEF F
  <2>. QED
    BY <1>2, FS_StrictSubsetOrderingWellFounded, WFMin
<1>4. PICK x \in T : S = Upto(x)
  BY <1>3
<1>5. ASSUME NEW y \in T PROVE x <= y
  <2>. SUFFICES ASSUME y < x PROVE FALSE
    OBVIOUS
  <2>1. Upto(y) \subseteq Upto(x) /\ x \in Upto(x) /\ x \notin Upto(y)
    OBVIOUS
  <2>2. <<Upto(y), S>> \in StrictSubsetOrdering(T)
    BY <2>1, <1>4 DEF StrictSubsetOrdering
  <2>. QED
    BY <2>2, <1>3
<1>. QED
  BY <1>5 DEF Min

LEMMA LineType ==
  ASSUME NEW c \in Seq(Line), NEW n \in 1..Len(c)
  PROVE  /\ c[n] \in Line /\ c[n].it \in Items /\ c[n].form \in Forms
         /\ c[n] = [it |-> c[n].it, form |-> c[n].form]
<1>1. c[n] \in Line
  BY ElementOfSeq
<1>. QED
  BY <1>1 DEF Line

(* What an append makes of a file. *)
LEMMA AppendToFacts ==
  ASSUME NEW c \in Seq(Line), NEW i \in Items, NEW f \in Forms, NEW ruin \in Ruins
  PROVE  LET l == [it |-> i, form |-> f]
             d == AppendTo(c, l, ruin)
         IN  /\ d \in Seq(Line) /\ Len(d) \in Nat /\ Len(c) \in Nat
             /\ Len(c) <= Len(d)
             /\ \A n \in 1..(Len(c) - 1) : d[n] = c[n]
             /\ \A n \in 1..Len(c) : c[n].form = "whole" => d[n] = c[n]
             /\ ~OpenTail(c) => Len(d) = Len(c) + 1 /\ d[Len(d)] = l
<1>. DEFINE l == [it |-> i, form |-> f]
            d == AppendTo(c, l, ruin)
            form == IF l.form = "whole" THEN ruin ELSE "torn"
<1>1. CASE OpenTail(c)
  <2>1. Len(c) \in 1..Len(c) /\ Len(c) \in Nat
    BY <1>1, EmptySeq DEF OpenTail
  <2>2. c[Len(c)] \in Line /\ c[Len(c)].form # "whole"
    BY <1>1, <2>1, LineType DEF OpenTail, Ended, Last
  <2>3. d = [c EXCEPT ![Len(c)].form = form] /\ form \in Forms
    BY <1>1 DEF AppendTo, Forms, Ruins
  <2>. HIDE DEF d, form
  <2>4. d = [c EXCEPT ![Len(c)] = [c[Len(c)] EXCEPT !.form = form]]
    BY <2>3
  <2>5. [c[Len(c)] EXCEPT !.form = form] \in Line
    BY <2>2, <2>3 DEF Line
  <2>6. d \in Seq(Line) /\ Len(d) = Len(c) /\ \A n \in 1..(Len(c) - 1) : d[n] = c[n]
    BY <2>1, <2>4, <2>5, ExceptSeq
  <2>7. \A n \in 1..Len(c) : c[n].form = "whole" => d[n] = c[n]
    BY <2>1, <2>2, <2>6
  <2>. QED
    BY <1>1, <2>1, <2>6, <2>7 DEF d
<1>2. CASE ~OpenTail(c)
  <2>1. d = Append(c, l) /\ l \in Line
    BY <1>2 DEF AppendTo, Line
  <2>. HIDE DEF d, l
  <2>2. /\ d \in Seq(Line) /\ Len(d) = Len(c) + 1 /\ Len(c) \in Nat
        /\ \A n \in 1..Len(c) : d[n] = c[n]
        /\ d[Len(c) + 1] = l
    BY <2>1, AppendProperties
  <2>. QED
    BY <2>2 DEF d, l
<1>. QED
  BY <1>1, <1>2

(* What the steps of the producer, and a kill, do to the file. *)
Grows ==
  /\ file' \in Seq(Line) /\ Len(file) <= Len(file')
  /\ \A n \in 1..(Len(file) - 1) : file'[n] = file[n]
  /\ \A n \in 1..Len(file) : file[n].form = "whole" => file'[n] = file[n]

LEMMA GrowsKeeps ==
  ASSUME IInv, Grows, UNCHANGED <<saved, consumer, delivered>>, mishaps \subseteq mishaps'
  PROVE  BatchOK' /\ (Sound => Straight)'
<1>. USE DEF IInv, consumer, saved
<1>1. BatchOK'
  BY DEF BatchOK
<1>2. SUFFICES ASSUME Sound' PROVE Straight'
  BY <1>1
<1>3. Straight
  BY <1>2 DEF Sound
<1>4. /\ file \in Seq(Line) /\ Len(file) \in Nat /\ file' \in Seq(Line) /\ Len(file') \in Nat
      /\ cursor \in Nat
  BY DEF TypeOK, Grows
<1>5. Listed' = Listed
  BY DEF Listed
<1>6. ListedOK'
  <2>1. cpc = "advance" => lineNo \in Listed
    BY DEF Listed
  <2>2. ASSUME NEW n \in Listed
        PROVE  n \in 1..Len(file') /\ n > cursor /\ file'[n] = file[n] /\ file[n].form = "whole"
    BY <1>3, <1>4 DEF Straight, ListedOK, Grows
  <2>3. cpc = "advance" => file'[lineNo] = file[lineNo]
    BY <2>1, <2>2
  <2>4. \A n \in Listed' : n \in 1..Len(file') /\ n > cursor /\ file'[n].form = "whole"
    BY <1>5, <2>2
  <2>. QED
    BY <1>3, <2>3, <2>4 DEF Straight, ListedOK
<1>7. NoGapOK'
  <2>. SUFFICES ASSUME NEW m \in Listed, NEW n \in (cursor + 1)..m, file'[n].form = "whole"
                PROVE  n \in Listed
    BY <1>5 DEF NoGapOK
  <2>1. m \in 1..Len(file)
    BY <1>3 DEF Straight, ListedOK
  <2>2. CASE n = m
    BY <2>2
  <2>3. CASE n # m
    <3>1. n \in 1..(Len(file) - 1)
      BY <1>4, <2>1, <2>3
    <3>. QED
      BY <1>3, <3>1 DEF Straight, Grows, NoGapOK
  <2>. QED
    BY <2>2, <2>3
<1>. QED
  BY <1>3, <1>6, <1>7 DEF Straight, OneNumber

(* Lines that were whole stay, so that what was kept is kept. *)
LEMMA GrowsNoneSkipped ==
  ASSUME IInv, Grows, UNCHANGED <<seek, delivered>>, cpc' = cpc \/ cpc # "replaced",
         mishaps = {}, NEW i \in enqueued
  PROVE  Kept(i)'
<1>1. Kept(i)
  BY DEF IInv, NoneSkipped
<1>2. CASE delivered[i] > 0
  BY <1>2 DEF Kept
<1>3. CASE \E n \in 1..Len(file) :
             file[n] = [it |-> i, form |-> "whole"] /\ (n > seek \/ cpc = "replaced")
  <2>1. PICK n \in 1..Len(file) :
          file[n] = [it |-> i, form |-> "whole"] /\ (n > seek \/ cpc = "replaced")
    BY <1>3
  <2>2. n \in 1..Len(file') /\ file'[n] = file[n]
    BY <2>1 DEF Grows, IInv, TypeOK
  <2>. QED
    BY <2>1, <2>2 DEF Kept
<1>. QED
  BY <1>1, <1>2, <1>3 DEF Kept

LEMMA SameGrows ==
  ASSUME IInv, file' = file
  PROVE  Grows
BY DEF IInv, TypeOK, Grows

LEMMA WrittenGrows ==
  ASSUME IInv, ppc = "write", NEW form \in {"whole", "torn", "unended"},
         file' \in Written(form)
  PROVE  /\ Grows
         /\ fd = "live" /\ ~OpenTail(file) =>
              /\ Len(file') = Len(file) + 1
              /\ file'[Len(file')] = [it |-> item, form |-> form]
<1>1. file \in Seq(Line) /\ item \in Items
  BY QueueConstantsOK DEF IInv, TypeOK, ItemOK
<1>2. CASE fd # "live"
  BY <1>2, SameGrows DEF Written
<1>3. CASE fd = "live"
  <2>1. PICK ruin \in Ruins : file' = AppendTo(file, [it |-> item, form |-> form], ruin)
    BY <1>3 DEF Written
  <2>. QED
    BY <1>1, <2>1, AppendToFacts DEF Grows, Forms
<1>. QED
  BY <1>2, <1>3

(* So do the pieces a kill or an OSError leaves. *)
LEMMA PartGrows ==
  ASSUME IInv, file' \in PartWritten
  PROVE  Grows
<1>1. CASE file' = file
  BY <1>1, SameGrows
<1>2. CASE file' # file
  <2>1. PICK form \in {"whole", "torn", "unended"} : ppc = "write" /\ file' \in Written(form)
    BY <1>2 DEF PartWritten
  <2>. QED
    BY <2>1, WrittenGrows
<1>. QED
  BY <1>1, <1>2

-----------------------------------------------------------------------------
LEMMA InitIInv == Init => IInv
<1>. SUFFICES ASSUME Init PROVE IInv
  OBVIOUS
<1>1. TypeOK
  BY QueueConstantsOK, EmptySeq DEF Init, TypeOK, Cuts
<1>. QED
  BY <1>1 DEF Init, IInv, ItemOK, BatchOK, Straight, OneNumber, ListedOK, Listed, NoGapOK,
     AppendOK, NoneSkipped, OpenTail

(* The steps that leave the file alone and belong to the producer. *)
LEMMA OpenStep ==
  ASSUME IInv, (\E i \in Items : Enqueue(i)) \/ OpenAppend
  PROVE  IInv'
<1>. USE DEF IInv, consumer, history, saved
<1>1. UNCHANGED <<file, saved, consumer, enqueued, delivered, kills, mishaps>>
  BY DEF Enqueue, OpenAppend
<1>2. TypeOK' /\ ItemOK'
  BY DEF TypeOK, ItemOK, Enqueue, OpenAppend
<1>3. BatchOK' /\ (Sound => Straight)'
  BY <1>1, SameGrows, GrowsKeeps
<1>4. AppendOK'
  BY DEF AppendOK, OpenTail, Enqueue, OpenAppend
<1>5. NoneSkipped'
  BY <1>1 DEF NoneSkipped, Kept
<1>. QED
  BY <1>2, <1>3, <1>4, <1>5

LEMMA RepairStep ==
  ASSUME IInv, Repair
  PROVE  IInv'
<1>. USE DEF IInv, consumer, saved
<1>1. file \in Seq(Line) /\ Len(file) \in Nat
  BY DEF TypeOK
<1>2. /\ ppc = "repair" /\ ppc' = "open" /\ fd' = "none"
      /\ mishaps' = IF fd = "live" THEN mishaps ELSE mishaps \union {"raced"}
      /\ UNCHANGED <<item, saved, consumer, begun, enqueued, delivered, kills>>
  BY DEF Repair
<1>3. PICK ruin \in Ruins :
        file' = IF fd = "live" /\ OpenTail(file)
                THEN [file EXCEPT ![Len(file)].form = IF @ = "unended" THEN "whole" ELSE ruin]
                ELSE file
  BY DEF Repair
<1>4. mishaps' = {} => mishaps = {} /\ fd = "live"
  BY <1>2
<1>5. CASE ~(fd = "live" /\ OpenTail(file))
  <2>1. file' = file
    BY <1>3, <1>5
  <2>2. TypeOK' /\ ItemOK'
    BY <1>2, <2>1 DEF TypeOK, ItemOK
  <2>3. BatchOK' /\ (Sound => Straight)'
    BY <1>2, <2>1, SameGrows, GrowsKeeps
  <2>4. AppendOK'
    BY <1>2, <1>4, <1>5, <2>1 DEF AppendOK, OpenTail
  <2>5. NoneSkipped'
    BY <1>2, <1>4, <2>1 DEF NoneSkipped, Kept
  <2>. QED
    BY <2>2, <2>3, <2>4, <2>5
<1>6. CASE fd = "live" /\ OpenTail(file)
  <2>. DEFINE form == IF file[Len(file)].form = "unended" THEN "whole" ELSE ruin
  <2>1. Len(file) \in 1..Len(file)
    BY <1>1, <1>6, EmptySeq DEF OpenTail
  <2>2. file[Len(file)] \in Line /\ file[Len(file)].form # "whole"
    BY <1>1, <1>6, <2>1, LineType DEF OpenTail, Ended, Last
  <2>3. file' = [file EXCEPT ![Len(file)] = [file[Len(file)] EXCEPT !.form = form]]
    BY <1>1, <1>3, <1>6, <2>1
  <2>. HIDE DEF form
  <2>4. [file[Len(file)] EXCEPT !.form = form] \in Line /\ form \in {"whole"} \union Ruins
    BY <2>2 DEF Line, Forms, Ruins, form
  <2>5. /\ file' \in Seq(Line) /\ Len(file') = Len(file)
        /\ \A n \in 1..(Len(file) - 1) : file'[n] = file[n]
        /\ file'[Len(file)] = [file[Len(file)] EXCEPT !.form = form]
    BY <1>1, <2>1, <2>3, <2>4, ExceptSeq
  <2>6. Grows
    <3>1. \A n \in 1..Len(file) : file[n].form = "whole" => n \in 1..(Len(file) - 1)
      BY <1>1, <2>2
    <3>. QED
      BY <1>1, <2>5, <3>1 DEF Grows
  <2>7. BatchOK' /\ (Sound => Straight)'
    BY <1>2, <2>6, GrowsKeeps
  <2>8. TypeOK' /\ ItemOK'
    BY <1>2, <1>6, <2>5 DEF TypeOK, ItemOK
  <2>9. AppendOK'
    <3>1. file'[Len(file)].form = form
      BY <2>2, <2>5 DEF Line
    <3>2. ~OpenTail(file')
      BY <2>4, <2>5, <3>1 DEF OpenTail, Ended, Last
    <3>. QED
      BY <1>2, <1>4, <2>5, <3>2 DEF AppendOK, OpenTail
  <2>10. NoneSkipped'
    BY <1>2, <1>4, <2>6, GrowsNoneSkipped DEF NoneSkipped
  <2>. QED
    BY <2>7, <2>8, <2>9, <2>10
<1>. QED
  BY <1>5, <1>6

LEMMA WriteStep ==
  ASSUME IInv, Write
  PROVE  IInv'
<1>. USE QueueConstantsOK DEF IInv, consumer, saved
<1>1. file \in Seq(Line) /\ Len(file) \in Nat
  BY DEF TypeOK
<1>2. /\ ppc = "write" /\ ppc' = "idle" /\ item' = NoItem /\ fd' = "none"
      /\ enqueued' = enqueued \union {item} /\ item \in begun
      /\ UNCHANGED <<saved, consumer, begun, delivered, kills>>
  BY DEF Write, ProducerIdle, ItemOK
<1>3. PICK form \in {"whole", "torn", "unended"} :
        /\ file' \in Written(form)
        /\ mishaps' = mishaps \union (IF fd = "live" THEN {} ELSE {"raced"})
                              \union (IF form = "whole" THEN {} ELSE {"short"})
  BY DEF Write
<1>4. /\ Grows
      /\ fd = "live" /\ ~OpenTail(file) =>
           /\ Len(file') = Len(file) + 1
           /\ file'[Len(file')] = [it |-> item, form |-> form]
  BY <1>2, <1>3, WrittenGrows
<1>5. mishaps' = {} => mishaps = {} /\ fd = "live" /\ form = "whole"
  BY <1>3
<1>6. TypeOK'
  <2>1. Len(file') \in Nat /\ file' \in Seq(Line) /\ Len(file) <= Len(file')
    BY <1>1, <1>4 DEF Grows
  <2>2. batch \subseteq 1..Len(file')
    BY <1>1, <2>1 DEF TypeOK
  <2>3. mishaps' \subseteq {"unreset", "raced", "short"}
    BY <1>3 DEF TypeOK
  <2>. QED
    BY <1>2, <2>1, <2>2, <2>3 DEF TypeOK
<1>7. ItemOK' /\ BatchOK' /\ (Sound => Straight)'
  BY <1>2, <1>3, <1>4, GrowsKeeps DEF ItemOK
<1>8. AppendOK'
  BY <1>1, <1>2, <1>4, <1>5 DEF AppendOK, Grows, TypeOK
<1>9. ASSUME mishaps' = {} PROVE \A i \in enqueued' : Kept(i)'
  <2>1. /\ mishaps = {} /\ fd = "live" /\ form = "whole" /\ ~OpenTail(file)
        /\ cpc # "replaced" => seek <= Len(file)
    BY <1>2, <1>5, <1>9 DEF AppendOK, Sound, Straight, OneNumber
  <2>2. ASSUME NEW i \in Items, i = item PROVE Kept(i)'
    <3>1. Len(file') \in 1..Len(file') /\ (cpc # "replaced" => Len(file') > seek)
      BY <1>1, <1>4, <2>1 DEF TypeOK
    <3>. QED
      BY <1>2, <1>4, <2>1, <2>2, <3>1 DEF Kept
  <2>3. ASSUME NEW i \in enqueued PROVE Kept(i)'
    BY <1>2, <1>4, <2>1, GrowsNoneSkipped
  <2>4. item \in Items /\ enqueued' = enqueued \union {item}
    BY <1>2 DEF TypeOK
  <2>. QED
    BY <2>2, <2>3, <2>4
<1>10. NoneSkipped'
  BY <1>9 DEF NoneSkipped
<1>. QED
  BY <1>6, <1>7, <1>8, <1>10

LEMMA FailStep ==
  ASSUME IInv, EnqueueFails
  PROVE  IInv'
<1>. USE QueueConstantsOK DEF IInv, consumer, saved, history
<1>1. /\ Grows /\ ppc' = "idle" /\ item' = NoItem /\ fd' = "none"
      /\ UNCHANGED <<saved, consumer, history>>
  BY PartGrows DEF EnqueueFails, ProducerIdle
<1>2. file' \in Seq(Line) /\ Len(file) \in Nat /\ Len(file') \in Nat /\ Len(file) <= Len(file')
  BY <1>1 DEF Grows, TypeOK
<1>3. TypeOK' /\ ItemOK'
  <2>1. batch \subseteq 1..Len(file')
    BY <1>2 DEF TypeOK
  <2>. QED
    BY <1>1, <1>2, <2>1 DEF TypeOK, ItemOK
<1>4. BatchOK' /\ (Sound => Straight)'
  BY <1>1, GrowsKeeps
<1>5. AppendOK'
  BY <1>1, <1>2 DEF AppendOK, TypeOK
<1>6. NoneSkipped'
  BY <1>1, GrowsNoneSkipped DEF NoneSkipped
<1>. QED
  BY <1>3, <1>4, <1>5, <1>6

(* A kill, or a raise of the consumer; a cursor that it leaves from the    *)
(* old file is a mishap.                                                   *)
LEMMA KillStep ==
  ASSUME IInv, Kill \/ ConsumerRaises
  PROVE  IInv'
<1>. USE QueueConstantsOK DEF IInv
<1>1. /\ kills < MaxKills /\ kills' = kills + 1 /\ cpc' = "idle" /\ batch' = {} /\ shift' = 0
      /\ lineNo' = 0 /\ tmp' = <<>>
      /\ UNCHANGED <<cursor, begun, enqueued, delivered>>
  BY DEF Kill, ConsumerRaises, ConsumerStops
<1>2. /\ seek' \in Nat /\ cut' \in Cuts /\ mishaps \subseteq mishaps'
      /\ mishaps' \subseteq {"unreset", "raced", "short"}
      /\ Sound' => UNCHANGED <<mishaps, seek, cut>> /\ cpc # "replaced"
  <2>1. seek \in Nat /\ cut \in Cuts /\ mishaps \subseteq {"unreset", "raced", "short"}
    BY DEF TypeOK
  <2>2. CASE cpc = "replaced"
    <3>1. mishaps' = mishaps \union {"unreset"} /\ seek' \in 0..MaxLanding /\ cut' \in Cuts
      BY <2>2 DEF Kill, ConsumerRaises, ConsumerStops
    <3>2. seek' \in Nat
      BY <3>1
    <3>3. mishaps' \subseteq {"unreset", "raced", "short"} /\ mishaps \subseteq mishaps' /\ ~Sound'
      BY <2>1, <3>1 DEF Sound
    <3>. QED
      BY <3>1, <3>2, <3>3
  <2>3. CASE cpc # "replaced"
    <3>1. UNCHANGED <<mishaps, seek, cut>>
      BY <2>3 DEF Kill, ConsumerRaises, ConsumerStops
    <3>. QED
      BY <2>1, <2>3, <3>1
  <2>. QED
    BY <2>2, <2>3
<1>3. Grows
  BY SameGrows, PartGrows DEF Kill, ConsumerRaises
<1>4. file' \in Seq(Line) /\ Len(file) \in Nat /\ Len(file') \in Nat /\ Len(file) <= Len(file')
  BY <1>3 DEF Grows, TypeOK
<1>5. \/ ppc' = "idle" /\ item' = NoItem /\ fd' = "none"
      \/ UNCHANGED <<file, ppc, item, fd>>
  BY DEF Kill, ConsumerRaises, ProducerIdle, producer
<1>6. TypeOK' /\ ItemOK'
  BY <1>1, <1>2, <1>4, <1>5, EmptySeq DEF TypeOK, ItemOK
<1>7. BatchOK' /\ (Sound => Straight)'
  BY <1>1, <1>2 DEF BatchOK, Sound, Straight, OneNumber, ListedOK, Listed, NoGapOK
<1>8. mishaps' = {} => mishaps = {} /\ cpc # "replaced" /\ UNCHANGED seek
  BY <1>2 DEF Sound
<1>9. AppendOK'
  <2>. SUFFICES ASSUME mishaps' = {}
                PROVE  /\ ppc' \in {"open", "write"} => ~OpenTail(file')
                       /\ cursor' <= Len(file')
    BY DEF AppendOK, OpenTail
  <2>1. ppc' \in {"open", "write"} => ~OpenTail(file')
    BY <1>5, <1>8 DEF AppendOK, OpenTail
  <2>. QED
    BY <1>1, <1>4, <1>8, <2>1 DEF AppendOK, TypeOK
<1>10. NoneSkipped'
  BY <1>1, <1>3, <1>8, GrowsNoneSkipped DEF NoneSkipped
<1>. QED
  BY <1>6, <1>7, <1>9, <1>10

-----------------------------------------------------------------------------
(* The consumer *)

LEMMA ListStep ==
  ASSUME IInv, List
  PROVE  IInv'
<1>. USE DEF IInv, List, producer, history, saved
<1>1. /\ batch' = {n \in First..Len(file) : file[n].form = "whole"} /\ batch' # {}
      /\ shift' = cursor - seek /\ cpc' = "deliver"
      /\ Len(file) \in Nat /\ cursor \in Nat /\ seek \in Nat /\ First \in Nat /\ First > seek
  BY DEF Pending, TypeOK, First
<1>2. Listed' = batch'
  BY DEF Listed
<1>3. batch' \subseteq 1..Len(file) /\ \A n \in batch' : n > seek
  BY <1>1
<1>4. shift' \in Int
  BY <1>1
<1>5. TypeOK' /\ ItemOK'
  BY <1>3, <1>4 DEF TypeOK, ItemOK
<1>6. BatchOK'
  <2>1. ASSUME NEW n \in batch' PROVE n + shift' \in Nat
    BY <1>1, <1>3
  <2>. QED
    BY <1>1, <2>1 DEF BatchOK
<1>7. (Sound => Straight)'
  <2>. SUFFICES ASSUME Sound PROVE Straight'
    BY DEF Sound
  <2>1. seek = cursor /\ cut = "none" /\ First = cursor + 1
    BY DEF Straight, OneNumber, First
  <2>2. OneNumber'
    BY <1>1, <2>1 DEF OneNumber
  <2>3. ListedOK' /\ NoGapOK'
    BY <1>1, <1>2, <1>3, <2>1 DEF ListedOK, NoGapOK
  <2>. QED
    BY <2>2, <2>3 DEF Straight
<1>. QED
  BY <1>5, <1>6, <1>7 DEF AppendOK, NoneSkipped, Kept

(* The line that is delivered is the first of those listed. *)
LEMMA DeliverStep ==
  ASSUME IInv, Deliver
  PROVE  IInv'
<1>. DEFINE m == Min(batch)
<1>. USE DEF IInv, producer, saved
<1>1. /\ batch \in SUBSET Nat /\ batch # {} /\ batch \subseteq 1..Len(file) /\ Len(file) \in Nat
      /\ file \in Seq(Line) /\ cursor \in Nat
  BY DEF TypeOK, BatchOK, Deliver
<1>2. m \in batch /\ \A n \in batch : m <= n
  BY <1>1, LeastFirst
<1>3. /\ lineNo' = m + shift /\ batch' = batch \ {m} /\ cpc = "deliver" /\ cpc' = "advance"
      /\ delivered' = [delivered EXCEPT ![file[m].it] = @ + 1]
      /\ UNCHANGED <<shift, tmp, file, saved, producer, begun, enqueued, kills, mishaps>>
  BY DEF Deliver
<1>. HIDE DEF m
<1>4. file[m].it \in Items
  BY <1>1, <1>2, LineType
<1>5. /\ delivered' \in [Items -> Nat] /\ delivered'[file[m].it] > 0
      /\ \A i \in Items : delivered[i] > 0 => delivered'[i] > 0
  BY <1>3, <1>4 DEF TypeOK
<1>6. lineNo' \in Nat
  BY <1>2, <1>3 DEF BatchOK
<1>7. TypeOK' /\ ItemOK'
  BY <1>1, <1>3, <1>5, <1>6 DEF TypeOK, ItemOK
<1>8. BatchOK'
  BY <1>3 DEF BatchOK
<1>9. (Sound => Straight)'
  <2>. SUFFICES ASSUME Sound PROVE Straight'
    BY <1>3 DEF Sound
  <2>1. shift = 0 /\ lineNo' = m /\ Straight
    BY <1>1, <1>2, <1>3 DEF Straight, OneNumber
  <2>2. Listed' = batch /\ Listed = batch
    BY <1>2, <1>3, <2>1 DEF Listed
  <2>3. ListedOK'
    <3>1. \A n \in batch' : lineNo' < n
      BY <1>1, <1>2, <1>3, <2>1
    <3>2. delivered'[file'[lineNo'].it] > 0
      BY <1>3, <1>5, <2>1
    <3>3. \A n \in Listed' : n \in 1..Len(file') /\ n > cursor' /\ file'[n].form = "whole"
      BY <1>3, <2>1, <2>2 DEF Straight, ListedOK
    <3>. QED
      BY <3>1, <3>2, <3>3 DEF ListedOK
  <2>4. NoGapOK'
    BY <1>3, <2>1, <2>2 DEF Straight, NoGapOK
  <2>. QED
    BY <1>3, <2>1, <2>3, <2>4 DEF Straight, OneNumber
<1>10. NoneSkipped'
  <2>. SUFFICES ASSUME mishaps = {}, NEW i \in enqueued PROVE Kept(i)'
    BY <1>3 DEF NoneSkipped
  <2>1. Kept(i) /\ i \in Items
    BY DEF NoneSkipped, TypeOK
  <2>. QED
    BY <1>3, <1>5, <2>1 DEF Kept
<1>. QED
  BY <1>3, <1>7, <1>8, <1>9, <1>10 DEF AppendOK

LEMMA AdvanceStep ==
  ASSUME IInv, Advance
  PROVE  IInv'
<1>. USE DEF IInv, producer, history
<1>1. /\ Len(file) \in Nat /\ file \in Seq(Line) /\ cursor \in Nat /\ lineNo \in Nat
      /\ batch \subseteq 1..Len(file)
  BY DEF TypeOK
<1>2. /\ cpc = "advance" /\ cpc' = (IF batch = {} THEN "idle" ELSE "deliver") /\ lineNo' = 0
      /\ cursor' = (IF lineNo <= LastEnded THEN lineNo ELSE LastEnded)
      /\ seek' = cursor' /\ cut' = "none"
      /\ UNCHANGED <<batch, shift, tmp, file, producer, history>>
  BY DEF Advance
<1>3. LastEnded \in Nat /\ LastEnded <= Len(file)
  BY <1>1, EmptySeq DEF LastEnded, OpenTail
<1>4. TypeOK' /\ ItemOK' /\ BatchOK'
  <2>1. cursor' \in Nat
    BY <1>1, <1>2, <1>3
  <2>. QED
    BY <1>2, <2>1 DEF TypeOK, ItemOK, BatchOK, Cuts
<1>5. ASSUME Sound
      PROVE  /\ shift = 0 /\ seek = cursor /\ cursor' = lineNo /\ lineNo > cursor
             /\ lineNo \in 1..Len(file) /\ delivered[file[lineNo].it] > 0
             /\ \A n \in batch : lineNo < n
             /\ Listed = batch \union {lineNo} /\ Listed' = batch
  <2>1. Listed = batch \union {lineNo} /\ Listed' = batch
    BY <1>2 DEF Listed
  <2>2. /\ shift = 0 /\ seek = cursor /\ lineNo \in 1..Len(file) /\ lineNo > cursor
        /\ file[lineNo].form = "whole"
        /\ delivered[file[lineNo].it] > 0 /\ \A n \in batch : lineNo < n
    BY <1>2, <1>5, <2>1 DEF Straight, OneNumber, ListedOK
  <2>3. lineNo <= LastEnded
    <3>1. OpenTail(file) => file[Len(file)].form # "whole"
      BY DEF OpenTail, Ended, Last
    <3>. QED
      BY <1>1, <2>2, <3>1 DEF LastEnded
  <2>. QED
    BY <1>2, <2>1, <2>2, <2>3
<1>6. (Sound => Straight)'
  <2>. SUFFICES ASSUME Sound PROVE Straight'
    BY <1>2 DEF Sound
  <2>1. OneNumber'
    BY <1>2, <1>5 DEF OneNumber
  <2>2. ListedOK'
    <3>1. \A n \in batch : n \in 1..Len(file) /\ n > lineNo /\ file[n].form = "whole"
      BY <1>1, <1>5 DEF Straight, ListedOK
    <3>2. cpc' # "advance"
      BY <1>2
    <3>. QED
      BY <1>2, <1>5, <3>1, <3>2 DEF ListedOK
  <2>3. NoGapOK'
    <3>. SUFFICES ASSUME NEW m \in batch, NEW n \in (lineNo + 1)..m, file[n].form = "whole"
                  PROVE  n \in batch
      BY <1>2, <1>5 DEF NoGapOK
    <3>1. n \in (cursor + 1)..m /\ n # lineNo
      BY <1>1, <1>5
    <3>2. n \in Listed
      BY <1>5, <3>1 DEF Straight, NoGapOK
    <3>. QED
      BY <1>5, <3>1, <3>2
  <2>. QED
    BY <2>1, <2>2, <2>3 DEF Straight
<1>7. AppendOK'
  <2>1. cursor' <= Len(file)
    BY <1>1, <1>2, <1>3
  <2>. QED
    BY <1>2, <2>1 DEF AppendOK, OpenTail
<1>8. NoneSkipped'
  <2>. SUFFICES ASSUME mishaps = {}, NEW i \in enqueued PROVE Kept(i)'
    BY <1>2 DEF NoneSkipped
  <2>1. Sound
    BY DEF Sound
  <2>2. CASE delivered[i] > 0
    BY <1>2, <2>2 DEF Kept
  <2>3. ASSUME NEW n \in 1..Len(file), file[n] = [it |-> i, form |-> "whole"], n > cursor
        PROVE  Kept(i)'
    <3>1. CASE n > lineNo
      BY <1>2, <1>5, <2>1, <2>3, <3>1 DEF Kept
    <3>2. CASE n <= lineNo
      <4>1. n \in Listed
        <5>1. n \in (cursor + 1)..lineNo /\ lineNo \in Listed
          BY <1>1, <1>5, <2>1, <2>3, <3>2
        <5>. QED
          BY <2>1, <2>3, <5>1 DEF Straight, NoGapOK
      <4>2. n = lineNo
        BY <1>1, <1>5, <2>1, <3>2, <4>1
      <4>. QED
        BY <1>2, <1>5, <2>1, <2>3, <4>2 DEF Kept
    <3>. QED
      BY <1>1, <3>1, <3>2
  <2>. QED
    BY <1>2, <1>5, <2>1, <2>2, <2>3 DEF NoneSkipped, Kept
<1>. QED
  BY <1>4, <1>6, <1>7, <1>8

(* What is behind the byte offset. *)
LEMMA RestFacts ==
  ASSUME IInv
  PROVE  /\ Rest \in Seq(Line)
         /\ cut = "none" =>
              /\ Len(Rest) = (IF seek <= Len(file) THEN Len(file) - seek ELSE 0)
              /\ \A n \in 1..Len(Rest) : seek + n \in 1..Len(file) /\ Rest[n] = file[seek + n]
<1>. DEFINE c == SubSeq(file, seek + 1, Len(file))
<1>1. /\ Len(file) \in Nat /\ file \in Seq(Line) /\ seek \in Nat /\ cut \in Cuts
  BY DEF IInv, TypeOK
<1>2. \A n \in (seek + 1)..Len(file) : file[n] \in Line
  BY <1>1, ElementOfSeq
<1>3. /\ c \in Seq(Line)
      /\ Len(c) = IF seek + 1 <= Len(file) THEN Len(file) - (seek + 1) + 1 ELSE 0
      /\ \A n \in 1..(Len(file) - (seek + 1) + 1) : c[n] = file[seek + 1 + n - 1]
  BY <1>1, <1>2, SubSeqProperties
<1>4. CASE cut = "none"
  <2>1. Rest = c
    BY <1>4 DEF Rest
  <2>. HIDE DEF c
  <2>2. \A n \in 1..Len(c) : seek + n \in 1..Len(file) /\ c[n] = file[seek + n]
    BY <1>1, <1>3
  <2>. QED
    BY <1>1, <1>3, <2>1, <2>2
<1>5. CASE cut # "none"
  <2>1. CASE c = <<>>
    BY <1>3, <1>5, <2>1 DEF Rest
  <2>2. CASE c # <<>>
    <3>1. Rest = [c EXCEPT ![1].form = IF Ended(c[1]) THEN cut ELSE "torn"]
      BY <2>2, <1>5 DEF Rest
    <3>. HIDE DEF c
    <3>2. 1 \in 1..Len(c) /\ c[1] \in Line
      BY <1>3, <2>2, EmptySeq, LineType
    <3>3. PICK f \in Forms : Rest = [c EXCEPT ![1] = [c[1] EXCEPT !.form = f]]
      BY <1>1, <1>5, <3>1 DEF Forms, Cuts
    <3>4. [c[1] EXCEPT !.form = f] \in Line
      BY <3>2 DEF Line
    <3>5. Rest \in Seq(Line)
      BY <1>3, <3>2, <3>3, <3>4, ExceptSeq
    <3>. QED
      BY <1>5, <3>5
  <2>. QED
    BY <2>1, <2>2
<1>. QED
  BY <1>4, <1>5

LEMMA CopyStep ==
  ASSUME IInv, CompactCopy
  PROVE  IInv'
<1>. USE QueueConstantsOK DEF IInv, saved, producer, history
<1>1. /\ cpc = "idle" /\ cpc' = "copied" /\ tmp' = Rest
      /\ UNCHANGED <<batch, shift, lineNo, file, saved, producer, history>>
  BY DEF CompactCopy
<1>2. TypeOK' /\ ItemOK' /\ BatchOK'
  BY <1>1, RestFacts DEF TypeOK, ItemOK, BatchOK
<1>3. (Sound => Straight)'
  BY <1>1 DEF Sound, Straight, OneNumber, ListedOK, Listed, NoGapOK
<1>4. AppendOK' /\ NoneSkipped'
  BY <1>1 DEF AppendOK, OpenTail, NoneSkipped, Kept
<1>. QED
  BY <1>2, <1>3, <1>4

LEMMA ReplaceStep ==
  ASSUME IInv, CompactReplace
  PROVE  IInv'
<1>. USE DEF IInv, saved, producer
<1>1. /\ cpc = "copied" /\ cpc' = "replaced" /\ file' = tmp /\ tmp' = <<>>
      /\ fd' = (IF fd = "live" THEN "replaced" ELSE fd)
      /\ mishaps' = (IF tmp = Rest THEN mishaps ELSE mishaps \union {"raced"})
      /\ UNCHANGED <<batch, shift, lineNo, saved, ppc, item, begun, enqueued, delivered, kills>>
  BY DEF CompactReplace
<1>2. /\ Len(file) \in Nat /\ file \in Seq(Line) /\ cursor \in Nat
      /\ Len(tmp) \in Nat /\ tmp \in Seq(Line) /\ batch = {}
  BY <1>1 DEF TypeOK, BatchOK
<1>3. TypeOK' /\ ItemOK' /\ BatchOK'
  <2>1. <<>> \in Seq(Line)
    BY EmptySeq
  <2>. QED
    BY <1>1, <1>2, <2>1 DEF TypeOK, ItemOK, BatchOK
<1>4. (Sound => Straight)'
  <2>1. Sound' => Sound
    BY <1>1 DEF Sound
  <2>2. Listed' = {}
    BY <1>1, <1>2 DEF Listed
  <2>. QED
    BY <1>1, <2>1, <2>2 DEF Straight, OneNumber, ListedOK, NoGapOK
<1>5. ASSUME mishaps' = {}
      PROVE  /\ mishaps = {} /\ seek = cursor
             /\ \A n \in 1..Len(file) : n > cursor =>
                  n - cursor \in 1..Len(tmp) /\ tmp[n - cursor] = file[n]
             /\ OpenTail(tmp) => OpenTail(file)
  <2>1. mishaps = {} /\ tmp = Rest
    BY <1>1, <1>5
  <2>2. seek = cursor /\ cut = "none" /\ cursor <= Len(file)
    BY <1>1, <2>1 DEF Sound, Straight, OneNumber, AppendOK
  <2>3. /\ Len(tmp) = Len(file) - cursor
        /\ \A n \in 1..Len(tmp) : cursor + n \in 1..Len(file) /\ tmp[n] = file[cursor + n]
    BY <2>1, <2>2, RestFacts
  <2>4. \A n \in 1..Len(file) : n > cursor =>
          n - cursor \in 1..Len(tmp) /\ tmp[n - cursor] = file[n]
    BY <1>2, <2>3
  <2>5. OpenTail(tmp) => OpenTail(file)
    <3>. SUFFICES ASSUME OpenTail(tmp) PROVE OpenTail(file)
      OBVIOUS
    <3>1. Len(tmp) \in 1..Len(tmp)
      BY <1>2, EmptySeq DEF OpenTail
    <3>2. cursor + Len(tmp) = Len(file) /\ tmp[Len(tmp)] = file[cursor + Len(tmp)] /\ Len(file) # 0
      BY <1>2, <2>3, <3>1
    <3>3. tmp[Len(tmp)] = file[Len(file)] /\ file # <<>>
      BY <1>2, <3>2, EmptySeq
    <3>. QED
      BY <3>3 DEF OpenTail, Last
  <2>. QED
    BY <2>1, <2>2, <2>4, <2>5
<1>6. AppendOK'
  <2>1. mishaps' = {} /\ ppc' \in {"open", "write"} => ~OpenTail(tmp)
    BY <1>1, <1>5 DEF AppendOK
  <2>2. OpenTail(file)' <=> OpenTail(tmp)
    BY <1>1 DEF OpenTail
  <2>3. cpc' = "replaced"
    BY <1>1
  <2>. QED
    BY <2>1, <2>2, <2>3 DEF AppendOK
<1>7. NoneSkipped'
  <2>. SUFFICES ASSUME mishaps' = {}, NEW i \in enqueued PROVE Kept(i)'
    BY <1>1 DEF NoneSkipped
  <2>1. CASE delivered[i] > 0
    BY <1>1, <2>1 DEF Kept
  <2>2. ASSUME NEW n \in 1..Len(file), file[n] = [it |-> i, form |-> "whole"], n > cursor
        PROVE  Kept(i)'
    <3>1. n - cursor \in 1..Len(tmp) /\ tmp[n - cursor] = file[n]
      BY <1>2, <1>5, <2>2
    <3>. QED
      BY <1>1, <2>2, <3>1 DEF Kept
  <2>. QED
    BY <1>1, <1>5, <2>1, <2>2 DEF NoneSkipped, Kept
<1>. QED
  BY <1>3, <1>4, <1>6, <1>7

LEMMA ResetStep ==
  ASSUME IInv, CompactReset
  PROVE  IInv'
<1>. USE DEF IInv, CompactReset, producer, history
<1>1. batch = {} /\ Len(file) \in Nat
  BY DEF BatchOK, TypeOK
<1>2. TypeOK' /\ ItemOK' /\ BatchOK'
  BY DEF TypeOK, ItemOK, BatchOK, Cuts
<1>3. NoneSkipped'
  BY <1>1 DEF NoneSkipped, Kept
<1>4. (Sound => Straight)'
  <2>1. Listed' = {}
    BY <1>1 DEF Listed
  <2>. QED
    BY <2>1 DEF Sound, Straight, OneNumber, ListedOK, NoGapOK
<1>. QED
  BY <1>1, <1>2, <1>3, <1>4 DEF AppendOK, OpenTail

-----------------------------------------------------------------------------
(* Results *)

LEMMA NextIInv == IInv /\ [Next]_vars => IInv'
<1>. SUFFICES ASSUME IInv, [Next]_vars PROVE IInv'
  OBVIOUS
<1>1. CASE UNCHANGED vars
  BY <1>1 DEF IInv, TypeOK, ItemOK, BatchOK, Sound, Straight, OneNumber, ListedOK, Listed,
     NoGapOK, AppendOK, NoneSkipped, Kept, OpenTail, vars, saved, producer, consumer, history
<1>2. CASE Next
  BY <1>2, OpenStep, RepairStep, WriteStep, FailStep, KillStep, ListStep, DeliverStep, AdvanceStep,
     CopyStep, ReplaceStep, ResetStep
     DEF Next, Producer, Consumer
<1>. QED
  BY <1>1, <1>2

(* For any items, thresholds, kills and landing places the variables have  *)
(* their types, and what the consumer has listed are lines of the file.    *)
THEOREM TypeCorrect == Spec => []TypeOK
<1>1. IInv => TypeOK
  BY DEF IInv
<1>. QED
  BY InitIInv, NextIInv, <1>1, PTL DEF Spec

(* However enqueues, deliveries, compactions, raises and kills interleave: *)
(* without a short write, a cursor left from a file that is gone, or an    *)
(* append to such a file, no item whose enqueue returned is skipped.       *)
THEOREM NoneIsSkipped == Spec => []NoneSkipped
<1>1. IInv => NoneSkipped
  BY DEF IInv
<1>. QED
  BY InitIInv, NextIInv, <1>1, PTL DEF Spec
-----------------------------------------------------------------------------
(* Redelivery.  A second invariant, for as long as no cursor was left from *)
(* a file that is gone: an item is in one line only, and what was          *)
(* delivered and not yet advanced past is the first pending line, for      *)
(* which a kill or a raise has already paid.                               *)

LinesApart(c) ==
  /\ \A n \in 1..Len(c) :
       /\ c[n].it \in begun
       /\ ppc # "idle" => c[n].it # item
       /\ c[n].form # "whole" => delivered[c[n].it] = 0
  /\ \A n, m \in 1..Len(c) : c[n].it = c[m].it => n = m

(* The copy holds lines of the file, though not always their last form. *)
CopyOf ==
  /\ cpc # "copied" => tmp = <<>>
  /\ \A n \in 1..Len(tmp) :
       /\ cursor + n <= Len(file)
       /\ tmp[n].it = file[cursor + n].it
       /\ tmp[n].form = "whole" => file[cursor + n].form = "whole"

ItemsApart ==
  /\ LinesApart(file) /\ LinesApart(tmp)
  /\ \A i \in Items \ begun : delivered[i] = 0
  /\ ppc # "idle" => delivered[item] = 0
  /\ CopyOf

(* Where the next listing starts. *)
Base == IF cpc = "replaced" THEN 0 ELSE cursor

(* The pending lines that will be delivered again. *)
Due == {n \in (Base + 1)..Len(file) :
          /\ file[n].form = "whole"
          /\ delivered[file[n].it] > 0
          /\ cpc = "advance" => n # lineNo}

DueFirst ==
  /\ cpc = "advance" => Due = {}
  /\ \A d \in Due : \A n \in (Base + 1)..(d - 1) : file[n].form # "whole"

Paid ==
  /\ IsFiniteSet(Redeliveries)
  /\ Cardinality(Redeliveries) + (IF Due = {} THEN 0 ELSE 1) <= kills

RInv == ItemsApart /\ DueFirst

(* What the producer, or a kill, adds to the file is a line of the item    *)
(* that is being enqueued, and no line changes its item.                   *)
OneItemAdded ==
  \A n \in 1..Len(file') :
    \/ /\ n \in 1..Len(file) /\ file'[n].it = file[n].it
       /\ file[n].form = "whole" => file'[n].form = "whole"
    \/ n = Len(file) + 1 /\ file'[n].it = item /\ ppc # "idle" /\ ppc' = "idle"

LEMMA AppendToItems ==
  ASSUME NEW c \in Seq(Line), NEW i \in Items, NEW f \in Forms, NEW ruin \in Ruins,
         NEW n \in 1..Len(AppendTo(c, [it |-> i, form |-> f], ruin))
  PROVE  LET d == AppendTo(c, [it |-> i, form |-> f], ruin)
         IN  \/ /\ n \in 1..Len(c) /\ d[n].it = c[n].it
                /\ c[n].form = "whole" => d[n].form = "whole"
             \/ n = Len(c) + 1 /\ d[n].it = i
<1>. DEFINE l == [it |-> i, form |-> f]
            d == AppendTo(c, l, ruin)
            form == IF l.form = "whole" THEN ruin ELSE "torn"
<1>1. CASE OpenTail(c)
  <2>1. Len(c) \in 1..Len(c) /\ Len(c) \in Nat
    BY <1>1, EmptySeq DEF OpenTail
  <2>2. c[Len(c)] \in Line /\ c[Len(c)].form # "whole"
    BY <1>1, <2>1, LineType DEF OpenTail, Ended, Last
  <2>3. d = [c EXCEPT ![Len(c)] = [c[Len(c)] EXCEPT !.form = form]] /\ form \in Forms
    BY <1>1 DEF AppendTo, Forms, Ruins
  <2>. HIDE DEF d, form
  <2>4. [c[Len(c)] EXCEPT !.form = form] \in Line /\ [c[Len(c)] EXCEPT !.form = form].it = c[Len(c)].it
    BY <2>2, <2>3 DEF Line
  <2>5. Len(d) = Len(c) /\ \A m \in 1..Len(c) :
          d[m] = IF m = Len(c) THEN [c[Len(c)] EXCEPT !.form = form] ELSE c[m]
    BY <2>1, <2>3, <2>4, ExceptSeq
  <2>6. n \in 1..Len(c)
    BY <2>5 DEF d
  <2>7. d[n].it = c[n].it /\ (c[n].form = "whole" => d[n].form = "whole")
    BY <2>2, <2>4, <2>5, <2>6
  <2>. QED
    BY <2>6, <2>7 DEF d
<1>2. CASE ~OpenTail(c)
  <2>1. d = Append(c, l) /\ l \in Line
    BY <1>2 DEF AppendTo, Line
  <2>2. l.it = i
    OBVIOUS
  <2>3. n \in 1..Len(d)
    OBVIOUS
  <2>. HIDE DEF d, l
  <2>4. /\ Len(d) = Len(c) + 1 /\ Len(c) \in Nat
        /\ \A m \in 1..Len(c) : d[m] = c[m]
        /\ d[Len(c) + 1] = l
    BY <2>1, AppendProperties
  <2>5. \/ n \in 1..Len(c) /\ d[n] = c[n]
        \/ n = Len(c) + 1 /\ d[n] = l
    BY <2>3, <2>4
  <2>. QED
    BY <2>2, <2>5 DEF d, l
<1>. QED
  BY <1>1, <1>2

LEMMA GrowsApart ==
  ASSUME IInv, Straight, ItemsApart, Grows, OneItemAdded, UNCHANGED delivered,
         begun \subseteq begun',
         ppc' # "idle" => (ppc # "idle" /\ item' = item) \/ item' \in Items \ begun
  PROVE  /\ LinesApart(file)'
         /\ (\A i \in Items \ begun : delivered[i] = 0)'
         /\ (ppc # "idle" => delivered[item] = 0)'
<1>. USE DEF ItemsApart
<1>1. Len(file) \in Nat /\ Len(file') \in Nat
  BY LenProperties DEF IInv, TypeOK, Grows
<1>2. ppc # "idle" => item \in begun
  BY DEF IInv, ItemOK
<1>3. \A n \in 1..Len(file') :
        /\ file'[n].it \in begun'
        /\ ppc' # "idle" => file'[n].it # item'
        /\ file'[n].form # "whole" => delivered'[file'[n].it] = 0
  BY <1>2 DEF OneItemAdded, LinesApart
<1>4. \A n, m \in 1..Len(file') : file'[n].it = file'[m].it => n = m
  BY <1>1 DEF OneItemAdded, LinesApart
<1>5. LinesApart(file)'
  BY <1>3, <1>4 DEF LinesApart
<1>6. (\A i \in Items \ begun : delivered[i] = 0)'
  OBVIOUS
<1>7. (ppc # "idle" => delivered[item] = 0)'
  OBVIOUS
<1>. QED
  BY <1>5, <1>6, <1>7

(* A line the producer touched is not due; the others keep their place. *)
LEMMA GrowsDue ==
  ASSUME IInv, Straight, RInv, Grows, OneItemAdded, UNCHANGED <<cursor, delivered>>,
         NEW d \in Due', cpc' = "replaced" => cpc = "replaced"
  PROVE  /\ d \in 1..Len(file) /\ file[d].form = "whole" /\ delivered[file[d].it] > 0
         /\ d > Base
         /\ \A n \in 1..(d - 1) : file'[n] = file[n]
<1>1. Len(file) \in Nat /\ Len(file') \in Nat /\ cursor \in Nat
  BY LenProperties DEF IInv, TypeOK, Grows
<1>2. d \in 1..Len(file') /\ delivered[file'[d].it] > 0 /\ d > Base' /\ d \in Nat
  BY <1>1 DEF Due, Base
<1>3. d \in 1..Len(file) /\ file'[d].it = file[d].it
  BY <1>2 DEF OneItemAdded, RInv, ItemsApart
<1>4. file[d].form = "whole"
  BY <1>2, <1>3 DEF RInv, ItemsApart, LinesApart
<1>5. \A n \in 1..(d - 1) : n \in 1..(Len(file) - 1)
  BY <1>1, <1>2, <1>3
<1>6. Base' >= Base
  BY <1>1 DEF Base
<1>7. d > Base
  BY <1>1, <1>2, <1>6 DEF Base
<1>. QED
  BY <1>2, <1>3, <1>4, <1>5, <1>7 DEF Grows

LEMMA ProducerPays ==
  ASSUME IInv, Straight, RInv, Paid, Grows, OneItemAdded,
         UNCHANGED <<saved, consumer, delivered, kills>>,
         begun \subseteq begun',
         ppc' # "idle" => (ppc # "idle" /\ item' = item) \/ item' \in Items \ begun
  PROVE  RInv' /\ Paid'
<1>. USE DEF RInv, consumer, saved
<1>1. Len(file) \in Nat /\ Len(file') \in Nat /\ Len(file) <= Len(file') /\ cursor \in Nat
      /\ Len(tmp) \in Nat
  BY LenProperties DEF IInv, TypeOK, Grows
<1>2. /\ LinesApart(file)'
      /\ (\A i \in Items \ begun : delivered[i] = 0)'
      /\ (ppc # "idle" => delivered[item] = 0)'
  BY GrowsApart
<1>3. LinesApart(tmp)'
  BY DEF ItemsApart, LinesApart
<1>4. CopyOf'
  <2>. SUFFICES ASSUME NEW n \in 1..Len(tmp)
                PROVE  /\ cursor + n <= Len(file')
                       /\ tmp[n].it = file'[cursor + n].it
                       /\ tmp[n].form = "whole" => file'[cursor + n].form = "whole"
    BY DEF ItemsApart, CopyOf
  <2>1. /\ cursor + n \in 1..Len(file) /\ tmp[n].it = file[cursor + n].it
        /\ tmp[n].form = "whole" => file[cursor + n].form = "whole"
    BY <1>1 DEF ItemsApart, CopyOf
  <2>. QED
    BY <1>1, <2>1 DEF OneItemAdded
<1>5. ItemsApart'
  BY <1>2, <1>3, <1>4 DEF ItemsApart
<1>6. ASSUME NEW d \in Due'
      PROVE  d \in Due /\ \A n \in (Base + 1)..(d - 1) : file'[n].form # "whole"
  <2>1. /\ d \in 1..Len(file) /\ file[d].form = "whole" /\ delivered[file[d].it] > 0 /\ d > Base
        /\ \A n \in 1..(d - 1) : file'[n] = file[n]
    BY <1>6, GrowsDue
  <2>2. d \in Due
    BY <1>1, <1>6, <2>1 DEF Due, Base
  <2>. QED
    BY <1>1, <2>1, <2>2 DEF DueFirst, Base
<1>7. DueFirst'
  BY <1>6 DEF DueFirst, Base
<1>8. Paid'
  <2>1. Redeliveries' = Redeliveries
    BY DEF Redeliveries
  <2>2. Due = {} => Due' = {}
    BY <1>6
  <2>3. Cardinality(Redeliveries) \in Nat /\ kills \in Nat
    BY QueueConstantsOK, FS_CardinalityType DEF Paid, IInv, TypeOK
  <2>. QED
    BY <2>1, <2>2, <2>3 DEF Paid
<1>. QED
  BY <1>5, <1>7, <1>8

LEMMA OpenPays ==
  ASSUME IInv, Straight, RInv, Paid, (\E i \in Items : Enqueue(i)) \/ OpenAppend
  PROVE  RInv' /\ Paid'
<1>1. /\ UNCHANGED <<file, saved, consumer, delivered, kills>> /\ begun \subseteq begun'
      /\ ppc' # "idle" => (ppc # "idle" /\ item' = item) \/ item' \in Items \ begun
  BY DEF Enqueue, OpenAppend, history
<1>2. Grows /\ OneItemAdded
  BY <1>1, LenProperties DEF Grows, OneItemAdded, IInv, TypeOK
<1>. QED
  BY <1>1, <1>2, ProducerPays

LEMMA RepairPays ==
  ASSUME IInv, Straight, RInv, Paid, Repair
  PROVE  RInv' /\ Paid'
<1>1. /\ UNCHANGED <<item, saved, consumer, begun, delivered, kills>>
      /\ ppc # "idle"
      /\ file \in Seq(Line) /\ Len(file) \in Nat
  BY LenProperties DEF Repair, IInv, TypeOK
<1>2. PICK ruin \in Ruins :
        file' = IF fd = "live" /\ OpenTail(file)
                THEN [file EXCEPT ![Len(file)].form = IF @ = "unended" THEN "whole" ELSE ruin]
                ELSE file
  BY DEF Repair
<1>3. Grows /\ OneItemAdded
  <2>1. CASE file' = file
    BY <1>1, <2>1 DEF Grows, OneItemAdded
  <2>2. CASE fd = "live" /\ OpenTail(file)
    <3>. DEFINE form == IF file[Len(file)].form = "unended" THEN "whole" ELSE ruin
    <3>1. Len(file) \in 1..Len(file)
      BY <1>1, <2>2, EmptySeq DEF OpenTail
    <3>2. file[Len(file)] \in Line /\ file[Len(file)].form # "whole"
      BY <1>1, <2>2, <3>1, LineType DEF OpenTail, Ended, Last
    <3>3. file' = [file EXCEPT ![Len(file)] = [file[Len(file)] EXCEPT !.form = form]]
      BY <1>1, <1>2, <2>2, <3>1
    <3>. HIDE DEF form
    <3>4. /\ [file[Len(file)] EXCEPT !.form = form] \in Line
          /\ [file[Len(file)] EXCEPT !.form = form].it = file[Len(file)].it
      BY <3>2 DEF Line, Forms, Ruins, form
    <3>5. /\ file' \in Seq(Line) /\ Len(file') = Len(file)
          /\ \A n \in 1..Len(file) :
               file'[n] = IF n = Len(file) THEN [file[Len(file)] EXCEPT !.form = form] ELSE file[n]
      BY <1>1, <3>1, <3>3, <3>4, ExceptSeq
    <3>6. Grows
      BY <1>1, <3>2, <3>5 DEF Grows
    <3>7. OneItemAdded
      BY <1>1, <3>2, <3>4, <3>5 DEF OneItemAdded
    <3>. QED
      BY <3>6, <3>7
  <2>. QED
    BY <1>2, <2>1, <2>2
<1>. QED
  BY <1>1, <1>3, ProducerPays

LEMMA AppendGrows ==
  ASSUME IInv, ppc = "write", ppc' = "idle", NEW form \in {"whole", "torn", "unended"},
         file' \in Written(form)
  PROVE  Grows /\ OneItemAdded
<1>1. Grows
  BY WrittenGrows
<1>2. CASE fd # "live"
  BY <1>1, <1>2, LenProperties DEF Written, OneItemAdded, IInv, TypeOK
<1>3. CASE fd = "live"
  <2>1. PICK ruin \in Ruins : file' = AppendTo(file, [it |-> item, form |-> form], ruin)
    BY <1>3 DEF Written
  <2>2. file \in Seq(Line) /\ item \in Items /\ form \in Forms
    BY QueueConstantsOK DEF IInv, TypeOK, ItemOK, Forms
  <2>3. OneItemAdded
    BY <2>1, <2>2, AppendToItems DEF OneItemAdded
  <2>. QED
    BY <1>1, <2>3
<1>. QED
  BY <1>2, <1>3

LEMMA PartAdds ==
  ASSUME IInv, file' \in PartWritten, ppc # "idle" => ppc' = "idle"
  PROVE  Grows /\ OneItemAdded
<1>1. Grows
  BY PartGrows
<1>2. CASE file' = file
  BY <1>1, <1>2, LenProperties DEF OneItemAdded, IInv, TypeOK
<1>3. CASE file' # file
  <2>1. PICK form \in {"whole", "torn", "unended"} : ppc = "write" /\ file' \in Written(form)
    BY <1>3 DEF PartWritten
  <2>. QED
    BY <2>1, AppendGrows
<1>. QED
  BY <1>2, <1>3

LEMMA WritePays ==
  ASSUME IInv, Straight, RInv, Paid, Write \/ EnqueueFails
  PROVE  RInv' /\ Paid'
<1>1. /\ UNCHANGED <<saved, consumer, begun, delivered, kills>>
      /\ ppc # "idle" /\ ppc' = "idle"
  BY DEF Write, EnqueueFails, ProducerIdle, history
<1>2. Grows /\ OneItemAdded
  <2>1. CASE Write
    BY <1>1, <2>1, AppendGrows DEF Write
  <2>2. CASE EnqueueFails
    BY <1>1, <2>2, PartAdds DEF EnqueueFails
  <2>. QED
    BY <2>1, <2>2
<1>. QED
  BY <1>1, <1>2, ProducerPays

(* A kill pays for the line that was delivered and not advanced past, and  *)
(* so does a raise.                                                        *)
LEMMA KillPays ==
  ASSUME IInv, Straight, RInv, Paid, Kill \/ ConsumerRaises, Sound'
  PROVE  RInv' /\ Paid'
<1>. USE DEF RInv
<1>1. /\ UNCHANGED <<cursor, begun, delivered>> /\ kills' = kills + 1
      /\ cpc' = "idle" /\ tmp' = <<>>
      /\ ppc' = "idle" \/ UNCHANGED <<file, ppc, item>>
  BY DEF Kill, ConsumerRaises, ConsumerStops, ProducerIdle, producer
<1>2. Grows /\ OneItemAdded
  <2>1. CASE Kill
    BY <2>1, PartAdds DEF Kill, ProducerIdle
  <2>2. CASE ConsumerRaises
    BY <2>2, SameGrows, LenProperties DEF ConsumerRaises, OneItemAdded, IInv, TypeOK
  <2>. QED
    BY <2>1, <2>2
<1>3. Len(file) \in Nat /\ Len(file') \in Nat /\ cursor \in Nat
  BY <1>2, LenProperties DEF IInv, TypeOK, Grows
<1>4. ItemsApart'
  <2>1. \A n \in 1..Len(<<>>) : FALSE
    OBVIOUS
  <2>2. LinesApart(tmp)' /\ CopyOf'
    BY <1>1, <2>1 DEF LinesApart, CopyOf
  <2>. QED
    BY <1>1, <1>2, <2>2, GrowsApart DEF ItemsApart
<1>5. ASSUME NEW d \in Due'
      PROVE  \A n \in (Base + 1)..(d - 1) : file[n].form # "whole"
  <2>1. /\ d \in 1..Len(file) /\ file[d].form = "whole" /\ delivered[file[d].it] > 0 /\ d > Base
    BY <1>1, <1>2, <1>5, GrowsDue
  <2>2. CASE d \in Due
    BY <2>2 DEF DueFirst
  <2>3. CASE d \notin Due
    <3>1. cpc = "advance" /\ d = lineNo
      BY <1>3, <2>1, <2>3 DEF Due, Base
    <3>2. Base = cursor /\ lineNo \in Listed /\ \A n \in Listed : lineNo <= n
      BY <3>1, <2>1 DEF Base, Straight, ListedOK, Listed
    <3>. QED
      BY <1>3, <2>1, <3>1, <3>2 DEF Straight, NoGapOK
  <2>. QED
    BY <2>2, <2>3
<1>6. DueFirst'
  <2>. SUFFICES ASSUME NEW d \in Due', NEW n \in (cursor + 1)..(d - 1)
                PROVE  file'[n].form # "whole"
    BY <1>1 DEF DueFirst, Base
  <2>1. \A m \in 1..(d - 1) : file'[m] = file[m]
    BY <1>1, <1>2, GrowsDue
  <2>2. d \in Nat
    BY <1>1, <1>2, GrowsDue
  <2>3. n \in (Base + 1)..(d - 1) /\ n \in 1..(d - 1)
    BY <1>3, <2>2 DEF Base
  <2>. QED
    BY <1>5, <2>1, <2>3
<1>7. Paid'
  <2>1. Redeliveries' = Redeliveries
    BY <1>1 DEF Redeliveries
  <2>2. Cardinality(Redeliveries) \in Nat /\ kills \in Nat
    BY QueueConstantsOK, FS_CardinalityType DEF Paid, IInv, TypeOK
  <2>. QED
    BY <1>1, <2>1, <2>2 DEF Paid
<1>. QED
  BY <1>4, <1>6, <1>7

LEMMA ListPays ==
  ASSUME IInv, Straight, RInv, Paid, List
  PROVE  RInv' /\ Paid'
<1>1. /\ UNCHANGED <<file, cursor, tmp, lineNo, ppc, item, begun, delivered, kills>>
      /\ cpc = "idle" /\ cpc' = "deliver"
  BY DEF List, saved, producer, history
<1>2. Due' = Due /\ Base' = Base
  BY <1>1 DEF Due, Base
<1>3. ItemsApart'
  BY <1>1 DEF RInv, ItemsApart, LinesApart, CopyOf
<1>4. DueFirst'
  BY <1>1, <1>2 DEF RInv, DueFirst
<1>5. Paid'
  BY <1>1, <1>2 DEF Paid, Redeliveries
<1>. QED
  BY <1>3, <1>4, <1>5 DEF RInv

(* A delivery after the first adds one redelivery, and one is due no more. *)
LEMMA DeliverPays ==
  ASSUME IInv, Straight, RInv, Paid, Deliver
  PROVE  RInv' /\ Paid'
<1>. USE DEF RInv
<1>. DEFINE m == Min(batch)
<1>1. /\ batch \in SUBSET Nat /\ batch # {} /\ batch \subseteq 1..Len(file)
      /\ Len(file) \in Nat /\ file \in Seq(Line) /\ cursor \in Nat
  BY LenProperties DEF IInv, TypeOK, BatchOK, Deliver
<1>2. m \in batch /\ \A n \in batch : m <= n
  BY <1>1, LeastFirst
<1>3. /\ lineNo' = m /\ batch' = batch \ {m} /\ cpc = "deliver" /\ cpc' = "advance"
      /\ delivered' = [delivered EXCEPT ![file[m].it] = @ + 1]
      /\ UNCHANGED <<file, cursor, tmp, ppc, item, begun, kills>>
  <2>1. shift = 0
    BY DEF Straight, OneNumber
  <2>2. lineNo' = m + shift
    BY DEF Deliver
  <2>3. /\ batch' = batch \ {m} /\ cpc = "deliver" /\ cpc' = "advance"
        /\ delivered' = [delivered EXCEPT ![file[m].it] = @ + 1]
        /\ UNCHANGED <<file, cursor, tmp, ppc, item, begun, kills>>
    BY DEF Deliver, producer, saved
  <2>. HIDE DEF m
  <2>4. m + 0 = m
    BY <1>1, <1>2
  <2>. QED
    BY <2>1, <2>2, <2>3, <2>4
<1>. HIDE DEF m
<1>4. m \in 1..Len(file) /\ m > cursor /\ file[m].form = "whole" /\ Listed = batch
  BY <1>2, <1>3 DEF Straight, ListedOK, Listed
<1>5. PICK i \in Items : i = file[m].it
  BY <1>1, <1>4, LineType
<1>6. /\ delivered[i] \in Nat /\ delivered'[i] = delivered[i] + 1
      /\ \A j \in Items \ {i} : delivered'[j] = delivered[j]
  BY <1>3, <1>5 DEF IInv, TypeOK
<1>7. \A n \in 1..Len(file) \ {m} : file[n].it \in Items \ {i}
  BY <1>1, <1>4, <1>5, LineType DEF ItemsApart, LinesApart
<1>8. i \in begun /\ (ppc # "idle" => i # item /\ item \in Items)
  <2>1. ppc # "idle" => item \in Items
    BY DEF IInv, ItemOK, TypeOK
  <2>. QED
    BY <1>4, <1>5, <2>1 DEF ItemsApart, LinesApart
<1>9. ItemsApart'
  <2>1. \A n \in 1..Len(file) : file[n].form # "whole" => delivered'[file[n].it] = 0
    BY <1>4, <1>6, <1>7 DEF ItemsApart, LinesApart
  <2>2. LinesApart(file)'
    BY <1>3, <2>1 DEF ItemsApart, LinesApart
  <2>3. LinesApart(tmp)' /\ CopyOf'
    <3>1. tmp = <<>> /\ \A n \in 1..Len(<<>>) : FALSE
      BY <1>3 DEF ItemsApart, CopyOf
    <3>. QED
      BY <1>3, <3>1 DEF LinesApart, CopyOf
  <2>4. (\A j \in Items \ begun : delivered[j] = 0)'
    BY <1>3, <1>6, <1>8 DEF ItemsApart
  <2>5. (ppc # "idle" => delivered[item] = 0)'
    BY <1>3, <1>6, <1>8 DEF ItemsApart
  <2>. QED
    BY <2>2, <2>3, <2>4, <2>5 DEF ItemsApart
<1>10. Due' = {}
  <2>. SUFFICES ASSUME NEW d \in Due' PROVE FALSE
    OBVIOUS
  <2>1. /\ d \in (cursor + 1)..Len(file) /\ file[d].form = "whole" /\ d # m
        /\ delivered'[file[d].it] > 0
    BY <1>3 DEF Due, Base
  <2>2. delivered[file[d].it] > 0
    BY <1>1, <1>6, <1>7, <2>1
  <2>3. d \in Due
    BY <1>3, <2>1, <2>2 DEF Due, Base
  <2>4. CASE d < m
    <3>1. d \in batch
      BY <1>1, <1>2, <1>4, <2>1, <2>4 DEF Straight, NoGapOK
    <3>. QED
      BY <1>1, <1>2, <2>1, <2>4, <3>1
  <2>5. CASE d > m
    <3>1. m \in (Base + 1)..(d - 1)
      BY <1>1, <1>3, <1>4, <2>1, <2>5 DEF Base
    <3>. QED
      BY <1>4, <2>3, <3>1 DEF DueFirst
  <2>. QED
    BY <1>1, <1>4, <2>1, <2>4, <2>5
<1>11. DueFirst'
  BY <1>10 DEF DueFirst
<1>12. Paid'
  <2>1. /\ IsFiniteSet(Redeliveries) /\ Cardinality(Redeliveries) \in Nat /\ kills \in Nat
        /\ Cardinality(Redeliveries) + (IF Due = {} THEN 0 ELSE 1) <= kills
    BY QueueConstantsOK, FS_CardinalityType DEF Paid, IInv, TypeOK
  <2>2. \A x : x \in Redeliveries <=> \E j \in Items : \E k \in 2..delivered[j] : x = <<j, k>>
    BY DEF Redeliveries
  <2>3. \A x : x \in Redeliveries' <=> \E j \in Items : \E k \in 2..delivered'[j] : x = <<j, k>>
    BY DEF Redeliveries
  <2>4. CASE delivered[i] = 0
    <3>1. 2..delivered'[i] = {} /\ 2..delivered[i] = {}
      BY <1>6, <2>4
    <3>2. \A j \in Items : 2..delivered'[j] = 2..delivered[j]
      BY <1>6, <3>1
    <3>3. Redeliveries' = Redeliveries
      BY <2>2, <2>3, <3>2
    <3>. QED
      BY <1>3, <1>10, <2>1, <3>3 DEF Paid
  <2>5. CASE delivered[i] # 0
    <3>. DEFINE k0 == delivered[i] + 1
    <3>1. 2..delivered'[i] = (2..delivered[i]) \union {k0} /\ k0 \notin 2..delivered[i]
      BY <1>6, <2>5
    <3>2. \A j \in Items \ {i} : 2..delivered'[j] = 2..delivered[j]
      BY <1>6
    <3>. HIDE DEF k0
    <3>3. Redeliveries' = Redeliveries \union {<<i, k0>>}
      <4>1. ASSUME NEW x \in Redeliveries'
            PROVE  x \in Redeliveries \union {<<i, k0>>}
        <5>1. PICK j \in Items : \E k \in 2..delivered'[j] : x = <<j, k>>
          BY <2>3
        <5>2. PICK k \in 2..delivered'[j] : x = <<j, k>>
          BY <5>1
        <5>3. CASE j = i
          <6>1. k \in 2..delivered[i] \/ k = k0
            BY <3>1, <5>2, <5>3
          <6>. QED
            BY <2>2, <5>2, <5>3, <6>1
        <5>4. CASE j # i
          <6>1. k \in 2..delivered[j]
            BY <3>2, <5>2, <5>4
          <6>. QED
            BY <2>2, <5>2, <6>1
        <5>. QED
          BY <5>3, <5>4
      <4>2. \A x \in Redeliveries : x \in Redeliveries'
        BY <2>2, <2>3, <3>1, <3>2
      <4>3. <<i, k0>> \in Redeliveries'
        BY <2>3, <3>1
      <4>. QED
        BY <4>1, <4>2, <4>3
    <3>4. IsFiniteSet(Redeliveries') /\ Cardinality(Redeliveries') <= Cardinality(Redeliveries) + 1
      <4>1. /\ IsFiniteSet(Redeliveries \union {<<i, k0>>})
            /\ \/ Cardinality(Redeliveries \union {<<i, k0>>}) = Cardinality(Redeliveries)
               \/ Cardinality(Redeliveries \union {<<i, k0>>}) = Cardinality(Redeliveries) + 1
        BY <2>1, FS_AddElement
      <4>. QED
        BY <2>1, <3>3, <4>1
    <3>5. m \in Due
      BY <1>1, <1>3, <1>4, <1>5, <1>6, <2>5 DEF Due, Base
    <3>6. Cardinality(Redeliveries') \in Nat
      BY <3>4, FS_CardinalityType
    <3>. QED
      BY <1>3, <1>10, <2>1, <3>4, <3>5, <3>6 DEF Paid
  <2>. QED
    BY <2>4, <2>5
<1>. QED
  BY <1>9, <1>11, <1>12

LEMMA AdvancePays ==
  ASSUME IInv, Straight, RInv, Paid, Advance
  PROVE  RInv' /\ Paid'
<1>1. /\ UNCHANGED <<file, tmp, ppc, item, begun, delivered, kills>>
      /\ cpc = "advance" /\ cpc' \in {"idle", "deliver"} /\ cursor \in Nat
  BY DEF Advance, producer, history, IInv, TypeOK
<1>2. cursor' = lineNo /\ lineNo > cursor /\ lineNo \in 1..Len(file)
  <2>1. lineNo \in Listed
    BY <1>1 DEF Listed
  <2>2. lineNo \in 1..Len(file) /\ lineNo > cursor /\ file[lineNo].form = "whole"
    BY <2>1 DEF Straight, ListedOK
  <2>3. Len(file) \in Nat
    BY LenProperties DEF IInv, TypeOK
  <2>4. lineNo <= LastEnded
    <3>1. OpenTail(file) => file[Len(file)].form # "whole"
      BY DEF OpenTail, Ended, Last
    <3>. QED
      BY <2>2, <2>3, <3>1 DEF LastEnded
  <2>. QED
    BY <2>2, <2>4 DEF Advance
<1>3. Due' = {}
  <2>. SUFFICES ASSUME NEW d \in Due' PROVE FALSE
    OBVIOUS
  <2>1. Len(file) \in Nat
    BY LenProperties DEF IInv, TypeOK
  <2>2. d \in Due
    BY <1>1, <1>2, <2>1 DEF Due, Base
  <2>. QED
    BY <1>1, <2>2 DEF RInv, DueFirst
<1>4. ItemsApart'
  <2>1. tmp = <<>> /\ \A n \in 1..Len(<<>>) : FALSE
    BY <1>1 DEF RInv, ItemsApart, CopyOf
  <2>. QED
    BY <1>1, <2>1 DEF RInv, ItemsApart, LinesApart, CopyOf
<1>5. Paid'
  <2>1. Cardinality(Redeliveries) \in Nat /\ kills \in Nat
    BY QueueConstantsOK, FS_CardinalityType DEF Paid, IInv, TypeOK
  <2>. QED
    BY <1>1, <1>3, <2>1 DEF Paid, Redeliveries
<1>. QED
  BY <1>3, <1>4, <1>5 DEF RInv, DueFirst

LEMMA CopyPays ==
  ASSUME IInv, Straight, RInv, Paid, CompactCopy
  PROVE  RInv' /\ Paid'
<1>1. /\ UNCHANGED <<file, cursor, lineNo, ppc, item, begun, delivered, kills>>
      /\ cpc = "idle" /\ cpc' = "copied" /\ tmp' = Rest
  BY DEF CompactCopy, saved, producer, history
<1>2. Len(file) \in Nat /\ file \in Seq(Line) /\ cursor \in Nat
  BY LenProperties DEF IInv, TypeOK
<1>3. Due' = Due /\ Base' = Base
  BY <1>1 DEF Due, Base
<1>4. \A n \in 1..Len(tmp') : cursor + n \in 1..Len(file) /\ tmp'[n] = file[cursor + n]
  BY <1>1, RestFacts DEF Straight, OneNumber
<1>5. LinesApart(file)'
  BY <1>1 DEF RInv, ItemsApart, LinesApart
<1>6. LinesApart(tmp)'
  <2>1. \A n \in 1..Len(tmp') :
          /\ tmp'[n].it \in begun
          /\ ppc # "idle" => tmp'[n].it # item
          /\ tmp'[n].form # "whole" => delivered[tmp'[n].it] = 0
    BY <1>4 DEF RInv, ItemsApart, LinesApart
  <2>2. \A n, k \in 1..Len(tmp') : tmp'[n].it = tmp'[k].it => n = k
    <3>. SUFFICES ASSUME NEW n \in 1..Len(tmp'), NEW k \in 1..Len(tmp'), tmp'[n].it = tmp'[k].it
                  PROVE  n = k
      OBVIOUS
    <3>1. file[cursor + n].it = file[cursor + k].it
      BY <1>4
    <3>2. cursor + n = cursor + k
      BY <1>4, <3>1 DEF RInv, ItemsApart, LinesApart
    <3>. QED
      BY <1>2, <3>2
  <2>. QED
    BY <1>1, <2>1, <2>2 DEF LinesApart
<1>7. CopyOf'
  <2>1. \A n \in 1..Len(tmp') : cursor + n <= Len(file)
    BY <1>2, <1>4
  <2>. QED
    BY <1>1, <1>4, <2>1 DEF CopyOf
<1>8. ItemsApart'
  BY <1>1, <1>5, <1>6, <1>7 DEF RInv, ItemsApart
<1>9. DueFirst' /\ Paid'
  BY <1>1, <1>3 DEF RInv, DueFirst, Paid, Redeliveries
<1>. QED
  BY <1>8, <1>9 DEF RInv

(* The lines behind the cursor become the lines from the start. *)
LEMMA ReplacePays ==
  ASSUME IInv, Straight, RInv, Paid, CompactReplace
  PROVE  RInv' /\ Paid'
<1>1. /\ UNCHANGED <<cursor, lineNo, ppc, item, begun, delivered, kills>>
      /\ cpc = "copied" /\ cpc' = "replaced" /\ file' = tmp /\ tmp' = <<>>
  BY DEF CompactReplace, saved
<1>2. /\ Len(file) \in Nat /\ Len(tmp) \in Nat /\ cursor \in Nat
  BY LenProperties DEF IInv, TypeOK
<1>3. \A n \in 1..Len(tmp) :
        /\ cursor + n <= Len(file)
        /\ tmp[n].it = file[cursor + n].it
        /\ tmp[n].form = "whole" => file[cursor + n].form = "whole"
  BY DEF RInv, ItemsApart, CopyOf
<1>4. ItemsApart'
  <2>1. \A n \in 1..Len(<<>>) : FALSE
    OBVIOUS
  <2>2. LinesApart(tmp)' /\ CopyOf'
    BY <1>1, <2>1 DEF LinesApart, CopyOf
  <2>3. LinesApart(file)'
    BY <1>1 DEF RInv, ItemsApart, LinesApart
  <2>. QED
    BY <1>1, <2>2, <2>3 DEF RInv, ItemsApart
<1>5. ASSUME NEW d \in Due'
      PROVE  d \in 1..Len(tmp) /\ cursor + d \in Due
  <2>1. d \in 1..Len(tmp) /\ tmp[d].form = "whole" /\ delivered[tmp[d].it] > 0
    BY <1>1 DEF Due, Base
  <2>. QED
    BY <1>1, <1>2, <1>3, <2>1 DEF Due, Base
<1>6. DueFirst'
  <2>. SUFFICES ASSUME NEW d \in Due', NEW n \in 1..(d - 1), tmp[n].form = "whole"
                PROVE  FALSE
    <3>1. (Base + 1)' = 1 /\ cpc' # "advance" /\ file' = tmp
      BY <1>1 DEF Base
    <3>2. DueFirst' <=> /\ cpc' = "advance" => Due' = {}
                        /\ \A d \in Due' : \A n \in (Base + 1)'..(d - 1) : file'[n].form # "whole"
      BY DEF DueFirst
    <3>. QED
      BY <3>1, <3>2
  <2>1. d \in 1..Len(tmp) /\ cursor + d \in Due
    BY <1>5
  <2>2. n \in 1..Len(tmp) /\ file[cursor + n].form = "whole"
    BY <1>2, <1>3, <2>1
  <2>3. PICK e, k : e = cursor + d /\ k = cursor + n
    OBVIOUS
  <2>4. k \in (Base + 1)..(e - 1)
    BY <1>1, <1>2, <2>1, <2>2, <2>3 DEF Base
  <2>5. e \in Due /\ file[k].form = "whole"
    BY <2>1, <2>2, <2>3
  <2>6. \A c \in Due : \A b \in (Base + 1)..(c - 1) : file[b].form # "whole"
    BY DEF RInv, DueFirst
  <2>. QED
    BY <2>4, <2>5, <2>6
<1>7. Paid'
  <2>1. Cardinality(Redeliveries) \in Nat /\ kills \in Nat
    BY QueueConstantsOK, FS_CardinalityType DEF Paid, IInv, TypeOK
  <2>2. Due = {} => Due' = {}
    BY <1>5
  <2>. QED
    BY <1>1, <2>1, <2>2 DEF Paid, Redeliveries
<1>. QED
  BY <1>4, <1>6, <1>7 DEF RInv

LEMMA ResetPays ==
  ASSUME IInv, Straight, RInv, Paid, CompactReset
  PROVE  RInv' /\ Paid'
<1>1. /\ UNCHANGED <<file, tmp, lineNo, ppc, item, begun, delivered, kills>>
      /\ cpc = "replaced" /\ cpc' = "idle" /\ cursor' = 0
  BY DEF CompactReset, producer, history
<1>2. Due' = Due /\ Base' = Base
  BY <1>1 DEF Due, Base
<1>3. ItemsApart'
  <2>1. tmp = <<>> /\ \A n \in 1..Len(<<>>) : FALSE
    BY <1>1 DEF RInv, ItemsApart, CopyOf
  <2>. QED
    BY <1>1, <2>1 DEF RInv, ItemsApart, LinesApart, CopyOf
<1>4. DueFirst' /\ Paid'
  BY <1>1, <1>2 DEF RInv, DueFirst, Paid, Redeliveries
<1>. QED
  BY <1>3, <1>4 DEF RInv

(* A cursor that was left from a file that is gone is never forgotten. *)
LEMMA SoundBefore == [Next]_vars /\ Sound' => Sound
<1>. SUFFICES ASSUME [Next]_vars PROVE mishaps \subseteq mishaps'
  BY DEF Sound
<1>. QED
  BY DEF Next, Producer, Consumer, Enqueue, Repair, OpenAppend, Write, EnqueueFails, List,
     Deliver, Advance, CompactCopy, CompactReplace, CompactReset, Kill, ConsumerRaises,
     ConsumerStops, vars, history

PaidFor == Sound => RInv /\ Paid

LEMMA NextPays == IInv /\ PaidFor /\ [Next]_vars => PaidFor'
<1>. SUFFICES ASSUME IInv, PaidFor, [Next]_vars, Sound' PROVE RInv' /\ Paid'
  BY DEF PaidFor
<1>1. Straight /\ RInv /\ Paid
  BY SoundBefore DEF IInv, PaidFor
<1>2. CASE UNCHANGED vars
  <2>1. UNCHANGED <<file, cursor, cpc, lineNo, tmp, ppc, item, begun, delivered, kills>>
    BY <1>2 DEF vars, saved, producer, consumer, history
  <2>2. Due' = Due /\ Base' = Base
    BY <2>1 DEF Due, Base
  <2>. QED
    BY <1>1, <2>1, <2>2 DEF RInv, ItemsApart, LinesApart, CopyOf, DueFirst, Paid, Redeliveries
<1>3. CASE Next
  BY <1>1, <1>3, OpenPays, RepairPays, WritePays, KillPays, ListPays, DeliverPays, AdvancePays,
     CopyPays, ReplacePays, ResetPays
     DEF Next, Producer, Consumer
<1>. QED
  BY <1>2, <1>3

LEMMA InitPays == Init => RInv /\ Paid
<1>. SUFFICES ASSUME Init PROVE RInv /\ Paid
  OBVIOUS
<1>1. file = <<>> /\ tmp = <<>> /\ \A n \in 1..Len(<<>>) : FALSE
  BY DEF Init
<1>2. Due = {}
  BY <1>1 DEF Init, Due, Base
<1>3. ItemsApart
  BY <1>1 DEF Init, ItemsApart, LinesApart, CopyOf
<1>4. Redeliveries = {}
  BY DEF Init, Redeliveries
<1>5. Paid
  BY <1>2, <1>4, FS_EmptySet DEF Paid, Init
<1>. QED
  BY <1>2, <1>3, <1>5 DEF RInv, DueFirst

(* However enqueues, deliveries, compactions, raises and kills interleave: *)
(* as long as no cursor was left from a file that is gone, items are       *)
(* delivered again at most once for every kill or raise.                   *)
THEOREM KillsPayForRedelivery == Spec => []OneRedeliveryPerKill
<1>1. IInv /\ PaidFor => OneRedeliveryPerKill
  <2>. SUFFICES ASSUME IInv, PaidFor, Sound PROVE Cardinality(Redeliveries) <= kills
    BY DEF OneRedeliveryPerKill, Sound
  <2>1. Cardinality(Redeliveries) \in Nat /\ kills \in Nat
    BY QueueConstantsOK, FS_CardinalityType DEF PaidFor, Paid, IInv, TypeOK
  <2>. QED
    BY <2>1 DEF PaidFor, Paid
<1>2. Init => PaidFor
  BY InitPays DEF PaidFor
<1>. QED
  BY InitIInv, NextIInv, NextPays, <1>1, <1>2, PTL DEF Spec

(* Of the pending lines the earlier ones are delivered first, even when a  *)
(* kill makes the consumer start again: what is delivered out of turn      *)
(* would never be noticed by a count (event_bridge/pending.py,             *)
(* iter_pending).  A cursor that was left from a file that is gone is      *)
(* excepted: its two numbers are of different lines, and it may pass some. *)
DeliveredInOrder ==
  "unreset" \notin mishaps =>
    \A n, m \in (Base + 1)..Len(file) :
      n < m /\ file[n].form = "whole" /\ file[m].form = "whole" /\ delivered[file[m].it] > 0
        => delivered[file[n].it] > 0

(* However enqueues, deliveries, compactions, raises and kills interleave: *)
(* as long as no cursor was left from a file that is gone, the lines       *)
(* behind the cursor are delivered in the order of the file.               *)
THEOREM FirstInFirstOut == Spec => []DeliveredInOrder
<1>1. ASSUME IInv, PaidFor PROVE DeliveredInOrder
  <2>. SUFFICES ASSUME Sound,
                       NEW n \in (Base + 1)..Len(file), NEW m \in (Base + 1)..Len(file), n < m,
                       file[n].form = "whole", file[m].form = "whole", delivered[file[m].it] > 0
                PROVE  delivered[file[n].it] > 0
    BY DEF DeliveredInOrder, Sound
  <2>1. Len(file) \in Nat /\ Base \in Nat
    BY <1>1, LenProperties DEF IInv, TypeOK, Base
  <2>2. n \in (Base + 1)..(m - 1) /\ Straight
    BY <1>1, <2>1 DEF IInv
  <2>3. m \notin Due
    BY <1>1, <2>2 DEF PaidFor, RInv, DueFirst
  <2>4. cpc = "advance" /\ m = lineNo
    BY <2>3 DEF Due
  <2>5. m \in Listed /\ n \in (cursor + 1)..m
    BY <2>1, <2>2, <2>4 DEF Listed, Base
  <2>6. n \in batch
    BY <2>1, <2>2, <2>4, <2>5 DEF Straight, NoGapOK, Listed
  <2>. QED
    BY <2>1, <2>2, <2>4, <2>6 DEF Straight, ListedOK
<1>2. Init => PaidFor
  BY InitPays DEF PaidFor
<1>. QED
  BY InitIInv, NextIInv, NextPays, <1>1, <1>2, PTL DEF Spec

=============================================================================
