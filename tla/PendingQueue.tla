---------------------------- MODULE PendingQueue -----------------------------
(***************************************************************************)
(* The durable outbound queue of a sink (core/event_bridge/pending.py): a  *)
(* JSONL file that only grows, a cursor file, and a compaction that copies *)
(* what is behind the cursor to a new file and renames it over the queue.  *)
(*                                                                         *)
(* One thread of the process enqueues and one consumes, as the design      *)
(* documents lay the queue out (docs/design/...v1.0.md:241); the object    *)
(* has no lock.  The consumer does what the tests do: list what is         *)
(* pending, and for each item deliver it and advance past it; between two  *)
(* such passes it may compact.  A kill takes both threads, and the process *)
(* is started again; a call that raises ends the enqueue, or the pass of   *)
(* the consumer, that made it.                                             *)
(*                                                                         *)
(* Abstractions.  A byte offset is the number of lines in front of it and, *)
(* when it falls into a line, what the rest of that line reads as.  The    *)
(* file size is a number of lines too.  An item is enqueued once.  Only    *)
(* a cut can make a line that is not UTF-8: the rest of a line never       *)
(* parses.                                                                 *)
(***************************************************************************)
EXTENDS Integers, Sequences, SequencesExt

CONSTANTS
  Items,         \* what is enqueued
  NoItem,        \* not an item
  CompactLines,  \* compact_dequeue_threshold
  CompactSize,   \* compact_size_threshold, in lines
  MaxKills,      \* bound: kills of the process and raises of the consumer
  MaxLanding     \* bound: lines in front of an old byte offset in a new file

ASSUME QueueConstantsOK ==
  /\ NoItem \notin Items
  /\ CompactLines \in Nat
  /\ CompactSize \in Nat
  /\ MaxKills \in Nat
  /\ MaxLanding \in Nat

VARIABLES
  file,       \* the lines the path names
  cursor,     \* the saved line_no
  seek,       \* the saved byte_offset: how many lines are in front of it
  cut,        \* what the rest of the line reads as that it falls into
  ppc,        \* what the producer does next
  item,       \* the item it enqueues
  fd,         \* the file it holds open: "none", "live", or "replaced"
  cpc,        \* what the consumer does next
  batch,      \* the places in the file of what it has listed, not delivered
  shift,      \* what is added to a place to give the listed line_no
  lineNo,     \* the line_no of the item it delivered
  tmp,        \* the lines of the .compact file
  begun,      \* history: the items whose enqueue was called
  enqueued,   \* history: the items whose enqueue returned
  delivered,  \* history: how often each item was delivered
  kills,      \* history: kills of the process and raises of the consumer
  mishaps     \* history: what went wrong, see NoneSkipped

saved    == <<cursor, seek, cut>>
producer == <<ppc, item, fd>>
consumer == <<cpc, batch, shift, lineNo, tmp>>
history  == <<begun, enqueued, delivered, kills, mishaps>>
vars     == <<file, saved, producer, consumer, history>>

-----------------------------------------------------------------------------
(* "torn" is an unfinished tail, "unended" a tail that lacks only its      *)
(* newline.  A torn line that was ended since is "corrupt" (no JSON) or    *)
(* "undecodable" (no UTF-8 either: json.dumps is called with               *)
(* ensure_ascii=False, and the tear was inside a character).               *)
Ruins == {"corrupt", "undecodable"}
Forms == {"whole", "torn", "unended"} \union Ruins
Line  == [it : Items, form : Forms]
Cuts  == {"none"} \union Ruins

Ended(l)    == l.form \in {"whole"} \union Ruins
OpenTail(c) == c # <<>> /\ ~Ended(Last(c))

(* Text behind an open tail continues that line, which is no item then. *)
AppendTo(c, l, ruin) ==
  IF OpenTail(c)
  THEN [c EXCEPT ![Len(c)].form = IF l.form = "whole" THEN ruin ELSE "torn"]
  ELSE Append(c, l)

Init ==
  /\ file      = <<>>
  /\ cursor    = 0
  /\ seek      = 0
  /\ cut       = "none"
  /\ ppc       = "idle"
  /\ item      = NoItem
  /\ fd        = "none"
  /\ cpc       = "idle"
  /\ batch     = {}
  /\ shift     = 0
  /\ lineNo    = 0
  /\ tmp       = <<>>
  /\ begun     = {}
  /\ enqueued  = {}
  /\ delivered = [i \in Items |-> 0]
  /\ kills     = 0
  /\ mishaps   = {}

-----------------------------------------------------------------------------
(* enqueue *)

(* A file that does not end in a newline is opened to be given one. *)
Enqueue(i) ==
  /\ ppc = "idle"
  /\ i \notin begun
  /\ begun' = begun \union {i}
  /\ item'  = i
  /\ IF OpenTail(file) THEN ppc' = "repair" /\ fd' = "live"
                 ELSE ppc' = "open" /\ fd' = fd
  /\ UNCHANGED <<file, saved, consumer, enqueued, delivered, kills, mishaps>>

(* The newline goes to the file that was opened. *)
Repair ==
  /\ ppc = "repair"
  /\ \E ruin \in Ruins :
       file' = IF fd = "live" /\ OpenTail(file)
               THEN [file EXCEPT ![Len(file)].form =
                       IF @ = "unended" THEN "whole" ELSE ruin]
               ELSE file
  /\ mishaps' = IF fd = "live" THEN mishaps ELSE mishaps \union {"raced"}
  /\ ppc' = "open"
  /\ fd'  = "none"
  /\ UNCHANGED <<item, saved, consumer, begun, enqueued, delivered, kills>>

OpenAppend ==
  /\ ppc = "open"
  /\ ppc' = "write"
  /\ fd'  = "live"
  /\ UNCHANGED <<file, item, saved, consumer, history>>

(* What os.write may make of the file: it writes the line or a part of it, *)
(* and the file may have been replaced since it was opened.                *)
Written(form) ==
  IF fd = "live"
  THEN {AppendTo(file, [it |-> item, form |-> form], ruin) : ruin \in Ruins}
  ELSE {file}

ProducerIdle == ppc' = "idle" /\ item' = NoItem /\ fd' = "none"

(* os.write and fsync.  How much was written is not looked at: enqueue     *)
(* returns after a short write too.                                        *)
Write ==
  /\ ppc = "write"
  /\ \E form \in {"whole", "torn", "unended"} :
       /\ file'    \in Written(form)
       /\ mishaps' = mishaps \union (IF fd = "live" THEN {} ELSE {"raced"})
                             \union (IF form = "whole" THEN {} ELSE {"short"})
  /\ enqueued' = enqueued \union {item}
  /\ ProducerIdle
  /\ UNCHANGED <<saved, consumer, begun, delivered, kills>>

(* The line being written is cut anywhere, complete, or not in the file. *)
PartWritten ==
  {file} \union (IF ppc = "write"
                 THEN UNION {Written(form) : form \in {"whole", "torn", "unended"}} ELSE {})

(* An OSError: enqueue does not return. *)
EnqueueFails ==
  /\ ppc # "idle"
  /\ file' \in PartWritten
  /\ ProducerIdle
  /\ UNCHANGED <<saved, consumer, history>>

-----------------------------------------------------------------------------
(* iter_pending and advance *)

(* The places of the first line that is read whole, and of the lines that  *)
(* parse from there on.  While the consumer handles them nobody compacts,  *)
(* so that they keep their item and their place.                           *)
First   == IF cut = "none" THEN seek + 1 ELSE seek + 2
Pending == {n \in First..Len(file) : file[n].form = "whole"}

(* json.loads raises UnicodeDecodeError, which is not caught, at a line    *)
(* that is not UTF-8, or at the rest of one.                               *)
ListRaises ==
  \/ \E n \in First..Len(file) : file[n].form = "undecodable"
  \/ cut = "undecodable" /\ seek + 1 <= Len(file) /\ Ended(file[seek + 1])

(* Faulty variant: the listing starts one line too late. *)
ListSkipsOne ==
  /\ cpc = "idle"
  /\ ~ListRaises
  /\ Pending \ {First} # {}
  /\ batch' = Pending \ {First}
  /\ shift' = cursor - seek
  /\ cpc'   = "deliver"
  /\ UNCHANGED <<lineNo, tmp, file, saved, producer, history>>

(* The file is read from byte_offset, the lines are numbered from line_no. *)
List ==
  /\ cpc = "idle"
  /\ ~ListRaises
  /\ Pending # {}
  /\ batch' = Pending
  /\ shift' = cursor - seek
  /\ cpc'   = "deliver"
  /\ UNCHANGED <<lineNo, tmp, file, saved, producer, history>>

Deliver ==
  /\ cpc = "deliver"
  /\ LET n == Min(batch) IN
       /\ delivered' = [delivered EXCEPT ![file[n].it] = @ + 1]
       /\ lineNo'    = n + shift
       /\ batch'     = batch \ {n}
  /\ cpc' = "advance"
  /\ UNCHANGED <<shift, tmp, file, saved, producer, begun, enqueued, kills, mishaps>>

(* The number of the last complete line: only the tail can be open. *)
LastEnded == IF OpenTail(file) THEN Len(file) - 1 ELSE Len(file)

(* Faulty variant: the cursor is written before its last line is scanned. *)
AdvanceOneShort ==
  /\ cpc = "advance"
  /\ cursor' = lineNo - 1
  /\ seek'   = lineNo - 1
  /\ cut'    = "none"
  /\ cpc'    = IF batch = {} THEN "idle" ELSE "deliver"
  /\ lineNo' = 0
  /\ UNCHANGED <<batch, shift, tmp, file, producer, history>>

(* advance scans the file from its start to line_no or its last complete   *)
(* line, and saves the number and the offset it stops at.                  *)
Advance ==
  /\ cpc = "advance"
  /\ cursor' = IF lineNo <= LastEnded THEN lineNo ELSE LastEnded
  /\ seek'   = cursor'
  /\ cut'    = "none"
  /\ cpc'    = IF batch = {} THEN "idle" ELSE "deliver"
  /\ lineNo' = 0
  /\ UNCHANGED <<batch, shift, tmp, file, producer, history>>

-----------------------------------------------------------------------------
(* maybe_compact *)

(* The bytes behind byte_offset: a first line may lack its head. *)
Rest ==
  LET c == SubSeq(file, seek + 1, Len(file)) IN
  IF cut = "none" \/ c = <<>> THEN c
  ELSE [c EXCEPT ![1].form = IF Ended(c[1]) THEN cut ELSE "torn"]

(* Past both thresholds, what is behind the cursor is copied. *)
CompactCopy ==
  /\ cpc = "idle"
  /\ cursor > CompactLines
  /\ Len(file) > CompactSize
  /\ tmp' = Rest
  /\ cpc' = "copied"
  /\ UNCHANGED <<batch, shift, lineNo, file, saved, producer, history>>

(* What was appended since the copy is lost with the old file. *)
CompactReplace ==
  /\ cpc = "copied"
  /\ file' = tmp
  /\ tmp'  = <<>>
  /\ fd'   = IF fd = "live" THEN "replaced" ELSE fd
  /\ mishaps' = IF tmp = Rest THEN mishaps ELSE mishaps \union {"raced"}
  /\ cpc'  = "replaced"
  /\ UNCHANGED <<batch, shift, lineNo, saved, ppc, item, begun, enqueued, delivered, kills>>

(* Faulty variant: the cursor is moved by a length of the new file. *)
CompactShiftsCursor ==
  /\ cpc = "replaced"
  /\ cursor' = Len(file) - cursor
  /\ seek'   = cursor'
  /\ cut'    = "none"
  /\ cpc'    = "idle"
  /\ UNCHANGED <<batch, shift, lineNo, tmp, file, producer, history>>

(* Faulty variant: the cursor keeps its position in the new file. *)
CompactKeepsCursor ==
  /\ cpc = "replaced"
  /\ cpc' = "idle"
  /\ UNCHANGED <<batch, shift, lineNo, tmp, file, saved, producer, history>>

CompactReset ==
  /\ cpc = "replaced"
  /\ cursor' = 0
  /\ seek'   = 0
  /\ cut'    = "none"
  /\ cpc'    = "idle"
  /\ UNCHANGED <<batch, shift, lineNo, tmp, file, producer, history>>

-----------------------------------------------------------------------------
(* The consumer ends in the middle of what it does.  If the new file is in *)
(* place, the saved byte_offset is one of the old file: it falls anywhere  *)
(* in the new one, or behind its end, while line_no stays.                 *)
ConsumerStops ==
  /\ kills < MaxKills
  /\ kills'  = kills + 1
  /\ cpc'    = "idle"
  /\ batch'  = {}
  /\ shift'  = 0
  /\ lineNo' = 0
  /\ tmp'    = <<>>
  /\ IF cpc = "replaced"
     THEN /\ mishaps' = mishaps \union {"unreset"}
          /\ seek' \in 0..MaxLanding
          /\ cut'  \in Cuts
          /\ (seek' = 0 /\ cut' = "none") <=> (seek = 0 /\ cut = "none")
     ELSE UNCHANGED <<mishaps, seek, cut>>
  /\ UNCHANGED <<cursor, begun, enqueued, delivered>>

(* kill -9. *)
Kill ==
  /\ ConsumerStops
  /\ file' \in PartWritten
  /\ ProducerIdle

(* advance, maybe_compact or the delivery itself raises. *)
ConsumerRaises ==
  /\ cpc # "idle"
  /\ ConsumerStops
  /\ UNCHANGED <<file, producer>>

Producer ==
  \/ \E i \in Items : Enqueue(i)
  \/ Repair \/ OpenAppend \/ Write \/ EnqueueFails

Consumer ==
  \/ List \/ Deliver \/ Advance
  \/ CompactCopy \/ CompactReplace \/ CompactReset

Next == Producer \/ Consumer \/ Kill \/ ConsumerRaises

Spec == Init /\ [][Next]_vars

(* The consumer is a loop of its own thread; nobody owes an enqueue. *)
FairSpec == Spec /\ WF_vars(Consumer)

-----------------------------------------------------------------------------
(* Properties *)

TypeOK ==
  /\ file      \in Seq(Line)
  /\ cursor    \in Nat
  /\ seek      \in Nat
  /\ cut       \in Cuts
  /\ ppc       \in {"idle", "repair", "open", "write"}
  /\ item      \in Items \union {NoItem}
  /\ fd        \in {"none", "live", "replaced"}
  /\ cpc       \in {"idle", "deliver", "advance", "copied", "replaced"}
  /\ batch     \subseteq 1..Len(file)
  /\ shift     \in Int
  /\ lineNo    \in Nat
  /\ tmp       \in Seq(Line)
  /\ begun     \subseteq Items
  /\ enqueued  \subseteq begun
  /\ delivered \in [Items -> Nat]
  /\ kills     \in 0..MaxKills
  /\ mishaps   \subseteq {"unreset", "raced", "short"}

(* An item that was delivered, or that is in the file behind the cursor. *)
Kept(i) ==
  \/ delivered[i] > 0
  \/ \E n \in 1..Len(file) :
       file[n] = [it |-> i, form |-> "whole"] /\ (n > seek \/ cpc = "replaced")

(* No item whose enqueue returned is skipped, whatever the order of        *)
(* enqueues, deliveries, compactions, raises and kills: unless the         *)
(* consumer stopped between the rename and the cursor reset of a           *)
(* compaction ("unreset"), an append went to the file that a compaction    *)
(* was replacing ("raced"), or os.write wrote a part of a line ("short").  *)
NoneSkipped == mishaps = {} => \A i \in enqueued : Kept(i)

(* The deliveries of an item after its first one. *)
Redeliveries == UNION {{i} \X (2..delivered[i]) : i \in Items}

(* As long as no cursor was left from a file that is gone, a kill or a     *)
(* raise costs at most one redelivery, and compactions, short writes and   *)
(* appends that they lose cost none.                                       *)
OneRedeliveryPerKill ==
  "unreset" \notin mishaps => Cardinality(Redeliveries) <= kills

(* Every item whose enqueue returned is delivered in the end, but for the  *)
(* three mishaps, and unless a line behind the cursor is not UTF-8: that   *)
(* one ends every listing.                                                 *)
EventuallyDelivered ==
  \A i \in Items : i \in enqueued ~> delivered[i] > 0 \/ mishaps # {} \/ ListRaises

(* The design promises that a kill -9 of the daemon loses no enqueued      *)
(* event (EmpireThread_事件桥_v2_缩窄版.md:203), compactions included.  For *)
(* the record: it does not hold for a kill between the rename and the      *)
(* reset of the cursor, and no run checks it.                              *)
KillLosesNothing ==
  mishaps \intersect {"raced", "short"} = {} => \A i \in enqueued : Kept(i)

(* A half or damaged line is skipped and does not break the queue          *)
(* (event_bridge/pending.py:7).  For the record: a line torn inside a      *)
(* character does break it, and no run checks it.                          *)
DamageIsSkipped == ~ListRaises

=============================================================================
