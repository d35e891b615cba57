----------------------------- MODULE EventBridge -----------------------------
(***************************************************************************)
(* The empire-thread event bridge: one JSONL file per profile, written by  *)
(* two kinds of emitters, tailed by the event-bridge daemon on behalf of   *)
(* several sinks.                                                          *)
(*                                                                         *)
(*   - a gateway's pre_tool_call hook opens the file in append mode and    *)
(*     writes one line (core/empire_emit.py);                              *)
(*   - a task thread of server.py reads the whole file, adds one line and  *)
(*     renames the result over it, so the file gets a new inode            *)
(*     (core/audit_hook.py, emit_empire_event);                            *)
(*   - the daemon visits every (profile, sink) pair of a tick in turn,     *)
(*     reads from the pair's saved cursor to the end of the file, hands    *)
(*     each line to the sink, and saves the cursor only then               *)
(*     (core/event_bridge/core.py, cursor.py, daemon.py); launchd restarts *)
(*     it when it dies, of a kill or of an exception, which nothing in     *)
(*     the daemon catches.                                                 *)
(*                                                                         *)
(* Abstractions.  A byte offset is a count of complete lines.  An event is *)
(* emitted once; the inode a file creation makes is named after the event  *)
(* whose emission made it, so inode numbers are not reused (the daemon is  *)
(* a launchd job; APFS never reuses them).  The private temporary file of  *)
(* emit_empire_event is not a step: no other process opens it.  What a     *)
(* sink does with an event is a count here.                                *)
(***************************************************************************)
EXTENDS Naturals, Sequences, FiniteSets

CONSTANTS
  Profiles,    \* profile directories, numbered in the order they are sorted
  Sinks,       \* sinks, numbered in the order default_sinks lists them
  HookEvents,  \* events a gateway hook emits
  TaskEvents,  \* events a task thread of server.py emits
  ProfileOf,   \* the profile whose file each event goes to
  Writebacks,  \* events whose _source is sink_writeback
  LongEvents,  \* hook events whose line may reach the file in two parts
  BadForms,    \* what a line made of two torn parts may be, see Line
  Poison,      \* <<s, e>>: sink s cannot write e, its write raises every time
  NoFile,      \* no inode
  MaxCrashes,  \* bound: kills of the daemon, and writes that raise once
  MaxHanded    \* bound: deliveries counted per sink and event

Events == HookEvents \union TaskEvents

ASSUME ConstantsOK ==
  /\ Profiles \subseteq Nat
  /\ Sinks \subseteq Nat
  /\ HookEvents \intersect TaskEvents = {}
  /\ ProfileOf \in [Events -> Profiles]
  /\ Writebacks \subseteq Events
  /\ LongEvents \subseteq HookEvents
  /\ BadForms \subseteq {"garbled", "undecodable"} /\ BadForms # {}
  /\ Poison \subseteq Sinks \X Events
  /\ NoFile \notin Events
  /\ MaxCrashes \in Nat
  /\ MaxHanded \in Nat \ {0}

VARIABLES
  \* the file system
  live,     \* live[p]: the inode empire-thread.jsonl of p names, or NoFile
  disk,     \* disk[i]: the lines of inode i
  inodes,   \* the inodes that were ever created
  cursor,   \* cursor[s][p]: the saved cursor file of sink s and profile p
  \* the emitters
  em,       \* em[e]: how far the emission of e is
  efd,      \* efd[e]: the inode the hook emitting e holds open
  snap,     \* snap[e]: the lines the task thread emitting e has read
  \* the daemon
  pc,       \* what it does next
  todo,     \* the (profile, sink) pairs left in this tick
  job,      \* the pair being served
  cur,      \* the cursor in memory
  fd,       \* the inode it holds open
  \* history
  handed,   \* handed[s][e]: how often e was written to s, up to MaxHanded
  crashes   \* how often the daemon was killed, or ended by a passing error

emitters == <<em, efd, snap>>
files    == <<live, disk, inodes>>
daemon   == <<pc, todo, job, cur, fd>>
vars     == <<files, cursor, emitters, daemon, handed, crashes>>

-----------------------------------------------------------------------------
(* Lines *)

(* "half" is an open tail that can still become a whole line, "mess" an    *)
(* open tail that cannot.  "garbled" is a complete line that is not JSON,  *)
(* "undecodable" one that is not UTF-8 either: a tear inside a multi-byte  *)
(* character (json.dumps is called with ensure_ascii=False).               *)
Forms == {"whole", "half", "mess", "garbled", "undecodable"}
Line  == [ev : Events, form : Forms]

Closed(l) == l.form \notin {"half", "mess"}

OpenTail(c) == c # <<>> /\ ~Closed(c[Len(c)])

(* The file content c after "chunk" of the line of event e is added at its *)
(* end: the whole line, its head, or the tail that completes the head.     *)
(* Text added behind an open tail continues that line.                     *)
Extend(c, e, chunk, bad) ==
  IF OpenTail(c)
  THEN [c EXCEPT ![Len(c)] =
          [ev   |-> e,
           form |-> IF chunk = "head" THEN "mess"
                    ELSE IF chunk = "tail" /\ c[Len(c)] = [ev |-> e, form |-> "half"]
                         THEN "whole" ELSE bad]]
  ELSE Append(c, [ev   |-> e,
                  form |-> IF chunk = "whole" THEN "whole"
                           ELSE IF chunk = "head" THEN "half" ELSE bad])

NoCursor   == [ino |-> NoFile, pos |-> 0]
CursorType == [ino : Events \union {NoFile}, pos : Nat]
Jobs       == Profiles \X Sinks

Content(p) == IF live[p] = NoFile THEN <<>> ELSE disk[live[p]]

-----------------------------------------------------------------------------
(* Initially no file exists, and the daemon is about to start a tick. *)
Init ==
  /\ live    = [p \in Profiles |-> NoFile]
  /\ disk    = [i \in Events |-> <<>>]
  /\ inodes  = {}
  /\ cursor  = [s \in Sinks |-> [p \in Profiles |-> NoCursor]]
  /\ em      = [e \in Events |-> "idle"]
  /\ efd     = [e \in Events |-> NoFile]
  /\ snap    = [e \in Events |-> <<>>]
  /\ pc      = "next"
  /\ todo    = {}
  /\ job     = <<>>
  /\ cur     = NoCursor
  /\ fd      = NoFile
  /\ handed  = [s \in Sinks |-> [e \in Events |-> 0]]
  /\ crashes = 0

-----------------------------------------------------------------------------
(* Emission by the gateway hook: open(path, "a"), write, flush, close. *)

(* The open creates the file when it is missing. *)
HookOpen(e) ==
  LET p == ProfileOf[e] IN
  /\ em[e] = "idle"
  /\ em' = [em EXCEPT ![e] = "opened"]
  /\ IF live[p] = NoFile
     THEN /\ live'   = [live EXCEPT ![p] = e]
          /\ inodes' = inodes \union {e}
          /\ efd'    = [efd EXCEPT ![e] = e]
     ELSE /\ efd' = [efd EXCEPT ![e] = live[p]]
          /\ UNCHANGED <<live, inodes>>
  /\ UNCHANGED <<disk, snap, cursor, daemon, handed, crashes>>

(* One write moves the line, or a part of it, to the open inode, which the *)
(* path may no longer name.                                                *)
HookAdd(e, from, to, chunk) ==
  /\ em[e] = from
  /\ em' = [em EXCEPT ![e] = to]
  /\ \E bad \in BadForms :
       disk' = [disk EXCEPT ![efd[e]] = Extend(@, e, chunk, bad)]
  /\ efd' = IF to = "emitted" THEN [efd EXCEPT ![e] = NoFile] ELSE efd
  /\ UNCHANGED <<live, inodes, snap, cursor, daemon, handed, crashes>>

HookWrite(e) == HookAdd(e, "opened", "emitted", "whole")
HookHead(e)  == e \in LongEvents /\ HookAdd(e, "opened", "half", "head")
HookTail(e)  == HookAdd(e, "half", "emitted", "tail")

(* The gateway dies, or the write fails and the hook swallows the error:   *)
(* what is in the file stays there.                                        *)
HookFail(e) ==
  /\ em[e] \in {"opened", "half"}
  /\ em'  = [em EXCEPT ![e] = "lost"]
  /\ efd' = [efd EXCEPT ![e] = NoFile]
  /\ UNCHANGED <<files, snap, cursor, daemon, handed, crashes>>

-----------------------------------------------------------------------------
(* Emission by a task thread: read_bytes, then rename a copy with one more *)
(* line over the path.                                                     *)
TaskRead(e) ==
  /\ em[e] = "idle"
  /\ em'   = [em EXCEPT ![e] = "read"]
  /\ snap' = [snap EXCEPT ![e] = Content(ProfileOf[e])]
  /\ UNCHANGED <<files, efd, cursor, daemon, handed, crashes>>

TaskReplace(e) ==
  /\ em[e] = "read"
  /\ em'   = [em EXCEPT ![e] = "emitted"]
  /\ snap' = [snap EXCEPT ![e] = <<>>]
  /\ \E bad \in BadForms :
       disk' = [disk EXCEPT ![e] = Extend(snap[e], e, "whole", bad)]
  /\ live'   = [live EXCEPT ![ProfileOf[e]] = e]
  /\ inodes' = inodes \union {e}
  /\ UNCHANGED <<efd, cursor, daemon, handed, crashes>>

(* The server dies before the rename; the path is untouched. *)
TaskFail(e) ==
  /\ em[e] = "read"
  /\ em'   = [em EXCEPT ![e] = "lost"]
  /\ snap' = [snap EXCEPT ![e] = <<>>]
  /\ UNCHANGED <<files, efd, cursor, daemon, handed, crashes>>

-----------------------------------------------------------------------------
(* The daemon *)

(* A tick lists the profiles that have a file; dispatch_all then takes the *)
(* pairs profile by profile and, within a profile, sink by sink.           *)
Tick ==
  /\ pc = "next"
  /\ todo = {}
  /\ todo' = {p \in Profiles : live[p] # NoFile} \X Sinks
  /\ UNCHANGED <<pc, job, cur, fd, files, cursor, emitters, handed, crashes>>

IsFirst(j) ==
  /\ j \in todo
  /\ \A k \in todo : j[1] < k[1] \/ (j[1] = k[1] /\ j[2] <= k[2])

(* Faulty variant: a cursor about another inode is kept, not dropped. *)
StatKeepsPosition(j) ==
  LET p == j[1]
      s == j[2]
  IN
  /\ pc = "next"
  /\ IsFirst(j)
  /\ todo' = todo \ {j}
  /\ job'  = j
  /\ cur'  = [ino |-> live[p], pos |-> cursor[s][p].pos]
  /\ pc'   = "open"
  /\ UNCHANGED <<fd, files, cursor, emitters, handed, crashes>>

(* Faulty variant: the pass resumes one line before the saved position. *)
StatOneLineBack(j) ==
  LET p == j[1]
      s == j[2]
  IN
  /\ pc = "next"
  /\ IsFirst(j)
  /\ todo' = todo \ {j}
  /\ job'  = j
  /\ cur'  = IF cursor[s][p].ino = live[p]
             THEN [cursor[s][p] EXCEPT !.pos = @ - 1]
             ELSE [ino |-> live[p], pos |-> 0]
  /\ pc'   = "open"
  /\ UNCHANGED <<fd, files, cursor, emitters, handed, crashes>>

(* consume_for: stat the path, load the cursor, start afresh if the cursor *)
(* is about another inode.                                                 *)
Stat(j) ==
  LET p == j[1]
      s == j[2]
  IN
  /\ pc = "next"
  /\ IsFirst(j)
  /\ todo' = todo \ {j}
  /\ job'  = j
  /\ cur'  = IF cursor[s][p].ino = live[p] THEN cursor[s][p]
             ELSE [ino |-> live[p], pos |-> 0]
  /\ pc'   = "open"
  /\ UNCHANGED <<fd, files, cursor, emitters, handed, crashes>>

(* Faulty variant: the end of the file is saved before it is read. *)
OpenSavesEnd ==
  /\ pc  = "open"
  /\ fd' = live[job[1]]
  /\ pc' = "read"
  /\ cursor' = [cursor EXCEPT ![job[2]][job[1]] =
                  [ino |-> cur.ino, pos |-> Len(disk[live[job[1]]])]]
  /\ UNCHANGED <<todo, job, cur, files, emitters, handed, crashes>>

(* consume_for opens the path in a later step than it stats it. *)
Open ==
  /\ pc  = "open"
  /\ fd' = live[job[1]]
  /\ pc' = "read"
  /\ UNCHANGED <<todo, job, cur, files, cursor, emitters, handed, crashes>>

(* Faulty variant: a tail without its newline counts as a line. *)
LineAheadAnyTail ==
  /\ pc = "read"
  /\ cur.pos + 1 <= Len(disk[fd])

(* There is a complete line behind the cursor in memory. *)
LineAhead ==
  /\ pc = "read"
  /\ cur.pos + 1 <= Len(disk[fd])
  /\ Closed(disk[fd][cur.pos + 1])

Accepted(l) == l.form = "whole" /\ l.ev \notin Writebacks

(* What ends a pass of sink s every time: json.loads raises                *)
(* UnicodeDecodeError, or the sink's write raises.                         *)
Fatal(s, l) ==
  l.form = "undecodable" \/ (Accepted(l) /\ <<s, l.ev>> \in Poison)

CountUp(n) == IF n < MaxHanded THEN n + 1 ELSE n

(* The cursor in memory moves past the line before it is parsed; a line    *)
(* that is not JSON or that the sink rejects is passed over.               *)
ReadLine ==
  /\ LineAhead
  /\ LET l == disk[fd][cur.pos + 1] IN
       /\ ~Fatal(job[2], l)
       /\ handed' = IF Accepted(l)
                    THEN [handed EXCEPT ![job[2]][l.ev] = CountUp(@)]
                    ELSE handed
  /\ cur' = [cur EXCEPT !.pos = @ + 1]
  /\ UNCHANGED <<pc, todo, job, fd, files, cursor, emitters, crashes>>

(* Faulty variant: the pass ends without saving the cursor. *)
SaveForgotten ==
  /\ pc = "read"
  /\ ~LineAhead
  /\ pc'  = "next"
  /\ job' = <<>>
  /\ cur' = NoCursor
  /\ fd'  = NoFile
  /\ UNCHANGED <<todo, files, cursor, emitters, handed, crashes>>

(* End of file, or a line without its newline: save and close. *)
Save ==
  /\ pc = "read"
  /\ ~LineAhead
  /\ cursor' = [cursor EXCEPT ![job[2]][job[1]] = cur]
  /\ pc'  = "next"
  /\ job' = <<>>
  /\ cur' = NoCursor
  /\ fd'  = NoFile
  /\ UNCHANGED <<todo, files, emitters, handed, crashes>>

Down ==
  /\ pc'   = "down"
  /\ todo' = {}
  /\ job'  = <<>>
  /\ cur'  = NoCursor
  /\ fd'   = NoFile

(* Nothing catches what json.loads or the sink raises: the daemon ends     *)
(* without saving the cursor.                                              *)
FatalLine ==
  /\ LineAhead
  /\ Fatal(job[2], disk[fd][cur.pos + 1])
  /\ Down
  /\ UNCHANGED <<files, cursor, emitters, handed, crashes>>

(* A write raises that would not raise again (a full disk, say): before or *)
(* after it took effect.                                                   *)
WriteRaises ==
  /\ LineAhead
  /\ Accepted(disk[fd][cur.pos + 1])
  /\ crashes < MaxCrashes
  /\ crashes' = crashes + 1
  /\ handed' \in {handed, [handed EXCEPT ![job[2]][disk[fd][cur.pos + 1].ev] = CountUp(@)]}
  /\ Down
  /\ UNCHANGED <<files, cursor, emitters>>

(* kill -9 at any point. *)
Crash ==
  /\ pc # "down"
  /\ crashes < MaxCrashes
  /\ crashes' = crashes + 1
  /\ Down
  /\ UNCHANGED <<files, cursor, emitters, handed>>

(* Faulty variant: the daemon rewinds every cursor when it starts. *)
RestartRewinds ==
  /\ pc  = "down"
  /\ pc' = "next"
  /\ cursor' = [s \in Sinks |-> [p \in Profiles |-> [cursor[s][p] EXCEPT !.pos = 0]]]
  /\ UNCHANGED <<todo, job, cur, fd, files, emitters, handed, crashes>>

(* launchd starts it again. *)
Restart ==
  /\ pc  = "down"
  /\ pc' = "next"
  /\ UNCHANGED <<todo, job, cur, fd, files, cursor, emitters, handed, crashes>>

-----------------------------------------------------------------------------
Hook(e) ==
  HookOpen(e) \/ HookWrite(e) \/ HookHead(e) \/ HookTail(e) \/ HookFail(e)

Task(e) == TaskRead(e) \/ TaskReplace(e) \/ TaskFail(e)

Daemon ==
  \/ Tick
  \/ \E j \in Jobs : Stat(j)
  \/ Open
  \/ ReadLine
  \/ Save
  \/ FatalLine
  \/ Restart

Next ==
  \/ \E e \in HookEvents : Hook(e)
  \/ \E e \in TaskEvents : Task(e)
  \/ Daemon
  \/ WriteRaises
  \/ Crash

Spec == Init /\ [][Next]_vars

(* The daemon loops and launchd keeps it alive; nobody owes an emission. *)
FairSpec == Spec /\ WF_vars(Daemon)

-----------------------------------------------------------------------------
(* Properties *)

TypeOK ==
  /\ live    \in [Profiles -> Events \union {NoFile}]
  /\ disk    \in [Events -> Seq(Line)]
  /\ inodes  \subseteq Events
  /\ cursor  \in [Sinks -> [Profiles -> CursorType]]
  /\ em      \in [Events -> {"idle", "opened", "half", "read", "emitted", "lost"}]
  /\ efd     \in [Events -> Events \union {NoFile}]
  /\ snap    \in [Events -> Seq(Line)]
  /\ pc      \in {"next", "open", "read", "down"}
  /\ todo    \subseteq Jobs
  /\ job     \in Jobs \union {<<>>}
  /\ cur     \in CursorType
  /\ fd      \in Events \union {NoFile}
  /\ handed  \in [Sinks -> [Events -> 0..MaxHanded]]
  /\ crashes \in 0..MaxCrashes

(* Of the first k lines of inode i none is missing or open, and every one  *)
(* that sink s accepts was handed to it.                                   *)
Covered(s, i, k) ==
  \A n \in 1..k :
    /\ n <= Len(disk[i])
    /\ Closed(disk[i][n])
    /\ Accepted(disk[i][n]) => handed[s][disk[i][n].ev] > 0

(* A cursor that the next tick will trust (its inode is the one the path   *)
(* names) is never past a line its sink has not been handed, nor past the  *)
(* open tail: whatever the daemon was doing when it was killed, whatever   *)
(* was appended or renamed meanwhile, nothing in the file is skipped.      *)
CursorNeverAhead ==
  \A s \in Sinks, p \in Profiles :
    live[p] # NoFile /\ cursor[s][p].ino = live[p]
      => Covered(s, live[p], cursor[s][p].pos)

(* No line ends every pass over it. *)
AllReadable ==
  \A i \in Events : \A n \in 1..Len(disk[i]) : \A s \in Sinks : ~Fatal(s, disk[i][n])

(* Redelivery has a price list: as long as no line ends every pass over    *)
(* it, a sink is handed an event again only because the daemon was killed, *)
(* because a write raised, or because the file got another inode (each     *)
(* completed task gives it one).                                           *)
DuplicatesBounded ==
  AllReadable
  => \A s \in Sinks, e \in Events :
       handed[s][e] <= crashes + Cardinality({i \in inodes : ProfileOf[i] = ProfileOf[e]})

(* The saved position in one file never moves back, across kills, restarts *)
(* and a rename between the stat and the open of a pass.                   *)
CursorNeverBack ==
  [][\A s \in Sinks, p \in Profiles :
       cursor'[s][p].ino = cursor[s][p].ino
         => cursor'[s][p].pos >= cursor[s][p].pos]_vars

(* The events a sink should find in a sequence of lines. *)
EventsIn(c) == {c[n].ev : n \in {m \in 1..Len(c) : Accepted(c[m])}}

(* The pairs are served in one order by one thread: a line that ends every *)
(* pass stops those behind it.  One is before the line of e if it is in a  *)
(* pass that comes before that of s over e's file, or earlier in it.       *)
Blocked(s, e) ==
  LET p == ProfileOf[e] IN
  \E q \in Profiles, t \in Sinks : \E n \in 1..Len(Content(q)) :
    /\ Fatal(t, Content(q)[n])
    /\ \/ q < p \/ (q = p /\ t < s)
       \/ /\ q = p /\ t = s
          /\ \E m \in n..Len(Content(p)) : Accepted(Content(p)[m]) /\ Content(p)[m].ev = e

(* Every event in a profile's file is handed to every sink, unless a later *)
(* rename drops it from the file first, or a line before it ends every     *)
(* pass: no restart, no error that passes, and no sink or profile that is  *)
(* served later, starves another.                                          *)
EventuallyHanded ==
  \A s \in Sinks, e \in Events :
    e \in EventsIn(Content(ProfileOf[e]))
      ~> handed[s][e] > 0 \/ e \notin EventsIn(Content(ProfileOf[e])) \/ Blocked(s, e)

(* emit_empire_event is documented to append to the file, atomically       *)
(* (core/audit_hook.py:144-147): no step takes an event out of it.         *)
EmissionKeepsLines ==
  [][\A p \in Profiles : EventsIn(Content(p)) \subseteq EventsIn(Content(p))']_vars

(* A complete line that does not parse is skipped and the cursor moves     *)
(* past it (tests/unit/test_event_bridge_core.py:142-157): no such line    *)
(* holds a sink's cursor back for ever.  For the record: it does not hold  *)
(* for a line that is not UTF-8, whose exception ends every pass, and no   *)
(* run checks it.                                                          *)
CorruptLineSkipped ==
  \A s \in Sinks, i \in Events, n \in 1..Cardinality(Events) :
    (/\ live[ProfileOf[i]] = i
     /\ n <= Len(disk[i])
     /\ disk[i][n].form \in {"garbled", "undecodable"})
    ~> \/ live[ProfileOf[i]] # i
       \/ /\ cursor[s][ProfileOf[i]].ino = i
          /\ cursor[s][ProfileOf[i]].pos >= n

(* The bridge implements at-least-once delivery, the log being the lines   *)
(* of the file the path names now and the acknowledged events those before *)
(* a cursor that is about that file.                                       *)
AckedEvents(s, p) ==
  LET c == cursor[s][p] IN
  IF live[p] # NoFile /\ c.ino = live[p]
  THEN EventsIn(SubSeq(disk[live[p]], 1, c.pos)) ELSE {}

Delivery == INSTANCE EventDelivery WITH
  ever  <- {e \in Events : em[e] = "emitted"},
  log   <- [p \in Profiles |-> EventsIn(Content(p))],
  seen  <- [s \in Sinks |-> {e \in Events : handed[s][e] > 0}],
  acked <- [s \in Sinks |-> [p \in Profiles |-> AckedEvents(s, p)]]

AtLeastOnce == Delivery!Spec

=============================================================================
