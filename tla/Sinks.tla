-------------------------------- MODULE Sinks --------------------------------
(***************************************************************************)
(* The files that the sinks of the event bridge write                      *)
(* (core/event_bridge/sinks/audit.py, obsidian.py, rollup.py), driven by   *)
(* the daemon (daemon.py, tick): each tick hands every sink the events     *)
(* from its saved cursor on, saves the cursor, and then lets the audit     *)
(* sink compress the files of past days.  A kill loses what is not saved,  *)
(* and a task completion replaces the file that the cursors point into:    *)
(* both hand events out again.  EventBridge has that part in detail.       *)
(*                                                                         *)
(*   - The audit sink appends a line per event to the file of the event's  *)
(*     day.  A crash in a write (power loss), or a short write, which the  *)
(*     sink does not notice, leaves part of a line that nothing repairs:   *)
(*     the next line is joined to it.  (A tear of no more than the newline *)
(*     is not distinguished.)                                              *)
(*   - A past day is written to a temporary file, which is renamed to the  *)
(*     .gz, and the day file is removed.                                   *)
(*   - The obsidian sink writes a note per event, unless there is one.     *)
(*                                                                         *)
(* Abstractions.  One profile; event n is the n-th that was emitted, with  *)
(* the day of its timestamp.  Its fields are left out.  The supermemory    *)
(* sink keeps no state here: it swallows its failures.                     *)
(***************************************************************************)
EXTENDS Naturals, Sequences, FiniteSets, Functions

CONSTANTS
  NoFile,      \* a file that is not there
  MaxEvents,   \* bound: events
  MaxDay,      \* bound: midnights
  MaxKills,    \* bound: kills of the daemon, and writes that raise
  MaxReplaced, \* bound: task completions
  MaxShorts    \* bound: short writes to the file of a day

ASSUME SinksConstantsOK ==
  /\ MaxEvents \in Nat /\ MaxDay \in Nat /\ MaxKills \in Nat
  /\ MaxReplaced \in Nat /\ MaxShorts \in Nat
  /\ NoFile \notin Seq(Nat)

VARIABLES
  log,      \* log[n]: the day of event n, in the file that the bridge tails
  today,    \* the current day
  phase,    \* what the daemon does
  pos,      \* how far the sink that runs has got
  size,     \* how many events the file has that this sink opened: that of the
            \* log, unless that was replaced
  saved,    \* saved[s]: the cursor of sink s in the log as it is now
  day,      \* day[d]: the lines of the day file, or NoFile
  torn,     \* torn[d]: that file ends in part of a line
  gz,       \* gz[d]: the lines of the compressed file, or NoFile
  cutoff,   \* the today of the compression that runs
  note,     \* note[n]: the note of event n
  passed,   \* history: passed[s]: how far a cursor of sink s ever was
  kills,    \* history: kills
  tears,    \* history: tears[d]: how many of them have torn a line of day d
  shorts,   \* history: shorts[d]: short writes to the file of day d
  replaced  \* history: task completions

vars == <<log, today, phase, pos, size, saved, day, torn, gz, cutoff, note,
          passed, kills, tears, shorts, replaced>>
env     == <<log, today, replaced>>
cursors == <<saved, passed>>
audit   == <<day, torn, gz>>
mishaps == <<kills, tears, shorts>>

SinkNames == {"audit", "obsidian"}
Days      == 0..MaxDay
Events    == 1..MaxEvents
Emitted   == DOMAIN log

Unreadable == 0    \* a line that does not parse

Init ==
  /\ log = <<>> /\ today = 0
  /\ phase = "audit" /\ pos = 0 /\ size = 0
  /\ saved  = [s \in SinkNames |-> 0]
  /\ passed = [s \in SinkNames |-> 0]
  /\ day    = [d \in Days |-> NoFile]
  /\ torn   = [d \in Days |-> FALSE]
  /\ gz     = [d \in Days |-> NoFile]
  /\ cutoff = 0
  /\ note   = [n \in Events |-> "none"]
  /\ kills  = 0 /\ replaced = 0
  /\ tears  = [d \in Days |-> 0]
  /\ shorts = [d \in Days |-> 0]

(* A hook appends to the log, ... *)
Emit ==
  /\ Len(log) < MaxEvents
  /\ log'  = Append(log, today)
  /\ size' = IF size = Len(log) THEN size + 1 ELSE size
  /\ UNCHANGED <<today, replaced, phase, pos, cursors, audit, cutoff, note, mishaps>>

(* ... a task completion renames a longer copy to it: a sink that has the  *)
(* old file open reads that to its end, and the next to start reads the    *)
(* new file from its beginning.                                            *)
EmitReplacing ==
  /\ Len(log) < MaxEvents /\ replaced < MaxReplaced
  /\ log'      = Append(log, today)
  /\ saved'    = [s \in SinkNames |-> 0]
  /\ replaced' = replaced + 1
  /\ UNCHANGED <<today, phase, pos, size, passed, audit, cutoff, note, mishaps>>

Midnight ==
  /\ today < MaxDay
  /\ today' = today + 1
  /\ UNCHANGED <<log, replaced, phase, pos, size, cursors, audit, cutoff, note, mishaps>>

(* The daemon opens the log for a sink that starts in the phase ph, and    *)
(* saves its cursor when it is through.                                    *)
Open(s, ph) ==
  /\ phase' = ph
  /\ pos'   = saved[s]
  /\ size'  = Len(log)

SaveCursor(s) ==
  /\ saved'  = [saved EXCEPT ![s] = IF size = Len(log) THEN pos ELSE 0]
  /\ passed' = [passed EXCEPT ![s] = pos]

-----------------------------------------------------------------------------
(* The audit sink *)

Lines(f) == IF f = NoFile THEN <<>> ELSE f

(* Faulty variant: the first write of a day truncates the file. *)
AppendedTruncating(f, isTorn, n) ==
  IF f = NoFile \/ isTorn THEN <<n>> ELSE Append(f, n)

(* A line after part of a line is joined to it. *)
Appended(f, isTorn, n) ==
  Append(Lines(f), IF isTorn THEN Unreadable ELSE n)

AuditWrite ==
  /\ phase = "audit" /\ pos < size
  /\ LET d == log[pos + 1] IN
       /\ day'  = [day EXCEPT ![d] = Appended(@, torn[d], pos + 1)]
       /\ torn' = [torn EXCEPT ![d] = FALSE]
  /\ pos' = pos + 1
  /\ UNCHANGED <<env, phase, size, cursors, gz, cutoff, note, mishaps>>

(* Part of the line gets into the file of day d. *)
Tear(d) ==
  /\ day'  = [day EXCEPT ![d] = Lines(@)]
  /\ torn' = [torn EXCEPT ![d] = TRUE]

AuditWriteShort ==
  /\ phase = "audit" /\ pos < size
  /\ LET d == log[pos + 1] IN
       /\ shorts[d] < MaxShorts
       /\ shorts' = [shorts EXCEPT ![d] = @ + 1]
       /\ Tear(d)
  /\ pos' = pos + 1
  /\ UNCHANGED <<env, phase, size, cursors, gz, cutoff, note, kills, tears>>

AuditWriteKilled ==
  /\ phase = "audit" /\ pos < size /\ kills < MaxKills
  /\ LET d == log[pos + 1] IN
       /\ Tear(d)
       /\ tears' = [tears EXCEPT ![d] = @ + 1]
  /\ phase' = "down"
  /\ kills' = kills + 1
  /\ UNCHANGED <<env, pos, size, cursors, gz, cutoff, note, shorts>>

(* Faulty variant: the cursor points past the last event. *)
AuditEndAhead ==
  /\ phase = "audit" /\ pos = size
  /\ saved'  = [saved EXCEPT !["audit"] = IF size = Len(log) THEN pos + 1 ELSE 0]
  /\ passed' = [passed EXCEPT !["audit"] = pos]
  /\ Open("obsidian", "obsidian")
  /\ UNCHANGED <<env, audit, cutoff, note, mishaps>>

AuditEnd ==
  /\ phase = "audit" /\ pos = size
  /\ SaveCursor("audit")
  /\ Open("obsidian", "obsidian")
  /\ UNCHANGED <<env, audit, cutoff, note, mishaps>>

-----------------------------------------------------------------------------
(* The obsidian sink.  write_text creates the file, then writes it.        *)

NoteCreate ==
  /\ phase = "obsidian" /\ pos < size
  /\ note[pos + 1] = "none"
  /\ note'  = [note EXCEPT ![pos + 1] = "partial"]
  /\ phase' = "note"
  /\ UNCHANGED <<env, pos, size, cursors, audit, cutoff, mishaps>>

(* Faulty variant: the text goes to a buffer that is not flushed. *)
NoteWriteBuffered ==
  /\ phase = "note"
  /\ phase' = "obsidian"
  /\ pos'   = pos + 1
  /\ UNCHANGED <<env, size, cursors, audit, cutoff, note, mishaps>>

NoteWrite ==
  /\ phase = "note"
  /\ note'  = [note EXCEPT ![pos + 1] = "whole"]
  /\ phase' = "obsidian"
  /\ pos'   = pos + 1
  /\ UNCHANGED <<env, size, cursors, audit, cutoff, mishaps>>

NoteExists ==
  /\ phase = "obsidian" /\ pos < size
  /\ note[pos + 1] # "none"
  /\ pos' = pos + 1
  /\ UNCHANGED <<env, phase, size, cursors, audit, cutoff, note, mishaps>>

ObsidianEnd ==
  /\ phase = "obsidian" /\ pos = size
  /\ SaveCursor("obsidian")
  /\ phase'  = "roll"
  /\ pos'    = 0
  /\ cutoff' = today
  /\ UNCHANGED <<env, size, audit, note, mishaps>>

-----------------------------------------------------------------------------
(* roll_and_compress, in the order of the days; pos is the day it is at    *)

(* Faulty variant: the last day before today is left for the next one. *)
SealableLate(d) == d + 1 < cutoff /\ day[d] # NoFile /\ gz[d] = NoFile

(* Faulty variant: a .gz that is there is replaced. *)
SealableAgain(d) == d < cutoff /\ day[d] # NoFile

Sealable(d) == d < cutoff /\ day[d] # NoFile /\ gz[d] = NoFile

(* The copy to the temporary file and its rename. *)
Seal ==
  /\ phase = "roll" /\ pos < cutoff /\ Sealable(pos)
  /\ gz'    = [gz EXCEPT ![pos] = day[pos]]
  /\ phase' = "sealed"
  /\ UNCHANGED <<env, pos, size, cursors, day, torn, cutoff, note, mishaps>>

RemoveDay ==
  /\ phase = "sealed"
  /\ day'   = [day EXCEPT ![pos] = NoFile]
  /\ torn'  = [torn EXCEPT ![pos] = FALSE]
  /\ phase' = "roll"
  /\ pos'   = pos + 1
  /\ UNCHANGED <<env, size, cursors, gz, cutoff, note, mishaps>>

SkipDay ==
  /\ phase = "roll" /\ pos < cutoff /\ ~Sealable(pos)
  /\ pos' = pos + 1
  /\ UNCHANGED <<env, phase, size, cursors, audit, cutoff, note, mishaps>>

RollEnd ==
  /\ phase = "roll" /\ pos >= cutoff
  /\ Open("audit", "audit")
  /\ cutoff' = 0
  /\ UNCHANGED <<env, cursors, audit, note, mishaps>>

-----------------------------------------------------------------------------
Kill ==
  /\ phase # "down" /\ kills < MaxKills
  /\ phase' = "down"
  /\ kills' = kills + 1
  /\ UNCHANGED <<env, pos, size, cursors, audit, cutoff, note, tears, shorts>>

(* launchd keeps the daemon alive. *)
Restart ==
  /\ phase = "down"
  /\ Open("audit", "audit")
  /\ cutoff' = 0
  /\ UNCHANGED <<env, cursors, audit, note, mishaps>>

Daemon ==
  \/ AuditWrite \/ AuditWriteShort \/ AuditEnd
  \/ NoteCreate \/ NoteWrite \/ NoteExists \/ ObsidianEnd
  \/ Seal \/ RemoveDay \/ SkipDay \/ RollEnd
  \/ Restart

Next == Emit \/ EmitReplacing \/ Midnight \/ Daemon \/ Kill \/ AuditWriteKilled

Spec == Init /\ [][Next]_vars

(* The daemon polls for ever and launchd restarts it. *)
FairSpec == Spec /\ WF_vars(Daemon)

-----------------------------------------------------------------------------
(* rollup.py: how often it counts event n in a file. *)

Counted(f, n) == Cardinality({i \in DOMAIN Lines(f) : Lines(f)[i] = n})

-----------------------------------------------------------------------------
(* Properties *)

File == Seq(0..MaxEvents) \union {NoFile}

TypeOK ==
  /\ log \in Seq(Days) /\ Len(log) <= MaxEvents
  /\ today \in Days /\ cutoff \in 0..today
  /\ phase \in {"audit", "obsidian", "note", "roll", "sealed", "down"}
  /\ pos \in Nat /\ size \in 0..Len(log)
  /\ saved \in [SinkNames -> 0..Len(log)] /\ passed \in [SinkNames -> 0..Len(log)]
  /\ day \in [Days -> File] /\ torn \in [Days -> BOOLEAN]
  /\ gz \in [Days -> File]
  /\ note \in [Events -> {"none", "partial", "whole"}]
  /\ kills \in 0..MaxKills
  /\ tears \in [Days -> 0..MaxKills] /\ shorts \in [Days -> 0..MaxShorts]
  /\ replaced \in 0..MaxReplaced

Readable(d) == (Range(Lines(day[d])) \union Range(Lines(gz[d]))) \ {Unreadable}

(* Of the events that a cursor has passed, those of a day that are in      *)
(* neither of its files.                                                   *)
Missing(d) == {n \in 1..passed["audit"] : log[n] = d /\ n \notin Readable(d)}

(* The audit file is the local authority (audit.py:16): of the events of a *)
(* day no more are missing than one per line that a crash tore and two per *)
(* short write, its own event and the one that is joined to it; and a      *)
(* rollup counts no event more than once, and once more for each kill and  *)
(* each task completion, which hand it out again.                          *)
AuditKeeps ==
  \A d \in Days :
    /\ Cardinality(Missing(d)) <= tears[d] + 2 * shorts[d]
    /\ \A f \in {day[d], gz[d]}, n \in Events : Counted(f, n) <= 1 + kills + replaced

(* Compression loses nothing: an event that is in a file of its day stays  *)
(* in one, over kills, late events and a .gz that is already there.        *)
RollLosesNothing == [][\A d \in Days : Readable(d) \subseteq Readable(d)']_vars

(* Every event that the obsidian cursor has passed has its note, and the   *)
(* notes that stay partial for ever are no more than there were kills.     *)
NotesWhole ==
  /\ \A n \in 1..passed["obsidian"] : note[n] # "none"
  /\ Cardinality({n \in Events : note[n] = "partial" /\ ~(phase = "note" /\ n = pos + 1)})
       <= kills

(* The file of a past day is compressed.  (A day file next to a .gz stays  *)
(* for ever: that of a late event, or of a kill before the removal.)       *)
EventuallyCompressed ==
  \A d \in Days : d < today ~> day[d] = NoFile \/ gz[d] # NoFile
=============================================================================
