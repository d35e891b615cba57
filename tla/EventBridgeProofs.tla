-------------------------- MODULE EventBridgeProofs --------------------------
(***************************************************************************)
(* Proofs about the event bridge, for any profiles, sinks and events: the  *)
(* types; a cursor is never ahead of its sink and never moves back; what   *)
(* redelivery may cost; and that the bridge implements EventDelivery.      *)
(***************************************************************************)
EXTENDS EventBridge, SequenceTheorems, FiniteSetTheorems, TLAPS

Chunks == {"whole", "head", "tail"}

(* What Extend does to a file: it stays a sequence of lines, it never gets *)
(* shorter, and a line that is complete stays as it is.                    *)
LEMMA ExtendKeeps ==
  ASSUME NEW c \in Seq(Line), NEW e \in Events, NEW chunk \in Chunks,
         NEW bad \in BadForms
  PROVE  /\ Extend(c, e, chunk, bad) \in Seq(Line)
         /\ Len(Extend(c, e, chunk, bad)) >= Len(c)
         /\ \A n \in 1..Len(c) :
              Closed(c[n]) => Extend(c, e, chunk, bad)[n] = c[n]
<1>1. bad \in Forms
  BY ConstantsOK DEF Forms
<1>2. CASE OpenTail(c)
  <2>. DEFINE l == [ev   |-> e,
                    form |-> IF chunk = "head" THEN "mess"
                             ELSE IF chunk = "tail" /\ c[Len(c)] = [ev |-> e, form |-> "half"]
                                  THEN "whole" ELSE bad]
  <2>1. Extend(c, e, chunk, bad) = [c EXCEPT ![Len(c)] = l]
    BY <1>2 DEF Extend
  <2>2. l \in Line
    BY <1>1 DEF Line, Forms
  <2>3. ~Closed(c[Len(c)]) /\ Len(c) \in 1..Len(c)
    BY <1>2, EmptySeq DEF OpenTail
  <2>. HIDE DEF l
  <2>. QED
    BY <2>1, <2>2, <2>3, ExceptSeq
<1>3. CASE ~OpenTail(c)
  <2>. DEFINE l == [ev   |-> e,
                    form |-> IF chunk = "whole" THEN "whole"
                             ELSE IF chunk = "head" THEN "half" ELSE bad]
  <2>1. Extend(c, e, chunk, bad) = Append(c, l)
    BY <1>3 DEF Extend
  <2>2. l \in Line
    BY <1>1 DEF Line, Forms
  <2>. HIDE DEF l
  <2>. QED
    BY <2>1, <2>2, AppendProperties
<1>. QED
  BY <1>2, <1>3

-----------------------------------------------------------------------------
(* The inductive invariant.  Inodes are fresh when they are created, so    *)
(* nothing refers to one before; a pass that still trusts its cursor has   *)
(* the file open that the cursor is about, and is not ahead of its sink.   *)

InodesMade ==
  /\ \A e \in inodes : em[e] \notin {"idle", "read"}
  /\ \A p \in Profiles : live[p] \in inodes \union {NoFile}
  /\ \A s \in Sinks, p \in Profiles : cursor[s][p].ino \in inodes \union {NoFile}
  /\ \A e \in Events : efd[e] \in inodes \union {NoFile}
  /\ \A e \in HookEvents : em[e] \in {"opened", "half"} => efd[e] # NoFile

PassOK ==
  /\ \A j \in todo : live[j[1]] # NoFile
  /\ pc \in {"open", "read"} =>
       /\ job \in Jobs
       /\ live[job[1]] # NoFile
       /\ cur.ino \in inodes
  /\ pc = "read" => fd \in inodes
  /\ pc \in {"open", "read"} /\ cur.ino = live[job[1]] =>
       /\ Covered(job[2], cur.ino, cur.pos)
       /\ pc = "read" => fd = cur.ino

IInv == TypeOK /\ InodesMade /\ PassOK /\ CursorNeverAhead

-----------------------------------------------------------------------------
LEMMA InitIInv == Init => IInv
<1>. SUFFICES ASSUME Init PROVE IInv
  OBVIOUS
<1>1. TypeOK
  BY ConstantsOK DEF Init, TypeOK, CursorType, NoCursor, Line, Jobs
<1>2. InodesMade
  BY DEF Init, InodesMade, NoCursor, Events
<1>3. PassOK
  BY DEF Init, PassOK
<1>4. CursorNeverAhead
  BY DEF Init, CursorNeverAhead
<1>. QED
  BY <1>1, <1>2, <1>3, <1>4 DEF IInv

(* Covered survives a step that only extends files, keeps their complete   *)
(* lines and takes no delivery back.                                       *)
KeepsFiles(is) ==
  /\ \A i \in is :
       /\ Len(disk'[i]) >= Len(disk[i])
       /\ \A n \in 1..Len(disk[i]) : Closed(disk[i][n]) => disk'[i][n] = disk[i][n]
  /\ \A s \in Sinks, e \in Events : handed[s][e] > 0 => handed'[s][e] > 0

LEMMA CoveredStable ==
  ASSUME TypeOK, TypeOK', KeepsFiles(inodes), inodes \subseteq Events
  PROVE  \A s \in Sinks, i \in inodes, k \in Nat : Covered(s, i, k) => Covered(s, i, k)'
<1>. SUFFICES ASSUME NEW s \in Sinks, NEW i \in inodes, NEW k \in Nat, Covered(s, i, k),
                     NEW n \in 1..k
              PROVE  /\ n <= Len(disk'[i])
                     /\ Closed(disk'[i][n])
                     /\ Accepted(disk'[i][n]) => handed'[s][disk'[i][n].ev] > 0
  BY DEF Covered, Closed, Accepted
<1>1. disk[i] \in Seq(Line) /\ disk'[i] \in Seq(Line)
  BY DEF TypeOK
<1>2. Len(disk[i]) \in Nat /\ Len(disk'[i]) \in Nat
  BY <1>1, LenProperties
<1>3. /\ n \in 1..Len(disk[i])
      /\ Closed(disk[i][n])
      /\ Accepted(disk[i][n]) => handed[s][disk[i][n].ev] > 0
  BY <1>2 DEF Covered
<1>4. disk'[i][n] = disk[i][n] /\ Len(disk'[i]) >= Len(disk[i])
  BY <1>3 DEF KeepsFiles
<1>5. disk[i][n].ev \in Events
  <2>1. disk[i][n] \in Line
    BY <1>1, <1>3, ElementOfSeq
  <2>. QED
    BY <2>1 DEF Line
<1>. QED
  BY <1>2, <1>3, <1>4, <1>5 DEF KeepsFiles

-----------------------------------------------------------------------------
(* The emitters.  What they share: the daemon does not move, and a path    *)
(* keeps its inode or gets a fresh one.                                    *)
LEMMA EmitterKeeps ==
  ASSUME IInv, TypeOK', KeepsFiles(inodes),
         UNCHANGED <<cursor, daemon>>,
         inodes \subseteq inodes',
         \A p \in Profiles : live'[p] = live[p] \/ live'[p] \in Events \ inodes
  PROVE  PassOK' /\ CursorNeverAhead'
<1>. USE DEF IInv
<1>1. inodes \subseteq Events /\ NoFile \notin Events
  BY ConstantsOK DEF TypeOK
<1>2. \A s \in Sinks, i \in inodes, k \in Nat : Covered(s, i, k) => Covered(s, i, k)'
  BY <1>1, CoveredStable
<1>3. \A i \in inodes, p \in Profiles : i = live'[p] => i = live[p]
  OBVIOUS
<1>4. \A p \in Profiles : live[p] # NoFile => live'[p] # NoFile
  BY <1>1
<1>5. UNCHANGED <<cursor, pc, todo, job, cur, fd>>
  BY DEF daemon
<1>6. CursorNeverAhead'
  <2>. SUFFICES ASSUME NEW s \in Sinks, NEW p \in Profiles,
                       live'[p] # NoFile, cursor[s][p].ino = live'[p]
                PROVE  Covered(s, cursor[s][p].ino, cursor[s][p].pos)'
    BY <1>5 DEF CursorNeverAhead
  <2>1. cursor[s][p].ino \in inodes /\ cursor[s][p].pos \in Nat
    BY DEF InodesMade, TypeOK, CursorType
  <2>2. live[p] = cursor[s][p].ino /\ live[p] # NoFile
    BY <2>1, <1>1, <1>3
  <2>3. Covered(s, cursor[s][p].ino, cursor[s][p].pos)
    BY <2>2 DEF CursorNeverAhead
  <2>. QED
    BY <2>1, <2>3, <1>2, <1>5
<1>7. PassOK'
  <2>1. (\A j \in todo : live[j[1]] # NoFile)'
    BY <1>4, <1>5 DEF PassOK, TypeOK, Jobs
  <2>2. (pc \in {"open", "read"} =>
           job \in Jobs /\ live[job[1]] # NoFile /\ cur.ino \in inodes)'
    BY <1>4, <1>5 DEF PassOK, Jobs
  <2>3. (pc = "read" => fd \in inodes)'
    BY <1>5 DEF PassOK
  <2>4. ASSUME pc \in {"open", "read"}, cur.ino = live'[job[1]]
        PROVE  Covered(job[2], cur.ino, cur.pos)' /\ (pc = "read" => fd = cur.ino)
    <3>1. job[1] \in Profiles /\ job[2] \in Sinks /\ cur.ino \in inodes /\ cur.pos \in Nat
      BY <2>4 DEF PassOK, TypeOK, CursorType, Jobs
    <3>2. cur.ino = live[job[1]]
      BY <2>4, <3>1, <1>3
    <3>. QED
      BY <2>4, <3>1, <3>2, <1>2, <1>5 DEF PassOK
  <2>. QED
    BY <2>1, <2>2, <2>3, <2>4, <1>5 DEF PassOK
<1>. QED
  BY <1>6, <1>7

LEMMA UnchangedKeeps ==
  ASSUME TypeOK, UNCHANGED <<disk, handed>>
  PROVE  KeepsFiles(inodes)
<1>1. \A i \in inodes : Len(disk[i]) \in Nat
  BY LenProperties DEF TypeOK
<1>. QED
  BY <1>1 DEF KeepsFiles

LEMMA HookOpenStep ==
  ASSUME IInv, NEW e \in HookEvents, HookOpen(e)
  PROVE  IInv'
<1>. USE DEF IInv
<1>0. e \in Events /\ e \notin inodes /\ ProfileOf[e] \in Profiles
  BY ConstantsOK DEF HookOpen, InodesMade, Events
<1>1. UNCHANGED <<disk, handed, cursor, daemon, snap, crashes>>
  BY DEF HookOpen
<1>2. TypeOK'
  <2>1. em' \in [Events -> {"idle", "opened", "half", "read", "emitted", "lost"}]
    <3>1. /\ em' = [em EXCEPT ![e] = "opened"]
          /\ em \in [Events -> {"idle", "opened", "half", "read", "emitted", "lost"}]
      BY DEF HookOpen, TypeOK
    <3>. QED
      BY <1>0, <3>1
  <2>2. /\ live' \in [Profiles -> Events \union {NoFile}]
        /\ inodes' \subseteq Events
        /\ efd' \in [Events -> Events \union {NoFile}]
    <3>1. /\ live \in [Profiles -> Events \union {NoFile}] /\ inodes \subseteq Events
          /\ efd \in [Events -> Events \union {NoFile}]
      BY DEF TypeOK
    <3>2. \/ /\ live' = [live EXCEPT ![ProfileOf[e]] = e]
             /\ inodes' = inodes \union {e} /\ efd' = [efd EXCEPT ![e] = e]
          \/ /\ live' = live /\ inodes' = inodes
             /\ efd' = [efd EXCEPT ![e] = live[ProfileOf[e]]]
      BY DEF HookOpen
    <3>. QED
      BY <1>0, <3>1, <3>2
  <2>. QED
    BY <1>1, <2>1, <2>2 DEF TypeOK, daemon
<1>3. InodesMade'
  <2>1. \A i \in inodes' : em'[i] \notin {"idle", "read"}
    BY <1>0 DEF HookOpen, TypeOK, InodesMade
  <2>2. \A p \in Profiles : live'[p] \in inodes' \union {NoFile}
    BY <1>0 DEF HookOpen, TypeOK, InodesMade
  <2>3. \A s \in Sinks, p \in Profiles : cursor'[s][p].ino \in inodes' \union {NoFile}
    BY <1>0, <1>1 DEF HookOpen, InodesMade
  <2>4. efd'[e] \in inodes' \ {NoFile} /\ \A i \in Events \ {e} : efd'[i] = efd[i]
    <3>1. e # NoFile
      BY <1>0, ConstantsOK
    <3>2. CASE live[ProfileOf[e]] = NoFile
      BY <1>0, <3>1, <3>2 DEF HookOpen, TypeOK
    <3>3. CASE live[ProfileOf[e]] # NoFile
      BY <1>0, <3>3 DEF HookOpen, TypeOK, InodesMade
    <3>. QED
      BY <3>2, <3>3
  <2>5. \A i \in Events : efd'[i] \in inodes' \union {NoFile}
    BY <1>0, <2>4 DEF HookOpen, InodesMade
  <2>6. \A i \in HookEvents : em'[i] \in {"opened", "half"} => efd'[i] # NoFile
    BY <1>0, <2>4 DEF HookOpen, TypeOK, InodesMade, Events
  <2>. QED
    BY <2>1, <2>2, <2>3, <2>5, <2>6 DEF InodesMade
<1>4. inodes \subseteq inodes' /\ \A p \in Profiles : live'[p] = live[p] \/ live'[p] \in Events \ inodes
  BY <1>0 DEF HookOpen, TypeOK
<1>. QED
  BY <1>1, <1>2, <1>3, <1>4, UnchangedKeeps, EmitterKeeps

LEMMA HookAddStep ==
  ASSUME IInv, NEW e \in HookEvents,
         NEW from \in {"opened", "half"}, NEW to \in {"half", "emitted"},
         NEW chunk \in Chunks, HookAdd(e, from, to, chunk)
  PROVE  IInv'
<1>. USE DEF IInv
<1>0. e \in Events /\ efd[e] \in inodes /\ inodes \subseteq Events /\ NoFile \notin Events
  BY ConstantsOK DEF HookAdd, InodesMade, Events, TypeOK
<1>1. UNCHANGED <<live, inodes, snap, cursor, daemon, handed, crashes>>
  BY DEF HookAdd
<1>2. PICK bad \in BadForms : disk' = [disk EXCEPT ![efd[e]] = Extend(@, e, chunk, bad)]
  BY DEF HookAdd
<1>3. disk[efd[e]] \in Seq(Line)
  BY <1>0 DEF TypeOK
<1>. DEFINE new == Extend(disk[efd[e]], e, chunk, bad)
<1>4. /\ new \in Seq(Line)
      /\ Len(new) >= Len(disk[efd[e]])
      /\ \A n \in 1..Len(disk[efd[e]]) : Closed(disk[efd[e]][n]) => new[n] = disk[efd[e]][n]
  BY <1>0, <1>3, ExtendKeeps
<1>5. disk' = [disk EXCEPT ![efd[e]] = new]
  BY <1>2
<1>. HIDE DEF new
<1>6. TypeOK'
  <2>1. disk' \in [Events -> Seq(Line)]
    BY <1>0, <1>4, <1>5 DEF TypeOK
  <2>2. /\ em' \in [Events -> {"idle", "opened", "half", "read", "emitted", "lost"}]
        /\ efd' \in [Events -> Events \union {NoFile}]
    BY <1>0 DEF HookAdd, TypeOK
  <2>. QED
    BY <1>1, <2>1, <2>2 DEF TypeOK, daemon
<1>7. InodesMade'
  BY <1>0, <1>1, ConstantsOK DEF HookAdd, TypeOK, InodesMade, Events
<1>8. KeepsFiles(inodes)
  <2>1. \A i \in inodes : Len(disk[i]) \in Nat
    BY LenProperties DEF TypeOK
  <2>2. disk'[efd[e]] = new /\ \A i \in inodes \ {efd[e]} : disk'[i] = disk[i]
    BY <1>0, <1>5 DEF TypeOK
  <2>. QED
    BY <1>1, <1>4, <2>1, <2>2 DEF KeepsFiles
<1>. QED
  BY <1>1, <1>6, <1>7, <1>8, EmitterKeeps

LEMMA EmitterGivesUp ==
  ASSUME IInv, NEW e \in Events,
         \/ e \in HookEvents /\ HookFail(e)
         \/ e \in TaskEvents /\ (TaskRead(e) \/ TaskFail(e))
  PROVE  IInv'
<1>. USE DEF IInv
<1>1. UNCHANGED <<live, disk, inodes, cursor, daemon, handed, crashes>>
  BY DEF HookFail, TaskRead, TaskFail, files
<1>2. em' \in [Events -> {"idle", "opened", "half", "read", "emitted", "lost"}]
  BY DEF HookFail, TaskRead, TaskFail, TypeOK
<1>3. efd' \in [Events -> Events \union {NoFile}]
  BY DEF HookFail, TaskRead, TaskFail, TypeOK
<1>4. snap' \in [Events -> Seq(Line)]
  <2>1. \A p \in Profiles : Content(p) \in Seq(Line)
    BY DEF Content, TypeOK
  <2>2. <<>> \in Seq(Line) /\ ProfileOf[e] \in Profiles
    BY ConstantsOK
  <2>. QED
    BY <2>1, <2>2 DEF HookFail, TaskRead, TaskFail, TypeOK
<1>5. TypeOK'
  BY <1>1, <1>2, <1>3, <1>4 DEF TypeOK, daemon
<1>6. InodesMade'
  <2>1. \A i \in inodes : em'[i] \notin {"idle", "read"}
    BY DEF HookFail, TaskRead, TaskFail, TypeOK, InodesMade
  <2>2. \A i \in Events : efd'[i] \in {efd[i], NoFile}
    BY DEF HookFail, TaskRead, TaskFail, TypeOK
  <2>3. \A i \in HookEvents : em'[i] \in {"opened", "half"} => efd'[i] = efd[i] /\ em'[i] = em[i]
    BY ConstantsOK DEF HookFail, TaskRead, TaskFail, TypeOK, Events
  <2>. QED
    BY <1>1, <2>1, <2>2, <2>3 DEF InodesMade
<1>. QED
  BY <1>1, <1>5, <1>6, UnchangedKeeps, EmitterKeeps

LEMMA TaskReplaceStep ==
  ASSUME IInv, NEW e \in TaskEvents, TaskReplace(e)
  PROVE  IInv'
<1>. USE DEF IInv
<1>0. e \in Events /\ e \notin inodes /\ ProfileOf[e] \in Profiles /\ inodes \subseteq Events
  BY ConstantsOK DEF TaskReplace, InodesMade, Events, TypeOK
<1>1. UNCHANGED <<efd, cursor, daemon, handed, crashes>>
  BY DEF TaskReplace
<1>2. PICK bad \in BadForms : disk' = [disk EXCEPT ![e] = Extend(snap[e], e, "whole", bad)]
  BY DEF TaskReplace
<1>3. Extend(snap[e], e, "whole", bad) \in Seq(Line)
  BY <1>0, ExtendKeeps DEF TypeOK, Chunks
<1>4. TypeOK'
  <2>1. disk' \in [Events -> Seq(Line)]
    BY <1>0, <1>2, <1>3 DEF TypeOK
  <2>2. /\ em' \in [Events -> {"idle", "opened", "half", "read", "emitted", "lost"}]
        /\ snap' \in [Events -> Seq(Line)]
        /\ live' \in [Profiles -> Events \union {NoFile}]
        /\ inodes' \subseteq Events
    <3>1. <<>> \in Seq(Line)
      OBVIOUS
    <3>. QED
      BY <1>0, <3>1 DEF TaskReplace, TypeOK
  <2>. QED
    BY <1>1, <2>1, <2>2 DEF TypeOK, daemon
<1>5. InodesMade'
  <2>1. \A i \in inodes' : em'[i] \notin {"idle", "read"}
    BY <1>0 DEF TaskReplace, TypeOK, InodesMade
  <2>2. \A p \in Profiles : live'[p] \in inodes' \union {NoFile}
    BY <1>0 DEF TaskReplace, TypeOK, InodesMade
  <2>3. \A s \in Sinks, p \in Profiles : cursor'[s][p].ino \in inodes' \union {NoFile}
    BY <1>1 DEF TaskReplace, InodesMade
  <2>4. \A i \in Events : efd'[i] \in inodes' \union {NoFile}
    BY <1>1 DEF TaskReplace, InodesMade
  <2>5. \A i \in HookEvents : em'[i] \in {"opened", "half"} => efd'[i] # NoFile
    BY <1>0, <1>1 DEF TaskReplace, TypeOK, InodesMade, Events
  <2>. QED
    BY <2>1, <2>2, <2>3, <2>4, <2>5 DEF InodesMade
<1>6. KeepsFiles(inodes)
  <2>1. \A i \in inodes : Len(disk[i]) \in Nat
    BY LenProperties DEF TypeOK
  <2>. QED
    BY <1>0, <1>1, <1>2, <2>1 DEF KeepsFiles, TypeOK
<1>7. inodes \subseteq inodes' /\ \A p \in Profiles : live'[p] = live[p] \/ live'[p] \in Events \ inodes
  BY <1>0 DEF TaskReplace, TypeOK
<1>. QED
  BY <1>1, <1>4, <1>5, <1>6, <1>7, EmitterKeeps

-----------------------------------------------------------------------------
(* The daemon.  Most of its steps leave the files, the cursors and what was *)
(* handed as they are.                                                     *)
LEMMA QuietStep ==
  ASSUME IInv, UNCHANGED <<files, cursor, emitters, handed>>
  PROVE  /\ InodesMade'
         /\ CursorNeverAhead'
         /\ \A s \in Sinks, i \in inodes, k \in Nat : Covered(s, i, k)' <=> Covered(s, i, k)
<1>1. \A s \in Sinks, i \in inodes, k \in Nat : Covered(s, i, k)' <=> Covered(s, i, k)
  BY DEF files, Covered, Closed, Accepted
<1>2. InodesMade'
  BY DEF IInv, InodesMade, files, emitters
<1>3. CursorNeverAhead'
  <2>1. \A s \in Sinks, p \in Profiles :
          cursor[s][p].ino \in inodes \union {NoFile} /\ cursor[s][p].pos \in Nat
    BY DEF IInv, InodesMade, TypeOK, CursorType
  <2>. QED
    BY <1>1, <2>1 DEF IInv, CursorNeverAhead, files
<1>. QED
  BY <1>1, <1>2, <1>3

LEMMA IdleStep ==
  ASSUME IInv, Tick \/ Restart \/ FatalLine \/ Crash
  PROVE  IInv'
<1>. USE DEF IInv
<1>1. UNCHANGED <<files, cursor, emitters, handed>>
  BY DEF Tick, Restart, FatalLine, Crash
<1>2. TypeOK'
  <2>1. todo' \subseteq Jobs
    BY DEF Tick, Restart, FatalLine, Crash, Down, TypeOK, Jobs
  <2>2. /\ pc' \in {"next", "open", "read", "down"}
        /\ job' \in Jobs \union {<<>>}
        /\ cur' \in CursorType
        /\ fd' \in Events \union {NoFile}
    BY DEF Tick, Restart, FatalLine, Crash, Down, TypeOK, CursorType, NoCursor
  <2>3. crashes' \in 0..MaxCrashes
    BY ConstantsOK DEF Tick, Restart, FatalLine, Crash, TypeOK
  <2>. QED
    BY <1>1, <2>1, <2>2, <2>3 DEF TypeOK, files, emitters
<1>3. pc' \in {"next", "down"} /\ \A j \in todo' : live'[j[1]] # NoFile
  BY <1>1 DEF Tick, Restart, FatalLine, Crash, Down, PassOK, files
<1>4. PassOK'
  BY <1>3 DEF PassOK
<1>. QED
  BY <1>1, <1>2, <1>4, QuietStep

LEMMA StatStep ==
  ASSUME IInv, NEW j \in Jobs, Stat(j)
  PROVE  IInv'
<1>. USE DEF IInv
<1>1. UNCHANGED <<files, cursor, emitters, handed>>
  BY DEF Stat
<1>. DEFINE c == cursor[j[2]][j[1]]
<1>2. /\ j[1] \in Profiles /\ j[2] \in Sinks /\ c \in CursorType
      /\ live[j[1]] \in inodes /\ live[j[1]] # NoFile /\ inodes \subseteq Events
  BY DEF Stat, IsFirst, PassOK, InodesMade, TypeOK, Jobs
<1>3. /\ pc' = "open" /\ job' = j /\ fd' = fd /\ todo' = todo \ {j}
      /\ cur' = IF c.ino = live[j[1]] THEN c ELSE [ino |-> live[j[1]], pos |-> 0]
  BY DEF Stat
<1>4. cur' \in CursorType /\ cur'.ino = live[j[1]]
  BY <1>2, <1>3 DEF CursorType
<1>5. TypeOK'
  BY <1>1, <1>3, <1>4 DEF TypeOK, Stat, files, emitters
<1>6. Covered(j[2], live[j[1]], cur'.pos)
  <2>1. CASE c.ino = live[j[1]]
    BY <1>2, <1>3, <2>1 DEF CursorNeverAhead
  <2>2. CASE c.ino # live[j[1]]
    <3>1. cur'.pos = 0
      BY <1>3, <2>2
    <3>. QED
      BY <3>1 DEF Covered
  <2>. QED
    BY <2>1, <2>2
<1>7. Covered(j[2], live[j[1]], cur.pos)'
  <2>1. UNCHANGED <<disk, handed>> /\ live' = live
    BY <1>1 DEF files
  <2>. QED
    BY <1>6, <2>1 DEF Covered, Closed, Accepted
<1>8. PassOK'
  <2>1. live' = live /\ inodes' = inodes
    BY <1>1 DEF files
  <2>. QED
    BY <1>2, <1>3, <1>4, <1>7, <2>1 DEF PassOK
<1>. QED
  BY <1>1, <1>5, <1>8, QuietStep

LEMMA OpenStep ==
  ASSUME IInv, Open
  PROVE  IInv'
<1>. USE DEF IInv
<1>1. UNCHANGED <<files, cursor, emitters, handed, todo, job, cur>> /\ live' = live /\ inodes' = inodes
  BY DEF Open, files
<1>2. /\ job \in Jobs /\ job[1] \in Profiles /\ job[2] \in Sinks
      /\ live[job[1]] \in inodes /\ inodes \subseteq Events
      /\ cur.ino \in inodes /\ cur.pos \in Nat
  BY DEF Open, PassOK, InodesMade, TypeOK, Jobs, CursorType
<1>3. pc = "open" /\ pc' = "read" /\ fd' = live[job[1]]
  BY DEF Open
<1>4. TypeOK'
  BY <1>1, <1>2, <1>3 DEF TypeOK, Open, files, emitters
<1>5. PassOK'
  BY <1>1, <1>2, <1>3, QuietStep DEF PassOK
<1>. QED
  BY <1>1, <1>4, <1>5, QuietStep

LEMMA SaveStep ==
  ASSUME IInv, Save
  PROVE  IInv'
<1>. USE DEF IInv
<1>1. UNCHANGED <<files, emitters, handed, todo, crashes>> /\ live' = live /\ inodes' = inodes
  BY DEF Save, files
<1>2. /\ job \in Jobs /\ job[1] \in Profiles /\ job[2] \in Sinks
      /\ cur \in CursorType /\ cur.ino \in inodes /\ cur.pos \in Nat
  BY DEF Save, PassOK, TypeOK, Jobs, CursorType
<1>3. /\ pc' = "next" /\ job' = <<>> /\ cur' = NoCursor /\ fd' = NoFile
      /\ cursor' = [cursor EXCEPT ![job[2]][job[1]] = cur]
  BY DEF Save
<1>4. \A s \in Sinks, p \in Profiles :
        cursor'[s][p] = IF s = job[2] /\ p = job[1] THEN cur ELSE cursor[s][p]
  BY <1>2, <1>3 DEF TypeOK
<1>5. TypeOK'
  <2>1. cursor' \in [Sinks -> [Profiles -> CursorType]]
    BY <1>2, <1>3 DEF TypeOK
  <2>2. cur' \in CursorType
    BY <1>3 DEF CursorType, NoCursor
  <2>. QED
    BY <1>1, <1>3, <2>1, <2>2 DEF TypeOK, files, emitters
<1>6. InodesMade'
  BY <1>1, <1>2, <1>4 DEF InodesMade, files, emitters
<1>7. PassOK'
  BY <1>1, <1>3 DEF PassOK
<1>8. CursorNeverAhead'
  <2>. SUFFICES ASSUME NEW s \in Sinks, NEW p \in Profiles,
                       live[p] # NoFile, cursor'[s][p].ino = live[p]
                PROVE  Covered(s, live[p], cursor[s][p].pos)'
    BY <1>1 DEF CursorNeverAhead
  <2>1. Covered(s, live[p], cursor'[s][p].pos)
    <3>1. CASE s = job[2] /\ p = job[1]
      BY <1>4, <3>1 DEF PassOK, Save
    <3>2. CASE ~(s = job[2] /\ p = job[1])
      BY <1>4, <3>2 DEF CursorNeverAhead
    <3>. QED
      BY <3>1, <3>2
  <2>2. UNCHANGED <<disk, handed>>
    BY <1>1 DEF files
  <2>. QED
    BY <1>1, <2>1, <2>2 DEF Covered, Closed, Accepted
<1>. QED
  BY <1>5, <1>6, <1>7, <1>8

LEMMA ReadLineStep ==
  ASSUME IInv, ReadLine
  PROVE  IInv'
<1>. USE DEF IInv
<1>. DEFINE l == disk[fd][cur.pos + 1]
            s == job[2]
<1>1. /\ UNCHANGED <<pc, todo, job, fd, files, cursor, emitters, crashes>>
      /\ UNCHANGED <<live, disk, inodes>>
  BY DEF ReadLine, files
<1>2. /\ pc = "read" /\ job \in Jobs /\ s \in Sinks /\ live[job[1]] # NoFile
      /\ fd \in inodes /\ inodes \subseteq Events
      /\ cur.ino \in inodes /\ cur.pos \in Nat
  BY DEF ReadLine, LineAhead, PassOK, TypeOK, Jobs, CursorType
<1>3. disk[fd] \in Seq(Line) /\ Len(disk[fd]) \in Nat
  BY <1>2, LenProperties DEF TypeOK
<1>4. cur.pos + 1 \in 1..Len(disk[fd]) /\ Closed(l)
  BY <1>2, <1>3 DEF ReadLine, LineAhead
<1>5. l \in Line /\ l.ev \in Events
  <2>1. l \in Line
    BY <1>3, <1>4, ElementOfSeq
  <2>. QED
    BY <2>1 DEF Line
<1>6. handed' = IF Accepted(l)
                THEN [handed EXCEPT ![s][l.ev] = CountUp(@)]
                ELSE handed
  BY DEF ReadLine
<1>7. cur' = [cur EXCEPT !.pos = @ + 1] /\ cur' \in CursorType
      /\ cur'.ino = cur.ino /\ cur'.pos = cur.pos + 1
  <2>1. cur' = [cur EXCEPT !.pos = @ + 1] /\ cur \in CursorType
    BY DEF ReadLine, TypeOK
  <2>. QED
    BY <2>1 DEF CursorType
<1>. HIDE DEF l, s
<1>8. \A n \in 0..MaxHanded : CountUp(n) \in 1..MaxHanded
  BY ConstantsOK DEF CountUp
<1>9. /\ handed' \in [Sinks -> [Events -> 0..MaxHanded]]
      /\ \A t \in Sinks, e \in Events : handed[t][e] > 0 => handed'[t][e] > 0
      /\ Accepted(l) => handed'[s][l.ev] > 0
  <2>1. CASE Accepted(l)
    <3>1. handed[s] \in [Events -> 0..MaxHanded] /\ CountUp(handed[s][l.ev]) \in 1..MaxHanded
      BY <1>2, <1>5, <1>8 DEF TypeOK
    <3>2. handed' = [handed EXCEPT ![s][l.ev] = CountUp(handed[s][l.ev])]
      BY <1>6, <2>1
    <3>3. handed' \in [Sinks -> [Events -> 0..MaxHanded]]
      BY <1>2, <1>5, <3>1, <3>2 DEF TypeOK
    <3>4. \A t \in Sinks, e \in Events :
            handed'[t][e] = IF t = s /\ e = l.ev THEN CountUp(handed[s][l.ev]) ELSE handed[t][e]
      BY <1>2, <1>5, <3>1, <3>2 DEF TypeOK
    <3>. QED
      BY <1>2, <1>5, <3>1, <3>3, <3>4
  <2>2. CASE ~Accepted(l)
    BY <1>6, <2>2 DEF TypeOK
  <2>. QED
    BY <2>1, <2>2
<1>10. TypeOK'
  BY <1>1, <1>7, <1>9 DEF TypeOK, files, emitters
<1>11. InodesMade'
  BY <1>1 DEF InodesMade, files, emitters
<1>12. \A t \in Sinks, i \in inodes, k \in Nat : Covered(t, i, k) => Covered(t, i, k)'
  <2>1. \A i \in inodes : Len(disk[i]) \in Nat
    BY LenProperties DEF TypeOK
  <2>2. KeepsFiles(inodes)
    BY <1>1, <1>9, <2>1 DEF KeepsFiles
  <2>. QED
    BY <1>2, <1>10, <2>2, CoveredStable
<1>13. CursorNeverAhead'
  <2>1. \A t \in Sinks, p \in Profiles :
          cursor[t][p].ino \in inodes \union {NoFile} /\ cursor[t][p].pos \in Nat
    BY DEF InodesMade, TypeOK, CursorType
  <2>. QED
    BY <1>1, <1>12, <2>1 DEF CursorNeverAhead
<1>14. ASSUME cur.ino = live[job[1]]
       PROVE  fd = cur.ino /\ Covered(job[2], cur.ino, cur.pos)'
  <2>1. fd = cur.ino /\ Covered(s, fd, cur.pos)
    BY <1>2, <1>14 DEF PassOK, s
  <2>2. \A n \in 1..cur'.pos :
          /\ n <= Len(disk[fd])
          /\ Closed(disk[fd][n])
          /\ Accepted(disk[fd][n]) => handed'[s][disk[fd][n].ev] > 0
    <3>. SUFFICES ASSUME NEW n \in 1..(cur.pos + 1)
                  PROVE  /\ n <= Len(disk[fd])
                         /\ Closed(disk[fd][n])
                         /\ Accepted(disk[fd][n]) => handed'[s][disk[fd][n].ev] > 0
      BY <1>7
    <3>1. CASE n = cur.pos + 1
      BY <1>3, <1>4, <1>9, <3>1 DEF l
    <3>2. CASE n \in 1..cur.pos
      <4>1. /\ n <= Len(disk[fd])
            /\ Closed(disk[fd][n])
            /\ Accepted(disk[fd][n]) => handed[s][disk[fd][n].ev] > 0
        BY <2>1, <3>2 DEF Covered
      <4>2. disk[fd][n] \in Line
        BY <1>3, <3>2, <4>1, <1>2, ElementOfSeq
      <4>. QED
        BY <1>2, <1>9, <4>1, <4>2 DEF Line
    <3>. QED
      BY <1>2, <3>1, <3>2
  <2>. QED
    BY <1>1, <1>7, <2>1, <2>2 DEF s, Covered, Closed, Accepted
<1>15. PassOK'
  BY <1>1, <1>2, <1>7, <1>14 DEF PassOK
<1>. QED
  BY <1>10, <1>11, <1>13, <1>15

(* A write that raises, whether or not it took effect. *)
LEMMA LineHanded ==
  ASSUME IInv, LineAhead,
         handed' \in {handed,
                      [handed EXCEPT ![job[2]][disk[fd][cur.pos + 1].ev] = CountUp(@)]}
  PROVE  /\ job[2] \in Sinks /\ fd \in Events /\ cur.pos \in Nat
         /\ Len(disk[fd]) \in Nat /\ cur.pos + 1 \in 1..Len(disk[fd])
         /\ disk[fd][cur.pos + 1].ev \in Events
         /\ handed' \in [Sinks -> [Events -> 0..MaxHanded]]
         /\ \A s \in Sinks, e \in Events : handed[s][e] > 0 => handed'[s][e] > 0
<1>1. job[2] \in Sinks /\ fd \in Events /\ cur.pos \in Nat
  BY DEF IInv, LineAhead, PassOK, TypeOK, Jobs, CursorType
<1>2. disk[fd] \in Seq(Line) /\ Len(disk[fd]) \in Nat
  BY <1>1, LenProperties DEF IInv, TypeOK
<1>3. cur.pos + 1 \in 1..Len(disk[fd])
  BY <1>1, <1>2 DEF LineAhead
<1>. DEFINE l == disk[fd][cur.pos + 1]
<1>4. l.ev \in Events
  <2>1. l \in Line
    BY <1>2, <1>3, ElementOfSeq
  <2>. QED
    BY <2>1 DEF Line
<1>5. \A n \in 0..MaxHanded : CountUp(n) \in 1..MaxHanded
  BY ConstantsOK DEF CountUp
<1>6. handed \in [Sinks -> [Events -> 0..MaxHanded]]
  BY DEF IInv, TypeOK
<1>. PICK x : x = l.ev
  OBVIOUS
<1>8. handed' = handed \/ handed' = [handed EXCEPT ![job[2]][x] = CountUp(@)]
  OBVIOUS
<1>9. x \in Events
  BY <1>4
<1>. HIDE DEF l
<1>7. /\ handed' \in [Sinks -> [Events -> 0..MaxHanded]]
      /\ \A s \in Sinks, e \in Events : handed[s][e] > 0 => handed'[s][e] > 0
  <2>1. CASE handed' = handed
    BY <1>6, <2>1
  <2>2. CASE handed' = [handed EXCEPT ![job[2]][x] = CountUp(@)]
    <3>1. CountUp(handed[job[2]][x]) \in 1..MaxHanded /\ handed[job[2]] \in [Events -> 0..MaxHanded]
      BY <1>1, <1>9, <1>5, <1>6
    <3>2. handed' = [handed EXCEPT ![job[2]][x] = CountUp(handed[job[2]][x])]
      BY <2>2
    <3>3. handed' \in [Sinks -> [Events -> 0..MaxHanded]]
      BY <1>1, <1>9, <1>6, <3>1, <3>2
    <3>4. \A s \in Sinks, e \in Events :
            handed'[s][e] = IF s = job[2] /\ e = x THEN CountUp(handed[job[2]][x])
                                                     ELSE handed[s][e]
      BY <1>1, <1>9, <1>6, <3>2
    <3>. QED
      BY <3>1, <3>3, <3>4
  <2>. QED
    BY <1>8, <2>1, <2>2
<1>. QED
  BY <1>1, <1>2, <1>3, <1>4, <1>7 DEF l

LEMMA WriteRaisesStep ==
  ASSUME IInv, WriteRaises
  PROVE  IInv'
<1>. USE DEF IInv
<1>1. /\ UNCHANGED <<files, cursor, emitters>> /\ UNCHANGED <<live, disk, inodes>>
      /\ LineAhead /\ Down /\ crashes' = crashes + 1 /\ crashes < MaxCrashes
      /\ handed' \in {handed,
                      [handed EXCEPT ![job[2]][disk[fd][cur.pos + 1].ev] = CountUp(@)]}
  BY DEF WriteRaises, files
<1>2. /\ handed' \in [Sinks -> [Events -> 0..MaxHanded]]
      /\ \A s \in Sinks, e \in Events : handed[s][e] > 0 => handed'[s][e] > 0
  BY <1>1, LineHanded
<1>3. TypeOK'
  BY <1>1, <1>2, ConstantsOK DEF TypeOK, Down, CursorType, NoCursor, files, emitters
<1>4. InodesMade'
  BY <1>1 DEF InodesMade, files, emitters
<1>5. PassOK'
  BY <1>1 DEF PassOK, Down
<1>6. inodes \subseteq Events
  BY DEF TypeOK
<1>7. KeepsFiles(inodes)
  <2>1. \A i \in inodes : Len(disk[i]) \in Nat
    BY <1>6, LenProperties DEF TypeOK
  <2>. QED
    BY <1>1, <1>2, <2>1 DEF KeepsFiles
<1>8. \A s \in Sinks, i \in inodes, k \in Nat : Covered(s, i, k) => Covered(s, i, k)'
  BY <1>3, <1>6, <1>7, CoveredStable
<1>9. CursorNeverAhead'
  <2>1. \A t \in Sinks, p \in Profiles :
          cursor[t][p].ino \in inodes \union {NoFile} /\ cursor[t][p].pos \in Nat
    BY DEF InodesMade, TypeOK, CursorType
  <2>. QED
    BY <1>1, <1>8, <2>1 DEF CursorNeverAhead
<1>. QED
  BY <1>3, <1>4, <1>5, <1>9

-----------------------------------------------------------------------------
LEMMA NextIInv == IInv /\ [Next]_vars => IInv'
<1>. SUFFICES ASSUME IInv, [Next]_vars PROVE IInv'
  OBVIOUS
<1>1. ASSUME NEW e \in HookEvents, Hook(e) PROVE IInv'
  <2>1. CASE HookOpen(e)
    BY <2>1, HookOpenStep
  <2>2. CASE HookWrite(e)
    BY <2>2, HookAddStep DEF HookWrite, Chunks
  <2>3. CASE HookHead(e)
    BY <2>3, HookAddStep DEF HookHead, Chunks
  <2>4. CASE HookTail(e)
    BY <2>4, HookAddStep DEF HookTail, Chunks
  <2>5. CASE HookFail(e)
    BY <2>5, EmitterGivesUp DEF Events
  <2>. QED
    BY <1>1, <2>1, <2>2, <2>3, <2>4, <2>5 DEF Hook
<1>2. ASSUME NEW e \in TaskEvents, Task(e) PROVE IInv'
  <2>1. CASE TaskReplace(e)
    BY <2>1, TaskReplaceStep
  <2>2. CASE TaskRead(e) \/ TaskFail(e)
    BY <2>2, EmitterGivesUp DEF Events
  <2>. QED
    BY <1>2, <2>1, <2>2 DEF Task
<1>3. CASE Daemon
  BY <1>3, IdleStep, StatStep, OpenStep, ReadLineStep, SaveStep DEF Daemon
<1>4. CASE Crash
  BY <1>4, IdleStep
<1>5. CASE UNCHANGED vars
  <2>1. UNCHANGED <<files, cursor, emitters, daemon, handed, crashes>>
    BY <1>5 DEF vars
  <2>2. TypeOK'
    BY <2>1 DEF IInv, TypeOK, files, emitters, daemon
  <2>3. PassOK'
    <3>1. UNCHANGED <<live, disk, inodes, pc, todo, job, cur, fd, handed>>
      BY <2>1 DEF files, daemon
    <3>. QED
      BY <3>1 DEF IInv, PassOK, Covered, Closed, Accepted
  <2>. QED
    BY <2>1, <2>2, <2>3, QuietStep DEF IInv
<1>6. CASE WriteRaises
  BY <1>6, WriteRaisesStep
<1>. QED
  BY <1>1, <1>2, <1>3, <1>4, <1>5, <1>6 DEF Next

(* The inductive invariant holds in every reachable state. *)
LEMMA InvariantHolds == Spec => []IInv
BY InitIInv, NextIInv, PTL DEF Spec

(* For any numbers of profiles, sinks, events and kills: every variable    *)
(* keeps its type.                                                         *)
THEOREM TypeCorrect == Spec => []TypeOK
<1>1. IInv => TypeOK
  BY DEF IInv
<1>. QED
  BY <1>1, InvariantHolds, PTL

(* For any numbers of profiles, sinks, events and kills: a saved cursor    *)
(* the next tick will trust is never past a line its sink was not handed.  *)
THEOREM NeverAhead == Spec => []CursorNeverAhead
<1>1. IInv => CursorNeverAhead
  BY DEF IInv
<1>. QED
  BY <1>1, InvariantHolds, PTL

-----------------------------------------------------------------------------
(* A second invariant, about the contents of the files and the progress of *)
(* a pass, for the properties that relate a step to the lines it reads.    *)

(* The contents lines are copied from and to. *)
Copies == {disk[i] : i \in Events} \union {snap[e] : e \in Events}

(* Inodes, open files and lines stay with the profile they were made for,  *)
(* and an inode that was not created is empty.                             *)
Written ==
  /\ \A p \in Profiles : live[p] # NoFile => ProfileOf[live[p]] = p
  /\ \A e \in Events : efd[e] # NoFile => ProfileOf[efd[e]] = ProfileOf[e]
  /\ \A i \in Events \ inodes : disk[i] = <<>>
  /\ \A i \in Events : \A n \in 1..Len(disk[i]) : ProfileOf[disk[i][n].ev] = ProfileOf[i]
  /\ \A e \in Events : \A n \in 1..Len(snap[e]) : ProfileOf[snap[e][n].ev] = ProfileOf[e]

LinesEmitted ==
  \A c \in Copies : \A n \in 1..Len(c) : c[n].form = "whole" => em[c[n].ev] = "emitted"

(* The line of an event has the same number in every file that holds it. *)
OnePlace ==
  \A c, d \in Copies : \A n \in 1..Len(c), m \in 1..Len(d) :
    c[n].form = "whole" /\ d[m].form = "whole" /\ c[n].ev = d[m].ev => n = m

(* A pass never resumes behind the cursor saved for its inode, and the     *)
(* saved cursor is not about a newer inode than the pass.                  *)
PassForward ==
  /\ pc \in {"open", "read"} =>
       /\ cursor[job[2]][job[1]].ino = cur.ino => cursor[job[2]][job[1]].pos <= cur.pos
       /\ cursor[job[2]][job[1]].ino = live[job[1]] => cur.ino = live[job[1]]
  /\ pc = "read" => ProfileOf[fd] = job[1]

LInv == Written /\ LinesEmitted /\ OnePlace /\ PassForward

(* What Extend adds is one line, at the end and of its event; a head alone *)
(* does not make a whole line.                                             *)
LEMMA ExtendAdds ==
  ASSUME NEW c \in Seq(Line), NEW e \in Events, NEW chunk \in Chunks,
         NEW bad \in BadForms, NEW n \in 1..Len(Extend(c, e, chunk, bad))
  PROVE  \/ n \in 1..Len(c) /\ Extend(c, e, chunk, bad)[n] = c[n]
         \/ /\ n = Len(Extend(c, e, chunk, bad))
            /\ Extend(c, e, chunk, bad)[n].ev = e
            /\ chunk = "head" => Extend(c, e, chunk, bad)[n].form # "whole"
<1>1. bad # "whole"
  BY ConstantsOK
<1>2. CASE OpenTail(c)
  <2>. DEFINE l == [ev   |-> e,
                    form |-> IF chunk = "head" THEN "mess"
                             ELSE IF chunk = "tail" /\ c[Len(c)] = [ev |-> e, form |-> "half"]
                                  THEN "whole" ELSE bad]
  <2>1. Extend(c, e, chunk, bad) = [c EXCEPT ![Len(c)] = l]
    BY <1>2 DEF Extend
  <2>2. l.ev = e /\ (chunk = "head" => l.form # "whole") /\ l \in Line
    BY <1>1, ConstantsOK DEF Line, Forms
  <2>3. Len(c) \in 1..Len(c)
    BY <1>2, EmptySeq DEF OpenTail
  <2>. HIDE DEF l
  <2>4. Len([c EXCEPT ![Len(c)] = l]) = Len(c)
    BY <2>2, <2>3, ExceptSeq
  <2>5. \A m \in 1..Len(c) : [c EXCEPT ![Len(c)] = l][m] = IF m = Len(c) THEN l ELSE c[m]
    BY <2>2, <2>3, ExceptSeq
  <2>. QED
    BY <2>1, <2>2, <2>3, <2>4, <2>5
<1>3. CASE ~OpenTail(c)
  <2>. DEFINE l == [ev   |-> e,
                    form |-> IF chunk = "whole" THEN "whole"
                             ELSE IF chunk = "head" THEN "half" ELSE bad]
  <2>1. Extend(c, e, chunk, bad) = Append(c, l)
    BY <1>3 DEF Extend
  <2>2. l.ev = e /\ (chunk = "head" => l.form # "whole") /\ l \in Line
    BY <1>1, ConstantsOK DEF Line, Forms
  <2>. HIDE DEF l
  <2>. QED
    BY <2>1, <2>2, AppendProperties
<1>. QED
  BY <1>2, <1>3

(* A step that only copies contents, or empties them. *)
LEMMA CopiesKept ==
  ASSUME LinesEmitted, OnePlace,
         \A c \in Copies' : c \in Copies \/ c = <<>>,
         \A c \in Copies : \A n \in 1..Len(c) : c[n].ev \in Events,
         \A x \in Events : em[x] = "emitted" => em'[x] = "emitted"
  PROVE  LinesEmitted' /\ OnePlace'
<1>1. \A n \in 1..Len(<<>>) : FALSE
  OBVIOUS
<1>. QED
  BY <1>1 DEF LinesEmitted, OnePlace

(* A step that makes one new content by adding to one that is there. *)
LEMMA CopiesExtended ==
  ASSUME LinesEmitted, OnePlace,
         NEW b \in Copies, b \in Seq(Line), NEW e \in Events,
         NEW chunk \in Chunks, NEW bad \in BadForms,
         \A c \in Copies' : c \in Copies \/ c = <<>> \/ c = Extend(b, e, chunk, bad),
         \A c \in Copies : \A n \in 1..Len(c) : c[n].ev \in Events,
         \A x \in Events : em[x] = "emitted" => em'[x] = "emitted",
         em[e] # "emitted",
         chunk # "head" => em'[e] = "emitted"
  PROVE  LinesEmitted' /\ OnePlace'
<1>. DEFINE new == Extend(b, e, chunk, bad)
<1>1. \A n \in 1..Len(<<>>) : FALSE
  OBVIOUS
<1>2. \A n \in 1..Len(new) :
        \/ n \in 1..Len(b) /\ new[n] = b[n]
        \/ n = Len(new) /\ new[n].ev = e /\ (chunk = "head" => new[n].form # "whole")
  BY ExtendAdds
<1>. HIDE DEF new
<1>3. ASSUME NEW c \in Copies', NEW n \in 1..Len(c), c[n].form = "whole"
      PROVE  \/ /\ em[c[n].ev] = "emitted" /\ c[n].ev \in Events
                /\ \E d \in Copies : n \in 1..Len(d) /\ d[n] = c[n]
             \/ c[n].ev = e /\ n = Len(new) /\ chunk # "head"
  <2>1. CASE c \in Copies
    BY <1>3, <2>1 DEF LinesEmitted
  <2>2. CASE c = <<>>
    BY <1>1, <1>3, <2>2
  <2>3. CASE c = new
    BY <1>2, <1>3, <2>3 DEF LinesEmitted
  <2>. QED
    BY <2>1, <2>2, <2>3 DEF new
<1>4. LinesEmitted'
  BY <1>3 DEF LinesEmitted
<1>5. OnePlace'
  <2>. SUFFICES ASSUME NEW c \in Copies', NEW d \in Copies',
                       NEW n \in 1..Len(c), NEW m \in 1..Len(d),
                       c[n].form = "whole", d[m].form = "whole", c[n].ev = d[m].ev
                PROVE  n = m
    BY DEF OnePlace
  <2>1. CASE c[n].ev = e
    BY <1>3, <2>1
  <2>2. CASE c[n].ev # e
    <3>1. PICK x \in Copies : n \in 1..Len(x) /\ x[n] = c[n]
      BY <1>3, <2>2
    <3>2. PICK y \in Copies : m \in 1..Len(y) /\ y[m] = d[m]
      BY <1>3, <2>2
    <3>. QED
      BY <3>1, <3>2 DEF OnePlace
  <2>. QED
    BY <2>1, <2>2
<1>. QED
  BY <1>4, <1>5

LEMMA CopyTypes ==
  ASSUME TypeOK
  PROVE  \A c \in Copies : c \in Seq(Line) /\ \A n \in 1..Len(c) : c[n].ev \in Events
<1>. SUFFICES ASSUME NEW c \in Copies, NEW n \in 1..Len(c)
              PROVE  c \in Seq(Line) /\ c[n].ev \in Events
  BY DEF Copies, TypeOK
<1>1. c \in Seq(Line)
  BY DEF Copies, TypeOK
<1>2. c[n] \in Line
  BY <1>1, ElementOfSeq
<1>. QED
  BY <1>1, <1>2 DEF Line

LEMMA InitLInv == Init => LInv
<1>. SUFFICES ASSUME Init PROVE LInv
  OBVIOUS
<1>1. \A n \in 1..Len(<<>>) : FALSE
  OBVIOUS
<1>2. \A c \in Copies : c = <<>>
  BY DEF Init, Copies
<1>3. Written
  BY <1>1 DEF Init, Written
<1>4. LinesEmitted /\ OnePlace
  BY <1>1, <1>2 DEF LinesEmitted, OnePlace
<1>5. PassForward
  BY DEF Init, PassForward
<1>. QED
  BY <1>3, <1>4, <1>5 DEF LInv

(* The emitters do not touch a pass, and give a path a fresh inode or none. *)
LEMMA EmitterForward ==
  ASSUME IInv, PassForward, UNCHANGED <<cursor, daemon>>,
         \A p \in Profiles : live'[p] = live[p] \/ live'[p] \in Events \ inodes
  PROVE  PassForward'
<1>1. UNCHANGED <<cursor, pc, job, cur, fd>>
  BY DEF daemon
<1>2. NoFile \notin Events
  BY ConstantsOK
<1>3. ASSUME pc \in {"open", "read"}
      PROVE  /\ job[1] \in Profiles
             /\ cursor[job[2]][job[1]].ino \in inodes \union {NoFile}
  BY <1>3 DEF IInv, PassOK, InodesMade, Jobs
<1>. QED
  BY <1>1, <1>2, <1>3 DEF PassForward

LEMMA HookOpenLines ==
  ASSUME IInv, LInv, NEW e \in HookEvents, HookOpen(e)
  PROVE  LInv'
<1>. USE DEF LInv
<1>1. /\ e \in Events /\ e \notin inodes /\ ProfileOf[e] \in Profiles /\ TypeOK
      /\ e # NoFile
  BY ConstantsOK DEF IInv, HookOpen, InodesMade, Events
<1>2. /\ UNCHANGED <<disk, snap, cursor, daemon>>
      /\ em[e] = "idle" /\ em' = [em EXCEPT ![e] = "opened"]
      /\ \/ /\ live' = [live EXCEPT ![ProfileOf[e]] = e]
            /\ inodes' = inodes \union {e} /\ efd' = [efd EXCEPT ![e] = e]
         \/ /\ live' = live /\ inodes' = inodes
            /\ live[ProfileOf[e]] # NoFile
            /\ efd' = [efd EXCEPT ![e] = live[ProfileOf[e]]]
  BY DEF HookOpen
<1>3. /\ live \in [Profiles -> Events \union {NoFile}]
      /\ efd \in [Events -> Events \union {NoFile}]
      /\ em \in [Events -> {"idle", "opened", "half", "read", "emitted", "lost"}]
  BY <1>1 DEF TypeOK
<1>4. Written'
  <2>1. (\A p \in Profiles : live[p] # NoFile => ProfileOf[live[p]] = p)'
    BY <1>1, <1>2, <1>3 DEF Written
  <2>2. (\A x \in Events : efd[x] # NoFile => ProfileOf[efd[x]] = ProfileOf[x])'
    BY <1>1, <1>2, <1>3 DEF Written
  <2>3. (\A i \in Events \ inodes : disk[i] = <<>>)'
    BY <1>1, <1>2 DEF Written
  <2>. QED
    BY <1>2, <2>1, <2>2, <2>3 DEF Written
<1>5. LinesEmitted' /\ OnePlace'
  <2>1. \A c \in Copies' : c \in Copies
    BY <1>2 DEF Copies
  <2>2. \A x \in Events : em[x] = "emitted" => em'[x] = "emitted"
    BY <1>2, <1>3
  <2>. QED
    BY <1>1, <2>1, <2>2, CopyTypes, CopiesKept
<1>6. \A p \in Profiles : live'[p] = live[p] \/ live'[p] \in Events \ inodes
  BY <1>1, <1>2, <1>3
<1>. QED
  BY <1>2, <1>4, <1>5, <1>6, EmitterForward

LEMMA HookAddLines ==
  ASSUME IInv, LInv, NEW e \in HookEvents,
         NEW from \in {"opened", "half"}, NEW to \in {"half", "emitted"},
         NEW chunk \in Chunks, HookAdd(e, from, to, chunk),
         chunk = "head" <=> to = "half"
  PROVE  LInv'
<1>. USE DEF LInv
<1>0. /\ e \in Events /\ efd[e] \in inodes /\ inodes \subseteq Events /\ NoFile \notin Events
      /\ TypeOK
  BY ConstantsOK DEF IInv, HookAdd, InodesMade, Events, TypeOK
<1>1. /\ UNCHANGED <<live, inodes, snap, cursor, daemon>>
      /\ em[e] = from /\ em' = [em EXCEPT ![e] = to]
      /\ efd' \in {efd, [efd EXCEPT ![e] = NoFile]}
  BY DEF HookAdd
<1>2. PICK bad \in BadForms : disk' = [disk EXCEPT ![efd[e]] = Extend(@, e, chunk, bad)]
  BY DEF HookAdd
<1>. DEFINE old == disk[efd[e]]
            new == Extend(old, e, chunk, bad)
<1>3. old \in Copies /\ old \in Seq(Line)
  BY <1>0 DEF Copies, TypeOK
<1>4. /\ disk'[efd[e]] = new
      /\ \A i \in Events \ {efd[e]} : disk'[i] = disk[i]
  BY <1>0, <1>2 DEF TypeOK
<1>5. LinesEmitted' /\ OnePlace'
  <2>1. \A c \in Copies' : c \in Copies \/ c = new
    BY <1>1, <1>4 DEF Copies
  <2>2. /\ \A x \in Events : em[x] = "emitted" => em'[x] = "emitted"
        /\ em[e] # "emitted" /\ em'[e] = to
    BY <1>0, <1>1 DEF TypeOK
  <2>3. chunk # "head" => to = "emitted"
    OBVIOUS
  <2>. QED
    BY <1>0, <1>3, <2>1, <2>2, <2>3, CopyTypes, CopiesExtended
<1>6. \A n \in 1..Len(new) : new[n].ev = e \/ (n \in 1..Len(old) /\ new[n] = old[n])
  BY <1>0, <1>3, ExtendAdds
<1>7. Written'
  <2>. HIDE DEF new, old
  <2>1. (\A x \in Events : efd[x] # NoFile => ProfileOf[efd[x]] = ProfileOf[x])'
    BY <1>0, <1>1 DEF Written, TypeOK
  <2>2. (\A i \in Events \ inodes : disk[i] = <<>>)'
    BY <1>0, <1>1, <1>4 DEF Written
  <2>3. ProfileOf[efd[e]] = ProfileOf[e]
    BY <1>0 DEF Written
  <2>4. \A n \in 1..Len(old) : ProfileOf[old[n].ev] = ProfileOf[efd[e]]
    BY <1>0 DEF Written, old
  <2>5. (\A i \in Events : \A n \in 1..Len(disk[i]) : ProfileOf[disk[i][n].ev] = ProfileOf[i])'
    <3>. SUFFICES ASSUME NEW i \in Events, NEW n \in 1..Len(disk'[i])
                  PROVE  ProfileOf[disk'[i][n].ev] = ProfileOf[i]
      OBVIOUS
    <3>1. CASE i = efd[e]
      BY <1>4, <1>6, <2>3, <2>4, <3>1
    <3>2. CASE i # efd[e]
      BY <1>4, <3>2 DEF Written
    <3>. QED
      BY <3>1, <3>2
  <2>. QED
    BY <1>1, <2>1, <2>2, <2>5 DEF Written
<1>. QED
  BY <1>1, <1>5, <1>7, EmitterForward

LEMMA TaskReplaceLines ==
  ASSUME IInv, LInv, NEW e \in TaskEvents, TaskReplace(e)
  PROVE  LInv'
<1>. USE DEF LInv
<1>0. /\ e \in Events /\ e \notin inodes /\ ProfileOf[e] \in Profiles /\ inodes \subseteq Events
      /\ e # NoFile /\ TypeOK
  BY ConstantsOK DEF IInv, TaskReplace, InodesMade, Events, TypeOK
<1>1. /\ UNCHANGED <<efd, cursor, daemon>>
      /\ em[e] = "read" /\ em' = [em EXCEPT ![e] = "emitted"]
      /\ snap' = [snap EXCEPT ![e] = <<>>]
      /\ live' = [live EXCEPT ![ProfileOf[e]] = e]
      /\ inodes' = inodes \union {e}
  BY DEF TaskReplace
<1>2. PICK bad \in BadForms : disk' = [disk EXCEPT ![e] = Extend(snap[e], e, "whole", bad)]
  BY DEF TaskReplace
<1>. DEFINE new == Extend(snap[e], e, "whole", bad)
<1>3. snap[e] \in Copies /\ snap[e] \in Seq(Line)
  BY <1>0 DEF Copies, TypeOK
<1>4. /\ disk'[e] = new
      /\ \A i \in Events \ {e} : disk'[i] = disk[i]
      /\ \A i \in Events : snap'[i] = IF i = e THEN <<>> ELSE snap[i]
  BY <1>0, <1>1, <1>2 DEF TypeOK
<1>5. LinesEmitted' /\ OnePlace'
  <2>1. \A c \in Copies' : c \in Copies \/ c = <<>> \/ c = new
    BY <1>4 DEF Copies
  <2>2. /\ \A x \in Events : em[x] = "emitted" => em'[x] = "emitted"
        /\ em[e] # "emitted" /\ em'[e] = "emitted"
    BY <1>0, <1>1 DEF TypeOK
  <2>3. "whole" \in Chunks
    BY DEF Chunks
  <2>. QED
    BY <1>0, <1>3, <2>1, <2>2, <2>3, CopyTypes, CopiesExtended
<1>6. \A n \in 1..Len(new) : new[n].ev = e \/ (n \in 1..Len(snap[e]) /\ new[n] = snap[e][n])
  BY <1>0, <1>3, ExtendAdds DEF Chunks
<1>7. Written'
  <2>. HIDE DEF new
  <2>1. (\A p \in Profiles : live[p] # NoFile => ProfileOf[live[p]] = p)'
    BY <1>0, <1>1 DEF Written, TypeOK
  <2>2. (\A i \in Events \ inodes : disk[i] = <<>>)'
    BY <1>0, <1>1, <1>4 DEF Written
  <2>3. (\A i \in Events : \A n \in 1..Len(disk[i]) : ProfileOf[disk[i][n].ev] = ProfileOf[i])'
    <3>. SUFFICES ASSUME NEW i \in Events, NEW n \in 1..Len(disk'[i])
                  PROVE  ProfileOf[disk'[i][n].ev] = ProfileOf[i]
      OBVIOUS
    <3>1. CASE i = e
      BY <1>4, <1>6, <3>1 DEF Written
    <3>2. CASE i # e
      BY <1>4, <3>2 DEF Written
    <3>. QED
      BY <3>1, <3>2
  <2>4. (\A i \in Events : \A n \in 1..Len(snap[i]) : ProfileOf[snap[i][n].ev] = ProfileOf[i])'
    <3>1. \A n \in 1..Len(<<>>) : FALSE
      OBVIOUS
    <3>. QED
      BY <1>4, <3>1 DEF Written
  <2>. QED
    BY <1>1, <2>1, <2>2, <2>3, <2>4 DEF Written
<1>8. \A p \in Profiles : live'[p] = live[p] \/ live'[p] \in Events \ inodes
  BY <1>0, <1>1 DEF TypeOK
<1>. QED
  BY <1>1, <1>5, <1>7, <1>8, EmitterForward

LEMMA GiveUpLines ==
  ASSUME IInv, LInv, NEW e \in Events,
         \/ e \in HookEvents /\ HookFail(e)
         \/ e \in TaskEvents /\ (TaskRead(e) \/ TaskFail(e))
  PROVE  LInv'
<1>. USE DEF LInv
<1>0. TypeOK /\ ProfileOf[e] \in Profiles
  BY ConstantsOK DEF IInv
<1>1. UNCHANGED <<live, disk, inodes, cursor, daemon>>
  BY DEF HookFail, TaskRead, TaskFail, files
<1>2. /\ efd' \in {efd, [efd EXCEPT ![e] = NoFile]}
      /\ snap' \in {snap, [snap EXCEPT ![e] = <<>>], [snap EXCEPT ![e] = Content(ProfileOf[e])]}
      /\ em[e] # "emitted"
      /\ em' \in {[em EXCEPT ![e] = "lost"], [em EXCEPT ![e] = "read"]}
  BY DEF HookFail, TaskRead, TaskFail
<1>3. \/ Content(ProfileOf[e]) = <<>>
      \/ /\ live[ProfileOf[e]] \in Events /\ ProfileOf[live[ProfileOf[e]]] = ProfileOf[e]
         /\ Content(ProfileOf[e]) = disk[live[ProfileOf[e]]]
  BY <1>0 DEF Content, TypeOK, Written
<1>4. \A i \in Events : \/ snap'[i] = snap[i]
                        \/ snap'[i] = <<>>
                        \/ i = e /\ snap'[i] = Content(ProfileOf[e])
  BY <1>0, <1>2 DEF TypeOK
<1>5. LinesEmitted' /\ OnePlace'
  <2>1. \A c \in Copies' : c \in Copies \/ c = <<>>
    BY <1>1, <1>3, <1>4 DEF Copies
  <2>2. \A x \in Events : em[x] = "emitted" => em'[x] = "emitted"
    BY <1>0, <1>2 DEF TypeOK
  <2>. QED
    BY <1>0, <2>1, <2>2, CopyTypes, CopiesKept
<1>6. Written'
  <2>1. (\A x \in Events : efd[x] # NoFile => ProfileOf[efd[x]] = ProfileOf[x])'
    BY <1>0, <1>2 DEF Written, TypeOK
  <2>2. (\A i \in Events : \A n \in 1..Len(snap[i]) : ProfileOf[snap[i][n].ev] = ProfileOf[i])'
    <3>. SUFFICES ASSUME NEW i \in Events, NEW n \in 1..Len(snap'[i])
                  PROVE  ProfileOf[snap'[i][n].ev] = ProfileOf[i]
      OBVIOUS
    <3>1. \A m \in 1..Len(<<>>) : FALSE
      OBVIOUS
    <3>2. CASE snap'[i] = snap[i]
      BY <3>2 DEF Written
    <3>3. CASE i = e /\ snap'[i] = Content(ProfileOf[e])
      BY <1>3, <3>1, <3>3 DEF Written
    <3>. QED
      BY <1>4, <3>1, <3>2, <3>3
  <2>. QED
    BY <1>1, <2>1, <2>2 DEF Written
<1>. QED
  BY <1>1, <1>5, <1>6, EmitterForward

LEMMA DaemonLines ==
  ASSUME IInv, LInv, Daemon \/ WriteRaises \/ Crash \/ UNCHANGED vars
  PROVE  LInv'
<1>. USE DEF LInv
<1>0. TypeOK
  BY DEF IInv
<1>1. UNCHANGED <<live, disk, inodes, em, efd, snap>>
  BY DEF Daemon, Tick, Stat, Open, ReadLine, Save, FatalLine, Restart, WriteRaises, Crash,
         files, emitters, vars
<1>2. Written'
  BY <1>1 DEF Written
<1>3. LinesEmitted' /\ OnePlace'
  BY <1>1 DEF LinesEmitted, OnePlace, Copies
<1>4. PassForward'
  <2>1. ASSUME NEW j \in Jobs, Stat(j) PROVE PassForward'
    <3>. DEFINE c == cursor[j[2]][j[1]]
    <3>1. /\ j[1] \in Profiles /\ j[2] \in Sinks /\ c \in CursorType /\ live[j[1]] # NoFile
      BY <2>1 DEF IInv, Stat, IsFirst, PassOK, TypeOK, Jobs
    <3>2. /\ pc' = "open" /\ job' = j /\ cursor' = cursor
          /\ cur' = IF c.ino = live[j[1]] THEN c ELSE [ino |-> live[j[1]], pos |-> 0]
      BY <2>1 DEF Stat
    <3>3. c.pos \in Nat
      BY <3>1 DEF CursorType
    <3>4. cur'.ino = live[j[1]] /\ (c.ino = live[j[1]] => cur' = c)
      BY <3>2
    <3>. HIDE DEF c
    <3>5. (cursor[job[2]][job[1]])' = c
      BY <3>2 DEF c
    <3>6. /\ c.ino = cur'.ino => c.pos <= cur'.pos
          /\ c.ino = live'[j[1]] => cur'.ino = live'[j[1]]
      BY <1>1, <3>3, <3>4
    <3>. QED
      BY <3>2, <3>5, <3>6 DEF PassForward
  <2>2. CASE Open
    <3>1. /\ pc = "open" /\ pc' = "read" /\ fd' = live[job[1]] /\ UNCHANGED <<cursor, job, cur>>
      BY <2>2 DEF Open
    <3>2. job[1] \in Profiles /\ live[job[1]] # NoFile
      BY <3>1 DEF IInv, PassOK, Jobs
    <3>3. ProfileOf[live[job[1]]] = job[1]
      BY <3>2 DEF Written
    <3>. QED
      BY <1>1, <3>1, <3>3 DEF PassForward
  <2>3. CASE ReadLine
    <3>1. /\ pc = "read" /\ UNCHANGED <<pc, job, fd, cursor>> /\ cur' = [cur EXCEPT !.pos = @ + 1]
      BY <2>3 DEF ReadLine, LineAhead
    <3>2. job[1] \in Profiles /\ job[2] \in Sinks /\ cur \in CursorType
      BY <1>0, <3>1 DEF IInv, PassOK, Jobs, TypeOK
    <3>3. cursor[job[2]][job[1]].pos \in Nat
      BY <1>0, <3>2 DEF TypeOK, CursorType
    <3>4. cur'.ino = cur.ino /\ cur'.pos = cur.pos + 1 /\ cur.pos \in Nat
      BY <3>1, <3>2 DEF CursorType
    <3>. QED
      BY <1>1, <3>1, <3>3, <3>4 DEF PassForward
  <2>4. CASE Tick \/ Save \/ FatalLine \/ WriteRaises \/ Crash \/ Restart
    BY <2>4 DEF PassForward, Tick, Save, FatalLine, WriteRaises, Crash, Restart, Down
  <2>5. CASE UNCHANGED vars
    BY <1>1, <2>5 DEF PassForward, vars, daemon
  <2>. QED
    BY <2>1, <2>2, <2>3, <2>4, <2>5 DEF Daemon
<1>. QED
  BY <1>2, <1>3, <1>4

LEMMA NextLInv == IInv /\ LInv /\ [Next]_vars => LInv'
<1>. SUFFICES ASSUME IInv, LInv, [Next]_vars PROVE LInv'
  OBVIOUS
<1>1. ASSUME NEW e \in HookEvents, Hook(e) PROVE LInv'
  <2>1. CASE HookOpen(e)
    BY <2>1, HookOpenLines
  <2>2. CASE HookWrite(e)
    BY <2>2, HookAddLines DEF HookWrite, Chunks
  <2>3. CASE HookHead(e)
    BY <2>3, HookAddLines DEF HookHead, Chunks
  <2>4. CASE HookTail(e)
    BY <2>4, HookAddLines DEF HookTail, Chunks
  <2>5. CASE HookFail(e)
    BY <2>5, GiveUpLines DEF Events
  <2>. QED
    BY <1>1, <2>1, <2>2, <2>3, <2>4, <2>5 DEF Hook
<1>2. ASSUME NEW e \in TaskEvents, Task(e) PROVE LInv'
  <2>1. CASE TaskReplace(e)
    BY <2>1, TaskReplaceLines
  <2>2. CASE TaskRead(e) \/ TaskFail(e)
    BY <2>2, GiveUpLines DEF Events
  <2>. QED
    BY <1>2, <2>1, <2>2 DEF Task
<1>. QED
  BY <1>1, <1>2, DaemonLines DEF Next

LEMMA LinesHold == Spec => []LInv
BY InitLInv, NextLInv, InvariantHolds, PTL DEF Spec

(* For any numbers of profiles, sinks, events and kills: no step moves the *)
(* saved position in one file back.                                        *)
THEOREM NeverBack == Spec => CursorNeverBack
<1>1. IInv /\ LInv /\ [Next]_vars
        => [\A s \in Sinks, p \in Profiles :
              cursor'[s][p].ino = cursor[s][p].ino
                => cursor'[s][p].pos >= cursor[s][p].pos]_vars
  <2>. SUFFICES ASSUME IInv, LInv, [Next]_vars, NEW s \in Sinks, NEW p \in Profiles,
                       cursor'[s][p].ino = cursor[s][p].ino
                PROVE  cursor'[s][p].pos >= cursor[s][p].pos
    OBVIOUS
  <2>1. cursor[s][p].pos \in Nat /\ cursor \in [Sinks -> [Profiles -> CursorType]]
    BY DEF IInv, TypeOK, CursorType
  <2>2. CASE Save
    <3>1. /\ pc = "read" /\ cursor' = [cursor EXCEPT ![job[2]][job[1]] = cur]
      BY <2>2 DEF Save
    <3>2. cursor'[s][p] = IF s = job[2] /\ p = job[1] THEN cur ELSE cursor[s][p]
      BY <2>1, <3>1
    <3>. QED
      BY <2>1, <3>1, <3>2 DEF LInv, PassForward
  <2>3. CASE ~Save
    <3>1. cursor' = cursor
      BY <2>3 DEF Next, Hook, HookOpen, HookWrite, HookHead, HookTail, HookAdd, HookFail,
                  Task, TaskRead, TaskReplace, TaskFail, Daemon, Tick, Stat, Open, ReadLine,
                  FatalLine, Restart, WriteRaises, Crash, vars
    <3>. QED
      BY <2>1, <3>1
  <2>. QED
    BY <2>2, <2>3
<1>. QED
  BY <1>1, InvariantHolds, LinesHold, PTL DEF Spec, CursorNeverBack

-----------------------------------------------------------------------------
(* Redelivery.  The deliveries of an event to a sink are paid for: one by  *)
(* each inode of the profile and one by each kill.  What a sink may still  *)
(* be handed of an event is owed: once if the path names an inode that no  *)
(* pass has begun with, and once if the event is ahead of where the pass   *)
(* stands, or where the next one resumes.  Owed and delivered together     *)
(* stay within what was paid.                                              *)

(* The line of e, if there is one, is behind the first k lines. *)
Ahead(e, k) ==
  \A i \in Events : \A n \in 1..Len(disk[i]) :
    disk[i][n].form = "whole" /\ disk[i][n].ev = e => n > k

Passing(s, p) == pc \in {"open", "read"} /\ job = <<p, s>>

Resume(s, p) == IF Passing(s, p) THEN cur ELSE cursor[s][p]

Afresh(s, p) == live[p] # NoFile /\ Resume(s, p).ino # live[p]

Unread(s, e) ==
  LET p == ProfileOf[e] IN
  /\ Passing(s, p) \/ (live[p] # NoFile /\ Resume(s, p).ino = live[p])
  /\ Ahead(e, Resume(s, p).pos)

Owed(s, e) ==
  (IF Afresh(s, ProfileOf[e]) THEN 1 ELSE 0) + (IF Unread(s, e) THEN 1 ELSE 0)

InodesOf(p) == {i \in inodes : ProfileOf[i] = p}

Budget ==
  /\ IsFiniteSet(inodes)
  /\ AllReadable =>
       \A s \in Sinks, e \in Events :
         handed[s][e] + Owed(s, e) <= crashes + Cardinality(InodesOf(ProfileOf[e]))

(* No step shortens a file or changes a complete line of it. *)
LEMMA FilesKept ==
  ASSUME IInv, LInv, [Next]_vars, NEW i \in Events, NEW n \in 1..Len(disk[i]), Closed(disk[i][n])
  PROVE  n \in 1..Len(disk'[i]) /\ disk'[i][n] = disk[i][n]
<1>0. TypeOK /\ TypeOK' /\ disk[i] \in Seq(Line) /\ disk'[i] \in Seq(Line)
  BY NextIInv DEF IInv, TypeOK
<1>1. n \in Nat /\ Len(disk[i]) \in Nat /\ Len(disk'[i]) \in Nat
  BY <1>0, LenProperties
<1>2. CASE disk' = disk
  BY <1>1, <1>2
<1>3. ASSUME NEW e \in HookEvents,
             NEW from \in {"opened", "half"}, NEW to \in {"half", "emitted"},
             NEW chunk \in Chunks, HookAdd(e, from, to, chunk)
      PROVE  n \in 1..Len(disk'[i]) /\ disk'[i][n] = disk[i][n]
  <2>1. PICK bad \in BadForms : disk' = [disk EXCEPT ![efd[e]] = Extend(@, e, chunk, bad)]
    BY <1>3 DEF HookAdd
  <2>2. disk'[i] = disk[i] \/ disk'[i] = Extend(disk[i], e, chunk, bad)
    BY <1>0, <2>1 DEF TypeOK
  <2>3. e \in Events
    BY DEF Events
  <2>4. \A m \in 1..Len(disk[i]) : Closed(disk[i][m]) => Extend(disk[i], e, chunk, bad)[m] = disk[i][m]
    BY <1>0, <2>3, ExtendKeeps
  <2>5. Len(Extend(disk[i], e, chunk, bad)) >= Len(disk[i])
    BY <1>0, <2>3, ExtendKeeps
  <2>. QED
    BY <1>1, <2>2, <2>4, <2>5
<1>4. ASSUME NEW e \in TaskEvents, TaskReplace(e)
      PROVE  n \in 1..Len(disk'[i]) /\ disk'[i][n] = disk[i][n]
  <2>1. e \in Events \ inodes
    BY <1>4 DEF TaskReplace, IInv, InodesMade, Events
  <2>2. disk[e] = <<>>
    BY <2>1 DEF LInv, Written
  <2>3. i # e
    BY <2>2
  <2>4. disk'[i] = disk[i]
    BY <1>0, <1>4, <2>3 DEF TaskReplace, TypeOK
  <2>. QED
    BY <1>1, <2>4
<1>5. CASE disk' # disk
  <2>1. \/ \E e \in HookEvents : HookWrite(e) \/ HookHead(e) \/ HookTail(e)
        \/ \E e \in TaskEvents : TaskReplace(e)
    BY <1>5 DEF Next, Hook, HookOpen, HookFail, Task, TaskRead, TaskFail, Daemon, Tick, Stat,
                Open, ReadLine, Save, FatalLine, Restart, WriteRaises, Crash, vars, files
  <2>. QED
    BY <1>3, <1>4, <2>1 DEF HookWrite, HookHead, HookTail, Chunks
<1>. QED
  BY <1>2, <1>5

LEMMA AheadBefore ==
  ASSUME IInv, LInv, [Next]_vars, NEW e \in Events, NEW k \in Nat, Ahead(e, k)'
  PROVE  Ahead(e, k)
<1>. SUFFICES ASSUME NEW i \in Events, NEW n \in 1..Len(disk[i]),
                     disk[i][n].form = "whole", disk[i][n].ev = e
              PROVE  n > k
  BY DEF Ahead
<1>1. n \in 1..Len(disk'[i]) /\ disk'[i][n] = disk[i][n]
  BY FilesKept DEF Closed
<1>. QED
  BY <1>1 DEF Ahead

LEMMA ReadableBefore ==
  ASSUME IInv, LInv, [Next]_vars, AllReadable'
  PROVE  AllReadable
<1>. SUFFICES ASSUME NEW i \in Events, NEW n \in 1..Len(disk[i]), NEW s \in Sinks,
                     Fatal(s, disk[i][n])
              PROVE  FALSE
  BY DEF AllReadable
<1>1. n \in 1..Len(disk'[i]) /\ disk'[i][n] = disk[i][n]
  BY FilesKept DEF Closed, Fatal, Accepted
<1>. QED
  BY <1>1 DEF AllReadable, Fatal, Accepted

LEMMA OwedFacts ==
  ASSUME IInv, IsFiniteSet(inodes), NEW s \in Sinks, NEW e \in Events
  PROVE  /\ ProfileOf[e] \in Profiles
         /\ Resume(s, ProfileOf[e]) \in CursorType
         /\ Owed(s, e) \in 0..2
         /\ handed[s][e] \in Nat /\ crashes \in Nat
         /\ IsFiniteSet(InodesOf(ProfileOf[e]))
         /\ Cardinality(InodesOf(ProfileOf[e])) \in Nat
<1>1. ProfileOf[e] \in Profiles
  BY ConstantsOK
<1>2. Resume(s, ProfileOf[e]) \in CursorType
  BY <1>1 DEF IInv, TypeOK, Resume
<1>3. handed[s][e] \in Nat /\ crashes \in Nat
  BY ConstantsOK DEF IInv, TypeOK
<1>4. IsFiniteSet(InodesOf(ProfileOf[e]))
  BY FS_Subset DEF InodesOf
<1>5. Cardinality(InodesOf(ProfileOf[e])) \in Nat
  BY <1>4, FS_CardinalityType
<1>6. Owed(s, e) \in 0..2
  BY DEF Owed
<1>. QED
  BY <1>1, <1>2, <1>3, <1>4, <1>5, <1>6

(* A step that pays nothing, hands out nothing and starts no pass. *)
LEMMA BudgetKept ==
  ASSUME IInv, LInv, [Next]_vars, Budget,
         UNCHANGED <<live, inodes, cursor, cur, job, handed, crashes>>,
         pc' \in {"open", "read"} <=> pc \in {"open", "read"}
  PROVE  Budget'
<1>1. IInv' /\ IsFiniteSet(inodes)
  BY NextIInv DEF Budget
<1>. SUFFICES ASSUME AllReadable', NEW s \in Sinks, NEW e \in Events
              PROVE  handed[s][e] + Owed(s, e)' <= crashes + Cardinality(InodesOf(ProfileOf[e]))
  BY <1>1 DEF Budget, InodesOf
<1>2. /\ Resume(s, ProfileOf[e])' = Resume(s, ProfileOf[e])
      /\ Passing(s, ProfileOf[e])' <=> Passing(s, ProfileOf[e])
  BY DEF Resume, Passing
<1>3. Resume(s, ProfileOf[e]).pos \in Nat
  BY <1>1, OwedFacts DEF CursorType
<1>4. Ahead(e, Resume(s, ProfileOf[e]).pos)' => Ahead(e, Resume(s, ProfileOf[e]).pos)
  <2>. DEFINE k == Resume(s, ProfileOf[e]).pos
  <2>1. PICK c : c = k
    OBVIOUS
  <2>2. Ahead(e, k)' <=> Ahead(e, c)'
    BY <1>2, <2>1 DEF Ahead
  <2>3. Ahead(e, c)' => Ahead(e, c)
    BY <1>3, <2>1, AheadBefore
  <2>. QED
    BY <2>1, <2>2, <2>3
<1>5. Unread(s, e)' => Unread(s, e)
  BY <1>2, <1>4 DEF Unread
<1>6. Afresh(s, ProfileOf[e])' <=> Afresh(s, ProfileOf[e])
  BY <1>2 DEF Afresh
<1>7. Owed(s, e)' <= Owed(s, e)
  BY <1>5, <1>6 DEF Owed
<1>8. handed[s][e] + Owed(s, e) <= crashes + Cardinality(InodesOf(ProfileOf[e]))
  BY ReadableBefore DEF Budget
<1>9. Owed(s, e) \in 0..2 /\ Owed(s, e)' \in 0..2
  BY DEF Owed
<1>. QED
  BY <1>1, <1>7, <1>8, <1>9, OwedFacts

(* A step that gives a path a fresh inode: one more delivery is paid, and  *)
(* at most one more is owed.                                               *)
LEMMA BudgetRaised ==
  ASSUME IInv, LInv, [Next]_vars, Budget, NEW x \in Events \ inodes,
         inodes' = inodes \union {x}, live' = [live EXCEPT ![ProfileOf[x]] = x],
         UNCHANGED <<cursor, cur, job, pc, handed, crashes>>
  PROVE  Budget'
<1>0. IInv' /\ IsFiniteSet(inodes) /\ IsFiniteSet(inodes')
  BY NextIInv, FS_AddElement DEF Budget
<1>. SUFFICES ASSUME AllReadable', NEW s \in Sinks, NEW e \in Events
              PROVE  handed[s][e] + Owed(s, e)' <= crashes + Cardinality(InodesOf(ProfileOf[e]))'
  BY <1>0 DEF Budget
<1>1. /\ Resume(s, ProfileOf[e])' = Resume(s, ProfileOf[e])
      /\ Passing(s, ProfileOf[e])' <=> Passing(s, ProfileOf[e])
  BY DEF Resume, Passing
<1>2. handed[s][e] + Owed(s, e) <= crashes + Cardinality(InodesOf(ProfileOf[e]))
  BY ReadableBefore DEF Budget
<1>3. /\ Owed(s, e) \in 0..2 /\ Owed(s, e)' \in 0..2
      /\ handed[s][e] \in Nat /\ crashes \in Nat
      /\ IsFiniteSet(InodesOf(ProfileOf[e]))
      /\ Cardinality(InodesOf(ProfileOf[e])) \in Nat
  BY <1>0, OwedFacts DEF Owed
<1>4. live \in [Profiles -> Events \union {NoFile}] /\ ProfileOf[x] \in Profiles /\ ProfileOf[e] \in Profiles
  BY ConstantsOK DEF IInv, TypeOK
<1>5. Resume(s, ProfileOf[e]).pos \in Nat
  BY <1>0, OwedFacts DEF CursorType
<1>6. Ahead(e, Resume(s, ProfileOf[e]).pos)' => Ahead(e, Resume(s, ProfileOf[e]).pos)
  <2>. DEFINE k == Resume(s, ProfileOf[e]).pos
  <2>1. PICK c : c = k
    OBVIOUS
  <2>2. Ahead(e, k)' <=> Ahead(e, c)'
    BY <1>1, <2>1 DEF Ahead
  <2>3. Ahead(e, c)' => Ahead(e, c)
    BY <1>5, <2>1, AheadBefore
  <2>. QED
    BY <2>1, <2>2, <2>3
<1>7. CASE ProfileOf[e] = ProfileOf[x]
  <2>1. InodesOf(ProfileOf[e])' = InodesOf(ProfileOf[e]) \union {x} /\ x \notin InodesOf(ProfileOf[e])
    BY <1>7 DEF InodesOf
  <2>2. Cardinality(InodesOf(ProfileOf[e]))' = Cardinality(InodesOf(ProfileOf[e])) + 1
    BY <1>3, <2>1, FS_AddElement
  <2>3. live'[ProfileOf[e]] = x /\ x # NoFile
    BY <1>4, <1>7, ConstantsOK
  <2>4. Resume(s, ProfileOf[e]).ino # x
    <3>1. Resume(s, ProfileOf[e]).ino \in inodes \union {NoFile}
      BY <1>4 DEF Resume, Passing, IInv, PassOK, InodesMade
    <3>. QED
      BY <2>3, <3>1
  <2>5. Unread(s, e)' => Unread(s, e)
    <3>1. Passing(s, ProfileOf[e]) \/ ~Unread(s, e)'
      BY <1>1, <2>3, <2>4 DEF Unread
    <3>. QED
      BY <1>1, <1>6, <3>1 DEF Unread
  <2>6. Owed(s, e)' <= Owed(s, e) + 1
    BY <2>5 DEF Owed
  <2>. QED
    BY <1>2, <1>3, <2>2, <2>6
<1>8. CASE ProfileOf[e] # ProfileOf[x]
  <2>1. InodesOf(ProfileOf[e])' = InodesOf(ProfileOf[e])
    BY <1>8 DEF InodesOf
  <2>2. live'[ProfileOf[e]] = live[ProfileOf[e]]
    BY <1>4, <1>8
  <2>3. Unread(s, e)' => Unread(s, e)
    BY <1>1, <1>6, <2>2 DEF Unread
  <2>4. Afresh(s, ProfileOf[e])' <=> Afresh(s, ProfileOf[e])
    BY <1>1, <2>2 DEF Afresh
  <2>5. Owed(s, e)' <= Owed(s, e)
    BY <2>3, <2>4 DEF Owed
  <2>. QED
    BY <1>2, <1>3, <2>1, <2>5
<1>. QED
  BY <1>7, <1>8

(* A pass begins where the cursor saved for its inode stands, or with an   *)
(* inode that was paid for and not yet begun.                              *)
LEMMA BudgetStat ==
  ASSUME IInv, LInv, [Next]_vars, Budget, NEW j \in Jobs, Stat(j)
  PROVE  Budget'
<1>1. /\ UNCHANGED <<live, disk, inodes, cursor, handed, crashes>>
      /\ pc = "next" /\ pc' = "open" /\ job' = j
      /\ cur' = IF cursor[j[2]][j[1]].ino = live[j[1]] THEN cursor[j[2]][j[1]]
                ELSE [ino |-> live[j[1]], pos |-> 0]
  BY DEF Stat, files
<1>2. j[1] \in Profiles /\ j[2] \in Sinks /\ j = <<j[1], j[2]>> /\ live[j[1]] # NoFile
  BY DEF Jobs, Stat, IsFirst, IInv, PassOK
<1>3. IsFiniteSet(inodes)
  BY DEF Budget
<1>4. AllReadable' <=> AllReadable
  BY <1>1 DEF AllReadable, Fatal, Accepted
<1>. SUFFICES ASSUME AllReadable, NEW s \in Sinks, NEW e \in Events
              PROVE  handed[s][e] + Owed(s, e)' <= crashes + Cardinality(InodesOf(ProfileOf[e]))
  BY <1>1, <1>3, <1>4 DEF Budget, InodesOf
<1>. DEFINE p == ProfileOf[e]
<1>5. handed[s][e] + Owed(s, e) <= crashes + Cardinality(InodesOf(p))
  BY DEF Budget
<1>6. \A k : Ahead(e, k)' <=> Ahead(e, k)
  BY <1>1 DEF Ahead
<1>7. ~Passing(s, p)
  BY <1>1 DEF Passing
<1>8. Owed(s, e)' <= Owed(s, e)
  <2>1. CASE j = <<p, s>>
    <3>1. Resume(s, p) = cursor[s][p] /\ Resume(s, p)' = cur' /\ Passing(s, p)'
      BY <1>1, <1>7, <2>1 DEF Resume, Passing
    <3>2. live[p] # NoFile /\ cur'.ino = live[p]
      BY <1>1, <1>2, <2>1
    <3>3. ~Afresh(s, p)'
      BY <1>1, <3>1, <3>2 DEF Afresh
    <3>4. CASE cursor[s][p].ino = live[p]
      <4>1. cur' = cursor[s][p]
        BY <1>1, <2>1, <3>4
      <4>2. Ahead(e, Resume(s, p).pos)' <=> Ahead(e, Resume(s, p).pos)
        BY <1>1, <3>1, <4>1 DEF Ahead
      <4>. QED
        BY <3>1, <3>2, <3>3, <3>4, <4>2 DEF Owed, Unread
    <3>5. CASE cursor[s][p].ino # live[p]
      BY <3>1, <3>2, <3>3, <3>5 DEF Owed, Afresh
    <3>. QED
      BY <3>4, <3>5
  <2>2. CASE j # <<p, s>>
    <3>1. ~Passing(s, p)' /\ Resume(s, p)' = Resume(s, p)
      BY <1>1, <1>7, <2>2 DEF Passing, Resume
    <3>2. Ahead(e, Resume(s, p).pos)' <=> Ahead(e, Resume(s, p).pos)
      BY <1>1, <3>1 DEF Ahead
    <3>3. Afresh(s, p)' <=> Afresh(s, p)
      BY <1>1, <3>1 DEF Afresh
    <3>4. Unread(s, e)' <=> Unread(s, e)
      BY <1>1, <1>7, <3>1, <3>2 DEF Unread
    <3>. QED
      BY <3>3, <3>4 DEF Owed
  <2>. QED
    BY <2>1, <2>2
<1>9. Owed(s, e)' \in 0..2
  BY DEF Owed
<1>. QED
  BY <1>3, <1>5, <1>8, <1>9, OwedFacts

(* A kill pays for what the pass it ends will read again; the end of a     *)
(* pass that saves its cursor owes no more than the pass did.              *)
LEMMA BudgetEnds ==
  ASSUME IInv, LInv, [Next]_vars, Budget, Save \/ Crash
  PROVE  Budget'
<1>1. UNCHANGED <<live, disk, inodes, handed>> /\ pc' \notin {"open", "read"}
  BY DEF Save, Crash, Down, files
<1>2. IsFiniteSet(inodes)
  BY DEF Budget
<1>3. AllReadable' <=> AllReadable
  BY <1>1 DEF AllReadable, Fatal, Accepted
<1>. SUFFICES ASSUME AllReadable, NEW s \in Sinks, NEW e \in Events
              PROVE  handed[s][e] + Owed(s, e)' <= crashes' + Cardinality(InodesOf(ProfileOf[e]))
  BY <1>1, <1>2, <1>3 DEF Budget, InodesOf
<1>. DEFINE p == ProfileOf[e]
<1>4. handed[s][e] + Owed(s, e) <= crashes + Cardinality(InodesOf(p))
  BY DEF Budget
<1>5. Owed(s, e)' \in 0..2 /\ p \in Profiles
  BY ConstantsOK DEF Owed
<1>6. ~Passing(s, p)' /\ Resume(s, p)' = cursor'[s][p]
  BY <1>1 DEF Passing, Resume
<1>7. CASE Save
  <2>1. /\ crashes' = crashes /\ pc = "read" /\ cursor' = [cursor EXCEPT ![job[2]][job[1]] = cur]
    BY <1>7 DEF Save
  <2>2. job \in Jobs /\ job = <<job[1], job[2]>>
    BY <2>1 DEF IInv, PassOK, Jobs
  <2>3. cursor'[s][p] = Resume(s, p)
    <3>1. cursor'[s][p] = IF job = <<p, s>> THEN cur ELSE cursor[s][p]
      BY <1>5, <2>1, <2>2 DEF IInv, TypeOK
    <3>. QED
      BY <2>1, <3>1 DEF Resume, Passing
  <2>4. Ahead(e, Resume(s, p).pos)' <=> Ahead(e, Resume(s, p).pos)
    BY <1>1, <1>6, <2>3 DEF Ahead
  <2>5. Unread(s, e)' => Unread(s, e)
    BY <1>1, <1>6, <2>3, <2>4 DEF Unread
  <2>6. Afresh(s, p)' <=> Afresh(s, p)
    BY <1>1, <1>6, <2>3 DEF Afresh
  <2>7. Owed(s, e)' <= Owed(s, e)
    BY <2>5, <2>6 DEF Owed
  <2>. QED
    BY <1>2, <1>4, <1>5, <2>1, <2>7, OwedFacts
<1>8. CASE Crash
  <2>1. crashes' = crashes + 1 /\ cursor' = cursor
    BY <1>8 DEF Crash
  <2>2. ~(Afresh(s, p)' /\ Unread(s, e)')
    BY <1>6 DEF Afresh, Unread
  <2>3. Owed(s, e)' <= 1
    BY <2>2 DEF Owed
  <2>. QED
    BY <1>2, <1>4, <1>5, <2>1, <2>3, OwedFacts
<1>. QED
  BY <1>7, <1>8

(* A line that is handed out is what was owed of its event. *)
LEMMA BudgetReadLine ==
  ASSUME IInv, LInv, [Next]_vars, Budget, ReadLine
  PROVE  Budget'
<1>1. /\ UNCHANGED <<live, disk, inodes, cursor, pc, job, fd, crashes>>
      /\ pc = "read" /\ cur' = [cur EXCEPT !.pos = @ + 1]
      /\ cur.pos + 1 <= Len(disk[fd])
  BY DEF ReadLine, LineAhead, files
<1>2. /\ job \in Jobs /\ job = <<job[1], job[2]>> /\ job[1] \in Profiles /\ job[2] \in Sinks
      /\ fd \in Events /\ cur \in CursorType /\ ProfileOf[fd] = job[1]
  BY <1>1 DEF IInv, PassOK, TypeOK, Jobs, LInv, PassForward
<1>3. cur.pos \in Nat /\ cur'.ino = cur.ino /\ cur'.pos = cur.pos + 1
  BY <1>1, <1>2 DEF CursorType
<1>4. disk[fd] \in Seq(Line) /\ Len(disk[fd]) \in Nat /\ cur.pos + 1 \in 1..Len(disk[fd])
  BY <1>1, <1>2, <1>3, LenProperties DEF IInv, TypeOK
<1>. DEFINE l == disk[fd][cur.pos + 1]
<1>5. l.ev \in Events /\ ProfileOf[l.ev] = job[1]
  <2>1. l \in Line
    BY <1>4, ElementOfSeq
  <2>. QED
    BY <1>2, <1>4, <2>1 DEF Line, LInv, Written
<1>6. handed' = IF Accepted(l)
                THEN [handed EXCEPT ![job[2]][l.ev] = CountUp(@)] ELSE handed
  BY DEF ReadLine
<1>. HIDE DEF l
<1>7. IsFiniteSet(inodes)
  BY DEF Budget
<1>8. AllReadable' <=> AllReadable
  BY <1>1 DEF AllReadable, Fatal, Accepted
<1>. SUFFICES ASSUME AllReadable, NEW s \in Sinks, NEW e \in Events
              PROVE  handed'[s][e] + Owed(s, e)' <= crashes + Cardinality(InodesOf(ProfileOf[e]))
  BY <1>1, <1>7, <1>8 DEF Budget, InodesOf
<1>. DEFINE p == ProfileOf[e]
<1>9. handed[s][e] + Owed(s, e) <= crashes + Cardinality(InodesOf(p))
  BY DEF Budget
<1>10. /\ p \in Profiles /\ Owed(s, e) \in 0..2 /\ Owed(s, e)' \in 0..2
       /\ handed[s][e] \in Nat /\ crashes \in Nat
       /\ Cardinality(InodesOf(p)) \in Nat
       /\ Resume(s, p).pos \in Nat
  BY <1>7, OwedFacts DEF Owed, CursorType
<1>11. Passing(s, p)' <=> Passing(s, p)
  BY <1>1 DEF Passing
<1>12. Resume(s, p)'.ino = Resume(s, p).ino
  BY <1>1, <1>3, <1>11 DEF Resume
<1>13. Afresh(s, p)' <=> Afresh(s, p)
  BY <1>1, <1>12 DEF Afresh
<1>14. /\ Resume(s, p)'.pos \in Nat
       /\ Resume(s, p).pos <= Resume(s, p)'.pos
  BY <1>1, <1>3, <1>10, <1>11 DEF Resume
<1>15. Unread(s, e)' => Unread(s, e)
  <2>1. Ahead(e, Resume(s, p).pos)' => Ahead(e, Resume(s, p).pos)
    BY <1>1, <1>10, <1>14 DEF Ahead
  <2>. QED
    BY <1>1, <1>11, <1>12, <2>1 DEF Unread
<1>16. CASE ~(Accepted(l) /\ s = job[2] /\ e = l.ev)
  <2>1. handed'[s][e] = handed[s][e]
    BY <1>2, <1>5, <1>6, <1>16 DEF IInv, TypeOK
  <2>2. Owed(s, e)' <= Owed(s, e)
    BY <1>13, <1>15 DEF Owed
  <2>. QED
    BY <1>9, <1>10, <2>1, <2>2
<1>17. CASE Accepted(l) /\ s = job[2] /\ e = l.ev
  <2>1. handed'[s][e] <= handed[s][e] + 1 /\ handed'[s][e] \in Nat
    <3>1. handed'[s][e] = CountUp(handed[s][e])
      BY <1>2, <1>5, <1>6, <1>17 DEF IInv, TypeOK
    <3>. QED
      BY <1>10, <3>1 DEF CountUp
  <2>2. Passing(s, p) /\ Resume(s, p) = cur /\ Resume(s, p)' = cur'
    BY <1>1, <1>2, <1>5, <1>17 DEF Passing, Resume
  <2>3. l.form = "whole" /\ l.ev = e
    BY <1>17 DEF Accepted
  <2>4. Ahead(e, cur.pos)
    <3>. SUFFICES ASSUME NEW i \in Events, NEW n \in 1..Len(disk[i]),
                         disk[i][n].form = "whole", disk[i][n].ev = e
                  PROVE  n = cur.pos + 1
      BY <1>3 DEF Ahead
    <3>1. disk[i] \in Copies /\ disk[fd] \in Copies
      BY <1>2 DEF Copies
    <3>. QED
      BY <1>4, <2>3, <3>1 DEF LInv, OnePlace, l
  <2>5. Unread(s, e)
    BY <2>2, <2>4 DEF Unread
  <2>6. ~Unread(s, e)'
    <3>1. ~Ahead(e, Resume(s, p).pos)'
      <4>1. Resume(s, p)'.pos = cur.pos + 1
        BY <1>3, <2>2
      <4>. QED
        BY <1>1, <1>2, <1>3, <1>4, <2>3, <4>1 DEF Ahead, l
    <3>. QED
      BY <3>1 DEF Unread
  <2>7. Owed(s, e)' + 1 <= Owed(s, e)
    BY <1>13, <2>5, <2>6 DEF Owed
  <2>. QED
    BY <1>9, <1>10, <2>1, <2>7
<1>. QED
  BY <1>16, <1>17

(* A line that ends every pass ends the promise. *)
LEMMA BudgetFatalLine ==
  ASSUME IInv, Budget, FatalLine
  PROVE  Budget'
<1>1. /\ UNCHANGED <<disk, inodes>> /\ pc = "read"
      /\ cur.pos + 1 <= Len(disk[fd]) /\ Fatal(job[2], disk[fd][cur.pos + 1])
  BY DEF FatalLine, LineAhead, files
<1>2. fd \in Events /\ cur.pos \in Nat /\ job[2] \in Sinks
  BY <1>1 DEF IInv, PassOK, TypeOK, CursorType, Jobs
<1>3. Len(disk[fd]) \in Nat
  BY <1>2, LenProperties DEF IInv, TypeOK
<1>4. ~AllReadable'
  BY <1>1, <1>2, <1>3 DEF AllReadable, Fatal, Accepted
<1>. QED
  BY <1>1, <1>4 DEF Budget

(* A write that raises is paid for as a kill is; if it took effect, what   *)
(* was owed of the event is paid too.                                      *)
LEMMA BudgetWriteRaises ==
  ASSUME IInv, LInv, [Next]_vars, Budget, WriteRaises
  PROVE  Budget'
<1>1. /\ UNCHANGED <<live, disk, inodes, cursor>> /\ pc = "read" /\ pc' = "down"
      /\ crashes' = crashes + 1
      /\ LineAhead /\ Accepted(disk[fd][cur.pos + 1])
  BY DEF WriteRaises, LineAhead, Down, files
<1>2. handed' \in {handed, [handed EXCEPT ![job[2]][disk[fd][cur.pos + 1].ev] = CountUp(@)]}
  BY DEF WriteRaises
<1>3. /\ job \in Jobs /\ job = <<job[1], job[2]>> /\ job[1] \in Profiles
      /\ ProfileOf[fd] = job[1]
  BY <1>1 DEF IInv, PassOK, Jobs, LInv, PassForward
<1>4. /\ job[2] \in Sinks /\ fd \in Events /\ cur.pos \in Nat
      /\ Len(disk[fd]) \in Nat /\ cur.pos + 1 \in 1..Len(disk[fd])
      /\ disk[fd][cur.pos + 1].ev \in Events
  BY <1>1, <1>2, LineHanded
<1>. PICK l : l = disk[fd][cur.pos + 1]
  OBVIOUS
<1>5. ProfileOf[l.ev] = job[1]
  BY <1>3, <1>4 DEF LInv, Written
<1>6. IsFiniteSet(inodes)
  BY DEF Budget
<1>7. AllReadable' <=> AllReadable
  BY <1>1 DEF AllReadable, Fatal, Accepted
<1>. SUFFICES ASSUME AllReadable, NEW s \in Sinks, NEW e \in Events
              PROVE  handed'[s][e] + Owed(s, e)' <= crashes + 1 + Cardinality(InodesOf(ProfileOf[e]))
  BY <1>1, <1>6, <1>7 DEF Budget, InodesOf
<1>. DEFINE p == ProfileOf[e]
<1>8. handed[s][e] + Owed(s, e) <= crashes + Cardinality(InodesOf(p))
  BY DEF Budget
<1>9. /\ Owed(s, e) \in 0..2 /\ Owed(s, e)' \in 0..2
      /\ handed[s][e] \in Nat /\ crashes \in Nat /\ Cardinality(InodesOf(p)) \in Nat
  BY <1>6, OwedFacts DEF Owed
<1>10. Owed(s, e)' <= 1
  <2>1. ~Passing(s, p)'
    BY <1>1 DEF Passing
  <2>2. ~(Afresh(s, p)' /\ Unread(s, e)')
    BY <2>1 DEF Afresh, Unread
  <2>. QED
    BY <2>2 DEF Owed
<1>11. CASE handed'[s][e] = handed[s][e]
  BY <1>8, <1>9, <1>10, <1>11
<1>12. CASE handed'[s][e] # handed[s][e]
  <2>0. handed' = [handed EXCEPT ![job[2]][l.ev] = CountUp(@)]
    <3>1. handed' # handed
      BY <1>12
    <3>. QED
      BY <1>2, <3>1
  <2>1. /\ handed' = [handed EXCEPT ![job[2]][l.ev] = CountUp(@)]
        /\ s = job[2] /\ e = l.ev
    BY <1>4, <1>12, <2>0 DEF IInv, TypeOK
  <2>2. handed'[s][e] = handed[s][e] + 1
    <3>1. handed'[s][e] = CountUp(handed[s][e])
      BY <1>4, <2>1 DEF IInv, TypeOK
    <3>. QED
      BY <1>9, <1>12, <3>1 DEF CountUp
  <2>3. Passing(s, p) /\ Resume(s, p) = cur
    BY <1>1, <1>3, <1>5, <2>1 DEF Passing, Resume
  <2>4. Ahead(e, cur.pos)
    <3>. SUFFICES ASSUME NEW i \in Events, NEW n \in 1..Len(disk[i]),
                         disk[i][n].form = "whole", disk[i][n].ev = e
                  PROVE  n = cur.pos + 1
      BY <1>4 DEF Ahead
    <3>1. disk[i] \in Copies /\ disk[fd] \in Copies
      BY <1>4 DEF Copies
    <3>. QED
      BY <1>1, <1>4, <2>1, <3>1 DEF LInv, OnePlace, Accepted
  <2>5. Unread(s, e)
    BY <2>3, <2>4 DEF Unread
  <2>6. Owed(s, e) >= 1
    BY <2>5 DEF Owed
  <2>. QED
    BY <1>8, <1>9, <1>10, <2>2, <2>6
<1>. QED
  BY <1>11, <1>12

LEMMA NextBudget == IInv /\ LInv /\ Budget /\ [Next]_vars => Budget'
<1>. SUFFICES ASSUME IInv, LInv, Budget, [Next]_vars PROVE Budget'
  OBVIOUS
<1>1. ASSUME NEW e \in HookEvents, HookOpen(e) PROVE Budget'
  <2>1. /\ e \in Events /\ e \notin inodes
        /\ UNCHANGED <<cursor, cur, job, pc, handed, crashes>>
    BY <1>1 DEF HookOpen, daemon, Events, IInv, InodesMade
  <2>2. CASE live[ProfileOf[e]] = NoFile
    <3>1. inodes' = inodes \union {e} /\ live' = [live EXCEPT ![ProfileOf[e]] = e]
      BY <1>1, <2>2 DEF HookOpen
    <3>. QED
      BY <2>1, <3>1, BudgetRaised
  <2>3. CASE live[ProfileOf[e]] # NoFile
    <3>1. UNCHANGED <<live, inodes>>
      BY <1>1, <2>3 DEF HookOpen
    <3>. QED
      BY <2>1, <3>1, BudgetKept
  <2>. QED
    BY <2>2, <2>3
<1>2. ASSUME NEW e \in TaskEvents, TaskReplace(e) PROVE Budget'
  <2>1. /\ e \in Events /\ e \notin inodes
        /\ UNCHANGED <<cursor, cur, job, pc, handed, crashes>>
        /\ inodes' = inodes \union {e} /\ live' = [live EXCEPT ![ProfileOf[e]] = e]
    BY <1>2 DEF TaskReplace, daemon, Events, IInv, InodesMade
  <2>. QED
    BY <2>1, BudgetRaised
<1>3. CASE \/ \E e \in HookEvents : HookWrite(e) \/ HookHead(e) \/ HookTail(e) \/ HookFail(e)
           \/ \E e \in TaskEvents : TaskRead(e) \/ TaskFail(e)
           \/ UNCHANGED vars
  <2>1. UNCHANGED <<live, inodes, cursor, cur, job, pc, handed, crashes>>
    BY <1>3 DEF HookWrite, HookHead, HookTail, HookAdd, HookFail, TaskRead, TaskFail, vars,
                daemon, files
  <2>. QED
    BY <2>1, BudgetKept
<1>4. CASE Tick \/ Open \/ Restart
  <2>1. /\ UNCHANGED <<live, inodes, cursor, cur, job, handed, crashes>>
        /\ pc' \in {"open", "read"} <=> pc \in {"open", "read"}
    BY <1>4 DEF Tick, Open, Restart, files
  <2>. QED
    BY <2>1, BudgetKept
<1>5. CASE \E j \in Jobs : Stat(j)
  BY <1>5, BudgetStat
<1>6. CASE ReadLine
  BY <1>6, BudgetReadLine
<1>7. CASE Save \/ Crash
  BY <1>7, BudgetEnds
<1>8. CASE FatalLine
  BY <1>8, BudgetFatalLine
<1>9. CASE WriteRaises
  BY <1>9, BudgetWriteRaises
<1>. QED
  BY <1>1, <1>2, <1>3, <1>4, <1>5, <1>6, <1>7, <1>8, <1>9 DEF Next, Hook, Task, Daemon

LEMMA InitBudget == Init => Budget
<1>. SUFFICES ASSUME Init PROVE Budget
  OBVIOUS
<1>1. inodes = {} /\ IsFiniteSet(inodes)
  BY FS_EmptySet DEF Init
<1>2. \A p : InodesOf(p) = {} /\ Cardinality(InodesOf(p)) = 0
  BY <1>1, FS_EmptySet DEF InodesOf
<1>3. \A s \in Sinks, e \in Events : handed[s][e] = 0 /\ ProfileOf[e] \in Profiles
  BY ConstantsOK DEF Init
<1>4. crashes = 0 /\ pc = "next" /\ \A p \in Profiles : live[p] = NoFile
  BY DEF Init
<1>5. \A s \in Sinks, e \in Events : Owed(s, e) = 0
  BY <1>3, <1>4 DEF Owed, Afresh, Unread, Passing
<1>. QED
  BY <1>1, <1>2, <1>3, <1>4, <1>5 DEF Budget

(* For any numbers of profiles, sinks, events, kills and writes that       *)
(* raise: while no line ends every pass, the deliveries of an event to a   *)
(* sink are bounded by the kills, the raises and the inodes of its profile.*)
THEOREM DuplicatesAreBounded == Spec => []DuplicatesBounded
<1>1. IInv /\ Budget => DuplicatesBounded
  <2>. SUFFICES ASSUME IInv, Budget, AllReadable, NEW s \in Sinks, NEW e \in Events
                PROVE  handed[s][e] <= crashes + Cardinality(InodesOf(ProfileOf[e]))
    BY DEF DuplicatesBounded, InodesOf
  <2>1. handed[s][e] + Owed(s, e) <= crashes + Cardinality(InodesOf(ProfileOf[e]))
    BY DEF Budget
  <2>. QED
    BY <2>1, OwedFacts DEF Budget
<1>2. Spec => []Budget
  BY InitBudget, NextBudget, InvariantHolds, LinesHold, PTL DEF Spec
<1>. QED
  BY <1>1, <1>2, InvariantHolds, PTL

-----------------------------------------------------------------------------
(* The bridge implements at-least-once delivery: what every step does to   *)
(* the emitted events, the log, the events seen and those acknowledged.    *)

LEMMA EventsInMember ==
  ASSUME NEW c, NEW x
  PROVE  x \in EventsIn(c) <=> \E n \in 1..Len(c) : Accepted(c[n]) /\ c[n].ev = x
BY DEF EventsIn

LEMMA EventsInNone == EventsIn(<<>>) = {}
<1>1. \A n \in 1..Len(<<>>) : FALSE
  OBVIOUS
<1>. QED
  BY <1>1 DEF EventsIn

LEMMA EventsInPrefix ==
  ASSUME NEW c \in Seq(Line), NEW k \in Nat, k <= Len(c), NEW x
  PROVE  x \in EventsIn(SubSeq(c, 1, k)) <=> \E n \in 1..k : Accepted(c[n]) /\ c[n].ev = x
<1>. DEFINE d == SubSeq(c, 1, k)
<1>1. Len(d) = k /\ \A n \in 1..k : d[n] = c[n]
  <2>1. Len(c) \in Nat
    BY LenProperties
  <2>. QED
    BY <2>1, SubSeqProperties
<1>. HIDE DEF d
<1>2. x \in EventsIn(d) <=> \E n \in 1..k : Accepted(c[n]) /\ c[n].ev = x
  BY <1>1, EventsInMember
<1>. QED
  BY <1>2 DEF d

(* A chunk adds its event to those of the file, or none; a head none. *)
LEMMA ExtendEvents ==
  ASSUME NEW c \in Seq(Line), NEW e \in Events, NEW chunk \in Chunks, NEW bad \in BadForms
  PROVE  /\ EventsIn(Extend(c, e, chunk, bad)) \in {EventsIn(c), EventsIn(c) \union {e}}
         /\ chunk = "head" => EventsIn(Extend(c, e, chunk, bad)) = EventsIn(c)
<1>. DEFINE new == Extend(c, e, chunk, bad)
<1>1. \A n \in 1..Len(new) :
        \/ n \in 1..Len(c) /\ new[n] = c[n]
        \/ new[n].ev = e /\ (chunk = "head" => new[n].form # "whole")
  BY ExtendAdds
<1>2. Len(new) >= Len(c) /\ \A n \in 1..Len(c) : Closed(c[n]) => new[n] = c[n]
  BY ExtendKeeps
<1>3. new \in Seq(Line)
  BY ExtendKeeps
<1>4. Len(new) \in Nat /\ Len(c) \in Nat
  BY <1>3, LenProperties
<1>. HIDE DEF new
<1>5. EventsIn(c) \subseteq EventsIn(new)
  <2>. SUFFICES ASSUME NEW n \in 1..Len(c), Accepted(c[n])
                PROVE  c[n].ev \in EventsIn(new)
    BY EventsInMember
  <2>1. Closed(c[n])
    BY DEF Accepted, Closed
  <2>2. new[n] = c[n] /\ n \in 1..Len(new)
    BY <1>2, <1>4, <2>1
  <2>. QED
    BY <2>2, EventsInMember
<1>6. ASSUME NEW n \in 1..Len(new), Accepted(new[n])
      PROVE  new[n].ev \in EventsIn(c) \/ (new[n].ev = e /\ chunk # "head")
  <2>1. CASE n \in 1..Len(c) /\ new[n] = c[n]
    BY <1>6, <2>1, EventsInMember
  <2>2. CASE new[n].ev = e /\ (chunk = "head" => new[n].form # "whole")
    BY <1>6, <2>2 DEF Accepted
  <2>. QED
    BY <1>1, <2>1, <2>2
<1>7. \A x \in EventsIn(new) : x \in EventsIn(c) \/ (x = e /\ chunk # "head")
  BY <1>6, EventsInMember
<1>8. EventsIn(new) \in {EventsIn(c), EventsIn(c) \union {e}}
  BY <1>5, <1>7
<1>9. chunk = "head" => EventsIn(new) = EventsIn(c)
  BY <1>5, <1>7
<1>. QED
  BY <1>8, <1>9 DEF new

(* Whole lines are of emitted events. *)
LEMMA EventsInEmitted ==
  ASSUME TypeOK, LinesEmitted, NEW c \in Copies
  PROVE  EventsIn(c) \subseteq {e \in Events : em[e] = "emitted"}
<1>. SUFFICES ASSUME NEW n \in 1..Len(c), Accepted(c[n])
              PROVE  c[n].ev \in Events /\ em[c[n].ev] = "emitted"
  BY EventsInMember
<1>. QED
  BY CopyTypes DEF LinesEmitted, Accepted

(* What a trusted cursor covers stays where it is. *)
LEMMA AckedKept ==
  ASSUME IInv, LInv, [Next]_vars, NEW s \in Sinks, NEW p \in Profiles,
         cursor'[s][p] = cursor[s][p], live'[p] = live[p]
  PROVE  AckedEvents(s, p)' = AckedEvents(s, p)
<1>1. CASE ~(live[p] # NoFile /\ cursor[s][p].ino = live[p])
  BY <1>1 DEF AckedEvents
<1>2. CASE live[p] # NoFile /\ cursor[s][p].ino = live[p]
  <2>. DEFINE i == live[p]
              k == cursor[s][p].pos
  <2>1. /\ i \in Events /\ k \in Nat
        /\ disk[i] \in Seq(Line) /\ disk'[i] \in Seq(Line)
    BY <1>2, NextIInv DEF IInv, TypeOK, CursorType
  <2>2. \A n \in 1..k : n <= Len(disk[i]) /\ Closed(disk[i][n])
    BY <1>2 DEF IInv, CursorNeverAhead, Covered
  <2>3. Len(disk[i]) \in Nat /\ Len(disk'[i]) \in Nat
    BY <2>1, LenProperties
  <2>4. k <= Len(disk[i])
    BY <2>1, <2>2, <2>3
  <2>5. \A n \in 1..k : n \in 1..Len(disk'[i]) /\ disk'[i][n] = disk[i][n]
    BY <2>1, <2>2, <2>3, FilesKept
  <2>6. k <= Len(disk'[i])
    BY <2>1, <2>3, <2>5
  <2>7. \A x : x \in EventsIn(SubSeq(disk[i], 1, k)) <=> \E n \in 1..k : Accepted(disk[i][n]) /\ disk[i][n].ev = x
    BY <2>1, <2>4, EventsInPrefix
  <2>8. \A x : x \in EventsIn(SubSeq(disk'[i], 1, k)) <=> \E n \in 1..k : Accepted(disk'[i][n]) /\ disk'[i][n].ev = x
    BY <2>1, <2>6, EventsInPrefix
  <2>9. EventsIn(SubSeq(disk'[i], 1, k)) = EventsIn(SubSeq(disk[i], 1, k))
    <3>1. \A x : x \in EventsIn(SubSeq(disk'[i], 1, k)) <=> x \in EventsIn(SubSeq(disk[i], 1, k))
      BY <2>5, <2>7, <2>8
    <3>. QED
      BY <3>1
  <2>10. AckedEvents(s, p) = EventsIn(SubSeq(disk[i], 1, k))
    BY <1>2 DEF AckedEvents
  <2>11. AckedEvents(s, p)' = EventsIn(SubSeq(disk'[i], 1, k))
    BY <1>2 DEF AckedEvents, EventsIn, Accepted
  <2>. QED
    BY <2>9, <2>10, <2>11
<1>. QED
  BY <1>1, <1>2

(* A step the abstract specification does not see. *)
LEMMA Stutters ==
  ASSUME {e \in Events : em'[e] = "emitted"} = {e \in Events : em[e] = "emitted"},
         handed' = handed,
         \A p \in Profiles : EventsIn(Content(p))' = EventsIn(Content(p)),
         \A s \in Sinks, p \in Profiles : AckedEvents(s, p)' = AckedEvents(s, p)
  PROVE  UNCHANGED Delivery!vars
BY DEF Delivery!vars

LEMMA HookOpenMaps ==
  ASSUME IInv, LInv, [Next]_vars, NEW e \in HookEvents, HookOpen(e)
  PROVE  UNCHANGED Delivery!vars
<1>1. /\ e \in Events /\ e \notin inodes /\ ProfileOf[e] \in Profiles /\ TypeOK
      /\ e # NoFile
  BY ConstantsOK DEF IInv, HookOpen, InodesMade, Events
<1>2. /\ UNCHANGED <<disk, cursor, handed>>
      /\ em[e] = "idle" /\ em' = [em EXCEPT ![e] = "opened"]
      /\ \/ live[ProfileOf[e]] = NoFile /\ live' = [live EXCEPT ![ProfileOf[e]] = e]
         \/ live' = live
  BY DEF HookOpen
<1>3. {x \in Events : em'[x] = "emitted"} = {x \in Events : em[x] = "emitted"}
  BY <1>1, <1>2 DEF TypeOK
<1>4. ASSUME NEW p \in Profiles, live'[p] # live[p]
      PROVE  /\ live[p] = NoFile /\ live'[p] = e /\ disk[e] = <<>>
             /\ \A s \in Sinks : cursor[s][p].ino # e
  <2>1. live[p] = NoFile /\ live'[p] = e
    BY <1>1, <1>2, <1>4 DEF TypeOK
  <2>. QED
    BY <1>1, <2>1 DEF LInv, Written, IInv, InodesMade
<1>5. \A p \in Profiles : Content(p)' = Content(p)
  BY <1>1, <1>2, <1>4 DEF Content
<1>6. \A p \in Profiles : EventsIn(Content(p))' = EventsIn(Content(p))
  BY <1>5 DEF EventsIn, Accepted
<1>7. \A s \in Sinks, p \in Profiles : AckedEvents(s, p)' = AckedEvents(s, p)
  <2>. SUFFICES ASSUME NEW s \in Sinks, NEW p \in Profiles
                PROVE  AckedEvents(s, p)' = AckedEvents(s, p)
    OBVIOUS
  <2>1. CASE live'[p] = live[p]
    BY <1>2, <2>1, AckedKept
  <2>2. CASE live'[p] # live[p]
    BY <1>2, <1>4, <2>2 DEF AckedEvents
  <2>. QED
    BY <2>1, <2>2
<1>. QED
  BY <1>2, <1>3, <1>6, <1>7, Stutters

LEMMA HookAddMaps ==
  ASSUME IInv, LInv, [Next]_vars, NEW e \in HookEvents,
         NEW from \in {"opened", "half"}, NEW to \in {"half", "emitted"},
         NEW chunk \in Chunks, HookAdd(e, from, to, chunk),
         chunk = "head" <=> to = "half"
  PROVE  [Delivery!Next]_(Delivery!vars)
<1>0. /\ e \in Events /\ efd[e] \in inodes /\ inodes \subseteq Events /\ NoFile \notin Events
      /\ ProfileOf[efd[e]] = ProfileOf[e] /\ ProfileOf[e] \in Profiles
      /\ TypeOK
  BY ConstantsOK DEF IInv, HookAdd, InodesMade, Events, TypeOK, LInv, Written
<1>1. /\ UNCHANGED <<live, cursor, handed>>
      /\ em[e] = from /\ em' = [em EXCEPT ![e] = to]
  BY DEF HookAdd
<1>2. PICK bad \in BadForms : disk' = [disk EXCEPT ![efd[e]] = Extend(@, e, chunk, bad)]
  BY DEF HookAdd
<1>. DEFINE old == disk[efd[e]]
            new == Extend(old, e, chunk, bad)
<1>3. /\ disk'[efd[e]] = new /\ old \in Seq(Line)
      /\ \A i \in Events \ {efd[e]} : disk'[i] = disk[i]
  BY <1>0, <1>2 DEF TypeOK
<1>4. /\ EventsIn(new) \in {EventsIn(old), EventsIn(old) \union {e}}
      /\ chunk = "head" => EventsIn(new) = EventsIn(old)
  BY <1>0, <1>3, ExtendEvents
<1>5. \A s \in Sinks, p \in Profiles : AckedEvents(s, p)' = AckedEvents(s, p)
  BY <1>1, AckedKept
<1>. DEFINE P == ProfileOf[e]
<1>. HIDE DEF new, old
<1>6. \A p \in Profiles :
        Content(p)' = IF live[p] = efd[e] THEN new ELSE Content(p)
  BY <1>0, <1>1, <1>3 DEF Content, TypeOK
<1>7. \A p \in Profiles : live[p] = efd[e] => p = P /\ Content(p) = old
  BY <1>0 DEF Content, LInv, Written, old
<1>8. \A p \in Profiles :
        EventsIn(Content(p))' = IF live[p] = efd[e] THEN EventsIn(new) ELSE EventsIn(Content(p))
  <2>1. \A p \in Profiles : EventsIn(Content(p))' = EventsIn(Content(p)')
    BY DEF EventsIn, Accepted
  <2>. QED
    BY <1>6, <2>1
<1>9. CASE chunk = "head"
  <2>1. \A p \in Profiles : EventsIn(Content(p))' = EventsIn(Content(p))
    BY <1>4, <1>7, <1>8, <1>9
  <2>2. {x \in Events : em'[x] = "emitted"} = {x \in Events : em[x] = "emitted"}
    BY <1>0, <1>1, <1>9 DEF TypeOK
  <2>. QED
    BY <1>1, <1>5, <2>1, <2>2, Stutters
<1>10. CASE chunk # "head"
  <2>1. {x \in Events : em'[x] = "emitted"} = {x \in Events : em[x] = "emitted"} \union {e}
    BY <1>0, <1>1, <1>10 DEF TypeOK
  <2>2. e \notin {x \in Events : em[x] = "emitted"}
    BY <1>1
  <2>3. \/ \A p \in Profiles : EventsIn(Content(p))' = EventsIn(Content(p))
        \/ \A p \in Profiles :
             EventsIn(Content(p))' = IF p = P THEN EventsIn(Content(p)) \union {e}
                                              ELSE EventsIn(Content(p))
    <3>1. CASE live[P] # efd[e]
      BY <1>7, <1>8, <3>1
    <3>2. CASE live[P] = efd[e]
      BY <1>0, <1>4, <1>7, <1>8, <3>2
    <3>. QED
      BY <3>1, <3>2
  <2>4. \/ [p \in Profiles |-> EventsIn(Content(p))]' = [p \in Profiles |-> EventsIn(Content(p))]
        \/ [p \in Profiles |-> EventsIn(Content(p))]' =
             [[p \in Profiles |-> EventsIn(Content(p))]
                EXCEPT ![P] = @ \union {e}]
    BY <1>0, <2>3
  <2>5. [s \in Sinks |-> [p \in Profiles |-> AckedEvents(s, p)]]' =
          [s \in Sinks |-> [p \in Profiles |-> AckedEvents(s, p)]]
    BY <1>5
  <2>6. Delivery!Publish(e)
    BY <1>1, <2>1, <2>2, <2>4, <2>5 DEF Delivery!Publish
  <2>. QED
    BY <1>0, <2>6 DEF Delivery!Next
<1>. QED
  BY <1>9, <1>10

LEMMA TaskReplaceMaps ==
  ASSUME IInv, LInv, [Next]_vars, NEW e \in TaskEvents, TaskReplace(e)
  PROVE  Delivery!Replace(e)
<1>0. /\ e \in Events /\ e \notin inodes /\ ProfileOf[e] \in Profiles /\ inodes \subseteq Events
      /\ e # NoFile /\ TypeOK /\ TypeOK' /\ LInv'
  BY ConstantsOK, NextIInv, NextLInv DEF IInv, TaskReplace, InodesMade, Events, TypeOK
<1>1. /\ UNCHANGED <<cursor, handed>>
      /\ em[e] = "read" /\ em' = [em EXCEPT ![e] = "emitted"]
      /\ live' = [live EXCEPT ![ProfileOf[e]] = e]
  BY DEF TaskReplace
<1>. DEFINE P == ProfileOf[e]
<1>2. \A i \in Events \ {e} : disk'[i] = disk[i]
  BY <1>0 DEF TypeOK, TaskReplace
<1>3. live'[P] = e /\ \A p \in Profiles \ {P} : live'[p] = live[p]
  BY <1>0, <1>1 DEF TypeOK
<1>4. {x \in Events : em'[x] = "emitted"} = {x \in Events : em[x] = "emitted"} \union {e}
  BY <1>0, <1>1 DEF TypeOK
<1>5. Content(P)' \in Copies'
  BY <1>0, <1>3 DEF Content, Copies
<1>6. EventsIn(Content(P))' \subseteq {x \in Events : em'[x] = "emitted"}
  <2>1. \A x \in EventsIn(Content(P))' :
          \E n \in 1..Len(Content(P)') : Accepted(Content(P)'[n]) /\ Content(P)'[n].ev = x
    BY DEF EventsIn, Accepted
  <2>2. \A n \in 1..Len(Content(P)') :
          Accepted(Content(P)'[n])
            => Content(P)'[n].ev \in Events /\ em'[Content(P)'[n].ev] = "emitted"
    <3>1. Content(P)' = disk'[e] /\ disk'[e] \in Seq(Line)
      BY <1>0, <1>3 DEF Content, TypeOK
    <3>2. \A n \in 1..Len(disk'[e]) : disk'[e][n] \in Line
      BY <3>1, ElementOfSeq
    <3>. QED
      BY <1>0, <1>5, <3>1, <3>2 DEF LInv, LinesEmitted, Line, Accepted
  <2>. QED
    BY <2>1, <2>2
<1>7. \A p \in Profiles \ {P} : EventsIn(Content(p))' = EventsIn(Content(p))
  <2>1. \A p \in Profiles \ {P} : live[p] = NoFile \/ live[p] \in Events \ {e}
    BY <1>0 DEF IInv, InodesMade, TypeOK
  <2>2. \A p \in Profiles \ {P} : Content(p)' = Content(p)
    BY <1>2, <1>3, <2>1 DEF Content
  <2>. QED
    BY <2>2 DEF EventsIn, Accepted
<1>8. \A s \in Sinks, p \in Profiles :
        AckedEvents(s, p)' = IF p = P THEN {} ELSE AckedEvents(s, p)
  <2>1. \A s \in Sinks : cursor'[s][P].ino # live'[P]
    BY <1>0, <1>1, <1>3 DEF IInv, InodesMade
  <2>2. \A s \in Sinks : AckedEvents(s, P)' = {}
    BY <2>1 DEF AckedEvents
  <2>3. \A s \in Sinks, p \in Profiles \ {P} : AckedEvents(s, p)' = AckedEvents(s, p)
    BY <1>1, <1>3, AckedKept
  <2>. QED
    BY <2>2, <2>3
<1>9. [s \in Sinks |-> [p \in Profiles |-> AckedEvents(s, p)]]' =
        [s \in Sinks |-> [[s_1 \in Sinks |-> [p \in Profiles |-> AckedEvents(s_1, p)]][s]
                            EXCEPT ![P] = {}]]
  BY <1>0, <1>8
<1>10. \E L \in SUBSET ({x \in Events : em'[x] = "emitted"}) :
         [p \in Profiles |-> EventsIn(Content(p))]' =
           [[p \in Profiles |-> EventsIn(Content(p))] EXCEPT ![P] = L]
  <2>. DEFINE L == EventsIn(Content(P))'
  <2>1. [p \in Profiles |-> EventsIn(Content(p))]' =
           [[p \in Profiles |-> EventsIn(Content(p))] EXCEPT ![P] = L]
    BY <1>0, <1>7
  <2>. QED
    BY <1>6, <2>1
<1>. QED
  BY <1>1, <1>4, <1>9, <1>10 DEF Delivery!Replace

(* Steps that leave the files, the cursors and what was handed. *)
LEMMA QuietMaps ==
  ASSUME IInv, LInv,
         \/ \E e \in HookEvents : HookFail(e)
         \/ \E e \in TaskEvents : TaskRead(e) \/ TaskFail(e)
         \/ \E j \in Jobs : Stat(j)
         \/ Tick \/ Open \/ FatalLine \/ Restart \/ Crash \/ UNCHANGED vars
  PROVE  UNCHANGED Delivery!vars
<1>1. UNCHANGED <<live, disk, cursor, handed>>
  BY DEF HookFail, TaskRead, TaskFail, Stat, Tick, Open, FatalLine, Restart, Crash, vars, files
<1>2. \A x \in Events : em'[x] = "emitted" <=> em[x] = "emitted"
  <2>1. em \in [Events -> {"idle", "opened", "half", "read", "emitted", "lost"}]
    BY DEF IInv, TypeOK
  <2>2. \/ em' = em
        \/ \E e \in Events :
             em[e] # "emitted" /\ em' \in {[em EXCEPT ![e] = "lost"], [em EXCEPT ![e] = "read"]}
    BY DEF HookFail, TaskRead, TaskFail, Stat, Tick, Open, FatalLine, Restart, Crash, vars,
           emitters, Events
  <2>. QED
    BY <2>1, <2>2
<1>3. \A p \in Profiles : EventsIn(Content(p))' = EventsIn(Content(p))
  BY <1>1 DEF Content, EventsIn, Accepted
<1>4. \A s \in Sinks, p \in Profiles : AckedEvents(s, p)' = AckedEvents(s, p)
  BY <1>1 DEF AckedEvents, EventsIn, Accepted
<1>. QED
  BY <1>1, <1>2, <1>3, <1>4, Stutters

LEMMA ReadLineMaps ==
  ASSUME IInv, LInv, ReadLine
  PROVE  [Delivery!Next]_(Delivery!vars)
<1>1. /\ UNCHANGED <<live, disk, cursor, em>>
      /\ pc = "read" /\ cur.pos + 1 <= Len(disk[fd])
  BY DEF ReadLine, LineAhead, files, emitters
<1>2. job[2] \in Sinks /\ fd \in Events /\ cur.pos \in Nat
  BY <1>1 DEF IInv, PassOK, TypeOK, Jobs, CursorType
<1>3. disk[fd] \in Copies /\ cur.pos + 1 \in 1..Len(disk[fd])
  <2>1. Len(disk[fd]) \in Nat
    BY <1>2, LenProperties DEF IInv, TypeOK
  <2>. QED
    BY <1>1, <1>2, <2>1 DEF Copies
<1>. DEFINE l == disk[fd][cur.pos + 1]
<1>4. l.ev \in Events /\ (Accepted(l) => em[l.ev] = "emitted")
  BY <1>3, CopyTypes DEF IInv, LInv, LinesEmitted, Accepted
<1>5. handed' = IF Accepted(l)
                THEN [handed EXCEPT ![job[2]][l.ev] = CountUp(@)] ELSE handed
  BY DEF ReadLine
<1>. HIDE DEF l
<1>6. \A p \in Profiles : EventsIn(Content(p))' = EventsIn(Content(p))
  BY <1>1 DEF Content, EventsIn, Accepted
<1>7. \A s \in Sinks, p \in Profiles : AckedEvents(s, p)' = AckedEvents(s, p)
  BY <1>1 DEF AckedEvents, EventsIn, Accepted
<1>8. CASE ~Accepted(l)
  BY <1>1, <1>5, <1>6, <1>7, <1>8, Stutters
<1>9. CASE Accepted(l)
  <2>. DEFINE S == [s \in Sinks |-> {e \in Events : handed[s][e] > 0}]
  <2>. PICK T, x : T = job[2] /\ x = l.ev
    OBVIOUS
  <2>1. handed \in [Sinks -> [Events -> 0..MaxHanded]] /\ \A n \in Nat : CountUp(n) > 0
    BY ConstantsOK DEF IInv, TypeOK, CountUp
  <2>2. \A s \in Sinks, e \in Events :
          handed'[s][e] > 0 <=> handed[s][e] > 0 \/ (s = T /\ e = x)
    <3>1. \A s \in Sinks, e \in Events :
            handed'[s][e] = IF s = T /\ e = x THEN CountUp(handed[s][e]) ELSE handed[s][e]
      BY <1>2, <1>4, <1>5, <1>9, <2>1
    <3>2. \A s \in Sinks, e \in Events : handed[s][e] \in Nat
      BY <2>1
    <3>. QED
      BY <2>1, <3>1, <3>2
  <2>3. \A s \in Sinks :
          {e \in Events : handed'[s][e] > 0} =
            IF s = T THEN {e \in Events : handed[s][e] > 0} \union {x}
                     ELSE {e \in Events : handed[s][e] > 0}
    BY <1>4, <2>2
  <2>4. S' = [S EXCEPT ![T] = @ \union {x}]
    BY <1>2, <2>3
  <2>5. Delivery!Hand(T, x)
    BY <1>1, <1>4, <1>6, <1>7, <1>9, <2>4 DEF Delivery!Hand
  <2>6. \E s \in Sinks, e \in Events : Delivery!Hand(s, e)
    BY <1>2, <1>4, <2>5
  <2>. QED
    BY <2>6 DEF Delivery!Next
<1>. QED
  BY <1>8, <1>9

(* A write that raises has handed out the line, or has not. *)
LEMMA WriteRaisesMaps ==
  ASSUME IInv, LInv, WriteRaises
  PROVE  [Delivery!Next]_(Delivery!vars)
<1>1. /\ UNCHANGED <<live, disk, cursor, em>> /\ LineAhead
      /\ Accepted(disk[fd][cur.pos + 1])
      /\ handed' \in {handed,
                      [handed EXCEPT ![job[2]][disk[fd][cur.pos + 1].ev] = CountUp(@)]}
  BY DEF WriteRaises, files, emitters
<1>2. /\ job[2] \in Sinks /\ fd \in Events /\ cur.pos + 1 \in 1..Len(disk[fd])
      /\ disk[fd][cur.pos + 1].ev \in Events
      /\ handed' \in [Sinks -> [Events -> 0..MaxHanded]]
  BY <1>1, LineHanded
<1>. PICK T, x : T = job[2] /\ x = disk[fd][cur.pos + 1].ev
  OBVIOUS
<1>3. em[x] = "emitted"
  <2>1. disk[fd] \in Copies
    BY <1>2 DEF Copies
  <2>. QED
    BY <1>1, <1>2, <2>1 DEF LInv, LinesEmitted, Accepted
<1>4. \A p \in Profiles : EventsIn(Content(p))' = EventsIn(Content(p))
  BY <1>1 DEF Content, EventsIn, Accepted
<1>5. \A s \in Sinks, p \in Profiles : AckedEvents(s, p)' = AckedEvents(s, p)
  BY <1>1 DEF AckedEvents, EventsIn, Accepted
<1>6. CASE handed' = handed
  BY <1>1, <1>4, <1>5, <1>6, Stutters
<1>7. CASE handed' = [handed EXCEPT ![T][x] = CountUp(@)]
  <2>. DEFINE S == [s \in Sinks |-> {e \in Events : handed[s][e] > 0}]
  <2>1. handed \in [Sinks -> [Events -> 0..MaxHanded]] /\ \A n \in Nat : CountUp(n) > 0
    BY ConstantsOK DEF IInv, TypeOK, CountUp
  <2>2. \A s \in Sinks, e \in Events :
          handed'[s][e] > 0 <=> handed[s][e] > 0 \/ (s = T /\ e = x)
    <3>1. \A s \in Sinks, e \in Events :
            handed'[s][e] = IF s = T /\ e = x THEN CountUp(handed[s][e]) ELSE handed[s][e]
      BY <1>2, <1>7, <2>1
    <3>2. \A s \in Sinks, e \in Events : handed[s][e] \in Nat
      BY <2>1
    <3>. QED
      BY <2>1, <3>1, <3>2
  <2>3. \A s \in Sinks :
          {e \in Events : handed'[s][e] > 0} =
            IF s = T THEN {e \in Events : handed[s][e] > 0} \union {x}
                     ELSE {e \in Events : handed[s][e] > 0}
    BY <1>2, <2>2
  <2>4. S' = [S EXCEPT ![T] = @ \union {x}]
    BY <1>2, <2>3
  <2>5. Delivery!Hand(T, x)
    BY <1>1, <1>2, <1>3, <1>4, <1>5, <2>4 DEF Delivery!Hand
  <2>6. \E s \in Sinks, e \in Events : Delivery!Hand(s, e)
    BY <1>2, <2>5
  <2>. QED
    BY <2>6 DEF Delivery!Next
<1>. QED
  BY <1>1, <1>6, <1>7

(* The end of a pass acknowledges what it covered. *)
LEMMA SaveMaps ==
  ASSUME IInv, LInv, Save
  PROVE  [Delivery!Next]_(Delivery!vars)
<1>1. /\ UNCHANGED <<live, disk, em, handed>> /\ pc = "read"
      /\ cursor' = [cursor EXCEPT ![job[2]][job[1]] = cur]
  BY DEF Save, files, emitters
<1>2. job \in Jobs /\ live[job[1]] # NoFile /\ cur.pos \in Nat
  BY <1>1 DEF IInv, PassOK, TypeOK, CursorType
<1>. PICK S, P : S = job[2] /\ P = job[1]
  OBVIOUS
<1>. DEFINE A == IF cur.ino = live[P] THEN EventsIn(SubSeq(disk[cur.ino], 1, cur.pos)) ELSE {}
<1>3. S \in Sinks /\ P \in Profiles /\ live[P] \in Events
  BY <1>2 DEF Jobs, IInv, TypeOK
<1>4. \A s \in Sinks, p \in Profiles :
        cursor'[s][p] = IF s = S /\ p = P THEN cur ELSE cursor[s][p]
  BY <1>1, <1>3 DEF IInv, TypeOK
<1>5. \A s \in Sinks, p \in Profiles :
        AckedEvents(s, p)' = IF s = S /\ p = P THEN A ELSE AckedEvents(s, p)
  <2>1. \A s \in Sinks, p \in Profiles :
          ~(s = S /\ p = P) => AckedEvents(s, p)' = AckedEvents(s, p)
    <3>. SUFFICES ASSUME NEW s \in Sinks, NEW p \in Profiles, ~(s = S /\ p = P)
                  PROVE  AckedEvents(s, p)' = AckedEvents(s, p)
      OBVIOUS
    <3>1. cursor'[s][p] = cursor[s][p] /\ live'[p] = live[p] /\ disk' = disk
      BY <1>1, <1>4
    <3>2. CASE live[p] # NoFile /\ cursor[s][p].ino = live[p]
      BY <3>1, <3>2 DEF AckedEvents, EventsIn, Accepted
    <3>3. CASE ~(live[p] # NoFile /\ cursor[s][p].ino = live[p])
      BY <3>1, <3>3 DEF AckedEvents
    <3>. QED
      BY <3>2, <3>3
  <2>2. AckedEvents(S, P)' = A
    <3>1. cursor'[S][P] = cur
      BY <1>3, <1>4
    <3>2. CASE cur.ino = live[P]
      BY <1>1, <1>2, <3>1, <3>2 DEF AckedEvents, EventsIn, Accepted
    <3>3. CASE cur.ino # live[P]
      BY <1>1, <3>1, <3>3 DEF AckedEvents
    <3>. QED
      BY <3>2, <3>3
  <2>. QED
    BY <2>1, <2>2
<1>6. CASE cur.ino = live[P]
  <2>. DEFINE i == live[P]
  <2>1. disk[i] \in Seq(Line) /\ Len(disk[i]) \in Nat
    BY <1>3, LenProperties DEF IInv, TypeOK
  <2>2. Covered(S, i, cur.pos)
    BY <1>1, <1>6 DEF IInv, PassOK
  <2>3. cur.pos <= Len(disk[i])
    BY <1>2, <2>1, <2>2 DEF Covered
  <2>4. \A x : x \in A <=> \E n \in 1..cur.pos : Accepted(disk[i][n]) /\ disk[i][n].ev = x
    BY <1>2, <1>6, <2>1, <2>3, EventsInPrefix
  <2>5. A \subseteq EventsIn(Content(P))
    <3>1. Content(P) = disk[i]
      BY <1>2 DEF Content
    <3>2. \A n \in 1..cur.pos : n \in 1..Len(disk[i])
      BY <1>2, <2>1, <2>3
    <3>. QED
      BY <2>4, <3>1, <3>2, EventsInMember
  <2>6. A \subseteq {e \in Events : handed[S][e] > 0}
    <3>1. \A n \in 1..cur.pos : disk[i][n].ev \in Events
      <4>1. disk[i] \in Copies
        BY <1>3 DEF Copies
      <4>. QED
        BY <1>2, <2>1, <2>3, <4>1, CopyTypes DEF IInv
    <3>. QED
      BY <2>2, <2>4, <3>1 DEF Covered
  <2>7. AckedEvents(S, P) \subseteq A
    <3>1. CASE cursor[S][P].ino = i
      <4>. DEFINE k == cursor[S][P].pos
      <4>1. k \in Nat /\ k <= cur.pos
        BY <1>1, <1>3, <1>6, <3>1 DEF IInv, TypeOK, CursorType, LInv, PassForward
      <4>2. AckedEvents(S, P) = EventsIn(SubSeq(disk[i], 1, k))
        BY <1>2, <3>1 DEF AckedEvents
      <4>3. k <= Len(disk[i])
        BY <1>2, <2>1, <2>3, <4>1
      <4>4. \A x : x \in AckedEvents(S, P) <=> \E n \in 1..k : Accepted(disk[i][n]) /\ disk[i][n].ev = x
        <5>1. PICK c, m : c = disk[i] /\ m = k
          OBVIOUS
        <5>2. c \in Seq(Line) /\ m \in Nat /\ m <= Len(c)
          BY <2>1, <4>1, <4>3, <5>1
        <5>3. \A x : x \in EventsIn(SubSeq(c, 1, m))
                      <=> \E n \in 1..m : Accepted(c[n]) /\ c[n].ev = x
          BY <5>2, EventsInPrefix
        <5>. QED
          BY <4>2, <5>1, <5>3
      <4>5. \A n \in 1..k : n \in 1..cur.pos
        BY <1>2, <4>1
      <4>. QED
        BY <2>4, <4>4, <4>5
    <3>2. CASE cursor[S][P].ino # i
      BY <3>2 DEF AckedEvents
    <3>. QED
      BY <3>1, <3>2
  <2>. HIDE DEF A
  <2>8. [s \in Sinks |-> [p \in Profiles |-> AckedEvents(s, p)]]' =
          [[s \in Sinks |-> [p \in Profiles |-> AckedEvents(s, p)]] EXCEPT ![S][P] = A]
    BY <1>3, <1>5
  <2>9. \A p \in Profiles : EventsIn(Content(p))' = EventsIn(Content(p))
    BY <1>1 DEF Content, EventsIn, Accepted
  <2>10. Delivery!Acknowledge(S, P)
    <3>1. A \in SUBSET ([p \in Profiles |-> EventsIn(Content(p))][P]
                          \intersect [s \in Sinks |-> {e \in Events : handed[s][e] > 0}][S])
      BY <1>3, <2>5, <2>6
    <3>2. [s \in Sinks |-> [p \in Profiles |-> AckedEvents(s, p)]][S][P] \subseteq A
      BY <1>3, <2>7
    <3>. QED
      BY <1>1, <2>8, <2>9, <3>1, <3>2 DEF Delivery!Acknowledge
  <2>. QED
    BY <1>3, <2>10 DEF Delivery!Next
<1>7. CASE cur.ino # live[P]
  <2>1. AckedEvents(S, P) = {}
    BY <1>1, <1>7 DEF AckedEvents, LInv, PassForward
  <2>2. \A s \in Sinks, p \in Profiles : AckedEvents(s, p)' = AckedEvents(s, p)
    BY <1>5, <1>7, <2>1
  <2>3. \A p \in Profiles : EventsIn(Content(p))' = EventsIn(Content(p))
    BY <1>1 DEF Content, EventsIn, Accepted
  <2>. QED
    BY <1>1, <2>2, <2>3, Stutters
<1>. QED
  BY <1>6, <1>7

LEMMA InitMaps == Init => Delivery!Init
<1>. SUFFICES ASSUME Init PROVE Delivery!Init
  OBVIOUS
<1>1. \A e \in Events : em[e] = "idle"
  BY DEF Init
<1>2. \A p \in Profiles : EventsIn(Content(p)) = {}
  BY EventsInNone DEF Init, Content
<1>3. \A s \in Sinks, p \in Profiles : AckedEvents(s, p) = {}
  BY DEF Init, AckedEvents
<1>4. \A s \in Sinks : {e \in Events : handed[s][e] > 0} = {}
  BY DEF Init
<1>. QED
  BY <1>1, <1>2, <1>3, <1>4 DEF Delivery!Init

LEMMA NextMaps == IInv /\ LInv /\ [Next]_vars => [Delivery!Next]_(Delivery!vars)
<1>. SUFFICES ASSUME IInv, LInv, [Next]_vars PROVE [Delivery!Next]_(Delivery!vars)
  OBVIOUS
<1>1. ASSUME NEW e \in HookEvents, Hook(e) PROVE [Delivery!Next]_(Delivery!vars)
  <2>1. CASE HookOpen(e)
    BY <2>1, HookOpenMaps
  <2>2. CASE HookWrite(e)
    BY <2>2, HookAddMaps DEF HookWrite, Chunks
  <2>3. CASE HookHead(e)
    BY <2>3, HookAddMaps DEF HookHead, Chunks
  <2>4. CASE HookTail(e)
    BY <2>4, HookAddMaps DEF HookTail, Chunks
  <2>5. CASE HookFail(e)
    BY <2>5, QuietMaps
  <2>. QED
    BY <1>1, <2>1, <2>2, <2>3, <2>4, <2>5 DEF Hook
<1>2. ASSUME NEW e \in TaskEvents, Task(e) PROVE [Delivery!Next]_(Delivery!vars)
  <2>1. CASE TaskReplace(e)
    <3>1. Delivery!Replace(e) /\ e \in Events
      BY <2>1, TaskReplaceMaps DEF Events
    <3>. QED
      BY <3>1 DEF Delivery!Next
  <2>2. CASE TaskRead(e) \/ TaskFail(e)
    BY <2>2, QuietMaps
  <2>. QED
    BY <1>2, <2>1, <2>2 DEF Task
<1>3. CASE ReadLine
  BY <1>3, ReadLineMaps
<1>4. CASE Save
  BY <1>4, SaveMaps
<1>5. CASE \/ \E j \in Jobs : Stat(j)
           \/ Tick \/ Open \/ FatalLine \/ Restart \/ Crash \/ UNCHANGED vars
  BY <1>5, QuietMaps
<1>6. CASE WriteRaises
  BY <1>6, WriteRaisesMaps
<1>. QED
  BY <1>1, <1>2, <1>3, <1>4, <1>5, <1>6 DEF Next, Daemon

(* For any numbers of profiles, sinks, events and kills: the bridge        *)
(* implements at-least-once delivery.                                      *)
THEOREM DeliversAtLeastOnce == Spec => AtLeastOnce
BY InitMaps, NextMaps, InvariantHolds, LinesHold, PTL DEF Spec, AtLeastOnce, Delivery!Spec

=============================================================================
