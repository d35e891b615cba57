--------------------------- MODULE RegistryProofs ----------------------------
(***************************************************************************)
(* Proofs about the registry, for any profiles, servers, ports and pids:   *)
(* a server that serves is listed, and an entry has an owner.              *)
(***************************************************************************)
EXTENDS Registry, TLAPS

(* A process has a pid from its start to its end, and no two have one pid. *)
PidsOK ==
  /\ \A s \in Servers :
       Running(s) <=> pc[s] \in {"kill", "wait", "bind"} \/ Bound(s)
  /\ \A s, t \in Servers : Running(s) /\ pid[s] = pid[t] => s = t

(* The flock is held across steps by a process that is reaping, and the    *)
(* entry it will drop stays what it was: another's pid.                    *)
LockOK ==
  /\ \A s \in Servers : pc[s] \in {"wait", "gwwait"} => lock = s
  /\ lock # NoOne =>
       /\ pc[lock] \in {"wait", "gwwait"}
       /\ entry[ProfileOf[lock]] = target
       /\ target # pid[lock]
       /\ target # NoPid

IInv == TypeOK /\ PidsOK /\ LockOK /\ ServingListed /\ EntryOwned

LEMMA InitIInv == Init => IInv
<1>. SUFFICES ASSUME Init PROVE IInv
  OBVIOUS
<1>. USE RegistryConstantsOK DEF Init
<1>1. TypeOK
  BY DEF TypeOK, Servers
<1>2. PidsOK
  BY DEF PidsOK, Running, Bound
<1>3. LockOK
  BY DEF LockOK
<1>4. ServingListed /\ EntryOwned
  BY DEF ServingListed, EntryOwned
<1>. QED
  BY <1>1, <1>2, <1>3, <1>4 DEF IInv

-----------------------------------------------------------------------------
(* Starting *)

LEMMA LaunchdStartStep ==
  ASSUME IInv, NEW s \in Servers, LaunchdStart(s)
  PROVE  IInv'
<1>. USE RegistryConstantsOK DEF IInv, LaunchdStart
<1>. PICK x \in Pids : Holders(x) = {} /\ pid' = [pid EXCEPT ![s] = x]
  BY DEF FreshPid
<1>1. TypeOK'
  BY DEF TypeOK
<1>2. PidsOK'
  BY DEF TypeOK, PidsOK, Running, Bound, Holders
<1>3. LockOK'
  BY DEF TypeOK, LockOK
<1>4. ServingListed'
  BY DEF TypeOK, ServingListed
<1>5. EntryOwned'
  BY DEF TypeOK, EntryOwned, Holders, Running
<1>. QED
  BY <1>1, <1>2, <1>3, <1>4, <1>5

LEMMA GatewaySpawnStep ==
  ASSUME IInv, NEW s \in Servers, GatewaySpawn(s)
  PROVE  IInv'
<1>. USE RegistryConstantsOK DEF IInv, GatewaySpawn
<1>. PICK x \in Pids : Holders(x) = {} /\ pid' = [pid EXCEPT ![s] = x]
  BY DEF FreshPid
<1>0. port' \in [Servers -> 0..(Ports - 1)]
  BY DEF TypeOK
<1>1. TypeOK'
  BY <1>0 DEF TypeOK
<1>2. PidsOK'
  BY DEF TypeOK, PidsOK, Running, Bound, Holders
<1>3. LockOK'
  BY DEF TypeOK, LockOK
<1>4. ServingListed'
  BY DEF TypeOK, ServingListed
<1>5. EntryOwned'
  BY DEF TypeOK, EntryOwned, Holders, Running
<1>. QED
  BY <1>1, <1>2, <1>3, <1>4, <1>5

LEMMA GatewayBootStep ==
  ASSUME IInv, NEW s \in Servers, GatewayBoot(s)
  PROVE  IInv'
<1>. USE DEF IInv, GatewayBoot
<1>1. TypeOK'
  BY DEF TypeOK
<1>2. PidsOK'
  BY DEF TypeOK, PidsOK, Running, Bound
<1>3. LockOK'
  BY DEF TypeOK, LockOK
<1>4. ServingListed'
  BY DEF TypeOK, ServingListed
<1>5. EntryOwned'
  BY DEF TypeOK, EntryOwned, Holders, Running
<1>. QED
  BY <1>1, <1>2, <1>3, <1>4, <1>5

-----------------------------------------------------------------------------
(* Reaping *)

LEMMA KillNothingStep ==
  ASSUME IInv, NEW s \in Servers, KillNothing(s)
  PROVE  IInv'
<1>. USE DEF IInv, KillNothing, MayKill, AfterKill
<1>1. TypeOK'
  BY DEF TypeOK
<1>2. PidsOK'
  BY DEF TypeOK, PidsOK, Running, Bound
<1>3. LockOK'
  BY DEF TypeOK, LockOK
<1>4. ServingListed'
  BY DEF TypeOK, ServingListed
<1>5. EntryOwned'
  BY DEF TypeOK, EntryOwned, Holders, Running
<1>. QED
  BY <1>1, <1>2, <1>3, <1>4, <1>5

LEMMA KillDeadStep ==
  ASSUME IInv, NEW s \in Servers, KillDead(s)
  PROVE  IInv'
<1>. USE RegistryConstantsOK DEF IInv, KillDead, MayKill, AfterKill, ClearEntry
<1>1. TypeOK'
  BY DEF TypeOK
<1>2. PidsOK'
  BY DEF TypeOK, PidsOK, Running, Bound
<1>3. LockOK'
  BY DEF TypeOK, LockOK
<1>4. ServingListed'
  BY DEF TypeOK, ServingListed, PidsOK, Bound, Holders
<1>5. EntryOwned'
  BY DEF TypeOK, EntryOwned, Holders, Running
<1>. QED
  BY <1>1, <1>2, <1>3, <1>4, <1>5

LEMMA KillFailsStep ==
  ASSUME IInv, NEW s \in Servers, KillFails(s)
  PROVE  IInv'
<1>. USE DEF IInv, KillFails, AfterKill, Fault
<1>1. TypeOK'
  BY RegistryConstantsOK DEF TypeOK
<1>2. PidsOK'
  BY DEF TypeOK, PidsOK, Running, Bound
<1>3. LockOK'
  BY DEF TypeOK, LockOK
<1>4. ServingListed'
  BY DEF TypeOK, ServingListed
<1>5. EntryOwned'
  BY DEF TypeOK, EntryOwned, Holders, Running
<1>. QED
  BY <1>1, <1>2, <1>3, <1>4, <1>5

LEMMA KillSparesStep ==
  ASSUME IInv, NEW s \in Servers, KillSpares(s)
  PROVE  IInv'
<1>. USE RegistryConstantsOK DEF IInv, KillSpares, MayKill, AfterKill, ClearEntry
<1>0. faults' \in 0..MaxFaults /\ mislaid' \subseteq Servers
  BY DEF TypeOK, Fault, Listed, Holders
<1>1. TypeOK'
  BY <1>0 DEF TypeOK
<1>2. PidsOK'
  BY DEF TypeOK, PidsOK, Running, Bound
<1>3. LockOK'
  BY DEF TypeOK, LockOK
<1>4. ServingListed'
  BY DEF TypeOK, ServingListed, PidsOK, Bound, Holders, Listed
<1>5. EntryOwned'
  BY DEF TypeOK, EntryOwned, Holders, Running
<1>. QED
  BY <1>1, <1>2, <1>3, <1>4, <1>5

LEMMA KillTermStep ==
  ASSUME IInv, NEW s \in Servers, KillTerm(s)
  PROVE  IInv'
<1>. DEFINE V    == Holders(entry[ProfileOf[s]])
            told == {v \in V : Handled(v)}
            dead == V \ told
<1>. USE RegistryConstantsOK DEF IInv, MayKill
<1>0. /\ s \notin V
      /\ pc[s] \in {"gwkill", "kill"} /\ lock = NoOne
      /\ entry[ProfileOf[s]] \notin {NoPid, pid[s]}
      /\ pc' = [PcAfter(dead) EXCEPT ![s] = IF pc[s] = "kill" THEN "wait" ELSE "gwwait"]
      /\ pid' = [v \in Servers |-> IF v \in dead THEN NoPid ELSE pid[v]]
      /\ signalled' = (signalled \union told) \ dead
      /\ mislaid' = mislaid \ dead
      /\ stale' = stale \union LeftBehind(dead)
      /\ lock' = s
      /\ target' = entry[ProfileOf[s]]
      /\ UNCHANGED <<entry, port, faults>>
  BY DEF KillTerm, Holders
<1>1. TypeOK'
  BY <1>0 DEF TypeOK, PcAfter, LeftBehind, Holders
<1>2. PidsOK'
  BY <1>0 DEF TypeOK, PidsOK, Running, Bound, PcAfter, Holders
<1>3. LockOK'
  BY <1>0 DEF TypeOK, LockOK, PcAfter, Holders
<1>4. ServingListed'
  BY <1>0 DEF TypeOK, ServingListed, PcAfter
<1>5. EntryOwned'
  BY <1>0 DEF TypeOK, EntryOwned, Holders, Running, PcAfter, LeftBehind, Listed
<1>. QED
  BY <1>1, <1>2, <1>3, <1>4, <1>5

LEMMA KillOverStep ==
  ASSUME IInv, NEW s \in Servers, KillOver(s)
  PROVE  IInv'
<1>. USE RegistryConstantsOK DEF IInv, KillOver, AfterKill, DropVictim, Fault
<1>0. entry[ProfileOf[s]] = target /\ pc[s] \in {"wait", "gwwait"}
  BY DEF LockOK
<1>1. TypeOK'
  BY DEF TypeOK
<1>2. PidsOK'
  BY <1>0 DEF TypeOK, PidsOK, Running, Bound
<1>3. LockOK'
  BY <1>0 DEF TypeOK, LockOK
<1>4. ServingListed'
  BY <1>0 DEF TypeOK, ServingListed, PidsOK, Bound, Holders
<1>5. EntryOwned'
  BY <1>0 DEF TypeOK, EntryOwned, Holders, Running
<1>. QED
  BY <1>1, <1>2, <1>3, <1>4, <1>5

LEMMA KillForceStep ==
  ASSUME IInv, NEW s \in Servers, KillForce(s)
  PROVE  IInv'
<1>. DEFINE V == Holders(target)
<1>. USE RegistryConstantsOK DEF IInv, KillForce, AfterKill, Gone, DropVictim, Fault
<1>0. /\ entry[ProfileOf[s]] = target
      /\ pc[s] \in {"wait", "gwwait"}
      /\ s \notin V
  BY DEF LockOK, Holders
<1>1. TypeOK'
  BY DEF TypeOK, PcAfter, LeftBehind
<1>2. PidsOK'
  BY <1>0 DEF TypeOK, PidsOK, Running, Bound, PcAfter, Holders
<1>3. LockOK'
  BY <1>0 DEF TypeOK, LockOK, PcAfter
<1>4. ServingListed'
  BY <1>0 DEF TypeOK, ServingListed, PidsOK, Bound, Holders, PcAfter
<1>5. EntryOwned'
  <2>. SUFFICES ASSUME NEW p \in Profiles, entry'[p] # NoPid, p \notin stale'
                PROVE  \E v \in Holders(entry[p])' :
                         ProfileOf[v] = p /\ pc'[v] \in {"serving", "remove"}
    BY DEF EntryOwned
  <2>1. entry'[p] = entry[p] /\ p \notin stale /\ p \notin LeftBehind(V)
    BY DEF TypeOK
  <2>2. PICK v \in Holders(entry[p]) : ProfileOf[v] = p /\ pc[v] \in {"serving", "remove"}
    BY <2>1 DEF EntryOwned
  <2>3. v \notin V
    BY <2>1, <2>2 DEF LeftBehind, Listed
  <2>. QED
    BY <1>0, <2>1, <2>2, <2>3 DEF TypeOK, Holders, Running, PcAfter
<1>. QED
  BY <1>1, <1>2, <1>3, <1>4, <1>5
-----------------------------------------------------------------------------
(* Serving *)

LEMMA BindStep ==
  ASSUME IInv, NEW s \in Servers, Bind(s)
  PROVE  IInv'
<1>. USE RegistryConstantsOK DEF IInv, Bind, End, Gone
<1>1. TypeOK'
  BY DEF TypeOK, PcAfter
<1>2. PidsOK'
  BY DEF TypeOK, PidsOK, Running, Bound, PcAfter
<1>3. LockOK'
  BY DEF TypeOK, LockOK, PcAfter
<1>4. ServingListed'
  BY DEF TypeOK, ServingListed, PcAfter
<1>5. EntryOwned'
  BY DEF TypeOK, EntryOwned, Holders, Running, PcAfter
<1>. QED
  BY <1>1, <1>2, <1>3, <1>4, <1>5

LEMMA InstallHandlersStep ==
  ASSUME IInv, NEW s \in Servers, InstallHandlers(s)
  PROVE  IInv'
<1>. USE DEF IInv, InstallHandlers
<1>1. TypeOK'
  BY DEF TypeOK
<1>2. PidsOK'
  BY DEF TypeOK, PidsOK, Running, Bound
<1>3. LockOK'
  BY DEF TypeOK, LockOK
<1>4. ServingListed'
  BY DEF TypeOK, ServingListed
<1>5. EntryOwned'
  BY DEF TypeOK, EntryOwned, Holders, Running
<1>. QED
  BY <1>1, <1>2, <1>3, <1>4, <1>5

LEMMA UpsertStep ==
  ASSUME IInv, NEW s \in Servers, Upsert(s)
  PROVE  IInv'
<1>. USE RegistryConstantsOK DEF IInv
<1>. PICK lost \in {{}, Profiles \ {ProfileOf[s]}} :
       /\ FaultIf(lost # {})
       /\ entry' = [p \in Profiles |-> IF p = ProfileOf[s] THEN pid[s]
                                       ELSE IF p \in lost THEN NoPid ELSE entry[p]]
       /\ stale' = (stale \ lost) \ {ProfileOf[s]}
       /\ mislaid' = mislaid \union (UNION {Listed(p) : p \in lost}) \union
            {t \in Servers : ProfileOf[t] = ProfileOf[s] /\ t # s
                               /\ pc[t] \in {"serving", "remove"}}
  BY DEF Upsert
<1>0. /\ pc[s] = "upsert" /\ lock = NoOne
      /\ pc' = [pc EXCEPT ![s] = "serving"]
      /\ UNCHANGED <<lock, target, pid, port, signalled>>
      /\ faults' \in 0..MaxFaults
      /\ mislaid' \subseteq Servers
      /\ lost \subseteq Profiles /\ ProfileOf[s] \in Profiles \ lost
  <2>1. faults' \in 0..MaxFaults
    BY DEF TypeOK, FaultIf, Fault
  <2>2. mislaid' \subseteq Servers
    <3>. DEFINE M == UNION {Listed(p) : p \in lost}
                T == {t \in Servers : ProfileOf[t] = ProfileOf[s] /\ t # s
                                       /\ pc[t] \in {"serving", "remove"}}
    <3>1. M \subseteq Servers /\ T \subseteq Servers
      BY DEF Listed, Holders
    <3>2. mislaid \subseteq Servers
      BY DEF TypeOK
    <3>3. mislaid' = mislaid \union M \union T
      OBVIOUS
    <3>. HIDE DEF M, T
    <3>. QED
      BY ONLY <3>1, <3>2, <3>3
  <2>. QED
    BY <2>1, <2>2 DEF Upsert
<1>a. Running(s) /\ pid[s] \in Pids
  BY <1>0 DEF PidsOK, Bound, Running, TypeOK
<1>1. TypeOK'
  BY <1>0, <1>a DEF TypeOK
<1>2. PidsOK'
  BY <1>0 DEF TypeOK, PidsOK, Running, Bound
<1>3. LockOK'
  BY <1>0 DEF TypeOK, LockOK
<1>4. ServingListed'
  <2>. SUFFICES ASSUME NEW v \in Servers, pc'[v] = "serving", v \notin signalled
                PROVE  entry'[ProfileOf[v]] = pid[v] \/ v \in mislaid'
    BY <1>0 DEF ServingListed
  <2>1. CASE v = s
    BY <1>0, <2>1
  <2>2. CASE v # s
    <3>1. pc[v] = "serving" /\ ProfileOf[v] \in Profiles
      BY <1>0, <2>2 DEF TypeOK
    <3>2. v \in mislaid \/ entry[ProfileOf[v]] = pid[v]
      BY <3>1 DEF ServingListed
    <3>3. CASE ProfileOf[v] = ProfileOf[s]
      BY <2>2, <3>1, <3>3
    <3>4. CASE ProfileOf[v] \in lost
      <4>1. entry[ProfileOf[v]] = pid[v] => v \in Listed(ProfileOf[v])
        BY <3>1 DEF Listed, Holders, PidsOK, Bound
      <4>. DEFINE M == UNION {Listed(p) : p \in lost}
      <4>2. v \in Listed(ProfileOf[v]) => v \in M
        BY <3>4
      <4>3. M \subseteq mislaid' /\ mislaid \subseteq mislaid'
        OBVIOUS
      <4>. HIDE DEF M
      <4>. QED
        BY ONLY <3>2, <4>1, <4>2, <4>3
    <3>5. CASE ProfileOf[v] # ProfileOf[s] /\ ProfileOf[v] \notin lost
      <4>1. entry'[ProfileOf[v]] = entry[ProfileOf[v]]
        BY <3>1, <3>5
      <4>. QED
        BY <3>2, <4>1
    <3>. QED
      BY <3>3, <3>4, <3>5
  <2>. QED
    BY <2>1, <2>2
<1>5. EntryOwned'
  <2>. SUFFICES ASSUME NEW p \in Profiles, entry'[p] # NoPid, p \notin stale'
                PROVE  \E v \in Servers :
                         /\ pid[v] # NoPid /\ pid[v] = entry'[p]
                         /\ ProfileOf[v] = p /\ pc'[v] \in {"serving", "remove"}
    BY <1>0 DEF EntryOwned, Holders, Running
  <2>1. CASE p = ProfileOf[s]
    BY <1>0, <1>a, <2>1 DEF Running, TypeOK
  <2>2. CASE p # ProfileOf[s]
    <3>1. entry'[p] = entry[p] /\ p \notin stale
      BY <2>2
    <3>2. PICK v \in Holders(entry[p]) : ProfileOf[v] = p /\ pc[v] \in {"serving", "remove"}
      BY <3>1 DEF EntryOwned
    <3>. QED
      BY <1>0, <3>1, <3>2 DEF Holders, Running, TypeOK
  <2>. QED
    BY <2>1, <2>2
<1>. QED
  BY <1>1, <1>2, <1>3, <1>4, <1>5

LEMMA UpsertFailsStep ==
  ASSUME IInv, NEW s \in Servers, UpsertFails(s)
  PROVE  IInv'
<1>. USE DEF IInv, UpsertFails, Fault
<1>1. TypeOK'
  BY RegistryConstantsOK DEF TypeOK
<1>2. PidsOK'
  BY DEF TypeOK, PidsOK, Running, Bound
<1>3. LockOK'
  BY DEF TypeOK, LockOK
<1>4. ServingListed'
  BY DEF TypeOK, ServingListed
<1>5. EntryOwned'
  BY DEF TypeOK, EntryOwned, Holders, Running
<1>. QED
  BY <1>1, <1>2, <1>3, <1>4, <1>5

LEMMA ShutdownStep ==
  ASSUME IInv, NEW s \in Servers, Shutdown(s)
  PROVE  IInv'
<1>. USE DEF IInv, Shutdown
<1>1. TypeOK'
  BY DEF TypeOK
<1>2. PidsOK'
  BY DEF TypeOK, PidsOK, Running, Bound
<1>3. LockOK'
  BY DEF TypeOK, LockOK
<1>4. ServingListed'
  BY DEF TypeOK, ServingListed
<1>5. EntryOwned'
  BY DEF TypeOK, EntryOwned, Holders, Running
<1>. QED
  BY <1>1, <1>2, <1>3, <1>4, <1>5

(* Here a pid must be one server's: the entry that goes is not another's. *)
LEMMA RemoveStep ==
  ASSUME IInv, NEW s \in Servers, Remove(s)
  PROVE  IInv'
<1>. USE RegistryConstantsOK DEF IInv, Remove, ClearEntry
<1>1. TypeOK'
  BY DEF TypeOK
<1>2. PidsOK'
  BY DEF TypeOK, PidsOK, Running, Bound
<1>3. LockOK'
  BY DEF TypeOK, LockOK
<1>4. ServingListed'
  <2>. SUFFICES ASSUME NEW v \in Servers, pc'[v] = "serving", v \notin signalled
                PROVE  entry'[ProfileOf[v]] = pid[v] \/ v \in mislaid
    BY DEF ServingListed
  <2>1. v # s /\ pc[v] = "serving"
    BY DEF TypeOK
  <2>2. entry[ProfileOf[v]] = pid[v] \/ v \in mislaid
    BY <2>1 DEF ServingListed
  <2>3. pid[v] # pid[s]
    BY <2>1 DEF PidsOK, Bound
  <2>. QED
    BY <2>2, <2>3 DEF TypeOK
<1>5. EntryOwned'
  BY DEF TypeOK, EntryOwned, PidsOK, Holders, Running
<1>. QED
  BY <1>1, <1>2, <1>3, <1>4, <1>5

LEMMA RemoveFailsStep ==
  ASSUME IInv, NEW s \in Servers, RemoveFails(s)
  PROVE  IInv'
<1>. USE DEF IInv, RemoveFails, Fault
<1>1. TypeOK'
  BY RegistryConstantsOK DEF TypeOK, LeftBehind
<1>2. PidsOK'
  BY DEF TypeOK, PidsOK, Running, Bound
<1>3. LockOK'
  BY DEF TypeOK, LockOK
<1>4. ServingListed'
  BY DEF TypeOK, ServingListed
<1>5. EntryOwned'
  <2>1. ASSUME NEW p \in Profiles, entry[p] # NoPid, p \notin stale'
        PROVE  \E v \in Servers :
                 /\ pid[v] # NoPid /\ pid[v] = entry[p]
                 /\ ProfileOf[v] = p /\ pc'[v] \in {"serving", "remove"}
    <3>1. PICK v \in Holders(entry[p]) : ProfileOf[v] = p /\ pc[v] \in {"serving", "remove"}
      BY <2>1 DEF EntryOwned
    <3>2. v # s
      BY <2>1, <3>1 DEF LeftBehind, Listed
    <3>. QED
      BY <3>1, <3>2 DEF Holders, Running, TypeOK
  <2>2. UNCHANGED <<entry, pid>>
    OBVIOUS
  <2>. QED
    BY ONLY <2>1, <2>2 DEF EntryOwned, Holders, Running
<1>. QED
  BY <1>1, <1>2, <1>3, <1>4, <1>5

LEMMA CloseStep ==
  ASSUME IInv, NEW s \in Servers, Close(s)
  PROVE  IInv'
<1>. USE RegistryConstantsOK DEF IInv, Close, End, Gone
<1>1. TypeOK'
  BY DEF TypeOK, PcAfter
<1>2. PidsOK'
  BY DEF TypeOK, PidsOK, Running, Bound, PcAfter
<1>3. LockOK'
  BY DEF TypeOK, LockOK, PcAfter
<1>4. ServingListed'
  BY DEF TypeOK, ServingListed, PcAfter
<1>5. EntryOwned'
  BY DEF TypeOK, EntryOwned, Holders, Running, PcAfter
<1>. QED
  BY <1>1, <1>2, <1>3, <1>4, <1>5

-----------------------------------------------------------------------------
(* Pruning and faults *)

LEMMA PruneStep ==
  ASSUME IInv, Prune
  PROVE  IInv'
<1>. USE RegistryConstantsOK DEF IInv
<1>. PICK missed \in SUBSET {p \in Profiles : entry[p] # NoPid /\ Holders(entry[p]) # {}} :
       LET gone == missed \union {p \in Profiles : entry[p] # NoPid /\ Holders(entry[p]) = {}}
       IN
       /\ FaultIf(missed # {})
       /\ entry'   = [p \in Profiles |-> IF p \in gone THEN NoPid ELSE entry[p]]
       /\ stale'   = stale \ gone
       /\ mislaid' = mislaid \union UNION {Listed(p) : p \in missed}
  BY DEF Prune
<1>0. /\ lock = NoOne
      /\ UNCHANGED <<lock, target, pc, pid, port, signalled>>
      /\ faults' \in 0..MaxFaults
      /\ mislaid' \subseteq Servers
  BY DEF Prune, TypeOK, Fault, FaultIf, Listed, Holders
<1>1. TypeOK'
  BY <1>0 DEF TypeOK
<1>2. PidsOK'
  BY <1>0 DEF PidsOK, Running, Bound
<1>3. LockOK'
  BY <1>0 DEF LockOK
<1>4. ServingListed'
  <2>. SUFFICES ASSUME NEW s \in Servers, pc[s] = "serving", s \notin signalled
                PROVE  entry'[ProfileOf[s]] = pid[s] \/ s \in mislaid'
    BY <1>0 DEF ServingListed
  <2>1. CASE s \in mislaid
    BY <2>1
  <2>2. CASE entry[ProfileOf[s]] = pid[s]
    <3>1. s \in Listed(ProfileOf[s]) /\ ProfileOf[s] \in Profiles
      BY <2>2 DEF Listed, Holders, PidsOK, Bound
    <3>2. CASE ProfileOf[s] \in missed
      BY <3>1, <3>2
    <3>3. CASE ProfileOf[s] \notin missed
      BY <2>2, <3>1, <3>3 DEF Listed
    <3>. QED
      BY <3>2, <3>3
  <2>. QED
    BY <2>1, <2>2 DEF ServingListed
<1>5. EntryOwned'
  BY <1>0 DEF TypeOK, EntryOwned, Holders, Running
<1>. QED
  BY <1>1, <1>2, <1>3, <1>4, <1>5

LEMMA DamageStep ==
  ASSUME IInv, Damage
  PROVE  IInv'
<1>. USE DEF IInv, Damage, Fault
<1>1. TypeOK'
  BY RegistryConstantsOK DEF TypeOK, Listed, Holders
<1>2. PidsOK'
  BY DEF TypeOK, PidsOK, Running, Bound
<1>3. LockOK'
  BY DEF TypeOK, LockOK
<1>4. ServingListed'
  <2>. SUFFICES ASSUME NEW s \in Servers, pc[s] = "serving", s \notin signalled
                PROVE  s \in mislaid'
    BY DEF ServingListed
  <2>1. entry[ProfileOf[s]] = pid[s] => s \in Listed(ProfileOf[s]) /\ ProfileOf[s] \in Profiles
    BY RegistryConstantsOK DEF Listed, Holders, PidsOK, Bound
  <2>. QED
    BY <2>1 DEF ServingListed
<1>5. EntryOwned'
  BY DEF TypeOK, EntryOwned, Holders, Running
<1>. QED
  BY <1>1, <1>2, <1>3, <1>4, <1>5

LEMMA StopStep ==
  ASSUME IInv, NEW s \in Servers, Stop(s)
  PROVE  IInv'
<1>. USE DEF IInv, Stop
<1>1. TypeOK'
  BY RegistryConstantsOK DEF TypeOK, Fault
<1>2. PidsOK'
  BY DEF PidsOK, Running, Bound
<1>3. LockOK'
  BY DEF LockOK
<1>4. ServingListed'
  BY DEF ServingListed
<1>5. EntryOwned'
  BY DEF EntryOwned, Holders, Running
<1>. QED
  BY <1>1, <1>2, <1>3, <1>4, <1>5

LEMMA KillStep ==
  ASSUME IInv, NEW s \in Servers, Kill(s)
  PROVE  IInv'
<1>. USE RegistryConstantsOK DEF IInv, Kill, End, Gone
<1>1. TypeOK'
  BY DEF TypeOK, PcAfter, LeftBehind, Fault
<1>2. PidsOK'
  BY DEF TypeOK, PidsOK, Running, Bound, PcAfter
<1>3. LockOK'
  BY DEF TypeOK, LockOK, PcAfter
<1>4. ServingListed'
  BY DEF TypeOK, ServingListed, PcAfter
<1>5. EntryOwned'
  <2>1. ASSUME NEW p \in Profiles, entry[p] # NoPid, p \notin stale'
        PROVE  \E v \in Servers :
                 /\ pid'[v] # NoPid /\ pid'[v] = entry[p]
                 /\ ProfileOf[v] = p /\ pc'[v] \in {"serving", "remove"}
    <3>1. PICK v \in Holders(entry[p]) : ProfileOf[v] = p /\ pc[v] \in {"serving", "remove"}
      BY <2>1 DEF EntryOwned
    <3>2. v # s
      BY <2>1, <3>1 DEF LeftBehind, Listed
    <3>. QED
      BY <3>1, <3>2 DEF Holders, Running, PcAfter
  <2>2. entry' = entry
    OBVIOUS
  <2>. QED
    BY ONLY <2>1, <2>2 DEF EntryOwned, Holders, Running
<1>. QED
  BY <1>1, <1>2, <1>3, <1>4, <1>5

LEMMA RebootStep ==
  ASSUME IInv, Reboot
  PROVE  IInv'
<1>. USE RegistryConstantsOK DEF IInv, Reboot, End, Gone
<1>1. TypeOK'
  BY DEF TypeOK, PcAfter, Fault
<1>2. PidsOK'
  BY DEF TypeOK, PidsOK, Running, Bound, PcAfter
<1>3. LockOK'
  BY DEF TypeOK, LockOK, PcAfter
<1>4. ServingListed'
  BY DEF TypeOK, ServingListed, PcAfter
<1>5. EntryOwned'
  BY DEF TypeOK, EntryOwned
<1>. QED
  BY <1>1, <1>2, <1>3, <1>4, <1>5

-----------------------------------------------------------------------------
LEMMA NextIInv == IInv /\ [Next]_vars => IInv'
<1>. SUFFICES ASSUME IInv, [Next]_vars PROVE IInv'
  OBVIOUS
<1>1. ASSUME NEW s \in Servers, Reap(s) PROVE IInv'
  BY <1>1, KillNothingStep, KillDeadStep, KillTermStep, KillOverStep, KillForceStep DEF Reap
<1>2. ASSUME NEW s \in Servers, Serve(s) PROVE IInv'
  BY <1>2, BindStep, InstallHandlersStep, UpsertStep, ShutdownStep, RemoveStep, CloseStep
     DEF Serve
<1>3. ASSUME NEW s \in Servers, Work(s) PROVE IInv'
  BY <1>1, <1>2, <1>3, LaunchdStartStep, GatewaySpawnStep DEF Work
<1>4. CASE UNCHANGED vars
  BY <1>4 DEF IInv, vars, TypeOK, PidsOK, LockOK, ServingListed, EntryOwned,
              Running, Bound, Holders
<1>. QED
  BY <1>3, <1>4, GatewayBootStep, KillSparesStep, KillFailsStep, UpsertFailsStep,
     RemoveFailsStep, StopStep, KillStep, PruneStep, DamageStep, RebootStep
     DEF Next

LEMMA InvariantHolds == Spec => []IInv
<1>. QED
  BY InitIInv, NextIInv, PTL DEF Spec

(* The types of the registry's state hold in every reachable state. *)
THEOREM TypeCorrect == Spec => []TypeOK
<1>1. IInv => TypeOK
  BY DEF IInv
<1>. QED
  BY <1>1, InvariantHolds, PTL

(* Whatever servers start, reap, stop and die in whatever order, and       *)
(* whatever access of the file fails, a server that serves and was not     *)
(* told to stop is the registered one of its profile, with the exceptions  *)
(* that ServingListed names.                                               *)
THEOREM ServingIsListed == Spec => []ServingListed
<1>1. IInv => ServingListed
  BY DEF IInv
<1>. QED
  BY <1>1, InvariantHolds, PTL

(* An entry of the registry leads to a server of its profile that has not  *)
(* finished its shutdown, unless that server was killed or failed to       *)
(* remove it.                                                              *)
THEOREM EntryHasOwner == Spec => []EntryOwned
<1>1. IInv => EntryOwned
  BY DEF IInv
<1>. QED
  BY <1>1, InvariantHolds, PTL

=============================================================================
