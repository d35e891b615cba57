------------------------------ MODULE Registry -------------------------------
(***************************************************************************)
(* The life of the server.py processes of all profiles, and the runtime    *)
(* registry they share: one JSON file, profile -> pid, whose every access  *)
(* is inside an flock (core/registry.py).                                  *)
(*                                                                         *)
(* A server is started by launchd, which keeps it alive on the stable port *)
(* of its profile, or by the plugin of a gateway (core/plugin.py), which   *)
(* spawns nothing when that port is taken, reaps the registered server     *)
(* otherwise, and scans for another port if the stable one is taken by     *)
(* then.  A server (core/server.py, main) reaps the registered server too, *)
(* binds, registers, serves, and takes itself out of the registry when it  *)
(* is told to stop.  Every access may fail: the server goes on then, even  *)
(* unlisted, and a file that cannot be read, or parsed, counts as empty.   *)
(*                                                                         *)
(* Abstractions.  An access of the registry that does not wait is one      *)
(* step; kill_stale, which waits for its victim with the lock held, is     *)
(* two.  Probing a port takes no time.  A process that is no server.py is  *)
(* not modelled: a pid it has is treated as that of a dead process.        *)
(***************************************************************************)
EXTENDS Naturals, FiniteSets

CONSTANTS
  Profiles,
  Launchd,     \* launchd jobs, restarted for ever
  Gateways,    \* boots of gateways, each spawning one server at most
  ProfileOf,   \* the profile of each job and each gateway
  Ports,       \* how many ports there are, PORT_RANGE
  StablePort,  \* the port of A2A_PORT, or sha256(profile) % PORT_RANGE
  Pids,        \* pids of servers, which are reused
  NoPid, NoOne,
  MaxFaults    \* bound: kills, stops, reboots, and accesses and calls of ps that fail

Servers == Launchd \union Gateways

ASSUME RegistryConstantsOK ==
  /\ Launchd \intersect Gateways = {}
  /\ ProfileOf \in [Servers -> Profiles]
  /\ Ports \in Nat \ {0}
  /\ StablePort \in [Profiles -> 0..(Ports - 1)]
  /\ NoPid \notin Pids /\ NoOne \notin Servers
  /\ MaxFaults \in Nat

VARIABLES
  entry,      \* entry[p]: the pid registered for p, or NoPid
  lock,       \* who holds the flock across steps, or NoOne
  target,     \* the pid the holder waits for
  pc,         \* what each server does next
  pid,        \* pid[s]: its pid while it runs, or NoPid
  port,       \* port[s]: the port it was given
  signalled,  \* the servers whose SIGTERM handler has run
  stale,      \* history: profiles whose registered server ended with its entry left
  mislaid,    \* history: running servers whose entry was not written, or was taken
  faults      \* history: how many faults there were

vars == <<entry, lock, target, pc, pid, port, signalled, stale, mislaid,
          faults>>

Init ==
  /\ entry     = [p \in Profiles |-> NoPid]
  /\ lock      = NoOne
  /\ target    = NoPid
  /\ pc        = [s \in Servers |-> IF s \in Launchd THEN "off" ELSE "new"]
  /\ pid       = [s \in Servers |-> NoPid]
  /\ port      = [s \in Servers |-> StablePort[ProfileOf[s]]]
  /\ signalled = {}
  /\ stale     = {}
  /\ mislaid   = {}
  /\ faults    = 0

-----------------------------------------------------------------------------
Running(s)  == pid[s] # NoPid
Holders(x)  == {s \in Servers : Running(s) /\ pid[s] = x}
Bound(s)    == pc[s] \in {"bound", "upsert", "serving", "remove", "close"}
Handled(s)  == pc[s] \in {"upsert", "serving", "remove", "close"}
PortFree(n) == ~\E s \in Servers : Bound(s) /\ port[s] = n

(* The processes V end; what they registered stays. *)
PcAfter(V) == [s \in Servers |-> IF s \notin V THEN pc[s]
                                 ELSE IF s \in Launchd THEN "off" ELSE "gone"]

Gone(V) ==
  /\ pid'       = [s \in Servers |-> IF s \in V THEN NoPid ELSE pid[s]]
  /\ signalled' = signalled \ V
  /\ mislaid'   = mislaid \ V

End(V) == pc' = PcAfter(V) /\ Gone(V)

(* The server that is registered for p, and the profiles whose registered  *)
(* server is one of V.                                                     *)
Listed(p)     == {s \in Holders(entry[p]) : ProfileOf[s] = p}
LeftBehind(V) == {p \in Profiles : Listed(p) \intersect V # {}}

Fault      == faults < MaxFaults /\ faults' = faults + 1
FaultIf(b) == IF b THEN Fault ELSE UNCHANGED faults

-----------------------------------------------------------------------------
(* Starting *)

FreshPid(s) ==
  \E x \in Pids : Holders(x) = {} /\ pid' = [pid EXCEPT ![s] = x]

(* KeepAlive; a server reaps with its own pid as skip_pid. *)
LaunchdStart(s) ==
  /\ s \in Launchd
  /\ pc[s] = "off"
  /\ FreshPid(s)
  /\ pc' = [pc EXCEPT ![s] = "kill"]
  /\ UNCHANGED <<entry, lock, target, port, signalled, stale, mislaid, faults>>

(* The plugin's register: a taken port means that launchd has a server. *)
GatewayBoot(s) ==
  /\ s \in Gateways
  /\ pc[s] = "new"
  /\ pc' = [pc EXCEPT ![s] = IF PortFree(StablePort[ProfileOf[s]]) THEN "gwkill" ELSE "gone"]
  /\ UNCHANGED <<entry, lock, target, pid, port, signalled, stale, mislaid, faults>>

(* Faulty variant: the scan runs past the end of the range. *)
GatewaySpawnNoWrap(s) ==
  LET from(k) == StablePort[ProfileOf[s]] + k IN
  /\ pc[s] = "spawn"
  /\ \E k \in 0..(Ports - 1) :
       /\ k = 0 \/ (PortFree(from(k)) /\ \A j \in 0..(k - 1) : ~PortFree(from(j)))
       /\ port' = [port EXCEPT ![s] = from(k)]
  /\ FreshPid(s)
  /\ pc' = [pc EXCEPT ![s] = "kill"]
  /\ UNCHANGED <<entry, lock, target, signalled, stale, mislaid, faults>>

(* _resolve_port and Popen: the port of A2A_PORT, taken or not, if the     *)
(* gateway has it in its environment; or the first free port from the      *)
(* stable one on.                                                          *)
GatewaySpawn(s) ==
  LET from(k) == (StablePort[ProfileOf[s]] + k) % Ports IN
  /\ pc[s] = "spawn"
  /\ \E k \in 0..(Ports - 1) :
       /\ k = 0 \/ (PortFree(from(k)) /\ \A j \in 0..(k - 1) : ~PortFree(from(j)))
       /\ port' = [port EXCEPT ![s] = from(k)]
  /\ FreshPid(s)
  /\ pc' = [pc EXCEPT ![s] = "kill"]
  /\ UNCHANGED <<entry, lock, target, signalled, stale, mislaid, faults>>

-----------------------------------------------------------------------------
(* kill_stale, by the gateway ("gwkill") or by the server ("kill") *)

AfterKill(s) == IF pc[s] \in {"gwkill", "gwwait"} THEN "spawn" ELSE "bind"

MayKill(s) == pc[s] \in {"gwkill", "kill"} /\ lock = NoOne

ClearEntry(s) ==
  /\ entry' = [entry EXCEPT ![ProfileOf[s]] = NoPid]
  /\ stale' = stale \ {ProfileOf[s]}

(* The file cannot be opened, read or written: that is logged, no process  *)
(* is reaped, and the start goes on.                                       *)
KillFails(s) ==
  /\ pc[s] \in {"gwkill", "kill"}
  /\ Fault
  /\ pc' = [pc EXCEPT ![s] = AfterKill(s)]
  /\ UNCHANGED <<entry, lock, target, pid, port, signalled, stale, mislaid>>

(* No entry, or one with the caller's own pid. *)
KillNothing(s) ==
  /\ MayKill(s)
  /\ entry[ProfileOf[s]] \in {NoPid, pid[s]}
  /\ pc' = [pc EXCEPT ![s] = AfterKill(s)]
  /\ UNCHANGED <<entry, lock, target, pid, port, signalled, stale, mislaid, faults>>

(* No process has that pid, or none that is a server. *)
KillDead(s) ==
  /\ MayKill(s)
  /\ entry[ProfileOf[s]] \notin {NoPid, pid[s]}
  /\ Holders(entry[ProfileOf[s]]) = {}
  /\ ClearEntry(s)
  /\ pc' = [pc EXCEPT ![s] = AfterKill(s)]
  /\ UNCHANGED <<lock, target, pid, port, signalled, mislaid, faults>>

(* _pid_is_server fails closed: if ps fails or takes more than two         *)
(* seconds, the process is left alone and its entry dropped.               *)
KillSpares(s) ==
  /\ MayKill(s)
  /\ entry[ProfileOf[s]] \notin {NoPid, pid[s]}
  /\ Holders(entry[ProfileOf[s]]) # {}
  /\ Fault
  /\ mislaid' = mislaid \union Listed(ProfileOf[s])
  /\ ClearEntry(s)
  /\ pc' = [pc EXCEPT ![s] = AfterKill(s)]
  /\ UNCHANGED <<lock, target, pid, port, signalled>>

(* SIGTERM to whatever server has the registered pid: it is told if its    *)
(* handler is installed, and ends if not.                                  *)
KillTerm(s) ==
  LET V    == Holders(entry[ProfileOf[s]])
      told == {v \in V : Handled(v)}
      dead == V \ told
  IN
  /\ MayKill(s)
  /\ entry[ProfileOf[s]] \notin {NoPid, pid[s]}
  /\ V # {}
  /\ pc' = [PcAfter(dead) EXCEPT ![s] = IF pc[s] = "kill" THEN "wait" ELSE "gwwait"]
  /\ pid'       = [v \in Servers |-> IF v \in dead THEN NoPid ELSE pid[v]]
  /\ signalled' = (signalled \union told) \ dead
  /\ mislaid'   = mislaid \ dead
  /\ stale'     = stale \union LeftBehind(dead)
  /\ lock'   = s
  /\ target' = entry[ProfileOf[s]]
  /\ UNCHANGED <<entry, port, faults>>

(* The last write of kill_stale, with the profiles in st stale before it:  *)
(* its entry goes, or stays if the write fails.                            *)
DropVictim(s, st) ==
  \/ /\ entry' = [entry EXCEPT ![ProfileOf[s]] = NoPid]
     /\ stale' = st \ {ProfileOf[s]}
     /\ UNCHANGED faults
  \/ Fault /\ stale' = st /\ UNCHANGED entry

(* The wait for the victim is over: it has ended, ... *)
KillOver(s) ==
  /\ lock = s
  /\ Holders(target) = {}
  /\ DropVictim(s, stale)
  /\ pc'     = [pc EXCEPT ![s] = AfterKill(s)]
  /\ lock'   = NoOne
  /\ target' = NoPid
  /\ UNCHANGED <<pid, port, signalled, mislaid>>

(* Faulty variant: the victim is waited for until it ends. *)
KillForceNever(s) ==
  /\ lock = s
  /\ Holders(target) # {}
  /\ UNCHANGED vars

(* ... or it gets SIGKILL when the grace time is up.  A server that was    *)
(* serving can end before only if its remove, which needs the lock, fails. *)
KillForce(s) ==
  /\ lock = s
  /\ Holders(target) # {}
  /\ pc' = [PcAfter(Holders(target)) EXCEPT ![s] = AfterKill(s)]
  /\ Gone(Holders(target))
  /\ DropVictim(s, stale \union LeftBehind(Holders(target)))
  /\ lock'   = NoOne
  /\ target' = NoPid
  /\ UNCHANGED port

-----------------------------------------------------------------------------
(* main *)

(* A port that is taken ends the process. *)
Bind(s) ==
  /\ pc[s] = "bind"
  /\ IF PortFree(port[s])
     THEN pc' = [pc EXCEPT ![s] = "bound"] /\ UNCHANGED <<pid, signalled, mislaid>>
     ELSE End({s})
  /\ UNCHANGED <<entry, lock, target, port, stale, faults>>

InstallHandlers(s) ==
  /\ pc[s] = "bound"
  /\ pc' = [pc EXCEPT ![s] = "upsert"]
  /\ UNCHANGED <<entry, lock, target, pid, port, signalled, stale, mislaid, faults>>

(* All other entries are lost if the file could not be read. *)
Upsert(s) ==
  /\ pc[s] = "upsert"
  /\ lock = NoOne
  /\ \E lost \in {{}, Profiles \ {ProfileOf[s]}} :
       /\ FaultIf(lost # {})
       /\ entry' = [p \in Profiles |-> IF p = ProfileOf[s] THEN pid[s]
                                       ELSE IF p \in lost THEN NoPid ELSE entry[p]]
       /\ stale' = (stale \ lost) \ {ProfileOf[s]}
       /\ mislaid' = mislaid \union (UNION {Listed(p) : p \in lost}) \union
            {t \in Servers : ProfileOf[t] = ProfileOf[s] /\ t # s
                               /\ pc[t] \in {"serving", "remove"}}
  /\ pc' = [pc EXCEPT ![s] = "serving"]
  /\ UNCHANGED <<lock, target, pid, port, signalled>>

(* "continuing anyway" *)
UpsertFails(s) ==
  /\ pc[s] = "upsert"
  /\ Fault
  /\ mislaid' = mislaid \union {s}
  /\ pc' = [pc EXCEPT ![s] = "serving"]
  /\ UNCHANGED <<entry, lock, target, pid, port, signalled, stale>>

(* Faulty variant: the socket is closed without a remove. *)
ShutdownCloses(s) ==
  /\ pc[s] = "serving"
  /\ s \in signalled
  /\ pc' = [pc EXCEPT ![s] = "close"]
  /\ UNCHANGED <<entry, lock, target, pid, port, signalled, stale, mislaid, faults>>

(* serve_forever returns. *)
Shutdown(s) ==
  /\ pc[s] = "serving"
  /\ s \in signalled
  /\ pc' = [pc EXCEPT ![s] = "remove"]
  /\ UNCHANGED <<entry, lock, target, pid, port, signalled, stale, mislaid, faults>>

(* Faulty variant: no expected_pid. *)
RemoveAny(s) ==
  /\ pc[s] = "remove"
  /\ lock = NoOne
  /\ ClearEntry(s)
  /\ pc' = [pc EXCEPT ![s] = "close"]
  /\ UNCHANGED <<lock, target, pid, port, signalled, mislaid, faults>>

(* The entry of a successor is left alone. *)
Remove(s) ==
  /\ pc[s] = "remove"
  /\ lock = NoOne
  /\ IF entry[ProfileOf[s]] = pid[s] THEN ClearEntry(s) ELSE UNCHANGED <<entry, stale>>
  /\ pc' = [pc EXCEPT ![s] = "close"]
  /\ UNCHANGED <<lock, target, pid, port, signalled, mislaid, faults>>

(* The file cannot be opened, read or written: the entry stays. *)
RemoveFails(s) ==
  /\ pc[s] = "remove"
  /\ Fault
  /\ stale' = stale \union LeftBehind({s})
  /\ pc' = [pc EXCEPT ![s] = "close"]
  /\ UNCHANGED <<entry, lock, target, pid, port, signalled, mislaid>>

Close(s) ==
  /\ pc[s] = "close"
  /\ End({s})
  /\ UNCHANGED <<entry, lock, target, port, stale, faults>>

-----------------------------------------------------------------------------
(* get_all and cleanup_stale drop the entries that ps finds no server for, *)
(* those it fails on included.                                             *)
Prune ==
  /\ lock = NoOne
  /\ \E missed \in SUBSET {p \in Profiles : entry[p] # NoPid /\ Holders(entry[p]) # {}} :
       LET gone == missed \union {p \in Profiles : entry[p] # NoPid /\ Holders(entry[p]) = {}}
       IN
       /\ gone # {}
       /\ FaultIf(missed # {})
       /\ entry'   = [p \in Profiles |-> IF p \in gone THEN NoPid ELSE entry[p]]
       /\ stale'   = stale \ gone
       /\ mislaid' = mislaid \union UNION {Listed(p) : p \in missed}
  /\ UNCHANGED <<lock, target, pc, pid, port, signalled>>

(* The file is damaged, and so has no entries for whoever reads it; the    *)
(* next write makes that true.                                             *)
Damage ==
  /\ lock = NoOne
  /\ Fault
  /\ entry'   = [p \in Profiles |-> NoPid]
  /\ stale'   = {}
  /\ mislaid' = mislaid \union UNION {Listed(p) : p \in Profiles}
  /\ UNCHANGED <<lock, target, pc, pid, port, signalled>>

(* A SIGTERM from outside: launchctl, or the _cleanup of the gateway.  One *)
(* that comes before the handler is installed is a Kill.                   *)
Stop(s) ==
  /\ Handled(s)
  /\ s \notin signalled
  /\ Fault
  /\ signalled' = signalled \union {s}
  /\ UNCHANGED <<entry, lock, target, pc, pid, port, stale, mislaid>>

(* A SIGKILL, or the end of a gateway before its spawn; the kernel         *)
(* releases the flock.                                                     *)
Kill(s) ==
  /\ pc[s] \notin {"new", "off", "gone"}
  /\ Fault
  /\ End({s})
  /\ stale'  = stale \union LeftBehind({s})
  /\ lock'   = IF lock = s THEN NoOne ELSE lock
  /\ target' = IF lock = s THEN NoPid ELSE target
  /\ UNCHANGED <<entry, port>>

(* The registry outlives a reboot, the pids do not. *)
Reboot ==
  /\ Fault
  /\ End({s \in Servers : pc[s] # "new"})
  /\ stale'  = stale \union {p \in Profiles : entry[p] # NoPid}
  /\ lock'   = NoOne
  /\ target' = NoPid
  /\ UNCHANGED <<entry, port>>

-----------------------------------------------------------------------------
Reap(s)  == KillNothing(s) \/ KillDead(s) \/ KillTerm(s) \/ KillOver(s) \/ KillForce(s)
Serve(s) == Bind(s) \/ InstallHandlers(s) \/ Upsert(s) \/ Shutdown(s) \/ Remove(s) \/ Close(s)
Work(s)  == LaunchdStart(s) \/ GatewaySpawn(s) \/ Reap(s) \/ Serve(s)

Next ==
  \/ \E s \in Servers : \/ Work(s) \/ GatewayBoot(s) \/ Stop(s) \/ Kill(s)
                       \/ KillSpares(s) \/ KillFails(s) \/ UpsertFails(s) \/ RemoveFails(s)
  \/ Prune
  \/ Damage
  \/ Reboot

Spec == Init /\ [][Next]_vars

(* Every process goes on, and launchd restarts its jobs; nobody owes a     *)
(* boot of a gateway, a prune or a fault.                                  *)
FairSpec == Spec /\ \A s \in Servers : WF_vars(Work(s))

-----------------------------------------------------------------------------
(* Properties *)

TypeOK ==
  /\ entry     \in [Profiles -> Pids \union {NoPid}]
  /\ lock      \in Servers \union {NoOne}
  /\ target    \in Pids \union {NoPid}
  /\ pc        \in [Servers -> {"new", "off", "gone", "gwkill", "gwwait", "spawn", "kill",
                                "wait", "bind", "bound", "upsert", "serving", "remove", "close"}]
  /\ pid       \in [Servers -> Pids \union {NoPid}]
  /\ port      \in [Servers -> 0..(Ports - 1)]
  /\ signalled \subseteq Servers
  /\ stale     \subseteq Profiles
  /\ mislaid   \subseteq Servers
  /\ faults    \in 0..MaxFaults

(* A server that serves and was not told to stop is the registered one of  *)
(* its profile, however starts, stops, reaps and kills interleave: unless  *)
(* another server of the profile registered after it, ps failed on it, or  *)
(* the file failed: at its own upsert, or by being unreadable or damaged.  *)
ServingListed ==
  \A s \in Servers :
    pc[s] = "serving" /\ s \notin signalled
      => entry[ProfileOf[s]] = pid[s] \/ s \in mislaid

(* An entry leads to a server of its profile that is bound and has not     *)
(* finished its shutdown, unless that server was killed or failed to       *)
(* remove it: no stop in good order leaves an entry behind for a fast      *)
(* restart to see (core/server.py:411-413).                                *)
EntryOwned ==
  \A p \in Profiles :
    entry[p] # NoPid /\ p \notin stale
      => \E s \in Holders(entry[p]) :
           ProfileOf[s] = p /\ pc[s] \in {"serving", "remove"}

(* The starters of a profile do not reap each other for ever, and a reaper *)
(* that holds the lock its victim needs does not stop everybody: once      *)
(* there are no more faults and boots, some server of every profile that   *)
(* launchd starts serves for good.                                         *)
Settles ==
  \A p \in {ProfileOf[s] : s \in Launchd} :
    <>[](\E s \in Servers : ProfileOf[s] = p /\ pc[s] = "serving")

(* kill_stale is documented to kill "any prior server.py owned by profile" *)
(* (core/registry.py:230): no SIGTERM of a reaper reaches the server of    *)
(* another profile.                                                        *)
ReapsOwnProfile ==
  [][lock = NoOne /\ lock' # NoOne =>
       \A v \in Holders(target') : ProfileOf[v] = ProfileOf[lock']]_vars

(* The plugin consults the registry and kills any prior server of its      *)
(* profile, "preventing accumulation" (core/plugin.py:11-13): no two  *)
(* servers of a profile serve at once.  For the record: it does not hold   *)
(* for two starts at once, and no run checks it.                           *)
NoAccumulation ==
  \A s, t \in Servers :
    /\ ProfileOf[s] = ProfileOf[t]
    /\ pc[s] = "serving" /\ s \notin signalled
    /\ pc[t] = "serving" /\ t \notin signalled
    => s = t

=============================================================================
