--------------------------- MODULE XrayLifecycle ---------------------------
(***************************************************************************)
(* How a change in the panel's database reaches the running xray core:     *)
(* the restart flag and its 10-second consumer, RestartXray under the      *)
(* package lock, hot application over the core's gRPC control plane with   *)
(* fallback to a restart, the core as an OS process that is killed,        *)
(* crashes and fails to bind, and the watchdog job                         *)
(* (web/service/xray.go, xray/process.go, web/job/check_xray_running_job,  *)
(* the consumer of web/controller/inbound.go).                             *)
(*                                                                         *)
(* A configuration is a function from Parts to a version, 0 or 1.  What    *)
(* ComputeHotDiff decides about a pair of configurations is stated here    *)
(* part by part and checked as an algorithm in module HotDiff.             *)
(*                                                                         *)
(* Process.Start forks the core in a goroutine; Launch takes Start up to   *)
(* that fork as one step (Start runs another binary, xray -version, before *)
(* it returns, and the package lock is held meanwhile).                    *)
(***************************************************************************)
EXTENDS Naturals

CONSTANTS
  Consumers,    \* goroutines that cron starts for the restart flag's consumer
  Admin,        \* the goroutine that starts the panel, upgrades the core or reloads the panel
  Slots,        \* numbered OS-process slots
  None,         \* no thread, no process
  Edits,        \* the sets of parts that one request of an administrator or a job changes
  MaxEdits,     \* bound: requests that write the database and then raise the flag
  MaxEvents     \* bound: settings saved, upgrades, crashes, lost binds, failed RPCs, failed
                \* starts and configurations that could not be synthesised, all together

(***************************************************************************)
(* "in", "out", "route": inbounds, outbounds and routing rules that the    *)
(* control plane can swap; "meter": the metering outbounds and their       *)
(* rules; "static": what ComputeHotDiff refuses to swap (Reality inbounds, *)
(* the api inbound, the default outbound, log, dns, policy...);            *)
(* "setting": the static part that comes from the settings page;           *)
(* "layout": white space and key order.                                    *)
(***************************************************************************)
Parts == {"in", "out", "meter", "route", "static", "setting", "layout"}
Material == Parts \ {"layout"}
Restart == {"static", "setting"}

Threads == Consumers \cup {Admin}

ASSUME LifecycleAssumption ==
  /\ Slots \subseteq Nat
  /\ Admin \notin Consumers /\ None \notin Threads /\ None \notin Slots
  /\ Edits \subseteq SUBSET (Parts \ {"setting"})
  /\ MaxEdits \in Nat /\ MaxEvents \in Nat

Config == [Parts -> {0, 1}]
Gone == 2                      \* deleted by an RPC and not added back yet
CoreState == [Material -> {0, 1, Gone}]
Default == [q \in Parts |-> 0]
Body(c) == [q \in Material |-> c[q]]

VARIABLES
  db,         \* the configuration the database would synthesise
  unsent,     \* requests that have written the database and not yet raised the flag
  need,       \* isNeedXrayRestart
  pc,         \* pc[t]: what goroutine t is doing
  lock,       \* holder of the package lock, or None
  phase,      \* how far the holder is in RestartXray
  force,      \* the holder's isForce
  new,        \* the holder's xrayConfig
  todo,       \* RPCs of the hot diff not yet sent
  p,          \* slot of the current *xray.Process, or None
  snap,       \* p.config, what GetConfig returns
  os,         \* os[i]: the operating system's view of slot i
  core,       \* configuration the serving core holds
  gen,        \* xrayApplyGen
  checkTime,  \* CheckXrayRunningJob.checkTime
  obs,        \* history: last RuntimeSnapshot of a running core
  swallowed,  \* history: the last RestartXray was given up for want of a configuration
  left        \* remaining bounds

vars == <<db, unsent, need, pc, lock, phase, force, new, todo, p, snap, os, core, gen,
          checkTime, obs, swallowed, left>>
reading  == <<db, unsent, need>>
process  == <<p, snap, os, core>>
holding  == <<force, new, todo>>

Running(i) == os[i] \in {"starting", "serving", "dying", "zombie"}
IsRunning == p # None /\ Running(p)
Serving == p # None /\ os[p] = "serving"

-----------------------------------------------------------------------------
(***************************************************************************)
(* The plan of tryHotApply, in its order: 1 DelInbound, 2 AddInbound,      *)
(* 3 DelOutbound, 4 AddOutbound, 5 ApplyRoutingConfig.                     *)
(***************************************************************************)
Touches(k) == CASE k \in {1, 2} -> {"in"}
                [] k \in {3, 4} -> {"out", "meter"}
                [] k = 5 -> {"route", "meter"}

Differ(c, d, Q) == \E q \in Q : c[q] # d[q]
Plan(old, cfg) == {k \in 1..5 : Differ(old, cfg, Touches(k))}

(* OnlyTouchesTags: the diff swaps metering outbounds and rules only. *)
MeterOnlyForgetsOutbounds(old, cfg) == ~Differ(old, cfg, Material \ {"meter", "out"})
MeterOnly(old, cfg) == ~Differ(old, cfg, Material \ {"meter"})

(* The core refuses to delete a tag it lacks and to add one it holds. *)
Accepts(k) == \A q \in Touches(k) : snap[q] # new[q] =>
                 CASE k \in {1, 3} -> core[q] = snap[q]
                   [] k \in {2, 4} -> core[q] = Gone
                   [] k = 5 -> TRUE
AfterReplacesAll(k) == [q \in Material |->
                          IF q \in Touches(k) THEN IF k \in {1, 3} THEN Gone ELSE new[q] ELSE core[q]]
After(k) == [q \in Material |->
               IF q \in Touches(k) /\ snap[q] # new[q]
               THEN IF k \in {1, 3} THEN Gone ELSE new[q]
               ELSE core[q]]

Spend(b) == left[b] > 0 /\ left' = [left EXCEPT ![b] = @ - 1]

-----------------------------------------------------------------------------
Init ==
  /\ db = Default /\ unsent = 0 /\ need = FALSE
  /\ pc = [t \in Threads |-> IF t = Admin THEN "force" ELSE "idle"]
  /\ lock = None /\ phase = "free" /\ force = FALSE /\ new = Default /\ todo = {}
  /\ p = None /\ snap = Default
  /\ os = [i \in Slots |-> "idle"] /\ core = Body(Default)
  /\ gen = 0 /\ checkTime = 0 /\ obs = None /\ swallowed = FALSE
  /\ left = [edits |-> MaxEdits, events |-> MaxEvents]

(***************************************************************************)
(* Handlers and jobs: the database is written first, SetToNeedRestart      *)
(* follows as a step of its own.                                           *)
(***************************************************************************)
Flip(Q) == [q \in Parts |-> IF q \in Q THEN 1 - db[q] ELSE db[q]]

Edit(Q) ==
  /\ Spend("edits")
  /\ db' = Flip(Q) /\ unsent' = unsent + 1
  /\ UNCHANGED <<need, pc, lock, phase, holding, process, gen, obs, checkTime, swallowed>>

SetToNeedRestart ==
  /\ unsent > 0
  /\ unsent' = unsent - 1 /\ need' = TRUE
  /\ UNCHANGED <<db, pc, lock, phase, holding, process, gen, obs, checkTime, swallowed, left>>

(* SettingController.updateSetting: nothing raises the flag. *)
SaveSetting ==
  /\ Spend("events")
  /\ db' = Flip({"setting"})
  /\ UNCHANGED <<unsent, need, pc, lock, phase, holding, process, gen, obs, checkTime, swallowed>>

-----------------------------------------------------------------------------
(* The 10-second consumer: compare-and-swap the flag, then RestartXray(false). *)
Consume(t) ==
  /\ pc[t] = "idle" /\ need
  /\ need' = FALSE
  /\ pc' = [pc EXCEPT ![t] = "wait"]
  /\ UNCHANGED <<db, unsent, lock, phase, holding, process, gen, obs, checkTime, swallowed, left>>

(* Process.Stop: Kill is asynchronous, and an error is ignored by the callers. *)
KillForgotten(state) == state
Killed(state) == IF state \in {"starting", "serving"} THEN "dying" ELSE state

(***************************************************************************)
(* UpdateXray, and a panel reload: StopXray as soon as the lock is free,   *)
(* RestartXray(true) later, with the lock released in between.             *)
(***************************************************************************)
Upgrade ==
  /\ pc[Admin] = "idle" /\ lock = None /\ Spend("events")
  /\ os' = IF p = None THEN os ELSE [os EXCEPT ![p] = Killed(os[p])]
  /\ pc' = [pc EXCEPT ![Admin] = "force"]
  /\ UNCHANGED <<reading, lock, phase, holding, p, snap, core, gen, obs, checkTime, swallowed>>

-----------------------------------------------------------------------------
(***************************************************************************)
(* RuntimeSnapshot reads p's configuration and the generation together     *)
(* under TryLock: obs is what it returns as soon as the lock is free.      *)
(***************************************************************************)
Routing(c) == [q \in Material \ {"meter"} |-> c[q]]
RuntimeSnapshot == [gen |-> gen, routing |-> Routing(snap)]

(***************************************************************************)
(* RestartXray, step by step under the package lock, from Acquire to       *)
(* Release; its local variables are cleared with it.                       *)
(***************************************************************************)
ReleaseWithoutUnlock(t) ==
  /\ lock' = lock /\ phase' = "free" /\ pc' = [pc EXCEPT ![t] = "idle"]
  /\ force' = FALSE /\ new' = Default /\ todo' = {} /\ obs' = obs
Release(t) ==
  /\ lock' = None /\ phase' = "free" /\ pc' = [pc EXCEPT ![t] = "idle"]
  /\ force' = FALSE /\ new' = Default /\ todo' = {}
  /\ obs' = IF IsRunning' THEN RuntimeSnapshot' ELSE obs

(***************************************************************************)
(* GetXrayConfig reads the template and the inbounds first; routing,       *)
(* outbounds and settings follow (ReadRest), and no transaction spans the  *)
(* reads.                                                                  *)
(***************************************************************************)
Acquire(t) ==
  /\ pc[t] \in {"wait", "force"} /\ lock = None
  /\ lock' = t /\ phase' = "read" /\ force' = (pc[t] = "force")
  /\ pc' = [pc EXCEPT ![t] = "locked"]
  /\ new' = db
  /\ UNCHANGED <<reading, todo, process, gen, obs, checkTime, swallowed, left>>

ReadRest(t) ==
  /\ lock = t /\ phase = "read"
  /\ new' = [q \in Parts |-> IF q \in {"in", "static", "layout"} THEN new[q] ELSE db[q]]
  /\ phase' = "decide" /\ swallowed' = FALSE
  /\ UNCHANGED <<reading, pc, lock, force, todo, process, gen, obs, checkTime, left>>

ReadFails(t) ==
  /\ lock = t /\ phase = "read"
  /\ Spend("events") /\ swallowed' = TRUE
  /\ UNCHANGED <<reading, process, gen, checkTime>>
  /\ Release(t)

(* Config.Equals: nothing to do. *)
NotNeeded(t) ==
  /\ lock = t /\ phase = "decide"
  /\ IsRunning /\ ~force /\ snap = new
  /\ UNCHANGED <<reading, process, gen, checkTime, swallowed, left>>
  /\ Release(t)

Hot == IsRunning /\ ~force /\ snap # new /\ ~Differ(snap, new, Restart)

(* An empty diff: only the panel's snapshot follows. *)
SyncLayout(t) ==
  /\ lock = t /\ phase = "decide" /\ Hot
  /\ Plan(snap, new) = {}
  /\ snap' = new
  /\ UNCHANGED <<reading, p, os, core, gen, checkTime, swallowed, left>>
  /\ Release(t)

GoHot(t) ==
  /\ lock = t /\ phase = "decide" /\ Hot
  /\ Plan(snap, new) # {}
  /\ todo' = Plan(snap, new) /\ phase' = "rpc"
  /\ UNCHANGED <<reading, pc, lock, force, new, process, gen, obs, checkTime, swallowed, left>>

First(k) == k \in todo /\ \A j \in todo : k <= j

RpcOk(t) ==
  /\ lock = t /\ phase = "rpc" /\ Serving
  /\ \E k \in todo : /\ First(k) /\ Accepts(k)
                     /\ core' = After(k) /\ todo' = todo \ {k}
  /\ UNCHANGED <<reading, pc, lock, phase, force, new, p, snap, os, gen, obs, checkTime, swallowed, left>>

(* A failed RPC may have had its effect (a reply lost to the deadline). *)
RpcFailureIgnored(t) ==
  /\ lock = t /\ phase = "rpc"
  /\ \E k \in todo : First(k) /\ Spend("events") /\ todo' = todo \ {k}
  /\ UNCHANGED <<reading, pc, lock, phase, force, new, process, gen, obs, checkTime, swallowed>>
RpcFails(t) ==
  /\ lock = t /\ phase = "rpc"
  /\ \E k \in todo :
       /\ First(k)
       /\ IF Serving /\ Accepts(k)
          THEN Spend("events") /\ core' \in {core, After(k)}
          ELSE UNCHANGED <<core, left>>
  /\ phase' = "launch" /\ todo' = {}
  /\ UNCHANGED <<reading, pc, lock, force, new, p, snap, os, gen, obs, checkTime, swallowed>>

(* SetConfig after the last RPC; a metering-only diff leaves the generation alone. *)
CommitForgetsSetConfig(t) ==
  /\ lock = t /\ phase = "rpc" /\ todo = {}
  /\ gen' = IF MeterOnly(snap, new) THEN gen ELSE gen + 1
  /\ UNCHANGED <<reading, process, checkTime, swallowed, left>>
  /\ Release(t)
Commit(t) ==
  /\ lock = t /\ phase = "rpc" /\ todo = {}
  /\ snap' = new
  /\ gen' = IF MeterOnly(snap, new) THEN gen ELSE gen + 1
  /\ UNCHANGED <<reading, p, os, core, checkTime, swallowed, left>>
  /\ Release(t)

(***************************************************************************)
(* Stop the old process, NewProcess, Start: because the change cannot be   *)
(* applied hot, the core is down, the caller insists, or an RPC failed.    *)
(* Slots whose process is gone and which are not p are free again.         *)
(***************************************************************************)
MustRestart == \/ phase = "launch"
               \/ phase = "decide" /\ ~Hot /\ (IsRunning /\ ~force => snap # new)
OldStopped == [i \in Slots |-> IF i # p THEN os[i]
                               ELSE IF os[i] = "exited" THEN "idle" ELSE Killed(os[i])]
FreeSlot(i) == i # p /\ os[i] = "idle" /\ \A j \in Slots : j # p /\ os[j] = "idle" => i <= j

Launch(t) ==
  /\ lock = t /\ MustRestart
  /\ \E i \in Slots : /\ FreeSlot(i)
                      /\ p' = i /\ os' = [OldStopped EXCEPT ![i] = "starting"]
  /\ snap' = new /\ gen' = gen + 1
  /\ UNCHANGED <<reading, core, checkTime, swallowed, left>>
  /\ Release(t)

(* Start fails before the fork (config.json cannot be written): p is the new, dead process. *)
StartFails(t) ==
  /\ lock = t /\ MustRestart /\ Spend("events")
  /\ \E i \in Slots : FreeSlot(i) /\ p' = i /\ os' = OldStopped
  /\ snap' = new
  /\ UNCHANGED <<reading, core, gen, checkTime, swallowed>>
  /\ Release(t)

-----------------------------------------------------------------------------
(* The core process. *)
PortsHeld(i) == \E j \in Slots : j # i /\ os[j] \in {"serving", "dying"}

(* It reads config.json, which Start wrote from p.config, and binds its ports. *)
Load(i) ==
  /\ os[i] = "starting" /\ ~PortsHeld(i)
  /\ os' = [os EXCEPT ![i] = "serving"] /\ core' = Body(snap)
  /\ UNCHANGED <<reading, pc, lock, phase, holding, p, snap, gen, obs, checkTime, swallowed, left>>

(* A crash, or the ports were still held by the predecessor. *)
Crash(i) ==
  /\ os[i] \in {"starting", "serving"} /\ Spend("events")
  /\ os' = [os EXCEPT ![i] = "zombie"]
  /\ UNCHANGED <<reading, pc, lock, phase, holding, p, snap, core, gen, obs, checkTime, swallowed>>

(* The process is gone, its ports are free and cmd.Run has returned: only now   *)
(* ProcessState is set and IsRunning false.                                     *)
Reap(i) ==
  /\ os[i] \in {"dying", "zombie"}
  /\ os' = [os EXCEPT ![i] = IF i = p THEN "exited" ELSE "idle"]
  /\ UNCHANGED <<reading, pc, lock, phase, holding, p, snap, core, gen, obs, checkTime, swallowed, left>>

-----------------------------------------------------------------------------
(* CheckXrayRunningJob.Run: the flag is raised from the second miss on. *)
MissesByValueReceiver == IF IsRunning THEN 0 ELSE 1
Misses == IF IsRunning THEN 0 ELSE IF checkTime < 2 THEN checkTime + 1 ELSE 2

Watchdog ==
  /\ checkTime' = Misses
  /\ need' = (need \/ Misses = 2)
  /\ UNCHANGED <<db, unsent, pc, lock, phase, holding, process, gen, obs, swallowed, left>>

-----------------------------------------------------------------------------
Restarting(t) ==
  \/ ReadRest(t) \/ NotNeeded(t) \/ SyncLayout(t) \/ GoHot(t)
  \/ RpcOk(t) \/ RpcFails(t) \/ Commit(t) \/ Launch(t)

CoreLives(i) == Load(i) \/ Reap(i)

Next ==
  \/ \E Q \in Edits : Edit(Q)
  \/ SetToNeedRestart \/ SaveSetting \/ Upgrade \/ Watchdog
  \/ \E t \in Consumers : Consume(t)
  \/ \E t \in Threads : Acquire(t) \/ Restarting(t) \/ ReadFails(t) \/ StartFails(t)
  \/ \E i \in Slots : CoreLives(i) \/ Crash(i)

(***************************************************************************)
(* Fairness: cron fires the consumer and the watchdog for ever, a handler  *)
(* that wrote the database goes on to raise the flag, code that holds the  *)
(* lock runs on, the operating system starts, kills and reaps processes,   *)
(* and sync.Mutex does not starve a waiter.                                *)
(***************************************************************************)
Fairness ==
  /\ WF_vars(SetToNeedRestart) /\ WF_vars(Watchdog)
  /\ WF_vars(\E t \in Consumers : Consume(t))
  /\ \A t \in Threads : SF_vars(Acquire(t)) /\ WF_vars(Restarting(t))
  /\ \A i \in Slots : WF_vars(CoreLives(i))

Spec == Init /\ [][Next]_vars
FairSpec == Spec /\ Fairness

-----------------------------------------------------------------------------
Phases == {"free", "read", "decide", "rpc", "launch"}

(* Every variable has its type, and the lock is held exactly while somebody is *)
(* inside RestartXray, whatever return statement ends it.                      *)
TypeOK ==
  /\ db \in Config /\ unsent \in Nat /\ need \in BOOLEAN
  /\ pc \in [Threads -> {"idle", "wait", "force", "locked"}]
  /\ lock \in Threads \cup {None} /\ phase \in Phases
  /\ force \in BOOLEAN /\ new \in Config /\ todo \in SUBSET (1..5)
  /\ p \in Slots \cup {None} /\ snap \in Config
  /\ os \in [Slots -> {"idle", "starting", "serving", "dying", "zombie", "exited"}]
  /\ core \in CoreState /\ gen \in Nat /\ checkTime \in 0..2
  /\ obs \in [gen : Nat, routing : [Material \ {"meter"} -> {0, 1}]] \cup {None}
  /\ swallowed \in BOOLEAN
  /\ left \in [{"edits", "events"} -> Nat]
  /\ (lock = None) = (phase = "free")
  /\ \A t \in Threads : (pc[t] = "locked") = (lock = t)

(* What the panel believes the core holds is what the core holds, whenever     *)
(* nobody is inside RestartXray: partial hot applications never survive, and a *)
(* complete one is recorded.                                                   *)
SnapshotFaithful == lock = None /\ Serving => core = Body(snap)

(* Every core that could serve traffic is the one the panel would stop: no     *)
(* process is left running after p has moved on.                               *)
NoUnattendedCore == \A i \in Slots : os[i] \in {"starting", "serving"} => i = p

(* Two observations of a running core with one generation were made under the  *)
(* same routing conclusions (the metering rules excepted): what the routing    *)
(* audit keeps per generation is never about another configuration.            *)
SameGenSameRouting ==
  [][obs # None /\ obs'.gen = obs.gen => obs'.routing = obs.routing]_obs

(* The core never refuses a step of the plan: deletions come before additions  *)
(* and the diff is taken against what the core holds, so no tag is deleted     *)
(* twice or added over an old one and no connection is cut for a change that   *)
(* could have been applied hot.                                                *)
PlanAccepted ==
  phase = "rpc" /\ Serving => \A k \in todo : First(k) => Accepts(k)

(* The panel as those behind the core see it: one change at a time, with a     *)
(* goal the database has asked for since it began, that touches nothing but    *)
(* what it changes and leaves the old state, the goal or a dead core.          *)
Stage == IF phase \in {"free", "read"} THEN phase ELSE "acting"
Served == INSTANCE CoreService
            WITH Start <- Default, wanted <- db, goal <- new, settled <- snap,
                 stage <- Stage, up <- Serving, held <- core
ServesAsPromised == Served!Spec

(* The core serves what the requests asked for. *)
Delivered == \A q \in Material \ {"setting"} : core[q] = db[q]

(* Once edits and faults cease a core serves, and serves the database's state, *)
(* whatever races came before; the one exception is a request whose            *)
(* configuration could not be synthesised, which nothing repeats.              *)
Converges == <>[](Serving /\ lock = None /\ (Delivered \/ swallowed))

(* A saved setting reaches the core, as the settings page promises. *)
SettingsTakeEffect == <>[](swallowed \/ core["setting"] = db["setting"])
=============================================================================
