----------------------- MODULE XrayLifecycleProofs -----------------------
(***************************************************************************)
(* Theorems about XrayLifecycle for any goroutines, process slots, edits   *)
(* and bounds: the type invariant, that no core is left running behind the *)
(* panel's back, that the panel's snapshot is what the core holds, that    *)
(* the core accepts every step of a hot plan, and that one generation      *)
(* stands for one set of routing conclusions.                              *)
(***************************************************************************)
EXTENDS XrayLifecycle, TLAPS

USE LifecycleAssumption

-----------------------------------------------------------------------------
(* Facts about configurations and plans. *)

LEMMA PartsOfSteps ==
  /\ Touches(1) = {"in"} /\ Touches(2) = {"in"}
  /\ Touches(3) = {"out", "meter"} /\ Touches(4) = {"out", "meter"}
  /\ Touches(5) = {"route", "meter"}
BY DEF Touches

LEMMA StepCases == \A k \in 1..5 : k = 1 \/ k = 2 \/ k = 3 \/ k = 4 \/ k = 5
OBVIOUS

LEMMA TouchesMaterial == \A k \in 1..5 : Touches(k) \subseteq Material
BY StepCases, PartsOfSteps DEF Material, Parts

LEMMA BodyType == ASSUME NEW c \in Config PROVE Body(c) \in CoreState
BY DEF Config, Body, CoreState, Material

LEMMA DefaultType == Default \in Config
BY DEF Default, Config

-----------------------------------------------------------------------------
(* Types. *)

LEMMA ReleaseTypes ==
  ASSUME TypeOK, NEW t \in Threads, lock = t, Release(t),
         p' \in Slots \cup {None}, snap' \in Config, gen' \in Nat
  PROVE  /\ pc' \in [Threads -> {"idle", "wait", "force", "locked"}]
         /\ lock' = None /\ phase' = "free" /\ force' \in BOOLEAN
         /\ new' \in Config /\ todo' \in SUBSET (1..5)
         /\ obs' \in [gen : Nat, routing : [Material \ {"meter"} -> {0, 1}]] \cup {None}
         /\ \A u \in Threads : (pc'[u] = "locked") = (lock' = u)
<1>1. RuntimeSnapshot' \in [gen : Nat, routing : [Material \ {"meter"} -> {0, 1}]]
  BY DEF RuntimeSnapshot, Routing, Config, Material
<1>2. \A u \in Threads : (pc'[u] = "locked") = (lock' = u)
  BY DEF TypeOK, Release, Threads
<1> QED
  BY <1>1, <1>2, DefaultType DEF TypeOK, Release

LEMMA SpendType ==
  ASSUME TypeOK, NEW b \in {"edits", "events"}, Spend(b)
  PROVE  left' \in [{"edits", "events"} -> Nat]
BY DEF TypeOK, Spend

LEMMA OldStoppedType ==
  ASSUME TypeOK
  PROVE  OldStopped \in [Slots -> {"idle", "starting", "serving", "dying", "zombie", "exited"}]
BY DEF TypeOK, OldStopped, Killed

LEMMA AfterType ==
  ASSUME TypeOK, NEW k \in 1..5 PROVE After(k) \in CoreState
BY DEF TypeOK, After, CoreState, Config, Material, Parts

LEMMA TypeInit == Init => TypeOK
<1> SUFFICES ASSUME Init PROVE TypeOK
  OBVIOUS
<1>1. Default \in Config /\ Body(Default) \in CoreState
  BY DefaultType, BodyType
<1>2. left \in [{"edits", "events"} -> Nat]
  BY DEF Init
<1>3. /\ pc \in [Threads -> {"idle", "wait", "force", "locked"}]
      /\ \A t \in Threads : (pc[t] = "locked") = (lock = t)
  BY DEF Init
<1>4. os \in [Slots -> {"idle", "starting", "serving", "dying", "zombie", "exited"}]
  BY DEF Init
<1>5. lock \in Threads \cup {None} /\ phase \in Phases /\ (lock = None) = (phase = "free")
  BY DEF Init, Phases
<1>6. db \in Config /\ new \in Config /\ snap \in Config /\ core \in CoreState
  BY <1>1 DEF Init
<1>7. p \in Slots \cup {None} /\ todo \in SUBSET (1..5) /\ checkTime \in 0..2 /\ gen \in Nat
  BY DEF Init
<1> QED
  BY <1>2, <1>3, <1>4, <1>5, <1>6, <1>7 DEF Init, TypeOK

LEMMA TypeStep == TypeOK /\ [Next]_vars => TypeOK'
<1> SUFFICES ASSUME TypeOK, [Next]_vars PROVE TypeOK'
  OBVIOUS
<1>1. ASSUME NEW Q \in Edits, Edit(Q) PROVE TypeOK'
  <2>1. db' \in Config
    BY <1>1 DEF Edit, Flip, TypeOK, Config
  <2>2. left' \in [{"edits", "events"} -> Nat]
    BY <1>1, SpendType DEF Edit
  <2> QED
    BY <1>1, <2>1, <2>2 DEF Edit, TypeOK, holding, process
<1>2. CASE SetToNeedRestart
  BY <1>2 DEF SetToNeedRestart, TypeOK, holding, process
<1>3. CASE SaveSetting
  <2>1. db' \in Config
    BY <1>3 DEF SaveSetting, Flip, TypeOK, Config
  <2>2. left' \in [{"edits", "events"} -> Nat]
    BY <1>3, SpendType DEF SaveSetting
  <2> QED
    BY <1>3, <2>1, <2>2 DEF SaveSetting, TypeOK, holding, process
<1>4. CASE Upgrade
  <2>1. left' \in [{"edits", "events"} -> Nat]
    BY <1>4, SpendType DEF Upgrade
  <2>2. os' \in [Slots -> {"idle", "starting", "serving", "dying", "zombie", "exited"}]
    BY <1>4 DEF Upgrade, TypeOK, Killed
  <2>3. /\ pc' \in [Threads -> {"idle", "wait", "force", "locked"}]
        /\ \A u \in Threads : (pc'[u] = "locked") = (lock' = u)
    BY <1>4 DEF Upgrade, TypeOK, Threads
  <2> QED
    BY <1>4, <2>1, <2>2, <2>3 DEF Upgrade, TypeOK, reading, holding
<1>5. CASE Watchdog
  <2>1. Misses \in 0..2
    BY DEF Misses, TypeOK
  <2> QED
    BY <1>5, <2>1 DEF Watchdog, TypeOK, holding, process
<1>6. ASSUME NEW t \in Consumers, Consume(t) PROVE TypeOK'
  <2>1. t \in Threads
    BY DEF Threads
  <2>2. /\ pc' \in [Threads -> {"idle", "wait", "force", "locked"}]
        /\ \A u \in Threads : (pc'[u] = "locked") = (lock' = u)
    BY <1>6, <2>1 DEF Consume, TypeOK
  <2> QED
    BY <1>6, <2>2 DEF Consume, TypeOK, holding, process
<1>7. ASSUME NEW t \in Threads, Acquire(t) PROVE TypeOK'
  <2>1. /\ pc' \in [Threads -> {"idle", "wait", "force", "locked"}]
        /\ \A u \in Threads : (pc'[u] = "locked") = (lock' = u)
    BY <1>7 DEF Acquire, TypeOK
  <2> QED
    BY <1>7, <2>1 DEF Acquire, TypeOK, Phases, reading, process
<1>8. ASSUME NEW t \in Threads, ReadRest(t) PROVE TypeOK'
  <2>1. new' \in Config
    BY <1>8 DEF ReadRest, TypeOK, Config
  <2> QED
    BY <1>8, <2>1 DEF ReadRest, TypeOK, Phases, reading, process
<1>9. ASSUME NEW t \in Threads, ReadFails(t) PROVE TypeOK'
  BY <1>9, ReleaseTypes, SpendType DEF ReadFails, TypeOK, Phases, reading, process
<1>10. ASSUME NEW t \in Threads, NotNeeded(t) PROVE TypeOK'
  BY <1>10, ReleaseTypes DEF NotNeeded, TypeOK, Phases, reading, process
<1>11. ASSUME NEW t \in Threads, SyncLayout(t) PROVE TypeOK'
  BY <1>11, ReleaseTypes DEF SyncLayout, TypeOK, Phases, reading
<1>12. ASSUME NEW t \in Threads, GoHot(t) PROVE TypeOK'
  BY <1>12 DEF GoHot, Plan, TypeOK, Phases, reading, process
<1>13. ASSUME NEW t \in Threads, RpcOk(t) PROVE TypeOK'
  BY <1>13, AfterType DEF RpcOk, TypeOK, reading
<1>14. ASSUME NEW t \in Threads, RpcFails(t) PROVE TypeOK'
  <2>1. left' \in [{"edits", "events"} -> Nat] /\ core' \in CoreState
    BY <1>14, AfterType, SpendType DEF RpcFails, TypeOK
  <2> QED
    BY <1>14, <2>1 DEF RpcFails, TypeOK, Phases, reading
<1>15. ASSUME NEW t \in Threads, Commit(t) PROVE TypeOK'
  <2>1. p' \in Slots \cup {None} /\ snap' \in Config /\ gen' \in Nat
    BY <1>15 DEF Commit, TypeOK
  <2>2. lock = t /\ Release(t)
    BY <1>15 DEF Commit
  <2>3. UNCHANGED <<db, unsent, need, os, core, checkTime, swallowed, left>>
    BY <1>15 DEF Commit, reading
  <2> QED
    BY <2>1, <2>2, <2>3, ReleaseTypes DEF TypeOK, Phases
<1>16. ASSUME NEW t \in Threads, Launch(t) PROVE TypeOK'
  <2>1. /\ os' \in [Slots -> {"idle", "starting", "serving", "dying", "zombie", "exited"}]
        /\ p' \in Slots
    BY <1>16, OldStoppedType DEF Launch
  <2>2. snap' \in Config /\ gen' \in Nat
    BY <1>16 DEF Launch, TypeOK
  <2>3. lock = t /\ Release(t)
    BY <1>16 DEF Launch
  <2>4. UNCHANGED <<db, unsent, need, core, checkTime, swallowed, left>>
    BY <1>16 DEF Launch, reading
  <2> QED
    BY <2>1, <2>2, <2>3, <2>4, ReleaseTypes DEF TypeOK, Phases
<1>17. ASSUME NEW t \in Threads, StartFails(t) PROVE TypeOK'
  <2>1. /\ os' \in [Slots -> {"idle", "starting", "serving", "dying", "zombie", "exited"}]
        /\ p' \in Slots
    BY <1>17, OldStoppedType DEF StartFails
  <2> QED
    BY <1>17, <2>1, ReleaseTypes, SpendType DEF StartFails, TypeOK, Phases, reading
<1>18. ASSUME NEW i \in Slots, Load(i) PROVE TypeOK'
  BY <1>18, BodyType DEF Load, TypeOK, reading, holding
<1>19. ASSUME NEW i \in Slots, Reap(i) PROVE TypeOK'
  BY <1>19 DEF Reap, TypeOK, reading, holding
<1>20. ASSUME NEW i \in Slots, Crash(i) PROVE TypeOK'
  BY <1>20, SpendType DEF Crash, TypeOK, reading, holding
<1>21. CASE UNCHANGED vars
  BY <1>21 DEF vars, TypeOK
<1> QED
  BY <1>1, <1>2, <1>3, <1>4, <1>5, <1>6, <1>7, <1>8, <1>9, <1>10, <1>11, <1>12, <1>13, <1>14,
     <1>15, <1>16, <1>17, <1>18, <1>19, <1>20, <1>21 DEF Next, Restarting, CoreLives

(* Types, and the lock is held exactly while a goroutine is inside RestartXray. *)
THEOREM TypeCorrect == Spec => []TypeOK
BY TypeInit, TypeStep, PTL DEF Spec
-----------------------------------------------------------------------------
(***************************************************************************)
(* The inductive invariant.  Outside a hot application the serving core    *)
(* holds the panel's snapshot; inside one, the snapshot with the RPCs      *)
(* already sent applied to it (Target).  phase = "launch" is exempt: an    *)
(* RPC has failed and the core that holds its effect is about to be killed. *)
(***************************************************************************)
Swap(q, del, add) == IF del \in todo THEN snap[q] ELSE IF add \in todo THEN Gone ELSE new[q]

Target(q) == IF snap[q] = new[q] THEN snap[q]
             ELSE CASE q = "in" -> Swap(q, 1, 2)
                    [] q \in {"out", "meter"} -> Swap(q, 3, 4)
                    [] OTHER -> IF 5 \in todo THEN snap[q] ELSE new[q]

Faithful == phase \notin {"rpc", "launch"} /\ Serving => core = Body(snap)

HotPlan == phase = "rpc" => /\ ~Differ(snap, new, Restart)
                            /\ todo \subseteq Plan(snap, new)
                            /\ \A j \in todo, k \in Plan(snap, new) : j < k => k \in todo

HotCore == phase = "rpc" => /\ Serving => \A q \in Material : core[q] = Target(q)
                            /\ p # None /\ os[p] = "starting" => todo = Plan(snap, new)

IInv == TypeOK /\ NoUnattendedCore /\ Faithful /\ HotPlan /\ HotCore

LEMMA HeldCore ==
  ASSUME TypeOK, Faithful', phase' = "free", NoUnattendedCore'
  PROVE  (NoUnattendedCore /\ Faithful /\ HotPlan /\ HotCore)'
BY DEF HotPlan, HotCore

(* Actions of those who neither hold the lock nor are a core process. *)
LEMMA Elsewhere ==
  ASSUME IInv, UNCHANGED <<phase, new, todo, p, snap, os, core>>
  PROVE  (NoUnattendedCore /\ Faithful /\ HotPlan /\ HotCore)'
<1>1. NoUnattendedCore' /\ Faithful'
  BY DEF IInv, NoUnattendedCore, Faithful, Serving, Body
<1>2. HotPlan'
  BY DEF IInv, HotPlan, Plan, Differ, Restart
<1>3. HotCore'
  BY DEF IInv, HotCore, Serving, Target, Swap, Plan, Differ, Material, Parts
<1> QED
  BY <1>1, <1>2, <1>3

LEMMA MaterialParts == Material = {"in", "out", "meter", "route", "static", "setting"}
BY DEF Material, Parts

(* With the whole plan ahead the target is the old configuration, with none the new. *)
LEMMA WholePlanAhead ==
  ASSUME TypeOK, ~Differ(snap, new, Restart), todo = Plan(snap, new)
  PROVE  \A q \in Material : snap[q] = Target(q)
<1> SUFFICES ASSUME NEW q \in Material, snap[q] # new[q] PROVE snap[q] = Target(q)
  BY DEF Target
<1>1. q \in {"in", "out", "meter", "route"}
  BY MaterialParts DEF Differ, Restart
<1>2. (q = "in" => 1 \in todo) /\ (q \in {"out", "meter"} => 3 \in todo) /\ (q = "route" => 5 \in todo)
  BY PartsOfSteps DEF Plan, Differ
<1> QED
  BY <1>1, <1>2 DEF Target, Swap

LEMMA NoPlanAhead ==
  ASSUME TypeOK, todo = {}
  PROVE  \A q \in Material : new[q] = Target(q)
BY DEF Target, Swap

LEMMA CoreIsBody ==
  ASSUME TypeOK, NEW c \in Config, \A q \in Material : core[q] = c[q]
  PROVE  core = Body(c)
BY DEF TypeOK, CoreState, Body, Config, Material

LEMMA RunningOne ==
  ASSUME IInv, NEW t \in Threads, RpcOk(t)
  PROVE  (NoUnattendedCore /\ Faithful /\ HotPlan /\ HotCore)'
<1> PICK k \in todo : First(k) /\ Accepts(k) /\ core' = After(k) /\ todo' = todo \ {k}
  BY DEF RpcOk
<1>1. UNCHANGED <<phase, new, p, snap, os>> /\ phase = "rpc" /\ Serving
  BY DEF RpcOk
<1>2. k \in 1..5 /\ todo \subseteq 1..5 /\ \A j \in todo : k <= j
  BY DEF IInv, TypeOK, First
<1>3. NoUnattendedCore' /\ Faithful'
  BY <1>1 DEF IInv, NoUnattendedCore, Faithful
<1>4. HotPlan'
  <2>1. Plan(snap, new)' = Plan(snap, new) /\ ~Differ(snap, new, Restart)'
    BY <1>1 DEF IInv, HotPlan, Plan, Differ
  <2>2. \A j \in todo', l \in Plan(snap, new) : j < l => l \in todo'
    BY <1>1, <1>2 DEF IInv, HotPlan, Plan
  <2> QED
    BY <1>1, <2>1, <2>2 DEF IInv, HotPlan
<1>5. \A q \in Material : core'[q] = Target(q)'
  <2> SUFFICES ASSUME NEW q \in Material PROVE core'[q] = Target(q)'
    OBVIOUS
  <2>1. core[q] = Target(q) /\ core'[q] = After(k)[q]
    BY <1>1 DEF IInv, HotCore
  <2>2. CASE snap[q] = new[q]
    BY <1>1, <2>1, <2>2 DEF After, Target
  <2>3. CASE snap[q] # new[q]
    <3>1. q \in {"in", "out", "meter", "route"}
      BY <1>1, <2>3, MaterialParts DEF IInv, HotPlan, Differ, Restart
    <3>2. k \in Plan(snap, new) /\ \A l \in Plan(snap, new) : k < l => l \in todo
      BY <1>1 DEF IInv, HotPlan
    <3>3. After(k)[q] = IF q \in Touches(k) THEN IF k \in {1, 3} THEN Gone ELSE new[q] ELSE core[q]
      BY <2>3 DEF After
    <3>4. Target(q)' = CASE q = "in" -> Swap(q, 1, 2)'
                         [] q \in {"out", "meter"} -> Swap(q, 3, 4)'
                         [] OTHER -> IF 5 \in todo' THEN snap[q] ELSE new[q]
      BY <1>1, <2>3 DEF Target
    <3>5. Target(q) = CASE q = "in" -> Swap(q, 1, 2)
                        [] q \in {"out", "meter"} -> Swap(q, 3, 4)
                        [] OTHER -> IF 5 \in todo THEN snap[q] ELSE new[q]
      BY <2>3 DEF Target
    <3>6. \A l \in 1..5 : q \in Touches(l) => l \in Plan(snap, new)
      BY <2>3 DEF Plan, Differ
    <3>7. CASE q = "in"
      <4>1. q \in Touches(1) /\ q \in Touches(2) /\ q \notin Touches(3) /\ q \notin Touches(4) /\ q \notin Touches(5)
        BY <3>7, PartsOfSteps
      <4>2. 1 \in Plan(snap, new) /\ 2 \in Plan(snap, new)
        BY <4>1, <3>6
      <4> QED
        BY <1>1, <1>2, <2>1, <3>2, <3>3, <3>4, <3>5, <3>7, <4>1, <4>2, StepCases DEF Swap
    <3>8. CASE q \in {"out", "meter"}
      <4>1. q \notin Touches(1) /\ q \notin Touches(2) /\ q \in Touches(3) /\ q \in Touches(4)
        BY <3>8, PartsOfSteps
      <4>2. 3 \in Plan(snap, new) /\ 4 \in Plan(snap, new)
        BY <4>1, <3>6
      <4> QED
        BY <1>1, <1>2, <2>1, <3>2, <3>3, <3>4, <3>5, <3>8, <4>1, <4>2, StepCases DEF Swap
    <3>9. CASE q = "route"
      <4>1. q \notin Touches(1) /\ q \notin Touches(2) /\ q \notin Touches(3) /\ q \notin Touches(4) /\ q \in Touches(5)
        BY <3>9, PartsOfSteps
      <4> QED
        BY <1>1, <1>2, <2>1, <3>3, <3>4, <3>5, <3>9, <4>1, StepCases
    <3> QED
      BY <3>1, <3>7, <3>8, <3>9
  <2> QED
    BY <2>2, <2>3
<1>6. HotCore'
  BY <1>1, <1>5 DEF HotCore, Serving
<1> QED
  BY <1>3, <1>4, <1>6

(* Only the core of p serves or starts, so a restart leaves the new process alone. *)
LEMMA OldCoreStopped ==
  ASSUME TypeOK, NoUnattendedCore, NEW i \in Slots
  PROVE  OldStopped[i] \notin {"starting", "serving"}
BY DEF TypeOK, NoUnattendedCore, OldStopped, Killed

LEMMA InvInit == Init => IInv
<1> SUFFICES ASSUME Init PROVE IInv
  OBVIOUS
<1>1. TypeOK
  BY TypeInit
<1>2. NoUnattendedCore /\ Faithful /\ HotPlan /\ HotCore
  BY DEF Init, NoUnattendedCore, Faithful, Serving, HotPlan, HotCore
<1> QED
  BY <1>1, <1>2 DEF IInv

LEMMA InvStep == IInv /\ [Next]_vars => IInv'
<1> SUFFICES ASSUME IInv, [Next]_vars PROVE (NoUnattendedCore /\ Faithful /\ HotPlan /\ HotCore)'
  BY TypeStep DEF IInv
<1> DEFINE Goal == (NoUnattendedCore /\ Faithful /\ HotPlan /\ HotCore)'
<1>0. TypeOK /\ TypeOK' /\ NoUnattendedCore
  BY TypeStep DEF IInv
<1>1. ASSUME NEW Q \in Edits, Edit(Q) PROVE Goal
  BY <1>1, Elsewhere DEF Edit, holding, process
<1>2. CASE SetToNeedRestart
  BY <1>2, Elsewhere DEF SetToNeedRestart, holding, process
<1>3. CASE SaveSetting
  BY <1>3, Elsewhere DEF SaveSetting, holding, process
<1>4. CASE Upgrade
  <2>1. UNCHANGED <<phase, new, todo, p, snap, core>> /\ lock = None
    BY <1>4 DEF Upgrade, holding
  <2>2. os' = IF p = None THEN os ELSE [os EXCEPT ![p] = Killed(os[p])]
    BY <1>4 DEF Upgrade
  <2>3. NoUnattendedCore'
    <3>1. \A j \in Slots : os'[j] \in {"starting", "serving"} => os[j] = os'[j]
      BY <1>0, <2>2 DEF TypeOK, Killed
    <3> QED
      BY <1>0, <2>1, <3>1 DEF NoUnattendedCore
  <2>4. ~Serving'
    BY <1>0, <2>1, <2>2 DEF TypeOK, Serving, Killed
  <2> QED
    BY <1>0, <2>1, <2>3, <2>4 DEF TypeOK, Faithful, HotPlan, HotCore
<1>5. CASE Watchdog
  BY <1>5, Elsewhere DEF Watchdog, holding, process
<1>6. ASSUME NEW t \in Consumers, Consume(t) PROVE Goal
  BY <1>6, Elsewhere DEF Consume, holding, process
<1>7. ASSUME NEW t \in Threads, Acquire(t) PROVE Goal
  <2>1. UNCHANGED process /\ phase = "free" /\ phase' = "read"
    BY <1>0, <1>7 DEF Acquire, TypeOK
  <2>2. Faithful'
    BY <2>1 DEF IInv, Faithful, Serving, Body, process
  <2> QED
    BY <1>0, <2>1, <2>2 DEF NoUnattendedCore, HotPlan, HotCore, process
<1>8. ASSUME NEW t \in Threads, ReadRest(t) PROVE Goal
  <2>1. UNCHANGED process /\ phase = "read" /\ phase' = "decide"
    BY <1>8 DEF ReadRest
  <2>2. Faithful'
    BY <2>1 DEF IInv, Faithful, Serving, Body, process
  <2> QED
    BY <1>0, <2>1, <2>2 DEF NoUnattendedCore, HotPlan, HotCore, process
<1>9. ASSUME NEW t \in Threads, ReadFails(t) PROVE Goal
  <2>1. UNCHANGED process /\ phase = "read" /\ phase' = "free"
    BY <1>9 DEF ReadFails, Release
  <2>2. Faithful'
    BY <2>1 DEF IInv, Faithful, Serving, Body, process
  <2> QED
    BY <1>0, <2>1, <2>2 DEF NoUnattendedCore, HotPlan, HotCore, process
<1>10. ASSUME NEW t \in Threads, NotNeeded(t) PROVE Goal
  <2>1. UNCHANGED process /\ phase = "decide" /\ phase' = "free"
    BY <1>10 DEF NotNeeded, Release
  <2>2. Faithful'
    BY <2>1 DEF IInv, Faithful, Serving, Body, process
  <2> QED
    BY <1>0, <2>1, <2>2 DEF NoUnattendedCore, HotPlan, HotCore, process
<1>11. ASSUME NEW t \in Threads, SyncLayout(t) PROVE Goal
  <2>1. UNCHANGED <<p, os, core>> /\ phase = "decide" /\ phase' = "free" /\ snap' = new
    BY <1>11 DEF SyncLayout, Release
  <2>2. ~Differ(snap, new, Restart) /\ Plan(snap, new) = {}
    BY <1>11 DEF SyncLayout, Hot
  <2>3. \A q \in Material : snap[q] = new[q]
    BY <2>2, MaterialParts, PartsOfSteps DEF Differ, Plan, Restart
  <2>4. Body(snap) = Body(new)
    BY <2>3 DEF Body
  <2>5. Faithful'
    BY <2>1, <2>4 DEF IInv, Faithful, Serving, Body
  <2> QED
    BY <1>0, <2>1, <2>5 DEF NoUnattendedCore, HotPlan, HotCore
<1>12. ASSUME NEW t \in Threads, GoHot(t) PROVE Goal
  <2>1. UNCHANGED <<new, p, snap, os, core>> /\ phase = "decide" /\ phase' = "rpc" /\ todo' = Plan(snap, new)
    BY <1>12 DEF GoHot, process
  <2>2. ~Differ(snap, new, Restart)
    BY <1>12 DEF GoHot, Hot
  <2>3. ~Differ(snap, new, Restart)' /\ Plan(snap, new)' = Plan(snap, new)
    BY <2>1, <2>2 DEF Differ, Plan
  <2>4. \A q \in Material : snap'[q] = Target(q)'
    <3> SUFFICES ASSUME NEW q \in Material, snap[q] # new[q] PROVE snap[q] = Target(q)'
      BY <2>1 DEF Target
    <3>1. q \in {"in", "out", "meter", "route"}
      BY <2>2, MaterialParts DEF Differ, Restart
    <3>2. (q = "in" => 1 \in todo') /\ (q \in {"out", "meter"} => 3 \in todo') /\ (q = "route" => 5 \in todo')
      BY <2>1, PartsOfSteps DEF Plan, Differ
    <3> QED
      BY <2>1, <3>1, <3>2 DEF Target, Swap
  <2>5. Serving' => \A q \in Material : core'[q] = Target(q)'
    BY <2>1, <2>4 DEF IInv, Faithful, Serving, Body
  <2> QED
    BY <1>0, <2>1, <2>3, <2>5 DEF NoUnattendedCore, Faithful, HotPlan, HotCore
<1>13. ASSUME NEW t \in Threads, RpcOk(t) PROVE Goal
  BY <1>13, RunningOne
<1>14. ASSUME NEW t \in Threads, RpcFails(t) PROVE Goal
  BY <1>0, <1>14 DEF RpcFails, NoUnattendedCore, Faithful, HotPlan, HotCore
<1>15. ASSUME NEW t \in Threads, Commit(t) PROVE Goal
  <2>1. UNCHANGED <<p, os, core>> /\ phase = "rpc" /\ todo = {} /\ phase' = "free" /\ snap' = new
    BY <1>15 DEF Commit, Release
  <2>2. Serving => core = Body(new)
    BY <1>0, <2>1, NoPlanAhead, CoreIsBody DEF IInv, HotCore, TypeOK
  <2>3. Faithful'
    BY <2>1, <2>2 DEF Faithful, Serving, Body
  <2> QED
    BY <1>0, <2>1, <2>3 DEF NoUnattendedCore, HotPlan, HotCore
<1>16. ASSUME NEW t \in Threads, Launch(t) PROVE Goal
  <2> PICK i \in Slots : FreeSlot(i) /\ p' = i /\ os' = [OldStopped EXCEPT ![i] = "starting"]
    BY <1>16 DEF Launch
  <2>1. phase' = "free"
    BY <1>16 DEF Launch, Release
  <2>2. NoUnattendedCore' /\ ~Serving'
    BY <1>0, OldCoreStopped, OldStoppedType DEF NoUnattendedCore, Serving
  <2> QED
    BY <2>1, <2>2 DEF Faithful, HotPlan, HotCore
<1>17. ASSUME NEW t \in Threads, StartFails(t) PROVE Goal
  <2>1. phase' = "free" /\ os' = OldStopped /\ p' \in Slots
    BY <1>17 DEF StartFails, Release
  <2>2. NoUnattendedCore' /\ ~Serving'
    BY <1>0, <2>1, OldCoreStopped DEF NoUnattendedCore, Serving
  <2> QED
    BY <2>1, <2>2 DEF Faithful, HotPlan, HotCore
<1>18. ASSUME NEW i \in Slots, Load(i) PROVE Goal
  <2>1. /\ UNCHANGED <<phase, new, todo, p, snap>> /\ os[i] = "starting"
        /\ os' = [os EXCEPT ![i] = "serving"] /\ core' = Body(snap)
    BY <1>18 DEF Load, holding
  <2>2. i = p /\ p # None
    BY <1>0, <2>1 DEF NoUnattendedCore
  <2>3. NoUnattendedCore'
    BY <1>0, <2>1, <2>2 DEF TypeOK, NoUnattendedCore
  <2>4. Faithful'
    BY <2>1 DEF Faithful, Body
  <2>5. HotPlan'
    BY <2>1 DEF IInv, HotPlan, Plan, Differ
  <2>6. HotCore'
    <3> SUFFICES ASSUME phase = "rpc" PROVE HotCore'
      BY <2>1 DEF HotCore
    <3>1. \A q \in Material : snap[q] = Target(q)
      BY <1>0, <2>1, <2>2, WholePlanAhead DEF IInv, HotPlan, HotCore
    <3>2. \A q \in Material : core'[q] = Target(q)'
      BY <2>1, <3>1 DEF Body, Target, Swap
    <3> QED
      BY <1>0, <2>1, <2>2, <3>2 DEF HotCore, TypeOK
  <2> QED
    BY <2>3, <2>4, <2>5, <2>6
<1>19. ASSUME NEW i \in Slots, Reap(i) PROVE Goal
  <2>1. UNCHANGED <<phase, new, todo, p, snap, core>>
    BY <1>19 DEF Reap, holding
  <2>2. \A j \in Slots : os'[j] \in {"starting", "serving"} => os[j] = os'[j]
    BY <1>0, <1>19 DEF Reap, TypeOK
  <2> QED
    BY <1>0, <2>1, <2>2
       DEF IInv, TypeOK, NoUnattendedCore, Faithful, Serving, Body, HotPlan, HotCore, Plan, Differ, Target, Swap
<1>20. ASSUME NEW i \in Slots, Crash(i) PROVE Goal
  <2>1. UNCHANGED <<phase, new, todo, p, snap, core>>
    BY <1>20 DEF Crash, holding
  <2>2. \A j \in Slots : os'[j] \in {"starting", "serving"} => os[j] = os'[j]
    BY <1>0, <1>20 DEF Crash, TypeOK
  <2> QED
    BY <1>0, <2>1, <2>2
       DEF IInv, TypeOK, NoUnattendedCore, Faithful, Serving, Body, HotPlan, HotCore, Plan, Differ, Target, Swap
<1>21. CASE UNCHANGED vars
  BY <1>21, Elsewhere DEF vars
<1> QED
  BY <1>1, <1>2, <1>3, <1>4, <1>5, <1>6, <1>7, <1>8, <1>9, <1>10, <1>11, <1>12, <1>13, <1>14,
     <1>15, <1>16, <1>17, <1>18, <1>19, <1>20, <1>21 DEF Next, Restarting, CoreLives

(* A core that could serve is always the one p names: no restart, upgrade or    *)
(* reload leaves a process behind that nobody would stop.                       *)
THEOREM UnattendedCoreImpossible == Spec => []NoUnattendedCore
<1>1. IInv => NoUnattendedCore
  BY DEF IInv
<1> QED
  BY <1>1, InvInit, InvStep, PTL DEF Spec

(* Whatever hot application, failure or crash came before, the serving core     *)
(* holds what GetConfig returns once RestartXray has let go of the lock.        *)
THEOREM SnapshotIsFaithful == Spec => []SnapshotFaithful
<1>1. IInv => SnapshotFaithful
  BY DEF IInv, TypeOK, Faithful, SnapshotFaithful
<1> QED
  BY <1>1, InvInit, InvStep, PTL DEF Spec

(* The core accepts each step of the plan of tryHotApply in its turn.           *)
THEOREM PlanIsAccepted == Spec => []PlanAccepted
<1>1. IInv => PlanAccepted
  <2> SUFFICES ASSUME IInv, phase = "rpc", Serving, NEW k \in todo, First(k),
                      NEW q \in Touches(k), snap[q] # new[q]
               PROVE  (k \in {1, 3} => core[q] = snap[q]) /\ (k \in {2, 4} => core[q] = Gone)
    <3>1. ASSUME NEW k \in todo, \A q \in Touches(k) : snap[q] # new[q] =>
                   (k \in {1, 3} => core[q] = snap[q]) /\ (k \in {2, 4} => core[q] = Gone),
                 IInv
          PROVE  Accepts(k)
      <4>1. k = 1 \/ k = 2 \/ k = 3 \/ k = 4 \/ k = 5
        BY <3>1, StepCases DEF IInv, TypeOK
      <4> QED
        BY <3>1, <4>1 DEF Accepts
    <3> QED
      BY <3>1 DEF PlanAccepted
  <2>1. k \in 1..5 /\ q \in Material /\ \A j \in todo : k <= j
    BY TouchesMaterial DEF IInv, TypeOK, First
  <2>2. core[q] = CASE q = "in" -> Swap(q, 1, 2)
                    [] q \in {"out", "meter"} -> Swap(q, 3, 4)
                    [] OTHER -> IF 5 \in todo THEN snap[q] ELSE new[q]
    BY <2>1 DEF IInv, HotCore, Target
  <2>3. CASE k \in {1, 2}
    <3>1. q = "in" /\ (k = 2 => 1 \notin todo)
      BY <2>1, <2>3, PartsOfSteps
    <3>2. core["in"] = Swap("in", 1, 2)
      BY <2>2, <3>1
    <3>3. k = 1 => core[q] = snap[q]
      BY <3>1, <3>2 DEF Swap
    <3>4. k = 2 => core[q] = Gone
      BY <3>1, <3>2 DEF Swap
    <3> QED
      BY <2>3, <3>3, <3>4
  <2>4. CASE k \in {3, 4}
    <3>1. q \in {"out", "meter"} /\ (k = 4 => 3 \notin todo)
      BY <2>1, <2>4, PartsOfSteps
    <3>2. core[q] = Swap(q, 3, 4)
      BY <2>2, <3>1
    <3>3. k = 3 => core[q] = snap[q]
      BY <3>1, <3>2 DEF Swap
    <3>4. k = 4 => core[q] = Gone
      BY <3>1, <3>2 DEF Swap
    <3> QED
      BY <2>4, <3>3, <3>4
  <2>5. CASE k = 5
    BY <2>5
  <2> QED
    BY <2>1, <2>3, <2>4, <2>5, StepCases
<1> QED
  BY <1>1, InvInit, InvStep, PTL DEF Spec

-----------------------------------------------------------------------------
(***************************************************************************)
(* Generations.  The last observation is never of a generation to come,    *)
(* and one of the present generation, while the core it saw still runs,    *)
(* saw the present routing.                                                *)
(***************************************************************************)
ObsCurrent == obs # None => /\ obs.gen <= gen
                            /\ obs.gen = gen /\ IsRunning => obs.routing = Routing(snap)

GenInv == TypeOK /\ ObsCurrent

LEMMA ObsIsRecord ==
  ASSUME TypeOK PROVE obs = None \/ obs.gen \in Nat
BY DEF TypeOK

(* A step that moves neither the generation nor the routing and starts no process. *)
LEMMA ObsKept ==
  ASSUME GenInv, gen' = gen, Routing(snap)' = Routing(snap), IsRunning' => IsRunning,
         obs' = obs \/ (IsRunning' /\ obs' = RuntimeSnapshot')
  PROVE  ObsCurrent' /\ (obs # None /\ obs'.gen = obs.gen => obs'.routing = obs.routing)
<1>1. RuntimeSnapshot'.gen = gen /\ RuntimeSnapshot'.routing = Routing(snap)
  BY DEF RuntimeSnapshot
<1>2. gen \in Nat
  BY DEF GenInv, TypeOK
<1>3. CASE obs' = obs
  BY <1>3 DEF GenInv, ObsCurrent
<1>4. CASE IsRunning' /\ obs' = RuntimeSnapshot'
  BY <1>1, <1>2, <1>4 DEF GenInv, ObsCurrent
<1> QED
  BY <1>3, <1>4

(* A step that opens a new generation. *)
LEMMA ObsRenewed ==
  ASSUME GenInv, gen' = gen + 1, obs' = obs \/ (IsRunning' /\ obs' = RuntimeSnapshot')
  PROVE  ObsCurrent' /\ (obs # None /\ obs'.gen = obs.gen => obs'.routing = obs.routing)
<1>1. RuntimeSnapshot'.gen = gen' /\ RuntimeSnapshot'.routing = Routing(snap)'
  BY DEF RuntimeSnapshot
<1>2. gen \in Nat /\ (obs = None \/ (obs.gen \in Nat /\ obs.gen <= gen))
  BY ObsIsRecord DEF GenInv, ObsCurrent, TypeOK
<1>3. CASE obs' = obs
  BY <1>2, <1>3 DEF ObsCurrent
<1>4. CASE IsRunning' /\ obs' = RuntimeSnapshot'
  BY <1>1, <1>2, <1>4 DEF ObsCurrent
<1> QED
  BY <1>3, <1>4

LEMMA RoutingOfMeterOnly ==
  ASSUME MeterOnly(snap, new) PROVE Routing(snap) = Routing(new)
BY DEF MeterOnly, Differ, Routing

SameRouting == obs # None /\ obs'.gen = obs.gen => obs'.routing = obs.routing

LEMMA GenInit == Init => GenInv
BY TypeInit DEF Init, GenInv, ObsCurrent

LEMMA GenStep == GenInv /\ [Next]_vars => GenInv' /\ SameRouting
<1> SUFFICES ASSUME GenInv, [Next]_vars PROVE ObsCurrent' /\ SameRouting
  BY TypeStep DEF GenInv
<1> DEFINE Goal == ObsCurrent' /\ SameRouting
<1> USE DEF SameRouting
<1>0. TypeOK
  BY DEF GenInv
<1>a. ASSUME UNCHANGED <<p, os, snap, gen, obs>> PROVE Goal
  BY <1>a, ObsKept DEF IsRunning, Running, Routing
<1>b. ASSUME NEW t \in Threads, Release(t)
      PROVE  obs' = obs \/ (IsRunning' /\ obs' = RuntimeSnapshot')
  BY <1>b DEF Release
<1>c. ASSUME UNCHANGED <<p, snap, gen, obs>>,
             \A i \in Slots : os'[i] \in {"starting", "serving", "dying", "zombie"} =>
                               os[i] \in {"starting", "serving", "dying", "zombie"}
      PROVE  Goal
  <2>1. IsRunning' => IsRunning
    BY <1>0, <1>c DEF IsRunning, Running, TypeOK
  <2> QED
    BY <1>c, <2>1, ObsKept DEF Routing
<1>1. ASSUME NEW Q \in Edits, Edit(Q) PROVE Goal
  BY <1>1, <1>a DEF Edit, process
<1>2. CASE SetToNeedRestart
  BY <1>2, <1>a DEF SetToNeedRestart, process
<1>3. CASE SaveSetting
  BY <1>3, <1>a DEF SaveSetting, process
<1>4. CASE Upgrade
  <2>1. os' = IF p = None THEN os ELSE [os EXCEPT ![p] = Killed(os[p])]
    BY <1>4 DEF Upgrade
  <2>2. \A i \in Slots : os'[i] \in {"starting", "serving", "dying", "zombie"} =>
                          os[i] \in {"starting", "serving", "dying", "zombie"}
    BY <1>0, <2>1 DEF Killed, TypeOK
  <2> QED
    BY <1>4, <1>c, <2>2 DEF Upgrade
<1>5. CASE Watchdog
  BY <1>5, <1>a DEF Watchdog, process
<1>6. ASSUME NEW t \in Consumers, Consume(t) PROVE Goal
  BY <1>6, <1>a DEF Consume, process
<1>7. ASSUME NEW t \in Threads, Acquire(t) PROVE Goal
  BY <1>7, <1>a DEF Acquire, process
<1>8. ASSUME NEW t \in Threads, ReadRest(t) PROVE Goal
  BY <1>8, <1>a DEF ReadRest, process
<1>9. ASSUME NEW t \in Threads, ReadFails(t) PROVE Goal
  BY <1>9, <1>b, ObsKept DEF ReadFails, process, IsRunning, Running, Routing
<1>10. ASSUME NEW t \in Threads, NotNeeded(t) PROVE Goal
  BY <1>10, <1>b, ObsKept DEF NotNeeded, process, IsRunning, Running, Routing
<1>11. ASSUME NEW t \in Threads, SyncLayout(t) PROVE Goal
  <2>1. ~Differ(snap, new, Restart) /\ Plan(snap, new) = {} /\ snap' = new
    BY <1>11 DEF SyncLayout, Hot
  <2>2. \A q \in Material : snap[q] = new[q]
    BY <2>1, MaterialParts, PartsOfSteps DEF Differ, Plan, Restart
  <2>3. Routing(snap)' = Routing(snap)
    BY <2>1, <2>2 DEF Routing
  <2> QED
    BY <1>11, <1>b, <2>3, ObsKept DEF SyncLayout, IsRunning, Running
<1>12. ASSUME NEW t \in Threads, GoHot(t) PROVE Goal
  BY <1>12, <1>a DEF GoHot, process
<1>13. ASSUME NEW t \in Threads, RpcOk(t) PROVE Goal
  BY <1>13, <1>a DEF RpcOk
<1>14. ASSUME NEW t \in Threads, RpcFails(t) PROVE Goal
  BY <1>14, <1>a DEF RpcFails
<1>15. ASSUME NEW t \in Threads, Commit(t) PROVE Goal
  <2>1. UNCHANGED <<p, os>> /\ snap' = new /\ Release(t)
    BY <1>15 DEF Commit
  <2>2. CASE MeterOnly(snap, new)
    <3>1. gen' = gen /\ Routing(snap)' = Routing(snap)
      BY <1>15, <2>1, <2>2, RoutingOfMeterOnly DEF Commit, Routing
    <3> QED
      BY <1>b, <2>1, <3>1, ObsKept DEF IsRunning, Running
  <2>3. CASE ~MeterOnly(snap, new)
    BY <1>15, <1>b, <2>1, <2>3, ObsRenewed DEF Commit
  <2> QED
    BY <2>2, <2>3
<1>16. ASSUME NEW t \in Threads, Launch(t) PROVE Goal
  BY <1>16, <1>b, ObsRenewed DEF Launch
<1>17. ASSUME NEW t \in Threads, StartFails(t) PROVE Goal
  <2> PICK i \in Slots : FreeSlot(i) /\ p' = i /\ os' = OldStopped
    BY <1>17 DEF StartFails
  <2>1. ~IsRunning'
    BY DEF FreeSlot, OldStopped, IsRunning, Running
  <2>2. obs' = obs /\ gen' = gen
    BY <1>17, <2>1 DEF StartFails, Release
  <2> QED
    BY <2>1, <2>2 DEF GenInv, ObsCurrent
<1>18. ASSUME NEW i \in Slots, Load(i) PROVE Goal
  BY <1>0, <1>18, <1>c DEF Load, TypeOK
<1>19. ASSUME NEW i \in Slots, Reap(i) PROVE Goal
  BY <1>0, <1>19, <1>c DEF Reap, TypeOK
<1>20. ASSUME NEW i \in Slots, Crash(i) PROVE Goal
  BY <1>0, <1>20, <1>c DEF Crash, TypeOK
<1>21. CASE UNCHANGED vars
  BY <1>21, <1>a DEF vars
<1> QED
  BY <1>1, <1>2, <1>3, <1>4, <1>5, <1>6, <1>7, <1>8, <1>9, <1>10, <1>11, <1>12, <1>13, <1>14,
     <1>15, <1>16, <1>17, <1>18, <1>19, <1>20, <1>21 DEF Next, Restarting, CoreLives

(* What RuntimeSnapshot returned for one generation of a running core always had *)
(* the same routing conclusions in it, for any number of edits, hot applications *)
(* and restarts in between.                                                      *)
THEOREM GenerationNamesRouting == Spec => SameGenSameRouting
<1>1. GenInv /\ [Next]_vars => [obs # None /\ obs'.gen = obs.gen => obs'.routing = obs.routing]_obs
  BY GenStep DEF SameRouting
<1> QED
  BY <1>1, GenInit, GenStep, PTL DEF Spec, SameGenSameRouting
-----------------------------------------------------------------------------
(***************************************************************************)
(* XrayLifecycle implements CoreService: each step is a step of the        *)
(* abstract specification or leaves its variables alone.                   *)
(***************************************************************************)
(* Outsiders: the database moves on, or nothing that CoreService sees. *)
LEMMA OutsideStep ==
  ASSUME TypeOK', UNCHANGED <<phase, new, snap, p, os, core>>
  PROVE  [Served!Next]_(Served!promised)
BY DEF TypeOK, Config, Stage, Served!Next, Served!Want, Served!promised, Serving

(* The three ways a change ends. *)
LEMMA EndWithoutChange ==
  ASSUME phase # "free", phase' = "free", new' = Default, UNCHANGED <<db, snap, p, os, core>>,
         Serving => core = Body(snap)
  PROVE  Served!Next
BY DEF Stage, Served!Next, Served!Leave, Served!End, Served!Seen, Body, Serving

LEMMA EndInGoal ==
  ASSUME phase # "free", phase' = "free", new' = Default, snap' = new, UNCHANGED <<db, core>>,
         Serving' => Serving /\ core = Body(new)
  PROVE  Served!Next
BY DEF Stage, Served!Next, Served!Settle, Served!End, Served!Seen, Body

(* A core process moves while RestartXray stays where it is. *)
LEMMA CoreStep ==
  ASSUME UNCHANGED <<db, phase, new, snap, core>>, Serving' => Serving
  PROVE  [Served!Next]_(Served!promised)
<1>1. CASE Serving' = Serving
  BY <1>1 DEF Served!promised, Stage
<1>2. CASE Serving /\ Serving' = FALSE
  BY <1>2 DEF Stage, Served!Next, Served!GoDown
<1> QED
  BY <1>1, <1>2 DEF Serving

(* An RPC alters only what the plan in its turn is about. *)
LEMMA RpcAlters ==
  ASSUME TypeOK, NEW k \in 1..5, phase = "rpc", phase' \in {"rpc", "launch"}, Serving,
         core' \in {core, After(k)}, UNCHANGED <<db, new, snap, p, os>>
  PROVE  Served!Next
<1>1. \A q \in Material : core'[q] # core[q] => new[q] # snap[q] /\ core'[q] \in {Gone, new[q]}
  BY DEF After
<1>2. Serving' = Serving
  BY DEF Serving
<1> QED
  BY <1>1, <1>2 DEF Stage, Served!Next, Served!Alter

LEMMA ServedInit == Init => Served!Init
BY DEF Init, Stage, Served!Init, Served!Seen, Body, Serving

LEMMA ServedStep == IInv /\ [Next]_vars => [Served!Next]_(Served!promised)
<1> SUFFICES ASSUME IInv, [Next]_vars PROVE [Served!Next]_(Served!promised)
  OBVIOUS
<1> DEFINE Goal == [Served!Next]_(Served!promised)
<1>0. TypeOK /\ TypeOK' /\ NoUnattendedCore /\ IInv'
  BY TypeStep, InvStep DEF IInv
<1>1. ASSUME NEW Q \in Edits, Edit(Q) PROVE Goal
  BY <1>0, <1>1, OutsideStep DEF Edit, holding, process
<1>2. CASE SetToNeedRestart
  BY <1>0, <1>2, OutsideStep DEF SetToNeedRestart, holding, process
<1>3. CASE SaveSetting
  BY <1>0, <1>3, OutsideStep DEF SaveSetting, holding, process
<1>4. CASE Upgrade
  <2>1. UNCHANGED <<db, phase, new, snap, core>>
    BY <1>4 DEF Upgrade, reading, holding
  <2>2. Serving' => Serving
    BY <1>0, <1>4 DEF Upgrade, TypeOK, Serving, Killed
  <2> QED
    BY <2>1, <2>2, CoreStep
<1>5. CASE Watchdog
  BY <1>0, <1>5, OutsideStep DEF Watchdog, holding, process
<1>6. ASSUME NEW t \in Consumers, Consume(t) PROVE Goal
  BY <1>0, <1>6, OutsideStep DEF Consume, holding, process
<1>7. ASSUME NEW t \in Threads, Acquire(t) PROVE Goal
  <2>1. phase = "free" /\ phase' = "read" /\ new' = db /\ UNCHANGED <<db, snap, p, os, core>>
    BY <1>0, <1>7 DEF Acquire, TypeOK, reading, process
  <2> QED
    BY <2>1 DEF Stage, Served!Next, Served!Begin, Serving
<1>8. ASSUME NEW t \in Threads, ReadRest(t) PROVE Goal
  <2>1. /\ phase = "read" /\ phase' = "decide" /\ UNCHANGED <<db, snap, p, os, core>>
        /\ new' \in Config /\ \A q \in Parts : new'[q] \in {new[q], db[q]}
    BY <1>0, <1>8 DEF ReadRest, TypeOK, reading, process
  <2> QED
    BY <2>1 DEF Stage, Served!Next, Served!Read, Serving, Config
<1>9. ASSUME NEW t \in Threads, ReadFails(t) PROVE Goal
  <2>1. phase = "read" /\ phase' = "free" /\ new' = Default /\ UNCHANGED <<db, snap, p, os, core>>
    BY <1>9 DEF ReadFails, Release, reading, process
  <2> QED
    BY <2>1, EndWithoutChange DEF IInv, Faithful
<1>10. ASSUME NEW t \in Threads, NotNeeded(t) PROVE Goal
  <2>1. phase = "decide" /\ phase' = "free" /\ new' = Default /\ UNCHANGED <<db, snap, p, os, core>>
    BY <1>10 DEF NotNeeded, Release, reading, process
  <2> QED
    BY <2>1, EndWithoutChange DEF IInv, Faithful
<1>11. ASSUME NEW t \in Threads, SyncLayout(t) PROVE Goal
  <2>1. /\ phase = "decide" /\ phase' = "free" /\ new' = Default /\ snap' = new
        /\ UNCHANGED <<db, p, os, core>>
    BY <1>11 DEF SyncLayout, Release, reading
  <2>2. Serving' => Serving /\ core = Body(new)
    BY <1>0, <2>1 DEF IInv, Faithful, Serving, Body
  <2> QED
    BY <2>1, <2>2, EndInGoal
<1>12. ASSUME NEW t \in Threads, GoHot(t) PROVE Goal
  BY <1>12 DEF GoHot, reading, process, Served!promised, Stage, Serving
<1>13. ASSUME NEW t \in Threads, RpcOk(t) PROVE Goal
  <2> PICK k \in todo : core' = After(k)
    BY <1>13 DEF RpcOk
  <2>1. k \in 1..5 /\ phase = "rpc" /\ phase' = "rpc" /\ Serving /\ UNCHANGED <<db, new, snap, p, os>>
    BY <1>0, <1>13 DEF RpcOk, TypeOK, reading
  <2> QED
    BY <1>0, <2>1, RpcAlters
<1>14. ASSUME NEW t \in Threads, RpcFails(t) PROVE Goal
  <2> PICK k \in todo : IF Serving /\ Accepts(k) THEN core' \in {core, After(k)} ELSE core' = core
    BY <1>14 DEF RpcFails
  <2>1. k \in 1..5 /\ phase = "rpc" /\ phase' = "launch" /\ UNCHANGED <<db, new, snap, p, os>>
    BY <1>0, <1>14 DEF RpcFails, TypeOK, reading
  <2>2. CASE Serving
    BY <1>0, <2>1, <2>2, RpcAlters
  <2>3. CASE ~Serving
    BY <2>1, <2>3 DEF Served!promised, Stage, Serving
  <2> QED
    BY <2>2, <2>3
<1>15. ASSUME NEW t \in Threads, Commit(t) PROVE Goal
  <2>1. /\ phase = "rpc" /\ phase' = "free" /\ new' = Default /\ snap' = new
        /\ UNCHANGED <<db, p, os, core>>
    BY <1>15 DEF Commit, Release, reading
  <2>2. Serving' => Serving /\ core = Body(new)
    BY <1>0, <2>1 DEF IInv, Faithful, Serving, Body
  <2> QED
    BY <2>1, <2>2, EndInGoal
<1>16. ASSUME NEW t \in Threads, Launch(t) PROVE Goal
  <2> PICK i \in Slots : p' = i /\ os' = [OldStopped EXCEPT ![i] = "starting"]
    BY <1>16 DEF Launch
  <2>1. phase # "free" /\ phase' = "free" /\ new' = Default /\ snap' = new /\ UNCHANGED <<db, core>>
    BY <1>16 DEF Launch, MustRestart, Release, reading
  <2>2. ~Serving'
    BY <1>0, OldStoppedType DEF Serving
  <2> QED
    BY <2>1, <2>2, EndInGoal
<1>17. ASSUME NEW t \in Threads, StartFails(t) PROVE Goal
  <2>1. /\ phase # "free" /\ phase' = "free" /\ new' = Default /\ snap' = new /\ UNCHANGED <<db, core>>
        /\ os' = OldStopped /\ p' \in Slots
    BY <1>17 DEF StartFails, MustRestart, Release, reading
  <2>2. ~Serving'
    BY <1>0, <2>1, OldCoreStopped DEF Serving
  <2> QED
    BY <2>1, <2>2, EndInGoal
<1>18. ASSUME NEW i \in Slots, Load(i) PROVE Goal
  <2>1. /\ UNCHANGED <<db, phase, new, snap, p>> /\ os[i] = "starting"
        /\ os' = [os EXCEPT ![i] = "serving"] /\ core' = Body(snap)
    BY <1>18 DEF Load, reading, holding
  <2>2. i = p /\ p # None
    BY <1>0, <2>1 DEF NoUnattendedCore
  <2>3. ~Serving /\ Serving'
    BY <1>0, <2>1, <2>2 DEF TypeOK, Serving
  <2> QED
    BY <2>1, <2>3 DEF Stage, Served!Next, Served!ComeUp, Served!Seen, Body
<1>19. ASSUME NEW i \in Slots, Reap(i) PROVE Goal
  <2>1. UNCHANGED <<db, phase, new, snap, p, core>> /\ (Serving' => Serving)
    BY <1>0, <1>19 DEF Reap, TypeOK, reading, holding, Serving
  <2> QED
    BY <2>1, CoreStep
<1>20. ASSUME NEW i \in Slots, Crash(i) PROVE Goal
  <2>1. UNCHANGED <<db, phase, new, snap, p, core>> /\ (Serving' => Serving)
    BY <1>0, <1>20 DEF Crash, TypeOK, reading, holding, Serving
  <2> QED
    BY <2>1, CoreStep
<1>21. CASE UNCHANGED vars
  BY <1>0, <1>21, OutsideStep DEF vars
<1> QED
  BY <1>1, <1>2, <1>3, <1>4, <1>5, <1>6, <1>7, <1>8, <1>9, <1>10, <1>11, <1>12, <1>13, <1>14,
     <1>15, <1>16, <1>17, <1>18, <1>19, <1>20, <1>21 DEF Next, Restarting, CoreLives

(* Whatever requests, crashes and half-done changes the panel goes through,    *)
(* those behind the core get what CoreService promises: RestartXray, the hot   *)
(* plan and the processes implement it.                                        *)
THEOREM CoreServiceImplemented == Spec => ServesAsPromised
<1>1. IInv /\ [Next]_vars => [Served!Next]_(Served!promised)
  BY ServedStep
<1> QED
  BY <1>1, ServedInit, InvInit, InvStep, PTL DEF Spec, ServesAsPromised, Served!Spec
=============================================================================
