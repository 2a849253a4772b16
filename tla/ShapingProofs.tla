---------------------------- MODULE ShapingProofs ----------------------------
(***************************************************************************)
(* Theorems about Shaping, for any jobs, interfaces, limits and bounds.    *)
(* What the commands of a plan have made of the kernel so far is told by   *)
(* the position of the next one and by the deletions that were skipped     *)
(* (AtWork), wherever the last plan broke off; and only one interface that *)
(* is not given up can carry rules of the panel (Lonely), the one a plan   *)
(* in execution is about.                                                  *)
(***************************************************************************)
EXTENDS Shaping, TLAPS

(* What a plan is about follows from its goal. *)
RunSound ==
  run # None =>
    /\ run \in [by : Jobs \cup {Admin}, dev : Ifaces \cup {None}, limits : Limits \cup {None},
                goal : {"apply", "empty", "rollback", "clear"}, at : Nat \ {0}]
    /\ run.goal = "apply" => run.dev \in Ifaces /\ run.limits \in Limits
    /\ run.goal \in {"apply", "empty"} => run.by # Admin

(* The interface of a plan is the present one, or it is given up. *)
DevKnown ==
  /\ run # None /\ run.dev # None => run.dev = iface \/ run.dev \in stranded
  /\ stranded \subseteq Ifaces

Clean(i) == redirect[i] \notin Redirecting /\ root[i] \notin Ours
Lonely ==
  \A i \in Ifaces \ stranded : Clean(i) \/ (i = iface /\ (run # None => run.dev = i))

(* How far the plan is with its interface and with a-ui-ifb0. *)
AtWork ==
  run # None /\ run.dev # None =>
    /\ run.at \in 2..8 => root[run.dev] = "none" \/ <<"delRoot", run.dev>> \in skipped
    /\ run.at \in 3..14 => redirect[run.dev] \notin Redirecting \/ <<"delIngress", run.dev>> \in skipped
    /\ run.at \in 8..15 => ifb = "up"
    /\ run.at \in 14..15 => queue = run.limits

(* As long as the interface has not changed and its root qdisc was not left    *)
(* alone by a plan that should have deleted it: whatever says that the rules   *)
(* are the panel's is true of it.                                              *)
OursKnown ==
  "moved" \notin spoiled =>
    /\ iface \in Ifaces
    /\ run # None => run.dev = iface
    /\ <<"delRoot", iface>> \notin skipped =>
         /\ ifb # "absent" \/ shaping.applied # NoHash => root[iface] # "foreign"
         /\ run # None /\ (run.at > 1 \/ run.goal \in {"empty", "rollback"}) => root[iface] # "foreign"

IInv == TypeOK /\ RunSound /\ DevKnown /\ Lonely /\ AtWork /\ FloorUnderRedirect /\ OursKnown

-----------------------------------------------------------------------------
(* The plans, command by command. *)
LEMMA PlanWithDevice ==
  ASSUME NEW r, r.dev # None
  PROVE  /\ Len(Plan(r)) = (IF r.goal = "apply" THEN 15 ELSE 5)
         /\ Plan(r)[1] = "delRoot" /\ Plan(r)[2] = "delIngress" /\ Plan(r)[3] = "delIfbRoot"
         /\ Plan(r)[4] = "downIfb" /\ Plan(r)[5] = "delIfb"
         /\ r.goal = "apply" =>
              /\ Plan(r)[6] = "addIfb" /\ Plan(r)[7] = "upIfb" /\ Plan(r)[8] = "rootTree"
              /\ Plan(r)[9] = "rootClass" /\ Plan(r)[10] = "rootLeaves" /\ Plan(r)[11] = "ifbTree"
              /\ Plan(r)[12] = "ifbClass" /\ Plan(r)[13] = "ifbLeaves" /\ Plan(r)[14] = "ingress"
              /\ Plan(r)[15] = "redirect"
<1> USE DEF Plan, Teardown, IfbTeardown, Build
<1>1. CASE r.goal = "apply"
  <2>1. Len(Plan(r)) = 15
    BY <1>1
  <2>2. /\ Plan(r)[1] = "delRoot" /\ Plan(r)[2] = "delIngress" /\ Plan(r)[3] = "delIfbRoot"
        /\ Plan(r)[4] = "downIfb" /\ Plan(r)[5] = "delIfb" /\ Plan(r)[6] = "addIfb"
        /\ Plan(r)[7] = "upIfb" /\ Plan(r)[8] = "rootTree" /\ Plan(r)[9] = "rootClass"
    BY <1>1
  <2>3. /\ Plan(r)[10] = "rootLeaves" /\ Plan(r)[11] = "ifbTree" /\ Plan(r)[12] = "ifbClass"
        /\ Plan(r)[13] = "ifbLeaves" /\ Plan(r)[14] = "ingress" /\ Plan(r)[15] = "redirect"
    BY <1>1
  <2> QED BY <1>1, <2>1, <2>2, <2>3
<1>2. CASE r.goal # "apply"
  BY <1>2
<1> QED BY <1>1, <1>2

LEMMA PlanWithoutDevice ==
  ASSUME NEW r, r.dev = None, r.goal # "apply"
  PROVE  /\ Len(Plan(r)) = 3
         /\ Plan(r)[1] = "delIfbRoot" /\ Plan(r)[2] = "downIfb" /\ Plan(r)[3] = "delIfb"
BY DEF Plan, Teardown, IfbTeardown

-----------------------------------------------------------------------------
LEMMA InitIInv == Init => IInv
<1> SUFFICES ASSUME Init PROVE IInv
  OBVIOUS
<1> USE ShapingAssumption DEF ShapingAssumption
<1>1. TypeOK
  BY DEF Init, TypeOK, Fresh, NoHash, Idle, Roots, Queues
<1>2. RunSound /\ DevKnown /\ AtWork
  BY DEF Init, RunSound, DevKnown, AtWork
<1>3. Lonely /\ FloorUnderRedirect
  BY DEF Init, Lonely, Clean, Redirecting, FloorUnderRedirect, Ours, Built, Roots
<1>4. OursKnown
  BY DEF Init, OursKnown, Fresh, NoHash
<1> QED BY <1>1, <1>2, <1>3, <1>4 DEF IInv

-----------------------------------------------------------------------------
JobTypes == [pc : {"idle", "rollback", "read", "reconcile", "run"}, limits : Limits \cup {None}]
ShapingTypes == [applied : (Ifaces \X Limits) \cup {NoHash}, started : BOOLEAN,
                 pending : {"none", "armed", "due"}, rejected : (Ifaces \X Limits) \cup {NoHash}]

(* The steps that leave the kernel and the interface alone. *)
LEMMA JobStartsKeeps ==
  ASSUME IInv, NEW j \in Jobs, JobStarts(j)
  PROVE  IInv'
<1> USE ShapingAssumption DEF ShapingAssumption, IInv, JobStarts, Begin, kernel
<1>1. TypeOK'
  BY DEF TypeOK
<1>2. RunSound' /\ DevKnown' /\ AtWork'
  BY DEF TypeOK, RunSound, DevKnown, AtWork
<1>3. Lonely' /\ FloorUnderRedirect'
  BY DEF Lonely, Clean, FloorUnderRedirect
<1>4. OursKnown'
  BY DEF OursKnown, TypeOK
<1> QED BY <1>1, <1>2, <1>3, <1>4

LEMMA DesiredLimitsKeeps ==
  ASSUME IInv, NEW j \in Jobs, DesiredLimits(j)
  PROVE  IInv'
<1> USE DEF IInv, DesiredLimits, kernel
<1>1. TypeOK'
  BY DEF TypeOK
<1>2. RunSound' /\ DevKnown' /\ AtWork' /\ OursKnown'
  BY DEF RunSound, DevKnown, AtWork, OursKnown
<1>3. Lonely' /\ FloorUnderRedirect'
  BY DEF Lonely, Clean, FloorUnderRedirect
<1> QED BY <1>1, <1>2, <1>3

LEMMA ReconcileKeeps ==
  ASSUME IInv, NEW j \in Jobs, Reconcile(j)
  PROVE  IInv'
<1> USE ShapingAssumption DEF ShapingAssumption, IInv, Reconcile, Begin, kernel, NothingToTearDown
<1>1. TypeOK'
  <2>1. job' \in [Jobs -> JobTypes]
    BY DEF TypeOK, Idle, JobTypes
  <2>2. shaping' \in ShapingTypes /\ (shaping'.pending # "none" => shaping'.applied # NoHash)
    BY ZenonT(40) DEF TypeOK, ShapingTypes
  <2>3. RunSound'
    BY DEF TypeOK, RunSound
  <2> QED BY <2>1, <2>2, <2>3 DEF TypeOK, RunSound, JobTypes, ShapingTypes
<1>2. RunSound' /\ DevKnown' /\ AtWork'
  BY DEF TypeOK, RunSound, DevKnown, AtWork
<1>3. Lonely' /\ FloorUnderRedirect'
  BY DEF Lonely, Clean, FloorUnderRedirect
<1>4. OursKnown'
  BY DEF OursKnown, TypeOK
<1> QED BY <1>1, <1>2, <1>3, <1>4

LEMMA ClearKeeps ==
  ASSUME IInv, Clear
  PROVE  IInv'
<1> USE ShapingAssumption DEF ShapingAssumption, IInv, Clear, Begin, kernel, Spend
<1>1. TypeOK'
  BY DEF TypeOK
<1>2. RunSound' /\ DevKnown' /\ AtWork'
  BY DEF TypeOK, RunSound, DevKnown, AtWork, Admin
<1>3. Lonely' /\ FloorUnderRedirect'
  BY DEF Lonely, Clean, FloorUnderRedirect
<1>4. OursKnown'
  BY DEF OursKnown, TypeOK
<1> QED BY <1>1, <1>2, <1>3, <1>4

LEMMA PanelRestartsKeeps ==
  ASSUME IInv, PanelRestarts
  PROVE  IInv'
<1> USE DEF IInv, PanelRestarts, kernel, Spend
<1>1. TypeOK'
  BY DEF TypeOK, Idle, Fresh
<1>2. RunSound' /\ DevKnown' /\ AtWork'
  BY DEF RunSound, DevKnown, AtWork
<1>3. Lonely' /\ FloorUnderRedirect'
  BY DEF Lonely, Clean, FloorUnderRedirect
<1>4. OursKnown'
  BY DEF OursKnown, Fresh
<1> QED BY <1>1, <1>2, <1>3, <1>4

LEMMA TimersAndRequestsKeep ==
  ASSUME IInv, Timeout \/ RequestArrives \/ Heartbeat
  PROVE  IInv'
<1> USE DEF IInv, Timeout, RequestArrives, Heartbeat, kernel
<1>1. TypeOK'
  BY DEF TypeOK
<1>2. RunSound' /\ DevKnown' /\ AtWork' /\ OursKnown'
  BY DEF RunSound, DevKnown, AtWork, OursKnown, TypeOK
<1>3. Lonely' /\ FloorUnderRedirect'
  BY DEF Lonely, Clean, FloorUnderRedirect
<1> QED BY <1>1, <1>2, <1>3

LEMMA EditKeeps ==
  ASSUME IInv, NEW limits \in Limits \cup {None}, Edit(limits)
  PROVE  IInv'
<1> USE DEF IInv, Edit, kernel, Spend
<1>1. TypeOK'
  BY DEF TypeOK
<1>2. RunSound' /\ DevKnown' /\ AtWork' /\ OursKnown'
  BY DEF RunSound, DevKnown, AtWork, OursKnown
<1>3. Lonely' /\ FloorUnderRedirect'
  BY DEF Lonely, Clean, FloorUnderRedirect
<1> QED BY <1>1, <1>2, <1>3

(* Who moves to another interface leaves the old one behind with its rules. *)
LEMMA MoveKeeps ==
  ASSUME IInv, NEW i \in Ifaces \cup {None}, Move(i)
  PROVE  IInv'
<1> USE ShapingAssumption DEF ShapingAssumption, IInv, Move, kernel, Spend
<1>1. TypeOK'
  BY DEF TypeOK
<1>2. RunSound' /\ DevKnown' /\ AtWork' /\ OursKnown'
  BY DEF RunSound, DevKnown, AtWork, OursKnown, TypeOK
<1>3. Lonely' /\ FloorUnderRedirect'
  BY DEF Lonely, Clean, FloorUnderRedirect
<1> QED BY <1>1, <1>2, <1>3

(* A plan that comes to its end has applied limits to an interface, or forgets *)
(* that it ever has.                                                            *)
LEMMA FinishKeeps ==
  ASSUME IInv, Finish
  PROVE  IInv'
<1> USE ShapingAssumption DEF ShapingAssumption, IInv, Finish, kernel
<1>1. TypeOK'
  <2>1. job' \in [Jobs -> JobTypes]
    <3>1. CASE run.by = Admin
      BY <3>1 DEF TypeOK, JobTypes
    <3>2. CASE run.by # Admin /\ run.goal = "rollback"
      BY <3>2 DEF TypeOK, JobTypes, RunSound
    <3>3. CASE run.by # Admin /\ run.goal # "rollback"
      BY <3>3 DEF TypeOK, JobTypes, RunSound, Idle
    <3> QED BY <3>1, <3>2, <3>3
  <2>2. shaping' \in ShapingTypes /\ (shaping'.pending # "none" => shaping'.applied # NoHash)
    BY DEF TypeOK, ShapingTypes, RunSound, Applied, TornDown, NoHash
  <2>3. spoiled' \subseteq {"failed", "moved", "late", "unarmed"}
    BY DEF TypeOK
  <2> QED BY <2>1, <2>2, <2>3 DEF TypeOK, JobTypes, ShapingTypes
<1>2. RunSound' /\ DevKnown' /\ AtWork'
  BY DEF RunSound, DevKnown, AtWork
<1>3. Lonely' /\ FloorUnderRedirect'
  BY DEF Lonely, Clean, FloorUnderRedirect
<1>4. OursKnown'
  <2>1. shaping'.applied # NoHash => run.goal = "apply"
    BY DEF TypeOK, RunSound, Applied, TornDown, NoHash
  <2>2. run.goal = "apply" => run.dev # None /\ run.at > 1
    <3> SUFFICES ASSUME run.goal = "apply" PROVE run.dev # None /\ run.at > 1
      OBVIOUS
    <3>1. run.dev \in Ifaces /\ run.at \in Nat
      BY DEF RunSound
    <3>2. Len(Plan(run)) = 15
      BY <3>1, PlanWithDevice
    <3>3. run.at > 15
      BY <3>2
    <3> QED BY <3>1, <3>3
  <2>3. "moved" \notin spoiled' => "moved" \notin spoiled
    BY DEF Finish
  <2>4. CASE shaping'.applied # NoHash
    BY <2>1, <2>2, <2>3, <2>4 DEF OursKnown
  <2>5. CASE shaping'.applied = NoHash
    BY <2>3, <2>5 DEF OursKnown
  <2> QED BY <2>4, <2>5
<1> QED BY <1>1, <1>2, <1>3, <1>4

-----------------------------------------------------------------------------
(* A command that takes effect, whether its plan goes on or not. *)
Effect ==
  /\ Running /\ Possible /\ TakesEffect
  /\ stranded' = IF Op = "delIngress" /\ run.dev = iface THEN stranded \ {iface} ELSE stranded
  /\ skipped' = skipped \ {<<Op, run.dev>>}

(* The command at each position of a plan for an interface. *)
LEMMA OpOnDevice ==
  ASSUME IInv, Running, run.dev # None
  PROVE  /\ run.dev \in Ifaces /\ run.at \in 1..15
         /\ run.at > 5 => run.goal = "apply" /\ run.limits \in Limits
         /\ run.at = 1 => Op = "delRoot"
         /\ run.at = 2 => Op = "delIngress"
         /\ run.at = 3 => Op = "delIfbRoot"
         /\ run.at = 4 => Op = "downIfb"
         /\ run.at = 5 => Op = "delIfb"
         /\ run.at = 6 => Op = "addIfb"
         /\ run.at = 7 => Op = "upIfb"
         /\ run.at = 8 => Op = "rootTree"
         /\ run.at = 9 => Op = "rootClass"
         /\ run.at = 10 => Op = "rootLeaves"
         /\ run.at = 11 => Op = "ifbTree"
         /\ run.at = 12 => Op = "ifbClass"
         /\ run.at = 13 => Op = "ifbLeaves"
         /\ run.at = 14 => Op = "ingress"
         /\ run.at = 15 => Op = "redirect"
<1>1. run # None /\ run.dev \in Ifaces /\ run.at \in Nat \ {0} /\ run.at <= Len(Plan(run))
  BY DEF IInv, RunSound, Running
<1>2. run.at \in 1..15 /\ (run.at > 5 => run.goal = "apply" /\ run.limits \in Limits)
  <2>1. Len(Plan(run)) = IF run.goal = "apply" THEN 15 ELSE 5
    BY PlanWithDevice
  <2>2. run.goal = "apply" => run.limits \in Limits
    BY <1>1 DEF IInv, RunSound
  <2> QED BY <1>1, <2>1, <2>2
<1>3. /\ run.at = 1 => Op = "delRoot"
      /\ run.at = 2 => Op = "delIngress"
      /\ run.at = 3 => Op = "delIfbRoot"
      /\ run.at = 4 => Op = "downIfb"
      /\ run.at = 5 => Op = "delIfb"
  BY PlanWithDevice DEF Op
<1>4. /\ run.at = 6 => Op = "addIfb"
      /\ run.at = 7 => Op = "upIfb"
      /\ run.at = 8 => Op = "rootTree"
      /\ run.at = 9 => Op = "rootClass"
      /\ run.at = 10 => Op = "rootLeaves"
  BY <1>2, PlanWithDevice DEF Op
<1>5. /\ run.at = 11 => Op = "ifbTree"
      /\ run.at = 12 => Op = "ifbClass"
      /\ run.at = 13 => Op = "ifbLeaves"
      /\ run.at = 14 => Op = "ingress"
      /\ run.at = 15 => Op = "redirect"
  BY <1>2, PlanWithDevice DEF Op
<1> QED BY <1>1, <1>2, <1>3, <1>4, <1>5

(* What it does to the kernel and to the history of what was skipped. *)
LEMMA EffectOnDevice ==
  ASSUME IInv, Effect, run.dev # None
  PROVE  /\ \A i \in Ifaces : i # run.dev => root'[i] = root[i] /\ (redirect'[i] \in Redirecting <=> redirect[i] \in Redirecting)
         /\ run.at = 1 => root'[run.dev] = "none"
         /\ run.at = 8 => root'[run.dev] = "bare"
         /\ run.at = 9 => root'[run.dev] = "floor"
         /\ run.at = 10 => root'[run.dev] = run.limits
         /\ run.at \notin {1, 8, 9, 10} => root'[run.dev] = root[run.dev]
         /\ run.at = 2 => redirect'[run.dev] = "off"
         /\ run.at = 14 => redirect'[run.dev] = "hook"
         /\ run.at = 15 => redirect'[run.dev] = "ifb"
         /\ run.at \notin {2, 14, 15} => (redirect'[run.dev] \in Redirecting <=> redirect[run.dev] \in Redirecting)
         /\ run.at \notin {4, 5, 6, 7} => ifb' = ifb
         /\ run.at = 7 => ifb' = "up"
         /\ run.at = 13 => queue' = run.limits
         /\ run.at \notin {3, 5, 11, 12, 13} => queue' = queue
         /\ run.at = 1 => redirect' = redirect
         /\ stranded' = IF run.at = 2 /\ run.dev = iface THEN stranded \ {iface} ELSE stranded
         /\ run.at > 2 => skipped' = skipped
         /\ <<"delIngress", run.dev>> \in skipped /\ run.at # 2 => <<"delIngress", run.dev>> \in skipped'
         /\ <<"delRoot", run.dev>> \in skipped /\ run.at # 1 => <<"delRoot", run.dev>> \in skipped'
<1>1. run.dev \in Ifaces /\ run.at \in 1..15 /\ Running
  BY OpOnDevice DEF Effect
<1>2. /\ \A i \in Ifaces : root'[i] = IF i = run.dev THEN RootAfter(root[i]) ELSE root[i]
      /\ \A i \in Ifaces : redirect'[i] = RedirectAfter(i)
      /\ redirect' = [i \in Ifaces |-> RedirectAfter(i)]
      /\ ifb' = IfbAfter /\ queue' = QueueAfter
      /\ stranded' = IF Op = "delIngress" /\ run.dev = iface THEN stranded \ {iface} ELSE stranded
      /\ skipped' = skipped \ {<<Op, run.dev>>}
  BY Zenon DEF Effect, TakesEffect
<1>3. skipped \subseteq Undoings \X Ifaces /\ redirect \in [Ifaces -> {"off", "hook", "ifb", "nowhere"}]
  BY DEF IInv, TypeOK
<1>4. \A i \in Ifaces : i # run.dev => root'[i] = root[i] /\ (redirect'[i] \in Redirecting <=> redirect[i] \in Redirecting)
  BY <1>2 DEF Redirecting, RedirectAfter
<1>5. /\ run.at = 1 => root'[run.dev] = "none"
      /\ run.at = 8 => root'[run.dev] = "bare"
      /\ run.at = 9 => root'[run.dev] = "floor"
      /\ run.at = 10 => root'[run.dev] = run.limits
      /\ run.at \notin {1, 8, 9, 10} => root'[run.dev] = root[run.dev]
  BY <1>1, <1>2, OpOnDevice DEF RootAfter
<1>6. /\ run.at = 2 => redirect'[run.dev] = "off"
      /\ run.at = 14 => redirect'[run.dev] = "hook"
      /\ run.at = 15 => redirect'[run.dev] = "ifb"
      /\ run.at \notin {2, 14, 15} => (redirect'[run.dev] \in Redirecting <=> redirect[run.dev] \in Redirecting)
  BY <1>1, <1>2, OpOnDevice DEF RedirectAfter, Redirecting
<1>7. /\ run.at \notin {4, 5, 6, 7} => ifb' = ifb
      /\ run.at = 7 => ifb' = "up"
      /\ run.at = 13 => queue' = run.limits
      /\ run.at \notin {3, 5, 11, 12, 13} => queue' = queue
  BY <1>1, <1>2, OpOnDevice DEF IfbAfter, QueueAfter
<1>8. run.at = 1 => redirect' = redirect
  <2> SUFFICES ASSUME run.at = 1 PROVE redirect' = redirect
    OBVIOUS
  <2>1. \A i \in Ifaces : RedirectAfter(i) = redirect[i]
    BY <1>1, OpOnDevice DEF RedirectAfter
  <2> QED BY <1>2, <1>3, <2>1
<1>9. /\ stranded' = IF run.at = 2 /\ run.dev = iface THEN stranded \ {iface} ELSE stranded
      /\ run.at > 2 => Op \notin Undoings
      /\ run.at # 1 => Op # "delRoot"
      /\ run.at # 2 => Op # "delIngress"
  BY <1>1, <1>2, OpOnDevice DEF Undoings
<1>10. run.at > 2 => skipped' = skipped
  BY <1>2, <1>3, <1>9
<1>11. /\ <<"delIngress", run.dev>> \in skipped /\ run.at # 2 => <<"delIngress", run.dev>> \in skipped'
       /\ <<"delRoot", run.dev>> \in skipped /\ run.at # 1 => <<"delRoot", run.dev>> \in skipped'
  BY <1>2, <1>9
<1> QED BY <1>4, <1>5, <1>6, <1>7, <1>8, <1>9, <1>10, <1>11

(* The kernel keeps its type, whatever the command. *)
LEMMA EffectTyped ==
  ASSUME IInv, Effect
  PROVE  /\ root' \in [Ifaces -> Roots \cup Limits]
         /\ ifb' \in {"absent", "down", "up"} /\ queue' \in Queues \cup Limits
         /\ redirect' \in [Ifaces -> {"off", "hook", "ifb", "nowhere"}]
         /\ beat' \in {"none", "new", "old"}
         /\ stranded' \subseteq Ifaces /\ skipped' \subseteq Undoings \X Ifaces
<1>1. Op \in {"rootLeaves", "ifbLeaves"} => run.limits \in Limits
  <2>1. CASE run.dev = None
    <3>1. run.goal # "apply" /\ run.at \in Nat \ {0} /\ run.at <= Len(Plan(run))
      BY <2>1, ShapingAssumption DEF ShapingAssumption, Effect, Running, IInv, RunSound
    <3>2. Op \in {"delIfbRoot", "downIfb", "delIfb"}
      BY <2>1, <3>1, PlanWithoutDevice DEF Op
    <3> QED BY <3>2
  <2>2. CASE run.dev # None
    BY <2>2, OpOnDevice DEF Effect
  <2> QED BY <2>1, <2>2
<1>2. \A i \in Ifaces : root[i] \in Roots \cup Limits /\ redirect[i] \in {"off", "hook", "ifb", "nowhere"}
  BY DEF IInv, TypeOK
<1>3. \A i \in Ifaces : RootAfter(root[i]) \in Roots \cup Limits
  BY <1>1, <1>2 DEF RootAfter, Roots
<1>4. \A i \in Ifaces : RedirectAfter(i) \in {"off", "hook", "ifb", "nowhere"}
  BY <1>2 DEF RedirectAfter
<1>5. root' \in [Ifaces -> Roots \cup Limits] /\ redirect' \in [Ifaces -> {"off", "hook", "ifb", "nowhere"}]
  BY <1>2, <1>3, <1>4 DEF Effect, TakesEffect
<1>6. ifb' \in {"absent", "down", "up"}
  BY DEF Effect, TakesEffect, IfbAfter, IInv, TypeOK
<1>7. queue' \in Queues \cup Limits
  <2>1. queue' = QueueAfter /\ queue \in Queues \cup Limits
    BY DEF Effect, TakesEffect, IInv, TypeOK
  <2> QED BY <1>1, <2>1 DEF QueueAfter, Queues
<1>8. /\ beat' \in {"none", "new", "old"}
      /\ stranded' \subseteq Ifaces /\ skipped' \subseteq Undoings \X Ifaces
  BY DEF Effect, TakesEffect, IInv, TypeOK
<1> QED BY <1>5, <1>6, <1>7, <1>8

(* A command on an interface leaves no redirection and no rules without their  *)
(* device, on this interface or any other, and the root qdisc of the interface *)
(* what the memory says it is.                                                 *)
LEMMA EffectKeepsFloor ==
  ASSUME IInv, Effect, run.dev # None, iface' = iface
  PROVE  /\ FloorUnderRedirect'
         /\ \A i \in Ifaces \ stranded' : Clean(i)' \/ (i = iface /\ run.dev = i)
         /\ "moved" \notin spoiled /\ <<"delRoot", iface>> \notin skipped' => root'[iface] # "foreign"
<1> USE ShapingAssumption DEF ShapingAssumption
<1>1. PICK d \in Ifaces : d = run.dev
  BY OpOnDevice DEF Effect
<1>2. run # None /\ run.at \in 1..15 /\ (run.at > 5 => run.limits \in Limits)
  BY OpOnDevice DEF Effect, Running
<1>3. \A i \in Ifaces \ stranded' : i # d => i \notin stranded
  BY <1>1, EffectOnDevice
<1>4. \A i \in Ifaces \ stranded' : i # d => Clean(i)
  BY <1>1, <1>2, <1>3 DEF IInv, Lonely
<1>5. \A i \in Ifaces \ stranded' : i # d => Clean(i)'
  BY <1>1, <1>4, EffectOnDevice DEF Clean
<1>6. "none" \notin Ours /\ "foreign" \notin Ours
  BY DEF Ours, Built, Roots
<1>7. ASSUME d \notin stranded'
      PROVE  /\ redirect'[d] \in Redirecting => \/ redirect'[d] = "ifb" /\ ifb' = "up" /\ queue' \in Built
                                             \/ <<"delIngress", d>> \in skipped'
             /\ root'[d] \in Ours => ifb' # "absent" \/ <<"delRoot", d>> \in skipped'
  <2>1. CASE run.at = 1
    <3>1. root'[d] = "none" /\ redirect' = redirect /\ ifb' = ifb /\ queue' = queue /\ d \notin stranded
      BY <1>1, <1>7, <2>1, EffectOnDevice
    <3>2. <<"delIngress", d>> \in skipped => <<"delIngress", d>> \in skipped'
      BY <1>1, <2>1, EffectOnDevice
    <3> QED BY <1>6, <3>1, <3>2 DEF IInv, FloorUnderRedirect, Redirecting
  <2>2. CASE run.at = 2
    <3>1. redirect'[d] \notin Redirecting
      BY <1>1, <2>2, EffectOnDevice DEF Redirecting
    <3>2. root'[d] = "none" \/ <<"delRoot", d>> \in skipped'
      BY <1>1, <1>2, <2>2, EffectOnDevice DEF IInv, AtWork
    <3> QED BY <1>6, <3>1, <3>2
  <2>3. CASE run.at \in 3..7
    <3>1. root'[d] = "none" \/ <<"delRoot", d>> \in skipped'
      BY <1>1, <1>2, <2>3, EffectOnDevice DEF IInv, AtWork
    <3>2. redirect'[d] \notin Redirecting \/ <<"delIngress", d>> \in skipped'
      BY <1>1, <1>2, <2>3, EffectOnDevice DEF IInv, AtWork
    <3> QED BY <1>6, <3>1, <3>2
  <2>4. CASE run.at \in 8..14
    <3>1. ifb' = "up"
      BY <1>1, <1>2, <2>4, EffectOnDevice DEF IInv, AtWork
    <3>2. redirect'[d] \notin Redirecting \/ <<"delIngress", d>> \in skipped'
      <4>1. CASE run.at = 14
        BY <1>1, <4>1, EffectOnDevice DEF Redirecting
      <4>2. CASE run.at \in 8..13
        BY <1>1, <1>2, <4>2, EffectOnDevice DEF IInv, AtWork
      <4> QED BY <2>4, <4>1, <4>2
    <3> QED BY <3>1, <3>2
  <2>5. CASE run.at = 15
    <3>1. ifb' = "up" /\ queue' = run.limits /\ redirect'[d] = "ifb" /\ run.limits \in Built
      BY <1>1, <1>2, <2>5, EffectOnDevice DEF IInv, AtWork, Built
    <3> QED BY <3>1
  <2> QED BY <1>2, <2>1, <2>2, <2>3, <2>4, <2>5
<1>8. FloorUnderRedirect'
  BY <1>5, <1>7 DEF FloorUnderRedirect, Clean
<1>9. \A i \in Ifaces \ stranded' : Clean(i)' \/ (i = iface /\ run.dev = i)
  <2>1. ASSUME d \notin stranded' PROVE d = iface
    BY <1>1, <1>2, <2>1, EffectOnDevice DEF IInv, DevKnown
  <2> QED BY <1>1, <1>5, <2>1
<1>10. ASSUME "moved" \notin spoiled, <<"delRoot", iface>> \notin skipped'
       PROVE  root'[iface] # "foreign"
  <2>1. d = iface
    BY <1>1, <1>2, <1>10 DEF IInv, OursKnown
  <2>2. run.at # 1 => root[d] # "foreign"
    <3>1. run.at # 1 => <<"delRoot", iface>> \notin skipped
      BY <1>1, <1>10, <2>1, EffectOnDevice
    <3> QED BY <1>2, <1>10, <2>1, <3>1 DEF IInv, OursKnown
  <2>3. "foreign" \in Roots
    BY DEF Roots
  <2>4. CASE run.at \in {1, 8, 9, 10}
    BY <1>1, <1>2, <2>1, <2>3, <2>4, EffectOnDevice
  <2>5. CASE run.at \notin {1, 8, 9, 10}
    BY <1>1, <2>1, <2>2, <2>5, EffectOnDevice
  <2> QED BY <2>4, <2>5
<1> QED BY <1>8, <1>9, <1>10

-----------------------------------------------------------------------------
RunTypes == [by : Jobs \cup {Admin}, dev : Ifaces \cup {None}, limits : Limits \cup {None},
             goal : {"apply", "empty", "rollback", "clear"}, at : Nat \ {0}]

(* The plan goes on to its next command. *)
LEMMA NextCommand ==
  ASSUME IInv, run # None, run' = [run EXCEPT !.at = @ + 1]
  PROVE  /\ run' \in RunTypes
         /\ run'.at = run.at + 1 /\ run'.dev = run.dev /\ run'.limits = run.limits
         /\ run'.goal = run.goal /\ run'.by = run.by
<1>1. run \in RunTypes
  BY DEF IInv, RunSound, RunTypes
<1>2. run' \in RunTypes /\ run'.at = run.at + 1 /\ run'.dev = run.dev /\ run'.limits = run.limits
      /\ run'.goal = run.goal /\ run'.by = run.by
  BY <1>1 DEF RunTypes
<1> QED BY <1>2

LEMMA CommandOnDeviceKeeps ==
  ASSUME IInv, Command, run.dev # None
  PROVE  IInv'
<1> USE ShapingAssumption DEF ShapingAssumption
<1>1. /\ run # None /\ run' = [run EXCEPT !.at = @ + 1] /\ Effect
      /\ UNCHANGED <<db, iface, shaping, job, spoiled, left>>
  BY DEF Command, Running, Effect
<1>2. TypeOK' /\ RunSound'
  BY <1>1, NextCommand, EffectTyped DEF IInv, TypeOK, RunSound, RunTypes
<1>3. DevKnown'
  BY <1>1, NextCommand, EffectOnDevice, EffectTyped DEF IInv, DevKnown
<1>4. FloorUnderRedirect'
  BY <1>1, EffectKeepsFloor
<1>5. Lonely'
  BY <1>1, NextCommand, EffectKeepsFloor DEF Lonely
<1>6. AtWork'
  <2>1. run.dev \in Ifaces /\ run.at \in 1..15
    BY <1>1, OpOnDevice DEF Effect
  <2>2. run'.at \in 2..8 => root'[run.dev] = "none" \/ <<"delRoot", run.dev>> \in skipped'
    BY <1>1, <2>1, NextCommand, EffectOnDevice DEF IInv, AtWork
  <2>3. run'.at \in 3..14 => redirect'[run.dev] \notin Redirecting \/ <<"delIngress", run.dev>> \in skipped'
    <3>1. run.at = 2 => redirect'[run.dev] \notin Redirecting
      BY <1>1, EffectOnDevice DEF Redirecting
    <3> QED BY <1>1, <2>1, <3>1, NextCommand, EffectOnDevice DEF IInv, AtWork
  <2>4. (run'.at \in 8..15 => ifb' = "up") /\ (run'.at \in 14..15 => queue' = run.limits)
    BY <1>1, <2>1, NextCommand, EffectOnDevice DEF IInv, AtWork
  <2>5. run'.dev = run.dev /\ run'.limits = run.limits
    BY <1>1, NextCommand
  <2> QED BY <2>2, <2>3, <2>4, <2>5 DEF AtWork, Redirecting
<1>7. OursKnown'
  BY <1>1, NextCommand, EffectKeepsFloor DEF IInv, OursKnown
<1> QED BY <1>2, <1>3, <1>4, <1>5, <1>6, <1>7 DEF IInv

(* Without an interface only a-ui-ifb0 is taken down: whatever is not given up *)
(* carries no rules of the panel then.                                          *)
LEMMA CommandWithoutDeviceKeeps ==
  ASSUME IInv, Command, run.dev = None
  PROVE  IInv'
<1> USE ShapingAssumption DEF ShapingAssumption
<1>1. /\ run # None /\ run' = [run EXCEPT !.at = @ + 1] /\ Effect
      /\ UNCHANGED <<db, iface, shaping, job, spoiled, left>>
  BY DEF Command, Running, Effect
<1>2. run.goal # "apply" /\ run.at \in Nat \ {0} /\ run.at <= Len(Plan(run))
  BY <1>1 DEF IInv, RunSound, Effect, Running
<1>3. Op \in {"delIfbRoot", "downIfb", "delIfb"}
  BY <1>2, PlanWithoutDevice DEF Op
<1>4. \A i \in Ifaces : root'[i] = root[i] /\ (redirect'[i] \in Redirecting <=> redirect[i] \in Redirecting)
  <2>1. \A i \in Ifaces : /\ root'[i] = IF i = run.dev THEN RootAfter(root[i]) ELSE root[i]
                          /\ redirect'[i] = RedirectAfter(i)
    BY <1>1, Zenon DEF Effect, TakesEffect
  <2>2. \A i \in Ifaces : i # run.dev
    OBVIOUS
  <2> QED BY <2>1, <2>2 DEF RedirectAfter, Redirecting
<1>5. stranded' = stranded
  BY <1>1, <1>3 DEF Effect
<1>6. TypeOK' /\ RunSound'
  BY <1>1, NextCommand, EffectTyped DEF IInv, TypeOK, RunSound, RunTypes
<1>7. DevKnown' /\ AtWork'
  BY <1>1, <1>5, NextCommand DEF IInv, DevKnown, AtWork
<1>8. \A i \in Ifaces \ stranded : Clean(i)
  BY <1>1 DEF IInv, Lonely
<1>9. \A i \in Ifaces \ stranded' : Clean(i)'
  BY <1>4, <1>5, <1>8 DEF Clean
<1>10. Lonely' /\ FloorUnderRedirect'
  BY <1>9 DEF Lonely, Clean, FloorUnderRedirect
<1>11. OursKnown'
  BY <1>1 DEF IInv, OursKnown
<1> QED BY <1>6, <1>7, <1>10, <1>11 DEF IInv

(* What is ignored has either had nothing to delete, or is remembered as       *)
(* skipped.                                                                     *)
LEMMA CommandSkipsKeeps ==
  ASSUME IInv, CommandSkips
  PROVE  IInv'
<1> USE ShapingAssumption DEF ShapingAssumption
<1>1. /\ run # None /\ Running /\ Op \in IgnoreError /\ run' = [run EXCEPT !.at = @ + 1]
      /\ UNCHANGED <<db, iface, root, ifb, queue, redirect, shaping, job, beat, stranded, spoiled>>
  BY DEF CommandSkips, Running, kernel
<1>2. /\ skipped \subseteq skipped'
      /\ Op = "delRoot" /\ root[run.dev] # "none" => <<"delRoot", run.dev>> \in skipped'
      /\ Op = "delIngress" /\ redirect[run.dev] \in Redirecting => <<"delIngress", run.dev>> \in skipped'
  BY DEF CommandSkips
<1>3. run.dev = None => Op \notin Undoings
  <2> SUFFICES ASSUME run.dev = None PROVE Op \notin Undoings
    OBVIOUS
  <2>1. run.goal # "apply" /\ run.at \in Nat \ {0} /\ run.at <= Len(Plan(run))
    BY <1>1 DEF IInv, RunSound, Running
  <2> QED BY <2>1, PlanWithoutDevice DEF Op, Undoings
<1>4. skipped' \subseteq Undoings \X Ifaces
  <2>1. skipped \subseteq Undoings \X Ifaces /\ run.dev \in Ifaces \cup {None}
    BY <1>1 DEF IInv, TypeOK, RunSound
  <2>2. skipped' = skipped \/ (Op \in Undoings /\ skipped' = skipped \cup {<<Op, run.dev>>})
    BY DEF CommandSkips, Undoings
  <2> QED BY <1>3, <2>1, <2>2
<1>5. TypeOK' /\ RunSound'
  <2>1. left' \in [{"edits", "events"} -> Nat]
    BY DEF CommandSkips, Spend, IInv, TypeOK
  <2> QED BY <1>1, <1>4, <2>1, NextCommand DEF IInv, TypeOK, RunSound, RunTypes
<1>6. DevKnown' /\ Lonely'
  BY <1>1, NextCommand DEF IInv, DevKnown, Lonely, Clean, Redirecting
<1>7. FloorUnderRedirect'
  BY <1>1, <1>2 DEF IInv, FloorUnderRedirect, Redirecting
<1>8. AtWork'
  <2> SUFFICES ASSUME run.dev # None PROVE AtWork'
    BY <1>1, NextCommand DEF AtWork
  <2>1. run.at \in 1..6
    BY <1>1, OpOnDevice DEF IgnoreError
  <2>2. run'.at \in 2..8 => root'[run.dev] = "none" \/ <<"delRoot", run.dev>> \in skipped'
    BY <1>1, <1>2, <2>1, OpOnDevice, NextCommand DEF IInv, AtWork
  <2>3. run'.at \in 3..14 => redirect'[run.dev] \notin Redirecting \/ <<"delIngress", run.dev>> \in skipped'
    BY <1>1, <1>2, <2>1, OpOnDevice, NextCommand DEF IInv, AtWork, Redirecting
  <2>4. run'.at \in 2..7 /\ run'.dev = run.dev
    BY <1>1, <2>1, NextCommand
  <2> QED BY <2>2, <2>3, <2>4 DEF AtWork, Redirecting
<1>9. OursKnown'
  <2> SUFFICES ASSUME "moved" \notin spoiled, <<"delRoot", iface>> \notin skipped'
               PROVE  /\ ifb # "absent" \/ shaping.applied # NoHash => root[iface] # "foreign"
                      /\ root[iface] # "foreign"
    BY <1>1, NextCommand DEF IInv, OursKnown
  <2>1. <<"delRoot", iface>> \notin skipped /\ run.dev = iface /\ iface \in Ifaces
    BY <1>1, <1>2 DEF IInv, OursKnown
  <2>2. run.at = 1 => root[iface] # "foreign"
    BY <1>1, <1>2, <2>1, OpOnDevice
  <2>3. run.at # 1 => root[iface] # "foreign"
    BY <1>1, <2>1, OpOnDevice DEF IInv, OursKnown
  <2> QED BY <2>2, <2>3
<1> QED BY <1>5, <1>6, <1>7, <1>8, <1>9 DEF IInv

(* A command fails that ends its plan: only those of an apply plan do. *)
LEMMA CommandFailsKeeps ==
  ASSUME IInv, CommandFails
  PROVE  IInv'
<1> USE ShapingAssumption DEF ShapingAssumption
<1>1. /\ run # None /\ Running /\ Op \notin IgnoreError /\ run' = None
      /\ spoiled' = spoiled \cup {"failed"}
      /\ UNCHANGED <<db, iface, shaping, stranded, skipped>>
  BY DEF CommandFails, Running
<1>2. job' \in [Jobs -> JobTypes]
  BY DEF CommandFails, IInv, TypeOK, Idle, JobTypes
<1>3. left' \in [{"edits", "events"} -> Nat]
  BY DEF CommandFails, Spend, IInv, TypeOK
<1>4. CASE UNCHANGED <<kernel, beat>>
  <2>1. TypeOK'
    BY <1>1, <1>2, <1>3, <1>4 DEF IInv, TypeOK, JobTypes, kernel
  <2>2. RunSound' /\ DevKnown' /\ AtWork' /\ OursKnown'
    BY <1>1, <1>4 DEF IInv, RunSound, DevKnown, AtWork, OursKnown, kernel
  <2>3. Lonely' /\ FloorUnderRedirect'
    BY <1>1, <1>4 DEF IInv, Lonely, Clean, Redirecting, FloorUnderRedirect, kernel
  <2> QED BY <2>1, <2>2, <2>3 DEF IInv
<1>5. CASE Possible /\ TakesEffect
  <2>1. run.dev # None
    <3> SUFFICES ASSUME run.dev = None PROVE FALSE
      OBVIOUS
    <3>1. run.goal # "apply" /\ run.at \in Nat \ {0} /\ run.at <= Len(Plan(run))
      BY <1>1 DEF IInv, RunSound, Running
    <3> QED BY <1>1, <3>1, PlanWithoutDevice DEF Op, IgnoreError
  <2>2. Effect
    <3>1. Op \notin Undoings
      BY <1>1 DEF IgnoreError, Undoings
    <3>2. skipped \subseteq Undoings \X Ifaces
      BY DEF IInv, TypeOK
    <3>3. skipped \ {<<Op, run.dev>>} = skipped
      BY <3>1, <3>2
    <3> QED BY <1>1, <1>5, <3>1, <3>3 DEF Effect, Undoings
  <2>3. TypeOK'
    BY <1>1, <1>2, <1>3, <2>2, EffectTyped DEF IInv, TypeOK, JobTypes
  <2>4. RunSound' /\ DevKnown' /\ AtWork'
    BY <1>1 DEF IInv, RunSound, DevKnown, AtWork
  <2>5. Lonely' /\ FloorUnderRedirect' /\ OursKnown'
    BY <1>1, <2>1, <2>2, EffectKeepsFloor DEF IInv, Lonely, OursKnown
  <2> QED BY <2>3, <2>4, <2>5 DEF IInv
<1> QED BY <1>4, <1>5 DEF CommandFails

LEMMA StutterKeeps ==
  ASSUME IInv, UNCHANGED vars
  PROVE  IInv'
<1> USE DEF IInv, vars, kernel
<1>1. TypeOK' /\ RunSound' /\ DevKnown' /\ AtWork' /\ OursKnown'
  BY DEF TypeOK, RunSound, DevKnown, AtWork, OursKnown
<1>2. Lonely' /\ FloorUnderRedirect'
  BY DEF Lonely, Clean, FloorUnderRedirect
<1> QED BY <1>1, <1>2

(* The strengthening is inductive. *)
LEMMA InvAlways == Spec => []IInv
<1>1. IInv /\ [Next]_vars => IInv'
  <2> SUFFICES ASSUME IInv, [Next]_vars PROVE IInv'
    OBVIOUS
  <2>1. ASSUME NEW j \in Jobs, JobStarts(j) \/ DesiredLimits(j) \/ Reconcile(j) PROVE IInv'
    BY <2>1, JobStartsKeeps, DesiredLimitsKeeps, ReconcileKeeps
  <2>2. CASE Command
    BY <2>2, CommandOnDeviceKeeps, CommandWithoutDeviceKeeps
  <2>3. CASE Clear \/ CommandSkips \/ CommandFails \/ Finish \/ PanelRestarts
    BY <2>3, ClearKeeps, CommandSkipsKeeps, CommandFailsKeeps, FinishKeeps, PanelRestartsKeeps
  <2>4. CASE Timeout \/ RequestArrives \/ Heartbeat
    BY <2>4, TimersAndRequestsKeep
  <2>5. ASSUME NEW limits \in Limits \cup {None}, Edit(limits) PROVE IInv'
    BY <2>5, EditKeeps
  <2>6. ASSUME NEW i \in Ifaces \cup {None}, Move(i) PROVE IInv'
    BY <2>6, MoveKeeps
  <2>7. CASE UNCHANGED vars
    BY <2>7, StutterKeeps
  <2> QED BY <2>1, <2>2, <2>3, <2>4, <2>5, <2>6, <2>7 DEF Next
<1> QED BY InitIInv, <1>1, PTL DEF Spec

-----------------------------------------------------------------------------
(* The variables of the port rate limits keep their types, and a rollback that *)
(* is pending always has limits in memory to take back.                         *)
THEOREM TypeCorrect == Spec => []TypeOK
<1>1. IInv => TypeOK
  BY DEF IInv
<1> QED BY <1>1, InvAlways, PTL

(* Wherever a command of tc or ip fails or the panel dies, ingress is never     *)
(* redirected but into an a-ui-ifb0 that is up and has a default class, and     *)
(* rules of the panel are never without the a-ui-ifb0 it recognises them by -   *)
(* on any interface that a change of setting has not given up, and unless the   *)
(* deletion of this very redirection, or of these rules, failed, was ignored    *)
(* and has not been made good since.                                            *)
THEOREM FloorAlways == Spec => []FloorUnderRedirect
<1>1. IInv => FloorUnderRedirect
  BY DEF IInv
<1> QED BY <1>1, InvAlways, PTL

(* No command of a reconcile without limits or of a rollback removes the root   *)
(* qdisc the administrator has set up himself, as long as the interface has not *)
(* changed and no plan that was to replace the qdisc has left it alone.         *)
THEOREM ForeignIsKept == Spec => ForeignKept
<1>1. IInv /\ [Next]_vars =>
        \A i \in Ifaces : root[i] = "foreign" /\ root'[i] # "foreign"
          => \/ run.goal \in {"apply", "clear"} \/ "moved" \in spoiled
             \/ <<"delRoot", i>> \in skipped
  <2> SUFFICES ASSUME IInv, [Next]_vars, NEW i \in Ifaces, root[i] = "foreign", root'[i] # "foreign",
                      "moved" \notin spoiled, <<"delRoot", i>> \notin skipped
               PROVE  run.goal \in {"apply", "clear"}
    OBVIOUS
  <2>1. CASE Running /\ TakesEffect
    <3>1. run # None
      BY <2>1 DEF Running
    <3>2. run.dev = iface /\ iface \in Ifaces
      BY <3>1 DEF IInv, OursKnown
    <3>3. run.goal \in {"apply", "empty", "rollback", "clear"}
      BY <3>1 DEF IInv, RunSound
    <3>4. i = run.dev
      BY <2>1, Zenon DEF TakesEffect
    <3>5. run.goal \in {"empty", "rollback"} => root[iface] # "foreign"
      BY <3>1, <3>2, <3>4 DEF IInv, OursKnown
    <3> QED BY <3>2, <3>3, <3>4, <3>5
  <2>2. CASE ~(Running /\ TakesEffect)
    BY <2>2 DEF Next, vars, kernel, JobStarts, DesiredLimits, Reconcile, Clear, Command, CommandSkips,
                CommandFails, Finish, Timeout, RequestArrives, Heartbeat, Edit, Move, PanelRestarts
  <2> QED BY <2>1, <2>2
<1>2. []IInv /\ [][Next]_vars => ForeignKept
  BY <1>1, PTL DEF ForeignKept
<1> QED BY <1>2, InvAlways, PTL DEF Spec
=============================================================================
