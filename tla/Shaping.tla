------------------------------- MODULE Shaping -------------------------------
(***************************************************************************)
(* Port rate limits: ShapingJob (every 10 seconds, in a goroutine of its   *)
(* own) makes the kernel's tc rules those of the database, and takes them  *)
(* all back when no panel request arrives for two minutes after a change   *)
(* (web/service/shaping.go, web/job/shaping_job.go, util/tcshape/).        *)
(*                                                                         *)
(* A plan is run command by command with shapingLock held: a command may   *)
(* fail, with or without having taken effect, one whose error is ignored   *)
(* may do nothing, and the panel may die between any two of them.  The     *)
(* commands that add the classes and filters of the limits to one device   *)
(* are one step.                                                           *)
(* An element of Limits stands for the limits of all enabled inbounds, so  *)
(* <<interface, limits>> is their hash.                                    *)
(***************************************************************************)
EXTENDS Naturals, Sequences

CONSTANTS
  Jobs,         \* goroutines cron starts for ShapingJob
  Ifaces,       \* network interfaces
  None,         \* no limits, no interface, no plan in execution
  Limits,       \* rate limits the administrator may configure
  Cuts,         \* those that make the panel unreachable
  MaxEdits,     \* bound: changes of the limits in the database
  MaxEvents     \* bound: requests to clear all rules, changes of the interface, commands
                \* that fail or are skipped and restarts of the panel, all together

Admin == "admin"
Roots == {"none", "foreign", "bare", "floor"}
Queues == {"none", "bare", "floor"}
Undoings == {"delRoot", "delIngress"}

ASSUME ShapingAssumption ==
  /\ None \notin Limits \cup Ifaces \cup Jobs /\ Admin \notin Jobs
  /\ Cuts \subseteq Limits /\ Limits \cap (Roots \cup Queues) = {}
  /\ MaxEdits \in Nat /\ MaxEvents \in Nat

VARIABLES
  db,         \* what desiredLimits returns, None without a limited inbound
  iface,      \* what resolveInterface returns, None when it fails
  root,       \* root[i]: "foreign" is the administrator's own qdisc, "bare" HTB without the
              \* default class, "floor" with it and not with all of the limits
  ifb,        \* a-ui-ifb0: "absent", "down" or "up"
  queue,      \* its root qdisc
  redirect,   \* redirect[i]: "hook" is an ingress qdisc without a filter; with one all ingress
              \* of i goes to a-ui-ifb0, and "nowhere" since that device was deleted
  shaping,    \* shapingAppliedHash, shapingStarted, shapingPendingSince, shapingRejectedHash
  job,        \* job[j]: program counter and the limits read
  run,        \* the plan in execution by the holder of shapingLock, or None
  beat,       \* requests in Heartbeat, before shapingLock: "none", "new", or "old" if they
              \* arrived before the rules that are in force now
  stranded,   \* history: interfaces that were given up and not cleaned since
  skipped,    \* history: deletions of a root qdisc or a redirection that failed and were
              \* ignored, until the same command takes effect
  spoiled,    \* history: what has put the rollback out of its depth
  left        \* remaining bounds

kernel == <<root, ifb, queue, redirect>>
vars == <<db, iface, kernel, shaping, job, run, beat, stranded, skipped, spoiled, left>>

NoHash == <<>>
Fresh == [applied |-> NoHash, started |-> FALSE, pending |-> "none", rejected |-> NoHash]
Idle == [pc |-> "idle", limits |-> None]
Redirecting == {"ifb", "nowhere"}
Built == {"floor"} \cup Limits              \* an HTB tree with its default class
Ours == {"bare"} \cup Built

Reachable == \A i \in Ifaces :
  /\ root[i] \notin Cuts
  /\ redirect[i] # "nowhere"
  /\ redirect[i] = "ifb" => ifb = "up" /\ queue \in Built \ Cuts
InForce(hash) ==
  root[hash[1]] = hash[2] /\ redirect[hash[1]] = "ifb" /\ ifb = "up" /\ queue = hash[2]

Spend(b) == left[b] > 0 /\ left' = [left EXCEPT ![b] = @ - 1]

-----------------------------------------------------------------------------
(* BuildIfbTeardownPlan, BuildTeardownPlan and BuildApplyPlan. *)
IfbTeardown == <<"delIfbRoot", "downIfb", "delIfb">>
Teardown(dev) == IF dev = None THEN IfbTeardown ELSE <<"delRoot", "delIngress">> \o IfbTeardown
BuildRedirectFirst == <<"addIfb", "upIfb", "rootTree", "rootClass", "rootLeaves",
                        "ingress", "redirect", "ifbTree", "ifbClass", "ifbLeaves">>
Build == <<"addIfb", "upIfb", "rootTree", "rootClass", "rootLeaves",
           "ifbTree", "ifbClass", "ifbLeaves", "ingress", "redirect">>
Plan(r) == IF r.goal = "apply" THEN Teardown(r.dev) \o Build ELSE Teardown(r.dev)
IgnoreError == {"delRoot", "delIngress", "delIfbRoot", "downIfb", "delIfb", "addIfb"}

Running == run # None /\ run.at <= Len(Plan(run))
Op == Plan(run)[run.at]

(* What a command does to the kernel.  Deleting what is not there and adding    *)
(* a-ui-ifb0 when it is there changes nothing; the errors are ignored.  Adding  *)
(* a qdisc where there is one is an error that is not.                          *)
Possible ==
  CASE Op = "upIfb" -> ifb # "absent"
    [] Op = "rootTree" -> root[run.dev] = "none"
    [] Op = "ifbTree" -> queue = "none"
    [] Op = "ingress" -> redirect[run.dev] = "off"
    [] OTHER -> TRUE
RootAfter(r) ==
  CASE Op = "delRoot" -> "none"     [] Op = "rootTree" -> "bare"
    [] Op = "rootClass" -> "floor"  [] Op = "rootLeaves" -> run.limits
    [] OTHER -> r
IfbAfter ==
  CASE Op = "delIfb" -> "absent"    [] Op = "upIfb" -> "up"
    [] Op = "downIfb" /\ ifb = "up" -> "down"
    [] Op = "addIfb" /\ ifb = "absent" -> "down"
    [] OTHER -> ifb
QueueAfter ==
  CASE Op \in {"delIfbRoot", "delIfb"} -> "none"  [] Op = "ifbTree" -> "bare"
    [] Op = "ifbClass" -> "floor"                 [] Op = "ifbLeaves" -> run.limits
    [] OTHER -> queue
RedirectAfter(i) ==
  CASE i = run.dev /\ Op = "delIngress" -> "off"
    [] i = run.dev /\ Op = "ingress" -> "hook"
    [] i = run.dev /\ Op = "redirect" -> "ifb"
    [] Op = "delIfb" /\ redirect[i] = "ifb" -> "nowhere"
    [] OTHER -> redirect[i]

-----------------------------------------------------------------------------
Init ==
  /\ db \in Limits \cup {None} /\ iface \in Ifaces
  /\ root = [i \in Ifaces |-> "foreign"] /\ ifb = "absent" /\ queue = "none"
  /\ redirect = [i \in Ifaces |-> "off"]
  /\ shaping = Fresh /\ job = [j \in Jobs |-> Idle] /\ run = None /\ beat = "none"
  /\ stranded = {} /\ skipped = {} /\ spoiled = {}
  /\ left = [edits |-> MaxEdits, events |-> MaxEvents]

(* A plan takes the lock, and gives it back. *)
Begin(by, dev, limits, goal) == run' = [by |-> by, dev |-> dev, limits |-> limits, goal |-> goal, at |-> 1]

(* CheckRollback, at the head of the job. *)
JobStarts(j) ==
  /\ job[j].pc = "idle" /\ run = None
  /\ IF shaping.pending = "due"
     THEN Begin(j, iface, None, "rollback") /\ job' = [job EXCEPT ![j].pc = "rollback"]
     ELSE UNCHANGED run /\ job' = [job EXCEPT ![j].pc = "read"]
  /\ UNCHANGED <<db, iface, kernel, shaping, beat, stranded, skipped, spoiled, left>>

(* desiredLimits, which Reconcile calls before it takes the lock. *)
DesiredLimits(j) ==
  /\ job[j].pc = "read"
  /\ job' = [job EXCEPT ![j] = [pc |-> "reconcile", limits |-> db]]
  /\ UNCHANGED <<db, iface, kernel, shaping, run, beat, stranded, skipped, spoiled, left>>

(* Reconcile under the lock.  Without limits it keeps its hands off the root   *)
(* qdisc unless a-ui-ifb0 or its memory says that the rules are the panel's.   *)
NothingAppliedByMemory == shaping.applied = NoHash
NoEarlyReturn == FALSE
NothingToTearDown == shaping.applied = NoHash /\ ifb = "absent"
Skip(hash) == hash \in {shaping.applied, shaping.rejected}

Reconcile(j) ==
  /\ job[j].pc = "reconcile" /\ run = None
  /\ LET limits == job[j].limits
         hash == <<iface, limits>>
         done == job' = [job EXCEPT ![j] = Idle] /\ UNCHANGED run
     IN  \/ /\ limits = None /\ NothingToTearDown
            /\ shaping' = [shaping EXCEPT !.started = TRUE] /\ done
         \/ /\ limits = None /\ ~NothingToTearDown
            /\ Begin(j, iface, None, "empty") /\ job' = [job EXCEPT ![j].pc = "run"]
            /\ UNCHANGED shaping
         \/ /\ limits # None /\ (iface = None \/ Skip(hash))
            /\ done /\ UNCHANGED shaping
         \/ /\ limits # None /\ iface # None /\ ~Skip(hash)
            /\ Begin(j, iface, limits, "apply") /\ job' = [job EXCEPT ![j].pc = "run"]
            /\ UNCHANGED shaping
  /\ UNCHANGED <<db, iface, kernel, beat, stranded, skipped, spoiled, left>>

(* The administrator's "clear all limits". *)
Clear ==
  /\ run = None /\ Reachable /\ Spend("events")
  /\ Begin(Admin, iface, None, "clear")
  /\ UNCHANGED <<db, iface, kernel, shaping, job, beat, stranded, skipped, spoiled>>

-----------------------------------------------------------------------------
(* One command of the plan. *)
TakesEffect ==
  /\ root' = [i \in Ifaces |-> IF i = run.dev THEN RootAfter(root[i]) ELSE root[i]]
  /\ ifb' = IfbAfter /\ queue' = QueueAfter
  /\ redirect' = [i \in Ifaces |-> RedirectAfter(i)]
  /\ beat' = IF beat = "new" THEN "old" ELSE beat

Command ==
  /\ Running /\ Possible /\ TakesEffect
  /\ run' = [run EXCEPT !.at = @ + 1]
  /\ stranded' = IF Op = "delIngress" /\ run.dev = iface THEN stranded \ {iface} ELSE stranded
  /\ skipped' = skipped \ {<<Op, run.dev>>}
  /\ UNCHANGED <<db, iface, shaping, job, spoiled, left>>

(* A command whose error is to be ignored fails - no process, ten seconds gone, *)
(* a device in use - and Run goes on with the next one.                        *)
CommandSkips ==
  /\ Running /\ Op \in IgnoreError /\ Spend("events")
  /\ run' = [run EXCEPT !.at = @ + 1]
  /\ skipped' = IF \/ Op = "delRoot" /\ root[run.dev] # "none"
                   \/ Op = "delIngress" /\ redirect[run.dev] \in Redirecting
                THEN skipped \cup {<<Op, run.dev>>} ELSE skipped
  /\ UNCHANGED <<db, iface, kernel, shaping, job, beat, stranded, spoiled>>

(* A command fails that is not to be ignored, because the kernel refuses it, or *)
(* by chance, perhaps after it took effect: Run returns at once, and what it   *)
(* has already built or torn down stays.                                       *)
CommandFails ==
  /\ Running /\ Op \notin IgnoreError
  /\ \/ ~Possible /\ UNCHANGED <<kernel, beat, left>>
     \/ Possible /\ Spend("events") /\ (TakesEffect \/ UNCHANGED <<kernel, beat>>)
  /\ run' = None /\ job' = [job EXCEPT ![run.by] = Idle]
  /\ spoiled' = spoiled \cup {"failed"}
  /\ UNCHANGED <<db, iface, shaping, stranded, skipped>>

(* The first apply after a start is not armed: those limits were in use before. *)
ArmedFirstOnly(hash) ==
  [shaping EXCEPT !.applied = hash, !.started = TRUE, !.pending = IF shaping.started THEN @ ELSE "armed"]
Applied(hash) ==
  [shaping EXCEPT !.applied = hash, !.started = TRUE, !.pending = IF shaping.started THEN "armed" ELSE @]
TornDownStillPending == [shaping EXCEPT !.applied = NoHash]
TornDown == [shaping EXCEPT !.applied = NoHash, !.pending = "none"]

Finish ==
  /\ run # None /\ run.at > Len(Plan(run))
  /\ run' = None
  /\ shaping' = CASE run.goal = "apply" -> Applied(<<run.dev, run.limits>>)
                  [] run.goal = "empty" -> [TornDown EXCEPT !.started = TRUE]
                  [] run.goal = "rollback" -> [TornDown EXCEPT !.rejected = shaping.applied]
                  [] run.goal = "clear" -> TornDown
  /\ job' = IF run.by = Admin THEN job
            ELSE [job EXCEPT ![run.by] = IF run.goal = "rollback" THEN [@ EXCEPT !.pc = "read"] ELSE Idle]
  /\ spoiled' = CASE run.goal # "apply" -> spoiled
                  [] run.goal = "apply" /\ shaping.started -> spoiled \ {"unarmed", "late"}
                  [] OTHER -> spoiled \cup {"unarmed"}
  /\ UNCHANGED <<db, iface, kernel, beat, stranded, skipped, left>>

(* Two minutes without confirmation. *)
Timeout ==
  /\ shaping.pending = "armed"
  /\ shaping' = [shaping EXCEPT !.pending = "due"]
  /\ UNCHANGED <<db, iface, kernel, job, run, beat, stranded, skipped, spoiled, left>>

-----------------------------------------------------------------------------
(* checkLogin calls Heartbeat for every request of a logged-in browser; the    *)
(* call waits for shapingLock.                                                 *)
RequestArrives ==
  /\ beat = "none" /\ Reachable
  /\ beat' = "new"
  /\ UNCHANGED <<db, iface, kernel, shaping, job, run, stranded, skipped, spoiled, left>>

Heartbeat ==
  /\ beat # "none" /\ run = None
  /\ shaping' = [shaping EXCEPT !.pending = "none"]
  /\ spoiled' = IF beat = "old" /\ shaping.pending # "none" THEN spoiled \cup {"late"} ELSE spoiled
  /\ beat' = "none"
  /\ UNCHANGED <<db, iface, kernel, job, run, stranded, skipped, left>>

(* The limits change: by the administrator, or because an inbound is disabled. *)
Edit(limits) ==
  /\ limits # db /\ Spend("edits")
  /\ db' = limits
  /\ UNCHANGED <<iface, kernel, shaping, job, run, beat, stranded, skipped, spoiled>>

(* tcInterface is edited, or the default route moves or disappears. *)
Move(i) ==
  /\ i # iface /\ Spend("events")
  /\ iface' = i
  /\ stranded' = stranded \cup ({iface} \ {None}) /\ spoiled' = spoiled \cup {"moved"}
  /\ UNCHANGED <<db, kernel, shaping, job, run, beat, skipped>>

(* The panel dies and is started again: what it remembers is gone, the rules stay. *)
PanelRestarts ==
  /\ Spend("events")
  /\ shaping' = Fresh /\ job' = [j \in Jobs |-> Idle] /\ run' = None /\ beat' = "none"
  /\ UNCHANGED <<db, iface, kernel, stranded, skipped, spoiled>>

-----------------------------------------------------------------------------
Next ==
  \/ \E j \in Jobs : JobStarts(j) \/ DesiredLimits(j) \/ Reconcile(j)
  \/ Clear \/ Command \/ CommandSkips \/ CommandFails \/ Finish \/ Timeout
  \/ RequestArrives \/ Heartbeat
  \/ \E limits \in Limits \cup {None} : Edit(limits)
  \/ \E i \in Ifaces \cup {None} : Move(i)
  \/ PanelRestarts

(* Cron fires for ever, a command comes to an end one way or another, time     *)
(* passes and a request that waits for the lock gets it.                       *)
Fairness ==
  /\ \A j \in Jobs : WF_vars(JobStarts(j)) /\ WF_vars(DesiredLimits(j)) /\ WF_vars(Reconcile(j))
  /\ WF_vars(Command \/ CommandSkips \/ CommandFails)
  /\ WF_vars(Finish) /\ WF_vars(Timeout) /\ WF_vars(Heartbeat)

Spec == Init /\ [][Next]_vars
FairSpec == Spec /\ Fairness

-----------------------------------------------------------------------------
(* Every variable has its type, and a rollback that is pending has limits to    *)
(* take back, and to reject: clearing them by hand cancels it.                 *)
TypeOK ==
  /\ db \in Limits \cup {None} /\ iface \in Ifaces \cup {None}
  /\ root \in [Ifaces -> Roots \cup Limits]
  /\ ifb \in {"absent", "down", "up"} /\ queue \in Queues \cup Limits
  /\ redirect \in [Ifaces -> {"off", "hook", "ifb", "nowhere"}]
  /\ shaping \in [applied : (Ifaces \X Limits) \cup {NoHash}, started : BOOLEAN,
                  pending : {"none", "armed", "due"}, rejected : (Ifaces \X Limits) \cup {NoHash}]
  /\ shaping.pending # "none" => shaping.applied # NoHash
  /\ job \in [Jobs -> [pc : {"idle", "rollback", "read", "reconcile", "run"}, limits : Limits \cup {None}]]
  /\ \/ run = None
     \/ run \in [by : Jobs \cup {Admin}, dev : Ifaces \cup {None}, limits : Limits \cup {None},
                 goal : {"apply", "empty", "rollback", "clear"}, at : Nat \ {0}]
  /\ beat \in {"none", "new", "old"}
  /\ stranded \subseteq Ifaces /\ skipped \subseteq Undoings \X Ifaces
  /\ spoiled \subseteq {"failed", "moved", "late", "unarmed"}
  /\ left \in [{"edits", "events"} -> Nat]

(* Ingress is never redirected but into an a-ui-ifb0 that is up and has a       *)
(* default class, wherever a command fails or the panel dies: the first and    *)
(* the last thing SSH depends on.  And the panel's rules never outlive         *)
(* a-ui-ifb0, by which a restarted panel recognises that they are its own and  *)
(* have to be taken down.  The one way out is the very command that takes the  *)
(* redirection, or the rules, away: failed, ignored and not made good since.   *)
(* Interfaces given up by a change of setting excepted.                        *)
FloorUnderRedirect ==
  \A i \in Ifaces \ stranded :
    /\ redirect[i] \in Redirecting => \/ redirect[i] = "ifb" /\ ifb = "up" /\ queue \in Built
                                      \/ <<"delIngress", i>> \in skipped
    /\ root[i] \in Ours => ifb # "absent" \/ <<"delRoot", i>> \in skipped

(* The administrator's own root qdisc is only ever replaced by limits, and     *)
(* taken away only on his request, after the interface has been changed, or    *)
(* after a plan that was to replace it left it alone and built a-ui-ifb0.      *)
ForeignKept ==
  [][\A i \in Ifaces : root[i] = "foreign" /\ root'[i] # "foreign"
        => \/ run.goal \in {"apply", "clear"} \/ "moved" \in spoiled
           \/ <<"delRoot", i>> \in skipped]_vars

(* The kernel follows the database, whatever jobs overlap with stale limits in *)
(* hand.  Exempt: limits that were once rolled back, an interface that is      *)
(* unknown, and - by the shape of shapingAppliedHash - a plan that failed.     *)
KernelSettles ==
  <>[](\/ db = None /\ ifb = "absent"
       \/ db # None /\ iface # None /\ InForce(<<iface, db>>)
       \/ iface = None \/ shaping.rejected = <<iface, db>> \/ "failed" \in spoiled)

(* Limits that cut the panel off are taken back, unless a plan failed, the     *)
(* interface was changed, they were the first after a start, a request older   *)
(* than they are confirmed them, or the very command that takes the rules or   *)
(* the redirection away failed and was ignored.                                *)
PanelComesBackUnlessSpoiled == []<>(Reachable \/ spoiled # {} \/ skipped # {})

(* "the worst case is to wait two minutes": limits that cut the panel off are  *)
(* taken back.                                                                 *)
PanelComesBack == []<>(Reachable \/ "unarmed" \in spoiled)

(* What shapingAppliedHash says is in force is in force in the end.            *)
AppliedInForce == <>[](shaping.applied = NoHash \/ InForce(shaping.applied))
=============================================================================
