----------------------------- MODULE RouteAudit -----------------------------
(***************************************************************************)
(* The verification of a routing rule against the running core and what    *)
(* the rule list says of it: verifications by hand and by the audit job    *)
(* (web/service/routing_verify.go, routing_audit.go,                       *)
(* web/job/route_audit_job.go), the cache of their results, the polls that *)
(* turn a cached result green, and the memory of "is a change pending"     *)
(* (web/service/xray.go).                                                  *)
(*                                                                         *)
(* There is one rule, and a configuration is what decides about it, 0 or   *)
(* 1; what moves no traffic and leaves the generation alone (metering,     *)
(* layout) is left to module XrayLifecycle, of which delivery to the core  *)
(* is a shorter copy: one restarter, one RPC.                              *)
(***************************************************************************)
EXTENDS Naturals

CONSTANTS
  Job, Manual,        \* who verifies: the audit job, a request
  NoOne,
  Samples,            \* sample targets of the rule
  MaxTruncated,       \* routeAuditMaxTruncated
  MaxEvents,          \* bound: changes of the database, crashes, failed RPCs and starts,
                      \* unreadable databases and timeouts, all together
  MaxRequests         \* bound: verifications and polls of the rule list

Verifiers == {Job, Manual}

ASSUME RouteAuditAssumption ==
  /\ Job # Manual /\ NoOne \notin Verifiers
  /\ Samples \in Nat \ {0} /\ MaxTruncated \in Nat \ {0}
  /\ MaxEvents \in Nat /\ MaxRequests \in Nat

Cfg == {0, 1}
Silent == 2       \* nobody answers on the control plane

VARIABLES
  want,       \* the configuration the database would synthesise
  owed,       \* changes that have not asked for delivery yet
  flag,       \* isNeedXrayRestart
  seq,        \* xrayChangeSeq
  stage,      \* how far RestartXray is under the package lock
  goal,       \* its configuration
  held,       \* p.config
  agen,       \* xrayApplyGen
  alive,      \* "off", "starting" or "serving": IsRunning but for "off"
  answers,    \* what the core on the control-plane port answers, or Silent
  verifyMu,   \* its holder
  check,      \* check[v]: the verification of v
  cache,      \* auditResults of the rule, or NoOne
  job,        \* RouteAuditJob: lastGen, truncated; and gaveUp (history)
  memo,       \* summaryPendingMemo
  poll,       \* one call of Summaries
  shown,      \* history: the last green answer, or NoOne
  started,    \* verifications started, the clock of CheckedAt
  quota       \* remaining bounds

wishes   == <<want, owed, flag, seq>>
delivery == <<stage, goal, held, agen, alive, answers>>
verifying == <<verifyMu, check, cache, job, started>>
polling  == <<memo, poll, shown>>
auditVars == <<wishes, delivery, verifying, polling, quota>>

NoCheck == [at |-> "idle", gen |-> 0, cfg |-> 0, stamp |-> 0, exp |-> 0, answered |-> {}, left |-> 0,
            pending |-> FALSE, crossed |-> FALSE]
NoPoll == [at |-> "idle", gen |-> 0, res |-> NoOne, key |-> NoOne, wanted |-> {}, excused |-> FALSE]

Take(b) == quota[b] > 0 /\ quota' = [quota EXCEPT ![b] = @ - 1]

AuditInit ==
  /\ want = 0 /\ owed = 0 /\ flag = FALSE /\ seq = 0
  /\ stage = "free" /\ goal = 0 /\ held = 0
  /\ agen = 1 /\ alive = "serving" /\ answers = 0
  /\ verifyMu = NoOne /\ check = [v \in Verifiers |-> NoCheck] /\ cache = NoOne
  /\ job = [lastGen |-> 0, truncated |-> 0, gaveUp |-> FALSE]
  /\ memo = NoOne /\ poll = NoPoll /\ shown = NoOne /\ started = 0
  /\ quota = [events |-> MaxEvents, requests |-> MaxRequests]

-----------------------------------------------------------------------------
(* Changes and their delivery.  History: a verification notes a change between  *)
(* its snapshot and its reading of the rule, a poll what was wanted meanwhile.  *)
Change ==
  /\ Take("events")
  /\ want' = 1 - want /\ owed' = owed + 1
  /\ check' = [v \in Verifiers |-> [check[v] EXCEPT !.crossed = @ \/ check[v].at \in {"pending", "plan"}]]
  /\ poll' = IF poll = NoPoll THEN poll ELSE [poll EXCEPT !.wanted = @ \cup {want'}]
  /\ UNCHANGED <<flag, seq, delivery, verifyMu, cache, job, started, memo, shown>>

AskDelivery ==
  /\ owed > 0
  /\ owed' = owed - 1 /\ seq' = seq + 1 /\ flag' = TRUE
  /\ UNCHANGED <<want, delivery, verifying, polling, quota>>

Running == alive # "off"

BeginRestart ==
  /\ flag /\ stage = "free"
  /\ flag' = FALSE /\ seq' = seq + 1
  /\ \/ goal' = want /\ stage' = "decide" /\ UNCHANGED quota
     \/ UNCHANGED <<goal, stage>> /\ Take("events")
  /\ UNCHANGED <<want, owed, held, agen, alive, answers, verifying, polling>>

Unneeded ==
  /\ stage = "decide" /\ Running /\ held = goal
  /\ stage' = "free" /\ goal' = 0
  /\ UNCHANGED <<wishes, held, agen, alive, answers, verifying, polling, quota>>

(* The RPCs, as one that may fail before or after its effect. *)
SendHot ==
  /\ stage = "decide" /\ Running /\ held # goal
  /\ \/ alive = "serving" /\ answers' = goal /\ stage' = "commit" /\ UNCHANGED quota
     \/ stage' = "launch" /\ answers' = answers /\ Take("events")
     \/ alive = "serving" /\ stage' = "launch" /\ answers' = goal /\ Take("events")
  /\ UNCHANGED <<wishes, goal, held, agen, alive, verifying, polling>>

Record ==
  /\ stage = "commit" /\ stage' = "free" /\ goal' = 0
  /\ held' = goal /\ agen' = IF held = goal THEN agen ELSE agen + 1
  /\ UNCHANGED <<wishes, alive, answers, verifying, polling, quota>>

(* Also for a change that the control plane cannot swap.  The old process may   *)
(* still answer until the new one does.                                         *)
Relaunch ==
  /\ stage = "launch" \/ (stage = "decide" /\ (Running => held # goal))
  /\ stage' = "free" /\ goal' = 0 /\ held' = goal
  /\ \/ agen' = agen + 1 /\ alive' = "starting" /\ UNCHANGED quota
     \/ agen' = agen /\ alive' = "off" /\ Take("events")
  /\ answers' \in {answers, Silent}
  /\ UNCHANGED <<wishes, verifying, polling>>

CoreSteps ==
  /\ \/ alive = "starting" /\ alive' = "serving" /\ answers' = held /\ UNCHANGED quota
     \/ Running /\ alive' = "off" /\ answers' = Silent /\ Take("events")
  /\ UNCHANGED <<wishes, stage, goal, held, agen, verifying, polling>>

WatchdogFlags ==
  /\ ~Running /\ ~flag /\ flag' = TRUE
  /\ UNCHANGED <<want, owed, seq, delivery, verifying, polling, quota>>

-----------------------------------------------------------------------------
(***************************************************************************)
(* Verify and VerifyAll.  A try-lock that fails, a busy lock and a core    *)
(* that is down end the call and leave everything as it was.  The job      *)
(* starts when the generation is not the one it noted or ten minutes are   *)
(* over, hence whenever it likes.                                          *)
(***************************************************************************)
CheckBegins(v) ==
  /\ check[v] = NoCheck /\ verifyMu = NoOne /\ stage = "free" /\ Running
  /\ Take("requests")
  /\ verifyMu' = v /\ started' = started + 1
  /\ check' = [check EXCEPT ![v] = [NoCheck EXCEPT !.at = "pending", !.gen = agen, !.cfg = held, !.stamp = started']]
  /\ UNCHANGED <<wishes, delivery, cache, job, polling>>

(* RuntimeSnapshot's second half, without the lock: is a change pending?  A     *)
(* database that cannot be read counts as no.                                   *)
CheckPending(v) ==
  /\ check[v].at = "pending"
  /\ \/ /\ check' = [check EXCEPT ![v].at = "plan", ![v].pending = check[v].cfg # want]
        /\ UNCHANGED quota
     \/ Take("events") /\ check' = [check EXCEPT ![v].at = "plan", ![v].crossed = TRUE]
  /\ UNCHANGED <<wishes, delivery, verifyMu, cache, job, started, polling>>

(* prepareShared and planRule: the rule is read, the control plane must answer. *)
CheckPlans(v) ==
  /\ check[v].at = "plan"
  /\ IF answers = Silent
     THEN verifyMu' = NoOne /\ check' = [check EXCEPT ![v] = NoCheck]
     ELSE /\ verifyMu' = v
          /\ check' = [check EXCEPT ![v].at = "ask", ![v].exp = want, ![v].left = Samples]
  /\ UNCHANGED <<wishes, delivery, cache, job, started, polling, quota>>

Truncates ==
  LET n == job.truncated + 1
  IN  job' = IF n >= MaxTruncated
             THEN [lastGen |-> check[Job].gen, truncated |-> 0, gaveUp |-> TRUE]
             ELSE [job EXCEPT !.truncated = n]

(* One sample: an answer; nobody answers, which ends an audit without a result  *)
(* and leaves a request without one for this sample; the budget is used up.     *)
CheckAsks(v) ==
  /\ check[v].at = "ask"
  /\ \/ /\ check[v].left > 0 /\ (answers = Silent => v = Manual)
        /\ check' = [check EXCEPT ![v].left = @ - 1, ![v].answered = @ \cup {answers}]
        /\ UNCHANGED <<verifyMu, job, quota>>
     \/ /\ check[v].left > 0 /\ answers = Silent /\ v = Job
        /\ check' = [check EXCEPT ![v] = NoCheck] /\ verifyMu' = NoOne
        /\ UNCHANGED <<job, quota>>
     \/ /\ check[v].left > 0 /\ Take("events")
        /\ check' = [check EXCEPT ![v] = NoCheck] /\ verifyMu' = NoOne
        /\ IF v = Job THEN Truncates ELSE UNCHANGED job
     \/ /\ check[v].left = 0 /\ v = Job
        /\ check' = [check EXCEPT ![v].at = "store"] /\ verifyMu' = NoOne
        /\ UNCHANGED <<job, quota>>
  /\ UNCHANGED <<wishes, delivery, cache, started, polling>>

(* combineVerdict, for the one user of the rule. *)
Verdict(c) ==
  IF c.pending THEN "pending"
  ELSE IF ~(c.answered \subseteq {c.exp, Silent}) THEN "mismatch"
  ELSE IF Silent \in c.answered THEN "unverifiable"
  ELSE "verified"

Result(c) == [gen |-> c.gen, stamp |-> c.stamp, verdict |-> Verdict(c), exp |-> c.exp,
              answered |-> c.answered, crossed |-> c.crossed]

Verdicts == {"pending", "mismatch", "unverifiable", "verified"}
Results == [gen : Nat, stamp : Nat, verdict : Verdicts, exp : Cfg, answered : SUBSET (Cfg \cup {Silent}),
            crossed : BOOLEAN]
ASSUME NoOneAssumption == NoOne \notin Results

(* storeVerifyResult: the newer generation wins, then the later check. *)
Stored(r) ==
  IF cache # NoOne /\ (cache.gen > r.gen \/ (cache.gen = r.gen /\ cache.stamp > r.stamp))
  THEN cache ELSE r

(* Verify stores under verifyMu; RunAudit after it. *)
ManualStores ==
  /\ check[Manual].at = "ask" /\ check[Manual].left = 0
  /\ cache' = Stored(Result(check[Manual])) /\ verifyMu' = NoOne
  /\ check' = [check EXCEPT ![Manual] = NoCheck]
  /\ UNCHANGED <<wishes, delivery, job, started, polling, quota>>

(* ... and RouteAuditJob.Run notes the generation the round used.              *)
JobNotesCurrent ==
  /\ check[Job].at = "store"
  /\ cache' = Stored(Result(check[Job])) /\ check' = [check EXCEPT ![Job] = NoCheck]
  /\ job' = [lastGen |-> agen, truncated |-> 0, gaveUp |-> FALSE]
  /\ UNCHANGED <<wishes, delivery, verifyMu, started, polling, quota>>
JobNotes ==
  /\ check[Job].at = "store"
  /\ cache' = Stored(Result(check[Job])) /\ check' = [check EXCEPT ![Job] = NoCheck]
  /\ job' = [lastGen |-> check[Job].gen, truncated |-> 0, gaveUp |-> FALSE]
  /\ UNCHANGED <<wishes, delivery, verifyMu, started, polling, quota>>

-----------------------------------------------------------------------------
(***************************************************************************)
(* Summaries for the rule: the generation; the cached result and the       *)
(* number of changes; then the snapshot, whose "pending" may come from the *)
(* memory.                                                                 *)
(***************************************************************************)
PollBegins ==
  /\ poll = NoPoll /\ Take("requests")
  /\ poll' = [NoPoll EXCEPT !.at = "rule", !.gen = agen, !.wanted = {want}, !.excused = owed > 0]
  /\ shown' = NoOne
  /\ UNCHANGED <<wishes, delivery, verifying, memo>>

PollReads ==
  /\ poll.at = "rule"
  /\ poll' = IF cache # NoOne /\ cache.gen = poll.gen /\ cache.verdict = "verified"
             THEN [poll EXCEPT !.at = "snapshot", !.res = cache, !.key = [seq |-> seq]]
             ELSE NoPoll
  /\ UNCHANGED <<wishes, delivery, verifying, memo, shown, quota>>

PollSnapshot ==
  /\ poll.at = "snapshot"
  /\ poll' = IF stage = "free" /\ Running
             THEN [poll EXCEPT !.at = "memo", !.key = [seq |-> poll.key.seq, gen |-> agen, held |-> held]]
             ELSE NoPoll
  /\ UNCHANGED <<wishes, delivery, verifying, memo, shown, quota>>

NotGreenAnyGeneration(key, pending) == pending
NotGreen(key, pending) == pending \/ key.gen # poll.gen

Answer(pending, blind) ==
  /\ shown' = IF NotGreen(poll.key, pending) THEN shown
              ELSE [exp |-> poll.res.exp, core |-> poll.key.held, wanted |-> poll.wanted,
                    excused |-> poll.excused \/ blind, crossed |-> poll.res.crossed]
  /\ poll' = NoPoll

(* pendingMemo.get: remembered under the same key for five seconds, or worked   *)
(* out and remembered, or not to be worked out and forgotten.                   *)
RememberedForGeneration == memo # NoOne /\ memo.key.gen = poll.key.gen
Remembered == memo # NoOne /\ memo.key = poll.key

PollMemo ==
  /\ poll.at = "memo"
  /\ \/ Remembered /\ Answer(memo.pending, FALSE) /\ UNCHANGED <<memo, quota>>
     \/ LET pending == poll.key.held # want
        IN  /\ memo' = [key |-> poll.key, pending |-> pending]
            /\ Answer(pending, FALSE) /\ UNCHANGED quota
     \/ memo' = NoOne /\ Take("events") /\ Answer(FALSE, TRUE)
  /\ UNCHANGED <<wishes, delivery, verifying>>

-----------------------------------------------------------------------------
Checks(v) == CheckBegins(v) \/ CheckPending(v) \/ CheckPlans(v) \/ CheckAsks(v)

AuditNext ==
  \/ Change
  \/ AskDelivery \/ BeginRestart \/ Unneeded \/ SendHot \/ Record \/ Relaunch
  \/ CoreSteps \/ WatchdogFlags
  \/ \E v \in Verifiers : Checks(v)
  \/ ManualStores \/ JobNotes
  \/ PollBegins \/ PollReads \/ PollSnapshot \/ PollMemo

AuditSpec == AuditInit /\ [][AuditNext]_auditVars

-----------------------------------------------------------------------------
Asking == {"pending", "plan", "ask"}

(* Every variable has its type, and verifyMu is held exactly while a            *)
(* verification is between its snapshot and its last sample.                    *)
AuditTypeOK ==
  /\ want \in Cfg /\ owed \in Nat /\ flag \in BOOLEAN /\ seq \in Nat
  /\ stage \in {"free", "decide", "commit", "launch"} /\ goal \in Cfg /\ held \in Cfg
  /\ agen \in Nat /\ alive \in {"off", "starting", "serving"} /\ answers \in Cfg \cup {Silent}
  /\ \A v \in Verifiers :
       /\ check[v].at \in Asking \cup {"idle", "store"} /\ check[v].gen <= agen
       /\ (verifyMu = v) = (check[v].at \in Asking)
  /\ job.lastGen <= agen /\ job.truncated < MaxTruncated
  /\ poll.at \in {"idle", "rule", "snapshot", "memo"} /\ poll.gen <= agen
  /\ memo # NoOne => memo.key.seq <= seq /\ memo.key.gen <= agen

(* A green rule is verified: the configuration the core holds while the list is *)
(* answered is the one its result is about, and was wanted by the database at   *)
(* some moment of the request.  Excused: a change that had not asked for        *)
(* delivery when the request began, a database that could not be read, and a    *)
(* result whose rule changed between its snapshot and its plan.                 *)
GreenIsVerified ==
  shown # NoOne =>
    /\ shown.crossed \/ shown.exp = shown.core
    /\ shown.excused \/ shown.core \in shown.wanted

(* The audit does not rest on a generation it knows nothing about: when it      *)
(* takes the current one for done there is a result of it, unless it was cut    *)
(* off as often as it puts up with.                                             *)
AuditNotSkipped ==
  job.lastGen = agen => job.gaveUp \/ (cache # NoOne /\ cache.gen = agen)
=============================================================================
