---------------------------- MODULE PanelProofs -----------------------------
(***************************************************************************)
(* Theorems about the panel.  What its pages show is true: which rules the *)
(* rule list shows green (RouteAudit), what a page makes of the summaries  *)
(* it polls (PagePolling) and what the dialog of an upgrade says of it     *)
(* (PanelUpgrade), for any bounds, any number of requests that overlap and *)
(* any order of their answers.  Who enters it (Login): a code passes once, *)
(* a lock lasts.  Whom it bans (Concurrency): a ban holds.                 *)
(***************************************************************************)
EXTENDS RouteAudit, PagePolling, PanelUpgrade, Login, Concurrency, TLAPS

(***************************************************************************)
(* The audit.  What a check and the cache hold is right about the          *)
(* generation they name (Certain): while the core runs, a generation is    *)
(* one configuration.  A remembered "nothing is pending" is right until a  *)
(* change has asked for its delivery (Remembers), so a poll that began     *)
(* with none outstanding has seen the configuration wanted (Polled).       *)
(***************************************************************************)
Verifications == [at : Asking \cup {"idle", "store"}, gen : Nat, cfg : Cfg, stamp : Nat, exp : Cfg,
                  answered : SUBSET (Cfg \cup {Silent}), left : Nat, pending : BOOLEAN, crossed : BOOLEAN]

Delivering ==
  /\ want \in Cfg /\ owed \in Nat /\ flag \in BOOLEAN /\ seq \in Nat
  /\ stage \in {"free", "decide", "commit", "launch"} /\ goal \in Cfg /\ held \in Cfg
  /\ agen \in Nat /\ alive \in {"off", "starting", "serving"} /\ answers \in Cfg \cup {Silent}

Verifying ==
  /\ check \in [Verifiers -> Verifications] /\ started \in Nat
  /\ \A v \in Verifiers : check[v].gen <= agen /\ (verifyMu = v) = (check[v].at \in Asking)
  /\ cache # NoOne => cache \in Results /\ cache.gen <= agen
  /\ job \in [lastGen : Nat, truncated : Nat, gaveUp : BOOLEAN]
  /\ job.lastGen <= agen /\ job.truncated < MaxTruncated

Certain ==
  /\ \A v \in Verifiers :
       /\ check[v].at # "idle" /\ check[v].gen = agen /\ Running => check[v].cfg = held
       /\ ~check[v].pending /\ ~check[v].crossed =>
            /\ check[v].at = "plan" => check[v].cfg = want
            /\ check[v].at \in {"ask", "store"} => check[v].exp = check[v].cfg
  /\ cache # NoOne /\ cache.verdict = "verified" /\ ~cache.crossed /\ cache.gen = agen /\ Running => cache.exp = held

Remembers ==
  memo # NoOne =>
    /\ DOMAIN memo = {"key", "pending"} /\ DOMAIN memo.key = {"seq", "gen", "held"} /\ memo.pending \in BOOLEAN
    /\ memo.key.seq \in Nat /\ memo.key.seq <= seq /\ memo.key.gen \in Nat /\ memo.key.gen <= agen
    /\ ~memo.pending /\ memo.key.seq = seq => owed > 0 \/ memo.key.held = want

PollTyped ==
  /\ DOMAIN poll = {"at", "gen", "res", "key", "wanted", "excused"}
  /\ poll.at \in {"idle", "rule", "snapshot", "memo"} /\ poll.gen \in Nat /\ poll.gen <= agen
  /\ poll.wanted \subseteq Cfg /\ poll.excused \in BOOLEAN
  /\ poll.at = "snapshot" => DOMAIN poll.key = {"seq"}
  /\ poll.at = "memo" =>
       DOMAIN poll.key = {"seq", "gen", "held"} /\ poll.key.gen \in Nat /\ poll.key.gen <= agen
  /\ poll.at \in {"snapshot", "memo"} => poll.res \in Results /\ poll.key.seq \in Nat /\ poll.key.seq <= seq

Read == IF poll.at = "rule" THEN seq ELSE poll.key.seq
Polled ==
  /\ poll.at # "idle" =>
       /\ want \in poll.wanted
       /\ ~poll.excused /\ memo # NoOne /\ ~memo.pending /\ memo.key.seq = Read => memo.key.held \in poll.wanted
  /\ poll.at = "snapshot" /\ ~poll.res.crossed /\ poll.gen = agen /\ Running => poll.res.exp = held
  /\ poll.at = "memo" /\ ~poll.res.crossed /\ poll.key.gen = poll.gen => poll.res.exp = poll.key.held

AuditInv == Delivering /\ Verifying /\ Certain /\ Remembers /\ PollTyped /\ Polled /\ GreenIsVerified /\ AuditNotSkipped

LEMMA InitAuditInv == AuditInit => AuditInv
<1> SUFFICES ASSUME AuditInit PROVE AuditInv
  OBVIOUS
<1> USE RouteAuditAssumption DEF RouteAuditAssumption, AuditInit
<1>1. Delivering
  BY DEF Delivering, Cfg, Silent
<1>2. Verifying
  BY DEF Verifying, Verifications, NoCheck, Asking, Verifiers, Cfg, Silent
<1>3. Certain
  BY DEF Certain, NoCheck, Verifiers
<1>4. Remembers /\ PollTyped /\ Polled /\ GreenIsVerified /\ AuditNotSkipped
  BY DEF Remembers, PollTyped, Polled, NoPoll, GreenIsVerified, AuditNotSkipped
<1> QED BY <1>1, <1>2, <1>3, <1>4 DEF AuditInv

(* Deliveries.  A generation that is still the same, with a core that runs,     *)
(* was running with the same configuration before.                              *)
LEMMA DeliveryKeeps ==
  ASSUME AuditInv, UNCHANGED <<want, owed, verifying, polling>>, Delivering',
         seq' >= seq, agen' >= agen, agen' = agen /\ Running' => held' = held /\ Running
  PROVE  AuditInv'
<1>1. UNCHANGED <<want, owed, verifyMu, check, cache, job, started, memo, poll, shown>>
  BY DEF verifying, polling
<1>2. agen \in Nat /\ seq \in Nat /\ agen' \in Nat /\ seq' \in Nat
  BY DEF AuditInv, Delivering
<1>3. Verifying'
  BY <1>1, <1>2 DEF AuditInv, Verifying, Verifications, Results
<1>4. Certain'
  BY <1>1, <1>2 DEF AuditInv, Verifying, Certain, Verifications, Results
<1>5. Remembers'
  BY <1>1, <1>2 DEF AuditInv, Remembers
<1>6. PollTyped'
  BY <1>1, <1>2 DEF AuditInv, PollTyped
<1>7. Polled'
  <2>1. poll.at # "idle" => want \in poll.wanted
    BY DEF AuditInv, Polled
  <2>2. memo # NoOne /\ memo.key.seq = Read' => memo.key.seq = Read
    BY <1>1, <1>2 DEF AuditInv, Remembers, Read
  <2> QED BY <1>1, <1>2, <2>1, <2>2 DEF AuditInv, PollTyped, Polled, Results
<1>8. GreenIsVerified' /\ AuditNotSkipped'
  BY <1>1, <1>2 DEF AuditInv, GreenIsVerified, AuditNotSkipped, Verifying
<1> QED BY <1>3, <1>4, <1>5, <1>6, <1>7, <1>8 DEF AuditInv

LEMMA DeliveriesKeep ==
  ASSUME AuditInv, BeginRestart \/ Unneeded \/ SendHot \/ Record \/ Relaunch \/ CoreSteps \/ WatchdogFlags
  PROVE  AuditInv'
<1>1. Delivering
  BY DEF AuditInv
<1>2. /\ UNCHANGED <<want, owed, verifying, polling>> /\ Delivering' /\ seq' >= seq /\ agen' >= agen
      /\ agen' = agen /\ Running' => held' = held /\ Running
  <2> USE <1>1 DEF Delivering, Running
  <2>1. CASE BeginRestart
    <3>1. /\ UNCHANGED <<want, owed, held, agen, alive, answers, verifying, polling>> /\ flag' = FALSE
          /\ seq' = seq + 1 /\ goal' \in {goal, want} /\ stage' \in {stage, "decide"}
      BY <2>1 DEF BeginRestart
    <3>2. flag' \in BOOLEAN
      BY <3>1
    <3> QED BY <3>1, <3>2
  <2>2. CASE Unneeded
    BY <2>2 DEF Unneeded, wishes, Cfg
  <2>3. CASE SendHot
    BY <2>3 DEF SendHot, wishes
  <2>4. CASE Record
    BY <2>4 DEF Record, wishes, Cfg
  <2>5. CASE Relaunch
    BY <2>5 DEF Relaunch, wishes, Cfg
  <2>6. CASE CoreSteps
    BY <2>6 DEF CoreSteps, wishes
  <2>7. CASE WatchdogFlags
    BY <2>7 DEF WatchdogFlags, delivery
  <2> QED BY <2>1, <2>2, <2>3, <2>4, <2>5, <2>6, <2>7
<1> QED BY <1>2, DeliveryKeeps

LEMMA ChangeKeeps == ASSUME AuditInv, Change PROVE AuditInv'
<1>1. /\ UNCHANGED <<flag, seq, stage, goal, held, agen, alive, answers, verifyMu, cache, job, started, memo, shown>>
      /\ want' = 1 - want /\ owed' = owed + 1
      /\ check' = [v \in Verifiers |-> [check[v] EXCEPT !.crossed = @ \/ check[v].at \in {"pending", "plan"}]]
      /\ poll' = IF poll = NoPoll THEN poll ELSE [poll EXCEPT !.wanted = @ \cup {want'}]
  BY DEF Change, delivery
<1>2. want' \in Cfg /\ owed' \in Nat /\ owed' > 0
  BY <1>1 DEF AuditInv, Delivering, Cfg
<1>3. ASSUME NEW v \in Verifiers
      PROVE  /\ check'[v] \in Verifications /\ check'[v].at = check[v].at /\ check'[v].gen = check[v].gen
             /\ check'[v].cfg = check[v].cfg /\ check'[v].exp = check[v].exp
             /\ check'[v].pending = check[v].pending
             /\ ~check'[v].crossed => ~check[v].crossed /\ check[v].at \notin {"pending", "plan"}
  <2> DEFINE b == check[v].crossed \/ check[v].at \in {"pending", "plan"}
  <2>1. b \in BOOLEAN /\ (~b => ~check[v].crossed /\ check[v].at \notin {"pending", "plan"})
    OBVIOUS
  <2>2. check'[v] = [check[v] EXCEPT !.crossed = b] /\ check[v] \in Verifications
    BY <1>1 DEF AuditInv, Verifying
  <2> HIDE DEF b
  <2> QED BY <2>1, <2>2 DEF Verifications
<1>4. /\ DOMAIN poll' = DOMAIN poll /\ \A f \in DOMAIN poll \ {"wanted"} : poll'[f] = poll[f]
      /\ poll'.wanted \subseteq Cfg /\ poll.wanted \subseteq poll'.wanted
      /\ poll.at # "idle" => want' \in poll'.wanted
  BY <1>1, <1>2 DEF AuditInv, PollTyped, NoPoll
<1>5. /\ poll'.at = poll.at /\ poll'.gen = poll.gen /\ poll'.res = poll.res /\ poll'.key = poll.key
      /\ poll'.excused = poll.excused
  BY <1>4 DEF AuditInv, PollTyped
<1>6. Delivering'
  BY <1>1, <1>2 DEF AuditInv, Delivering
<1>7. Verifying'
  BY <1>1, <1>3 DEF AuditInv, Verifying
<1>8. Certain'
  <2>1. \A v \in Verifiers : check[v].at \in {"idle", "pending", "plan", "ask", "store"}
    BY DEF AuditInv, Verifying, Verifications, Asking
  <2> QED BY <1>1, <1>3, <2>1 DEF AuditInv, Certain, Running
<1>9. Remembers'
  BY <1>1, <1>2 DEF AuditInv, Remembers
<1>10. PollTyped'
  BY <1>1, <1>4, <1>5 DEF AuditInv, PollTyped
<1>11. Polled'
  <2>1. Read' = Read
    BY <1>1, <1>5 DEF Read
  <2> QED BY <1>1, <1>4, <1>5, <2>1 DEF AuditInv, Polled, Running
<1>12. GreenIsVerified' /\ AuditNotSkipped'
  BY <1>1 DEF AuditInv, GreenIsVerified, AuditNotSkipped
<1> QED BY <1>6, <1>7, <1>8, <1>9, <1>10, <1>11, <1>12 DEF AuditInv

LEMMA AskDeliveryKeeps == ASSUME AuditInv, AskDelivery PROVE AuditInv'
<1>1. /\ UNCHANGED <<want, stage, goal, held, agen, alive, answers, verifyMu, check, cache, job, started>>
      /\ UNCHANGED <<memo, poll, shown>>
      /\ seq' = seq + 1 /\ owed' \in Nat /\ flag' = TRUE
  BY DEF AskDelivery, delivery, verifying, polling, AuditInv, Delivering
<1>2. Delivering' /\ Verifying' /\ Certain'
  BY <1>1 DEF AuditInv, Delivering, Verifying, Certain, Running
<1>3. Remembers' /\ PollTyped'
  BY <1>1 DEF AuditInv, Delivering, Remembers, PollTyped
<1>4. memo # NoOne /\ memo.key.seq = Read' => memo.key.seq = Read
  BY <1>1 DEF AuditInv, Delivering, Remembers, Read
<1>5. Polled'
  BY <1>1, <1>4 DEF AuditInv, Polled, Running
<1>6. GreenIsVerified' /\ AuditNotSkipped'
  BY <1>1 DEF AuditInv, GreenIsVerified, AuditNotSkipped
<1> QED BY <1>2, <1>3, <1>5, <1>6 DEF AuditInv

(* Checks.  A step of a check before its result touches only its own record,    *)
(* the lock and the counts of the job.                                          *)
LEMMA CheckKeeps ==
  ASSUME AuditInv, UNCHANGED <<wishes, delivery, cache, polling>>,
         NEW v \in Verifiers, NEW c \in Verifications, check' = [check EXCEPT ![v] = c],
         c.gen <= agen, verifyMu' = IF c.at \in Asking THEN v ELSE NoOne,
         verifyMu \in {v, NoOne},
         started' \in Nat, job' \in [lastGen : Nat, truncated : Nat, gaveUp : BOOLEAN],
         job'.lastGen <= agen, job'.truncated < MaxTruncated,
         job'.lastGen = agen => job'.gaveUp \/ (job.lastGen = agen /\ job'.gaveUp = job.gaveUp),
         c.at # "idle" /\ c.gen = agen /\ Running => c.cfg = held,
         ~c.pending /\ ~c.crossed =>
            /\ c.at = "plan" => c.cfg = want
            /\ c.at \in {"ask", "store"} => c.exp = c.cfg
  PROVE  AuditInv'
<1>1. /\ UNCHANGED <<want, owed, flag, seq, stage, goal, held, agen, alive, answers, cache, memo, poll, shown>>
  BY DEF wishes, delivery, polling
<1>2. check' \in [Verifiers -> Verifications] /\ check'[v] = c /\ \A u \in Verifiers \ {v} : check'[u] = check[u]
  BY DEF AuditInv, Verifying
<1>3. Verifying'
  <2>1. ASSUME NEW u \in Verifiers PROVE check'[u].gen <= agen /\ (verifyMu' = u) = (check'[u].at \in Asking)
    <3>1. NoOne \notin Verifiers
      BY RouteAuditAssumption DEF RouteAuditAssumption
    <3> QED BY <1>2, <3>1 DEF AuditInv, Verifying
  <2> QED BY <1>1, <1>2, <2>1 DEF AuditInv, Verifying, Asking
<1>4. Certain'
  <2>1. \A u \in Verifiers : check'[u] = c \/ check'[u] = check[u]
    BY <1>2
  <2> QED BY <1>1, <2>1 DEF AuditInv, Certain, Running
<1>5. Delivering' /\ Remembers' /\ PollTyped'
  BY <1>1 DEF AuditInv, Delivering, Remembers, PollTyped
<1>6. Polled'
  BY <1>1 DEF AuditInv, Polled, Read, Running
<1>7. GreenIsVerified' /\ AuditNotSkipped'
  BY <1>1 DEF AuditInv, GreenIsVerified, AuditNotSkipped
<1> QED BY <1>3, <1>4, <1>5, <1>6, <1>7 DEF AuditInv

LEMMA CheckBeginsKeeps == ASSUME NEW v \in Verifiers, AuditInv, CheckBegins(v) PROVE AuditInv'
<1> DEFINE c == [NoCheck EXCEPT !.at = "pending", !.gen = agen, !.cfg = held, !.stamp = started']
<1>1. /\ UNCHANGED <<wishes, delivery, cache, job, polling>> /\ check' = [check EXCEPT ![v] = c]
      /\ verifyMu = NoOne /\ verifyMu' = v /\ started' = started + 1
  BY DEF CheckBegins
<1>2. started' \in Nat
  BY <1>1 DEF AuditInv, Verifying
<1>3. c \in Verifications
  BY <1>2 DEF AuditInv, Delivering, NoCheck, Verifications, Asking, Cfg
<1>4. c.at = "pending" /\ c.gen = agen /\ c.cfg = held
  BY DEF NoCheck
<1>5. agen <= agen /\ "pending" \in Asking
  BY DEF AuditInv, Delivering, Asking
<1>6. /\ job' \in [lastGen : Nat, truncated : Nat, gaveUp : BOOLEAN] /\ job'.lastGen <= agen
      /\ job'.truncated < MaxTruncated /\ job' = job
  BY <1>1 DEF AuditInv, Verifying
<1> HIDE DEF c
<1> QED BY <1>1, <1>2, <1>3, <1>4, <1>5, <1>6, CheckKeeps

(* A check goes on: its generation and its configuration stay. *)
LEMMA CheckGoesOn ==
  ASSUME AuditInv, NEW v \in Verifiers, check[v].at \in Asking
  PROVE  /\ check[v] \in Verifications /\ check[v].gen <= agen /\ verifyMu = v /\ check[v].at # "idle"
         /\ check[v].gen = agen /\ Running => check[v].cfg = held
         /\ ~check[v].pending /\ ~check[v].crossed =>
              /\ check[v].at = "plan" => check[v].cfg = want
              /\ check[v].at \in {"ask", "store"} => check[v].exp = check[v].cfg
         /\ job \in [lastGen : Nat, truncated : Nat, gaveUp : BOOLEAN] /\ job.lastGen <= agen
         /\ job.truncated < MaxTruncated /\ started \in Nat
<1>1. "idle" \notin Asking
  BY DEF Asking
<1> QED BY <1>1 DEF AuditInv, Verifying, Certain

LEMMA CheckPendingKeeps == ASSUME NEW v \in Verifiers, AuditInv, CheckPending(v) PROVE AuditInv'
<1>1. /\ UNCHANGED <<wishes, delivery, verifyMu, cache, job, started, polling>>
      /\ check[v].at = "pending" /\ "pending" \in Asking /\ "plan" \in Asking
  BY DEF CheckPending, Asking
<1>2. PICK pending \in BOOLEAN, late \in BOOLEAN :
        /\ check' = [check EXCEPT ![v] = [check[v] EXCEPT !.at = "plan", !.pending = pending, !.crossed = late]]
        /\ ~pending /\ ~late => check[v].cfg = want
  <2>1. check[v] \in Verifications /\ check \in [Verifiers -> Verifications]
    BY <1>1, CheckGoesOn DEF AuditInv, Verifying
  <2>2. CASE check' = [check EXCEPT ![v].at = "plan", ![v].pending = check[v].cfg # want]
    <3> DEFINE b == check[v].cfg # want
    <3>1. b \in BOOLEAN /\ (~b => check[v].cfg = want)
      OBVIOUS
    <3>2. check' = [check EXCEPT ![v].at = "plan", ![v].pending = b]
      BY <2>2
    <3> HIDE DEF b
    <3>3. check' = [check EXCEPT ![v] = [check[v] EXCEPT !.at = "plan", !.pending = b, !.crossed = check[v].crossed]]
      BY <2>1, <3>2 DEF Verifications
    <3>4. check[v].crossed \in BOOLEAN
      BY <2>1 DEF Verifications
    <3> QED BY <3>1, <3>3, <3>4
  <2>3. CASE check' = [check EXCEPT ![v].at = "plan", ![v].crossed = TRUE]
    <3>1. check' = [check EXCEPT ![v] = [check[v] EXCEPT !.at = "plan", !.pending = check[v].pending, !.crossed = TRUE]]
      BY <2>1, <2>3 DEF Verifications
    <3>2. check[v].pending \in BOOLEAN /\ TRUE \in BOOLEAN
      BY <2>1 DEF Verifications
    <3> QED BY <3>1, <3>2
  <2> QED BY <2>2, <2>3 DEF CheckPending
<1> DEFINE c == [check[v] EXCEPT !.at = "plan", !.pending = pending, !.crossed = late]
<1>3. check[v] \in Verifications
  BY <1>1, CheckGoesOn
<1>4. /\ c \in Verifications /\ c.at = "plan" /\ c.gen = check[v].gen /\ c.cfg = check[v].cfg
      /\ c.pending = pending /\ c.crossed = late
  BY <1>3 DEF Verifications, Asking
<1>5. check' = [check EXCEPT ![v] = c] /\ (~c.pending /\ ~c.crossed => c.cfg = want)
  BY <1>2, <1>4
<1> HIDE DEF c
<1>6. /\ c.gen <= agen /\ verifyMu' = v /\ verifyMu = v
      /\ c.gen = agen /\ Running => c.cfg = held
  BY <1>1, <1>4, CheckGoesOn
<1>7. ~c.pending /\ ~c.crossed =>
        /\ c.at = "plan" => c.cfg = want
        /\ c.at \in {"ask", "store"} => c.exp = c.cfg
  BY <1>4, <1>5
<1>8. /\ job' \in [lastGen : Nat, truncated : Nat, gaveUp : BOOLEAN] /\ job'.lastGen <= agen
      /\ job'.truncated < MaxTruncated /\ job' = job /\ started' \in Nat
  BY <1>1, CheckGoesOn
<1> QED BY <1>1, <1>4, <1>5, <1>6, <1>7, <1>8, CheckKeeps

(* A check that ends without a result. *)
LEMMA CheckEnds ==
  ASSUME AuditInv, NEW v \in Verifiers, check[v].at \in Asking,
         UNCHANGED <<wishes, delivery, cache, polling, started>>,
         check' = [check EXCEPT ![v] = NoCheck], verifyMu' = NoOne,
         job' = job \/ (v = Job /\ Truncates)
  PROVE  AuditInv'
<1>1. NoCheck \in Verifications /\ NoCheck.at = "idle" /\ NoCheck.gen = 0 /\ "idle" \notin Asking /\ 0 <= agen
  BY DEF NoCheck, Verifications, Asking, Cfg, AuditInv, Delivering
<1>2. /\ job' \in [lastGen : Nat, truncated : Nat, gaveUp : BOOLEAN] /\ job'.lastGen <= agen
      /\ job'.truncated < MaxTruncated
      /\ job'.lastGen = agen => job'.gaveUp \/ (job.lastGen = agen /\ job'.gaveUp = job.gaveUp)
  <2>1. CASE job' = job
    BY <2>1, CheckGoesOn
  <2>2. CASE v = Job /\ Truncates
    <3>1. /\ job \in [lastGen : Nat, truncated : Nat, gaveUp : BOOLEAN] /\ job.lastGen <= agen
          /\ job.truncated < MaxTruncated /\ check[Job].gen \in Nat /\ check[Job].gen <= agen
          /\ MaxTruncated \in Nat /\ MaxTruncated > 0
      BY <2>2, CheckGoesOn, RouteAuditAssumption DEF RouteAuditAssumption, Verifications
    <3>2. CASE job.truncated + 1 >= MaxTruncated
      <4>1. job' = [lastGen |-> check[Job].gen, truncated |-> 0, gaveUp |-> TRUE]
        BY <2>2, <3>2 DEF Truncates
      <4> QED BY <3>1, <4>1
    <3>3. CASE ~(job.truncated + 1 >= MaxTruncated)
      <4>1. job' = [job EXCEPT !.truncated = job.truncated + 1]
        BY <2>2, <3>3 DEF Truncates
      <4> QED BY <3>1, <3>3, <4>1
    <3> QED BY <3>2, <3>3
  <2> QED BY <2>1, <2>2
<1>3. started' \in Nat /\ verifyMu = v
  BY CheckGoesOn
<1> QED BY <1>1, <1>2, <1>3, CheckKeeps

LEMMA CheckPlansKeeps == ASSUME NEW v \in Verifiers, AuditInv, CheckPlans(v) PROVE AuditInv'
<1>1. UNCHANGED <<wishes, delivery, cache, job, started, polling>> /\ check[v].at = "plan" /\ check[v].at \in Asking
  BY DEF CheckPlans, Asking
<1>2. CASE answers = Silent
  BY <1>1, <1>2, CheckEnds DEF CheckPlans
<1>3. CASE answers # Silent
  <2> DEFINE c == [check[v] EXCEPT !.at = "ask", !.exp = want, !.left = Samples]
  <2>1. check[v] \in Verifications /\ check \in [Verifiers -> Verifications] /\ want \in Cfg /\ Samples \in Nat
    BY <1>1, CheckGoesOn, RouteAuditAssumption DEF AuditInv, Verifying, Delivering, RouteAuditAssumption
  <2>2. check' = [check EXCEPT ![v] = c] /\ verifyMu' = v
    BY <1>3, <2>1 DEF CheckPlans, Verifications
  <2>3. /\ c \in Verifications /\ c.at = "ask" /\ c.gen = check[v].gen /\ c.cfg = check[v].cfg
        /\ c.pending = check[v].pending /\ c.crossed = check[v].crossed /\ c.exp = want /\ "ask" \in Asking
    BY <2>1 DEF Verifications, Asking
  <2> HIDE DEF c
  <2> QED BY <1>1, <2>2, <2>3, CheckGoesOn, CheckKeeps
<1> QED BY <1>2, <1>3

LEMMA CheckAsksKeeps == ASSUME NEW v \in Verifiers, AuditInv, CheckAsks(v) PROVE AuditInv'
<1>1. /\ UNCHANGED <<wishes, delivery, cache, started, polling>> /\ check[v].at = "ask" /\ check[v].at \in Asking
      /\ check[v] \in Verifications /\ check \in [Verifiers -> Verifications] /\ answers \in Cfg \cup {Silent}
      /\ "store" \notin Asking
  BY CheckGoesOn DEF CheckAsks, Asking, AuditInv, Verifying, Delivering
<1>2. CASE /\ check[v].left > 0 /\ (answers = Silent => v = Manual)
           /\ check' = [check EXCEPT ![v].left = @ - 1, ![v].answered = @ \cup {answers}]
           /\ UNCHANGED <<verifyMu, job, quota>>
  <2> DEFINE c == [check[v] EXCEPT !.left = @ - 1, !.answered = @ \cup {answers}]
  <2>1. check' = [check EXCEPT ![v] = c]
    BY <1>1, <1>2 DEF Verifications
  <2>2. /\ c \in Verifications /\ c.at = "ask" /\ c.gen = check[v].gen /\ c.cfg = check[v].cfg
        /\ c.pending = check[v].pending /\ c.crossed = check[v].crossed /\ c.exp = check[v].exp
    <3>1. check[v].left - 1 \in Nat /\ check[v].answered \cup {answers} \in SUBSET (Cfg \cup {Silent})
      BY <1>1, <1>2 DEF Verifications
    <3> QED BY <1>1, <3>1 DEF Verifications
  <2> HIDE DEF c
  <2>3. ~c.pending /\ ~c.crossed => c.exp = c.cfg
    BY <1>1, <2>2, CheckGoesOn
  <2>4. c.gen <= agen /\ (c.gen = agen /\ Running => c.cfg = held)
    BY <1>1, <2>2, CheckGoesOn
  <2>5. c.at \in Asking /\ verifyMu = v /\ verifyMu' = v
    BY <1>1, <1>2, <2>2, CheckGoesOn
  <2>6. /\ job' \in [lastGen : Nat, truncated : Nat, gaveUp : BOOLEAN] /\ job'.lastGen <= agen
        /\ job'.truncated < MaxTruncated /\ job' = job /\ started' \in Nat
    BY <1>1, <1>2, CheckGoesOn
  <2> QED BY <1>1, <2>1, <2>2, <2>3, <2>4, <2>5, <2>6, CheckKeeps
<1>3. CASE check' = [check EXCEPT ![v] = NoCheck] /\ verifyMu' = NoOne /\ job' = job
  BY <1>1, <1>3, CheckEnds
<1>4. CASE check' = [check EXCEPT ![v] = NoCheck] /\ verifyMu' = NoOne /\ IF v = Job THEN Truncates ELSE UNCHANGED job
  BY <1>1, <1>4, CheckEnds
<1>5. CASE check' = [check EXCEPT ![v].at = "store"] /\ verifyMu' = NoOne /\ UNCHANGED job
  <2> DEFINE c == [check[v] EXCEPT !.at = "store"]
  <2>1. check' = [check EXCEPT ![v] = c]
    BY <1>1, <1>5 DEF Verifications
  <2>2. /\ c \in Verifications /\ c.at = "store" /\ c.gen = check[v].gen /\ c.cfg = check[v].cfg
        /\ c.pending = check[v].pending /\ c.crossed = check[v].crossed /\ c.exp = check[v].exp
    BY <1>1 DEF Verifications
  <2> HIDE DEF c
  <2>3. ~c.pending /\ ~c.crossed => c.exp = c.cfg
    BY <1>1, <2>2, CheckGoesOn
  <2>4. c.gen <= agen /\ (c.gen = agen /\ Running => c.cfg = held)
    BY <1>1, <2>2, CheckGoesOn
  <2>5. c.at \notin Asking /\ verifyMu = v /\ verifyMu' = NoOne
    BY <1>1, <1>5, <2>2, CheckGoesOn
  <2>6. /\ job' \in [lastGen : Nat, truncated : Nat, gaveUp : BOOLEAN] /\ job'.lastGen <= agen
        /\ job'.truncated < MaxTruncated /\ job' = job /\ started' \in Nat
    BY <1>1, <1>5, CheckGoesOn
  <2> QED BY <1>1, <2>1, <2>2, <2>3, <2>4, <2>5, <2>6, CheckKeeps
<1> QED BY <1>2, <1>3, <1>4, <1>5 DEF CheckAsks

(* Results.  A green one that nothing crossed is about the configuration of its *)
(* generation, and the cache never goes back to an older generation.            *)
LEMMA ResultMeans ==
  ASSUME AuditInv, NEW v \in Verifiers, check[v].at \in {"ask", "store"}
  PROVE  LET r == Result(check[v])
         IN  /\ r \in Results /\ r.gen = check[v].gen /\ r.gen <= agen
             /\ r.verdict = "verified" /\ ~r.crossed /\ r.gen = agen /\ Running => r.exp = held
<1> DEFINE c == check[v] r == Result(check[v])
<1>1. c \in Verifications /\ c.gen <= agen /\ c.at # "idle"
  BY DEF AuditInv, Verifying
<1>2. Verdict(c) \in Verdicts /\ (Verdict(c) = "verified" => ~c.pending)
  BY DEF Verdict, Verdicts
<1>3. /\ r.gen = c.gen /\ r.stamp = c.stamp /\ r.verdict = Verdict(c) /\ r.exp = c.exp /\ r.crossed = c.crossed
      /\ r \in Results
  BY <1>1, <1>2 DEF Result, Results, Verifications
<1>4. /\ ~c.pending /\ ~c.crossed => c.exp = c.cfg
      /\ c.gen = agen /\ Running => c.cfg = held
  BY <1>1 DEF AuditInv, Certain
<1> HIDE DEF c, r
<1>5. r.verdict = "verified" /\ ~r.crossed /\ r.gen = agen /\ Running => r.exp = held
  BY <1>2, <1>3, <1>4
<1> QED BY <1>1, <1>3, <1>5 DEF c, r

LEMMA StoreKeeps ==
  ASSUME AuditInv, NEW v \in Verifiers, check[v].at \in {"ask", "store"},
         UNCHANGED <<wishes, delivery, started, polling>>,
         cache' = Stored(Result(check[v])), check' = [check EXCEPT ![v] = NoCheck],
         verifyMu' = IF verifyMu = v THEN NoOne ELSE verifyMu,
         job' = job \/ job' = [lastGen |-> check[v].gen, truncated |-> 0, gaveUp |-> FALSE]
  PROVE  AuditInv'
<1>1. UNCHANGED <<want, owed, flag, seq, stage, goal, held, agen, alive, answers, started, memo, poll, shown>>
  BY DEF wishes, delivery, polling
<1> DEFINE r == Result(check[v])
<1>2. /\ r \in Results /\ r.gen = check[v].gen /\ r.gen <= agen
      /\ r.verdict = "verified" /\ ~r.crossed /\ r.gen = agen /\ Running => r.exp = held
  BY ResultMeans
<1>3. cache' \in {cache, r} /\ cache' # NoOne /\ cache' \in Results /\ cache'.gen <= agen /\ cache'.gen >= r.gen
      /\ (cache # NoOne => cache'.gen >= cache.gen)
  <2> HIDE DEF r
  <2>1. cache' = Stored(r)
    BY DEF r
  <2>2. cache # NoOne => cache \in Results /\ cache.gen <= agen /\ cache.gen \in Nat /\ cache.stamp \in Nat
    BY DEF AuditInv, Verifying, Results
  <2>3. r.gen \in Nat /\ r # NoOne
    BY <1>2, NoOneAssumption DEF NoOneAssumption, Results
  <2> QED BY <1>2, <2>1, <2>2, <2>3 DEF Stored
<1>4. cache'.verdict = "verified" /\ ~cache'.crossed /\ cache'.gen = agen /\ Running => cache'.exp = held
  BY <1>2, <1>3 DEF AuditInv, Certain
<1> HIDE DEF r
<1>5. /\ check' \in [Verifiers -> Verifications] /\ check'[v] = NoCheck
      /\ \A u \in Verifiers \ {v} : check'[u] = check[u]
      /\ NoCheck.at = "idle" /\ NoCheck.gen = 0 /\ ~NoCheck.pending /\ "idle" \notin Asking /\ 0 <= agen
  BY DEF NoCheck, Verifications, Asking, Cfg, AuditInv, Verifying, Delivering
<1>6. agen \in Nat /\ check[v].gen \in Nat /\ check[v].gen <= agen
  BY DEF AuditInv, Delivering, Verifying, Verifications
<1>7. Verifying'
  <2>1. ASSUME NEW u \in Verifiers PROVE check'[u].gen <= agen /\ (verifyMu' = u) = (check'[u].at \in Asking)
    <3>1. NoOne \notin Verifiers
      BY RouteAuditAssumption DEF RouteAuditAssumption
    <3> QED BY <1>5, <3>1 DEF AuditInv, Verifying
  <2>2. /\ job' \in [lastGen : Nat, truncated : Nat, gaveUp : BOOLEAN] /\ job'.lastGen <= agen
        /\ job'.truncated < MaxTruncated
    <3>1. MaxTruncated \in Nat /\ 0 < MaxTruncated
      BY RouteAuditAssumption DEF RouteAuditAssumption
    <3>2. CASE job' = job
      BY <1>1, <3>2 DEF AuditInv, Verifying
    <3>3. CASE job' = [lastGen |-> check[v].gen, truncated |-> 0, gaveUp |-> FALSE]
      <4>1. job'.lastGen = check[v].gen /\ job'.truncated = 0
        BY <3>3
      <4>2. job' \in [lastGen : Nat, truncated : Nat, gaveUp : BOOLEAN]
        BY <1>6, <3>3
      <4> QED BY <1>1, <1>6, <3>1, <4>1, <4>2
    <3> QED BY <3>2, <3>3
  <2> QED BY <1>1, <1>3, <1>5, <2>1, <2>2 DEF AuditInv, Verifying
<1>8. Certain'
  <2>1. \A u \in Verifiers : check'[u] = NoCheck \/ check'[u] = check[u]
    BY <1>5
  <2> QED BY <1>1, <1>4, <1>5, <2>1 DEF AuditInv, Certain, Running
<1>9. Delivering' /\ Remembers' /\ PollTyped'
  BY <1>1 DEF AuditInv, Delivering, Remembers, PollTyped
<1>10. Polled' /\ GreenIsVerified'
  BY <1>1 DEF AuditInv, Polled, Read, Running, GreenIsVerified
<1>11. AuditNotSkipped'
  <2>1. CASE job' = job
    <3>1. cache # NoOne => cache \in Results /\ cache.gen <= agen
      BY DEF AuditInv, Verifying
    <3> QED BY <1>1, <1>3, <1>6, <2>1, <3>1 DEF AuditInv, AuditNotSkipped, Results
  <2>2. CASE job' = [lastGen |-> check[v].gen, truncated |-> 0, gaveUp |-> FALSE]
    BY <1>1, <1>2, <1>3, <1>6, <2>2 DEF AuditNotSkipped, Results
  <2> QED BY <2>1, <2>2
<1> QED BY <1>7, <1>8, <1>9, <1>10, <1>11 DEF AuditInv

LEMMA StoresKeep == ASSUME AuditInv, ManualStores \/ JobNotes PROVE AuditInv'
<1>1. Manual \in Verifiers /\ Job \in Verifiers /\ "ask" \in Asking /\ "store" \notin Asking
  BY DEF Verifiers, Asking
<1>2. CASE ManualStores
  <2>1. check[Manual].at = "ask" /\ verifyMu = Manual
    BY <1>1, <1>2, CheckGoesOn DEF ManualStores
  <2> QED BY <1>1, <1>2, <2>1, StoreKeeps DEF ManualStores
<1>3. CASE JobNotes
  <2>1. check[Job].at = "store" /\ verifyMu # Job
    BY <1>1, <1>3 DEF JobNotes, AuditInv, Verifying
  <2> QED BY <1>1, <1>3, <2>1, StoreKeeps DEF JobNotes
<1> QED BY <1>2, <1>3

(* Polls. *)
LEMMA PollKeeps ==
  ASSUME AuditInv, UNCHANGED <<wishes, delivery, verifying>>, Remembers', PollTyped', Polled', GreenIsVerified'
  PROVE  AuditInv'
<1>1. UNCHANGED <<want, owed, flag, seq, stage, goal, held, agen, alive, answers, verifyMu, check, cache, job, started>>
  BY DEF wishes, delivery, verifying
<1> QED BY <1>1 DEF AuditInv, Delivering, Verifying, Certain, Running, AuditNotSkipped

LEMMA PollBeginsKeeps == ASSUME AuditInv, PollBegins PROVE AuditInv'
<1>1. /\ UNCHANGED <<want, owed, seq, agen, memo, held, alive>> /\ shown' = NoOne
      /\ poll' = [at |-> "rule", gen |-> agen, res |-> NoOne, key |-> NoOne, wanted |-> {want}, excused |-> owed > 0]
  BY DEF PollBegins, wishes, delivery, verifying, NoPoll
<1>2. want \in Cfg /\ owed \in Nat /\ agen \in Nat
  BY DEF AuditInv, Delivering
<1>3. /\ poll'.at = "rule" /\ poll'.gen = agen /\ poll'.wanted = {want} /\ poll'.excused \in BOOLEAN
      /\ DOMAIN poll' = {"at", "gen", "res", "key", "wanted", "excused"}
      /\ ~poll'.excused => owed = 0
  <2> DEFINE late == owed > 0
  <2>1. late \in BOOLEAN /\ (~late => owed = 0)
    BY <1>2
  <2>2. poll' = [at |-> "rule", gen |-> agen, res |-> NoOne, key |-> NoOne, wanted |-> {want}, excused |-> late]
    BY <1>1
  <2> HIDE DEF late
  <2> QED BY <2>1, <2>2
<1>4. Remembers' /\ PollTyped' /\ GreenIsVerified'
  BY <1>1, <1>2, <1>3 DEF AuditInv, Remembers, PollTyped, GreenIsVerified
<1>5. Polled'
  BY <1>1, <1>2, <1>3 DEF AuditInv, Remembers, Polled, Read
<1> QED BY <1>4, <1>5, PollKeeps DEF PollBegins

(* A poll that is over asks nothing. *)
LEMMA NoPollAsks == ASSUME AuditInv, poll' = NoPoll, agen' = agen PROVE PollTyped' /\ Polled'
BY DEF AuditInv, Delivering, PollTyped, Polled, NoPoll

LEMMA PollReadsKeeps == ASSUME AuditInv, PollReads PROVE AuditInv'
<1>1. /\ UNCHANGED <<want, owed, seq, agen, memo, held, alive, cache, shown>> /\ poll.at = "rule"
  BY DEF PollReads, wishes, delivery, verifying
<1>2. Remembers' /\ GreenIsVerified'
  BY <1>1 DEF AuditInv, Remembers, GreenIsVerified
<1>3. CASE poll' = NoPoll
  BY <1>1, <1>2, <1>3, NoPollAsks, PollKeeps DEF PollReads
<1>4. CASE poll' # NoPoll
  <2>1. /\ cache # NoOne /\ cache.gen = poll.gen /\ cache.verdict = "verified"
        /\ poll' = [poll EXCEPT !.at = "snapshot", !.res = cache, !.key = [seq |-> seq]]
    BY <1>4 DEF PollReads
  <2>2. /\ poll'.at = "snapshot" /\ poll'.res = cache /\ poll'.key = [seq |-> seq] /\ poll'.gen = poll.gen
        /\ poll'.wanted = poll.wanted /\ poll'.excused = poll.excused /\ DOMAIN poll' = DOMAIN poll
    BY <2>1 DEF AuditInv, PollTyped
  <2>3. poll'.key.seq = seq /\ DOMAIN poll'.key = {"seq"} /\ seq \in Nat /\ cache \in Results
    BY <2>1, <2>2 DEF AuditInv, Delivering, Verifying
  <2>4. PollTyped'
    BY <1>1, <2>2, <2>3 DEF AuditInv, PollTyped
  <2>5. Polled'
    BY <1>1, <2>1, <2>2, <2>3 DEF AuditInv, Certain, Polled, Read, Running
  <2> QED BY <1>2, <2>4, <2>5, PollKeeps DEF PollReads
<1> QED BY <1>3, <1>4

LEMMA PollSnapshotKeeps == ASSUME AuditInv, PollSnapshot PROVE AuditInv'
<1>1. /\ UNCHANGED <<want, owed, seq, agen, memo, held, alive, shown>> /\ poll.at = "snapshot"
  BY DEF PollSnapshot, wishes, delivery, verifying
<1>2. Remembers' /\ GreenIsVerified'
  BY <1>1 DEF AuditInv, Remembers, GreenIsVerified
<1>3. CASE poll' = NoPoll
  BY <1>1, <1>2, <1>3, NoPollAsks, PollKeeps DEF PollSnapshot
<1>4. CASE poll' # NoPoll
  <2>1. /\ Running
        /\ poll' = [poll EXCEPT !.at = "memo", !.key = [seq |-> poll.key.seq, gen |-> agen, held |-> held]]
    BY <1>4 DEF PollSnapshot
  <2>2. /\ poll'.at = "memo" /\ poll'.key = [seq |-> poll.key.seq, gen |-> agen, held |-> held]
        /\ poll'.res = poll.res /\ poll'.gen = poll.gen
        /\ poll'.wanted = poll.wanted /\ poll'.excused = poll.excused /\ DOMAIN poll' = DOMAIN poll
    BY <2>1 DEF AuditInv, PollTyped
  <2>3. /\ poll'.key.seq = poll.key.seq /\ poll'.key.gen = agen /\ poll'.key.held = held
        /\ DOMAIN poll'.key = {"seq", "gen", "held"} /\ agen \in Nat /\ agen <= agen
    BY <2>2 DEF AuditInv, Delivering
  <2>4. PollTyped'
    BY <1>1, <2>2, <2>3 DEF AuditInv, PollTyped
  <2>5. Polled'
    BY <1>1, <2>1, <2>2, <2>3 DEF AuditInv, Polled, Read
  <2> QED BY <1>2, <2>4, <2>5, PollKeeps DEF PollSnapshot
<1> QED BY <1>3, <1>4

(* A poll answers green only for the generation of its result. *)
LEMMA AnswerHolds ==
  ASSUME AuditInv, poll.at = "memo", NEW pending \in BOOLEAN, NEW blind \in BOOLEAN, Answer(pending, blind),
         ~pending => blind \/ poll.excused \/ poll.key.held \in poll.wanted
  PROVE  GreenIsVerified'
<1>1. CASE NotGreen(poll.key, pending)
  BY <1>1 DEF AuditInv, Answer, GreenIsVerified
<1>2. CASE ~NotGreen(poll.key, pending)
  <2>1. shown' = [exp |-> poll.res.exp, core |-> poll.key.held, wanted |-> poll.wanted,
                  excused |-> poll.excused \/ blind, crossed |-> poll.res.crossed]
    BY <1>2 DEF Answer
  <2>2. ~pending /\ poll.key.gen = poll.gen
    BY <1>2 DEF NotGreen
  <2>3. poll.res.crossed \/ poll.res.exp = poll.key.held
    BY <2>2 DEF AuditInv, Polled
  <2> QED BY <2>1, <2>2, <2>3 DEF GreenIsVerified
<1> QED BY <1>1, <1>2

LEMMA PollMemoKeeps == ASSUME AuditInv, PollMemo PROVE AuditInv'
<1>1. /\ UNCHANGED <<want, owed, seq, agen, held, alive>> /\ poll.at = "memo" /\ poll' = NoPoll
      /\ UNCHANGED <<wishes, delivery, verifying>>
  BY DEF PollMemo, Answer, wishes, delivery, verifying
<1>2. /\ DOMAIN poll.key = {"seq", "gen", "held"} /\ poll.key.gen \in Nat /\ poll.key.gen <= agen
      /\ poll.key.seq \in Nat /\ poll.key.seq <= seq /\ want \in poll.wanted /\ poll.excused \in BOOLEAN
  BY <1>1 DEF AuditInv, PollTyped, Polled
<1>3. CASE Remembered /\ Answer(memo.pending, FALSE) /\ UNCHANGED memo
  <2>1. Remembers' /\ memo.pending \in BOOLEAN /\ FALSE \in BOOLEAN
    BY <1>1, <1>3 DEF AuditInv, Remembers, Remembered
  <2>2. ~memo.pending => poll.excused \/ poll.key.held \in poll.wanted
    BY <1>1, <1>3 DEF AuditInv, Polled, Read, Remembered
  <2>3. GreenIsVerified'
    BY <1>1, <1>3, <2>1, <2>2, AnswerHolds
  <2> QED BY <1>1, <2>1, <2>3, NoPollAsks, PollKeeps
<1>4. CASE \E pending \in BOOLEAN : /\ memo' = [key |-> poll.key, pending |-> pending] /\ Answer(pending, FALSE)
                                   /\ (~pending => poll.key.held = want)
  <2>1. PICK pending \in BOOLEAN : /\ memo' = [key |-> poll.key, pending |-> pending] /\ Answer(pending, FALSE)
                                   /\ (~pending => poll.key.held = want)
    BY <1>4
  <2>2. memo'.key = poll.key /\ memo'.pending = pending /\ DOMAIN memo' = {"key", "pending"}
    BY <2>1
  <2>3. Remembers'
    BY <1>1, <1>2, <2>1, <2>2 DEF Remembers
  <2>4. GreenIsVerified'
    BY <1>1, <1>2, <2>1, AnswerHolds
  <2> QED BY <1>1, <2>3, <2>4, NoPollAsks, PollKeeps
<1>5. CASE memo' = NoOne /\ Answer(FALSE, TRUE)
  <2>1. Remembers'
    BY <1>5 DEF Remembers
  <2>2. GreenIsVerified'
    BY <1>1, <1>5, AnswerHolds
  <2> QED BY <1>1, <2>1, <2>2, NoPollAsks, PollKeeps
<1>6. ASSUME memo' = [key |-> poll.key, pending |-> poll.key.held # want], Answer(poll.key.held # want, FALSE)
      PROVE  AuditInv'
  <2> DEFINE pending == poll.key.held # want
  <2>1. pending \in BOOLEAN /\ (~pending => poll.key.held = want)
    OBVIOUS
  <2>2. memo' = [key |-> poll.key, pending |-> pending] /\ Answer(pending, FALSE)
    BY <1>6
  <2> HIDE DEF pending
  <2> QED BY <1>4, <2>1, <2>2
<1> QED BY <1>3, <1>5, <1>6 DEF PollMemo

LEMMA AuditInvAlways == AuditSpec => []AuditInv
<1>1. AuditInv /\ [AuditNext]_auditVars => AuditInv'
  <2> SUFFICES ASSUME AuditInv, [AuditNext]_auditVars PROVE AuditInv'
    OBVIOUS
  <2>1. CASE Change \/ AskDelivery
    BY <2>1, ChangeKeeps, AskDeliveryKeeps
  <2>2. CASE BeginRestart \/ Unneeded \/ SendHot \/ Record \/ Relaunch \/ CoreSteps \/ WatchdogFlags
    BY <2>2, DeliveriesKeep
  <2>3. ASSUME NEW v \in Verifiers, Checks(v) PROVE AuditInv'
    BY <2>3, CheckBeginsKeeps, CheckPendingKeeps, CheckPlansKeeps, CheckAsksKeeps DEF Checks
  <2>4. CASE ManualStores \/ JobNotes
    BY <2>4, StoresKeep
  <2>5. CASE PollBegins \/ PollReads \/ PollSnapshot \/ PollMemo
    BY <2>5, PollBeginsKeeps, PollReadsKeeps, PollSnapshotKeeps, PollMemoKeeps
  <2>6. CASE UNCHANGED auditVars
    BY <2>6 DEF auditVars, wishes, delivery, verifying, polling, AuditInv, Delivering, Verifying, Certain, Running,
       Remembers, PollTyped, Polled, Read, GreenIsVerified, AuditNotSkipped
  <2> QED BY <2>1, <2>2, <2>3, <2>4, <2>5, <2>6 DEF AuditNext
<1> QED BY InitAuditInv, <1>1, PTL DEF AuditSpec

(* A rule the list shows green is verified: its result is about the             *)
(* configuration the core holds, and the database wanted that one at some       *)
(* moment of the request, but for the excuses the property names.               *)
THEOREM GreenHolds == AuditSpec => []GreenIsVerified
<1>1. AuditInv => GreenIsVerified
  BY DEF AuditInv
<1> QED BY <1>1, AuditInvAlways, PTL

(* The audit job takes a generation for done only with a result of it, or       *)
(* after it was cut off as often as it puts up with.                            *)
THEOREM AuditRests == AuditSpec => []AuditNotSkipped
<1>1. AuditInv => AuditNotSkipped
  BY DEF AuditInv
<1> QED BY <1>1, AuditInvAlways, PTL

-----------------------------------------------------------------------------
(***************************************************************************)
(* The page.  The order of two requests is also the order of what the      *)
(* panel knew when they were sent (InOrder), so an answer that the         *)
(* counters let through cannot be older than what an earlier one promised  *)
(* (Overtaken); and the timer has asked in the last interval, unless what  *)
(* is shown has come since the interval before (Asked).                    *)
(***************************************************************************)
Requested(r) ==
  /\ r \in [seq : Nat, answer : Nat, sent : Nat] /\ r.sent # 0
  /\ r.seq <= asked /\ r.sent <= truth /\ r.answer <= truth
  /\ r.answer # Unserved => r.answer >= r.sent

PollingTyped ==
  /\ instant \in Nat /\ tick \in Nat
  /\ asked \in Nat /\ lastApplied \in Nat /\ lastApplied <= asked
  /\ truth \in Nat /\ truth # 0 /\ due \in Nat
  /\ display \in [answer : Nat, loadedAt : Nat, lastAttemptAt : Nat, failedAt : Nat]
  /\ display.loadedAt <= instant /\ display.lastAttemptAt <= instant

Waiting == \A r \in waiting : Requested(r)
InOrder == \A r, q \in waiting : r.seq <= q.seq => r.sent <= q.sent
Overtaken ==
  /\ due <= display.answer /\ due <= truth
  /\ \A r \in waiting : IF Late(r) THEN r.sent <= display.answer ELSE due <= r.sent

OnTime == tick <= instant /\ instant < tick + Interval
Asked ==
  ~hidden /\ display.loadedAt # 0 =>
    display.lastAttemptAt >= tick \/ display.loadedAt + Interval > tick

PollingInv == PollingTyped /\ Waiting /\ InOrder /\ Overtaken /\ OnTime /\ Asked

LEMMA MaxOfTwo ==
  ASSUME NEW a \in Nat, NEW b \in Nat
  PROVE  Max2(a, b) \in Nat /\ Max2(a, b) >= a /\ Max2(a, b) >= b /\ Max2(a, b) \in {a, b}
BY DEF Max2

LEMMA InitPollingInv == PollingInit => PollingInv
BY PollingAssumption DEF PollingAssumption, PollingInit, PollingInv, PollingTyped, Waiting, Requested, InOrder,
     Overtaken,
     Late, OnTime, Asked, Unserved

(* Sending: the new request comes after all others and knows most.           *)
LEMMA AskKeeps ==
  ASSUME PollingInv, NEW now \in Nat, Ask(now), instant' = now, instant <= now,
         UNCHANGED <<lastApplied, truth, due>>
  PROVE  Waiting' /\ InOrder' /\ Overtaken' /\ asked' \in Nat /\ lastApplied' <= asked'
         /\ display' \in [answer : Nat, loadedAt : Nat, lastAttemptAt : Nat, failedAt : Nat]
         /\ display'.loadedAt = display.loadedAt /\ display'.lastAttemptAt = now
<1> USE DEF PollingInv, PollingTyped
<1> DEFINE new == [seq |-> asked + 1, answer |-> Unserved, sent |-> truth]
<1>1. /\ asked' = asked + 1 /\ waiting' = waiting \cup {new}
      /\ display' = [display EXCEPT !.lastAttemptAt = now]
  BY DEF Ask
<1>2. /\ display' \in [answer : Nat, loadedAt : Nat, lastAttemptAt : Nat, failedAt : Nat]
      /\ display'.loadedAt = display.loadedAt /\ display'.lastAttemptAt = now
      /\ display'.answer = display.answer
  BY <1>1
<1>3. Waiting'
  BY <1>1 DEF Waiting, Requested, Unserved
<1>4. InOrder'
  BY <1>1 DEF InOrder, Waiting, Requested
<1>5. Overtaken'
  BY <1>1, <1>2 DEF Overtaken, Late
<1> QED BY <1>1, <1>2, <1>3, <1>4, <1>5

LEMMA PassTimeKeeps == PollingInv /\ PassTime => PollingInv'
<1> SUFFICES ASSUME PollingInv, PassTime PROVE PollingInv'
  OBVIOUS
<1> USE PollingAssumption DEF PollingAssumption
<1>1. /\ instant' = instant + 1 /\ instant' \in Nat
      /\ tick' = IF instant + 1 = tick + Interval THEN instant + 1 ELSE tick
      /\ UNCHANGED hidden /\ UNCHANGED <<lastApplied, truth, due>>
  BY DEF PassTime, PollingInv, PollingTyped
<1>2. OnTime' /\ tick' \in Nat
  BY <1>1 DEF OnTime, PollingInv, PollingTyped
<1>3. CASE tick' # tick /\ ~hidden
  <2>1. Ask(instant + 1)
    BY <1>3 DEF PassTime
  <2>2. /\ Waiting' /\ InOrder' /\ Overtaken' /\ asked' \in Nat /\ lastApplied' <= asked'
        /\ display' \in [answer : Nat, loadedAt : Nat, lastAttemptAt : Nat, failedAt : Nat]
        /\ display'.loadedAt = display.loadedAt /\ display'.lastAttemptAt = instant + 1
    BY <1>1, <2>1, AskKeeps DEF PollingInv, PollingTyped
  <2>3. Asked'
    BY <1>1, <2>2 DEF Asked, PollingInv, PollingTyped
  <2>4. PollingTyped'
    BY <1>1, <1>2, <2>2 DEF PollingInv, PollingTyped
  <2> QED BY <1>2, <2>2, <2>3, <2>4 DEF PollingInv
<1>4. CASE ~(tick' # tick /\ ~hidden)
  <2>1. UNCHANGED <<asked, waiting, display>>
    BY <1>4 DEF PassTime
  <2>2. Asked'
    BY <1>1, <1>4, <2>1 DEF Asked, PollingInv, PollingTyped
  <2>3. PollingTyped'
    BY <1>1, <1>2, <2>1 DEF PollingInv, PollingTyped
  <2>4. Waiting' /\ InOrder' /\ Overtaken'
    BY <1>1, <2>1 DEF PollingInv, Waiting, Requested, InOrder, Overtaken, Late
  <2> QED BY <1>2, <2>2, <2>3, <2>4 DEF PollingInv
<1> QED BY <1>3, <1>4

LEMMA ShowKeeps == PollingInv /\ Show => PollingInv'
<1> SUFFICES ASSUME PollingInv, Show PROVE PollingInv'
  OBVIOUS
<1> USE PollingAssumption DEF PollingAssumption
<1>1. hidden' = FALSE /\ UNCHANGED <<instant, tick, lastApplied, truth, due>>
  BY DEF Show
<1>2. OnTime'
  BY <1>1 DEF OnTime, PollingInv
<1>3. CASE instant - display.loadedAt >= Interval
  <2>1. /\ Waiting' /\ InOrder' /\ Overtaken' /\ asked' \in Nat /\ lastApplied' <= asked'
        /\ display' \in [answer : Nat, loadedAt : Nat, lastAttemptAt : Nat, failedAt : Nat]
        /\ display'.loadedAt = display.loadedAt /\ display'.lastAttemptAt = instant
    BY <1>1, <1>3, AskKeeps DEF Show, PollingInv, PollingTyped
  <2>2. Asked' /\ PollingTyped'
    BY <1>1, <2>1 DEF Asked, OnTime, PollingInv, PollingTyped
  <2> QED BY <1>2, <2>1, <2>2 DEF PollingInv
<1>4. CASE ~(instant - display.loadedAt >= Interval)
  <2>1. UNCHANGED <<asked, waiting, display>>
    BY <1>4 DEF Show
  <2>2. Asked' /\ PollingTyped'
    BY <1>1, <1>4, <2>1 DEF Asked, OnTime, PollingInv, PollingTyped
  <2>3. Waiting' /\ InOrder' /\ Overtaken'
    BY <1>1, <2>1 DEF PollingInv, Waiting, Requested, InOrder, Overtaken, Late
  <2> QED BY <1>2, <2>2, <2>3 DEF PollingInv
<1> QED BY <1>3, <1>4

LEMMA AfterOperationKeeps == PollingInv /\ AfterOperation => PollingInv'
<1> SUFFICES ASSUME PollingInv, AfterOperation PROVE PollingInv'
  OBVIOUS
<1>1. Ask(instant) /\ UNCHANGED <<instant, hidden, tick, lastApplied, truth, due>>
  BY DEF AfterOperation
<1>2. /\ Waiting' /\ InOrder' /\ Overtaken' /\ asked' \in Nat /\ lastApplied' <= asked'
      /\ display' \in [answer : Nat, loadedAt : Nat, lastAttemptAt : Nat, failedAt : Nat]
      /\ display'.loadedAt = display.loadedAt /\ display'.lastAttemptAt = instant
  BY <1>1, AskKeeps DEF PollingInv, PollingTyped
<1>3. Asked' /\ OnTime' /\ PollingTyped'
  BY <1>1, <1>2 DEF Asked, OnTime, PollingInv, PollingTyped
<1> QED BY <1>2, <1>3 DEF PollingInv

LEMMA ServeKeeps == ASSUME NEW r \in waiting, PollingInv, Serve(r) PROVE PollingInv'
<1> DEFINE served == [r EXCEPT !.answer = truth]
<1>1. /\ waiting' = (waiting \ {r}) \cup {served}
      /\ UNCHANGED <<instant, hidden, tick, asked, lastApplied, display, truth, due>>
  BY DEF Serve
<1>2. Requested(r)
  BY DEF PollingInv, Waiting
<1>3. served.seq = r.seq /\ served.sent = r.sent /\ served.answer = truth
      /\ served \in [seq : Nat, answer : Nat, sent : Nat]
  BY <1>2 DEF Requested, PollingInv, PollingTyped
<1>4. Waiting'
  BY <1>1, <1>2, <1>3 DEF PollingInv, PollingTyped, Waiting, Requested
<1>5. InOrder' /\ Overtaken'
  BY <1>1, <1>3 DEF PollingInv, InOrder, Overtaken, Late
<1>6. PollingTyped' /\ OnTime' /\ Asked'
  BY <1>1 DEF PollingInv, PollingTyped, OnTime, Asked
<1> QED BY <1>4, <1>5, <1>6 DEF PollingInv

LEMMA ReceiveKeeps == ASSUME NEW r \in waiting, PollingInv, Receive(r) PROVE PollingInv'
<1>1. /\ r.answer # Unserved /\ waiting' = waiting \ {r} /\ due' = Max2(due, r.sent)
      /\ UNCHANGED <<instant, hidden, tick, asked, truth>>
  BY DEF Receive
<1>2. Requested(r)
  BY DEF PollingInv, Waiting
<1>3. due' \in Nat /\ due' \in {due, r.sent}
  BY <1>1, <1>2, MaxOfTwo DEF PollingInv, PollingTyped, Requested
<1>4. Waiting' /\ InOrder' /\ OnTime'
  BY <1>1 DEF PollingInv, Waiting, Requested, InOrder, OnTime
<1>5. CASE Late(r)
  <2>1. UNCHANGED <<lastApplied, display>>
    BY <1>5 DEF Receive
  <2>2. Overtaken'
    BY <1>1, <1>2, <1>3, <1>5, <2>1 DEF PollingInv, PollingTyped, Waiting, Requested, InOrder, Overtaken, Late
  <2>3. PollingTyped' /\ Asked'
    BY <1>1, <1>3, <2>1 DEF PollingInv, PollingTyped, Asked
  <2> QED BY <1>4, <2>2, <2>3 DEF PollingInv
<1>6. CASE ~Late(r)
  <2>1. lastApplied' = r.seq /\ display' = [display EXCEPT !.answer = r.answer, !.loadedAt = instant]
    BY <1>6 DEF Receive
  <2>2. /\ display' \in [answer : Nat, loadedAt : Nat, lastAttemptAt : Nat, failedAt : Nat]
        /\ display'.answer = r.answer /\ display'.loadedAt = instant
        /\ display'.lastAttemptAt = display.lastAttemptAt
    BY <1>2, <2>1 DEF PollingInv, PollingTyped, Requested
  <2>3. PollingTyped'
    BY <1>1, <1>2, <1>3, <2>1, <2>2 DEF PollingInv, PollingTyped, Requested
  <2>4. due <= r.sent /\ r.sent <= r.answer /\ due' = r.sent
    <3>1. due <= r.sent /\ r.sent <= r.answer
      BY <1>1, <1>2, <1>6 DEF PollingInv, Overtaken, Requested
    <3> QED BY <1>1, <1>2, <3>1 DEF PollingInv, PollingTyped, Requested, Max2
  <2>5. Overtaken'
    BY <1>1, <1>2, <1>6, <2>1, <2>2, <2>4 DEF PollingInv, PollingTyped, Waiting, Requested, InOrder, Overtaken, Late
  <2>6. Asked'
    BY <1>1, <2>2, PollingAssumption DEF PollingAssumption, PollingInv, PollingTyped, OnTime, Asked
  <2> QED BY <1>4, <2>3, <2>5, <2>6 DEF PollingInv
<1> QED BY <1>5, <1>6

LEMMA FailKeeps == ASSUME NEW r \in waiting, PollingInv, AskFails(r) PROVE PollingInv'
<1>1. /\ waiting' = waiting \ {r} /\ UNCHANGED <<instant, hidden, tick, asked, lastApplied, truth, due>>
      /\ display' = IF Late(r) THEN display ELSE [display EXCEPT !.failedAt = instant]
  BY DEF AskFails
<1>2. /\ display' \in [answer : Nat, loadedAt : Nat, lastAttemptAt : Nat, failedAt : Nat]
      /\ display'.answer = display.answer /\ display'.loadedAt = display.loadedAt
      /\ display'.lastAttemptAt = display.lastAttemptAt
  BY <1>1 DEF PollingInv, PollingTyped
<1>3. PollingTyped' /\ OnTime' /\ Asked'
  BY <1>1, <1>2 DEF PollingInv, PollingTyped, OnTime, Asked
<1>4. Waiting' /\ InOrder' /\ Overtaken'
  BY <1>1, <1>2 DEF PollingInv, Waiting, Requested, InOrder, Overtaken, Late
<1> QED BY <1>3, <1>4 DEF PollingInv

LEMMA PollingRests == PollingInv /\ (Hide \/ Changes \/ UNCHANGED pollingVars) => PollingInv'
<1> SUFFICES ASSUME PollingInv, Hide \/ Changes \/ UNCHANGED pollingVars PROVE PollingInv'
  OBVIOUS
<1>1. /\ UNCHANGED <<instant, tick, asked, lastApplied, waiting, display, due>>
      /\ truth' \in Nat /\ truth <= truth' /\ (~hidden' => ~hidden)
  BY DEF PollingInv, PollingTyped, Hide, Changes, pollingVars
<1>2. PollingTyped' /\ OnTime' /\ Asked'
  BY <1>1 DEF PollingInv, PollingTyped, OnTime, Asked
<1>3. Waiting' /\ InOrder' /\ Overtaken'
  BY <1>1 DEF PollingInv, PollingTyped, Waiting, Requested, InOrder, Overtaken, Late
<1> QED BY <1>2, <1>3 DEF PollingInv

LEMMA PollingInductive == PollingInv /\ [PollingNext]_pollingVars => PollingInv'
BY PassTimeKeeps, ShowKeeps, AfterOperationKeeps, ServeKeeps, ReceiveKeeps, FailKeeps, PollingRests DEF PollingNext

LEMMA TellsTheTruth == PollingInv => SummaryTold
<1> SUFFICES ASSUME PollingInv PROVE NewestShown /\ GreyWhenOld
  BY DEF SummaryTold
<1>1. NewestShown
  BY DEF PollingInv, PollingTyped, Overtaken, NewestShown
<1>2. GreyWhenOld
  <2> SUFFICES ASSUME ~hidden, display.loadedAt # 0, instant - display.loadedAt >= StaleAfter + Interval - 1
               PROVE  Stale
    BY DEF GreyWhenOld
  <2>1. display.lastAttemptAt >= tick \/ display.loadedAt + Interval > tick
    BY DEF PollingInv, Asked
  <2>2. display.lastAttemptAt - display.loadedAt >= StaleAfter
    BY <2>1, PollingAssumption DEF PollingAssumption, PollingInv, PollingTyped, OnTime
  <2> QED BY <2>2, PollingAssumption DEF PollingAssumption, PollingInv, PollingTyped, Stale, Max2
<1> QED BY <1>1, <1>2

(* Whatever the interval, the delays and the order of the answers: the page    *)
(* never falls back to an older summary than one it was entitled to, and a     *)
(* summary that nothing has confirmed for three rounds is grey                 *)
(* (refreshRoutingAudit, routingAuditStale).                                   *)
THEOREM SummaryIsTold == PollingSpec => []SummaryTold
<1>1. PollingSpec => []PollingInv
  BY InitPollingInv, PollingInductive, PTL DEF PollingSpec
<1> QED BY <1>1, TellsTheTruth, PTL

-----------------------------------------------------------------------------
(***************************************************************************)
(* The dialog of an upgrade.  What a poll hears depends on which process   *)
(* answers, so the invariant follows the processes: the one that serves    *)
(* has been started since the attempt began or was there when it began     *)
(* (Came), one without the route, or one that refuses the session, was not *)
(* there when the attempt was accepted (Restarted), and unless another     *)
(* administrator meddled only the chosen version can have come without the *)
(* route (Chosen).                                                         *)
(***************************************************************************)
Loops == loop \in {"head", "sleeping", "answered"}
UnitSteps == {"idle", "download", "stopped", "unpacked"}

UpgradeTyped ==
  /\ unit \in [tag : Versions \cup {Down}, step : UnitSteps]
  /\ dialog \in [state : UpgradeStates, target : Versions \cup {Down}, saw : BOOLEAN, unverified : BOOLEAN]
  /\ heard \in [kind : Replies, version : Versions \cup {Down}]
  /\ panel \in Versions \cup {Down} /\ disk \in Versions \cup {Down}

(* The process that serves runs what is installed; the script owns both.     *)
Installed ==
  /\ panel # Down => disk = panel
  /\ unit.step \in {"stopped", "unpacked"} => panel = Down
  /\ unit.step = "idle" => unit = NoUnit
  /\ unit.step = "stopped" => disk = Down
  /\ unit.step = "unpacked" => disk \in {Down, unit.tag}

Came == panel \in came \cup {from, Down}

Restarted ==
  Loops /\ came = {} /\ panel # Down => panel \notin Routeless /\ (panel \in Refusing => panel = issuer)

Chosen ==
  Loops /\ ~meddled =>
    /\ unit.step # "idle" => unit.tag = dialog.target
    /\ disk \in Routeless => disk = dialog.target
    /\ panel \in Routeless => dialog.target \in came

Heard ==
  loop = "answered" =>
    /\ heard.kind = "reply" => heard.version \in came \cup {from}
    /\ heard.kind = "missing" => came # {} /\ (dialog.target \in came \cap Routeless \/ meddled)
    /\ heard.kind = "refused" => came # {} \/ ~session

Busy == loop # "none" => dialog.state \in {"starting", "restarting"} /\ ~dialog.unverified

UpgradeInv == UpgradeTyped /\ Installed /\ Came /\ Restarted /\ Chosen /\ Heard /\ Busy /\ UpgradeTold

LEMMA InitUpgradeInv == UpgradeInit => UpgradeInv
BY UpgradeAssumption DEF UpgradeAssumption, UpgradeInit, UpgradeInv, UpgradeTyped, UnitSteps, Installed, Came,
     Restarted, Chosen,
     Heard, Busy, UpgradeTold, Loops, NoUnit, Nothing, UpgradeStates, Replies

LEMMA StartKeeps == ASSUME NEW tag \in Versions, UpgradeInv, StartUpgrade(tag) PROVE UpgradeInv'
BY UpgradeAssumption DEF UpgradeAssumption, StartUpgrade, UpgradeInv, UpgradeTyped, UnitSteps, Installed, Came,
     Restarted, Chosen,
     Heard, Busy, UpgradeTold, Loops, NoUnit, UpgradeStates

LEMMA PostKeeps == UpgradeInv /\ PostUpgrade => UpgradeInv'
BY UpgradeAssumption DEF UpgradeAssumption, PostUpgrade, UnitAccepts, LoggedIn, Leave, Trouble, UpgradeInv,
     UpgradeTyped, UnitSteps,
     Installed, Came, Restarted, Chosen, Heard, Busy, UpgradeTold, Loops, NoUnit, UpgradeStates

LEMMA LoopKeeps == UpgradeInv /\ (TimesOut \/ Sleeps \/ CloseDialog) => UpgradeInv'
BY UpgradeAssumption DEF UpgradeAssumption, TimesOut, Sleeps, CloseDialog, Leave, server, UpgradeInv, UpgradeTyped,
     UnitSteps,
     Installed, Came, Restarted, Chosen, Heard, Busy, UpgradeTold, Loops, NoUnit, UpgradeStates

LEMMA AsksKeeps == UpgradeInv /\ Asks => UpgradeInv'
BY UpgradeAssumption DEF UpgradeAssumption, Asks, Reply, LoggedIn, Trouble, server, UpgradeInv, UpgradeTyped, UnitSteps,
     Installed, Came, Restarted, Chosen, Heard, Busy, UpgradeTold, Loops, NoUnit, Replies

LEMMA PollUpgradeKeeps == UpgradeInv /\ PollUpgrade => UpgradeInv'
<1> SUFFICES ASSUME UpgradeInv, PollUpgrade PROVE UpgradeInv'
  OBVIOUS
<1>1. /\ loop = "answered" /\ heard' = Nothing /\ loop' \in {"none", "head"}
      /\ panel' = panel /\ disk' = disk /\ unit' = unit /\ session' = session /\ issuer' = issuer
      /\ came' = came /\ from' = from /\ meddled' = meddled
      /\ dialog'.target = dialog.target
  BY DEF PollUpgrade, Leave, server, UpgradeInv, UpgradeTyped
<1>2. UpgradeTyped'
  <2>1. dialog' \in [state : UpgradeStates, target : Versions \cup {Down}, saw : BOOLEAN, unverified : BOOLEAN]
    BY ZenonT(40) DEF PollUpgrade, Leave, UpgradeInv, UpgradeTyped, UpgradeStates
  <2> QED BY <1>1, <2>1 DEF UpgradeInv, UpgradeTyped, Nothing, Replies
<1>3. Installed' /\ Came'
  BY <1>1 DEF UpgradeInv, Installed, Came
<1>4. Restarted' /\ Chosen'
  BY <1>1 DEF UpgradeInv, Restarted, Chosen, Loops
<1>5. Heard'
  BY <1>1 DEF Heard
<1>6. Busy'
  BY <1>1 DEF PollUpgrade, Leave, UpgradeInv, UpgradeTyped, Busy
<1>7. UpgradeTold'
  <2>1. CASE Refused(heard) /\ Leave("relogin")
    BY <1>1, <2>1 DEF Refused, Leave, UpgradeInv, UpgradeTyped, Heard, Busy, UpgradeTold
  <2>2. CASE heard.kind = "reply" /\ OnTarget(heard) /\ Leave("done")
    BY <1>1, <2>2 DEF PollUpgrade, OnTarget, Leave, UpgradeInv, UpgradeTyped, Heard, Busy, UpgradeTold
  <2>3. CASE NotFound(heard) /\ dialog' = [dialog EXCEPT !.state = "done", !.unverified = TRUE]
    BY <1>1, <2>3 DEF NotFound, UpgradeInv, UpgradeTyped, Heard, UpgradeTold
  <2>4. CASE loop' = "head"
    BY <1>1, <2>4, <1>6 DEF Busy, UpgradeTold
  <2> QED BY <2>1, <2>2, <2>3, <2>4 DEF PollUpgrade
<1> QED BY <1>2, <1>3, <1>4, <1>5, <1>6, <1>7 DEF UpgradeInv

LEMMA UnitKeeps == UpgradeInv /\ (DownloadFails \/ StopsPanel \/ Unpacks \/ StartsPanel) => UpgradeInv'
BY UpgradeAssumption DEF UpgradeAssumption, DownloadFails, StopsPanel, Unpacks, StartsPanel, Script, Trouble, page,
     UpgradeInv, UpgradeTyped, UnitSteps, Installed, Came, Restarted, Chosen, Heard, Busy, UpgradeTold, Loops, NoUnit

LEMMA ServerKeeps == UpgradeInv /\ (Crashes \/ StartedByHand \/ SessionEnds) => UpgradeInv'
BY UpgradeAssumption DEF UpgradeAssumption, Crashes, StartedByHand, SessionEnds, Script, Trouble, page,
     UpgradeInv, UpgradeTyped, UnitSteps, Installed, Came, Restarted, Chosen, Heard, Busy, UpgradeTold, Loops, NoUnit

LEMMA OtherKeeps == ASSUME NEW tag \in Versions, UpgradeInv, OtherUpgrades(tag) PROVE UpgradeInv'
BY UpgradeAssumption DEF UpgradeAssumption, OtherUpgrades, Trouble, page, UpgradeInv, UpgradeTyped, UnitSteps,
     Installed, Came,
     Restarted, Chosen, Heard, Busy, UpgradeTold, Loops, NoUnit

LEMMA UpgradeRests == UpgradeInv /\ UNCHANGED upgradeVars => UpgradeInv'
BY DEF upgradeVars, UpgradeInv, UpgradeTyped, Installed, Came, Restarted, Chosen, Heard, Busy, UpgradeTold, Loops, NoUnit

LEMMA UpgradeInductive == UpgradeInv /\ [UpgradeNext]_upgradeVars => UpgradeInv'
BY StartKeeps, PostKeeps, LoopKeeps, AsksKeeps, PollUpgradeKeeps, UnitKeeps, ServerKeeps, OtherKeeps, UpgradeRests
     DEF UpgradeNext

(* Whatever fails, restarts or comes late, and however often the page tries:   *)
(* "done" and "relogin" are only shown when what they say has happened         *)
(* (pollUpgrade).                                                              *)
THEOREM UpgradeIsTold == UpgradeSpec => []UpgradeTold
<1>1. UpgradeSpec => []UpgradeInv
  BY InitUpgradeInv, UpgradeInductive, PTL DEF UpgradeSpec
<1>2. UpgradeInv => UpgradeTold
  BY DEF UpgradeInv
<1> QED BY <1>1, <1>2, PTL

-----------------------------------------------------------------------------
(***************************************************************************)
(* The login.  For any number of requests, sources and periods a code      *)
(* passes once, and a lock lasts.                                          *)
(*                                                                         *)
(* A code: twoFactorMu is held from the comparison to the record (Mutex),  *)
(* so the period of a code that is about to be recorded is still later     *)
(* than the last one (Recording); while a secret is on, the last period    *)
(* covers every code that has passed since it was switched on (Covered).   *)
(* Steps that clear the last period run only while no secret is on         *)
(* (NoSecret, Rescuing), but for the rescue that crossed an Enable.        *)
(*                                                                         *)
(* A lock: none lies further ahead than LockTime (Locks), so a new one is  *)
(* not shorter, and an eviction spares what is locked.                     *)
(***************************************************************************)

Calls == [at : Places, src : Sources \cup {Nobody}, era : Nat, sec : Nat, step : Nat]
Held == Writing \cup {"compare", "record"}

LoginTyped ==
  /\ secret \in Nat /\ pendingSecret \in Nat /\ lastStep \in Nat /\ made \in Nat /\ era \in Nat /\ rescue \in 0..3
  /\ call \in [Clients -> Calls]
  /\ passed \subseteq Nat \X (Nat \ {0})

Mutex == \A c \in Clients : call[c].at \in Held => mu = c

Recording ==
  \A c \in Clients : call[c].at = "record" =>
    /\ call[c].era = era /\ call[c].step # NoStep
    /\ era \notin crossed =>
         /\ <<era, call[c].step>> \notin passed
         /\ secret # Off => lastStep < call[c].step

Enabling == \A c \in Clients : call[c].at \in {"stepFirst", "secretNext"} => call[c].step # NoStep
NoSecret == \A c \in Clients : call[c].at \in {"stepFirst", "secretNext", "clearPending", "clearStep"} => secret = Off
Rescuing == rescue \in {1, 2} => secret = Off \/ era \in crossed

Covered ==
  /\ \A code \in passed : code[1] <= era
  /\ secret # Off /\ era \notin crossed => \A code \in passed : code[1] = era => code[2] <= lastStep

LoginInv == LoginTyped /\ Mutex /\ Recording /\ Enabling /\ NoSecret /\ Rescuing /\ Covered /\ CodeOnce

LEMMA InitLoginInv == LoginInit => LoginInv
BY LoginAssumption DEF LoginAssumption, LoginInit, LoginInv, LoginTyped, Calls, Places, Writing, Held, Idle, Mutex, Recording,
     Enabling, NoSecret, Rescuing, Covered, CodeOnce, Off, NoStep

(* Steps of a request that touch neither the secret, the last period nor the   *)
(* history, and that do not leave it between a lock and an unlock.             *)
LEMMA OutsideKeeps ==
  ASSUME NEW c \in Clients, LoginInv, UNCHANGED <<secret, lastStep, told, rescue>>,
         pendingSecret' \in Nat, made' \in Nat,
         \/ call' = call /\ mu' = mu
         \/ /\ call' \in [Clients -> Calls] /\ \A d \in Clients \ {c} : call'[d] = call[d]
            /\ call'[c].at \notin Held
            /\ mu' = mu \/ mu = c
  PROVE  LoginInv'
<1>1. /\ secret' = secret /\ lastStep' = lastStep /\ rescue' = rescue
      /\ era' = era /\ passed' = passed /\ twice' = twice /\ crossed' = crossed
  BY DEF told
<1>2. LoginTyped'
  BY <1>1 DEF LoginInv, LoginTyped
<1>3. Mutex' /\ Recording' /\ Enabling' /\ NoSecret'
  BY <1>1 DEF LoginInv, LoginTyped, Mutex, Recording, Enabling, NoSecret, Held, Writing
<1>4. Rescuing' /\ Covered' /\ CodeOnce'
  BY <1>1 DEF LoginInv, Rescuing, Covered, CodeOnce
<1> QED BY <1>2, <1>3, <1>4 DEF LoginInv

(* A lock keeps every other request out of what the mutex covers.              *)
LEMMA TakesLock ==
  ASSUME NEW c \in Clients, LoginInv, UNCHANGED <<factor, told, rescue>>,
         mu = Nobody, mu' = c,
         call' \in [Clients -> Calls], \A d \in Clients \ {c} : call'[d] = call[d],
         call'[c].at \in Held \ {"record"},
         call'[c].at = "stepFirst" => call'[c].step # NoStep /\ secret = Off,
         call'[c].at \notin {"secretNext", "clearPending", "clearStep"}
  PROVE  LoginInv'
<1>1. /\ secret' = secret /\ pendingSecret' = pendingSecret /\ lastStep' = lastStep /\ made' = made
      /\ era' = era /\ passed' = passed /\ twice' = twice /\ crossed' = crossed /\ rescue' = rescue
  BY DEF factor, told
<1>2. \A d \in Clients : call[d].at \notin Held
  BY LoginAssumption DEF LoginAssumption, LoginInv, Mutex
<1>3. LoginTyped' /\ Rescuing' /\ Covered' /\ CodeOnce'
  BY <1>1 DEF LoginInv, LoginTyped, Rescuing, Covered, CodeOnce
<1>4. Mutex' /\ Recording' /\ Enabling' /\ NoSecret'
  BY <1>1, <1>2 DEF Mutex, Recording, Enabling, NoSecret, Held, Writing
<1> QED BY <1>3, <1>4 DEF LoginInv

LEMMA Alone == ASSUME LoginInv, NEW c \in Clients, call[c].at \in Held, NEW d \in Clients, d # c
               PROVE  call[d].at \notin Held
BY DEF LoginInv, Mutex

LEMMA VerifyCompareKeeps == ASSUME NEW c \in Clients, LoginInv, VerifyCompare(c) PROVE LoginInv'
<1>1. /\ secret' = secret /\ pendingSecret' = pendingSecret /\ lastStep' = lastStep /\ made' = made
      /\ era' = era /\ passed' = passed /\ twice' = twice /\ crossed' = crossed /\ rescue' = rescue
  BY DEF VerifyCompare, factor, told
<1>2. call \in [Clients -> Calls] /\ call[c].at = "compare"
  BY DEF LoginInv, LoginTyped, VerifyCompare
<1>3. PICK step \in Codes :
        IF secret # Off /\ Matches(step) /\ (lastStep # NoStep => step > lastStep)
        THEN mu' = mu /\ call' = [call EXCEPT ![c].at = "record", ![c].era = era, ![c].step = step]
        ELSE mu' = Nobody /\ Refuse(c)
  BY DEF VerifyCompare
<1>4. CASE ~(secret # Off /\ Matches(step) /\ (lastStep # NoStep => step > lastStep))
  <2>1. mu = c
    BY <1>2 DEF LoginInv, Mutex, Held
  <2>2. Refuse(c) BY <1>3, <1>4
  <2>3. /\ call' \in [Clients -> Calls] /\ \A d \in Clients \ {c} : call'[d] = call[d]
        /\ call'[c].at \notin Held
    BY <1>2, <2>2 DEF Refuse, Ends, Goes, Idle, Calls, Places, Writing, Held, Off, NoStep
  <2>4. UNCHANGED <<secret, lastStep, told, rescue>> /\ pendingSecret' \in Nat /\ made' \in Nat
    BY <1>1 DEF told, LoginInv, LoginTyped
  <2>5. mu' = mu \/ mu = c
    BY <2>1
  <2> QED BY <2>3, <2>4, <2>5, OutsideKeeps
<1>5. CASE secret # Off /\ Matches(step) /\ (lastStep # NoStep => step > lastStep)
  <2>1. mu' = mu /\ call' = [call EXCEPT ![c].at = "record", ![c].era = era, ![c].step = step]
    BY <1>3, <1>5
  <2>2. step \in Nat /\ step # NoStep /\ era \in Nat /\ lastStep \in Nat
    BY <1>5, LoginAssumption DEF Codes, NoStep, Matches, LoginAssumption, LoginInv, LoginTyped
  <2>3. lastStep < step
    BY <1>5, <2>2 DEF NoStep
  <2>4. call' \in [Clients -> Calls]
    <3> DEFINE taken == [call[c] EXCEPT !.at = "record", !.era = era, !.step = step]
    <3>1. call[c] \in Calls /\ "record" \in Places
      BY <1>2 DEF Places
    <3>2. taken \in Calls
      BY <2>2, <3>1 DEF Calls
    <3>3. call' = [call EXCEPT ![c] = taken]
      BY <1>2, <2>1, <3>1 DEF Calls
    <3> HIDE DEF taken
    <3> QED BY <1>2, <3>2, <3>3
  <2>5. \A d \in Clients : d # c => call'[d] = call[d] /\ call[d].at \notin Held
    BY <1>2, <2>1, Alone DEF Held
  <2>6. call'[c].at = "record" /\ call'[c].era = era /\ call'[c].step = step
    BY <1>2, <2>1 DEF Calls
  <2>7. era \notin crossed => <<era, step>> \notin passed
    BY <1>5, <2>2, <2>3 DEF LoginInv, Covered, LoginTyped
  <2>8. LoginTyped' /\ Rescuing' /\ Covered' /\ CodeOnce'
    BY <1>1, <2>4 DEF LoginInv, LoginTyped, Rescuing, Covered, CodeOnce
  <2>9. mu' = c
    BY <1>2, <2>1 DEF LoginInv, Mutex, Held
  <2>10. Mutex' /\ Recording' /\ Enabling' /\ NoSecret'
    BY <1>1, <2>2, <2>3, <2>5, <2>6, <2>7, <2>9 DEF Mutex, Recording, Enabling, NoSecret, Held, Writing
  <2> QED BY <2>8, <2>10 DEF LoginInv
<1> QED BY <1>4, <1>5

(* What every step of a request that holds the lock has in common: the others  *)
(* are outside, and it stays typed.                                            *)
LEMMA LoginSteps ==
  ASSUME LoginInv, NEW c \in Clients, NEW place \in Places, call[c].at \in Held, Goes(c, place) \/ Ends(c)
  PROVE  /\ call' \in [Clients -> Calls] /\ \A d \in Clients \ {c} : call'[d] = call[d]
         /\ call'[c].at \in {place, "idle"}
         /\ Goes(c, place) => call'[c].at = place /\ call'[c].step = call[c].step /\ call'[c].era = call[c].era
         /\ mu = c /\ \A d \in Clients \ {c} : call[d].at \notin Held
<1>1. call \in [Clients -> Calls]
  BY DEF LoginInv, LoginTyped
<1>2. mu = c /\ \A d \in Clients \ {c} : call[d].at \notin Held
  BY Alone DEF LoginInv, Mutex
<1>3. CASE Goes(c, place)
  BY <1>1, <1>2, <1>3 DEF Goes, Calls
<1>4. CASE Ends(c) /\ ~Goes(c, place)
  BY <1>1, <1>2, <1>4 DEF Ends, Calls, Idle, Places, Off, NoStep
<1> QED BY <1>3, <1>4

LEMMA VerifyRecordKeeps == ASSUME NEW c \in Clients, LoginInv, VerifyRecord(c) PROVE LoginInv'
<1> DEFINE place == IF call[c].src = Nobody THEN "disable" ELSE "right"
           step == call[c].step
<1>1. /\ call[c].at = "record" /\ place \in Places /\ Goes(c, place) /\ mu' = Nobody
      /\ lastStep' = step /\ secret' = secret /\ pendingSecret' = pendingSecret /\ made' = made
      /\ era' = era /\ crossed' = crossed /\ rescue' = rescue
  BY DEF VerifyRecord, Places
<1>2. call[c].era = era
  BY <1>1 DEF LoginInv, Recording
<1>3. /\ passed' = passed \cup {<<era, step>>}
      /\ twice' = IF <<era, step>> \in passed THEN twice \cup {<<era, step>>} ELSE twice
  BY <1>2 DEF VerifyRecord
<1>4. call[c].at \in Held
  BY <1>1 DEF Held
<1>5. /\ call' \in [Clients -> Calls] /\ call'[c].at = place
      /\ \A d \in Clients \ {c} : call'[d] = call[d] /\ call[d].at \notin Held
  BY <1>1, <1>4, LoginSteps
<1>6. step \in Nat \ {0} /\ era \in Nat
  BY <1>1 DEF LoginInv, LoginTyped, Calls, Recording, NoStep
<1>7. \A d \in Clients : call'[d].at \notin Held
  BY <1>5 DEF Held, Writing
<1>8. Mutex' /\ Recording' /\ Enabling' /\ NoSecret'
  BY <1>7 DEF Mutex, Recording, Enabling, NoSecret, Held, Writing
<1>9. LoginTyped' /\ Rescuing'
  BY <1>1, <1>3, <1>5, <1>6 DEF LoginInv, LoginTyped, Rescuing
<1>10. Covered'
  BY <1>1, <1>3, <1>6 DEF LoginInv, LoginTyped, Covered, Recording
<1>11. CodeOnce'
  BY <1>1, <1>3, <1>6 DEF LoginInv, CodeOnce, Recording
<1> QED BY <1>8, <1>9, <1>10, <1>11 DEF LoginInv

(* The other steps between a lock and an unlock: they may switch the secret    *)
(* off, and set the last period while no secret is on.                         *)
LEMMA HolderKeeps ==
  ASSUME LoginInv, NEW c \in Clients, call[c].at \in Held,
         call' \in [Clients -> Calls], \A d \in Clients \ {c} : call'[d] = call[d],
         call'[c].at \notin {"record", "compare", "stepFirst"},
         call'[c].at \in Held => mu' = mu,
         call'[c].at = "secretNext" => call[c].at = "stepFirst" /\ call'[c].step = call[c].step /\ secret' = Off,
         call'[c].at \in {"clearPending", "clearStep"} => secret' = Off,
         secret' \in {secret, Off}, lastStep' \in Nat, lastStep' = lastStep \/ secret = Off,
         pendingSecret' \in Nat, made' \in Nat, UNCHANGED <<told, rescue>>
  PROVE  LoginInv'
<1>1. era' = era /\ passed' = passed /\ twice' = twice /\ crossed' = crossed /\ rescue' = rescue
  BY DEF told
<1>2. mu = c /\ \A d \in Clients \ {c} : call[d].at \notin Held
  BY Alone DEF LoginInv, Mutex
<1>3. LoginTyped'
  BY <1>1 DEF LoginInv, LoginTyped, Off
<1>4. Mutex' /\ Recording'
  BY <1>2 DEF Mutex, Recording, Held, Writing
<1>5. Enabling' /\ NoSecret'
  BY <1>2 DEF LoginInv, Enabling, NoSecret, Held, Writing
<1>6. Rescuing' /\ Covered' /\ CodeOnce'
  BY <1>1 DEF LoginInv, Rescuing, Covered, CodeOnce
<1> QED BY <1>3, <1>4, <1>5, <1>6 DEF LoginInv

LEMMA WritingKeeps ==
  ASSUME NEW c \in Clients, LoginInv,
         EnableStep(c) \/ EnablePending(c) \/ DisableSecret(c) \/ DisablePending(c) \/ DisableStep(c)
  PROVE  LoginInv'
<1>0. /\ call \in [Clients -> Calls] /\ secret \in Nat /\ pendingSecret \in Nat /\ lastStep \in Nat /\ made \in Nat
      /\ call[c].step \in Nat /\ Off \in Nat /\ NoStep \in Nat
      /\ call[c].at \in {"stepFirst", "clearPending", "clearStep"} => secret = Off
  BY DEF LoginInv, LoginTyped, NoSecret, Calls, Off, NoStep
<1>1. CASE EnableStep(c)
  <2>1. /\ call' \in [Clients -> Calls] /\ \A d \in Clients \ {c} : call'[d] = call[d]
        /\ call'[c].at = "secretNext" /\ call'[c].step = call[c].step
    BY <1>0, <1>1 DEF EnableStep, Calls, Goes, Places, Writing
  <2>2. /\ secret' \in {secret, Off} /\ lastStep' \in Nat /\ (lastStep' = lastStep \/ secret = Off)
        /\ pendingSecret' \in Nat /\ made' \in Nat /\ UNCHANGED <<told, rescue>>
    BY <1>0, <1>1 DEF EnableStep
  <2>3. mu' = mu /\ secret' = Off
    BY <1>0, <1>1 DEF EnableStep
  <2>4. call[c].at \in Held /\ call[c].at = "stepFirst"
    BY <1>1 DEF EnableStep, Held, Writing
  <2> QED BY <2>1, <2>2, <2>3, <2>4, HolderKeeps DEF Held, Writing
<1>2. CASE EnablePending(c)
  <2>1. /\ call' \in [Clients -> Calls] /\ \A d \in Clients \ {c} : call'[d] = call[d]
        /\ call'[c].at = "idle"
    BY <1>0, <1>2 DEF EnablePending, Calls, Ends, Idle, Places
  <2>2. /\ secret' \in {secret, Off} /\ lastStep' \in Nat /\ (lastStep' = lastStep \/ secret = Off)
        /\ pendingSecret' \in Nat /\ made' \in Nat /\ UNCHANGED <<told, rescue>>
    BY <1>0, <1>2 DEF EnablePending
  <2>3. call[c].at \in Held
    BY <1>2 DEF EnablePending, Held, Writing
  <2> QED BY <2>1, <2>2, <2>3, HolderKeeps DEF Held, Writing
<1>3. CASE DisableSecret(c)
  <2>1. /\ call' \in [Clients -> Calls] /\ \A d \in Clients \ {c} : call'[d] = call[d]
        /\ call'[c].at = "clearPending" /\ call'[c].step = call[c].step
    BY <1>0, <1>3 DEF DisableSecret, Calls, Goes, Places, Writing
  <2>2. /\ secret' \in {secret, Off} /\ lastStep' \in Nat /\ (lastStep' = lastStep \/ secret = Off)
        /\ pendingSecret' \in Nat /\ made' \in Nat /\ UNCHANGED <<told, rescue>>
    BY <1>0, <1>3 DEF DisableSecret
  <2>3. mu' = mu /\ secret' = Off
    BY <1>0, <1>3 DEF DisableSecret
  <2>4. call[c].at \in Held
    BY <1>3 DEF DisableSecret, Held, Writing
  <2> QED BY <2>1, <2>2, <2>3, <2>4, HolderKeeps DEF Held, Writing
<1>4. CASE DisablePending(c)
  <2>1. /\ call' \in [Clients -> Calls] /\ \A d \in Clients \ {c} : call'[d] = call[d]
        /\ call'[c].at = "clearStep" /\ call'[c].step = call[c].step
    BY <1>0, <1>4 DEF DisablePending, Calls, Goes, Places, Writing
  <2>2. /\ secret' \in {secret, Off} /\ lastStep' \in Nat /\ (lastStep' = lastStep \/ secret = Off)
        /\ pendingSecret' \in Nat /\ made' \in Nat /\ UNCHANGED <<told, rescue>>
    BY <1>0, <1>4 DEF DisablePending
  <2>3. mu' = mu /\ secret' = Off
    BY <1>0, <1>4 DEF DisablePending
  <2>4. call[c].at \in Held
    BY <1>4 DEF DisablePending, Held, Writing
  <2> QED BY <2>1, <2>2, <2>3, <2>4, HolderKeeps DEF Held, Writing
<1>5. CASE DisableStep(c)
  <2>1. /\ call' \in [Clients -> Calls] /\ \A d \in Clients \ {c} : call'[d] = call[d]
        /\ call'[c].at = "idle"
    BY <1>0, <1>5 DEF DisableStep, Calls, Ends, Idle, Places
  <2>2. /\ secret' \in {secret, Off} /\ lastStep' \in Nat /\ (lastStep' = lastStep \/ secret = Off)
        /\ pendingSecret' \in Nat /\ made' \in Nat /\ UNCHANGED <<told, rescue>>
    BY <1>0, <1>5 DEF DisableStep
  <2>3. call[c].at \in Held
    BY <1>5 DEF DisableStep, Held, Writing
  <2> QED BY <2>1, <2>2, <2>3, HolderKeeps DEF Held, Writing
<1> QED BY <1>1, <1>2, <1>3, <1>4, <1>5

LEMMA EnableSecretKeeps == ASSUME NEW c \in Clients, LoginInv, EnableSecret(c) PROVE LoginInv'
<1> DEFINE step == call[c].step
<1>1. /\ call[c].at = "secretNext" /\ Goes(c, "pendingLast") /\ mu' = mu
      /\ lastStep' = lastStep /\ pendingSecret' = pendingSecret /\ made' = made /\ rescue' = rescue
      /\ era' = era + 1 /\ passed' = passed \cup {<<era + 1, step>>} /\ twice' = twice
      /\ crossed' = IF rescue # 0 \/ lastStep # step THEN crossed \cup {era + 1} ELSE crossed
      /\ secret' = call[c].sec
  BY DEF EnableSecret
<1>2. call[c].at \in Held /\ "pendingLast" \in Places
  BY <1>1 DEF Held, Places, Writing
<1>3. /\ call' \in [Clients -> Calls] /\ call'[c].at = "pendingLast" /\ mu = c
      /\ \A d \in Clients \ {c} : call'[d] = call[d] /\ call[d].at \notin Held
  BY <1>1, <1>2, LoginSteps
<1>4. step \in Nat \ {0} /\ era \in Nat /\ call[c].sec \in Nat
  BY <1>1 DEF LoginInv, LoginTyped, Calls, Enabling, NoStep
<1>5. Mutex' /\ Recording' /\ Enabling' /\ NoSecret'
  BY <1>1, <1>3 DEF Mutex, Recording, Enabling, NoSecret, Held, Writing
<1>6. LoginTyped'
  BY <1>1, <1>3, <1>4 DEF LoginInv, LoginTyped
<1>7. Rescuing' /\ CodeOnce'
  BY <1>1 DEF LoginInv, Rescuing, CodeOnce
<1>8. Covered'
  <2>1. \A code \in passed : code[1] <= era /\ code[1] \in Nat
    BY DEF LoginInv, LoginTyped, Covered
  <2>2. \A code \in passed' : code[1] <= era'
    BY <1>1, <1>4, <2>1
  <2>3. ASSUME era' \notin crossed', NEW code \in passed', code[1] = era'
        PROVE  code[2] <= lastStep'
    <3>1. code = <<era + 1, step>>
      BY <1>1, <1>4, <2>1, <2>3
    <3>2. lastStep = step
      BY <1>1, <2>3
    <3> QED BY <1>1, <1>4, <3>1, <3>2
  <2> QED BY <2>2, <2>3 DEF Covered
<1> QED BY <1>5, <1>6, <1>7, <1>8 DEF LoginInv

LEMMA RescueKeeps == ASSUME LoginInv, Rescue PROVE LoginInv'
<1>1. /\ era' = era /\ passed' = passed /\ twice' = twice /\ crossed' = crossed
      /\ call' = call /\ mu' = mu
  BY DEF Rescue, told
<1>2. /\ secret' = secret \/ secret' = Off
      /\ lastStep' = lastStep \/ (rescue = 1 /\ lastStep' = NoStep /\ secret' = secret)
      /\ pendingSecret' \in Nat /\ made' = made /\ rescue' \in 0..3
      /\ rescue' \in {1, 2} => secret' = Off \/ (rescue = 2 /\ secret' = secret)
  BY DEF Rescue, factor, LoginInv, LoginTyped, Off
<1>3. LoginTyped' /\ Mutex' /\ Enabling' /\ NoSecret'
  BY <1>1, <1>2 DEF LoginInv, LoginTyped, Mutex, Enabling, NoSecret, Off, NoStep
<1>4. Rescuing' /\ CodeOnce'
  BY <1>1, <1>2 DEF LoginInv, Rescuing, CodeOnce
<1>5. Recording'
  BY <1>1, <1>2 DEF LoginInv, LoginTyped, Recording, Rescuing, Calls, NoStep
<1>6. Covered'
  BY <1>1, <1>2 DEF LoginInv, Covered, Rescuing
<1> QED BY <1>3, <1>4, <1>5, <1>6 DEF LoginInv

LEMMA RequestKeeps == ASSUME NEW c \in Clients, LoginInv, Request(c) PROVE LoginInv'
<1>0. call \in [Clients -> Calls] /\ pendingSecret \in Nat /\ made \in Nat /\ secret \in Nat
  BY DEF LoginInv, LoginTyped
<1>a. mu = c \/ call[c].at \notin Held
  BY DEF LoginInv, Mutex
<1>1. CASE \E s \in Sources : Arrive(c, s)
  <2>1. UNCHANGED <<secret, lastStep, told, rescue>> /\ pendingSecret' \in Nat /\ made' \in Nat /\ mu' = mu
    BY <1>0, <1>1 DEF Arrive, factor
  <2>2. PICK s \in Sources : call' = [call EXCEPT ![c].src = s, ![c].at = IF secret = Off THEN "passwordOnly" ELSE "passwordThenCode"]
    BY <1>1 DEF Arrive
  <2>3. /\ call' \in [Clients -> Calls] /\ \A d \in Clients \ {c} : call'[d] = call[d]
        /\ call'[c].at \notin Held
    <3> DEFINE place == IF secret = Off THEN "passwordOnly" ELSE "passwordThenCode"
               comer == [call[c] EXCEPT !.src = s, !.at = place]
    <3>1. call[c] \in Calls /\ place \in Places /\ place \notin Held
      BY <1>0 DEF Places, Held, Writing
    <3> HIDE DEF place
    <3>2. comer \in Calls /\ comer.at = place
      BY <3>1 DEF Calls
    <3>3. call' = [call EXCEPT ![c] = comer]
      BY <1>0, <2>2, <3>1 DEF Calls, place
    <3> HIDE DEF comer
    <3> QED BY <1>0, <3>1, <3>2, <3>3
  <2> QED BY <2>1, <2>3, OutsideKeeps
<1>2. CASE CheckUser(c)
  <2>1. /\ UNCHANGED <<secret, lastStep, told, rescue>> /\ pendingSecret' \in Nat /\ made' \in Nat
        /\ mu' = mu \/ mu = c
    BY <1>0, <1>a, <1>2 DEF CheckUser, factor, Held, Writing
  <2>2. /\ call' \in [Clients -> Calls] /\ \A d \in Clients \ {c} : call'[d] = call[d]
        /\ call'[c].at \notin Held
    BY <1>0, <1>2 DEF CheckUser, Goes, Calls, Places, Held, Writing, Off, NoStep
  <2> QED BY <2>1, <2>2, OutsideKeeps
<1>3. CASE CountFailure(c)
  <2>1. /\ UNCHANGED <<secret, lastStep, told, rescue>> /\ pendingSecret' \in Nat /\ made' \in Nat
        /\ mu' = mu \/ mu = c
    BY <1>0, <1>a, <1>3 DEF CountFailure, factor, Held, Writing
  <2>2. /\ call' \in [Clients -> Calls] /\ \A d \in Clients \ {c} : call'[d] = call[d]
        /\ call'[c].at \notin Held
    BY <1>0, <1>3 DEF CountFailure, Ends, Idle, Calls, Places, Held, Writing, Off, NoStep
  <2> QED BY <2>1, <2>2, OutsideKeeps
<1>4. CASE SignIn(c)
  <2>1. /\ UNCHANGED <<secret, lastStep, told, rescue>> /\ pendingSecret' \in Nat /\ made' \in Nat
        /\ mu' = mu \/ mu = c
    BY <1>0, <1>a, <1>4 DEF SignIn, factor, Held, Writing
  <2>2. /\ call' \in [Clients -> Calls] /\ \A d \in Clients \ {c} : call'[d] = call[d]
        /\ call'[c].at \notin Held
    BY <1>0, <1>4 DEF SignIn, Ends, Idle, Calls, Places, Held, Writing, Off, NoStep
  <2> QED BY <2>1, <2>2, OutsideKeeps
<1>5. CASE AskToDisable(c)
  <2>1. /\ UNCHANGED <<secret, lastStep, told, rescue>> /\ pendingSecret' \in Nat /\ made' \in Nat
        /\ mu' = mu \/ mu = c
    BY <1>0, <1>a, <1>5 DEF AskToDisable, factor, Held, Writing
  <2>2. /\ call' \in [Clients -> Calls] /\ \A d \in Clients \ {c} : call'[d] = call[d]
        /\ call'[c].at \notin Held
    BY <1>0, <1>5 DEF AskToDisable, Goes, Calls, Places, Held, Writing, Off, NoStep
  <2> QED BY <2>1, <2>2, OutsideKeeps
<1>6. CASE VerifyRecordFails(c)
  <2>1. /\ UNCHANGED <<secret, lastStep, told, rescue>> /\ pendingSecret' \in Nat /\ made' \in Nat
        /\ mu' = mu \/ mu = c
    BY <1>0, <1>a, <1>6 DEF VerifyRecordFails, factor, Held, Writing
  <2>2. /\ call' \in [Clients -> Calls] /\ \A d \in Clients \ {c} : call'[d] = call[d]
        /\ call'[c].at \notin Held
    BY <1>0, <1>6 DEF VerifyRecordFails, Refuse, Goes, Ends, Idle, Calls, Places, Held, Writing, Off, NoStep
  <2> QED BY <2>1, <2>2, OutsideKeeps
<1>7. CASE Begin(c)
  <2>1. /\ UNCHANGED <<secret, lastStep, told, rescue>> /\ pendingSecret' \in Nat /\ made' \in Nat
        /\ mu' = mu \/ mu = c
    BY <1>0, <1>a, <1>7 DEF Begin, factor, Held, Writing
  <2>2. /\ call' \in [Clients -> Calls] /\ \A d \in Clients \ {c} : call'[d] = call[d]
        /\ call'[c].at \notin Held
    BY <1>0, <1>7 DEF Begin, Goes, Calls, Places, Held, Writing, Off, NoStep
  <2> QED BY <2>1, <2>2, OutsideKeeps
<1>8. CASE SavePending(c)
  <2>1. /\ UNCHANGED <<secret, lastStep, told, rescue>> /\ pendingSecret' \in Nat /\ made' \in Nat
        /\ mu' = mu \/ mu = c
    BY <1>0, <1>a, <1>8 DEF SavePending, Held, Writing
  <2>2. /\ call' \in [Clients -> Calls] /\ \A d \in Clients \ {c} : call'[d] = call[d]
        /\ call'[c].at \notin Held
    BY <1>0, <1>8 DEF SavePending, Ends, Idle, Calls, Places, Held, Writing, Off, NoStep
  <2> QED BY <2>1, <2>2, OutsideKeeps
<1>9. CASE WriteFails(c)
  <2>1. /\ UNCHANGED <<secret, lastStep, told, rescue>> /\ pendingSecret' \in Nat /\ made' \in Nat
        /\ mu' = mu \/ mu = c
    BY <1>0, <1>a, <1>9 DEF WriteFails, factor, Held, Writing
  <2>2. /\ call' \in [Clients -> Calls] /\ \A d \in Clients \ {c} : call'[d] = call[d]
        /\ call'[c].at \notin Held
    BY <1>0, <1>9 DEF WriteFails, Ends, Idle, Calls, Places, Held, Writing, Off, NoStep
  <2> QED BY <2>1, <2>2, OutsideKeeps
<1>10. CASE VerifyLock(c)
  <2>1. mu = Nobody /\ mu' = c /\ UNCHANGED <<factor, told, rescue>> /\ Goes(c, "compare")
    BY <1>10 DEF VerifyLock, LockFactor
  <2>2. /\ call' \in [Clients -> Calls] /\ \A d \in Clients \ {c} : call'[d] = call[d]
        /\ call'[c].at = "compare"
    BY <1>0, <2>1 DEF Goes, Calls, Places, Writing
  <2> QED BY <2>1, <2>2, TakesLock DEF Held, Writing
<1>11. CASE DisableLock(c)
  <2>1. mu = Nobody /\ mu' = c /\ UNCHANGED <<factor, told, rescue>> /\ Goes(c, "clearSecret")
    BY <1>11 DEF DisableLock, LockFactor
  <2>2. /\ call' \in [Clients -> Calls] /\ \A d \in Clients \ {c} : call'[d] = call[d]
        /\ call'[c].at = "clearSecret"
    BY <1>0, <2>1 DEF Goes, Calls, Places, Writing
  <2> QED BY <2>1, <2>2, TakesLock DEF Held, Writing
<1>12. CASE EnableMatch(c)
  <2>1. mu = Nobody /\ mu' = c /\ secret = Off /\ UNCHANGED <<factor, told, rescue>>
    BY <1>12 DEF EnableMatch
  <2>2. PICK step \in Codes \ {NoStep} : call' = [call EXCEPT ![c].at = "stepFirst", ![c].sec = pendingSecret, ![c].step = step]
    BY <1>12 DEF EnableMatch
  <2>3. step \in Nat
    BY LoginAssumption DEF Codes, NoStep, LoginAssumption
  <2>4. /\ call' \in [Clients -> Calls] /\ \A d \in Clients \ {c} : call'[d] = call[d]
        /\ call'[c].at = "stepFirst" /\ call'[c].step # NoStep
    <3> DEFINE taken == [call[c] EXCEPT !.at = "stepFirst", !.sec = pendingSecret, !.step = step]
    <3>1. call[c] \in Calls /\ "stepFirst" \in Places
      BY <1>0 DEF Places, Writing
    <3>2. taken \in Calls /\ taken.at = "stepFirst" /\ taken.step = step
      BY <1>0, <2>3, <3>1 DEF Calls
    <3>3. call' = [call EXCEPT ![c] = taken]
      BY <1>0, <2>2, <3>1 DEF Calls
    <3> HIDE DEF taken
    <3> QED BY <1>0, <3>2, <3>3
  <2> QED BY <2>1, <2>4, TakesLock DEF Held, Writing
<1> QED
  BY <1>1, <1>2, <1>3, <1>4, <1>5, <1>6, <1>7, <1>8, <1>9, <1>10, <1>11, <1>12, VerifyCompareKeeps, VerifyRecordKeeps, WritingKeeps, EnableSecretKeeps DEF Request

LEMMA NextKeeps == LoginInv /\ [LoginNext]_loginVars => LoginInv'
<1> SUFFICES ASSUME LoginInv, [LoginNext]_loginVars PROVE LoginInv'
  OBVIOUS
<1>0. pendingSecret \in Nat /\ made \in Nat
  BY DEF LoginInv, LoginTyped
<1>1. CASE Tick \/ UNCHANGED loginVars
  <2>1. /\ secret' = secret /\ pendingSecret' = pendingSecret /\ lastStep' = lastStep /\ made' = made
        /\ era' = era /\ passed' = passed /\ twice' = twice /\ crossed' = crossed /\ rescue' = rescue
        /\ call' = call /\ mu' = mu
    BY <1>1 DEF Tick, loginVars, factor, told
  <2> QED BY <2>1 DEF LoginInv, LoginTyped, Mutex, Recording, Enabling, NoSecret, Rescuing, Covered, CodeOnce
<1>2. CASE Rescue
  BY <1>2, RescueKeeps
<1>3. CASE \E c \in Clients : Request(c)
  BY <1>3, RequestKeeps
<1> QED BY <1>1, <1>2, <1>3 DEF LoginNext

(* One code opens the panel once, whatever the number of requests, sources and *)
(* periods, unless a rescue crossed the switching on it belongs to.            *)
THEOREM CodePassesOnce == LoginSpec => []CodeOnce
<1>1. LoginSpec => []LoginInv
  BY InitLoginInv, NextKeeps, PTL DEF LoginSpec
<1>2. LoginInv => CodeOnce
  BY DEF LoginInv
<1> QED BY <1>1, <1>2, PTL

-----------------------------------------------------------------------------
Entries == [failures : Nat, windowStart : Nat, lockedUntil : Nat]

(* No lock ends later than one that would begin now.                           *)
Locks ==
  /\ clock \in Nat
  /\ \A s \in DOMAIN attempts : attempts[s] \in Entries /\ attempts[s].lockedUntil <= clock + LockTime

LEMMA CountedLocks ==
  ASSUME clock \in Nat, NEW e \in Entries, e.lockedUntil <= clock + LockTime
  PROVE  /\ Counted(e) \in Entries
         /\ Counted(e).lockedUntil <= clock + LockTime
         /\ Counted(e).lockedUntil >= e.lockedUntil
<1> DEFINE fresh == clock - e.windowStart > Window
           n == (IF fresh THEN 0 ELSE e.failures) + 1
           locked == [failures |-> 0, windowStart |-> clock, lockedUntil |-> clock + LockTime]
           open == [e EXCEPT !.failures = n, !.windowStart = IF fresh THEN clock ELSE @]
<1>1. n \in Nat /\ clock + LockTime \in Nat
  BY LoginAssumption DEF LoginAssumption, Entries
<1>2. /\ locked \in Entries /\ locked.lockedUntil = clock + LockTime
      /\ open \in Entries /\ open.lockedUntil = e.lockedUntil
  BY <1>1 DEF Entries
<1>3. Counted(e) = IF n >= MaxFailures THEN locked ELSE open
  BY DEF Counted
<1>4. e.lockedUntil \in Nat
  BY DEF Entries
<1> HIDE DEF n, locked, open
<1> QED BY <1>1, <1>2, <1>3, <1>4

(* What counting a failure does to the table: an entry that is locked stays    *)
(* and its lock is no shorter.                                                 *)
LEMMA FailLocks ==
  ASSUME Locks, NEW s, Fail(s)
  PROVE  /\ \A x \in DOMAIN attempts' : attempts'[x] \in Entries /\ attempts'[x].lockedUntil <= clock + LockTime
         /\ \A x : Blocked(x) => x \in DOMAIN attempts' /\ attempts'[x].lockedUntil >= attempts[x].lockedUntil
<1> DEFINE table == Room(s)
           entry == IF s \in DOMAIN table THEN table[s] ELSE [NoEntry EXCEPT !.windowStart = clock]
<1>1. /\ DOMAIN table \subseteq DOMAIN attempts
      /\ \A x \in DOMAIN table : table[x] = attempts[x]
      /\ \A x : Blocked(x) => x \in DOMAIN table
  <2>1. CASE table = attempts
    BY <2>1 DEF Blocked
  <2>2. CASE table = Evict(attempts)
    BY <2>2 DEF Evict, Blocked, Locks, Entries
  <2> QED BY <2>1, <2>2 DEF Room
<1>2. attempts' = IF s \notin DOMAIN table /\ Full(table) THEN table
                  ELSE [x \in DOMAIN table \cup {s} |-> IF x = s THEN Counted(entry) ELSE table[x]]
  BY DEF Fail
<1>3. /\ \A x \in DOMAIN table : table[x] \in Entries /\ table[x].lockedUntil <= clock + LockTime
      /\ \A x : Blocked(x) => attempts[x] \in Entries
  BY <1>1 DEF Locks, Blocked
<1>4. entry \in Entries /\ entry.lockedUntil <= clock + LockTime
  <2>1. [NoEntry EXCEPT !.windowStart = clock] = [failures |-> 0, windowStart |-> clock, lockedUntil |-> 0]
    BY DEF NoEntry
  <2> QED BY <1>3, <2>1, LoginAssumption DEF LoginAssumption, Locks, Entries
<1> HIDE DEF table, entry
<1>5. /\ Counted(entry) \in Entries /\ Counted(entry).lockedUntil <= clock + LockTime
      /\ Counted(entry).lockedUntil >= entry.lockedUntil
  BY <1>4, CountedLocks DEF Locks
<1>6. s \in DOMAIN table => entry = attempts[s]
  BY <1>1 DEF entry
<1>7. \A x \in DOMAIN attempts' : attempts'[x] \in Entries /\ attempts'[x].lockedUntil <= clock + LockTime
  BY <1>2, <1>3, <1>5
<1>8. ASSUME NEW x, Blocked(x)
      PROVE  x \in DOMAIN attempts' /\ attempts'[x].lockedUntil >= attempts[x].lockedUntil
  <2>1. x \in DOMAIN table /\ attempts[x].lockedUntil \in Nat /\ table[x] = attempts[x]
    BY <1>1, <1>3, <1>8 DEF Entries
  <2>2. attempts'[x] = IF x = s THEN Counted(entry) ELSE table[x]
    BY <1>2, <2>1
  <2>3. x \in DOMAIN attempts'
    BY <1>2, <2>1
  <2> QED BY <1>5, <1>6, <2>1, <2>2, <2>3
<1> QED BY <1>7, <1>8

LEMMA InitLocks == LoginInit => Locks
BY DEF LoginInit, Locks

(* A step either leaves the table alone, counts a failure, or forgets the      *)
(* source of a request that was let in.                                        *)
LEMMA TableSteps ==
  ASSUME LoginInv, [LoginNext]_loginVars
  PROVE  \/ attempts' = attempts /\ clock' \in {clock, clock + 1}
         \/ clock' = clock /\ \E s : Fail(s)
         \/ clock' = clock /\ \E c \in Clients : Reset(call[c].src) /\ SignedIn(call[c].src)
<1>1. ASSUME NEW c \in Clients, SignIn(c) PROVE clock' = clock /\ Reset(call[c].src) /\ SignedIn(call[c].src)
  BY <1>1 DEF SignIn, SignedIn, Ends, LoginInv, LoginTyped
<1>2. ASSUME NEW c \in Clients, CountFailure(c) PROVE clock' = clock /\ Fail(call[c].src)
  BY <1>2 DEF CountFailure
<1>3. ASSUME NEW c \in Clients, Request(c), ~SignIn(c), ~CountFailure(c) PROVE attempts' = attempts /\ clock' = clock
  BY <1>3 DEF Request, limiter, Arrive, CheckUser, AskToDisable, VerifyLock, VerifyCompare, VerifyRecord,
       VerifyRecordFails, Begin, SavePending, EnableMatch, EnableStep, EnableSecret, EnablePending, DisableLock,
       DisableSecret, DisablePending, DisableStep, WriteFails
<1>4. Tick \/ Rescue \/ UNCHANGED loginVars => attempts' = attempts /\ clock' \in {clock, clock + 1}
  BY DEF Tick, Rescue, loginVars, limiter
<1> QED BY <1>1, <1>2, <1>3, <1>4 DEF LoginNext

LEMMA NextLocks == LoginInv /\ Locks /\ [LoginNext]_loginVars => Locks'
<1> SUFFICES ASSUME LoginInv, Locks, [LoginNext]_loginVars PROVE Locks'
  OBVIOUS
<1>1. CASE attempts' = attempts /\ clock' \in {clock, clock + 1}
  BY <1>1, LoginAssumption DEF LoginAssumption, Locks, Entries
<1>2. CASE clock' = clock /\ \E s : Fail(s)
  BY <1>2, FailLocks DEF Locks
<1>3. CASE clock' = clock /\ \E c \in Clients : Reset(call[c].src)
  BY <1>3 DEF Reset, Locks
<1> QED BY <1>1, <1>2, <1>3, TableSteps

LEMMA StepHolds ==
  ASSUME LoginInv, Locks, [LoginNext]_loginVars, NEW s \in Sources, Blocked(s), ~SignedIn(s)
  PROVE  s \in DOMAIN attempts' /\ attempts'[s].lockedUntil >= attempts[s].lockedUntil
<1>0. s \in DOMAIN attempts /\ attempts[s].lockedUntil \in Nat
  BY DEF Blocked, Locks, Entries
<1>1. CASE attempts' = attempts
  BY <1>0, <1>1
<1>2. CASE \E x : Fail(x)
  BY <1>2, FailLocks
<1>3. CASE \E c \in Clients : Reset(call[c].src) /\ SignedIn(call[c].src)
  BY <1>0, <1>3 DEF Reset
<1> QED BY <1>1, <1>2, <1>3, TableSteps

(* A source that is locked out stays locked out for as long as it was told,    *)
(* whatever other sources and full tables do, unless a request of its own that *)
(* was let in before signs in.                                                 *)
THEOREM LocksHold == LoginSpec => LockHolds
<1>1. LoginSpec => [](LoginInv /\ Locks)
  <2>1. LoginInit => LoginInv /\ Locks
    BY InitLoginInv, InitLocks
  <2>2. LoginInv /\ Locks /\ [LoginNext]_loginVars => (LoginInv /\ Locks)'
    BY NextKeeps, NextLocks
  <2> QED BY <2>1, <2>2, PTL DEF LoginSpec
<1>2. LoginInv /\ Locks /\ [LoginNext]_loginVars =>
        [\A s \in Sources : Blocked(s) /\ ~SignedIn(s) =>
           s \in DOMAIN attempts' /\ attempts'[s].lockedUntil >= attempts[s].lockedUntil]_limiter
  BY StepHolds
<1> QED BY <1>1, <1>2, PTL DEF LoginSpec, LockHolds

-----------------------------------------------------------------------------
(***************************************************************************)
(* The bans.  For any callers, limits, terms and bounds, what is left to   *)
(* do of a round and of an administrator's order covers every caller whose *)
(* ban is in force and who is still connected, unless something has failed *)
(* since they began.                                                       *)
(***************************************************************************)
Kinds ==
  /\ inb \in [there : BOOLEAN, limit : Quotas, born : Nat] /\ faultsLeft \in Nat /\ cleaned \in BOOLEAN
  /\ DOMAIN ban \subseteq Callers
  /\ \A c \in DOMAIN ban : ban[c] \in [left : Int \cup {Forever}, meant : Nat, stray : BOOLEAN]
  /\ survivors \subseteq linked \cap Callers /\ unguarded \subseteq linked
  /\ linked # {} => inb.there

(* Bans outlive their inbound only if they were written on its way out. *)
Meant == \A c \in DOMAIN ban : ban[c].stray \/ (~cleaned /\ inb.there /\ ban[c].meant = inb.born)

(* An order writes its ban and then kicks: whoever was connected at the ban is *)
(* still to be kicked.                                                          *)
OrderCovers ==
  /\ order.clean
  /\ order.todo \in {<<>>, <<"kick">>, <<"ban", "kick">>}
  /\ order.todo # <<>> =>
       /\ DOMAIN order = {"todo", "caller", "term", "born", "faults", "clean"}
       /\ order.caller \in Callers /\ order.term \in Nat \cup {Forever} /\ order.born \in Nat
       /\ order.faults \in Nat /\ faultsLeft <= order.faults /\ unguarded \subseteq {order.caller}
  /\ order.todo = <<"ban", "kick">> => order.term # 0

(* A round: the survivors are seen by its sample, and then to be kicked. *)
RoundCovers ==
  /\ round.clean /\ round.pc \in {"idle", "judge", "kick"}
  /\ round.pc # "idle" =>
       /\ DOMAIN round = {"pc", "ago", "limit", "out", "todo", "faults", "clean"}
       /\ round.ago \in 0..MaxRound /\ round.faults \in Nat /\ faultsLeft <= round.faults
  /\ round.pc = "judge" /\ round.faults = faultsLeft =>
       /\ survivors \subseteq DOMAIN online.quiet
       /\ \A c \in survivors : InForce(c, round.ago)
  /\ round.pc = "kick" /\ round.faults = faultsLeft => survivors \subseteq round.out

BanInv == Kinds /\ Meant /\ OrderCovers /\ RoundCovers

-----------------------------------------------------------------------------
LEMMA Todos ==
  /\ <<"kick">> # <<>> /\ <<"ban", "kick">> # <<>> /\ <<"ban", "kick">> # <<"kick">>
  /\ Head(<<"kick">>) = "kick" /\ Len(<<"kick">>) = 1
  /\ Head(<<"ban", "kick">>) = "ban" /\ Len(<<"ban", "kick">>) = 2
  /\ Tail(<<"ban", "kick">>) = <<"kick">>
OBVIOUS

LEMMA InitBanInv == ConcInit => BanInv
<1> SUFFICES ASSUME ConcInit PROVE BanInv
  OBVIOUS
<1>1. DOMAIN ban = {}
  BY DEF ConcInit
<1>2. faultsLeft \in Nat
  BY ConcurrencyAssumption DEF ConcurrencyAssumption, ConcInit
<1>3. inb \in [there : BOOLEAN, limit : Quotas, born : Nat]
  <2>1. inb \in [there : {TRUE}, limit : Quotas, born : {1}]
    BY DEF ConcInit
  <2>2. {TRUE} \subseteq BOOLEAN /\ {1} \subseteq Nat
    OBVIOUS
  <2> QED BY <2>1, <2>2
<1>4. linked = {} /\ survivors = {} /\ unguarded = {} /\ cleaned = FALSE
  BY DEF ConcInit
<1>5. Kinds /\ Meant
  <2>1. cleaned \in BOOLEAN
    BY <1>4
  <2>2. \A c \in DOMAIN ban : FALSE
    BY <1>1
  <2> QED BY <1>1, <1>2, <1>3, <1>4, <2>1, <2>2 DEF Kinds, Meant
<1>6. OrderCovers /\ RoundCovers
  BY DEF ConcInit, OrderCovers, RoundCovers, NoOrder, NoRound
<1> QED BY <1>5, <1>6 DEF BanInv

-----------------------------------------------------------------------------
(* Callers come and go, and time passes. *)
LEMMA CutKeeps ==
  ASSUME BanInv, NEW callers, Cut(callers)
  PROVE  /\ linked' \subseteq linked /\ unguarded' \subseteq unguarded /\ survivors' \subseteq survivors
         /\ unguarded' \subseteq linked' /\ survivors' \subseteq linked' \cap Callers
         /\ unguarded' \cap callers = {} /\ survivors' \cap callers = {}
BY DEF BanInv, Kinds, Cut

LEMMA CallersKeep ==
  ASSUME BanInv, NEW c \in Callers, Dial(c) \/ HangUp(c)
  PROVE  BanInv'
<1>1. UNCHANGED <<inb, ban, online, round, order, cleaned, faultsLeft>>
  BY DEF Dial, HangUp
<1>2. /\ unguarded' \subseteq unguarded /\ survivors' \subseteq survivors
      /\ unguarded' \subseteq linked' /\ survivors' \subseteq linked' \cap Callers
      /\ linked' # {} => inb.there
  BY CutKeeps DEF Dial, HangUp, banTold, BanInv, Kinds
<1>3. Kinds' /\ Meant'
  BY <1>1, <1>2 DEF BanInv, Kinds, Meant
<1>4. OrderCovers' /\ RoundCovers'
  BY <1>1, <1>2 DEF BanInv, OrderCovers, RoundCovers, InForce
<1> QED BY <1>3, <1>4 DEF BanInv

(* A ban that is in force at the beginning of a round stays so for the round. *)
LEMMA GrowOlderKeeps ==
  ASSUME BanInv, GrowOlder
  PROVE  BanInv'
<1> USE ConcurrencyAssumption DEF ConcurrencyAssumption
<1>1. /\ UNCHANGED <<inb, linked, order, cleaned, unguarded, survivors, faultsLeft>>
      /\ DOMAIN online'.quiet = DOMAIN online.quiet
      /\ DOMAIN ban' = DOMAIN ban
      /\ round.pc # "idle" => round.ago < MaxRound /\ round' = [round EXCEPT !.ago = @ + 1]
      /\ round.pc = "idle" => round' = round
  BY DEF GrowOlder, trackTold, banTold
<1>2. ASSUME NEW c \in DOMAIN ban
      PROVE  /\ ban'[c] \in [left : Int \cup {Forever}, meant : Nat, stray : BOOLEAN]
             /\ ban'[c].meant = ban[c].meant /\ ban'[c].stray = ban[c].stray
             /\ \/ ban'[c].left = ban[c].left /\ ban[c].left \in {Forever, -MaxRound}
                \/ ban[c].left \in Int /\ ban'[c].left = ban[c].left - 1
  <2>1. ban[c] \in [left : Int \cup {Forever}, meant : Nat, stray : BOOLEAN] /\ MaxRound \in Nat
    BY DEF BanInv, Kinds
  <2>2. ban'[c] = IF ban[c].left = Forever \/ ban[c].left = -MaxRound THEN ban[c]
                  ELSE [ban[c] EXCEPT !.left = @ - 1]
    BY DEF GrowOlder
  <2> QED BY <2>1, <2>2
<1>3. Kinds' /\ Meant'
  BY <1>1, <1>2 DEF BanInv, Kinds, Meant
<1>4. OrderCovers'
  BY <1>1 DEF BanInv, OrderCovers
<1>5. round.pc # "idle" =>
        /\ DOMAIN round' = DOMAIN round /\ round'.ago = round.ago + 1
        /\ \A f \in DOMAIN round \ {"ago"} : round'[f] = round[f]
  BY <1>1 DEF BanInv, RoundCovers
<1>6. ASSUME round.pc = "judge", NEW c \in survivors, InForce(c, round.ago)
      PROVE  InForce(c, round.ago)'
  <2>1. c \in DOMAIN ban /\ (ban[c].left # Forever => ban[c].left + round.ago > 0)
    BY <1>6 DEF InForce
  <2>2. round.ago \in 0..MaxRound /\ round'.ago = round.ago + 1 /\ MaxRound \in Nat
    BY <1>5, <1>6 DEF BanInv, RoundCovers
  <2>3. round.ago < MaxRound
    BY <1>1, <1>6
  <2>4. CASE ban'[c].left = ban[c].left /\ ban[c].left \in {Forever, -MaxRound}
    BY <1>1, <2>1, <2>2, <2>3, <2>4 DEF InForce
  <2>5. CASE ban[c].left \in Int /\ ban'[c].left = ban[c].left - 1
    BY <1>1, <2>1, <2>2, <2>5 DEF InForce
  <2> QED BY <1>2, <2>1, <2>4, <2>5
<1>7. RoundCovers'
  <2>1. CASE round.pc = "idle"
    BY <1>1, <2>1 DEF BanInv, RoundCovers
  <2>2. CASE round.pc # "idle"
    <3>1. /\ round'.pc = round.pc /\ round'.clean = round.clean /\ round'.faults = round.faults
          /\ round'.out = round.out /\ DOMAIN round' = DOMAIN round
      BY <1>5, <2>2 DEF BanInv, RoundCovers
    <3>2. round'.ago \in 0..MaxRound
      BY <1>1, <1>5, <2>2 DEF BanInv, RoundCovers
    <3> QED BY <1>1, <1>6, <2>2, <3>1, <3>2 DEF BanInv, RoundCovers
  <2> QED BY <2>1, <2>2
<1> QED BY <1>3, <1>4, <1>7 DEF BanInv

-----------------------------------------------------------------------------
(* Samples: nobody connected is missing in one without a fault. *)
LEMMA SampleSees ==
  ASSUME BanInv, TakeSample
  PROVE  /\ faultsLeft' \in Nat /\ faultsLeft' <= faultsLeft
         /\ faultsLeft' = faultsLeft => linked \subseteq DOMAIN online'.quiet
<1>1. PICK lacks \in {{}, SixCallers} :
        /\ IF lacks = {} THEN UNCHANGED faultsLeft ELSE Fault
        /\ DOMAIN online'.quiet = linked \ lacks
  BY DEF TakeSample
<1>2. faultsLeft \in Nat
  BY DEF BanInv, Kinds
<1>3. CASE lacks = {}
  BY <1>1, <1>2, <1>3
<1>4. CASE lacks # {}
  BY <1>1, <1>2, <1>4 DEF Fault
<1> QED BY <1>3, <1>4

LEMMA SampleElsewhereKeeps ==
  ASSUME BanInv, SampleElsewhere
  PROVE  BanInv'
<1>1. UNCHANGED <<inb, linked, ban, round, order, cleaned, unguarded, survivors>>
  BY DEF SampleElsewhere, banTold
<1>2. /\ faultsLeft' \in Nat /\ faultsLeft \in Nat /\ faultsLeft' <= faultsLeft
      /\ faultsLeft' = faultsLeft => linked \subseteq DOMAIN online'.quiet
  BY SampleSees DEF SampleElsewhere, BanInv, Kinds
<1>3. Kinds' /\ Meant'
  BY <1>1, <1>2 DEF BanInv, Kinds, Meant
<1>4. OrderCovers'
  BY <1>1, <1>2 DEF BanInv, OrderCovers
<1>5. \A c \in survivors : InForce(c, round.ago)' = InForce(c, round.ago)
  BY <1>1 DEF InForce
<1>6. RoundCovers'
  BY <1>1, <1>2, <1>5 DEF BanInv, RoundCovers, Kinds
<1> QED BY <1>3, <1>4, <1>6 DEF BanInv

-----------------------------------------------------------------------------
(* The round. *)
LEMMA StartRoundKeeps ==
  ASSUME BanInv, StartRound
  PROVE  BanInv'
<1> USE ConcurrencyAssumption DEF ConcurrencyAssumption
<1>1. /\ UNCHANGED <<inb, linked, ban, order, cleaned, unguarded>>
      /\ round' = [pc |-> "judge", ago |-> 0, limit |-> inb.limit, out |-> {}, todo |-> <<>>,
                   faults |-> faultsLeft', clean |-> TRUE]
      /\ survivors' = {c \in linked \cap DOMAIN online'.quiet : InForce(c, 0)}
  BY DEF StartRound
<1>2. faultsLeft' \in Nat /\ faultsLeft' <= faultsLeft /\ faultsLeft \in Nat
  BY SampleSees DEF StartRound, BanInv, Kinds
<1>3. \A c \in survivors' : c \in DOMAIN ban /\ c \in linked /\ InForce(c, 0)' /\ c \in DOMAIN online'.quiet
  BY <1>1 DEF InForce
<1>4. Kinds' /\ Meant'
  BY <1>1, <1>2, <1>3 DEF BanInv, Kinds, Meant
<1>5. OrderCovers'
  BY <1>1, <1>2 DEF BanInv, OrderCovers
<1>6. /\ round'.pc = "judge" /\ round'.ago = 0 /\ round'.faults = faultsLeft' /\ round'.clean
      /\ DOMAIN round' = {"pc", "ago", "limit", "out", "todo", "faults", "clean"}
  BY <1>1
<1>7. RoundCovers'
  BY <1>2, <1>3, <1>6 DEF RoundCovers
<1> QED BY <1>4, <1>5, <1>7 DEF BanInv

(* The end of a step of the round: what is left covers the survivors. *)
LEMMA GoOnCovers ==
  ASSUME BanInv, round.pc # "idle", NEW out, NEW rest, GoOn(out, rest),
         faultsLeft' \in Nat, faultsLeft' <= faultsLeft,
         round.faults = faultsLeft' => survivors' \subseteq out
  PROVE  RoundCovers'
<1>1. CASE out # {} \/ rest # <<>>
  <2>1. round' = [round EXCEPT !.pc = "kick", !.out = out, !.todo = rest]
    BY <1>1 DEF GoOn
  <2>2. /\ round'.pc = "kick" /\ round'.out = out /\ round'.clean = round.clean /\ round'.faults = round.faults
        /\ round'.ago = round.ago /\ DOMAIN round' = DOMAIN round
    BY <2>1 DEF BanInv, RoundCovers
  <2> QED BY <2>2 DEF BanInv, RoundCovers, Kinds
<1>2. CASE ~(out # {} \/ rest # <<>>)
  <2>1. round' = [NoRound EXCEPT !.clean = survivors' = {} \/ round.faults # faultsLeft']
    BY <1>2 DEF GoOn
  <2>2. survivors' = {} \/ round.faults # faultsLeft'
    BY <1>2
  <2>3. round'.pc = "idle" /\ round'.clean
    BY <2>1, <2>2 DEF NoRound
  <2> QED BY <2>3 DEF RoundCovers
<1> QED BY <1>1, <1>2

LEMMA JudgeKeeps ==
  ASSUME BanInv, Judge
  PROVE  BanInv'
<1>1. round.pc = "judge" /\ UNCHANGED <<inb, linked, ban, order, cleaned, unguarded, survivors>>
  BY DEF Judge, banTold
<1>2. PICK fails \in {"none", "bans", "timeout"} :
        /\ IF fails = "none" THEN UNCHANGED faultsLeft ELSE Fault
        /\ \E over : GoOn(Kicks({c \in Callers : fails # "bans" /\ InForce(c, round.ago)}), over)
  BY DEF Judge
<1> DEFINE banned == {c \in Callers : fails # "bans" /\ InForce(c, round.ago)}
<1>3. faultsLeft' \in Nat /\ faultsLeft \in Nat /\ ((faultsLeft' = faultsLeft /\ fails = "none") \/ faultsLeft' < faultsLeft)
  BY <1>2 DEF Fault, BanInv, Kinds
<1>4. round.faults = faultsLeft' => survivors' \subseteq Kicks(banned)
  <2> SUFFICES ASSUME round.faults = faultsLeft', NEW c \in survivors PROVE c \in Kicks(banned)
    BY <1>1
  <2>1. round.faults = faultsLeft /\ fails = "none"
    BY <1>1, <1>3 DEF BanInv, RoundCovers
  <2>2. c \in Callers /\ c \in DOMAIN online.quiet /\ InForce(c, round.ago)
    BY <1>1, <2>1 DEF BanInv, RoundCovers, Kinds
  <2> QED BY <2>1, <2>2 DEF Kicks, Connected
<1>5. RoundCovers'
  <2>1. PICK over : GoOn(Kicks(banned), over)
    BY <1>2
  <2> HIDE DEF banned
  <2> QED BY <1>1, <1>3, <1>4, <2>1, GoOnCovers
<1>6. Kinds' /\ Meant'
  BY <1>1, <1>3 DEF BanInv, Kinds, Meant
<1>7. OrderCovers'
  BY <1>1, <1>3 DEF BanInv, OrderCovers
<1> QED BY <1>5, <1>6, <1>7 DEF BanInv

(* A kick that does not fail leaves nobody of its caller connected. *)
LEMMA KickEffect ==
  ASSUME BanInv, NEW c, Kick(c)
  PROVE  /\ faultsLeft' \in Nat /\ faultsLeft' <= faultsLeft
         /\ linked' \subseteq linked /\ unguarded' \subseteq unguarded /\ survivors' \subseteq survivors
         /\ unguarded' \subseteq linked' /\ survivors' \subseteq linked' \cap Callers
         /\ faultsLeft' = faultsLeft => c \notin survivors' /\ c \notin unguarded'
<1>1. faultsLeft \in Nat /\ (inb.there \/ linked = {}) /\ survivors \subseteq linked /\ unguarded \subseteq linked
  BY DEF BanInv, Kinds
<1>2. CASE Cut({x \in {c} : inb.there}) /\ UNCHANGED faultsLeft
  BY <1>1, <1>2, CutKeeps
<1>3. CASE Fault /\ UNCHANGED <<linked, banTold>>
  BY <1>1, <1>3 DEF Fault, banTold, BanInv, Kinds
<1> QED BY <1>2, <1>3 DEF Kick

LEMMA KickNextStep ==
  ASSUME BanInv, KickNext, NEW c, NEW out, NEW rest, Kick(c), GoOn(out, rest),
         out = round.out \ {c} \/ (round.out = {} /\ out = {})
  PROVE  BanInv'
<1>1. round.pc = "kick" /\ UNCHANGED <<inb, ban, order, cleaned>>
  BY DEF KickNext
<1>2. /\ faultsLeft' \in Nat /\ faultsLeft \in Nat /\ faultsLeft' <= faultsLeft
      /\ linked' \subseteq linked /\ unguarded' \subseteq unguarded /\ survivors' \subseteq survivors
      /\ unguarded' \subseteq linked' /\ survivors' \subseteq linked' \cap Callers
      /\ faultsLeft' = faultsLeft => c \notin survivors' /\ c \notin unguarded'
  BY KickEffect DEF BanInv, Kinds
<1>3. round.faults = faultsLeft' => survivors' \subseteq out
  <2> SUFFICES ASSUME round.faults = faultsLeft' PROVE survivors' \subseteq out
    OBVIOUS
  <2>1. round.faults = faultsLeft /\ faultsLeft' = faultsLeft
    BY <1>1, <1>2 DEF BanInv, RoundCovers
  <2>2. survivors \subseteq round.out
    BY <1>1, <2>1 DEF BanInv, RoundCovers
  <2> QED BY <1>2, <2>1, <2>2
<1>4. RoundCovers'
  BY <1>1, <1>2, <1>3, GoOnCovers
<1>5. Kinds' /\ Meant'
  BY <1>1, <1>2 DEF BanInv, Kinds, Meant
<1>6. OrderCovers'
  BY <1>1, <1>2 DEF BanInv, OrderCovers
<1> QED BY <1>4, <1>5, <1>6 DEF BanInv

LEMMA KickNextKeeps ==
  ASSUME BanInv, KickNext
  PROVE  BanInv'
<1>1. CASE \E c \in round.out : Kick(c) /\ GoOn(round.out \ {c}, round.todo)
  BY <1>1, KickNextStep
<1>2. CASE round.out = {} /\ Kick(Head(round.todo)) /\ GoOn({}, Tail(round.todo))
  BY <1>2, KickNextStep
<1> QED BY <1>1, <1>2 DEF KickNext

-----------------------------------------------------------------------------
(* The administrator's order. *)
LEMMA AskKickKeeps ==
  ASSUME BanInv, NEW c \in Callers, NEW term \in Terms, AskKick(c, term)
  PROVE  BanInv'
<1>1. /\ UNCHANGED <<inb, linked, ban, online, round, cleaned, survivors, faultsLeft>> /\ unguarded' = {}
      /\ order' = [todo |-> Steps(term), caller |-> c, term |-> term, born |-> inb.born,
                   faults |-> faultsLeft, clean |-> TRUE]
  BY DEF AskKick
<1>2. Kinds' /\ Meant'
  BY <1>1 DEF BanInv, Kinds, Meant
<1>3. term \in Nat \cup {Forever} /\ faultsLeft \in Nat /\ inb.born \in Nat
  BY ConcurrencyAssumption DEF ConcurrencyAssumption, BanInv, Kinds
<1>4. Steps(term) \in {<<"kick">>, <<"ban", "kick">>} /\ (Steps(term) = <<"ban", "kick">> => term # 0)
  BY Todos DEF Steps
<1>5. OrderCovers'
  BY <1>1, <1>3, <1>4 DEF OrderCovers
<1>6. RoundCovers'
  BY <1>1 DEF BanInv, RoundCovers, InForce
<1> QED BY <1>2, <1>5, <1>6 DEF BanInv

LEMMA WriteBanKeeps ==
  ASSUME BanInv, WriteBan
  PROVE  BanInv'
<1> DEFINE row == [left |-> order.term, meant |-> order.born,
                   stray |-> cleaned \/ ~inb.there \/ order.born # inb.born]
<1>1. /\ UNCHANGED <<inb, linked, online, round, cleaned, survivors, faultsLeft>>
      /\ ban' = [c \in DOMAIN ban \cup {order.caller} |-> IF c = order.caller THEN row ELSE ban[c]]
      /\ unguarded' = {order.caller} \cap linked
  BY DEF WriteBan
<1>2. order.todo = <<"ban", "kick">>
  BY Todos DEF WriteBan, BanInv, OrderCovers
<1>3. /\ order.caller \in Callers /\ order.term \in Nat \cup {Forever} /\ order.born \in Nat
      /\ order.faults \in Nat /\ faultsLeft <= order.faults /\ order.term # 0
  BY <1>2, Todos DEF BanInv, OrderCovers
<1>4. row \in [left : Int \cup {Forever}, meant : Nat, stray : BOOLEAN]
  BY <1>3
<1>5. /\ row.left = order.term /\ row.meant = order.born
      /\ row.stray \/ (~cleaned /\ inb.there /\ row.meant = inb.born)
  OBVIOUS
<1> HIDE DEF row
<1>6. Kinds' /\ Meant'
  BY <1>1, <1>3, <1>4, <1>5 DEF BanInv, Kinds, Meant
<1>7. OrderCovers'
  <2>1. order' = [order EXCEPT !.todo = <<"kick">>]
    BY <1>2, Todos DEF WriteBan, Proceed
  <2>2. DOMAIN order = {"todo", "caller", "term", "born", "faults", "clean"} /\ order.clean
    BY <1>2, Todos DEF BanInv, OrderCovers
  <2>3. /\ order'.todo = <<"kick">> /\ DOMAIN order' = DOMAIN order
        /\ \A f \in DOMAIN order \ {"todo"} : order'[f] = order[f]
    BY <2>1, <2>2
  <2>4. /\ order'.clean = order.clean /\ order'.caller = order.caller /\ order'.term = order.term
        /\ order'.born = order.born /\ order'.faults = order.faults
    BY <2>2, <2>3
  <2> QED BY <1>1, <1>3, <2>2, <2>3, <2>4, Todos DEF OrderCovers
<1>8. RoundCovers'
  <2>1. ASSUME NEW c \in survivors, round.pc = "judge", InForce(c, round.ago) PROVE InForce(c, round.ago)'
    BY <1>1, <1>3, <1>5, <2>1 DEF BanInv, RoundCovers, InForce
  <2> QED BY <1>1, <2>1 DEF BanInv, RoundCovers
<1> QED BY <1>6, <1>7, <1>8 DEF BanInv

LEMMA BanFailsKeeps ==
  ASSUME BanInv, BanFails
  PROVE  BanInv'
<1>1. UNCHANGED <<inb, linked, ban, online, round, cleaned, unguarded, survivors, faultsLeft>> /\ order' = NoOrder
  BY DEF BanFails, banTold
<1>2. Kinds' /\ Meant' /\ RoundCovers'
  BY <1>1 DEF BanInv, Kinds, Meant, RoundCovers, InForce
<1>3. OrderCovers'
  BY <1>1 DEF OrderCovers, NoOrder
<1> QED BY <1>2, <1>3 DEF BanInv

LEMMA KickAskedKeeps ==
  ASSUME BanInv, KickAsked
  PROVE  BanInv'
<1>1. UNCHANGED <<inb, ban, online, round, cleaned>> /\ order.todo = <<"kick">>
  BY Todos DEF KickAsked, BanInv, OrderCovers
<1>2. /\ faultsLeft' \in Nat /\ faultsLeft \in Nat /\ faultsLeft' <= faultsLeft
      /\ linked' \subseteq linked /\ unguarded' \subseteq unguarded /\ survivors' \subseteq survivors
      /\ unguarded' \subseteq linked' /\ survivors' \subseteq linked' \cap Callers
      /\ faultsLeft' = faultsLeft => order.caller \notin unguarded'
  BY KickEffect DEF KickAsked, BanInv, Kinds
<1>3. Kinds' /\ Meant'
  BY <1>1, <1>2 DEF BanInv, Kinds, Meant
<1>4. unguarded' = {} \/ order.faults # faultsLeft'
  <2>1. unguarded \subseteq {order.caller} /\ order.faults \in Nat /\ faultsLeft <= order.faults
    BY <1>1, Todos DEF BanInv, OrderCovers
  <2> QED BY <1>2, <2>1
<1>5. OrderCovers'
  <2>1. order' = [NoOrder EXCEPT !.clean = unguarded' = {} \/ order.faults # faultsLeft']
    BY <1>1, Todos DEF KickAsked, Proceed
  <2>2. order'.todo = <<>> /\ order'.clean
    BY <1>4, <2>1 DEF NoOrder
  <2> QED BY <2>2, Todos DEF OrderCovers
<1>6. RoundCovers'
  <2>1. \A c \in survivors : InForce(c, round.ago)' = InForce(c, round.ago)
    BY <1>1 DEF InForce
  <2> QED BY <1>1, <1>2, <2>1 DEF BanInv, RoundCovers
<1> QED BY <1>3, <1>5, <1>6 DEF BanInv

-----------------------------------------------------------------------------
(* Bans are lifted, and inbounds deleted and added. *)
LEMMA LiftKeeps ==
  ASSUME BanInv, NEW callers, Lift(callers),
         UNCHANGED <<inb, linked, online, round, order, unguarded, faultsLeft>>,
         cleaned' \in BOOLEAN, cleaned' = cleaned \/ Callers \subseteq callers
  PROVE  BanInv'
<1>1. /\ ban' = [c \in DOMAIN ban \ callers |-> ban[c]] /\ survivors' = survivors \ callers
  BY DEF Lift
<1>2. Kinds' /\ Meant'
  BY <1>1 DEF BanInv, Kinds, Meant
<1>3. OrderCovers'
  BY DEF BanInv, OrderCovers
<1>4. \A c \in survivors' : InForce(c, round.ago) => InForce(c, round.ago)'
  BY <1>1 DEF InForce
<1>5. RoundCovers'
  BY <1>1, <1>4 DEF BanInv, RoundCovers
<1> QED BY <1>2, <1>3, <1>5 DEF BanInv

LEMMA LiftersKeep ==
  ASSUME BanInv, PruneExpired \/ DeleteBans \/ \E c \in Callers : Unban(c)
  PROVE  BanInv'
<1>1. CASE PruneExpired
  BY <1>1, LiftKeeps DEF PruneExpired, BanInv, Kinds
<1>2. CASE DeleteBans
  BY <1>2, LiftKeeps DEF DeleteBans
<1>3. ASSUME NEW c \in Callers, Unban(c) PROVE BanInv'
  BY <1>3, LiftKeeps DEF Unban, BanInv, Kinds
<1> QED BY <1>1, <1>2, <1>3

LEMMA DeleteInboundKeeps ==
  ASSUME BanInv, DeleteInbound
  PROVE  BanInv'
<1>1. cleaned /\ cleaned' = FALSE /\ UNCHANGED <<ban, online, round, order>>
  BY DEF DeleteInbound
<1>2. /\ faultsLeft' \in Nat /\ faultsLeft \in Nat /\ faultsLeft' <= faultsLeft
      /\ inb' \in [there : BOOLEAN, limit : Quotas, born : Nat] /\ (linked' # {} => inb'.there)
      /\ unguarded' \subseteq unguarded /\ survivors' \subseteq survivors
      /\ unguarded' \subseteq linked' /\ survivors' \subseteq linked' \cap Callers
  <2>1. CASE Cut(linked) /\ inb' = [inb EXCEPT !.there = FALSE] /\ UNCHANGED faultsLeft
    <3>1. inb' \in [there : BOOLEAN, limit : Quotas, born : Nat]
      BY <2>1 DEF BanInv, Kinds
    <3>2. linked' = {} /\ faultsLeft \in Nat
      BY <2>1 DEF Cut, BanInv, Kinds
    <3> QED BY <2>1, <3>1, <3>2, CutKeeps
  <2>2. CASE Fault /\ UNCHANGED <<inb, linked, banTold>>
    BY <2>2 DEF Fault, banTold, BanInv, Kinds
  <2> QED BY <2>1, <2>2 DEF DeleteInbound
<1>3. Kinds' /\ Meant'
  BY <1>1, <1>2 DEF BanInv, Kinds, Meant
<1>4. OrderCovers'
  BY <1>1, <1>2 DEF BanInv, OrderCovers
<1>5. \A c \in survivors : InForce(c, round.ago)' = InForce(c, round.ago)
  BY <1>1 DEF InForce
<1>6. RoundCovers'
  BY <1>1, <1>2, <1>5 DEF BanInv, RoundCovers
<1> QED BY <1>3, <1>4, <1>6 DEF BanInv

LEMMA LimitsKeep ==
  ASSUME BanInv, NEW limit \in Quotas, SetLimit(limit) \/ AddInbound(limit)
  PROVE  BanInv'
<1>1. UNCHANGED <<linked, ban, online, round, order, cleaned, unguarded, survivors, faultsLeft>>
  BY DEF SetLimit, AddInbound, banTold
<1>2. /\ inb' \in [there : BOOLEAN, limit : Quotas, born : Nat] /\ (inb.there => inb'.there /\ inb'.born = inb.born)
  <2>1. CASE SetLimit(limit)
    BY <2>1 DEF SetLimit, BanInv, Kinds
  <2>2. CASE AddInbound(limit)
    <3>1. ~inb.there /\ inb' = [there |-> TRUE, limit |-> limit, born |-> inb.born + 1] /\ inb.born \in Nat
      BY <2>2 DEF AddInbound, BanInv, Kinds
    <3> QED BY <3>1
  <2> QED BY <2>1, <2>2
<1>3. Kinds' /\ Meant'
  BY <1>1, <1>2 DEF BanInv, Kinds, Meant
<1>4. OrderCovers' /\ RoundCovers'
  BY <1>1 DEF BanInv, OrderCovers, RoundCovers, InForce
<1> QED BY <1>3, <1>4 DEF BanInv

(* After a restart bans and connections are as before, and no round or order.   *)
LEMMA RestartPanelKeeps ==
  ASSUME BanInv, RestartPanel
  PROVE  BanInv'
<1>1. /\ UNCHANGED <<inb, linked, ban, unguarded>> /\ cleaned' = FALSE /\ survivors' = {}
      /\ round' = NoRound /\ order' = NoOrder
  BY DEF RestartPanel
<1>2. faultsLeft' \in Nat
  BY DEF RestartPanel, Fault, BanInv, Kinds
<1>3. Kinds' /\ Meant'
  BY <1>1, <1>2 DEF BanInv, Kinds, Meant
<1>4. OrderCovers' /\ RoundCovers'
  BY <1>1 DEF OrderCovers, RoundCovers, NoOrder, NoRound
<1> QED BY <1>3, <1>4 DEF BanInv

LEMMA BanInvAlways == ConcSpec => []BanInv
<1>1. BanInv /\ [ConcNext]_concVars => BanInv'
  <2> SUFFICES ASSUME BanInv, [ConcNext]_concVars PROVE BanInv'
    OBVIOUS
  <2>1. ASSUME NEW c \in Callers, Dial(c) \/ HangUp(c) PROVE BanInv'
    BY <2>1, CallersKeep
  <2>2. ASSUME NEW c \in Callers, NEW term \in Terms, AskKick(c, term) PROVE BanInv'
    BY <2>2, AskKickKeeps
  <2>3. CASE GrowOlder \/ SampleElsewhere \/ StartRound \/ Judge \/ KickNext
    BY <2>3, GrowOlderKeeps, SampleElsewhereKeeps, StartRoundKeeps, JudgeKeeps, KickNextKeeps
  <2>4. CASE WriteBan \/ BanFails \/ KickAsked
    BY <2>4, WriteBanKeeps, BanFailsKeeps, KickAskedKeeps
  <2>5. CASE PruneExpired \/ DeleteBans \/ \E c \in Callers : Unban(c)
    BY <2>5, LiftersKeep
  <2>6. CASE DeleteInbound \/ RestartPanel
    BY <2>6, DeleteInboundKeeps, RestartPanelKeeps
  <2>7. ASSUME NEW limit \in Quotas, SetLimit(limit) \/ AddInbound(limit) PROVE BanInv'
    BY <2>7, LimitsKeep
  <2>8. CASE UNCHANGED concVars
    BY <2>8 DEF concVars, banTold, BanInv, Kinds, Meant, OrderCovers, RoundCovers, InForce
  <2> QED BY <2>1, <2>2, <2>3, <2>4, <2>5, <2>6, <2>7, <2>8 DEF ConcNext
<1> QED BY InitBanInv, <1>1, PTL DEF ConcSpec

-----------------------------------------------------------------------------
(* When a request for a ban has returned nobody it is for is connected from     *)
(* before, a round leaves nobody connected whom its sample saw and whose ban    *)
(* was in force, unless a call failed meanwhile; and no inbound inherits the    *)
(* bans of one that had its number before.                                      *)
THEOREM BansHold == ConcSpec => []BanHolds
<1>1. BanInv => BanHolds
  BY DEF BanInv, Meant, OrderCovers, RoundCovers, BanHolds
<1> QED BY <1>1, BanInvAlways, PTL
=============================================================================
