---------------------------- MODULE InboundQuota ----------------------------
(***************************************************************************)
(* Why an inbound is switched off and what switches it on again: the       *)
(* 30-second check of quota and expiry, the hourly traffic reset, the      *)
(* administrator's edits (a whole row, from a page that may be stale) and  *)
(* renewals, the traffic job, and the core that follows through the        *)
(* restart flag (web/service/inbound.go, traffic_reset.go,                 *)
(* inbound_renew.go, web/job/check_inbound_job.go, traffic_reset_job.go,   *)
(* xray_traffic_job.go).  Every SQL statement is one step; what runs       *)
(* between two statements of one function is not.                          *)
(*                                                                         *)
(* Time counts days; a month has Cycle of them.  Counters are in units of  *)
(* traffic.  The columns modelled are those the four writers disagree on;  *)
(* cause is a history column: why enable is off.                           *)
(***************************************************************************)
EXTENDS Integers

CONSTANTS
  Inbounds,     \* ids
  None,         \* no page, no request
  Total,        \* quota, the total column; 0 is unlimited
  Cycle,        \* days of a month
  Start,        \* the day the model begins
  MaxNow,       \* bound: the day the clock stops
  MaxUsed,      \* bound: traffic counted at most
  MaxRequests,  \* bound: requests of the administrator
  MaxErrors,    \* bound: statements that fail
  Rows,         \* rows the model begins with
  Expiries,     \* what the administrator enters as expiry_time, 0 for never
  RenewalDays   \* lengths of a renewal, 0 when an expiry is entered instead

Modes == {"off", "monthly", "bill"}
Days == 0..(MaxNow + Cycle)
Causes == {"none", "expired", "quota", "admin"}
Columns == [enable : BOOLEAN, marked : BOOLEAN, used : 0..MaxUsed, expiry : Days,
            mode : Modes, last : 0..MaxNow, cause : Causes]
Row == {r \in Columns : r.mode = "bill" => r.expiry > 0}
Shown == [id : Inbounds, enable : BOOLEAN, used : 0..MaxUsed]
Form == [id : Inbounds, enable : BOOLEAN, toggled : BOOLEAN, used : 0..MaxUsed, expiry : Days, mode : Modes]

ASSUME QuotaAssumption ==
  /\ None \notin Inbounds
  /\ Total \in Nat /\ Cycle \in Nat \ {0}
  /\ Start \in Nat /\ MaxNow \in Nat /\ Cycle <= Start /\ Start <= MaxNow
  /\ MaxUsed \in Nat /\ MaxRequests \in Nat /\ MaxErrors \in Nat
  /\ \A r \in Rows : r \in Row /\ r.enable /\ ~r.marked /\ r.cause = "none" /\ r.last <= Start
  /\ Expiries \subseteq Days /\ RenewalDays \subseteq Nat

VARIABLES
  now,      \* the day
  row,      \* row[i]: enable, disabled_by_traffic, up + down, expiry_time, traffic_reset_mode,
            \* last_reset_at, and the history column
  page,     \* what the administrator's browser shows of an inbound, or None
  req,      \* an update between its read and its write, or None
  check,    \* CheckInboundJob: between its statements, whether the first disabled a row
  reset,    \* TrafficResetJob: the day, rows read (counters unread), rows left, whether one was re-enabled
  need,     \* isNeedXrayRestart
  core,     \* inbounds the core serves
  missed,   \* history: a check disabled rows, failed, and the flag was not raised since
  left      \* remaining bounds

vars == <<now, row, page, req, check, reset, need, core, missed, left>>

CheckIdle == [on |-> FALSE, some |-> FALSE]
ResetIdle == [on |-> FALSE, day |-> 0, copy |-> [i \in Inbounds |-> None], todo |-> {}, revived |-> FALSE]

Enabled == {i \in Inbounds : row[i].enable}
ExpiredAt(r, day) == r.expiry > 0 /\ r.expiry <= day
OverQuota(r) == Total > 0 /\ r.used >= Total

Spend(b) == left[b] > 0 /\ left' = [left EXCEPT ![b] = @ - 1]
SetToNeedRestart == need' = TRUE /\ missed' = FALSE

-----------------------------------------------------------------------------
Init ==
  /\ now = Start /\ row \in [Inbounds -> Rows]
  /\ page = None /\ req = None /\ check = CheckIdle /\ reset = ResetIdle
  /\ need = FALSE /\ core = Inbounds /\ missed = FALSE
  /\ left = [requests |-> MaxRequests, errors |-> MaxErrors]

Tick ==
  /\ now < MaxNow /\ now' = now + 1
  /\ UNCHANGED <<row, page, req, check, reset, need, core, missed, left>>

(* AddTraffic, for what the core serves. *)
AddTraffic(i) ==
  /\ i \in core /\ row[i].used < MaxUsed
  /\ row' = [row EXCEPT ![i].used = @ + 1]
  /\ UNCHANGED <<now, page, req, check, reset, need, core, missed, left>>

-----------------------------------------------------------------------------
(***************************************************************************)
(* The administrator.  The edit form starts from the page and sends every  *)
(* field back, the counters included.                                      *)
(***************************************************************************)
View(i) ==
  /\ page = None /\ req = None /\ left.requests > 0
  /\ page' = [id |-> i, enable |-> row[i].enable, used |-> row[i].used]
  /\ UNCHANGED <<now, row, req, check, reset, need, core, missed, left>>

(* checkTrafficResetMode: a billing cycle needs an expiry to take its day from. *)
AnyMode(mode, expiry) == TRUE
CheckTrafficResetMode(mode, expiry) == mode = "bill" => expiry > 0

(* UpdateInbound up to GetInbound. *)
UpdateRead(form) ==
  /\ page # None /\ req = None /\ Spend("requests")
  /\ form.id = page.id /\ form.toggled = (form.enable # page.enable) /\ form.used \in {page.used, 0}
  /\ CheckTrafficResetMode(form.mode, form.expiry)
  /\ req' = [form |-> form, old |-> row[form.id]] /\ page' = None
  /\ UNCHANGED <<now, row, check, reset, need, core, missed>>

(* The row Save writes.  oldInbound.Enable is assigned before it is compared    *)
(* with the form's, so the mark is cleared exactly if the form enables.         *)
SavedKeepsMark(old, form) ==
  [enable |-> form.enable, marked |-> old.marked, used |-> form.used, expiry |-> form.expiry,
   mode |-> form.mode, last |-> IF old.mode # form.mode THEN now ELSE old.last,
   cause |-> IF form.enable THEN "none" ELSE IF form.toggled \/ old.enable THEN "admin" ELSE old.cause]
Saved(old, form) ==
  [enable |-> form.enable, marked |-> old.marked /\ ~form.enable, used |-> form.used,
   expiry |-> form.expiry, mode |-> form.mode,
   last |-> IF old.mode # form.mode THEN now ELSE old.last,
   cause |-> IF form.enable THEN "none" ELSE IF form.toggled \/ old.enable THEN "admin" ELSE old.cause]

UpdateSave ==
  /\ req # None
  /\ row' = [row EXCEPT ![req.form.id] = Saved(req.old, req.form)]
  /\ req' = None /\ SetToNeedRestart
  /\ UNCHANGED <<now, page, check, reset, core, left>>

(* RenewInbound, by days on top of what is left or to a given day.  It reads    *)
(* and writes expiry_time, which only requests write, and other columns blind.  *)
RenewedExpiry(old, days) == (IF old <= now THEN now ELSE old) + days

RenewInbound(i, expiry, days) ==
  /\ req = None /\ Spend("requests")
  /\ (days = 0) # (expiry = 0)
  /\ LET newExpiry == IF days > 0 THEN RenewedExpiry(row[i].expiry, days) ELSE expiry
     IN  /\ newExpiry \in Days
         /\ row' = [row EXCEPT ![i] =
               IF newExpiry > now
               THEN [@ EXCEPT !.expiry = newExpiry, !.marked = FALSE, !.enable = TRUE, !.used = 0, !.cause = "none"]
               ELSE [@ EXCEPT !.expiry = newExpiry, !.marked = FALSE]]
  /\ SetToNeedRestart
  /\ UNCHANGED <<now, page, req, check, reset, core>>

-----------------------------------------------------------------------------
(* DisableInvalidInbounds: the expired ones first, unmarked; then the ones     *)
(* over quota that are still enabled, marked.                                  *)
Expiring == {i \in Enabled : ExpiredAt(row[i], now)}
ExceedingDisabledToo == {i \in Inbounds : OverQuota(row[i])}
Exceeding == {i \in Enabled : OverQuota(row[i])}

DisableExpired ==
  /\ ~check.on
  /\ row' = [i \in Inbounds |->
               IF i \in Expiring THEN [row[i] EXCEPT !.enable = FALSE, !.cause = "expired"] ELSE row[i]]
  /\ check' = [on |-> TRUE, some |-> Expiring # {}]
  /\ UNCHANGED <<now, page, req, reset, need, core, missed, left>>

OnlyExceededAffected == Exceeding # {}
RowsAffected == check.some \/ Exceeding # {}

DisableExceeded ==
  /\ check.on
  /\ row' = [i \in Inbounds |->
               IF i \in Exceeding
               THEN [row[i] EXCEPT !.enable = FALSE, !.marked = TRUE, !.cause = IF row[i].enable THEN "quota" ELSE @]
               ELSE row[i]]
  /\ check' = CheckIdle
  /\ IF RowsAffected
     THEN SetToNeedRestart ELSE UNCHANGED <<need, missed>>
  /\ UNCHANGED <<now, page, req, reset, core, left>>

(* The second statement fails: CheckInboundJob logs it and drops the count of the first. *)
DisableExceededFails ==
  /\ check.on /\ Spend("errors")
  /\ check' = CheckIdle /\ missed' = (missed \/ check.some)
  /\ UNCHANGED <<now, row, page, req, reset, need, core>>

-----------------------------------------------------------------------------
(* ResetDueTraffic.  The day of the month comes from the mode; a day that has  *)
(* not come yet this month is last month's.                                    *)
ResetDayFor(r) == IF r.mode = "monthly" THEN 0 ELSE r.expiry % Cycle
ResetInstantThisMonth(day, d) == (d \div Cycle) * Cycle + day
ResetInstantFor(day, d) ==
  LET candidate == (d \div Cycle) * Cycle + day
  IN  IF candidate > d THEN candidate - Cycle ELSE candidate

Participates(r) == r.mode = "monthly" \/ (r.mode = "bill" /\ r.expiry > 0)

ResetFind ==
  /\ ~reset.on
  /\ \E i \in Inbounds : row[i].mode # "off"
  /\ reset' = [on |-> TRUE, day |-> now,
               copy |-> [i \in Inbounds |-> IF row[i].mode # "off" THEN [row[i] EXCEPT !.used = 0] ELSE None],
               todo |-> {i \in Inbounds : row[i].mode # "off"}, revived |-> FALSE]
  /\ UNCHANGED <<now, row, page, req, check, need, core, missed, left>>

Due(i) ==
  LET c == reset.copy[i]
  IN  Participates(c) /\ c.last < ResetInstantFor(ResetDayFor(c), reset.day)
Reviving(i) ==
  LET c == reset.copy[i]
  IN  c.marked /\ ~c.enable /\ ~ExpiredAt(c, reset.day)

ResetOne(i) ==
  /\ reset.on /\ i \in reset.todo
  /\ IF Due(i)
     THEN LET instant == ResetInstantFor(ResetDayFor(reset.copy[i]), reset.day)
          IN  row' = [row EXCEPT ![i] =
                IF Reviving(i)
                THEN [@ EXCEPT !.used = 0, !.last = instant, !.enable = TRUE, !.marked = FALSE, !.cause = "none"]
                ELSE [@ EXCEPT !.used = 0, !.last = instant]]
     ELSE UNCHANGED row
  /\ reset' = [reset EXCEPT !.todo = @ \ {i}, !.copy[i] = None, !.revived = @ \/ (Due(i) /\ Reviving(i))]
  /\ UNCHANGED <<now, page, req, check, need, core, missed, left>>

(* The loop is over or a statement failed: in both cases TrafficResetJob goes on. *)
ResetEnds ==
  /\ reset.on
  /\ IF reset.todo = {} THEN UNCHANGED left ELSE Spend("errors")
  /\ reset' = ResetIdle
  /\ IF reset.revived THEN SetToNeedRestart ELSE UNCHANGED <<need, missed>>
  /\ UNCHANGED <<now, row, page, req, check, core>>

-----------------------------------------------------------------------------
(* The consumer of the flag.  What happens between its reading of the rows and *)
(* the core is XrayLifecycle's subject and one step here.                      *)
Consume ==
  /\ need
  /\ need' = FALSE /\ core' = Enabled
  /\ UNCHANGED <<now, row, page, req, check, reset, missed, left>>

-----------------------------------------------------------------------------
Next ==
  \/ Tick
  \/ \E i \in Inbounds : AddTraffic(i) \/ View(i) \/ ResetOne(i)
  \/ \E form \in [id : Inbounds, enable : BOOLEAN, toggled : BOOLEAN, used : 0..MaxUsed,
                   expiry : Expiries, mode : Modes] : UpdateRead(form)
  \/ UpdateSave
  \/ \E i \in Inbounds, expiry \in Expiries, days \in RenewalDays : RenewInbound(i, expiry, days)
  \/ DisableExpired \/ DisableExceeded \/ DisableExceededFails
  \/ ResetFind \/ ResetEnds
  \/ Consume

(***************************************************************************)
(* Fairness: cron fires the check, the reset and the consumer for ever,    *)
(* and code that has begun goes on.                                        *)
(***************************************************************************)
Fairness ==
  /\ WF_vars(UpdateSave)
  /\ WF_vars(DisableExpired) /\ WF_vars(DisableExceeded)
  /\ WF_vars(ResetFind) /\ WF_vars(\E i \in Inbounds : ResetOne(i)) /\ WF_vars(reset.todo = {} /\ ResetEnds)
  /\ WF_vars(Consume)

Spec == Init /\ [][Next]_vars
FairSpec == Spec /\ Fairness

-----------------------------------------------------------------------------
(* The types that IInv of InboundQuotaProofs is built on. *)
Types ==
  /\ now \in 0..MaxNow /\ row \in [Inbounds -> Row]
  /\ page \in Shown \cup {None} /\ req \in [form : Form, old : Row] \cup {None}
  /\ check \in [on : BOOLEAN, some : BOOLEAN]
  /\ reset \in [on : BOOLEAN, day : 0..MaxNow, copy : [Inbounds -> Row \cup {None}],
                todo : SUBSET Inbounds, revived : BOOLEAN]
  /\ need \in BOOLEAN /\ core \in SUBSET Inbounds
  /\ missed \in BOOLEAN /\ left \in [{"requests", "errors"} -> Nat]

NoFutureReset == \A i \in Inbounds : row[i].last <= now

(* Every variable has its type; no row is to be reset by its billing cycle    *)
(* without having one, whichever of the writers came last, and the day of the  *)
(* last reset never lies ahead, or the next one would be skipped.              *)
QuotaTypeOK == Types /\ NoFutureReset

(* An inbound that is on never carries the mark of a switch-off for traffic:   *)
(* whatever stale rows the four writers put back, the mark that entitles an    *)
(* inbound to come back on its own is gone once it has come back.              *)
EnabledNotMarked == \A i \in Inbounds : row[i].enable => ~row[i].marked

(* Expiry is the stronger reason: the reset job never holds an inbound for     *)
(* revival that was last switched off because it had expired, however quota    *)
(* and expiry were met together.                                               *)
ExpiryWins ==
  \A i \in reset.todo : Reviving(i) => reset.copy[i].cause # "expired"

(* Once requests, days and errors cease, the core serves the enabled inbounds,  *)
(* none of which is over quota or expired; the exception is a check whose       *)
(* second statement failed after the first had disabled something.              *)
RowsSettle ==
  <>[](missed \/ (core = Enabled /\ \A i \in Enabled : ~ExpiredAt(row[i], now) /\ ~OverQuota(row[i])))

(* An inbound that has expired or exceeded its quota leaves the core. *)
InvalidLeavesCore ==
  <>[](\A i \in core : ~ExpiredAt(row[i], now) /\ ~OverQuota(row[i]))

(* The reset job leaves alone what the administrator has switched off by hand. *)
ManualDisableStays ==
  \A i \in reset.todo : Due(i) /\ Reviving(i) => reset.copy[i].cause # "admin"
=============================================================================
