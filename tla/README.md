# AetherUI in TLA+

AetherUI is a web panel (`a-ui`, Go) that drives an xray-core child process. The
panel keeps its state in SQLite, runs about twenty periodic jobs, and changes the
running core either over the core's gRPC control plane or by restarting it. These
modules model the parts of it in which several activities meet and in which an error
would be silent: traffic that takes the wrong way, a user who is served although his
quota is used up, a machine that can no longer be reached.

Run `tlc -config X.cfg M` for a model and `tlapm M.tla` for the proofs. `PROJECT.json`
lists every run, every mutant that shows a property has teeth, the source lines each
definition stands for, and the hazards the properties are for.

## 1. The system

### Processes and shared state

* The panel is one Go process. Handlers run in a goroutine per request. robfig/cron
  starts every job in a goroutine of its own, and starts it again on time even when
  the last round has not ended (`web/web.go` `startTask`).
* The core is a child process (`xray/process.go`). It is forked and awaited in a
  goroutine; `Stop` kills it and does not wait.
* Shared state is the database, package variables (`p`, `lock`, `isNeedXrayRestart`,
  `xrayApplyGen`, the `shaping*` variables, the online tracker), the kernel (tc rules,
  sockets) and files (`config.json`, the access log).

### Components

| component | state it keeps | operations | what makes it correct |
|---|---|---|---|
| Xray lifecycle (`web/service/xray.go`, `xray/process.go`) | current process and its configuration, restart flag, generation | requests, consumer, restart, hot application, watchdog, upgrade | the core ends up with the database's configuration; the panel knows what the core holds; no core is forgotten |
| Hot diff (`xray/hot_diff.go`) | none | difference of two configurations, plan of RPCs | plan accepted, equal to a restart, moves only the traffic concerned |
| Quota, expiry, reset (`web/service/inbound.go`, `traffic_reset.go`, `inbound_renew.go`) | one row per inbound | traffic, check, reset, edit, renewal | switched off when due, back on only when entitled |
| Port limits (`web/service/shaping.go`, `util/tcshape`) | tc rules, hash applied, pending rollback | reconcile, rollback, heartbeat, clear | limits follow the database, the machine stays reachable |
| Routing rules and injection (`routing_rule.go`, `routing_inject.go`, `dns_inject.go`, `policy_inject.go`) | rules | edit, reorder, spread to new inbounds, clean up after deleted ones, synthesis | a rule goes on meaning whom it was made for, traffic goes where the page says, metering moves nothing |
| Domain groups and subscriptions (`routing_domain.go`, `routing_subscription.go`) | groups, last content per address | edit, refresh, prune | content comes from the addresses of now, a failing address takes nothing away |
| Route audit (`routing_audit.go`, `routing_verify.go`, `routing_anomaly.go`, `pendingMemo` in `xray.go`) | results per rule and generation, what is pending | audit, check by hand, summaries, anomaly scan | never green for what was not verified, no generation skipped |
| Outbound nodes and links (`routing_outbound.go`, `util/link`) | nodes | add, edit, delete | unique tags, no node goes while a rule names it |
| Online users (`online.go`, `util/netdiag`) | connection table, pending bytes | sample, close notice, drain, kick | bytes counted once |
| Concurrency and bans (`concurrency.go`, `ipban.go`) | bans, rejected sources | enforce, ban, unban, prune, clean up with the inbound | latecomers go and nobody else, nobody absent holds a place, a ban is in force from its answer on and for its inbound only |
| Access log (`accesslog.go`, `util/accesslog`) | file offset, stored lines | collect, truncate, clean up | every line stored once |
| Domain statistics, metering (`domain_stat.go`, `meter_pool.go`, `meter_collect.go`) | cursor, aggregates, pool of metering outbounds | aggregate, rotate pool | each record aggregated once, although ids and times come again |
| Traffic history, IP usage, sharing detection | time series, accumulators | record, score | append-only series |
| Settings, users, login (`setting.go`, `two_factor.go`, `login_limiter.go`) | key-value rows, attempts | login, TOTP, lock | a code passes once, locks hold |
| Upgrade of the panel (`panel_version.go`, `install.sh`, `panel-version.js`) | transient unit, installed version, dialog | start, replace, poll | the dialog says what happened |
| Front end (`routing-audit.js`, `inbound-attention.js`, pages) | last summary, requests on their way | poll, refresh | the newest answer stays, an old one goes grey |
| Server, bootstrap, storage, geography | files | download, migrate, look up | mostly pure I/O |

### How they meet

Handlers and jobs write the database and raise `isNeedXrayRestart`; the consumer, every
ten seconds, takes the flag and calls `RestartXray(false)`, which synthesises a
configuration from the database (routing injection, DNS, access log, policies), compares
it with the one the process is believed to hold and applies the difference over the
control plane, or restarts. The audit reads the process, its configuration and the
generation together. The traffic job reads and zeroes the core's counters and adds them
to the rows that the quota check judges. Shaping reads the same rows and writes the
kernel. Online, concurrency and bans read the kernel's sockets.

### What is hard

Jobs overlap with themselves and with handlers, nothing spans a handler's database
write and its request, rows are read, changed and written back whole, the core dies
asynchronously, a hot application is a sequence of RPCs of which any may fail, the
panel and single kernel commands may die between any two steps. `PROJECT.json`
`hazards` has each place with its line and the properties that watch it.

## 2. Modules

| module | models | checked in | proved in |
|---|---|---|---|
| `CoreService` | what the lifecycle promises to whoever is behind the core (abstract) | through `XrayLifecycle` | `XrayLifecycleProofs` |
| `XrayLifecycle` | how a change reaches the core | `MCXrayLifecycle` with `XrayLifecycle.cfg`, `XrayConverges.cfg`, `XraySettings.cfg` | `XrayLifecycleProofs` |
| `Lists` | a loop that appends, a query with an order | through `HotDiff`, `Routing` | `ListProofs` |
| `HotDiff` | difference, plan, effect on the core | `MCHotDiff`, by `MCPanel` with `Panel.cfg` | `HotDiffProofs` |
| `InboundQuota` | enable, mark, counters, expiry, reset | `MCInboundQuota` with `InboundQuota.cfg`, `QuotaManual.cfg`, `QuotaExpiry.cfg` | `InboundQuotaProofs` |
| `Shaping` | tc rules and the two-minute rollback | `MCShaping` with `Shaping.cfg`, `ShapingRollback.cfg`, `ShapingFailure.cfg` | `ShapingProofs` |
| `RoutingInject` | what `Inject` makes of the tables, and what the core does with it | through `Routing` | `RoutingProofs` |
| `Routing` | the tables, their requests and jobs, a generation that reads them | `MCRouting` with `Routing.cfg`, `RoutingRefresh.cfg` | `RoutingProofs` |
| `Login` | sign-in, its limiter, the second factor | `MCPanel` with `Panel.cfg` | `PanelProofs` |
| `RouteAudit` | checks of the rules against a core that changes, and the list that shows them | `MCPanel` | `PanelProofs` |
| `AccessLog` | from the core's log to rows and counts | `MCPanel` | `CountProofs` |
| `Online` | bytes per source from tables and notices | `MCPanel` | `CountProofs` |
| `Concurrency` | rounds of the concurrency limit, bans, kicks | `MCPanel` | `PanelProofs` |
| `PanelUpgrade` | the panel replaces itself while a page waits | `MCPanel` | `PanelProofs` |
| `PagePolling` | summaries that a page polls for | `MCPanel` | `PanelProofs` |

`MCPanel` puts eight parts side by side that share no state: `HotDiff` and the seven from
`Login` on. `Init` chooses the part that moves, the others rest in a state of their own `Init`.
An invariant of a part is thus checked in exactly the behaviours of that part, and a run
of the sum of their states is enough where their product would say nothing more. Four of
the parts have links to the rest of the project by what they abstract: `RouteAudit` has the
lifecycle of the core in the few steps that matter to a reader of its generation,
`PagePolling` asks for what `RouteAudit` answers, `AccessLog` reads what the core writes, and
`Concurrency` and `Online` are two views of one tracker: whom it lists, and whose bytes it counts.

In each module an operator that is used nowhere, placed just before the definition it
resembles (`MeterOnlyForgetsOutbounds`, `BuildRedirectFirst`, ...), is a mutant: the
definition with a plausible error. Each checked property has one that breaks it.

### XrayLifecycle

A configuration is a function from *parts* to a version; the parts are what
`ComputeHotDiff` treats differently (inbounds, outbounds, routing rules, metering
outbounds and rules, everything it refuses to swap, the settings page's share of that,
and layout). `db` is what `GetXrayConfig` would synthesise, `snap` is `p.config`, `core`
what the core really holds.

* `Edit` and `SetToNeedRestart` are the two halves of a handler or job; between them
  anything may happen. `SaveSetting` is `updateSetting`, which has no second half.
* `Consume` is the compare-and-swap of the ten-second consumer. From `Acquire` to
  `Release` a goroutine is inside `RestartXray`: `Acquire` reads template and inbounds,
  `ReadRest` the other tables, `ReadFails` is the early return; `NotNeeded`, `SyncLayout`
  and `GoHot` are the ways through `Equals` and `ComputeHotDiff`; `RpcOk`, `RpcFails` and
  `Commit` the plan of `tryHotApply`; `Launch` and `StartFails` the fall to a restart.
* `Killed`, `Load`, `Crash` and `Reap` are the process: killing is asynchronous, a
  starting core reads what `p.config` said, cannot bind a port its predecessor holds,
  and `IsRunning` is TRUE until `cmd.Run` has returned. The finalizer of a dropped
  `Process` is left out: it could only stop more.
* `Watchdog` is `CheckXrayRunningJob`, `Upgrade` the `StopXray ... RestartXray(true)` of
  `UpdateXray` and of a panel reload.
* `obs` is the last `RuntimeSnapshot` of a running core, a history variable: it is what
  the routing audit keys its results by.

### CoreService, and how XrayLifecycle implements it

`CoreService` has no flag, lock, process or RPC. It knows what the database wants, one
change at a time with a goal made of what the database said since the change began, the
last settled goal and what a core that is up serves. A change may take away or bring, part
by part, only what its goal changes (`Alter`); it ends untouched, settled or with the core
down; a core that comes up serves what was settled last. `ServesAsPromised` is its `Spec`
under the refinement mapping of `XrayLifecycle`: `db` for `wanted`, what the holder of the
lock has synthesised for `goal`, `snap` for `settled`, the serving process's configuration
for `held`, and `Stage` for how far the holder is. It is a property of run `XrayLifecycle`
and a theorem. A hot application whose RPC fails leaves the core half-way and the next step
of the abstract specification must be going down: that the code falls to a restart there,
and with the lock still held, is what the refinement needs.

### HotDiff

The same decision as an algorithm: lists of tagged inbounds and outbounds, rules with
destinations, the plan of RPCs in the code's order and a core that answers as
`tryHotApply` expects of it: no second handler of a tag, no second listener on a port,
no deletion of an inbound it lacks, a rule whose outbound is missing falls to the default silently,
and a Reality inbound added by RPC does not come up as configured (the reason the code
gives for restarting). `XrayLifecycle` uses the outcome of this module part by part:
`Plan`, `Accepts`, `After` and `MeterOnly` there are the abstraction of `Plan`, `Accepts`,
`Effect` and `OnlyTouchesTags` here.

What is asked of configurations is named: `ConfigsAssumption` (there is a default outbound, no two
inbounds listen on one port, which `checkPortExist` sees to) and `RulesAssumption` (a rule names an
outbound that is there, the rules of metering come last), which is what `Inject` writes; a hand-written
template that does not keep to the second is outside: there a metering rule may hide another, and a
conclusion moves with the meter. A panel whose old configuration has no api inbound has no port to send
an RPC to (`HasControlPlane`, the guard at `web/service/xray.go:205`).

### InboundQuota

A row has the columns its writers disagree on. Each SQL statement is a step:
`DisableExpired`, `DisableExceeded` (and its failure) are `DisableInvalidInbounds`,
`ResetFind`, `ResetOne`, `ResetEnds` are `ResetDueTraffic` over the rows it read at its
start, `UpdateRead` and `UpdateSave` are `UpdateInbound`, whose form comes from a page
loaded earlier (`View`), `RenewInbound`, `AddTraffic`. `cause` is a history column: why
the row is off. Days are numbers and a month has `Cycle` days. `Consume` hands the enabled
rows to the core in one step: how they get there is `XrayLifecycle`'s subject.

### Shaping

`run` is a plan in execution under `shapingLock`, with the command it has come to;
`Command` executes one, `CommandSkips` is one of the `IgnoreError` commands that fails and is passed
over, whatever it failed of, `CommandFails` any other, with which `Run` returns in the middle, and `PanelRestarts`
may come anywhere. A command that is not ignored must fail when the kernel refuses it (a device
that is not there, or a qdisc where there is one already, for instance one whose
deletion was skipped); otherwise it may fail by chance, before or after it took effect. The job is `JobStarts` (`CheckRollback`), `DesiredLimits` (outside the
lock), `Reconcile`; `RequestArrives` and `Heartbeat` are the two ends of a wait for the
lock. A set of limits is a model value; those of `Cuts` are limits under which no request
gets through. `root`, `ifb`, `queue` (the root qdisc of `a-ui-ifb0`) and `redirect` are the kernel; a
redirection into a device that has been deleted (`"nowhere"`) drops what comes in.
`stranded`, `skipped` and `spoiled` are history variables: interfaces given up by a change of
setting, deletions passed over that had something to delete, and circumstances under which the rollback
is known not to work.

### RoutingInject and Routing

`RoutingInject` is `Inject` as operators: `BuildOutbounds` and `Usable`, `BuildRule` with
`Dropped` (each reason for which a rule is left out), `BuildGeoRules`, `BuildMeterRules`,
and `Inject`, which puts them in order. `Dispatch` is the core's side, external: first
match wins, once or in a second pass with the resolved address, an empty condition is no
condition, an outbound that is not there is the default one. A domain, a CIDR and a
member of the pool are names or addresses of a target; order inside one rule is dropped.

`Routing` keeps the tables as functions from id to row. Ids come back as SQLite gives
them (`NextId`); the serial number `born` tells who a row really is, and `meant` in a rule
whom its form named. `OpenForm`, `NumberForm`, `CheckForm`, `FetchRow`, `SaveForm` are
`addRule` and `updateRule`, which hold neither lock nor transaction; `StartFetch` and
`EndFetch` are a refresh; `StartGeneration` (the flag is taken) and the `Read` steps are
`GetXrayConfig` and `Inject`, one table after the other. Every other request or job is
one step. `needRestart` is the flag.

`sure` is a history column: at the instant of the save the checks still hold of the
same users, groups and node, and the order read is still the order. Rules that are not
sure are exempt from `RulesMeanWhatWasChosen`, `OneRulePerUserAndGroup` and, as far as it speaks of what was chosen, `NobodyElsesRule`: the
code does not protect them. `MovedFor` speaks of the node that was chosen or of one that has gone since:
if between the read of the nodes and that of the rules a node is deleted, another takes its id and a rule is
saved for the new one, the configuration sends that rule to the exit of the deleted node. Three
requests between two reads are needed, and the next generation, which they have asked for, puts it right. A form that was open while one of its inbounds was deleted is
saved as it is, since `validate` looks for groups and nodes only, and two saves that
check before either writes both succeed. `unasked` is a history variable: why the tables
have moved on with the flag down.

### Login

`Blocked`, `Fail` and `Reset` are the limiter's three calls, each under its mutex, at the
places at which `IndexController.login` makes them: `Arrive` asks, `CountFailure` or
`SignIn` records, and other requests come in between. An entry holds what the code holds, the
window is fixed, and `Room` is the making of room in a full table. `VerifyLock`,
`VerifyCompare`, `VerifyRecord` are `TwoFactorService.Verify`; `EnableMatch`, `EnableStep`,
`EnableSecret`, `EnablePending` and `DisableLock` to `DisableStep` are `Enable` and `Disable`
write by write, any of which may fail (`VerifyRecordFails`, `WriteFails`); `Begin` and
`SavePending` run without the mutex. `Rescue` is `a-ui setting -disable2fa`, another process
with no part in the mutex. A code is the period it was made for. `era` numbers the times the
factor was switched on; `passed` and `twice` are history.

### RouteAudit

The core in six actions (`BeginRestart`, `Unneeded`, `SendHot`, `Record`, `Relaunch`,
`CoreSteps`), with the moments between which a reader of process, configuration and
generation can fall: `SendHot` changes the core before `Record` renews `p.config` and the
generation. A check (`Checks`) takes its snapshot and `Pending` under `xrayLock`, then reads the
rules, then asks the core; `ManualStores` and `JobNotes` put its result away, the job with its
last generation and its count of truncated rounds. `PollBegins`, `PollReads`, `PollSnapshot`,
`PollMemo` are `Summaries`, which reads the generation, the rules and results, the process and
the memo at four moments. One rule stands for all, and a configuration for what is checked of it.

### AccessLog

The core writes a line in two halves. `CollectResumes` to `CollectTrims` are `Collect`,
`CollectStores` the transaction that writes rows and cursor, `CollectCommits` the tailer's
offset in memory. `AggregateReads` and `AggregateStores` are one round of
`DomainStatService.Aggregate`, which has a cursor of its own over time and id; ids are
SQLite's and come again, and several lines carry one time. `PanelRestarts`, the two failing
transactions and `DeleteRow` may come at any moment.

### Online

`Dump` reads the table (IPv4, and IPv6 unless it fails), `Update` accounts it, `Notice` is
`recordClosed`; between reading and accounting anything may happen. A connection of the
kernel is `up`, `half` (closed on one side, no longer in the table) or `destroyed`, with a
notice or without. `Credit` is `addPendingLocked` with its bound on addresses. `ForgetAll` is
a restart of the panel. `base` and `credited` are history: the bytes the first table counts
as before its time, and those given to the source.

### Concurrency

`StartRound`, `Judge` and `KickNext` are a round of `Enforce` for one inbound, from its sample to
its last kick (`todo` are those it has still to put out, `out` those it has put out), and anything may happen between them: a sample by somebody else
(`SampleElsewhere`), sources that come and go, requests, the clock. `TakeSample` is `sample` with
`update`; `online.line` is the order in which the tracker first saw the callers it lists,
`quiet` how long each has been idle, `rejected` the keys of `rejectedAt`; `Listed`, `LiveOnly` and
`OverQuota` are the list and the choice made from it. `Judge` puts `setRejected` before the kicks of
the banned, which nothing that reads `rejectedAt` can tell, since rounds do not overlap here. `AskKick`
and the steps of its `order` are `KickAndBan`; `Unban` and `PruneExpired` lift bans, `DeleteBans` and
`DeleteInbound` are the end of `DelInbound`, and `AddInbound` gives the number to the next inbound.
Times are ages in ticks of half a second, as far as they are compared with anything. `arrived` is a history
variable, the order of arrival by the samples whatever the tracker has forgotten; so are
`uprooted` (it has forgotten), `unguarded`, `survivors` (connections that a ban was to end) and the
columns `meant` and `stray` of a ban.

### PanelUpgrade

`StartUpgrade`, `PostUpgrade`, `Sleeps`, `Asks`, `PollUpgrade`, `TimesOut` and `CloseDialog` are the page,
one action from await to await. `DownloadFails`, `StopsPanel`, `Unpacks` and `StartsPanel` are
the script in its transient unit, which goes on when the panel is down. `Reply` is what the
panel that is up answers: nothing, 404 when it is too old for the route, a refusal
when it does not take the page's session, else its version.

### PagePolling

`PassTime` is the timer, `Show` the visibility handler, `AfterOperation` a refresh that a page
asks for; they overlap, and `Receive` and `AskFails` end a request in any order, `Serve`
having answered it at some moment in between.

## 3. What the runs show

| run | question | instance | result |
|---|---|---|---|
| `XrayLifecycle` | safety of the lifecycle | 1 consumer and the administrator's goroutine, 2 process slots, 2 requests of 6 kinds, 1 fault; 2.3 million states | `TypeOK`, `SnapshotFaithful`, `NoUnattendedCore`, `PlanAccepted`, `SameGenSameRouting`, `ServesAsPromised` hold |
| `XrayConverges` | does a request arrive? | 1 request, 2 faults; 0.3 million states | `Converges` holds |
| `XraySettings` | does a saved setting arrive? | no request, 1 event | violated: finding 1 |
| `Panel` | is a difference the same as a restart? (38 x 38 configurations) | eight parts, below; 3.8 million states | `NothingRefused`, `HotEqualsRestart`, `RoutesInBetween`, `MetersChangeNothing` hold |
| | does a code pass once, and a lock last? | 2 requests at a time of 4, 2 sources, a table of 1, 1 failing statement | `CodeOnce`, `LockHolds` hold |
| | is green verified, and no generation skipped? | the job and a check by hand, 3 requests, 2 events | `GreenIsVerified`, `AuditNotSkipped` hold |
| | is every line stored and counted once? | 4 lines, 2 times, reads of 4 half-lines, files of 3, 2 mishaps | `EveryLineOnce` holds |
| | is every byte counted once? | an IPv4 and an IPv6 connection, 2 bytes each, 3 tables, a table of 1 address, 1 failure | `BytesOnce` holds |
| | are latecomers refused and nobody else, and does a ban hold? | 2 callers, one over IPv6, limits 0 and 1, bans of none, one tick and for good, 2 inbounds with one number, 1 order or 1 fault | `LatecomersOnly`, `BanHolds` hold |
| | does the dialog say what happened? | 3 releases (one without the route, one that refuses old sessions), 2 attempts, 3 polls, 2 troubles | `UpgradeTold` holds |
| | is the newest summary shown, and an old one grey? | 4 requests, 3 of them at once, 6 instants, 2 answers | `SummaryTold` holds |
| | types of all parts | | `PanelTypeOK` holds |
| `InboundQuota` | do the four writers agree? | 1 inbound, 2 days a month, 2 units of quota, 1 request, 1 failing statement; 0.65 million states | `QuotaTypeOK`, `EnabledNotMarked`, `ExpiryWins`, `RowsSettle` hold |
| `QuotaManual` | does a switch-off by hand last? | no failing statement | violated: finding 2 |
| `QuotaExpiry` | does what has expired leave the core? | as `InboundQuota` | violated: finding 3 |
| `Shaping` | is the machine safe? | 2 jobs, 2 interfaces, 2 sets of limits of which one cuts, 1 edit, 2 events; 1.8 million states | `TypeOK`, `FloorUnderRedirect`, `ForeignKept`, `KernelSettles`, `PanelComesBackUnlessSpoiled` hold |
| `ShapingRollback` | is the worst case two minutes? | 1 job, no event | violated: finding 4 |
| `ShapingFailure` | is the hash what is in force? | 1 job, 2 edits, 1 event | violated: finding 5 |
| `Routing` | do rules mean, and does the core do, what the administrator was told? | two kinds of start, below; 0.67 million states | nine properties hold, from `RulesMeanWhatWasChosen` to `ConfigFollowsTables` |
| `RoutingRefresh` | does a refresh reach the core? | as `Routing` | violated: finding 6 |

Bounds and why they are enough. *Lifecycle*: two consumers are never in `RestartXray`
together (the lock), and one waiting beside the administrator's goroutine is enough for
every order of two restarts; two slots hold a process and its dying predecessor, and a
third process is started only when a slot is free, which the proofs do without; two
requests are needed for a second one to meet the first half-applied, one for convergence
under two faults. *HotDiff* is a function of two lists: swapped ports, swapped tags,
moved, repeated and empty tags, Reality in the old, the new or both, a second form of the
api inbound and metering outbounds coming and going are each in the set. *Quota*: rows
meet only inside set-wise statements, so one row shows the races; the month's end lies
between the first and the last day. *Shaping*: two jobs
overlap, one event suffices for every finding and every mutant, and two let one meet what another has left: a skipped
deletion and a restart, a failure and a skipped deletion of its repair (one job with three
events has been run as well, 1.2 million states). The interfaces are alike until one is in use, so every start uses the same one. *Routing*: long starts hold one
rule, two inbounds, two groups and a node and take four requests of any kind, enough for an
id to go and come back while a form or a refresh is open; short starts hold every pair of
rules the form accepts, in both orders, under four templates (default outbound with and
without a tag, none at all; addresses resolved never, in the second pass, at once), with
and without a pool, three nodes of which two are leftovers, and take one request and one
generation, so the request falls before, between or after the reads. *Panel*: in `Login` a
code is valid in three periods and there are three, two requests meet at every write, and a table of
one entry is full at once; in `RouteAudit` three requests make the core leave and take up a
configuration again while a poll is open; in `AccessLog` a file of four lines is emptied and
written past its old length, and a batch of one row falls between two rows of one time; in
`Online` three tables are a base, an accounting and one more, and each retention runs out
within them; in `Concurrency` two callers and a limit of one make an elder and a latecomer, who may
change places, and an order or a fault falls between any two steps of a round (three callers with limits up to
two under one fault, and an order together with a fault, have been run as well, 6.6 and 3.6 million states);
in `PanelUpgrade` two attempts let the end of one meet the other; in
`PagePolling` three requests are enough for the oldest to come last.

Fairness. Cron fires jobs for ever and code that holds a lock or has begun goes on: weak
fairness of each job and continuation. A command of a plan comes to an end one way or another, by
success or by failure (`exec` kills it after ten seconds); which one, nothing assumes. `sync.Mutex` hands over to a waiter that has waited
for a millisecond, hence strong fairness of `Acquire`. The operating system starts, kills
and reaps processes. Nothing is assumed of requests, faults, edits, clocks that tick or
browsers, and nothing in the parts of `Panel`, whose properties are all safety, with one exception: in `Shaping` time passes (`Timeout`), or two minutes would
never end.

### Findings

1. **Saved settings do not reach the core** (`web/controller/setting.go:67`). The settings
   page and a comment in `xray.go` promise about ten seconds; nothing raises the flag.
2. **A switch-off by hand may undo itself** (`web/service/inbound.go:265`). The comparison of
   the old and the new `Enable` comes after the assignment, so it compares equal values.
3. **An expired inbound may stay in the core** (`web/job/check_inbound_job.go:19`). When the
   second statement fails, the rows the first one disabled are dropped with the error.
4. **A late heartbeat confirms limits that cut the panel off** (`web/service/shaping.go:196`).
   It waits for the lock while they are being installed.
5. **The hash of limits that are gone is kept** (`web/service/shaping.go:178`). Going back to
   them after a failed change does nothing.
6. **A refresh that half succeeds does not reach the core** (`web/controller/routing.go:370`).
   When one address fails, the content of the others is written and an error returned; the
   request and the job raise the flag only without an error. A comment in `routing.html` says
   the core's conditions change all the same.

### Exemptions inside properties that hold

`Converges` exempts a request whose configuration could not be synthesised: the flag is
already down and nothing repeats it, except the watchdog if the core is down as well.
`KernelSettles` exempts limits that were rolled back once (`shapingRejectedHash` is
never cleared, and the page stops saying so at the next change that succeeds), an unknown interface
and, by finding 5, a failed plan. `FloorUnderRedirect` exempts an interface given up while limits
were in force: its ingress stays redirected to a device that is then deleted. It also exempts, of
the rules of an interface, the very deletion that would have taken them away, when it failed, was passed over
(`skipped`) and has not been made good since: `delIngress` for the redirection, `delRoot` for the rules
beside `a-ui-ifb0`. `Run` skips every failure of a command marked `IgnoreError`, not only "it was
not there" (`tcshape_linux.go:34`), and the teardown then counts as a success: when the deletion of the root qdisc fails and that
of `a-ui-ifb0` succeeds, the rules stay, and neither memory nor mark says any more that they are the panel's. `ForeignKept` exempts the same for the administrator's qdisc: when its
deletion is skipped, the plan that was to replace it fails at the next `tc qdisc add` and leaves
`a-ui-ifb0` behind, so that a later teardown takes the qdisc for the panel's.
`PanelComesBackUnlessSpoiled` exempts the first limits after a start, which the code by
design does not arm, findings 4 and 5, a changed interface, and a skipped deletion: a rollback whose
deletions fail counts as a success and is not repeated. `ConfigFollowsTables`
exempts, until the next generation, finding 6, a deletion that fails at the bans after the
meter pool was cleaned, and a pool that could not be read, which by design counts as empty.
`RefreshOnlyAdds` speaks of addresses whose last answer is in `domain_group_subscriptions`:
when a group is deleted and another with the same id and addresses created while a refresh
of the first is under way, the second receives content without a row, and its own next
refresh that fails drops it.

* `CodeOnce` is per switching-on: Enable takes the code of its match as the last one, so the
  first sign-in needs a later one. It exempts (`crossed`) a factor that was switched on while
  a rescue from the command line was between its three writes, which knows no mutex.
* `LockHolds` speaks of locked sources, not of counts: `Fail` counts nothing for a new source
  when the table is full, and the table is also full of sources that are merely counting
  within their window, where the comment at `login_limiter.go:83` speaks of locked ones.
* `GreenIsVerified` excuses a change that had not raised the flag when the poll began, a
  poll that cannot read the database (`pending` is then taken for settled by design), and a
  result whose rule changed between the check's snapshot and its reading of the rules. A
  change and its reversal during a restart, while the old process still answers, give such a
  result too (`crossed`).
* `AuditNotSkipped` lets the job give a generation up after a number of truncated rounds.
* `EveryLineOnce` exempts lines that were emptied out of the file before they were read:
  `CollectTrims` empties a file that is too long after every round, also when a read has
  stopped at its limit, although the comment at `tailer.go:163` asks to do so only when all is
  consumed. For the counts it exempts deleted rows and rows whose time the counting has
  passed, as `database/model/domain_stat.go` documents.
* `BytesOnce` exempts connections accounted before a restart of the panel that are not in the
  first table after it (a connection in CLOSE_WAIT; its notice is then taken in full), and
  those that stay out of the table longer than their counter is kept (an IPv6 table that
  cannot be read for ten minutes).
* `LatecomersOnly` exempts callers whose first sample the tracker has lost: a table without its IPv6
  half drops every source over IPv6 at once and the next one takes them for new, and after a restart of the panel
  the order is that of addresses, although the comment at `concurrency.go:18` speaks of leaving alone
  who is online. A round in which reading bans or the idle timeout fails is exempt by design.
* `BanHolds` exempts a ban that is written after `DelInbound` has deleted the inbound's bans
  (`stray`): `KickAndBan` does not look whether the inbound is still there before it writes, and, as
  the comment at `inbound.go:204` says itself, no job clears orphaned bans, so the next inbound
  with the number has it. Requests and rounds in which a kick fails are exempt; when the transaction of
  `DelInbound` fails, the inbound stays and its bans are lost.
* `UpgradeTold` exempts a target that was running already when it was chosen (the list offers
  it, and the first poll says "done" of the old process), a session ended elsewhere ("relogin"
  says that the panel has restarted), and for an unverified "done" another administrator's
  upgrade in between.
* `GreyWhenOld` in `SummaryTold` waits three rounds: the two that the comment at
  `routing-audit.js:10` speaks of are enough only if a failure takes longer than the last
  success took.

## 4. Proofs

The theorems hold for all values of the constants under the modules' assumptions
(each module names its own), which state that ids, threads and `None` are distinct, that numbers are
natural, that sets of connections and tables are finite, that groups name addresses that serve something,
and, of the tables `Routing` starts from, what the requests make true of tables (`StartsAssumption`:
ids count from one, serial numbers and tags are given once, a rule marked `sure` is as the form accepts it;
`TemplatesAssumption`: the outbounds of the template have tags of their own, none of which looks like one of the
panel's, and its rules name outbounds it has; `PoolsAssumption`: the pool is finite and a name is not an address).

`XrayLifecycleProofs`. `TypeCorrect` is inductive as it stands. The three state invariants
are not, and are proved together from `IInv`:
* `Faithful` says what `SnapshotFaithful` needs while the lock is held: outside the RPC
  and launch phases a serving core equals `Body(snap)`; it is lost only on the way from
  the first RPC to `Commit` or `Launch`.
* `HotPlan` says what `todo` may be: a final segment of `Plan(snap, new)`.
* `HotCore` says what the core holds half-way through it: new where the plan has passed,
  gone between a deletion and its addition, old elsewhere. From it follow `PlanAccepted`
  and, when `todo` is empty, that `Commit` records the truth.
* `NoUnattendedCore` is inductive beside them because `Launch` kills the old slot in the
  step that moves `p`.

`GenerationNamesRouting` is an action property: with `ObsCurrent` (an observation is never
of a later generation than the present, and of the same one only with the present
routing) each step either keeps `obs`, or renews it under a new generation, or under the
same one and an equal routing, because `MeterOnly` leaves out exactly the metering part.

`InboundQuotaProofs`. The invariants speak of rows, but rows are overwritten by copies
read earlier, so `IInv` states soundness (on implies unmarked; a marked row was switched
off by quota or by hand; its last reset is not ahead) also of the copy a request holds and
of the copies the reset job holds. `ResetInstantPast` is the arithmetic lemma: the reset
instant is never ahead of its day.

`RoutingProofs`. *Subscriptions*: a refresh against every request and
job. Both properties need `FetchHolds`, which says of a refresh under way that it holds nothing but
addresses it read and that, if its group still has exactly these, it has read all that is
kept of it: groups change their addresses only by emptying what was subscribed, and
`subscriptionMu` admits no second refresh. A group that comes under an id given again is
told apart by its serial number, which no group exceeds.
*Flag*: `ConfigFollows` needs `FlagInv`: while the flag is down and nothing has been missed
(`Calm`), each table that the generation under way has read is still as it was read (`Fresh`).
The pool alone is not: `DelInbound` and `PruneOrphans` clean it without the flag, but then only of
entries that `filterMeterPool` leaves out, so the invariant speaks of the filtered pool.
*Rules*: `RulesMean` and `OneRule` are proved together from `RuleInv`: a new id is a free one
(`NewId`, from the maximum of a finite set), what a rule refers to stays as long as the rule, and
rules that both follow new users (`apply_to_new_inbounds`) share no group (`Apart`). This last is why
`checkConflict` compares such rules by group alone: `AttachInbound` would bring two of them together at
the next new user. `Apart` is kept by a deleted user because `planInboundDetach` deletes a rule for
this user alone instead of leaving it without users, which would be all of them.
*Types*: serial numbers grow, so no two rows are one, and a pigeonhole argument (`NewTag`) gives
that `allocTag` ends with a tag that nobody has.
*The generated configuration*: `RulesAlwaysDecide`, `MeteringOnlyMeasures` and `OnlyOwnRules` say of every generation that ends
what a core does with what `Inject` made. Most of the proof is about operators and speaks of no state. `Verdict` is what the first
matching rule of a list names, and of lists put in a row the first that has a verdict decides (`VerdictJoined`,
`VerdictFlat`); so each builder is asked for its verdict alone: `RulesSay` (the user rules in their order), `BlocksSay`
and `GeoSays` (denials by region), `MeterSays` (the pool). `Ruling` and `Decision` put them together, `DispatchSays` carries both passes of
the core through them, and `Delivers` says that the outbound named is built, under one tag only, and goes where
promised; that nothing ends at an outbound which is not there is a part of it. All this holds of tables that are `Given`, which are weaker than those of one moment:
rules, nodes and users may have been read at different times.
The invariant `ReadInv` brings the tables a generation has read under `Given`. It is not enough to know the tables of the
moment, because the reads of one generation belong to different moments: `GenFits` keeps what each read
relied on, and `GenKnows` relates the reads to one another and to the present. Its `Known` says that a serial number read and
still in a table is in the place it was read at, since numbers are never given again; its `MeansStill` that a rule marked
`sure`, beside the users and nodes read before it, means whom its form named, or somebody deleted since.
From the latter `NobodyElsesRule` follows, which would not hold if it demanded that nobody has gone.
`ReadInv` was checked by TLC with the constants of `Routing.cfg` before it was proved; no run repeats that.

`ShapingProofs`. `FloorAlways` needs to know of a plan half-way what its position says of the kernel
(`AtWork`): which of its commands have run or been skipped, so what `ifb`, `queue`, `root` and `redirect` are when the next
fails or the panel dies; that of the interfaces not given up only the present one carries rules of the panel, and that a plan under way
is about it (`Lonely`); and that, while the interface has not changed, memory or marker are right when they say that
the root qdisc is the panel's (`OursKnown`), unless its deletion has been skipped, from which `ForeignIsKept` follows. A command is
one step for the whole kernel, but `AtWork` speaks of one interface: `OpOnDevice` and `EffectOnDevice`
bring a command down to the interface of the plan, and `EffectKeepsFloor` says that none of them opens the floor under it.

`CountProofs`, of what is counted. `EveryByteOnce`: the counter remembered of a connection is never ahead of a table still
to be accounted or of the kernel (`Trails`), and what has been told of a connection is what the tracker remembers
of it, nothing if it remembers nothing and a table or notice may still come (`Accounted`). The attempt showed that `base` was wrong in the model for larger
bounds (a notice of a connection that had been seen in a table counted it as before its time); it
was corrected. `Conns` is finite, as the kernel's table is.
`EveryLineCounted`: the stored cursor is taken up only in the file it was written for, since the first
whole line of a file that was emptied is a later one than the `head` it remembers (`Following`); so it
divides the file into lines that are rows and lines that are not yet (`StoredOnce`). A line has one row, also among
those that a round of counting has read and somebody has deleted since (`Rows`). The point of the counting divides
the rows into counted and uncounted but for late ones, and of the rows up to the last one a round has read there is
none that the round leaves out unless it is late (`CountedOnce`). The lemma `Greatest` (a finite set of numbers has
a greatest) gives `Peek` the last line end it may read to and a round its last row. Before the proof, the
invariant, `LogInv`, was checked by TLC for up to four lines; no run repeats that.

`CoreServiceImplemented` is the refinement. Initial states map to initial states; each action
of `XrayLifecycle` maps to one of `CoreService` or to a stutter, by a step simulation under
`IInv`: `HotCore` gives that an RPC touches only what the
goal changes, `Faithful` that a change left or finished leaves a serving core with what is
settled.

`PanelProofs`, what the pages show and who signs in. `RouteAudit`: `GreenHolds` rests on three invariants: while the
core runs a generation is one configuration, for those who have read it as well (`Certain`); "nothing pending", as the
memo remembers it for a generation, a number of the last change and a configuration held, stays right until a change asks for delivery (`Remembers`); and a poll
knows what the database wanted since it began (`Polled`). `AuditRests`: what the job notes as its last
generation is in the cache under that generation, and only a later one replaces it.

`PagePolling`: `NewestShown` needs that an answer is never older than its request's
sending and that of two requests the later was sent later, with the numbers in `waiting` all
different; `GreyWhenOld` needs that the timer has run within the last interval while the
page is visible and that `lastAttemptAt` follows it, as long as the bound on requests has not
stopped the timer's actions.

`PanelUpgrade`: the invariant follows an answer on its way: a version heard is one that
runs or has run since the attempt began, a 404 that a release without the route did, a refusal
that the session is gone or a release was started that refuses it; and the unit of this attempt
installs the dialog's target unless somebody meddled.

`Login`: `CodePassesOnce`: who is between `compare` and the end of a write holds the
mutex (`Mutex`), so `lastStep` covers every code that has passed in the present era (`Covered`),
and Verify accepts only a later one. Switching off clears the secret before the step, and a
failure in between leaves a step with no secret, which `Enable` overwrites before it writes the
secret (`Enabling`, `NoSecret`); a rescue can only come to clear the step after it has
cleared the secret (`Rescuing`), unless a new era begins in between, which is `crossed`.
`LocksHold`: an entry leaves the table by `Evict` only when its lock is over, and a failure of
a locked source, which an old request may still bring, puts the lock off but never ends it
earlier.

`Concurrency`: `BansHold`: from an order's ban to its kick only its caller can be unguarded (`OrderCovers`);
whoever is connected against a ban older than the round is in the sample the round judges and is then among
those it puts out (`out`), unless something has failed (`RoundCovers`); and a ban that is not `stray` is of the
present inbound, whose bans have not been deleted yet (`Meant`).

`HotDiffProofs`. Two lists are compared tag by tag, so the first thing to know is what a loop that appends
leaves: `FilteredKeeps` (in `ListProofs`) says that `Filtered` keeps the order and exactly the entries in the set. It is an
induction over the list, in a form that first-order provers can use: the lemmas `Smallest` and `Induction`
speak of a set of numbers, and the set is that of the prefixes for which the recursion is right. Where tags are unique,
what a list has `Touched` is then the difference of two sets (`FoundByTag`), and what is added again is
the difference the other way round (`AdditionsAre`). `PlanIs` puts the five kinds of RPC in a row: no tag
twice in a kind, kinds in the order of `Rank`. The invariant, `HotInv`, is that the core is what the first `k`
RPCs have made of a core started with the old configuration (`CoreAfter`), for a `k` such that the
rest is still to send. `StepOfPlan` is the induction step: the next RPC is accepted because
everything of its tag or port has gone before, and adds one to `k`. From it all four: nothing is refused; when `k` is the
whole plan, removed and added sets cancel and the core is `Boot(new)` (`Ends`); half-way the
rules are still the old ones (`RulesLast`), so a route changes only with its outbound; and a conclusion is what the
rules other than those of metering say (`ConclusionIs`), because those come last.
Both assumptions are needed: without unique ports the second of two inbounds on one port is refused, and with a metering
rule before another `MetersChangeNothing` fails in TLC.

Only model-checked: everything temporal under fairness (`Converges`, `KernelSettles`, `RowsSettle`,
`PanelComesBackUnlessSpoiled`), which the prover does not reach;
`LatecomersOnly`, which speaks of an order made by `SortSeq` and `SelectSeq`, whose definitions the prover cannot expand; and `PanelTypeOK`, the union of types the parts' proofs do not need.

## 5. Not modelled

* Formatting, parsing and validation of configurations, links and binary databases; JSON
  normalisation in the hot diff is equality here.
* The data race between `Start` returning and its goroutine forking the core; `Launch`
  takes both as one step, because `Start` runs another program to its end in between.
* The ring of output lines; shutdown for good, where `Server.Stop` stops the core before the cron.
* What a failed transaction of the traffic job drops: the core's counters are zeroed by the
  reading, and the code accepts the loss with a line in its log.
* In `Login`: changes of password, sessions, the time a comparison takes.
* In `RouteAudit`: how samples are chosen and the evidence of the access log weighed, the
  anomaly scan, the probe.
* In `AccessLog`: the parsing of a line, a file emptied by somebody else, `DeleteByInbound`
  inside a round of Collect, the migration of an old cursor, collection that is switched off.
* In `Online`: rates, and who is shown as online.
* In `Concurrency`: several inbounds in one round, an inbound that is switched off, two rounds at once (cron starts
  the next on time even if the last one hangs), the marks and the order of the page, what is logged only once.
* In `PanelUpgrade`: archives and checks of the release, two pages of one administrator.
* In `InboundQuota`, creation and deletion of inbounds; months of different lengths.
* In `Routing`: two rule forms at once, the steps inside requests other than the rule form and
  the refresh, rows whose JSON does not decode (except of nodes), import, the DNS injector, and
  the gap between a write and the flag it raises (`XrayLifecycle` has it).
* In `Shaping`: a single class or filter that fails within `rootLeaves` or `ifbLeaves` (the device is then
  as after `rootClass` or `ifbClass`, or has all of them); `Reachable` is conservative, a tree without its default
  class counts as one through which no request gets.
* The `tc-clear` command, which ignores the panel's lock and its configured interface.
* The components of `PROJECT.json` with status `not_modelled`, each with its reason.

## 6. What is left

The order in which the project would go on:

1. Import of a portable file as a second writer of the tables of `Routing`, with its own
   checks; `Inject` composed with `HotDiff`, whose configurations it should produce.
2. In `Concurrency`: overlapping rounds and several inbounds.
3. Shutdown in `XrayLifecycle`: a consumer that waits for the lock while `Server.Stop` runs.
4. Proofs: `LatecomersOnly` (lemmas on the sorted list of those who are in line).
