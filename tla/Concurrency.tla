----------------------------- MODULE Concurrency -----------------------------
(***************************************************************************)
(* The limit on simultaneous sources of an inbound and its banned sources: *)
(* Enforce (web/service/concurrency.go, every second by ConcurrencyJob)    *)
(* judges a list taken from onlineTracker and disconnects the banned and   *)
(* then the latecomers one by one, while pages and jobs take samples,      *)
(* sources come and go, an administrator kicks, bans and unbans            *)
(* (web/service/ipban.go) and deletes the inbound, whose number SQLite     *)
(* gives to the next one.                                                  *)
(*                                                                         *)
(* One inbound and its successors, on one port.  A sample is read and      *)
(* accounted in one step (module Online takes it apart) and a source has   *)
(* or has no connections, all of which a kick destroys.  Times are ages in *)
(* ticks of onlineMinSampleInterval, and of the first-seen times only the  *)
(* order is kept, in which callers first seen by one sample follow their   *)
(* addresses (the two keys selectOverQuota sorts by).                      *)
(***************************************************************************)
EXTENDS Integers, Sequences, FiniteSets
LOCAL INSTANCE SequencesExt
LOCAL INSTANCE Functions

CONSTANTS
  Callers,       \* source addresses, numbered in the order of their bytes
  SixCallers,    \* those over IPv6
  Quotas,        \* concurrency limits an administrator sets; 0 is none
  Terms,         \* banSeconds: 0 only kicks,
  Forever,       \* a negative one: bans for good
  IdleAfter,     \* concurrencyIdleTimeout, 0 is off
  MaxSampleGap,  \* onlineMaxSampleGap
  MaxRound,      \* bound: ticks a round takes
  MaxInbounds,   \* bound: inbounds with the number, one after the other
  Budgets        \* bounds: orders, which are kicks, bans and changes of the limit, together
                 \* with faults, which are calls that fail and restarts of the panel

ASSUME ConcurrencyAssumption ==
  /\ Callers \subseteq Nat /\ SixCallers \subseteq Callers /\ Quotas \subseteq Nat
  /\ Terms \subseteq Nat \cup {Forever} /\ Forever \notin Int /\ {IdleAfter, MaxInbounds} \subseteq Nat
  /\ Budgets \subseteq [orders : Nat, faults : Nat]
  /\ {MaxSampleGap, MaxRound} \subseteq Nat \ {0}

VARIABLES
  inb,        \* the inbound's row: there or not, its limit, how many had the number before
  linked,     \* callers with connections
  ban,        \* rows of the table of bans: caller -> ticks left, and history: the inbound
              \* the administrator meant, and whether that one was on its way out
  online,     \* onlineTracker: age of the last sample, ips in the order they were first
              \* seen, quiet[c] since c was last active, keys of rejectedAt
  round,      \* Enforce under way
  order,      \* a kick with or without a ban under way
  cleaned,    \* DelInbound has deleted the bans and not the inbound yet
  arrived,    \* history: callers by the first of the unbroken series of samples they were
              \* connected at
  uprooted,   \* history: callers whose first sample the tracker lost
  unguarded,  \* history: the caller of the order under way, if it was connected when its ban
              \* was written and is since
  survivors,  \* history: callers who were banned when the last round began, in its sample, and
              \* connected and banned since
  ordersLeft, faultsLeft

trackTold == <<arrived, uprooted>>
banTold   == <<unguarded, survivors>>
concVars  == <<inb, linked, ban, online, round, order, cleaned, trackTold, banTold,
               ordersLeft, faultsLeft>>

NoRound == [pc |-> "idle", out |-> {}, todo |-> <<>>, clean |-> TRUE]
NoOrder == [todo |-> <<>>, clean |-> TRUE]
TooOld == MaxSampleGap + 1        \* older than any gap, or never
NewOnline == [age |-> TooOld, line |-> <<>>, quiet |-> <<>>, rejected |-> {}]

(* In force some ticks ago, or written since. *)
InForce(c, ago) == c \in DOMAIN ban /\ (ban[c].left # Forever => ban[c].left + ago > 0)
Fault == faultsLeft > 0 /\ faultsLeft' = faultsLeft - 1
Order == ordersLeft > 0 /\ ordersLeft' = ordersLeft - 1

ConcInit ==
  /\ linked = {} /\ ban = <<>> /\ online = NewOnline
  /\ inb \in [there : {TRUE}, limit : Quotas, born : {1}]
  /\ round = NoRound /\ order = NoOrder /\ cleaned = FALSE
  /\ arrived = <<>> /\ uprooted = {} /\ unguarded = {} /\ survivors = {}
  /\ \E budget \in Budgets : ordersLeft = budget.orders /\ faultsLeft = budget.faults

-----------------------------------------------------------------------------
(* The callers and the clock. *)
Dial(c) ==
  /\ inb.there /\ c \notin linked /\ linked' = linked \cup {c}
  /\ UNCHANGED <<inb, ban, online, round, order, cleaned, trackTold, banTold, ordersLeft, faultsLeft>>

Cut(callers) ==
  /\ linked' = linked \ callers /\ unguarded' = unguarded \ callers
  /\ survivors' = survivors \ callers

HangUp(c) ==
  /\ c \in linked /\ Cut({c})
  /\ UNCHANGED <<inb, ban, online, round, order, cleaned, trackTold, ordersLeft, faultsLeft>>

(* Every age grows, up to where it makes no difference any more. *)
Older(age, cap) == IF age < cap THEN age + 1 ELSE cap
GrowOlder ==
  /\ round.pc # "idle" => round.ago < MaxRound
  /\ round' = IF round.pc = "idle" THEN round ELSE [round EXCEPT !.ago = @ + 1]
  /\ ban' = [c \in DOMAIN ban |->
               IF ban[c].left = Forever \/ ban[c].left = -MaxRound THEN ban[c]
               ELSE [ban[c] EXCEPT !.left = @ - 1]]
  /\ online' = [online EXCEPT !.age = Older(@, TooOld),
                                !.quiet = [c \in DOMAIN @ |-> Older(@[c], IdleAfter + 1)]]
  /\ UNCHANGED <<inb, linked, order, cleaned, trackTold, banTold, ordersLeft, faultsLeft>>

-----------------------------------------------------------------------------
(* sample and update.  The table is of all connections or, when its IPv6 half  *)
(* fails, of the others; who is not in it is forgotten at once.  How much of    *)
(* rejectedAt has outlived onlineRejectRetention is left open here (setRejected *)
(* drops what is that old as well).                                             *)
SampleDue == online.age > 0
HasBaseline == online.age \in 1..MaxSampleGap
Renewed(line, seen) ==
  SelectSeq(line, LAMBDA c : c \in seen) \o SetToSortSeq(seen \ ToSet(line), <)
Quiet(c, busy) == IF c \in busy \/ c \notin DOMAIN online.quiet THEN 0 ELSE online.quiet[c]

TakeSample ==
  /\ SampleDue
  /\ \E lacks \in {{}, SixCallers} :
       /\ IF lacks = {} THEN UNCHANGED faultsLeft ELSE Fault
       /\ LET seen == linked \ lacks
          IN  \E busy \in IF HasBaseline THEN SUBSET seen ELSE {{}},
                 rejected \in SUBSET online.rejected :
                online' = [age |-> 0, line |-> Renewed(online.line, seen),
                            quiet |-> [c \in seen |-> Quiet(c, busy)], rejected |-> rejected]
       /\ uprooted' = (uprooted \cup lacks) \cap linked
  /\ arrived' = Renewed(arrived, linked)

(* By a page, by OnlineSampleJob or by the sampling for shared accounts. *)
SampleElsewhere ==
  /\ TakeSample
  /\ UNCHANGED <<inb, linked, ban, round, order, cleaned, banTold, ordersLeft>>

-----------------------------------------------------------------------------
(* Enforce, for the inbound if limitedInbounds finds it: a sample is taken      *)
(* unless the last one is younger than a tick; if it fails, the round ends.     *)
StartRound ==
  /\ round.pc = "idle" /\ inb.there /\ (inb.limit > 0 \/ \E c \in Callers : InForce(c, 0))
  /\ (TakeSample \/ (~SampleDue /\ UNCHANGED <<online, trackTold, faultsLeft>>))
  /\ round' = [pc |-> "judge", ago |-> 0, limit |-> inb.limit, out |-> {}, todo |-> <<>>,
               faults |-> faultsLeft', clean |-> TRUE]
  /\ survivors' = {c \in linked \cap DOMAIN online'.quiet : InForce(c, 0)}
  /\ UNCHANGED <<inb, linked, ban, order, cleaned, unguarded, ordersLeft>>

(* The list of snapshotAt, as selectOverQuota sorts it: callers rejected not     *)
(* long ago that the last sample did not see come with no connections and no   *)
(* first-seen time, before those it saw.                                       *)
Listed == SetToSortSeq(online.rejected \ ToSet(online.line), <) \o online.line
Connected(c) == c \in DOMAIN online.quiet
Dormant(c) == IdleAfter > 0 /\ online.quiet[c] > IdleAfter

(* liveOnly and selectOverQuota. *)
NotOut(list, out) == SelectSeq(list, LAMBDA c : c \notin out)              \* a mutant
LiveOnly(list, out) == SelectSeq(list, LAMBDA c : Connected(c) /\ c \notin out)
OverQuota(live, limit) == IF limit = 0 THEN <<>> ELSE SubSeq(live, limit + 1, Len(live))

(* Kick reads the connections anew; it finds no inbound after a deletion.       *)
Kick(c) ==
  \/ /\ Cut({x \in {c} : inb.there}) /\ UNCHANGED faultsLeft
  \/ /\ Fault /\ UNCHANGED <<linked, banTold>>

(* The banned callers of round.out are kicked one by one in the order of their  *)
(* addresses, then those of round.todo.                                         *)
GoOn(out, todo) ==
  round' = IF out # {} \/ todo # <<>> THEN [round EXCEPT !.pc = "kick", !.out = out, !.todo = todo]
           ELSE [NoRound EXCEPT !.clean = survivors' = {} \/ round.faults # faultsLeft']

(* The judgement and setRejected.  ActiveBans may fail, or the reading of the   *)
(* idle timeout, and the round goes on without.                                 *)
Kicks(banned) == {c \in banned : Connected(c)}
Judge ==
  /\ round.pc = "judge"
  /\ UNCHANGED <<inb, linked, ban, order, cleaned, trackTold, banTold, ordersLeft>>
  /\ \E fails \in {"none", "bans", "timeout"} :
       /\ IF fails = "none" THEN UNCHANGED faultsLeft ELSE Fault
       /\ LET banned == {c \in Callers : fails # "bans" /\ InForce(c, round.ago)}
              idle   == {c \in ToSet(online.line) : fails # "timeout" /\ Dormant(c)}
              over   == OverQuota(LiveOnly(Listed, banned \cup idle), round.limit)
          IN  /\ GoOn(Kicks(banned), over)
              /\ online' = [online EXCEPT !.rejected = @ \cup ToSet(over)]

KickNext ==
  /\ round.pc = "kick"
  /\ \/ \E c \in round.out : /\ \A b \in round.out : c <= b
                             /\ Kick(c) /\ GoOn(round.out \ {c}, round.todo)
     \/ round.out = {} /\ Kick(Head(round.todo)) /\ GoOn({}, Tail(round.todo))
  /\ UNCHANGED <<inb, ban, online, order, cleaned, trackTold, ordersLeft>>

-----------------------------------------------------------------------------
(* KickAndBan, from a page that was opened while the inbound was there.         *)
StepsKickFirst(term) == IF term = 0 THEN <<"kick">> ELSE <<"kick", "ban">>  \* a mutant
Steps(term) == IF term = 0 THEN <<"kick">> ELSE <<"ban", "kick">>
AskKick(c, term) ==
  /\ order.todo = <<>> /\ inb.there /\ Order
  /\ order' = [todo |-> Steps(term), caller |-> c, term |-> term, born |-> inb.born,
               faults |-> faultsLeft, clean |-> TRUE]
  /\ unguarded' = {}
  /\ UNCHANGED <<inb, linked, ban, online, round, cleaned, trackTold, survivors, faultsLeft>>

(* The rest of the request; with the last step it returns.                      *)
Proceed ==
  order' = IF Len(order.todo) > 1 THEN [order EXCEPT !.todo = Tail(@)]
           ELSE [NoOrder EXCEPT !.clean = unguarded' = {} \/ order.faults # faultsLeft']

(* Ban: one row per caller and number, without a look at the inbound.  If the   *)
(* write fails, the request ends.                                               *)
WriteBan ==
  /\ order.todo # <<>> /\ Head(order.todo) = "ban"
  /\ LET row == [left |-> order.term, meant |-> order.born,
                 stray |-> cleaned \/ ~inb.there \/ order.born # inb.born]
     IN  ban' = [c \in DOMAIN ban \cup {order.caller} |-> IF c = order.caller THEN row ELSE ban[c]]
  /\ unguarded' = {order.caller} \cap linked
  /\ UNCHANGED <<inb, linked, online, round, cleaned, trackTold, survivors, ordersLeft, faultsLeft>>
  /\ Proceed
BanFails ==
  /\ order.todo # <<>> /\ Head(order.todo) = "ban" /\ order' = NoOrder
  /\ UNCHANGED <<inb, linked, ban, online, round, cleaned, trackTold, banTold, ordersLeft, faultsLeft>>

KickAsked ==
  /\ order.todo # <<>> /\ Head(order.todo) = "kick" /\ Kick(order.caller) /\ Proceed
  /\ UNCHANGED <<inb, ban, online, round, cleaned, trackTold, ordersLeft>>

Lift(callers) ==
  /\ ban' = [c \in DOMAIN ban \ callers |-> ban[c]]
  /\ survivors' = survivors \ callers
Unban(c) ==
  /\ c \in DOMAIN ban /\ Lift({c})
  /\ UNCHANGED <<inb, linked, online, round, order, cleaned, trackTold, unguarded,
                 ordersLeft, faultsLeft>>
Prunable == {c \in DOMAIN ban : ~InForce(c, 0)}
PruneExpired ==
  /\ Prunable # {} /\ Lift(Prunable)
  /\ UNCHANGED <<inb, linked, online, round, order, cleaned, trackTold, unguarded,
                 ordersLeft, faultsLeft>>

-----------------------------------------------------------------------------
(* The inbound is edited, deleted - its bans first, and a failure there ends    *)
(* the request - and followed by another with its number.  The core ends its    *)
(* connections.                                                                 *)
SetLimit(limit) ==
  /\ inb.there /\ limit # inb.limit /\ Order /\ inb' = [inb EXCEPT !.limit = limit]
  /\ UNCHANGED <<linked, ban, online, round, order, cleaned, trackTold, banTold, faultsLeft>>

DeleteBans ==
  /\ inb.there /\ inb.born < MaxInbounds /\ ~cleaned /\ cleaned' = TRUE /\ Lift(Callers)
  /\ UNCHANGED <<inb, linked, online, round, order, trackTold, unguarded, ordersLeft, faultsLeft>>

DeleteInbound ==
  /\ cleaned /\ cleaned' = FALSE
  /\ \/ Cut(linked) /\ inb' = [inb EXCEPT !.there = FALSE] /\ UNCHANGED faultsLeft
     \/ Fault /\ UNCHANGED <<inb, linked, banTold>>
  /\ UNCHANGED <<ban, online, round, order, trackTold, ordersLeft>>

AddInbound(limit) ==
  /\ ~inb.there /\ inb' = [there |-> TRUE, limit |-> limit, born |-> inb.born + 1]
  /\ UNCHANGED <<linked, ban, online, round, order, cleaned, trackTold, banTold,
                 ordersLeft, faultsLeft>>

(* A restart of the panel: what is in memory is gone, the connections are not.  *)
RestartPanel ==
  /\ Fault /\ online' = NewOnline /\ round' = NoRound /\ order' = NoOrder /\ cleaned' = FALSE
  /\ uprooted' = linked \cup ToSet(arrived) /\ survivors' = {}
  /\ UNCHANGED <<inb, linked, ban, arrived, unguarded, ordersLeft>>

ConcNext ==
  \/ \E c \in Callers : Dial(c) \/ HangUp(c) \/ Unban(c) \/ \E term \in Terms : AskKick(c, term)
  \/ GrowOlder \/ SampleElsewhere
  \/ StartRound \/ Judge \/ KickNext
  \/ WriteBan \/ BanFails \/ KickAsked \/ PruneExpired
  \/ DeleteBans \/ DeleteInbound \/ RestartPanel
  \/ \E limit \in Quotas : SetLimit(limit) \/ AddInbound(limit)
ConcSpec == ConcInit /\ [][ConcNext]_concVars

-----------------------------------------------------------------------------
(* Every variable has its type. *)
ConcTypeOK ==
  /\ inb \in [there : BOOLEAN, limit : Quotas, born : 1..MaxInbounds]
  /\ {linked, uprooted, unguarded, survivors, DOMAIN ban, online.rejected} \subseteq SUBSET Callers
  /\ survivors \cup unguarded \subseteq linked /\ (linked = {} \/ inb.there)
  /\ DOMAIN online.quiet = ToSet(online.line) /\ ToSet(online.line) \subseteq ToSet(arrived)
  /\ IsInjective(online.line) /\ IsInjective(arrived) /\ online.age \in 0..TooOld
  /\ \E budget \in Budgets : ordersLeft <= budget.orders /\ faultsLeft <= budget.faults

(* Latecomers are refused and nobody else ("keep the first limit that came      *)
(* online", selectOverQuota): in a round nothing of which fails, whoever is to  *)
(* be disconnected for the limit was connected, active and not banned at the    *)
(* last sample, and the limit is full of such callers who came earlier - by the *)
(* samples, whatever the tracker remembers.  So no caller who is gone, idle or  *)
(* banned holds a place, and no more than the limit stay.  Exempt is who lost   *)
(* its first sample to a sample without IPv6 or to a restart of the panel.      *)
InLine == {c \in ToSet(online.line) : ~InForce(c, round.ago) /\ ~Dormant(c)}
EarlierThan(c) ==
  LET line == SelectSeq(arrived, LAMBDA b : b \in InLine \cup {c})
  IN  {line[i] : i \in 1..(CHOOSE i \in DOMAIN line : line[i] = c) - 1}
LatecomersOnly ==
  [][round.pc = "judge" /\ round'.pc # "judge" /\ round.faults = faultsLeft' =>
       LET over == ToSet(round'.todo)
       IN  /\ over \subseteq InLine
           /\ \A c \in over \ uprooted : Cardinality(EarlierThan(c)) >= round.limit
           /\ round.limit > 0 => Cardinality(InLine \ over) <= round.limit]_concVars

(* A ban is in force from the moment its request returns: no connection from    *)
(* before is left, and one that came since does not outlive a round whose       *)
(* sample saw it, if nothing fails.  And it is in force for the inbound it was  *)
(* meant for, not for the next one with the number - but for a ban that was     *)
(* asked for before the inbound was deleted and is written after its bans were. *)
BanHolds ==
  /\ order.clean /\ round.clean
  /\ \A c \in DOMAIN ban : ban[c].meant = inb.born \/ ban[c].stray \/ ~inb.there
=============================================================================
