------------------------------- MODULE HotDiff -------------------------------
(***************************************************************************)
(* What separates a hot application from a restart: ComputeHotDiff of two  *)
(* configurations, the RPCs tryHotApply makes of it, and OnlyTouchesTags   *)
(* (xray/hot_diff.go, web/service/xray.go).  The machine takes any two     *)
(* configurations, boots a core with the old one and sends the RPCs of     *)
(* their difference; the core answers the way tryHotApply relies on.       *)
(*                                                                         *)
(* A configuration is [rest, inbounds, outbounds, strategy, rules]:        *)
(*   rest       the sections without a reload interface                    *)
(*   inbounds   sequence of [tag, port, reality, body]                     *)
(*   outbounds  sequence of [tag, body], the first one is the default      *)
(*   strategy   the part of routing that is fixed at start                 *)
(*   rules      sequence of [dst, tag]: destinations and an outbound       *)
(* Spelling is left out: equality stands for equality after normalizeJSON, *)
(* and a configuration whose sections do not parse is left out too (every  *)
(* such error ends in a restart).  strategy also says whether there is a   *)
(* routing section at all; reality is TRUE also for stream settings that   *)
(* cannot be parsed.                                                       *)
(***************************************************************************)
EXTENDS Naturals, Sequences, SequencesExt, Lists

CONSTANTS
  Configs,    \* configurations
  Dests,      \* destinations of traffic
  MeterTags   \* what model.IsMeterTag recognises

VARIABLES
  old,        \* process.GetConfig()
  new,        \* newCfg
  verdict,    \* "none" before ComputeHotDiff, then "hot", "restart" or "same"
  todo,       \* RPCs to send, in order
  core        \* the running core

vars == <<old, new, verdict, todo, core>>

(* What the lists of a configuration are made of.  No two inbounds listen on   *)
(* one port (checkPortExist); there is a default outbound.                     *)
ASSUME ConfigsAssumption ==
  \A c \in Configs :
    /\ IsList(c.inbounds) /\ IsList(c.outbounds) /\ IsList(c.rules) /\ c.outbounds # <<>>
    /\ \A i \in DOMAIN c.inbounds : c.inbounds[i].reality \in BOOLEAN
    /\ \A i, j \in DOMAIN c.inbounds : i # j => c.inbounds[i].port # c.inbounds[j].port

(* Of rules as RoutingInjector appends them, to a template that keeps to it as *)
(* well: none names an outbound that is not there, those of metering come last.*)
ASSUME RulesAssumption ==
  \A c \in Configs :
    /\ \A i \in DOMAIN c.rules : c.rules[i].tag \in {c.outbounds[k].tag : k \in DOMAIN c.outbounds}
    /\ \A i, j \in DOMAIN c.rules : i < j /\ c.rules[i].tag \in MeterTags => c.rules[j].tag \in MeterTags

NoTag == ""
Restart == [ok |-> FALSE]

TagsOf(list) == {list[i].tag : i \in DOMAIN list}
ByTag(list, t) == list[CHOOSE i \in DOMAIN list : list[i].tag = t]
UniqueTags(list, from) == \A i, j \in from..Len(list) : i # j => list[i].tag # list[j].tag

-----------------------------------------------------------------------------
(* inboundsByTag refuses an empty or a repeated tag. *)
InboundsIndexable(list) == NoTag \notin TagsOf(list) /\ UniqueTags(list, 1)

Untouched(ob, list) == ob.tag \in TagsOf(list) /\ ByTag(list, ob.tag) = ob

(* The api inbound carries the connection of the control plane; an inbound     *)
(* whose old or new form uses Reality is never rebuilt by RPC.                 *)
InboundNeedsRestart(a, b) ==
  \/ \E i \in DOMAIN a : ~Untouched(a[i], b) /\
        \/ a[i].tag = "api"
        \/ a[i].tag \in TagsOf(b) /\ (a[i].reality \/ ByTag(b, a[i].tag).reality)
  \/ \E i \in DOMAIN b : b[i].tag \notin TagsOf(a) /\ (b[i].tag = "api" \/ b[i].reality)

(* Entries of a that b lacks or holds in another form, and the forms to add:   *)
(* the changed ones in a's order, then the new ones in b's.                    *)
Touched(list, b) == {x \in ToSet(list) : ~Untouched(x, b)}
Removed(a, b) == Filtered(a, Touched(a, b))
AddedChangedOnly(a, b) ==
  LET changed == Filtered(a, {x \in Touched(a, b) : x.tag \in TagsOf(b)})
  IN  [i \in DOMAIN changed |-> ByTag(b, changed[i].tag)]
Added(a, b) == AddedChangedOnly(a, b) \o Filtered(b, {x \in ToSet(b) : x.tag \notin TagsOf(a)})

(* decodeOutbounds exempts the default outbound from having a tag, and only it. *)
OutboundsIndexable(list) ==
  /\ \A i \in DOMAIN list : list[i].tag = NoTag => i = 1
  /\ UniqueTags(list, 1)

DefaultKept(a, b) == a # <<>> /\ b # <<>> /\ Head(a) = Head(b)

(* diffOutbounds, on the lists without their defaults; a default with a tag    *)
(* still counts when a tag is looked up in the other list.                     *)
OutboundsRemoved(a, b) == Filtered(Tail(a), Touched(Tail(a), b))
OutboundsAdded(a, b) ==
  LET changed == Filtered(Tail(a), {x \in Touched(Tail(a), b) : x.tag \in TagsOf(b)})
  IN  [i \in DOMAIN changed |-> ByTag(b, changed[i].tag)]
      \o Filtered(Tail(b), {x \in ToSet(Tail(b)) : x.tag \notin TagsOf(a)})

OutboundsNeedRestart(a, b) ==
  a # b /\ ~(OutboundsIndexable(a) /\ OutboundsIndexable(b) /\ DefaultKept(a, b))

ComputeHotDiff(c, d) ==
  IF \/ c.rest # d.rest
     \/ ~InboundsIndexable(c.inbounds) \/ ~InboundsIndexable(d.inbounds)
     \/ InboundNeedsRestart(c.inbounds, d.inbounds)
     \/ OutboundsNeedRestart(c.outbounds, d.outbounds)
     \/ c.strategy # d.strategy
  THEN Restart
  ELSE [ok |-> TRUE,
        removedIn |-> Removed(c.inbounds, d.inbounds),
        addedIn |-> Added(c.inbounds, d.inbounds),
        removedOut |-> IF c.outbounds = d.outbounds THEN <<>> ELSE OutboundsRemoved(c.outbounds, d.outbounds),
        addedOut |-> IF c.outbounds = d.outbounds THEN <<>> ELSE OutboundsAdded(c.outbounds, d.outbounds),
        routing |-> c.rules # d.rules]

(* Removals before additions, outbounds before the rules that name them. *)
Rpcs(op, list) == [i \in DOMAIN list |-> [op |-> op, arg |-> list[i]]]
PlanRulesFirst(diff, rules) ==
  (IF diff.routing THEN <<[op |-> "rules", arg |-> rules]>> ELSE <<>>)
  \o Rpcs("delIn", diff.removedIn) \o Rpcs("addIn", diff.addedIn)
  \o Rpcs("delOut", diff.removedOut) \o Rpcs("addOut", diff.addedOut)
PlanAddFirst(diff, rules) ==
  Rpcs("addIn", diff.addedIn) \o Rpcs("delIn", diff.removedIn)
  \o Rpcs("addOut", diff.addedOut) \o Rpcs("delOut", diff.removedOut)
  \o (IF diff.routing THEN <<[op |-> "rules", arg |-> rules]>> ELSE <<>>)
Plan(diff, rules) ==
  Rpcs("delIn", diff.removedIn) \o Rpcs("addIn", diff.addedIn)
  \o Rpcs("delOut", diff.removedOut) \o Rpcs("addOut", diff.addedOut)
  \o (IF diff.routing THEN <<[op |-> "rules", arg |-> rules]>> ELSE <<>>)

(* OnlyTouchesTags, asked of a difference that is not empty. *)
WithoutMeters(rules) == Filtered(rules, {r \in ToSet(rules) : r.tag \notin MeterTags})
OutboundsAreMeters(list) == \A i \in DOMAIN list : list[i].tag \in MeterTags
OnlyTouchesOutboundTags(c, d, diff) ==
  /\ diff.removedIn = <<>> /\ diff.addedIn = <<>>
  /\ OutboundsAreMeters(diff.removedOut) /\ OutboundsAreMeters(diff.addedOut)
OnlyTouchesTags(c, d, diff) ==
  /\ diff.removedIn = <<>> /\ diff.addedIn = <<>>
  /\ OutboundsAreMeters(diff.removedOut) /\ OutboundsAreMeters(diff.addedOut)
  /\ diff.routing => WithoutMeters(c.rules) = WithoutMeters(d.rules)

-----------------------------------------------------------------------------
(***************************************************************************)
(* The core.  It adds no handler over one of the same tag and no listener  *)
(* on a port in use, deletes no inbound it lacks, and loses the control    *)
(* plane with the api inbound.  An inbound with Reality does not come back *)
(* as it was when an RPC adds it.                                          *)
(***************************************************************************)
Boot(cfg) == [rest |-> cfg.rest, strategy |-> cfg.strategy, rules |-> cfg.rules,
              inbounds |-> ToSet(cfg.inbounds),
              default |-> Head(cfg.outbounds), outbounds |-> ToSet(Tail(cfg.outbounds))]

Accepts(rpc) ==
  /\ \E x \in core.inbounds : x.tag = "api"
  /\ CASE rpc.op = "delIn"  -> \E x \in core.inbounds : x.tag = rpc.arg.tag
       [] rpc.op = "addIn"  -> \A x \in core.inbounds : x.tag # rpc.arg.tag /\ x.port # rpc.arg.port
       [] rpc.op = "delOut" -> \E x \in core.outbounds : x.tag = rpc.arg.tag
       [] rpc.op = "addOut" -> \A x \in core.outbounds \cup {core.default} : x.tag # rpc.arg.tag
       [] rpc.op = "rules"  -> TRUE

Rebuilt(ib) == IF ib.reality THEN [ib EXCEPT !.body = "broken"] ELSE ib

Effect(rpc) ==
  CASE rpc.op = "delIn"  -> [core EXCEPT !.inbounds = {x \in @ : x.tag # rpc.arg.tag}]
    [] rpc.op = "addIn"  -> [core EXCEPT !.inbounds = @ \cup {Rebuilt(rpc.arg)}]
    [] rpc.op = "delOut" -> [core EXCEPT !.outbounds = {x \in @ : x.tag # rpc.arg.tag}]
    [] rpc.op = "addOut" -> [core EXCEPT !.outbounds = @ \cup {rpc.arg}]
    [] rpc.op = "rules"  -> [core EXCEPT !.rules = rpc.arg]

(* The first rule that matches; the default outbound when there is none or     *)
(* when the outbound it names does not exist, which is not an error.           *)
Route(c, d) ==
  LET hits == {i \in DOMAIN c.rules : d \in c.rules[i].dst}
      tag  == c.rules[CHOOSE i \in hits : \A j \in hits : i <= j].tag
      named == {x \in c.outbounds \cup {c.default} : x.tag = tag}
  IN  IF hits # {} /\ named # {} THEN CHOOSE x \in named : TRUE ELSE c.default

-----------------------------------------------------------------------------
Init ==
  /\ old \in Configs /\ new \in Configs
  /\ verdict = "none" /\ todo = <<>> /\ core = Boot(old)

(* The head of tryHotApply: nothing to send, or nobody to send it to, or a plan. *)
HasControlPlane(c) == "api" \in TagsOf(c.inbounds)
Decide ==
  /\ verdict = "none"
  /\ LET diff == ComputeHotDiff(old, new)
         plan == Plan(diff, new.rules)
     IN  IF ~diff.ok THEN verdict' = "restart" /\ todo' = <<>>
         ELSE IF plan = <<>> THEN verdict' = "same" /\ todo' = <<>>
         ELSE IF ~HasControlPlane(old) THEN verdict' = "restart" /\ todo' = <<>>
         ELSE /\ todo' = plan
              /\ verdict' = IF OnlyTouchesTags(old, new, diff) THEN "meters" ELSE "hot"
  /\ UNCHANGED <<old, new, core>>

Send ==
  /\ todo # <<>> /\ Accepts(Head(todo))
  /\ core' = Effect(Head(todo)) /\ todo' = Tail(todo)
  /\ UNCHANGED <<old, new, verdict>>

Next == Decide \/ Send
Spec == Init /\ [][Next]_vars

-----------------------------------------------------------------------------
Hot == verdict \in {"same", "hot", "meters"}

(* No RPC of the plan is refused: no tag is added over an old one and no port  *)
(* is bound while its former inbound still listens, even when two inbounds     *)
(* swap tags or ports, and the api inbound survives to the last RPC.           *)
NothingRefused == todo # <<>> => Accepts(Head(todo))

(* After the last RPC the core is what a core started with the new             *)
(* configuration would be, so SetConfig(newCfg) records the truth: nothing     *)
(* ComputeHotDiff leaves out of the plan makes a difference to the core.       *)
HotEqualsRestart == Hot /\ todo = <<>> => core = Boot(new)

(* Half-way the traffic to a destination takes its old or its new route; it    *)
(* falls to the default outbound only if its old outbound is edited or goes    *)
(* away.  Traffic whose rule and outbound the change leaves alone never moves. *)
RoutesInBetween ==
  Hot => \A d \in Dests :
    \/ Route(core, d).tag \in {Route(Boot(old), d).tag, Route(Boot(new), d).tag}
    \/ Route(core, d) = core.default /\ Route(Boot(old), d) \notin ToSet(new.outbounds)

(* An application that leaves the generation alone changes no conclusion about *)
(* where traffic goes, a metering outbound counting as the default it copies.  *)
Conclusion(c, d) ==
  IF Route(c, d).tag \in MeterTags THEN c.default.tag ELSE Route(c, d).tag
MetersChangeNothing ==
  verdict = "meters" => \A d \in Dests : Conclusion(Boot(new), d) = Conclusion(Boot(old), d)
=============================================================================
