----------------------------- MODULE RoutingInject -----------------------------
(***************************************************************************)
(* RoutingInjector.Inject: the outbounds and routing rules it appends to   *)
(* the template from one reading of the tables, and what a core does with  *)
(* them (web/service/routing_inject.go, web/service/geo.go).               *)
(*                                                                         *)
(* A tag is a tuple; an inbound's tag is its serial number.  An outbound   *)
(* is [tag, via], via saying where its traffic leaves.  An Xray rule is    *)
(* [from, domains, ips, source, out]; an empty set is an empty or absent   *)
(* condition, and Xray takes that for no condition at all.  Lists inside   *)
(* one rule are sets: their order changes no decision.  Rows whose JSON    *)
(* does not decode are left out, except for nodes (sound).                 *)
(***************************************************************************)
EXTENDS Integers, Sequences, FiniteSets, SequencesExt, Lists

CONSTANTS
  Domains,     \* names a target may have
  Addresses,   \* addresses of targets
  AddressOf,   \* what DNS answers for each name
  Feed         \* what each subscription address serves: [domains, cidrs]

ASSUME AddressesAssumption == AddressOf \in [Domains -> Addresses]
ASSUME FeedAssumption ==
  \A u \in DOMAIN Feed : /\ Feed[u].domains \subseteq Domains /\ Feed[u].cidrs \subseteq Addresses
                         /\ Feed[u].domains \cup Feed[u].cidrs # {}

Untagged == <<>>
DefaultTag == <<"a-ui-default">>
BlockTag == <<"a-ui-block">>
NodeTag(n) == <<"a-ui-node", n>>
MeterTag(e) == <<"a-ui-meter", e[1], e[2]>>
IsReservedTag(t) == t \in {DefaultTag, BlockTag} \/ (t # Untagged /\ Head(t) = "a-ui-meter")

Freedom == <<"freedom">>
Blackhole == <<"blackhole">>
ViaNode(n) == <<"node", n>>

(* Nodes and inbounds are read by id. *)
InIdOrder(ids) == InOrder(ids, {p \in ids \X ids : p[1] < p[2]})

(* GetEnabled of the rules: by priority, then by id. *)
Before(rules, a, b) ==
  rules[a].priority < rules[b].priority \/ (rules[a].priority = rules[b].priority /\ a < b)
RuleOrder(rules, actions) ==
  LET ids == {r \in DOMAIN rules : rules[r].enable /\ rules[r].action \in actions}
  IN  InOrder(ids, {p \in ids \X ids : Before(rules, p[1], p[2])})

EnabledInboundTags(inbounds) ==
  [i \in {i \in DOMAIN inbounds : inbounds[i].enable} |-> inbounds[i].born]

-----------------------------------------------------------------------------
(* Outbounds *)
TagDefaultOutbound(outs) ==
  IF outs # <<>> /\ Head(outs).tag = Untagged THEN [outs EXCEPT ![1].tag = DefaultTag] ELSE outs
DefaultOutboundTag(outs) == IF outs = <<>> THEN Untagged ELSE Head(TagDefaultOutbound(outs)).tag

(* The nodes that reach the configuration; rules may name no other. *)
Usable(nodes) ==
  {n \in DOMAIN nodes : nodes[n].enable /\ nodes[n].sound /\ ~IsReservedTag(nodes[n].tag)}

BuildOutbounds(template, nodes) ==
  LET ids == InIdOrder(Usable(nodes))
  IN  TagDefaultOutbound(template.outbounds)
      \o [i \in DOMAIN ids |-> [tag |-> nodes[ids[i]].tag, via |-> ViaNode(nodes[ids[i]].born)]]
      \o <<[tag |-> BlockTag, via |-> Blackhole]>>

(* Outbounds and rules of metering are made from the same filtered pool. *)
FilterMeterPool(pool, tags) == {e \in pool : e[1] \in DOMAIN tags}
Live(read) ==
  [pool |-> FilterMeterPool(read.pool, read.tags), nodes |-> read.nodes, rules |-> read.rules,
   groups |-> read.groups, regions |-> read.regions, tags |-> read.tags]
AppendMeterOutbounds(outs, pool) ==
  LET list == SetToSeq(pool)
  IN  outs \o [i \in DOMAIN list |-> [Head(outs) EXCEPT !.tag = MeterTag(list[i])]]

-----------------------------------------------------------------------------
(* Rules *)
XrayRule(from, domains, ips, source, out) ==
  [from |-> from, domains |-> domains, ips |-> ips, source |-> source, out |-> out]

(* The conditions of a rule: those of the groups that still exist, by hand and *)
(* by subscription.                                                            *)
GroupDomains(g) == g.domains \cup UNION {Feed[u].domains : u \in g.sub}
GroupCidrs(g) == g.cidrs \cup UNION {Feed[u].cidrs : u \in g.sub}
RuleDomains(r, groups) == UNION {GroupDomains(groups[g]) : g \in r.groups \cap DOMAIN groups}
RuleCidrs(r, groups) == UNION {GroupCidrs(groups[g]) : g \in r.groups \cap DOMAIN groups}
RuleFrom(r, tags) == {tags[i] : i \in r.inbounds \cap DOMAIN tags}

OutboundOf(r, template, nodes) ==
  CASE r.action = "block"  -> BlockTag
    [] r.action = "proxy"  -> IF r.node \in DOMAIN nodes THEN nodes[r.node].tag ELSE Untagged
    [] r.action = "direct" -> DefaultOutboundTag(template.outbounds)

(* buildRule drops a rule altogether rather than write an empty condition or an  *)
(* outbound that is not there.                                                   *)
DroppedButForInbounds(r, template, read) ==
  \/ RuleDomains(r, read.groups) \cup RuleCidrs(r, read.groups) = {}
  \/ r.action = "proxy" /\ r.node \notin Usable(read.nodes)
  \/ r.action = "direct" /\ DefaultOutboundTag(template.outbounds) = Untagged
Dropped(r, template, read) ==
  \/ RuleDomains(r, read.groups) \cup RuleCidrs(r, read.groups) = {}
  \/ r.inbounds # {} /\ RuleFrom(r, read.tags) = {}
  \/ r.action = "proxy" /\ r.node \notin Usable(read.nodes)
  \/ r.action = "direct" /\ DefaultOutboundTag(template.outbounds) = Untagged

BuildRule(r, template, read) ==
  LET rule(domains, cidrs) ==
        IF domains \cup cidrs = {} THEN <<>>
        ELSE <<XrayRule(RuleFrom(r, read.tags), domains, cidrs, {}, OutboundOf(r, template, read.nodes))>>
  IN  IF Dropped(r, template, read) THEN <<>>
      ELSE rule(RuleDomains(r, read.groups), {}) \o rule({}, RuleCidrs(r, read.groups))

BuildRules(actions, template, read) ==
  LET ids == RuleOrder(read.rules, actions)
  IN  FlattenSeq([i \in DOMAIN ids |-> BuildRule(read.rules[ids[i]], template, read)])

(* Two denials per inbound with regions: all of IPv6, and whatever is foreign. *)
BuildGeoRules(inbounds) ==
  LET ids == InIdOrder({i \in DOMAIN inbounds : inbounds[i].enable /\ inbounds[i].geo})
  IN  FlattenSeq([i \in DOMAIN ids |->
        <<XrayRule({inbounds[ids[i]].born}, {}, {}, {"v6"}, BlockTag),
          XrayRule({inbounds[ids[i]].born}, {}, {}, {"foreign"}, BlockTag)>>])

(* A metering rule of a name waits for the address where the core resolves names *)
(* while matching; names come before addresses.                                  *)
MeterRuleNeedsIPGuard(strategy) == strategy \in {"IPIfNonMatch", "IPOnDemand"}
BuildMeterRulesByAddress(pool, tags, guard) ==
  LET list == SetToSeq({e \in pool : e[2] \in Addresses}) \o SetToSeq({e \in pool : e[2] \in Domains})
  IN  [i \in DOMAIN list |->
        XrayRule({tags[list[i][1]]}, {list[i][2]} \cap Domains,
                 IF list[i][2] \in Addresses THEN {list[i][2]} ELSE IF guard THEN Addresses ELSE {},
                 {}, MeterTag(list[i]))]
BuildMeterRules(pool, tags, guard) ==
  LET list == SetToSeq({e \in pool : e[2] \in Domains}) \o SetToSeq({e \in pool : e[2] \in Addresses})
  IN  [i \in DOMAIN list |->
        XrayRule({tags[list[i][1]]}, {list[i][2]} \cap Domains,
                 IF list[i][2] \in Addresses THEN {list[i][2]} ELSE IF guard THEN Addresses ELSE {},
                 {}, MeterTag(list[i]))]

Strategy(template) == IF template.resolve THEN "IPIfNonMatch" ELSE template.strategy

(* Region denials, blocks, the other rules by priority, metering. *)
InjectRoutesFirst(template, read) ==
  LET live == Live(read)
  IN  [outbounds |-> AppendMeterOutbounds(BuildOutbounds(template, live.nodes), live.pool),
       strategy |-> Strategy(template),
       rules |-> template.rules \o BuildGeoRules(live.regions)
                 \o BuildRules({"block", "proxy", "direct"}, template, live)
                 \o BuildMeterRules(live.pool, live.tags, MeterRuleNeedsIPGuard(Strategy(template)))]
Inject(template, read) ==
  LET live == Live(read)
  IN  [outbounds |-> AppendMeterOutbounds(BuildOutbounds(template, live.nodes), live.pool),
       strategy |-> Strategy(template),
       rules |-> template.rules \o BuildGeoRules(live.regions)
                 \o BuildRules({"block"}, template, live)
                 \o BuildRules({"proxy", "direct"}, template, live)
                 \o BuildMeterRules(live.pool, live.tags, MeterRuleNeedsIPGuard(Strategy(template)))]

-----------------------------------------------------------------------------
(***************************************************************************)
(* The core.  A connection has a source and a target; a target is an       *)
(* address, or a name with the address DNS would give.  The address of a   *)
(* name counts from the start under IPOnDemand, in a second pass over all  *)
(* rules under IPIfNonMatch, and never under AsIs.  No rule, or one that   *)
(* names no outbound, leaves the connection to the first outbound.         *)
(***************************************************************************)
Sources == {"home", "foreign", "v6"}
Targets == [name : {{d} : d \in Domains} \cup {{}}, address : Addresses]
Reachable == {t \in Targets : \A d \in t.name : t.address = AddressOf[d]}

Matches(rule, tag, t, source, resolved) ==
  /\ rule.from = {} \/ tag \in rule.from
  /\ rule.domains = {} \/ t.name \cap rule.domains # {}
  /\ rule.ips = {} \/ ((resolved \/ t.name = {}) /\ t.address \in rule.ips)
  /\ rule.source = {} \/ source \in rule.source

Pass(cfg, tag, t, source, resolved) ==
  SelectInSeq(cfg.rules, LAMBDA rule : Matches(rule, tag, t, source, resolved))

(* The position of the rule that decides; 0 when none does. *)
Decider(cfg, tag, t, source) ==
  LET first == Pass(cfg, tag, t, source, cfg.strategy = "IPOnDemand")
  IN  IF first = 0 /\ cfg.strategy = "IPIfNonMatch" THEN Pass(cfg, tag, t, source, TRUE) ELSE first

Dispatch(cfg, tag, t, source) ==
  LET decider == Decider(cfg, tag, t, source)
      named == IF decider = 0 THEN {}
               ELSE {i \in DOMAIN cfg.outbounds : cfg.outbounds[i].tag = cfg.rules[decider].out}
  IN  IF named = {} THEN Head(cfg.outbounds) ELSE cfg.outbounds[CHOOSE i \in named : TRUE]
=============================================================================
