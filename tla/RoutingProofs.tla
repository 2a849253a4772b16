---------------------------- MODULE RoutingProofs ----------------------------
(***************************************************************************)
(* Theorems about Routing, for any names, addresses, forms, pools, and     *)
(* starting tables the requests could have left.                           *)
(*                                                                         *)
(* The tables come first: the subscriptions (IInv), the flag that asks for *)
(* a generation (FlagInv), the rules (RuleInv), the types (TypeInv).  Then *)
(* the generated configuration: what a list of Xray rules says (Verdict),  *)
(* what each part of an injected configuration says, what they decide      *)
(* together (Ruling, Decision) and what a core then does (Delivers), all   *)
(* of them lemmas about the operators of RoutingInject; and at the end the *)
(* invariant of what a generation has read (ReadInv), which makes these    *)
(* lemmas facts about every generation.                                    *)
(***************************************************************************)
EXTENDS Routing, ListProofs

GroupRow ==
  [born : Int, domains : SUBSET Domains, cidrs : SUBSET Addresses, urls : SUBSET DOMAIN Feed,
   sub : SUBSET DOMAIN Feed]

GroupsTyped ==
  /\ serial \in Int
  /\ groups \in [DOMAIN groups -> GroupRow]
  /\ \A g \in DOMAIN groups : groups[g].born <= serial

(* A refresh under way holds nothing but the addresses it read, and if its     *)
(* group still has these, whatever of it is kept.                              *)
FetchHolds ==
  fetch.busy =>
    /\ fetch.kept \cup fetch.due \subseteq fetch.urls
    /\ StillAsked => Kept(fetch.id) \subseteq fetch.kept

IInv == GroupsTyped /\ SubscriptionFollowsItsAddresses /\ FetchHolds

LEMMA InitIInv == Init => IInv
<1> SUFFICES ASSUME Init PROVE IInv
  OBVIOUS
<1>1. PICK s \in Starts : groups = s.groups /\ serial = s.serial /\ fetch = NoFetch
  BY DEF Init
<1>2. groups \in [DOMAIN groups -> [born : 1..serial, domains : SUBSET Domains,
         cidrs : SUBSET Addresses, urls : SUBSET DOMAIN Feed, sub : {{}}]] /\ serial \in Nat
  BY <1>1, GroupsAssumption DEF GroupsAssumption
<1>3. GroupsTyped /\ SubscriptionFollowsItsAddresses
  BY <1>2 DEF GroupsTyped, GroupRow, SubscriptionFollowsItsAddresses
<1>4. FetchHolds
  BY <1>1 DEF FetchHolds, NoFetch
<1> QED
  BY <1>3, <1>4 DEF IInv

(* Requests and jobs that touch neither the groups nor what a refresh reads.   *)
LEMMA Untouched ==
  ASSUME IInv, groups' = groups, subs' = subs, fetch' = fetch, serial' \in {serial, serial + 1}
  PROVE  IInv'
<1>1. GroupsTyped'
  BY DEF IInv, GroupsTyped, GroupRow
<1>2. SubscriptionFollowsItsAddresses'
  BY DEF IInv, SubscriptionFollowsItsAddresses
<1>3. FetchHolds'
  BY DEF IInv, FetchHolds, StillAsked, Kept
<1> QED
  BY <1>1, <1>2, <1>3 DEF IInv

LEMMA AddGroupKeeps ==
  ASSUME IInv, NEW d \in GroupDrafts, AddGroup(d)
  PROVE  IInv'
<1> DEFINE new == NextId(groups)
           row == [born |-> serial', domains |-> d.domains, cidrs |-> d.cidrs, urls |-> d.urls, sub |-> {}]
<1>1. serial' = serial + 1 /\ serial \in Int /\ row \in GroupRow /\ UNCHANGED <<fetch, subs>>
  BY GroupsAssumption DEF GroupsAssumption, AddGroup, IInv, GroupsTyped, GroupRow
<1>2. /\ DOMAIN groups' = DOMAIN groups \cup {new}
      /\ groups' = [g \in DOMAIN groups \cup {new} |-> IF g = new THEN row ELSE groups[g]]
  BY DEF AddGroup, With
<1>3. GroupsTyped'
  BY <1>1, <1>2 DEF IInv, GroupsTyped, GroupRow
<1>4. SubscriptionFollowsItsAddresses'
  BY <1>1, <1>2 DEF IInv, SubscriptionFollowsItsAddresses
<1>5. FetchHolds'
  BY <1>1, <1>2 DEF IInv, FetchHolds, StillAsked, Kept
<1> QED
  BY <1>3, <1>4, <1>5 DEF IInv

LEMMA UpdateGroupKeeps ==
  ASSUME IInv, NEW id \in DOMAIN groups, NEW d \in GroupDrafts, UpdateGroup(id, d)
  PROVE  IInv'
<1> DEFINE row == [groups[id] EXCEPT !.domains = d.domains, !.cidrs = d.cidrs, !.urls = d.urls,
                                     !.sub = IF d.urls = groups[id].urls THEN @ ELSE {}]
<1>1. /\ groups[id] \in GroupRow /\ row \in GroupRow /\ row.urls = d.urls
      /\ row.sub = IF d.urls = groups[id].urls THEN groups[id].sub ELSE {}
      /\ row.born = groups[id].born
  BY GroupsAssumption DEF GroupsAssumption, IInv, GroupsTyped, GroupRow
<1>2. groups' = [groups EXCEPT ![id] = row] /\ UNCHANGED <<fetch, subs, serial>>
  BY <1>1 DEF UpdateGroup, IInv, GroupsTyped, GroupRow
<1>3. GroupsTyped'
  BY <1>1, <1>2 DEF IInv, GroupsTyped
<1>4. SubscriptionFollowsItsAddresses'
  BY <1>1, <1>2 DEF IInv, GroupsTyped, SubscriptionFollowsItsAddresses
<1>5. FetchHolds'
  BY <1>1, <1>2 DEF IInv, GroupsTyped, FetchHolds, StillAsked, Kept
<1> QED
  BY <1>3, <1>4, <1>5 DEF IInv

LEMMA DelGroupKeeps ==
  ASSUME IInv, NEW id \in DOMAIN groups, DelGroup(id)
  PROVE  IInv'
<1>1. /\ groups' = [g \in DOMAIN groups \ {id} |-> groups[g]]
      /\ subs' = {s \in subs : s[1] # id} /\ UNCHANGED <<fetch, serial>>
  BY DEF DelGroup, Without, Restrict
<1> QED
  BY <1>1 DEF IInv, GroupsTyped, SubscriptionFollowsItsAddresses, FetchHolds, StillAsked, Kept

LEMMA PruneKeeps ==
  ASSUME IInv, PruneSubscriptionOrphans
  PROVE  IInv'
BY DEF PruneSubscriptionOrphans, IInv, GroupsTyped, SubscriptionFollowsItsAddresses, FetchHolds,
       StillAsked, Kept

LEMMA StartFetchKeeps ==
  ASSUME IInv, NEW id \in DOMAIN groups, NEW due \in SUBSET groups[id].urls, StartFetch(id, due)
  PROVE  IInv'
<1>1. UNCHANGED <<groups, subs, serial>>
  BY DEF StartFetch, tables
<1>2. /\ fetch'.id = id /\ fetch'.urls = groups[id].urls /\ fetch'.due = due
      /\ fetch'.kept = {u \in groups[id].urls : <<id, u>> \in subs}
  BY DEF StartFetch
<1>3. FetchHolds'
  BY <1>1, <1>2 DEF IInv, SubscriptionFollowsItsAddresses, FetchHolds, StillAsked, Kept
<1> QED
  BY <1>1, <1>3 DEF IInv, GroupsTyped, SubscriptionFollowsItsAddresses

(* What the end of a refresh writes comes from the addresses it asked, which   *)
(* the group still has, and contains what is kept.                             *)
LEMMA EndFetchKeeps ==
  ASSUME IInv, NEW ok, EndFetch(ok)
  PROVE  IInv'
<1>1. fetch.busy /\ ok \subseteq fetch.due /\ fetch' = NoFetch /\ UNCHANGED serial
  BY DEF EndFetch
<1>2. CASE ~(Merged(ok) # {} /\ StillAsked)
  <2>1. groups' = groups
    BY <1>2 DEF EndFetch
  <2> QED
    BY <1>1, <2>1 DEF IInv, GroupsTyped, SubscriptionFollowsItsAddresses, FetchHolds, NoFetch
<1>3. CASE StillAsked /\ Merged(ok) # {}
  <2> DEFINE row == [groups[fetch.id] EXCEPT !.sub = Merged(ok)]
  <2>1. fetch.id \in DOMAIN groups /\ groups[fetch.id] \in GroupRow
    BY <1>3 DEF StillAsked, IInv, GroupsTyped
  <2>2. groups' = [groups EXCEPT ![fetch.id] = row]
    BY <1>3 DEF EndFetch
  <2>3. Merged(ok) \subseteq groups[fetch.id].urls
    BY <1>1, <1>3 DEF Merged, StillAsked, IInv, FetchHolds
  <2>4. row \in GroupRow /\ row.sub \subseteq row.urls /\ row.born = groups[fetch.id].born
    BY <2>1, <2>3 DEF GroupRow
  <2>5. GroupsTyped' /\ SubscriptionFollowsItsAddresses'
    BY <1>1, <2>1, <2>2, <2>4 DEF IInv, GroupsTyped, SubscriptionFollowsItsAddresses
  <2> QED
    BY <1>1, <2>5 DEF IInv, FetchHolds, NoFetch
<1> QED
  BY <1>2, <1>3

-----------------------------------------------------------------------------
(* Every other request, job and read leaves alone what IInv speaks of.         *)
OtherSteps == EditRules \/ ReorderRules \/ EditInbounds \/ EditNodes \/ Meter \/ Generate

LEMMA OthersTouchNothing ==
  ASSUME OtherSteps
  PROVE  groups' = groups /\ subs' = subs /\ fetch' = fetch /\ serial' \in {serial, serial + 1}
<1>1. CASE EditRules \/ ReorderRules
  BY <1>1 DEF EditRules, ReorderRules, OpenForm, NumberForm, CheckForm, FetchRow, SaveForm, DelRule,
              Reorder, tables
<1>2. CASE EditInbounds
  BY <1>2 DEF EditInbounds, AddInbound, DelInbound, SwitchInbound
<1>3. CASE EditNodes
  BY <1>3 DEF EditNodes, AddNode, DelNode, UpdateNode
<1>4. CASE Meter
  BY <1>4 DEF Meter, Recompute, PruneMeterOrphans
<1>5. CASE Generate
  BY <1>5 DEF Generate, StartGeneration, Read, ReadTags, ReadPool, ReadNodes, ReadRules, ReadGroups,
              ReadRegions, GenerationFails, tables
<1> QED
  BY <1>1, <1>2, <1>3, <1>4, <1>5 DEF OtherSteps

LEMMA NextKeepsIInv == IInv /\ [Next]_vars => IInv'
<1> SUFFICES ASSUME IInv, [Next]_vars PROVE IInv'
  OBVIOUS
<1>1. CASE UNCHANGED vars
  BY <1>1, Untouched DEF vars, tables
<1>2. CASE Next
  <2>1. OtherSteps => IInv'
    BY OthersTouchNothing, Untouched
  <2>2. PruneSubscriptionOrphans => IInv'
    BY PruneKeeps
  <2>3. \A d \in GroupDrafts : AddGroup(d) => IInv'
    BY AddGroupKeeps
  <2>4. \A id \in DOMAIN groups : DelGroup(id) => IInv'
    BY DelGroupKeeps
  <2>5. \A id \in DOMAIN groups, d \in GroupDrafts : UpdateGroup(id, d) => IInv'
    BY UpdateGroupKeeps
  <2>6. \A id \in DOMAIN groups : \A due \in SUBSET groups[id].urls : StartFetch(id, due) => IInv'
    BY StartFetchKeeps
  <2>7. \A ok : EndFetch(ok) => IInv'
    BY EndFetchKeeps
  <2> QED
    BY <1>2, <2>1, <2>2, <2>3, <2>4, <2>5, <2>6, <2>7 DEF Next, EditGroups, Subscribe, OtherSteps
<1> QED
  BY <1>1, <1>2

LEMMA AlwaysIInv == Spec => []IInv
BY InitIInv, NextKeepsIInv, PTL DEF Spec

(* What a group has by subscription comes from the addresses it has now.       *)
THEOREM SubscriptionsFollow == Spec => []SubscriptionFollowsItsAddresses
<1>1. IInv => SubscriptionFollowsItsAddresses
  BY DEF IInv
<1> QED
  BY <1>1, AlwaysIInv, PTL

-----------------------------------------------------------------------------
(* A new group is not taken for an old one: its serial number is larger.       *)
LEMMA AddGroupAdds ==
  ASSUME IInv, NEW d \in GroupDrafts, AddGroup(d)
  PROVE  KeepsWhatIsKept
<1> SUFFICES ASSUME NEW g \in DOMAIN groups, groups'[g].born = groups[g].born
             PROVE  groups'[g] = groups[g]
  BY DEF KeepsWhatIsKept, Kept
<1>1. serial \in Int /\ serial' = serial + 1 /\ groups[g].born <= serial /\ groups[g].born \in Int
  BY DEF AddGroup, IInv, GroupsTyped, GroupRow
<1>2. groups'[g] = groups[g] \/ groups'[g].born = serial'
  BY DEF AddGroup, With
<1> QED
  BY <1>1, <1>2

LEMMA UpdateGroupAdds ==
  ASSUME IInv, NEW id \in DOMAIN groups, NEW d \in GroupDrafts, UpdateGroup(id, d)
  PROVE  KeepsWhatIsKept
<1>1. groups[id] \in GroupRow /\ \A g \in DOMAIN groups \ {id} : groups'[g] = groups[g]
  BY DEF UpdateGroup, IInv, GroupsTyped
<1>2. groups'[id].urls = groups[id].urls => groups'[id].sub = groups[id].sub
  BY <1>1 DEF UpdateGroup, IInv, GroupsTyped, GroupRow
<1> QED
  BY <1>1, <1>2 DEF KeepsWhatIsKept, Kept

LEMMA EndFetchAdds ==
  ASSUME IInv, NEW ok, EndFetch(ok)
  PROVE  KeepsWhatIsKept
<1>1. CASE groups' = groups
  BY <1>1 DEF KeepsWhatIsKept, Kept
<1>2. CASE StillAsked /\ groups' = [groups EXCEPT ![fetch.id].sub = Merged(ok)]
  <2>1. fetch.id \in DOMAIN groups /\ groups[fetch.id] \in GroupRow
    BY <1>2 DEF StillAsked, IInv, GroupsTyped
  <2>2. /\ groups'[fetch.id].sub = Merged(ok)
        /\ \A g \in DOMAIN groups \ {fetch.id} : groups'[g] = groups[g]
    BY <1>2, <2>1 DEF IInv, GroupsTyped, GroupRow
  <2>3. Kept(fetch.id) \subseteq Merged(ok)
    BY <1>2 DEF EndFetch, IInv, FetchHolds, Merged
  <2> QED
    BY <2>1, <2>2, <2>3 DEF KeepsWhatIsKept, Kept
<1> QED
  BY <1>1, <1>2 DEF EndFetch

LEMMA NextKeepsWhatIsKept == IInv /\ [Next]_vars => [KeepsWhatIsKept]_groups
<1> SUFFICES ASSUME IInv, [Next]_vars, groups' # groups PROVE KeepsWhatIsKept
  OBVIOUS
<1>1. Next /\ ~OtherSteps /\ ~PruneSubscriptionOrphans
  BY OthersTouchNothing DEF vars, tables, PruneSubscriptionOrphans
<1>2. \A id \in DOMAIN groups : \A due \in SUBSET groups[id].urls : ~StartFetch(id, due)
  BY DEF StartFetch, tables
<1>3. ASSUME NEW id \in DOMAIN groups, DelGroup(id) PROVE KeepsWhatIsKept
  BY <1>3 DEF DelGroup, Without, Restrict, KeepsWhatIsKept, Kept
<1>4. ASSUME NEW id \in DOMAIN groups, NEW d \in GroupDrafts, UpdateGroup(id, d) PROVE KeepsWhatIsKept
  BY <1>4, UpdateGroupAdds
<1>5. ASSUME NEW d \in GroupDrafts, AddGroup(d) PROVE KeepsWhatIsKept
  BY <1>5, AddGroupAdds
<1>6. ASSUME NEW ok, EndFetch(ok) PROVE KeepsWhatIsKept
  BY <1>6, EndFetchAdds
<1> QED
  BY <1>1, <1>2, <1>3, <1>4, <1>5, <1>6 DEF Next, EditGroups, Subscribe, OtherSteps

(* No refresh takes from a group what is kept of its addresses: what it writes *)
(* contains all it has read as kept, and while it is under way nothing else of *)
(* a group with these addresses can come to be kept.                           *)
THEOREM RefreshesOnlyAdd == Spec => RefreshOnlyAdds
BY AlwaysIInv, NextKeepsWhatIsKept, PTL DEF Spec, RefreshOnlyAdds

-----------------------------------------------------------------------------
(***************************************************************************)
(* The flag.  While it is down and nothing has been missed, every table a  *)
(* generation has read is still as it was read (Fresh), but for entries of *)
(* the pool that the generation leaves out.                                *)
(***************************************************************************)
Calm == ~needRestart /\ unasked = {}
Tags == EnabledInboundTags(inbounds)
Routed == FilterMeterPool(pool, Tags)

Fresh ==
  /\ gen.at \in {"tags", "pool", "nodes", "rules", "groups", "regions", "done"} => gen.served = Tags
  /\ gen.at \in {"pool", "nodes", "rules", "groups", "regions"} => gen.tags = Tags
  /\ gen.at \in {"nodes", "rules", "groups", "regions"} => FilterMeterPool(gen.pool, Tags) = Routed
  /\ gen.at \in {"rules", "groups", "regions"} => gen.nodes = nodes
  /\ gen.at \in {"groups", "regions"} => gen.rules = rules
  /\ gen.at = "regions" => gen.groups = groups
  /\ gen.at = "done" => gen.config = Inject(template, Now)

GenShape ==
  /\ gen.at = "tags" => DOMAIN gen = {"at", "served"}
  /\ gen.at = "pool" => DOMAIN gen = {"at", "served", "tags"}
  /\ gen.at = "nodes" => DOMAIN gen = {"at", "served", "tags", "pool"}
  /\ gen.at = "rules" => DOMAIN gen = {"at", "served", "tags", "pool", "nodes"}
  /\ gen.at = "groups" => DOMAIN gen = {"at", "served", "tags", "pool", "nodes", "rules"}
  /\ gen.at = "regions" => DOMAIN gen = {"at", "served", "tags", "pool", "nodes", "rules", "groups"}

FlagInv == GenShape /\ (Calm => Fresh)

(* What is injected depends on the tables and on the pool for what is served.  *)
LEMMA InjectDepends ==
  ASSUME NEW t, NEW a, NEW b,
         a.nodes = b.nodes, a.rules = b.rules, a.groups = b.groups, a.regions = b.regions, a.tags = b.tags,
         FilterMeterPool(a.pool, a.tags) = FilterMeterPool(b.pool, b.tags)
  PROVE  Inject(t, a) = Inject(t, b)
<1>1. Live(a) = Live(b)
  BY DEF Live
<1> QED BY <1>1 DEF Inject

(* A write asks for a generation or is noted as missed, unless it changes       *)
(* nothing that a generation would read differently.                            *)
Unread == UNCHANGED <<inbounds, groups, nodes, rules, gen, template, needRestart, unasked>> /\ Routed' = Routed

LEMMA AsksOrMisses ==
  ASSUME NEW why, Ask \/ Missed(why)
  PROVE  ~Calm'
BY DEF Ask, Missed, Calm

LEMMA RuleFormAsks ==
  ASSUME \/ \E d \in Drafts, id \in DOMAIN rules \cup {0} : OpenForm(id, d)
         \/ NumberForm \/ CheckForm \/ FetchRow \/ SaveForm
         \/ \E id \in DOMAIN rules : DelRule(id)
  PROVE  gen' = gen /\ (~Calm' \/ Unread)
<1>1. ASSUME NEW d, NEW id, OpenForm(id, d) PROVE gen' = gen /\ Unread
  BY <1>1 DEF OpenForm, Quiet, flag, tables, Unread, Routed, Tags
<1>2. CASE NumberForm \/ CheckForm \/ FetchRow
  BY <1>2 DEF NumberForm, CheckForm, FetchRow, Quiet, flag, tables, Unread, Routed, Tags
<1>3. CASE SaveForm
  BY <1>3, AsksOrMisses DEF SaveForm
<1>4. ASSUME NEW id, DelRule(id) PROVE gen' = gen /\ ~Calm'
  BY <1>4, AsksOrMisses DEF DelRule
<1> QED BY <1>1, <1>2, <1>3, <1>4

LEMMA EditsAsk ==
  ASSUME EditRules \/ ReorderRules \/ EditInbounds \/ EditNodes
  PROVE  gen' = gen /\ (~Calm' \/ Unread)
<1>1. CASE EditRules
  BY <1>1, RuleFormAsks DEF EditRules
<1>2. CASE ReorderRules
  BY <1>2, AsksOrMisses DEF ReorderRules, Reorder
<1>3. CASE EditInbounds
  <2>1. ASSUME NEW geo, AddInbound(geo) PROVE gen' = gen /\ ~Calm'
    BY <2>1, AsksOrMisses DEF AddInbound
  <2>2. ASSUME NEW id, SwitchInbound(id) PROVE gen' = gen /\ ~Calm'
    BY <2>2, AsksOrMisses DEF SwitchInbound
  <2>3. ASSUME NEW id, DelInbound(id) PROVE gen' = gen /\ (~Calm' \/ Unread)
    <3>1. gen' = gen /\ UNCHANGED <<groups, nodes, template>>
      BY <2>3 DEF DelInbound
    <3>2. CASE Ask
      BY <3>1, <3>2, AsksOrMisses
    <3>3. CASE UNCHANGED <<inbounds, rules>> /\ pool' = pool /\ Quiet
      BY <3>1, <3>3 DEF Quiet, flag, Unread, Routed, Tags
    <3>4. CASE Missed("bans")
      BY <3>1, <3>4, AsksOrMisses
    <3> QED BY <2>3, <3>2, <3>3, <3>4 DEF DelInbound
  <2> QED BY <1>3, <2>1, <2>2, <2>3 DEF EditInbounds
<1>4. CASE EditNodes
  BY <1>4, AsksOrMisses DEF EditNodes, AddNode, DelNode, UpdateNode
<1> QED BY <1>1, <1>2, <1>3, <1>4

LEMMA GroupsAsk ==
  ASSUME EditGroups \/ Subscribe
  PROVE  gen' = gen /\ (~Calm' \/ Unread)
<1>1. ASSUME NEW d, AddGroup(d) PROVE gen' = gen /\ ~Calm'
  BY <1>1, AsksOrMisses DEF AddGroup
<1>2. ASSUME NEW id, DelGroup(id) PROVE gen' = gen /\ ~Calm'
  BY <1>2, AsksOrMisses DEF DelGroup
<1>3. ASSUME NEW id, NEW d, UpdateGroup(id, d) PROVE gen' = gen /\ ~Calm'
  BY <1>3, AsksOrMisses DEF UpdateGroup
<1>4. CASE PruneSubscriptionOrphans
  BY <1>4 DEF PruneSubscriptionOrphans, Quiet, flag, Unread, Routed, Tags
<1>5. ASSUME NEW id, NEW due, StartFetch(id, due) PROVE gen' = gen /\ Unread
  BY <1>5 DEF StartFetch, Quiet, flag, tables, Unread, Routed, Tags
<1>6. ASSUME NEW ok, EndFetch(ok) PROVE gen' = gen /\ (~Calm' \/ Unread)
  <2>1. UNCHANGED <<inbounds, nodes, rules, pool, gen, template>>
    BY <1>6 DEF EndFetch
  <2>2. CASE Ask
    BY <2>1, <2>2, AsksOrMisses
  <2>3. CASE Missed("refresh")
    BY <2>1, <2>3, AsksOrMisses
  <2>4. CASE groups' = groups /\ Quiet
    BY <2>1, <2>4 DEF Quiet, flag, Unread, Routed, Tags
  <2> QED BY <1>6, <2>2, <2>3, <2>4 DEF EndFetch
<1> QED BY <1>1, <1>2, <1>3, <1>4, <1>5, <1>6 DEF EditGroups, Subscribe

(* The clean-up of the pool takes what no generation measures.                  *)
LEMMA MeterAsks ==
  ASSUME Meter
  PROVE  gen' = gen /\ (~Calm' \/ Unread)
<1>1. ASSUME NEW chosen, Recompute(chosen) PROVE gen' = gen /\ (~Calm' \/ Unread)
  <2>1. UNCHANGED <<inbounds, groups, nodes, rules, gen, template>>
    BY <1>1 DEF Recompute
  <2>2. CASE pool' = pool /\ Quiet
    BY <2>1, <2>2 DEF Quiet, flag, Unread, Routed, Tags
  <2>3. CASE Ask
    BY <2>1, <2>3, AsksOrMisses
  <2> QED BY <1>1, <2>2, <2>3 DEF Recompute
<1>2. CASE PruneMeterOrphans
  <2>1. /\ UNCHANGED <<inbounds, groups, nodes, rules, gen, template, needRestart, unasked>>
        /\ pool' = {e \in pool : e[1] \in DOMAIN inbounds}
    BY <1>2 DEF PruneMeterOrphans, Quiet, flag
  <2>2. DOMAIN Tags \subseteq DOMAIN inbounds
    BY DEF Tags, EnabledInboundTags
  <2>3. Tags' = Tags
    BY <2>1 DEF Tags
  <2>4. Routed' = Routed
    BY <2>1, <2>2, <2>3 DEF Routed, FilterMeterPool
  <2> QED BY <2>1, <2>4 DEF Unread
<1> QED BY <1>1, <1>2 DEF Meter

LEMMA UnreadKeeps ==
  ASSUME FlagInv, gen' = gen, ~Calm' \/ Unread
  PROVE  FlagInv'
<1>1. GenShape'
  BY DEF FlagInv, GenShape
<1>2. CASE ~Calm'
  BY <1>1, <1>2 DEF FlagInv
<1>3. CASE Unread
  <2>1. Tags' = Tags /\ Routed' = Routed /\ (Calm' => Calm)
    BY <1>3 DEF Unread, Tags, Calm
  <2>2. Inject(template, Now)' = Inject(template, Now)
    <3>1. /\ Now'.nodes = Now.nodes /\ Now'.rules = Now.rules /\ Now'.groups = Now.groups
          /\ Now'.regions = Now.regions /\ Now'.tags = Now.tags
      BY <1>3, <2>1 DEF Now, Unread, Tags
    <3>2. FilterMeterPool(Now'.pool, Now'.tags) = FilterMeterPool(Now.pool, Now.tags)
      BY <2>1 DEF Now, Routed, Tags
    <3>3. template' = template
      BY <1>3 DEF Unread
    <3> QED BY <3>1, <3>2, <3>3, InjectDepends
  <2> QED BY <1>1, <1>3, <2>1, <2>2 DEF FlagInv, Fresh, Unread
<1> QED BY <1>2, <1>3

(* A read adds what it has read and leaves what was read before.                *)
LEMMA ReadAdds ==
  ASSUME NEW stage, NEW next, NEW field, NEW value, Read(stage, next, field, value),
         "at" \in DOMAIN gen, field \notin DOMAIN gen
  PROVE  /\ gen.at = stage /\ gen'.at = next /\ gen'[field] = value /\ DOMAIN gen' = DOMAIN gen \cup {field}
         /\ \A f \in DOMAIN gen \ {"at"} : gen'[f] = gen[f]
         /\ UNCHANGED <<inbounds, groups, nodes, rules, pool, template, needRestart, unasked>>
BY DEF Read, With, Quiet, flag, tables

LEMMA StartGenerationKeeps == ASSUME FlagInv, StartGeneration PROVE FlagInv'
<1>1. gen' = [at |-> "tags", served |-> Tags] /\ inbounds' = inbounds
  BY DEF StartGeneration, Tags, tables
<1>2. gen'.at = "tags" /\ gen'.served = Tags' /\ DOMAIN gen' = {"at", "served"}
  BY <1>1 DEF Tags
<1> QED BY <1>2 DEF FlagInv, GenShape, Fresh

LEMMA ReadTagsKeeps == ASSUME FlagInv, ReadTags PROVE FlagInv'
<1>1. gen.at = "tags" /\ DOMAIN gen = {"at", "served"}
  BY DEF ReadTags, Read, FlagInv, GenShape
<1>2. /\ gen'.at = "pool" /\ gen'.tags = Tags /\ DOMAIN gen' = DOMAIN gen \cup {"tags"}
      /\ \A f \in DOMAIN gen \ {"at"} : gen'[f] = gen[f]
      /\ UNCHANGED <<inbounds, groups, nodes, rules, pool, template, needRestart, unasked>>
  BY <1>1, ReadAdds DEF ReadTags, Tags
<1>3. Tags' = Tags /\ Calm' = Calm
  BY <1>2 DEF Tags, Calm
<1> QED BY <1>1, <1>2, <1>3 DEF FlagInv, GenShape, Fresh

LEMMA ReadPoolKeeps == ASSUME FlagInv, ReadPool PROVE FlagInv'
<1>1. gen.at = "pool" /\ DOMAIN gen = {"at", "served", "tags"}
  BY DEF ReadPool, FlagInv, GenShape
<1>2. PICK p \in {pool, {}} : /\ gen' = With([gen EXCEPT !.at = "nodes"], "pool", p)
                              /\ IF p = pool THEN Quiet ELSE Missed("pool")
  BY DEF ReadPool
<1>3. /\ gen'.at = "nodes" /\ gen'.pool = p /\ DOMAIN gen' = DOMAIN gen \cup {"pool"}
      /\ \A f \in DOMAIN gen \ {"at"} : gen'[f] = gen[f]
      /\ UNCHANGED <<inbounds, groups, nodes, rules, pool, template>>
  BY <1>1, <1>2 DEF ReadPool, With, tables
<1>4. GenShape'
  BY <1>1, <1>3 DEF GenShape
<1>5. CASE p # pool
  BY <1>2, <1>4, <1>5, AsksOrMisses DEF FlagInv
<1>6. CASE p = pool
  <2>1. Tags' = Tags /\ Calm' = Calm /\ Routed' = Routed
    BY <1>2, <1>3, <1>6 DEF Tags, Calm, Routed, Quiet, flag
  <2>2. FilterMeterPool(gen'.pool, Tags') = Routed'
    BY <1>3, <1>6, <2>1 DEF Routed
  <2> QED BY <1>1, <1>3, <1>4, <2>1, <2>2 DEF FlagInv, Fresh
<1> QED BY <1>5, <1>6

LEMMA ReadRowsKeep == ASSUME FlagInv, ReadNodes \/ ReadRules \/ ReadGroups PROVE FlagInv'
<1>1. ASSUME NEW stage, NEW next, NEW field, NEW value, Read(stage, next, field, value),
             stage \in {"nodes", "rules", "groups"}, field = stage,
             \/ stage = "nodes" /\ next = "rules" /\ value = nodes
             \/ stage = "rules" /\ next = "groups" /\ value = rules
             \/ stage = "groups" /\ next = "regions" /\ value = groups
      PROVE  FlagInv'
  <2>1. gen.at = stage /\ "at" \in DOMAIN gen /\ field \notin DOMAIN gen
    BY <1>1 DEF Read, FlagInv, GenShape
  <2>2. /\ gen'.at = next /\ gen'[field] = value /\ DOMAIN gen' = DOMAIN gen \cup {field}
        /\ \A f \in DOMAIN gen \ {"at"} : gen'[f] = gen[f]
        /\ UNCHANGED <<inbounds, groups, nodes, rules, pool, template, needRestart, unasked>>
    BY <1>1, <2>1, ReadAdds
  <2>3. Tags' = Tags /\ Calm' = Calm /\ Routed' = Routed
    BY <2>2 DEF Tags, Calm, Routed
  <2>4. CASE stage = "nodes"
    BY <1>1, <2>1, <2>2, <2>3, <2>4 DEF FlagInv, GenShape, Fresh
  <2>5. CASE stage = "rules"
    BY <1>1, <2>1, <2>2, <2>3, <2>5 DEF FlagInv, GenShape, Fresh
  <2>6. CASE stage = "groups"
    BY <1>1, <2>1, <2>2, <2>3, <2>6 DEF FlagInv, GenShape, Fresh
  <2> QED BY <1>1, <2>4, <2>5, <2>6
<1>2. CASE ReadNodes
  BY <1>1, <1>2 DEF ReadNodes
<1>3. CASE ReadRules
  BY <1>1, <1>3 DEF ReadRules
<1>4. CASE ReadGroups
  BY <1>1, <1>4 DEF ReadGroups
<1> QED BY <1>2, <1>3, <1>4

LEMMA ReadRegionsKeeps == ASSUME FlagInv, ReadRegions PROVE FlagInv'
<1> DEFINE read == With([gen EXCEPT !.at = "done"], "regions", inbounds)
<1>1. gen.at = "regions" /\ DOMAIN gen = {"at", "served", "tags", "pool", "nodes", "rules", "groups"}
  BY DEF ReadRegions, FlagInv, GenShape
<1>2. /\ DOMAIN read = DOMAIN gen \cup {"regions"} /\ read.at = "done" /\ read.regions = inbounds
      /\ \A f \in DOMAIN gen \ {"at"} : read[f] = gen[f]
  BY <1>1 DEF With
<1>3. /\ gen' = With(read, "config", Inject(template, read))
      /\ UNCHANGED <<inbounds, groups, nodes, rules, pool, template, needRestart, unasked>>
  BY DEF ReadRegions, Quiet, flag, tables
<1> HIDE DEF read
<1>4. gen'.at = "done" /\ gen'.config = Inject(template, read) /\ gen'.served = gen.served
  BY <1>1, <1>2, <1>3 DEF With
<1>5. Tags' = Tags /\ Calm' = Calm /\ Now' = Now
  BY <1>3 DEF Tags, Calm, Now
<1>6. Calm => Inject(template, read) = Inject(template, Now)
  <2> SUFFICES ASSUME Calm PROVE Inject(template, read) = Inject(template, Now)
    OBVIOUS
  <2>1. /\ gen.tags = Tags /\ FilterMeterPool(gen.pool, Tags) = Routed /\ gen.nodes = nodes
        /\ gen.rules = rules /\ gen.groups = groups
    BY <1>1 DEF FlagInv, Fresh
  <2>2. /\ read.nodes = Now.nodes /\ read.rules = Now.rules /\ read.groups = Now.groups
        /\ read.regions = Now.regions /\ read.tags = Now.tags
    BY <1>1, <1>2, <2>1 DEF Now, Tags
  <2>3. FilterMeterPool(read.pool, read.tags) = FilterMeterPool(Now.pool, Now.tags)
    <3>1. read.pool = gen.pool /\ read.tags = Tags /\ Now.pool = pool /\ Now.tags = Tags
      BY <1>1, <1>2, <2>1 DEF Now, Tags
    <3> QED BY <2>1, <3>1 DEF Routed
  <2> QED BY <2>2, <2>3, InjectDepends
<1>7. GenShape'
  BY <1>4 DEF GenShape
<1>8. Calm' => Fresh'
  <2> SUFFICES ASSUME Calm' PROVE Fresh'
    OBVIOUS
  <2>1. gen.served = Tags /\ gen'.config = Inject(template, Now)
    BY <1>1, <1>4, <1>5, <1>6 DEF FlagInv, Fresh
  <2>2. Inject(template, Now)' = Inject(template, Now)
    BY <1>3, <1>5
  <2> QED BY <1>4, <1>5, <2>1, <2>2 DEF Fresh
<1> QED BY <1>7, <1>8 DEF FlagInv

LEMMA FlagInvAlways == Spec => []FlagInv
<1>1. Init => FlagInv
  BY DEF Init, NoGen, FlagInv, GenShape, Fresh
<1>2. FlagInv /\ [Next]_vars => FlagInv'
  <2> SUFFICES ASSUME FlagInv, [Next]_vars PROVE FlagInv'
    OBVIOUS
  <2>1. CASE UNCHANGED vars
    BY <2>1, UnreadKeeps DEF vars, tables, flag, Unread, Routed, Tags
  <2>2. CASE EditRules \/ ReorderRules \/ EditInbounds \/ EditNodes
    BY <2>2, EditsAsk, UnreadKeeps
  <2>3. CASE EditGroups \/ Subscribe \/ Meter
    BY <2>3, GroupsAsk, MeterAsks, UnreadKeeps
  <2>4. CASE Generate
    <3>1. CASE GenerationFails
      BY <3>1 DEF GenerationFails, NoGen, FlagInv, GenShape, Fresh
    <3> QED
        BY <2>4, <3>1, StartGenerationKeeps, ReadTagsKeeps, ReadPoolKeeps, ReadRowsKeep, ReadRegionsKeeps DEF Generate
  <2> QED BY <2>1, <2>2, <2>3, <2>4 DEF Next
<1> QED BY <1>1, <1>2, PTL DEF Spec

(* While the flag is down and no write has been missed, the configuration that  *)
(* was generated last says what the tables say, whatever was written before,    *)
(* between or after its reads.                                                  *)
THEOREM ConfigFollows == Spec => []ConfigFollowsTables
<1>1. FlagInv => ConfigFollowsTables
  <2>1. Now.tags = Tags
    BY DEF Now, Tags
  <2> QED BY <2>1 DEF FlagInv, Fresh, Calm, ConfigFollowsTables, UpToDate
<1> QED BY <1>1, FlagInvAlways, PTL

-----------------------------------------------------------------------------
(***************************************************************************)
(* The rules.  A new id is a free one (NewId), what a rule refers to       *)
(* stays as long as the rule, and two rules that both follow new users     *)
(* share no group (Apart), so neither a new user nor one that goes can     *)
(* bring two rules together.                                               *)
(***************************************************************************)
Rows ==
  /\ Numbered(inbounds) /\ Numbered(groups) /\ Numbered(nodes) /\ Numbered(rules)
  /\ \A i \in DOMAIN inbounds : "born" \in DOMAIN inbounds[i]
  /\ \A n \in DOMAIN nodes : {"born", "tag"} \subseteq DOMAIN nodes[n]
  /\ \A r \in DOMAIN rules : RuleRow(rules[r])

FormHolds ==
  /\ form.step \in {"none", "open", "numbered", "checked", "fetched"}
  /\ form.step # "none" =>
       /\ DOMAIN form = {"step", "id", "draft", "meant", "priority", "place"}
       /\ DOMAIN form.meant = {"users", "groups", "node"}
       /\ form.id \in Nat /\ (form.step = "fetched" => form.id # 0) /\ form.priority \in Nat
       /\ form.step \in {"checked", "fetched"} => form.draft.action \in Actions /\ form.draft.groups # {}

Apart == \A a, b \in DOMAIN rules : a # b /\ rules[a].sure /\ rules[b].sure => ~Conflicts(rules[a], rules[b])

RuleInv == Rows /\ FormHolds /\ RulesMeanWhatWasChosen /\ Apart

(* The largest of finitely many numbers: of the sets of what lies above one of  *)
(* them, a smallest one is empty.                                               *)
LEMMA MaxOfFinite ==
  ASSUME NEW T, IsFiniteSet(T), T \subseteq Nat, T # {}
  PROVE  Max(T) \in T /\ \A y \in T : y <= Max(T)
<1> DEFINE Above(k) == {y \in T : y > k}
           Aboves == {Above(k) : k \in T}
<1>1. IsWellFoundedOn(StrictSubsetOrdering(T), FiniteSubsetsOf(T))
  BY FS_StrictSubsetOrderingWellFounded
<1>2. Aboves \subseteq FiniteSubsetsOf(T) /\ Aboves # {}
  <2>1. \A k \in T : Above(k) \subseteq T /\ IsFiniteSet(Above(k))
    BY FS_Subset
  <2> HIDE DEF Above
  <2> QED BY <2>1 DEF FiniteSubsetsOf
<1>3. \E U \in Aboves : \A V \in Aboves : <<V, U>> \notin StrictSubsetOrdering(T)
  <2> HIDE DEF Aboves
  <2> QED BY <1>1, <1>2, WFMin
<1>4. PICK k \in T : \A j \in T : <<Above(j), Above(k)>> \notin StrictSubsetOrdering(T)
  <2> HIDE DEF Above
  <2> QED BY <1>3
<1>5. \A y \in T : y <= k
  <2> SUFFICES ASSUME NEW y \in T, y > k PROVE FALSE
    OBVIOUS
  <2>a. k \in Nat /\ y \in Nat /\ T \subseteq Nat
    OBVIOUS
  <2>b. \A z \in T : z > y => z > k
    BY <2>a
  <2>c. y \in Above(k) /\ y \notin Above(y)
    BY <2>a
  <2>1. Above(y) \subseteq Above(k) /\ y \in Above(k) /\ y \notin Above(y)
    BY <2>b, <2>c
  <2>2. Above(y) \in SUBSET T /\ Above(k) \in SUBSET T /\ Above(y) # Above(k)
    BY <2>1
  <2> HIDE DEF Above
  <2>3. <<Above(y), Above(k)>> \in StrictSubsetOrdering(T)
    BY <2>1, <2>2 DEF StrictSubsetOrdering
  <2> QED BY <1>4, <2>3
<1> HIDE DEF Above, Aboves
<1>6. \E x \in T : \A y \in T : x >= y
  BY <1>5
<1> QED BY <1>6 DEF Max

LEMMA NewId ==
  ASSUME NEW table, Numbered(table)
  PROVE  /\ NextId(table) \in Nat \ {0} /\ NextId(table) \notin DOMAIN table
         /\ \A row : Numbered(With(table, NextId(table), row))
<1> DEFINE T == DOMAIN table \cup {0}
<1>1. IsFiniteSet(T) /\ T \subseteq Nat /\ T # {}
  BY FS_AddElement DEF Numbered
<1>2. Max(T) \in T /\ \A y \in T : y <= Max(T)
  <2> HIDE DEF T
  <2> QED BY <1>1, MaxOfFinite
<1>3. NextId(table) = 1 + Max(T)
  BY DEF NextId
<1>4. Max(T) \in Nat /\ DOMAIN table \subseteq T
  BY <1>1, <1>2
<1> HIDE DEF T
<1>5. NextId(table) \in Nat \ {0} /\ NextId(table) \notin DOMAIN table
  BY <1>1, <1>2, <1>3, <1>4
<1>6. \A row : DOMAIN With(table, NextId(table), row) = DOMAIN table \cup {NextId(table)}
  BY DEF With
<1>7. IsFiniteSet(DOMAIN table \cup {NextId(table)})
  BY FS_AddElement DEF Numbered
<1> QED BY <1>5, <1>6, <1>7 DEF Numbered

LEMMA NewPriority ==
  ASSUME Rows
  PROVE  NextPriority \in Nat
<1> DEFINE f == [r \in DOMAIN rules |-> rules[r].priority]
           P == {rules[r].priority : r \in DOMAIN rules}
<1>1. f \in Surjection(DOMAIN rules, P)
  BY DEF Surjection
<1>2. IsFiniteSet(DOMAIN rules) /\ P \subseteq Nat
  BY DEF Rows, RuleRow, Numbered
<1>3. DOMAIN rules # {} => P # {}
  OBVIOUS
<1>4. NextPriority = IF DOMAIN rules = {} THEN 0 ELSE 1 + Max(P)
  BY DEF NextPriority
<1> HIDE DEF f, P
<1>5. IsFiniteSet(P)
  BY <1>1, <1>2, FS_Surjection
<1>6. DOMAIN rules # {} => Max(P) \in Nat
  BY <1>2, <1>3, <1>5, MaxOfFinite
<1>7. CASE DOMAIN rules = {}
  BY <1>4, <1>7
<1>8. CASE DOMAIN rules # {}
  <2> DEFINE m == Max(P)
  <2>1. NextPriority = 1 + m /\ m \in Nat
    BY <1>4, <1>6, <1>8
  <2> HIDE DEF m
  <2> QED BY <2>1
<1> QED BY <1>7, <1>8

LEMMA FewerAreNumbered ==
  ASSUME NEW table, NEW fewer, Numbered(table), DOMAIN fewer \subseteq DOMAIN table
  PROVE  Numbered(fewer)
BY FS_Subset DEF Numbered

LEMMA InitRuleInv == Init => RuleInv
<1> SUFFICES ASSUME Init PROVE RuleInv
  OBVIOUS
<1>1. PICK s \in Starts : /\ inbounds = s.inbounds /\ groups = s.groups /\ nodes = s.nodes /\ rules = s.rules
                          /\ form = NoForm
  BY DEF Init
<1>2. Rows
  BY <1>1, StartsAssumption DEF StartsAssumption, Rows
<1>3. FormHolds
  BY <1>1 DEF FormHolds, NoForm
<1>4. RulesMeanWhatWasChosen /\ Apart
  BY <1>1, StartsAssumption DEF StartsAssumption, RulesMeanWhatWasChosen, Apart
<1> QED BY <1>2, <1>3, <1>4 DEF RuleInv

(* Requests that write no rule, and take nothing that a rule refers to.         *)
LEMMA RulesStand ==
  ASSUME RuleInv, rules' = rules, FormHolds',
         Numbered(inbounds'), Numbered(groups'), Numbered(nodes'),
         \A i \in DOMAIN inbounds' : "born" \in DOMAIN inbounds'[i],
         \A n \in DOMAIN nodes' : {"born", "tag"} \subseteq DOMAIN nodes'[n],
         \A r \in DOMAIN rules :
           /\ \A i \in rules[r].inbounds \cap DOMAIN inbounds :
                i \in DOMAIN inbounds' /\ inbounds'[i].born = inbounds[i].born
           /\ \A g \in rules[r].groups \cap DOMAIN groups :
                g \in DOMAIN groups' /\ groups'[g].born = groups[g].born
           /\ rules[r].action = "proxy" /\ rules[r].node \in DOMAIN nodes =>
                rules[r].node \in DOMAIN nodes' /\ nodes'[rules[r].node].born = nodes[rules[r].node].born
  PROVE  RuleInv'
<1>1. Rows'
  BY DEF RuleInv, Rows
<1>2. RulesMeanWhatWasChosen'
  BY DEF RuleInv, RulesMeanWhatWasChosen, MeansWhatWasChosen
<1>3. Apart'
  BY DEF RuleInv, Apart
<1> QED BY <1>1, <1>2, <1>3 DEF RuleInv

LEMMA RulesUnread ==
  ASSUME RuleInv, UNCHANGED <<inbounds, groups, nodes, rules>>, FormHolds'
  PROVE  RuleInv'
BY RulesStand DEF RuleInv, Rows

LEMMA RulesUntouched ==
  ASSUME RuleInv, UNCHANGED <<inbounds, groups, nodes, rules, form>>
  PROVE  RuleInv'
<1>1. FormHolds'
  BY DEF RuleInv, FormHolds
<1> QED BY <1>1, RulesUnread

(* The row a form leaves: if it is sure, its checks hold of the tables it joins. *)
LEMMA SaveFormKeepsRules ==
  ASSUME RuleInv, SaveForm
  PROVE  RuleInv'
<1> DEFINE d == form.draft
           id == IF form.id = 0 THEN NextId(rules) ELSE form.id
           s == StillHolds(form.id, d)
           row == [inbounds |-> d.inbounds, groups |-> d.groups, action |-> d.action, node |-> d.node,
                   apply |-> d.apply, enable |-> d.enable, priority |-> form.priority,
                   meant |-> form.meant, sure |-> s]
<1>1. /\ form.step # "none" /\ form' = NoForm
      /\ UNCHANGED <<inbounds, groups, nodes>> /\ rules' = With(rules, id, row)
  BY DEF SaveForm
<1>2. /\ DOMAIN form.meant = {"users", "groups", "node"} /\ form.id \in Nat
      /\ d.action \in Actions /\ d.groups # {} /\ form.priority \in Nat
      /\ Rows /\ RulesMeanWhatWasChosen /\ Apart
  BY <1>1 DEF RuleInv, FormHolds, SaveForm
<1>3. Numbered(rules')
  <2>1. CASE form.id = 0
    BY <2>1, <1>1, <1>2, NewId DEF Rows
  <2>2. CASE form.id # 0
    <3>1. DOMAIN rules' = DOMAIN rules \cup {form.id}
      BY <2>2, <1>1 DEF With
    <3>2. IsFiniteSet(DOMAIN rules \cup {form.id})
      BY <1>2, FS_AddElement DEF Rows, Numbered
    <3> QED BY <3>1, <3>2, <2>2, <1>2 DEF Rows, Numbered
  <2> QED BY <2>1, <2>2
<1>4. form.id # 0 => id = form.id
  OBVIOUS
<1>5. form.id = 0 => id \notin DOMAIN rules
  BY <1>2, NewId DEF Rows
<1>6. 0 \notin DOMAIN rules
  BY <1>2 DEF Rows, Numbered
<1>7. s => /\ Offered(d) /\ Meaning(d) = form.meant
           /\ \A o \in DOMAIN rules \ {id} : ~Conflicts(d, rules[o])
  <2>1. s => Offered(d) /\ Meaning(d) = form.meant /\ NoConflict(form.id, d)
    BY DEF StillHolds
  <2> HIDE DEF d, s
  <2>2. NoConflict(form.id, d) => \A o \in DOMAIN rules \ {id} : ~Conflicts(d, rules[o])
    BY <1>4, <1>5, <1>6 DEF NoConflict
  <2> HIDE DEF id
  <2> QED BY <2>1, <2>2
<1> HIDE DEF s, d
<1>8. RuleRow(row) /\ (row.sure <=> s)
  <2>1. RuleRow(row)
    BY <1>2 DEF RuleRow
  <2>2. s \in BOOLEAN
    BY DEF s, StillHolds, Offered, NoConflict
  <2> QED BY <2>1, <2>2
<1>9. s => MeansWhatWasChosen(row, inbounds, groups, nodes)
  <2> SUFFICES ASSUME s PROVE MeansWhatWasChosen(row, inbounds, groups, nodes)
    OBVIOUS
  <2>1. /\ form.meant.users = {inbounds[i].born : i \in d.inbounds}
        /\ form.meant.groups = {groups[g].born : g \in d.groups}
        /\ d.action = "proxy" => form.meant.node = nodes[d.node].born
    BY <1>7 DEF Meaning
  <2>2. /\ row.inbounds = d.inbounds /\ row.groups = d.groups /\ row.action = d.action
        /\ row.node = d.node /\ row.meant = form.meant
    OBVIOUS
  <2> HIDE DEF row
  <2>3. \A i \in d.inbounds : i \in DOMAIN inbounds /\ inbounds[i].born \in form.meant.users
    BY <2>1, <1>7 DEF Offered
  <2>4. d.inbounds = {} <=> form.meant.users = {}
    <3>1. CASE d.inbounds = {}
      <4>1. form.meant.users = {inbounds[i].born : i \in {}}
        BY <2>1, <3>1
      <4> QED BY <3>1, <4>1
    <3>2. ASSUME NEW i \in d.inbounds
          PROVE  form.meant.users # {}
      BY <2>3
    <3> QED BY <3>1, <3>2
  <2>5. \A g \in d.groups : g \in DOMAIN groups /\ groups[g].born \in form.meant.groups
    BY <2>1, <1>7 DEF Offered
  <2> QED BY <2>1, <2>2, <2>3, <2>4, <2>5, <1>7 DEF MeansWhatWasChosen, Offered
<1>10. \A o \in DOMAIN rules \ {id} : s => ~Conflicts(row, rules[o]) /\ ~Conflicts(rules[o], row)
  BY <1>7 DEF Conflicts, IntersectInbounds
<1> HIDE DEF row, id
<1>11. /\ DOMAIN rules' = DOMAIN rules \cup {id} /\ rules'[id] = row
       /\ \A o \in DOMAIN rules \ {id} : rules'[o] = rules[o]
  BY <1>1 DEF With
<1>12. Rows'
  BY <1>1, <1>2, <1>3, <1>8, <1>11 DEF Rows
<1>13. FormHolds'
  BY <1>1 DEF FormHolds, NoForm
<1>14. RulesMeanWhatWasChosen'
  BY <1>1, <1>2, <1>8, <1>9, <1>11 DEF RulesMeanWhatWasChosen
<1>15. Apart'
  BY <1>2, <1>8, <1>10, <1>11 DEF Apart
<1> QED BY <1>12, <1>13, <1>14, <1>15 DEF RuleInv

LEMMA FormKeepsRules ==
  ASSUME RuleInv,
         (\E d \in Drafts, id \in DOMAIN rules \cup {0} : OpenForm(id, d)) \/ NumberForm \/ CheckForm \/ FetchRow
  PROVE  RuleInv'
<1>1. UNCHANGED <<inbounds, groups, nodes, rules>>
  BY DEF OpenForm, NumberForm, CheckForm, FetchRow, tables
<1>2. FormHolds'
  <2>1. ASSUME NEW d \in Drafts, NEW id \in DOMAIN rules \cup {0}, OpenForm(id, d)
        PROVE  FormHolds'
    <3>1. id \in Nat
      BY DEF RuleInv, Rows, Numbered
    <3>2. form' = [step |-> "open", id |-> id, draft |-> d, meant |-> Meaning(d), priority |-> 0, place |-> {}]
      BY <2>1 DEF OpenForm
    <3>3. DOMAIN Meaning(d) = {"users", "groups", "node"}
      BY DEF Meaning
    <3> QED BY <3>1, <3>2, <3>3 DEF FormHolds
  <2>2. CASE NumberForm
    <3>1. form.step # "none" /\ form' = [form EXCEPT !.step = "numbered", !.priority = NextPriority, !.place = Place(0)]
      BY <2>2 DEF NumberForm
    <3>2. NextPriority \in Nat
      BY NewPriority DEF RuleInv
    <3> QED BY <3>1, <3>2 DEF RuleInv, FormHolds
  <2>3. CASE CheckForm
    <3>1. CASE form' = NoForm
      BY <3>1 DEF FormHolds, NoForm
    <3>2. CASE form' # NoForm
      <4>1. form.step # "none" /\ Valid(form.draft) /\ form' = [form EXCEPT !.step = "checked"]
        BY <2>3, <3>2 DEF CheckForm
      <4>2. form.draft.action \in Actions /\ form.draft.groups # {}
        BY <4>1 DEF Valid
      <4> QED BY <4>1, <4>2 DEF RuleInv, FormHolds
    <3> QED BY <3>1, <3>2
  <2>4. CASE FetchRow
    <3>1. /\ form.step = "checked" /\ form.id # 0
          /\ \/ /\ form.id \in DOMAIN rules
                /\ form' = [form EXCEPT !.step = "fetched", !.priority = rules[form.id].priority,
                                        !.place = Place(form.id)]
             \/ form' = NoForm
      BY <2>4 DEF FetchRow
    <3>2. CASE form' = NoForm
      BY <3>2 DEF FormHolds, NoForm
    <3>3. CASE form' # NoForm
      <4>1. /\ DOMAIN form' = DOMAIN form /\ form'.id = form.id /\ form'.meant = form.meant
            /\ form'.draft = form.draft /\ form'.step = "fetched"
            /\ form'.priority = rules[form.id].priority
        BY <3>1, <3>3 DEF RuleInv, FormHolds
      <4>2. rules[form.id].priority \in Nat
        BY <3>1, <3>3 DEF RuleInv, Rows, RuleRow
      <4> QED BY <3>1, <4>1, <4>2 DEF RuleInv, FormHolds
    <3> QED BY <3>2, <3>3
  <2> QED BY <2>1, <2>2, <2>3, <2>4
<1> QED BY <1>1, <1>2, RulesUnread

LEMMA DelRuleKeepsRules ==
  ASSUME RuleInv, NEW id \in DOMAIN rules, DelRule(id)
  PROVE  RuleInv'
<1>1. rules' = Without(rules, id) /\ UNCHANGED <<inbounds, groups, nodes, form>>
  BY DEF DelRule
<1>2. /\ DOMAIN rules' \subseteq DOMAIN rules /\ \A r \in DOMAIN rules' : rules'[r] = rules[r]
  BY <1>1 DEF Without, Restrict
<1>3. Numbered(rules')
  BY <1>2, FewerAreNumbered DEF RuleInv, Rows
<1>4. Rows' /\ FormHolds'
  BY <1>1, <1>2, <1>3 DEF RuleInv, Rows, FormHolds
<1>5. RulesMeanWhatWasChosen' /\ Apart'
  BY <1>1, <1>2 DEF RuleInv, RulesMeanWhatWasChosen, Apart
<1> QED BY <1>4, <1>5 DEF RuleInv

LEMMA ReorderKeepsRules ==
  ASSUME RuleInv, NEW p \in Permutations0(DOMAIN rules), Reorder(p)
  PROVE  RuleInv'
<1>1. /\ rules' = [r \in DOMAIN rules |-> [rules[r] EXCEPT !.priority = p[r]]]
      /\ UNCHANGED <<inbounds, groups, nodes, form>>
  BY DEF Reorder
<1>2. DOMAIN rules' = DOMAIN rules /\ Rows
  BY <1>1 DEF RuleInv
<1>3. \A r \in DOMAIN rules :
        /\ DOMAIN rules'[r] = DOMAIN rules[r] /\ rules'[r].meant = rules[r].meant
        /\ rules'[r].inbounds = rules[r].inbounds /\ rules'[r].groups = rules[r].groups
        /\ rules'[r].action = rules[r].action /\ rules'[r].node = rules[r].node
        /\ rules'[r].apply = rules[r].apply /\ rules'[r].sure = rules[r].sure
  BY <1>1, <1>2 DEF Rows, RuleRow
<1>a. \A r \in DOMAIN rules : rules'[r].priority = p[r] /\ p[r] \in Nat
  <2>1. Cardinality(DOMAIN rules) \in Nat
    BY <1>2, FS_CardinalityType DEF Rows, Numbered
  <2>2. \A r \in DOMAIN rules : p[r] \in Nat
    BY <2>1 DEF Permutations0
  <2> QED BY <1>1, <1>2, <2>2 DEF Rows, RuleRow
<1>b. \A r \in DOMAIN rules : RuleRow(rules'[r])
  BY <1>2, <1>3, <1>a DEF Rows, RuleRow
<1>4. Rows' /\ FormHolds'
  BY <1>1, <1>2, <1>b DEF RuleInv, Rows, FormHolds, Numbered
<1>5. RulesMeanWhatWasChosen'
  BY <1>1, <1>2, <1>3 DEF RuleInv, RulesMeanWhatWasChosen, MeansWhatWasChosen
<1>6. Apart'
  BY <1>2, <1>3 DEF RuleInv, Apart, Conflicts
<1> QED BY <1>4, <1>5, <1>6 DEF RuleInv

(* A new user: two rules that would both take it on were apart already, by group. *)
LEMMA AddInboundKeepsRules ==
  ASSUME RuleInv, NEW geo, AddInbound(geo)
  PROVE  RuleInv'
<1> DEFINE id == NextId(inbounds)
           user == [born |-> serial', enable |-> TRUE, geo |-> geo]
           takes(r) == rules[r].apply /\ rules[r].inbounds # {}
<1>1. /\ inbounds' = With(inbounds, id, user) /\ rules' = AttachInbound(id, serial')
      /\ UNCHANGED <<groups, nodes, form>>
  BY DEF AddInbound
<1>2. Rows /\ RulesMeanWhatWasChosen /\ Apart
  BY DEF RuleInv
<1>3. id \notin DOMAIN inbounds /\ Numbered(inbounds')
  BY <1>1, <1>2, NewId DEF Rows
<1>4. "born" \in DOMAIN user /\ user.born = serial'
  OBVIOUS
<1> HIDE DEF id, user
<1>5. /\ DOMAIN inbounds' = DOMAIN inbounds \cup {id} /\ inbounds'[id] = user
      /\ \A i \in DOMAIN inbounds : inbounds'[i] = inbounds[i]
  BY <1>1, <1>3 DEF With
<1>6. DOMAIN rules' = DOMAIN rules
  BY <1>1 DEF AttachInbound
<1>7. \A r \in DOMAIN rules : ~takes(r) => rules'[r] = rules[r]
  BY <1>1 DEF AttachInbound
<1>8. ASSUME NEW r \in DOMAIN rules, takes(r)
      PROVE  /\ DOMAIN rules'[r] = DOMAIN rules[r] /\ DOMAIN rules'[r].meant = DOMAIN rules[r].meant
             /\ rules'[r].inbounds = rules[r].inbounds \cup {id}
             /\ rules'[r].meant.users = rules[r].meant.users \cup {serial'}
             /\ rules'[r].meant.groups = rules[r].meant.groups /\ rules'[r].meant.node = rules[r].meant.node
             /\ rules'[r].groups = rules[r].groups /\ rules'[r].action = rules[r].action
             /\ rules'[r].node = rules[r].node /\ rules'[r].priority = rules[r].priority
             /\ rules'[r].apply = rules[r].apply /\ rules'[r].sure = rules[r].sure
  <2>1. rules'[r] = Named(rules[r], id, serial')
    BY <1>1, <1>8 DEF AttachInbound
  <2>2. RuleRow(rules[r])
    BY <1>2 DEF Rows
  <2> QED BY <2>1, <2>2 DEF RuleRow, Named
<1>9. \A r \in DOMAIN rules :
        /\ DOMAIN rules'[r] = DOMAIN rules[r] /\ DOMAIN rules'[r].meant = DOMAIN rules[r].meant
        /\ rules'[r].groups = rules[r].groups
        /\ rules'[r].action = rules[r].action /\ rules'[r].priority = rules[r].priority
        /\ rules'[r].apply = rules[r].apply /\ rules'[r].sure = rules[r].sure
  <2> HIDE DEF takes
  <2> QED BY <1>7, <1>8
<1>10. Rows'
  <2>1. Numbered(rules')
    BY <1>2, <1>6 DEF Rows, Numbered
  <2> QED BY <1>1, <1>2, <1>3, <1>4, <1>5, <1>6, <1>9, <2>1 DEF Rows, RuleRow
<1>11. FormHolds'
  BY <1>1 DEF RuleInv, FormHolds
<1>12. ASSUME NEW r \in DOMAIN rules, rules[r].sure
       PROVE  MeansWhatWasChosen(rules'[r], inbounds', groups, nodes)
  <2>1. MeansWhatWasChosen(rules[r], inbounds, groups, nodes)
    BY <1>2, <1>12 DEF RulesMeanWhatWasChosen
  <2>2. CASE takes(r)
    BY <2>1, <2>2, <1>4, <1>5, <1>8 DEF MeansWhatWasChosen
  <2>3. CASE ~takes(r)
    BY <2>1, <2>3, <1>5, <1>7 DEF MeansWhatWasChosen
  <2> QED BY <2>2, <2>3
<1>13. RulesMeanWhatWasChosen'
  BY <1>1, <1>6, <1>9, <1>12 DEF RulesMeanWhatWasChosen
<1>14. ASSUME NEW a \in DOMAIN rules, NEW b \in DOMAIN rules, a # b, rules[a].sure, rules[b].sure
       PROVE  ~Conflicts(rules'[a], rules'[b])
  <2>1. ~Conflicts(rules[a], rules[b])
    BY <1>2, <1>14 DEF Apart
  <2>2. rules[a].inbounds \subseteq DOMAIN inbounds /\ rules[b].inbounds \subseteq DOMAIN inbounds
    BY <1>2, <1>14 DEF RulesMeanWhatWasChosen, MeansWhatWasChosen
  <2>3. CASE rules[a].groups \cap rules[b].groups = {}
    BY <2>3, <1>9 DEF Conflicts
  <2>4. CASE rules[a].groups \cap rules[b].groups # {}
    <3>1. ~(rules[a].apply /\ rules[b].apply) /\ ~IntersectInbounds(rules[a].inbounds, rules[b].inbounds)
      BY <2>1, <2>4 DEF Conflicts
    <3>2. ~IntersectInbounds(rules'[a].inbounds, rules'[b].inbounds)
      <4>1. CASE takes(a)
        BY <4>1, <3>1, <2>2, <1>3, <1>7, <1>8 DEF IntersectInbounds
      <4>2. CASE takes(b)
        BY <4>2, <3>1, <2>2, <1>3, <1>7, <1>8 DEF IntersectInbounds
      <4>3. CASE ~takes(a) /\ ~takes(b)
        BY <4>3, <3>1, <1>7
      <4> QED BY <4>1, <4>2, <4>3
    <3> QED BY <3>1, <3>2, <1>9 DEF Conflicts
  <2> QED BY <2>3, <2>4
<1>15. Apart'
  BY <1>6, <1>9, <1>14 DEF Apart
<1> QED BY <1>10, <1>11, <1>13, <1>15 DEF RuleInv

(* A user that goes: a rule for this user alone goes with it, and no other rule *)
(* is left without users.                                                       *)
LEMMA DelInboundKeepsRules ==
  ASSUME RuleInv, NEW id \in DOMAIN inbounds, DelInbound(id)
  PROVE  RuleInv'
<1>1. /\ UNCHANGED <<groups, nodes, form>>
      /\ \/ inbounds' = Without(inbounds, id) /\ rules' = DetachInbound(id)
         \/ UNCHANGED <<inbounds, rules>>
  BY DEF DelInbound
<1>2. CASE UNCHANGED <<inbounds, rules>>
  BY <1>1, <1>2, RulesUntouched
<1>3. CASE inbounds' = Without(inbounds, id) /\ rules' = DetachInbound(id)
  <2>1. /\ DOMAIN inbounds' = DOMAIN inbounds \ {id}
        /\ \A i \in DOMAIN inbounds' : inbounds'[i] = inbounds[i]
    BY <1>3 DEF Without, Restrict
  <2>2. DOMAIN rules' \subseteq DOMAIN rules /\ \A r \in DOMAIN rules' : rules[r].inbounds # {id}
    BY <1>3 DEF DetachInbound
  <2>3. Rows
    BY DEF RuleInv
  <2>4. \A r \in DOMAIN rules' :
          /\ DOMAIN rules'[r] = DOMAIN rules[r] /\ rules'[r].meant = rules[r].meant
          /\ rules'[r].inbounds = rules[r].inbounds \ {id} /\ rules'[r].groups = rules[r].groups
          /\ rules'[r].action = rules[r].action /\ rules'[r].node = rules[r].node
          /\ rules'[r].priority = rules[r].priority
          /\ rules'[r].apply = rules[r].apply /\ rules'[r].sure = rules[r].sure
    BY <1>3, <2>2, <2>3 DEF DetachInbound, Rows, RuleRow
  <2>5. Numbered(inbounds') /\ Numbered(rules')
    BY <2>1, <2>2, <2>3, FewerAreNumbered DEF Rows
  <2>6. Rows' /\ FormHolds'
    BY <1>1, <2>1, <2>2, <2>3, <2>4, <2>5 DEF RuleInv, Rows, RuleRow, FormHolds
  <2>7. ASSUME NEW r \in DOMAIN rules', rules[r].sure
        PROVE  MeansWhatWasChosen(rules'[r], inbounds', groups, nodes)
    <3>1. r \in DOMAIN rules /\ MeansWhatWasChosen(rules[r], inbounds, groups, nodes)
      BY <2>2, <2>7 DEF RuleInv, RulesMeanWhatWasChosen
    <3>2. rules'[r].inbounds = {} <=> rules[r].inbounds = {}
      BY <2>2, <2>4
    <3> QED BY <3>1, <3>2, <2>1, <2>4 DEF MeansWhatWasChosen
  <2>8. RulesMeanWhatWasChosen'
    BY <1>1, <2>4, <2>7 DEF RulesMeanWhatWasChosen
  <2>9. ASSUME NEW a \in DOMAIN rules', NEW b \in DOMAIN rules', a # b, rules[a].sure, rules[b].sure
        PROVE  ~Conflicts(rules'[a], rules'[b])
    <3>1. a \in DOMAIN rules /\ b \in DOMAIN rules /\ ~Conflicts(rules[a], rules[b])
      BY <2>2, <2>9 DEF RuleInv, Apart
    <3>2. /\ rules'[a].inbounds = {} <=> rules[a].inbounds = {}
          /\ rules'[b].inbounds = {} <=> rules[b].inbounds = {}
          /\ rules'[a].inbounds \cap rules'[b].inbounds \subseteq rules[a].inbounds \cap rules[b].inbounds
      BY <2>2, <2>4
    <3> QED BY <3>1, <3>2, <2>4 DEF Conflicts, IntersectInbounds
  <2>10. Apart'
    BY <2>4, <2>9 DEF Apart
  <2> QED BY <2>6, <2>8, <2>10 DEF RuleInv
<1> QED BY <1>1, <1>2, <1>3

LEMMA SwitchInboundKeepsRules ==
  ASSUME RuleInv, NEW id \in DOMAIN inbounds, SwitchInbound(id)
  PROVE  RuleInv'
<1>1. inbounds' = [inbounds EXCEPT ![id].enable = ~@] /\ UNCHANGED <<groups, nodes, rules, form>>
  BY DEF SwitchInbound
<1>2. Rows /\ FormHolds'
  BY <1>1 DEF RuleInv, FormHolds
<1>3. DOMAIN inbounds' = DOMAIN inbounds
  BY <1>1
<1>4. \A i \in DOMAIN inbounds : DOMAIN inbounds'[i] = DOMAIN inbounds[i] /\ inbounds'[i].born = inbounds[i].born
  BY <1>1, <1>2 DEF Rows
<1>5. Numbered(inbounds') /\ Numbered(groups') /\ Numbered(nodes')
  BY <1>1, <1>2, <1>3 DEF Rows, Numbered
<1> QED BY <1>1, <1>2, <1>3, <1>4, <1>5, RulesStand DEF Rows

LEMMA GroupRequestsKeepRules ==
  ASSUME RuleInv, IInv, EditGroups
  PROVE  RuleInv'
<1>1. UNCHANGED <<inbounds, nodes, rules, form>>
  BY Zenon DEF EditGroups, AddGroup, DelGroup, UpdateGroup, PruneSubscriptionOrphans
<1>2. Rows /\ FormHolds'
  BY <1>1 DEF RuleInv, FormHolds
<1>3. ASSUME Numbered(groups'),
             \A r \in DOMAIN rules : \A g \in rules[r].groups \cap DOMAIN groups :
               g \in DOMAIN groups' /\ groups'[g].born = groups[g].born
      PROVE  RuleInv'
  BY <1>1, <1>2, <1>3, RulesStand DEF Rows
<1>4. ASSUME NEW d \in GroupDrafts, AddGroup(d)
      PROVE  RuleInv'
  <2> DEFINE id == NextId(groups)
             row == [born |-> serial', domains |-> d.domains, cidrs |-> d.cidrs, urls |-> d.urls, sub |-> {}]
  <2>1. groups' = With(groups, id, row)
    BY <1>4 DEF AddGroup
  <2>2. id \notin DOMAIN groups /\ Numbered(groups')
    BY <1>2, <2>1, NewId DEF Rows
  <2> HIDE DEF id, row
  <2>3. \A g \in DOMAIN groups : g \in DOMAIN groups' /\ groups'[g] = groups[g]
    BY <2>1, <2>2 DEF With
  <2> QED BY <1>3, <2>2, <2>3
<1>5. ASSUME NEW id \in DOMAIN groups, DelGroup(id)
      PROVE  RuleInv'
  <2>1. (\A r \in DOMAIN rules : id \notin rules[r].groups) /\ groups' = Without(groups, id)
    BY <1>5 DEF DelGroup
  <2>2. DOMAIN groups' = DOMAIN groups \ {id} /\ \A g \in DOMAIN groups' : groups'[g] = groups[g]
    BY <2>1 DEF Without, Restrict
  <2>3. Numbered(groups')
    BY <1>2, <2>2, FewerAreNumbered DEF Rows
  <2> QED BY <1>3, <2>1, <2>2, <2>3
<1>6. ASSUME NEW id \in DOMAIN groups, NEW d \in GroupDrafts, UpdateGroup(id, d)
      PROVE  RuleInv'
  <2>1. groups' = [groups EXCEPT ![id].domains = d.domains, ![id].cidrs = d.cidrs, ![id].urls = d.urls,
                                 ![id].sub = IF d.urls = groups[id].urls THEN @ ELSE {}]
    BY <1>6 DEF UpdateGroup
  <2>2. DOMAIN groups[id] = {"born", "domains", "cidrs", "urls", "sub"}
    BY DEF IInv, GroupsTyped, GroupRow
  <2>3. DOMAIN groups' = DOMAIN groups /\ \A g \in DOMAIN groups : groups'[g].born = groups[g].born
    BY <2>1, <2>2
  <2>4. Numbered(groups')
    BY <1>2, <2>3 DEF Rows, Numbered
  <2> QED BY <1>3, <2>3, <2>4
<1>7. CASE PruneSubscriptionOrphans
  BY <1>1, <1>7, RulesUntouched DEF PruneSubscriptionOrphans
<1> QED BY <1>4, <1>5, <1>6, <1>7 DEF EditGroups

LEMMA SubscribeKeepsRules ==
  ASSUME RuleInv, IInv, Subscribe
  PROVE  RuleInv'
<1>1. ASSUME NEW id \in DOMAIN groups, NEW due, StartFetch(id, due)
      PROVE  RuleInv'
  BY <1>1, RulesUntouched DEF StartFetch, tables
<1>2. ASSUME NEW ok, EndFetch(ok)
      PROVE  RuleInv'
  <2>1. /\ UNCHANGED <<inbounds, nodes, rules, form>>
        /\ groups' = groups \/ (StillAsked /\ groups' = [groups EXCEPT ![fetch.id].sub = Merged(ok)])
    BY <1>2 DEF EndFetch
  <2>2. CASE groups' = groups
    BY <2>1, <2>2, RulesUntouched
  <2>3. CASE StillAsked /\ groups' = [groups EXCEPT ![fetch.id].sub = Merged(ok)]
    <3>1. DOMAIN groups[fetch.id] = {"born", "domains", "cidrs", "urls", "sub"}
      BY <2>3 DEF IInv, GroupsTyped, GroupRow, StillAsked
    <3>2. DOMAIN groups' = DOMAIN groups /\ \A g \in DOMAIN groups : groups'[g].born = groups[g].born
      BY <2>3, <3>1
    <3>3. Rows /\ FormHolds' /\ Numbered(groups')
      BY <2>1, <3>2 DEF RuleInv, FormHolds, Rows, Numbered
    <3> QED BY <2>1, <3>2, <3>3, RulesStand DEF Rows
  <2> QED BY <2>1, <2>2, <2>3
<1> QED BY <1>1, <1>2 DEF Subscribe

LEMMA NodeRequestsKeepRules ==
  ASSUME RuleInv, EditNodes
  PROVE  RuleInv'
<1>1. UNCHANGED <<inbounds, groups, rules, form>>
  BY DEF EditNodes, AddNode, DelNode, UpdateNode
<1>2. Rows /\ FormHolds'
  BY <1>1 DEF RuleInv, FormHolds
<1>3. ASSUME Numbered(nodes'), \A n \in DOMAIN nodes' : {"born", "tag"} \subseteq DOMAIN nodes'[n],
             \A r \in DOMAIN rules : rules[r].action = "proxy" /\ rules[r].node \in DOMAIN nodes =>
               rules[r].node \in DOMAIN nodes' /\ nodes'[rules[r].node].born = nodes[rules[r].node].born
      PROVE  RuleInv'
  BY <1>1, <1>2, <1>3, RulesStand DEF Rows
<1>4. CASE AddNode
  <2> DEFINE id == NextId(nodes)
             row == [born |-> serial', tag |-> AllocTag, enable |-> TRUE, sound |-> TRUE]
  <2>1. nodes' = With(nodes, id, row)
    BY <1>4 DEF AddNode
  <2>2. id \notin DOMAIN nodes /\ Numbered(nodes')
    BY <1>2, <2>1, NewId DEF Rows
  <2>3. {"born", "tag"} \subseteq DOMAIN row
    OBVIOUS
  <2> HIDE DEF id, row
  <2>4. /\ DOMAIN nodes' = DOMAIN nodes \cup {id} /\ nodes'[id] = row
        /\ \A n \in DOMAIN nodes : nodes'[n] = nodes[n]
    BY <2>1, <2>2 DEF With
  <2>5. \A n \in DOMAIN nodes' : {"born", "tag"} \subseteq DOMAIN nodes'[n]
    BY <1>2, <2>3, <2>4 DEF Rows
  <2> QED BY <1>3, <2>2, <2>4, <2>5
<1>5. ASSUME NEW id \in DOMAIN nodes, DelNode(id)
      PROVE  RuleInv'
  <2>1. /\ \A r \in DOMAIN rules : rules[r].action # "proxy" \/ rules[r].node # id
        /\ nodes' = Without(nodes, id)
    BY <1>5 DEF DelNode
  <2>2. DOMAIN nodes' = DOMAIN nodes \ {id} /\ \A n \in DOMAIN nodes' : nodes'[n] = nodes[n]
    BY <2>1 DEF Without, Restrict
  <2>3. Numbered(nodes') /\ \A n \in DOMAIN nodes' : {"born", "tag"} \subseteq DOMAIN nodes'[n]
    BY <1>2, <2>2, FewerAreNumbered DEF Rows
  <2> QED BY <1>3, <2>1, <2>2, <2>3
<1>6. ASSUME NEW id \in DOMAIN nodes, NEW e, NEW n, UpdateNode(id, e, n)
      PROVE  RuleInv'
  <2>1. nodes' = [nodes EXCEPT ![id].enable = e, ![id].sound = @ \/ n]
    BY <1>6 DEF UpdateNode
  <2>2. DOMAIN nodes' = DOMAIN nodes
    BY <2>1
  <2>3. \A i \in DOMAIN nodes : DOMAIN nodes'[i] = DOMAIN nodes[i] /\ nodes'[i].born = nodes[i].born
    BY <1>2, <2>1 DEF Rows
  <2>4. Numbered(nodes') /\ \A i \in DOMAIN nodes' : {"born", "tag"} \subseteq DOMAIN nodes'[i]
    BY <1>2, <2>2, <2>3 DEF Rows, Numbered
  <2> QED BY <1>3, <2>2, <2>3, <2>4
<1> QED BY <1>4, <1>5, <1>6 DEF EditNodes

LEMMA GenerationKeepsRules ==
  ASSUME RuleInv, Meter \/ Generate \/ UNCHANGED vars
  PROVE  RuleInv'
<1>1. UNCHANGED <<inbounds, groups, nodes, rules, form>>
  BY DEF Meter, Generate, Recompute, PruneMeterOrphans, StartGeneration, ReadTags, ReadPool, ReadNodes,
         ReadRules, ReadGroups, ReadRegions, GenerationFails, Read, tables, vars
<1> QED BY <1>1, RulesUntouched

LEMMA RuleInvAlways == Spec => []RuleInv
<1>1. IInv /\ RuleInv /\ [Next]_vars => RuleInv'
  <2> SUFFICES ASSUME IInv, RuleInv, [Next]_vars PROVE RuleInv'
    OBVIOUS
  <2>1. CASE EditRules
    BY <2>1, FormKeepsRules, SaveFormKeepsRules, DelRuleKeepsRules DEF EditRules
  <2>2. CASE ReorderRules
    BY <2>2, ReorderKeepsRules DEF ReorderRules
  <2>3. CASE EditInbounds
    BY <2>3, AddInboundKeepsRules, DelInboundKeepsRules, SwitchInboundKeepsRules DEF EditInbounds
  <2>4. CASE EditGroups
    BY <2>4, GroupRequestsKeepRules
  <2>5. CASE Subscribe
    BY <2>5, SubscribeKeepsRules
  <2>6. CASE EditNodes
    BY <2>6, NodeRequestsKeepRules
  <2>7. CASE Meter \/ Generate \/ UNCHANGED vars
    BY <2>7, GenerationKeepsRules
  <2> QED BY <2>1, <2>2, <2>3, <2>4, <2>5, <2>6, <2>7 DEF Next
<1> QED BY <1>1, InitRuleInv, AlwaysIInv, PTL DEF Spec

(* A rule nothing has come between speaks, for ever after, of the users, groups *)
(* and node that were chosen in its form (DetachInbound, AttachInbound and the  *)
(* refusals to delete what a rule refers to): it never passes to whoever is     *)
(* given a used id, refers to nothing that has gone, and never becomes a rule   *)
(* for everybody.                                                               *)
THEOREM RulesMean == Spec => []RulesMeanWhatWasChosen
<1>1. RuleInv => RulesMeanWhatWasChosen
  BY DEF RuleInv
<1> QED BY <1>1, RuleInvAlways, PTL

(* Two rules that nothing has come between never cover one user under one group *)
(* (checkConflict), however many users come and go after they were saved.       *)
THEOREM OneRule == Spec => []OneRulePerUserAndGroup
<1>1. RuleInv => OneRulePerUserAndGroup
  <2> SUFFICES ASSUME Apart, NEW a \in DOMAIN rules, NEW b \in DOMAIN rules,
                      a # b, rules[a].sure, rules[b].sure
               PROVE  \/ rules[a].groups \cap rules[b].groups = {}
                      \/ ~IntersectInbounds(rules[a].inbounds, rules[b].inbounds)
    BY DEF RuleInv, OneRulePerUserAndGroup
  <2> QED BY DEF Apart, Conflicts
<1> QED BY <1>1, RuleInvAlways, PTL

-----------------------------------------------------------------------------
(***************************************************************************)
(* The types.  Serial numbers grow, so a new row is not taken for an old   *)
(* one; and of more tags than there are nodes one is free (NewTag).        *)
(***************************************************************************)
SerialsHold ==
  /\ serial \in Nat
  /\ Born(inbounds) \cup Born(groups) \cup Born(nodes) \subseteq 1..serial
  /\ ToldApart(inbounds, groups, nodes) /\ TagsDiffer(nodes)
FlagsTyped ==
  /\ needRestart \in BOOLEAN /\ unasked \subseteq {"bans", "pool", "refresh"}
  /\ gen.at \in {"idle", "tags", "pool", "nodes", "rules", "groups", "regions", "done"}
TypeInv == SerialsHold /\ FlagsTyped

LEMMA InitTypeInv == Init => TypeInv
<1> SUFFICES ASSUME Init PROVE TypeInv
  OBVIOUS
<1>1. PICK s \in Starts : inbounds = s.inbounds /\ groups = s.groups /\ nodes = s.nodes /\ serial = s.serial
  BY DEF Init
<1>2. SerialsHold
  BY <1>1, StartsAssumption, GroupsAssumption DEF StartsAssumption, GroupsAssumption, SerialsHold
<1>3. FlagsTyped
  BY DEF Init, NoGen, FlagsTyped
<1> QED BY <1>2, <1>3 DEF TypeInv

LEMMA FlagsKeepTyped ==
  ASSUME FlagsTyped, GenShape, [Next]_vars
  PROVE  FlagsTyped'
<1>1. needRestart' \in BOOLEAN /\ unasked' \subseteq {"bans", "pool", "refresh"}
  <2>1. /\ Ask => needRestart' \in BOOLEAN /\ unasked' \subseteq {"bans", "pool", "refresh"}
        /\ Quiet => needRestart' \in BOOLEAN /\ unasked' \subseteq {"bans", "pool", "refresh"}
        /\ \A why \in {"bans", "pool", "refresh"} :
             Missed(why) => needRestart' \in BOOLEAN /\ unasked' \subseteq {"bans", "pool", "refresh"}
    BY DEF FlagsTyped, Ask, Quiet, Missed, flag
  <2>2. StartGeneration => needRestart' \in BOOLEAN /\ unasked' \subseteq {"bans", "pool", "refresh"}
    BY DEF StartGeneration
  <2>3. UNCHANGED vars => needRestart' \in BOOLEAN /\ unasked' \subseteq {"bans", "pool", "refresh"}
    BY DEF FlagsTyped, vars, flag
  <2>4. [Next]_vars => \/ StartGeneration \/ UNCHANGED vars
                       \/ Ask \/ Quiet \/ \E why \in {"bans", "pool", "refresh"} : Missed(why)
    BY Zenon DEF Next, EditRules, ReorderRules, EditInbounds, EditGroups, Subscribe, EditNodes, Meter, Generate,
           OpenForm, NumberForm, CheckForm, FetchRow, SaveForm, DelRule, Reorder, AddInbound, DelInbound,
           SwitchInbound, AddGroup, DelGroup, UpdateGroup, PruneSubscriptionOrphans, StartFetch, EndFetch,
           AddNode, DelNode, UpdateNode, Recompute, PruneMeterOrphans, ReadTags, ReadPool, ReadNodes,
           ReadRules, ReadGroups, ReadRegions, GenerationFails, Read
  <2> QED BY <2>1, <2>2, <2>3, <2>4
<1>2. gen'.at \in {"idle", "tags", "pool", "nodes", "rules", "groups", "regions", "done"}
  <2>1. CASE gen' = gen
    BY <2>1 DEF FlagsTyped
  <2>2. CASE StartGeneration \/ GenerationFails
    BY <2>2 DEF StartGeneration, GenerationFails, NoGen
  <2>3. ASSUME NEW stage \in {"tags", "pool", "nodes", "rules", "groups", "regions"},
               NEW next, NEW field \in {"tags", "pool", "nodes", "rules", "groups", "regions"}, NEW value,
               gen.at = stage, gen' = With([gen EXCEPT !.at = next], field, value)
        PROVE  gen'.at = next
    BY <2>3 DEF GenShape, With
  <2>4. CASE ReadTags \/ ReadPool \/ ReadNodes \/ ReadRules \/ ReadGroups
    BY <2>3, <2>4 DEF ReadTags, ReadPool, ReadNodes, ReadRules, ReadGroups, Read
  <2>5. CASE ReadRegions
    <3> DEFINE read == With([gen EXCEPT !.at = "done"], "regions", inbounds)
    <3>1. "at" \in DOMAIN read /\ read.at = "done"
      BY <2>5 DEF ReadRegions, GenShape, With
    <3>2. gen' = With(read, "config", Inject(template, read))
      BY <2>5 DEF ReadRegions
    <3> HIDE DEF read
    <3> QED BY <3>1, <3>2 DEF With
  <2>6. [Next]_vars => \/ gen' = gen \/ Generate
    BY Zenon DEF Next, EditRules, ReorderRules, EditInbounds, EditGroups, Subscribe, EditNodes, Meter,
           OpenForm, NumberForm, CheckForm, FetchRow, SaveForm, DelRule, Reorder, AddInbound, DelInbound,
           SwitchInbound, AddGroup, DelGroup, UpdateGroup, PruneSubscriptionOrphans, StartFetch, EndFetch,
           AddNode, DelNode, UpdateNode, Recompute, PruneMeterOrphans, vars
  <2> QED BY <2>1, <2>2, <2>4, <2>5, <2>6 DEF Generate
<1> QED BY <1>1, <1>2 DEF FlagsTyped

(* Rows that stay keep what they are; others may go.                            *)
LEMMA SerialsStand ==
  ASSUME SerialsHold, serial' = serial,
         DOMAIN inbounds' \subseteq DOMAIN inbounds, DOMAIN groups' \subseteq DOMAIN groups,
         DOMAIN nodes' \subseteq DOMAIN nodes,
         \A i \in DOMAIN inbounds' : inbounds'[i].born = inbounds[i].born,
         \A g \in DOMAIN groups' : groups'[g].born = groups[g].born,
         \A n \in DOMAIN nodes' : nodes'[n].born = nodes[n].born /\ nodes'[n].tag = nodes[n].tag
  PROVE  SerialsHold'
<1>1. /\ Born(inbounds)' \subseteq Born(inbounds) /\ Born(groups)' \subseteq Born(groups)
      /\ Born(nodes)' \subseteq Born(nodes)
  BY DEF Born
<1>2. /\ \A a, b \in DOMAIN inbounds' : inbounds'[a].born = inbounds'[b].born => a = b
      /\ \A a, b \in DOMAIN groups' : groups'[a].born = groups'[b].born => a = b
      /\ \A a, b \in DOMAIN nodes' : nodes'[a].born = nodes'[b].born => a = b
  BY DEF SerialsHold, ToldApart
<1>3. TagsDiffer(nodes)'
  BY DEF SerialsHold, TagsDiffer
<1>4. ToldApart(inbounds, groups, nodes)'
  BY <1>1, <1>2 DEF SerialsHold, ToldApart
<1> QED BY <1>1, <1>3, <1>4 DEF SerialsHold

LEMMA NewRow ==
  ASSUME NEW table, NEW id, NEW row, NEW n \in Nat, id \notin DOMAIN table, Born(table) \subseteq 1..n,
         \A a, b \in DOMAIN table : table[a].born = table[b].born => a = b, row.born = n + 1
  PROVE  /\ Born(With(table, id, row)) = Born(table) \cup {n + 1}
         /\ n + 1 \notin Born(table)
         /\ \A a, b \in DOMAIN With(table, id, row) :
              With(table, id, row)[a].born = With(table, id, row)[b].born => a = b
<1> DEFINE more == With(table, id, row)
<1>1. /\ DOMAIN more = DOMAIN table \cup {id} /\ more[id] = row
      /\ \A i \in DOMAIN table : more[i] = table[i]
  BY DEF With
<1> HIDE DEF more
<1>2. n + 1 \notin Born(table)
  OBVIOUS
<1>3. \A i \in DOMAIN table : table[i].born \in Born(table)
  BY DEF Born
<1>4. Born(more) = Born(table) \cup {n + 1}
  BY <1>1 DEF Born
<1>5. \A a, b \in DOMAIN more : more[a].born = more[b].born => a = b
  BY <1>1, <1>2, <1>3
<1> QED BY <1>2, <1>4, <1>5 DEF more

LEMMA AddInboundKeepsSerials ==
  ASSUME SerialsHold, Rows, NEW geo, AddInbound(geo)
  PROVE  SerialsHold'
<1> DEFINE row == [born |-> serial', enable |-> TRUE, geo |-> geo]
           id == NextId(inbounds)
<1>1. serial' = serial + 1 /\ inbounds' = With(inbounds, id, row) /\ UNCHANGED <<groups, nodes>>
  BY DEF AddInbound
<1>2. id \notin DOMAIN inbounds /\ row.born = serial + 1 /\ serial \in Nat
  BY <1>1, NewId DEF Rows, SerialsHold
<1> HIDE DEF id, row
<1>3. /\ Born(inbounds)' = Born(inbounds) \cup {serial + 1}
      /\ \A a, b \in DOMAIN inbounds' : inbounds'[a].born = inbounds'[b].born => a = b
  <2>1. /\ Born(inbounds) \subseteq 1..serial
        /\ \A a, b \in DOMAIN inbounds : inbounds[a].born = inbounds[b].born => a = b
    BY DEF SerialsHold, ToldApart
  <2> QED BY <1>1, <1>2, <2>1, NewRow
<1>4. serial + 1 \notin Born(groups) \cup Born(nodes)
  BY <1>2 DEF SerialsHold
<1>5. ToldApart(inbounds, groups, nodes)'
  BY <1>1, <1>3, <1>4 DEF SerialsHold, ToldApart
<1> QED BY <1>1, <1>2, <1>3, <1>5 DEF SerialsHold

LEMMA AddGroupKeepsSerials ==
  ASSUME SerialsHold, Rows, NEW d, AddGroup(d)
  PROVE  SerialsHold'
<1> DEFINE row == [born |-> serial', domains |-> d.domains, cidrs |-> d.cidrs, urls |-> d.urls, sub |-> {}]
           id == NextId(groups)
<1>1. serial' = serial + 1 /\ groups' = With(groups, id, row) /\ UNCHANGED <<inbounds, nodes>>
  BY DEF AddGroup
<1>2. id \notin DOMAIN groups /\ row.born = serial + 1 /\ serial \in Nat
  BY <1>1, NewId DEF Rows, SerialsHold
<1> HIDE DEF id, row
<1>3. /\ Born(groups)' = Born(groups) \cup {serial + 1}
      /\ \A a, b \in DOMAIN groups' : groups'[a].born = groups'[b].born => a = b
  <2>1. /\ Born(groups) \subseteq 1..serial
        /\ \A a, b \in DOMAIN groups : groups[a].born = groups[b].born => a = b
    BY DEF SerialsHold, ToldApart
  <2> QED BY <1>1, <1>2, <2>1, NewRow
<1>4. serial + 1 \notin Born(inbounds) \cup Born(nodes)
  BY <1>2 DEF SerialsHold
<1>5. ToldApart(inbounds, groups, nodes)'
  BY <1>1, <1>3, <1>4 DEF SerialsHold, ToldApart
<1> QED BY <1>1, <1>2, <1>3, <1>5 DEF SerialsHold

(* allocTag: the nodes have different serial numbers up to serial, so there are *)
(* not more of them than that, and the first tag no node has is a tag.          *)
LEMMA NewTag ==
  ASSUME SerialsHold, Numbered(nodes)
  PROVE  \A i \in DOMAIN nodes : nodes[i].tag # AllocTag
<1> DEFINE top == serial + 1
           taken(k) == \E i \in DOMAIN nodes : nodes[i].tag = NodeTag(k)
           Free == {n \in 1..top : ~taken(n)}
<1>1. serial \in Nat /\ top \in Nat /\ IsFiniteSet(DOMAIN nodes)
  BY DEF SerialsHold, Numbered
<1>2. Cardinality(DOMAIN nodes) \in Nat /\ Cardinality(DOMAIN nodes) <= serial
  <2> DEFINE f == [i \in DOMAIN nodes |-> nodes[i].born]
  <2>1. f \in [DOMAIN nodes -> 1..serial]
    BY DEF SerialsHold, Born
  <2>2. \A a, b \in DOMAIN nodes : f[a] = f[b] => a = b
    BY DEF SerialsHold, ToldApart
  <2>3. f \in Injection(DOMAIN nodes, 1..serial)
    BY <2>1, <2>2 DEF Injection, IsInjective
  <2>4. IsFiniteSet(1..serial) /\ Cardinality(1..serial) = serial
    BY <1>1, FS_Interval
  <2> QED BY <1>1, <2>3, <2>4, FS_Injection, FS_CardinalityType
<1>3. Free # {}
  <2> SUFFICES ASSUME \A n \in 1..top : taken(n) PROVE FALSE
    OBVIOUS
  <2> DEFINE f == [n \in 1..top |-> CHOOSE i \in DOMAIN nodes : nodes[i].tag = NodeTag(n)]
  <2>1. \A n \in 1..top : f[n] \in DOMAIN nodes /\ nodes[f[n]].tag = NodeTag(n)
    OBVIOUS
  <2>2. f \in [1..top -> DOMAIN nodes]
    BY <2>1
  <2> HIDE DEF f
  <2>3. \A m, n \in 1..top : f[m] = f[n] => m = n
    BY <2>1 DEF NodeTag
  <2>4. f \in Injection(1..top, DOMAIN nodes)
    BY <2>2, <2>3 DEF Injection, IsInjective
  <2>5. Cardinality(1..top) = serial + 1
    BY <1>1, FS_Interval
  <2>6. Cardinality(1..top) <= Cardinality(DOMAIN nodes)
    BY <1>1, <2>4, FS_Injection
  <2> QED BY <1>1, <1>2, <2>5, <2>6
<1>4. \E n \in 1..top : ~taken(n) /\ \A k \in 1..(n - 1) : taken(k)
  <2> DEFINE Gaps == {top - n : n \in Free}
  <2>1. Gaps \in SUBSET Nat /\ Gaps # {} /\ \A y \in Gaps : y <= top
    BY <1>1, <1>3
  <2>2. IsFiniteSet(Gaps)
    <3> HIDE DEF Gaps, top
    <3> QED BY <1>1, <2>1, FS_BoundedSetOfNaturals
  <2>3. Max(Gaps) \in Gaps /\ \A y \in Gaps : y <= Max(Gaps)
    <3> HIDE DEF Gaps
    <3> QED BY <2>1, <2>2, MaxOfFinite
  <2>4. PICK n \in Free : Max(Gaps) = top - n
    BY <2>3
  <2>5. \A k \in Free : top - k <= top - n
    BY <2>3, <2>4
  <2> HIDE DEF Gaps, taken
  <2>6. \A k \in 1..(n - 1) : taken(k)
    BY <1>1, <2>5
  <2> QED BY <2>6
<1>5. PICK n \in 1..top : AllocTag = NodeTag(n) /\ ~taken(n)
  BY <1>4 DEF AllocTag
<1> QED BY <1>5

LEMMA AddNodeKeepsSerials ==
  ASSUME SerialsHold, Rows, AddNode
  PROVE  SerialsHold'
<1> DEFINE row == [born |-> serial', tag |-> AllocTag, enable |-> TRUE, sound |-> TRUE]
           id == NextId(nodes)
<1>1. serial' = serial + 1 /\ nodes' = With(nodes, id, row) /\ UNCHANGED <<inbounds, groups>>
  BY DEF AddNode
<1>2. id \notin DOMAIN nodes /\ row.born = serial + 1 /\ serial \in Nat /\ row.tag = AllocTag
  BY <1>1, NewId DEF Rows, SerialsHold
<1> HIDE DEF id, row
<1>3. /\ Born(nodes)' = Born(nodes) \cup {serial + 1}
      /\ \A a, b \in DOMAIN nodes' : nodes'[a].born = nodes'[b].born => a = b
  <2>1. /\ Born(nodes) \subseteq 1..serial
        /\ \A a, b \in DOMAIN nodes : nodes[a].born = nodes[b].born => a = b
    BY DEF SerialsHold, ToldApart
  <2> QED BY <1>1, <1>2, <2>1, NewRow
<1>4. serial + 1 \notin Born(inbounds) \cup Born(groups)
  BY <1>2 DEF SerialsHold
<1>5. ToldApart(inbounds, groups, nodes)'
  BY <1>1, <1>3, <1>4 DEF SerialsHold, ToldApart
<1>6. TagsDiffer(nodes)'
  <2>1. \A i \in DOMAIN nodes : nodes[i].tag # AllocTag
    BY NewTag DEF Rows
  <2>2. /\ DOMAIN nodes' = DOMAIN nodes \cup {id} /\ nodes'[id] = row
        /\ \A i \in DOMAIN nodes : nodes'[i] = nodes[i]
    BY <1>1, <1>2 DEF With
  <2> QED BY <1>2, <2>1, <2>2 DEF SerialsHold, TagsDiffer
<1> QED BY <1>1, <1>2, <1>3, <1>5, <1>6 DEF SerialsHold

LEMMA NextKeepsSerials ==
  ASSUME SerialsHold, IInv, Rows, [Next]_vars
  PROVE  SerialsHold'
<1>1. CASE UNCHANGED <<inbounds, groups, nodes, serial>>
  BY <1>1, SerialsStand
<1>2. ASSUME NEW id \in DOMAIN inbounds, DelInbound(id) \/ SwitchInbound(id)
      PROVE  SerialsHold'
  <2>1. UNCHANGED <<groups, nodes, serial>>
    BY <1>2 DEF DelInbound, SwitchInbound
  <2>2. DOMAIN inbounds' \subseteq DOMAIN inbounds /\ \A i \in DOMAIN inbounds' : inbounds'[i].born = inbounds[i].born
    BY <1>2 DEF DelInbound, SwitchInbound, Without, Restrict, Rows
  <2> QED BY <2>1, <2>2, SerialsStand
<1>3. ASSUME UNCHANGED <<inbounds, nodes, serial>>,
             DOMAIN groups' \subseteq DOMAIN groups, \A g \in DOMAIN groups' : groups'[g].born = groups[g].born
      PROVE  SerialsHold'
  BY <1>3, SerialsStand
<1>4. ASSUME NEW id \in DOMAIN groups, DelGroup(id) \/ \E d \in GroupDrafts : UpdateGroup(id, d)
      PROVE  SerialsHold'
  <2>1. UNCHANGED <<inbounds, nodes, serial>>
    BY <1>4, Zenon DEF DelGroup, UpdateGroup
  <2>2. DOMAIN groups[id] = {"born", "domains", "cidrs", "urls", "sub"}
    BY DEF IInv, GroupsTyped, GroupRow
  <2>3. DOMAIN groups' \subseteq DOMAIN groups /\ \A g \in DOMAIN groups' : groups'[g].born = groups[g].born
    <3>1. CASE DelGroup(id)
      BY <3>1 DEF DelGroup, Without, Restrict
    <3>2. ASSUME NEW d, UpdateGroup(id, d)
          PROVE  DOMAIN groups' = DOMAIN groups /\ \A g \in DOMAIN groups : groups'[g].born = groups[g].born
      BY <3>2, <2>2 DEF UpdateGroup
    <3> QED BY <1>4, <3>1, <3>2
  <2> QED BY <1>3, <2>1, <2>3
<1>5. ASSUME NEW ok, EndFetch(ok)
      PROVE  SerialsHold'
  <2>1. UNCHANGED <<inbounds, nodes, serial>>
    BY <1>5 DEF EndFetch
  <2>2. groups' = groups \/ (StillAsked /\ groups' = [groups EXCEPT ![fetch.id].sub = Merged(ok)])
    BY <1>5 DEF EndFetch
  <2>3. StillAsked => DOMAIN groups[fetch.id] = {"born", "domains", "cidrs", "urls", "sub"}
    BY DEF IInv, GroupsTyped, GroupRow, StillAsked
  <2>4. DOMAIN groups' \subseteq DOMAIN groups /\ \A g \in DOMAIN groups' : groups'[g].born = groups[g].born
    BY <2>2, <2>3
  <2> QED BY <1>3, <2>1, <2>4
<1>6. ASSUME NEW id \in DOMAIN nodes, DelNode(id) \/ \E e, n \in BOOLEAN : UpdateNode(id, e, n)
      PROVE  SerialsHold'
  <2>1. UNCHANGED <<inbounds, groups, serial>>
    BY <1>6 DEF DelNode, UpdateNode
  <2>2. /\ DOMAIN nodes' \subseteq DOMAIN nodes
        /\ \A n \in DOMAIN nodes' : nodes'[n].born = nodes[n].born /\ nodes'[n].tag = nodes[n].tag
    <3>1. CASE DelNode(id)
      BY <3>1 DEF DelNode, Without, Restrict
    <3>2. ASSUME NEW e, NEW n, UpdateNode(id, e, n)
          PROVE  /\ DOMAIN nodes' = DOMAIN nodes
                 /\ \A i \in DOMAIN nodes : nodes'[i].born = nodes[i].born /\ nodes'[i].tag = nodes[i].tag
      BY <3>2 DEF UpdateNode, Rows
    <3> QED BY <1>6, <3>1, <3>2
  <2> QED BY <2>1, <2>2, SerialsStand
<1>7. [Next]_vars =>
        \/ UNCHANGED <<inbounds, groups, nodes, serial>>
        \/ \E geo \in BOOLEAN : AddInbound(geo)
        \/ \E id \in DOMAIN inbounds : DelInbound(id) \/ SwitchInbound(id)
        \/ \E d \in GroupDrafts : AddGroup(d)
        \/ \E id \in DOMAIN groups : DelGroup(id) \/ \E d \in GroupDrafts : UpdateGroup(id, d)
        \/ \E ok : EndFetch(ok)
        \/ AddNode
        \/ \E id \in DOMAIN nodes : DelNode(id) \/ \E e, n \in BOOLEAN : UpdateNode(id, e, n)
  BY DEF Next, EditRules, ReorderRules, EditInbounds, EditGroups, Subscribe, EditNodes, Meter, Generate,
         OpenForm, NumberForm, CheckForm, FetchRow, SaveForm, DelRule, Reorder, PruneSubscriptionOrphans,
         StartFetch, Recompute, PruneMeterOrphans, StartGeneration, ReadTags, ReadPool, ReadNodes,
         ReadRules, ReadGroups, ReadRegions, GenerationFails, Read, tables, vars
<1> QED
  BY <1>1, <1>2, <1>4, <1>5, <1>6, <1>7, AddInboundKeepsSerials, AddGroupKeepsSerials, AddNodeKeepsSerials

LEMMA TypeInvAlways == Spec => []TypeInv
<1>1. IInv /\ RuleInv /\ FlagInv /\ TypeInv /\ [Next]_vars => TypeInv'
  <2> SUFFICES ASSUME IInv, RuleInv, FlagInv, TypeInv, [Next]_vars PROVE TypeInv'
    OBVIOUS
  <2>1. SerialsHold'
    BY NextKeepsSerials DEF TypeInv, RuleInv
  <2>2. FlagsTyped'
    BY FlagsKeepTyped DEF TypeInv, FlagInv
  <2> QED BY <2>1, <2>2 DEF TypeInv
<1> QED BY <1>1, InitTypeInv, AlwaysIInv, RuleInvAlways, FlagInvAlways, PTL DEF Spec

(* Ids and tags come back when a row goes, and yet no two users, groups or      *)
(* nodes are ever taken for one, no two nodes have one tag (allocTag), and no   *)
(* rule is saved without a group or an action (validate).                       *)
THEOREM TypeCorrect == Spec => []TypeOK
<1>1. RuleInv /\ TypeInv => TypeOK
  BY DEF RuleInv, Rows, FormHolds, TypeInv, SerialsHold, FlagsTyped, TypeOK
<1> QED BY <1>1, RuleInvAlways, TypeInvAlways, PTL

-----------------------------------------------------------------------------

(***************************************************************************)
(* The first rule that matches, of lists put together from lists.  An      *)
(* asking is a tag, a target, a source and whether addresses count; the    *)
(* verdict of a list is the set of the outbound of the first rule that     *)
(* matches, empty if none does.                                            *)
(***************************************************************************)
Asking(tag, t, source, resolved) == [tag |-> tag, to |-> t, source |-> source, resolved |-> resolved]
Fits(rule, q) == Matches(rule, q.tag, q.to, q.source, q.resolved)
Firsts(list, q) == {i \in 1..Len(list) : Fits(list[i], q) /\ \A j \in 1..(i - 1) : ~Fits(list[j], q)}
Verdict(list, q) == {list[i].out : i \in Firsts(list, q)}

(* If any rule of a list fits a question, there is a first one. *)
LEMMA FirstIs ==
  ASSUME NEW list, IsList(list), NEW q
  PROVE  /\ Len(list) \in Nat
         /\ \A i, j \in Firsts(list, q) : i = j
         /\ Firsts(list, q) = {} <=> \A i \in 1..Len(list) : ~Fits(list[i], q)
<1> DEFINE Fit == {i \in 1..Len(list) : Fits(list[i], q)}
<1>1. Len(list) \in Nat
  BY DEF IsList
<1>2. \A i, j \in Firsts(list, q) : i = j
  BY <1>1 DEF Firsts
<1>3. ASSUME Fit # {} PROVE Firsts(list, q) # {}
  <2>1. Fit \in SUBSET Nat
    OBVIOUS
  <2>2. PICK m \in Fit : \A x \in Fit : m <= x
    <3> HIDE DEF Fit
    <3> QED BY <1>3, <2>1, Smallest
  <2>3. \A j \in 1..(m - 1) : ~Fits(list[j], q)
    BY <1>1, <2>2
  <2> QED BY <2>3 DEF Firsts
<1>4. Firsts(list, q) \subseteq Fit
  BY DEF Firsts
<1> QED BY <1>1, <1>2, <1>3, <1>4

(* A list says what its first fitting rule says, and nothing if none fits. *)
LEMMA VerdictIs ==
  ASSUME NEW list, IsList(list), NEW q
  PROVE  /\ Verdict(list, q) = {} <=> \A i \in 1..Len(list) : ~Fits(list[i], q)
         /\ \A i \in Firsts(list, q) : Verdict(list, q) = {list[i].out}
<1>1. Verdict(list, q) = {} <=> Firsts(list, q) = {}
  BY DEF Verdict
<1>2. ASSUME NEW i \in Firsts(list, q) PROVE Verdict(list, q) = {list[i].out}
  <2>1. Firsts(list, q) = {i}
    BY FirstIs
  <2> HIDE DEF Firsts
  <2>2. Verdict(list, q) = {list[j].out : j \in {i}}
    BY <2>1 DEF Verdict
  <2> QED BY <2>2
<1> QED BY <1>1, <1>2, FirstIs

(* A pass over a configuration (Pass) stops at a rule that says the verdict of *)
(* its list.                                                                   *)
LEMMA PassIs ==
  ASSUME NEW list, IsList(list), NEW cfg, cfg.rules = list, NEW tag, NEW t, NEW source, NEW resolved
  PROVE  IF Verdict(list, Asking(tag, t, source, resolved)) = {}
         THEN Pass(cfg, tag, t, source, resolved) = 0
         ELSE /\ Pass(cfg, tag, t, source, resolved) \in 1..Len(list)
              /\ Pass(cfg, tag, t, source, resolved) # 0
              /\ Verdict(list, Asking(tag, t, source, resolved))
                   = {list[Pass(cfg, tag, t, source, resolved)].out}
<1> DEFINE q == Asking(tag, t, source, resolved)
           at == Pass(cfg, tag, t, source, resolved)
           I == {i \in 1..Len(list) : Matches(list[i], tag, t, source, resolved)}
<1>1. at = IF I # {} THEN Min(I) ELSE 0
  BY DEF Pass, SelectInSeq
<1>2. \A rule : Fits(rule, q) <=> Matches(rule, tag, t, source, resolved)
  BY DEF Fits, Asking
<1> HIDE DEF at, q
<1>3. ASSUME I = {} PROVE at = 0 /\ Verdict(list, q) = {}
  <2>1. \A i \in 1..Len(list) : ~Fits(list[i], q)
    BY <1>2, <1>3
  <2>2. Verdict(list, q) = {}
    BY <2>1, VerdictIs
  <2>3. at = 0
    <3> HIDE DEF I
    <3> QED BY <1>1, <1>3
  <2> QED BY <2>2, <2>3
<1>4. ASSUME I # {} PROVE at \in 1..Len(list) /\ at # 0 /\ Verdict(list, q) = {list[at].out}
  <2>1. Len(list) \in Nat
    BY FirstIs
  <2>2. I \in SUBSET Nat
    OBVIOUS
  <2>3. \E m \in I : \A x \in I : m <= x
    <3> HIDE DEF I
    <3> QED BY <1>4, <2>2, Smallest
  <2>4. Min(I) \in I /\ \A x \in I : Min(I) <= x
    <3> HIDE DEF I
    <3> QED BY <2>3 DEF Min
  <2>5. at \in I /\ \A x \in I : at <= x
    <3> HIDE DEF I
    <3> QED BY <1>1, <1>4, <2>4
  <2>6. at \in Firsts(list, q)
    <3>1. at \in 1..Len(list) /\ Fits(list[at], q)
      BY <1>2, <2>5
    <3>2. ASSUME NEW j \in 1..(at - 1) PROVE ~Fits(list[j], q)
      <4>1. j \in 1..Len(list) /\ ~(at <= j)
        BY <2>1, <3>1
      <4>2. j \notin I
        BY <2>5, <4>1
      <4> QED BY <1>2, <4>1, <4>2
    <3> QED BY <3>1, <3>2 DEF Firsts
  <2>7. Verdict(list, q) = {list[at].out}
    BY <2>6, VerdictIs
  <2> QED BY <2>1, <2>5, <2>7
<1>5. IF Verdict(list, q) = {} THEN at = 0
      ELSE at \in 1..Len(list) /\ at # 0 /\ Verdict(list, q) = {list[at].out}
  <2> HIDE DEF I
  <2> QED BY <1>3, <1>4
<1> QED BY <1>5 DEF at, q

(* Of two lists the first is asked first. *)
LEMMA VerdictJoined ==
  ASSUME NEW s, IsList(s), NEW t, IsList(t), NEW q
  PROVE  /\ IsList(s \o t) /\ ToSet(s \o t) = ToSet(s) \cup ToSet(t)
         /\ Verdict(s \o t, q) = IF Verdict(s, q) = {} THEN Verdict(t, q) ELSE Verdict(s, q)
<1>1. IsList(s \o t) /\ ToSet(s \o t) = ToSet(s) \cup ToSet(t)
  BY Concatenated
<1>2. /\ Len(s) \in Nat /\ Len(t) \in Nat /\ Len(s \o t) = Len(s) + Len(t)
      /\ \A i \in 1..Len(s) : (s \o t)[i] = s[i]
      /\ \A i \in 1..Len(t) : (s \o t)[Len(s) + i] = t[i]
  BY Concatenated, FirstIs
<1>3. CASE Verdict(s, q) # {}
  <2>1. PICK i \in 1..Len(s) : i \in Firsts(s, q)
    BY <1>3 DEF Verdict, Firsts
  <2>2. i \in Firsts(s \o t, q)
    BY <1>2, <2>1 DEF Firsts
  <2>3. Verdict(s \o t, q) = {(s \o t)[i].out} /\ Verdict(s, q) = {s[i].out}
    BY <1>1, <2>1, <2>2, VerdictIs
  <2> QED BY <1>1, <1>2, <1>3, <2>3
<1>4. CASE Verdict(s, q) = {} /\ Verdict(t, q) # {}
  <2>1. PICK i \in 1..Len(t) : i \in Firsts(t, q)
    BY <1>4 DEF Verdict, Firsts
  <2>2. \A j \in 1..Len(s) : ~Fits((s \o t)[j], q)
    BY <1>2, <1>4, VerdictIs
  <2>3. \A j \in 1..(i - 1) : ~Fits((s \o t)[Len(s) + j], q)
    BY <1>2, <2>1 DEF Firsts
  <2>4. \A j \in 1..(Len(s) + i - 1) : j \in 1..Len(s) \/ (j - Len(s) \in 1..(i - 1) /\ j = Len(s) + (j - Len(s)))
    BY <1>2
  <2>5. Len(s) + i \in Firsts(s \o t, q)
    BY <1>2, <2>1, <2>2, <2>3, <2>4 DEF Firsts
  <2>6. Verdict(s \o t, q) = {(s \o t)[Len(s) + i].out} /\ Verdict(t, q) = {t[i].out}
    BY <1>1, <2>1, <2>5, VerdictIs
  <2> QED BY <1>1, <1>2, <1>4, <2>6
<1>5. CASE Verdict(s, q) = {} /\ Verdict(t, q) = {}
  <2>1. \A j \in 1..Len(s) : ~Fits((s \o t)[j], q)
    BY <1>2, <1>5, VerdictIs
  <2>2. \A j \in 1..Len(t) : ~Fits((s \o t)[Len(s) + j], q)
    BY <1>2, <1>5, VerdictIs
  <2>3. \A j \in 1..(Len(s) + Len(t)) : j \in 1..Len(s) \/ (j - Len(s) \in 1..Len(t) /\ j = Len(s) + (j - Len(s)))
    BY <1>2
  <2>4. \A j \in 1..Len(s \o t) : ~Fits((s \o t)[j], q)
    BY <1>2, <2>1, <2>2, <2>3
  <2> QED BY <1>1, <1>5, <2>4, VerdictIs
<1> QED BY <1>3, <1>4, <1>5

(* One verdict, whatever the order. *)
LEMMA VerdictOf ==
  ASSUME NEW list, IsList(list), NEW q
  PROVE  /\ Verdict(list, q) = {} <=> \A rule \in ToSet(list) : ~Fits(rule, q)
         /\ \A v : (\A rule \in ToSet(list) : Fits(rule, q) => rule.out = v)
              => Verdict(list, q) = IF \E rule \in ToSet(list) : Fits(rule, q) THEN {v} ELSE {}
<1>1. DOMAIN list = 1..Len(list) /\ Len(list) \in Nat
  BY DEF IsList
<1>2. \A rule : rule \in ToSet(list) <=> \E i \in 1..Len(list) : list[i] = rule
  BY <1>1 DEF ToSet
<1>3. Verdict(list, q) = {} <=> \A rule \in ToSet(list) : ~Fits(rule, q)
  BY <1>2, VerdictIs
<1>4. ASSUME NEW v, \A rule \in ToSet(list) : Fits(rule, q) => rule.out = v, Verdict(list, q) # {}
      PROVE  Verdict(list, q) = {v}
  <2>1. PICK i \in Firsts(list, q) : TRUE
    BY <1>4 DEF Verdict
  <2>2. i \in 1..Len(list) /\ Fits(list[i], q)
    BY <2>1 DEF Firsts
  <2>3. Verdict(list, q) = {list[i].out}
    BY <2>1, VerdictIs
  <2> QED BY <1>2, <1>4, <2>2, <2>3
<1> QED BY <1>3, <1>4

(* The lists that make up a list. *)
LEMMA VerdictFlat ==
  ASSUME NEW S, NEW seqs \in Seq(Seq(S)), NEW q
  PROVE  /\ IsList(FlattenSeq(seqs))
         /\ \A rule : rule \in ToSet(FlattenSeq(seqs)) <=> \E k \in 1..Len(seqs) : rule \in ToSet(seqs[k])
         /\ \A k \in 1..Len(seqs) :
              Verdict(seqs[k], q) # {} /\ (\A j \in 1..(k - 1) : Verdict(seqs[j], q) = {})
                => Verdict(FlattenSeq(seqs), q) = Verdict(seqs[k], q)
<1> DEFINE L == Len(seqs)
           Made(l, n) ==
             /\ IsList(l)
             /\ \A rule : rule \in ToSet(l) <=> \E k \in 1..n : rule \in ToSet(seqs[k])
             /\ (\A k \in 1..n : Verdict(seqs[k], q) = {}) => Verdict(l, q) = {}
             /\ \A k \in 1..n :
                  Verdict(seqs[k], q) # {} /\ (\A j \in 1..(k - 1) : Verdict(seqs[j], q) = {})
                    => Verdict(l, q) = Verdict(seqs[k], q)
<1>1. PICK g : /\ g[0] = <<>>
               /\ \A n \in 1..L : g[n] = g[n-1] \o seqs[n]
               /\ FlattenSeq(seqs) = g[L]
  BY FlattenUpTo
<1>2. L \in Nat /\ \A n \in 1..L : IsList(seqs[n])
  BY IsAList
<1> DEFINE Yes == {n \in 0..L : Made(g[n], n)}
<1>3. Made(g[0], 0)
  <2>1. IsList(<<>>) /\ ToSet(<<>>) = {} /\ Len(<<>>) = 0
    <3>1. Len(<<>>) = 0 /\ DOMAIN <<>> = {} /\ <<>> \in Seq({})
      OBVIOUS
    <3>2. ToSet(<<>>) = {}
      BY <3>1 DEF ToSet
    <3> QED BY <3>1, <3>2 DEF IsList
  <2>2. Verdict(<<>>, q) = {}
    BY <2>1, VerdictOf
  <2>3. 1..0 = {}
    OBVIOUS
  <2> QED BY <1>1, <2>1, <2>2, <2>3
<1>4. ASSUME NEW n \in 1..L, Made(g[n-1], n-1)
      PROVE  Made(g[n], n)
  <2> DEFINE s == g[n-1]  t == seqs[n]
  <2>1. g[n] = s \o t /\ IsList(s) /\ IsList(t)
    BY <1>1, <1>2, <1>4
  <2>2. \A k : k \in 1..n <=> k \in 1..(n - 1) \/ k = n
    BY <1>2
  <2>3. /\ IsList(g[n]) /\ ToSet(g[n]) = ToSet(s) \cup ToSet(t)
        /\ Verdict(g[n], q) = IF Verdict(s, q) = {} THEN Verdict(t, q) ELSE Verdict(s, q)
    <3> HIDE DEF s, t
    <3> QED BY <2>1, VerdictJoined
  <2>4. \A rule : rule \in ToSet(g[n]) <=> \E k \in 1..n : rule \in ToSet(seqs[k])
    <3>1. \A rule : rule \in ToSet(s) <=> \E k \in 1..(n - 1) : rule \in ToSet(seqs[k])
      BY <1>4
    <3>2. ToSet(g[n]) = ToSet(s) \cup ToSet(seqs[n])
      BY <2>3
    <3> HIDE DEF s, t
    <3> QED BY <2>2, <3>1, <3>2
  <2>5. (\A k \in 1..n : Verdict(seqs[k], q) = {}) => Verdict(g[n], q) = {}
    BY <1>4, <2>2, <2>3
  <2>6. ASSUME NEW k \in 1..n, Verdict(seqs[k], q) # {}, \A j \in 1..(k - 1) : Verdict(seqs[j], q) = {}
        PROVE  Verdict(g[n], q) = Verdict(seqs[k], q)
    <3>1. CASE k = n
      BY <1>4, <2>3, <2>6, <3>1
    <3>2. CASE k \in 1..(n - 1)
      BY <1>4, <2>3, <2>6, <3>2
    <3> QED BY <2>2, <3>1, <3>2
  <2> QED BY <2>3, <2>4, <2>5, <2>6
<1>5. L \in Yes
  <2>1. 0 \in Yes /\ \A n \in 1..L : n - 1 \in Yes => n \in Yes
    <3> HIDE DEF Made
    <3> QED BY <1>2, <1>3, <1>4
  <2> HIDE DEF Yes
  <2>2. \A m \in 0..L : m \in Yes
    BY <1>2, <2>1, Induction
  <2> QED BY <1>2, <2>2
<1> QED BY <1>1, <1>5

(* Lists of no, one and two rules. *)
LEMMA ShortLists ==
  /\ IsList(<<>>) /\ ToSet(<<>>) = {} /\ \A q : Verdict(<<>>, q) = {}
  /\ \A x : IsList(<<x>>) /\ ToSet(<<x>>) = {x}
<1>1. IsList(<<>>) /\ ToSet(<<>>) = {}
  <2>1. DOMAIN <<>> = {} /\ <<>> \in Seq({})
    OBVIOUS
  <2>2. ToSet(<<>>) = {}
    BY <2>1 DEF ToSet
  <2> QED BY <2>1, <2>2 DEF IsList
<1>2. ASSUME NEW x PROVE IsList(<<x>>) /\ ToSet(<<x>>) = {x}
  <2>1. DOMAIN <<x>> = {1} /\ <<x>>[1] = x /\ <<x>> \in Seq({x})
    OBVIOUS
  <2>2. ToSet(<<x>>) = {x}
    BY <2>1 DEF ToSet
  <2> QED BY <2>1, <2>2 DEF IsList
<1>3. \A q : Verdict(<<>>, q) = {}
  BY <1>1, VerdictOf
<1> QED BY <1>1, <1>2, <1>3

(* The list that lists are joined to: what it says and what is in it. *)
LEMMA Flattened ==
  ASSUME NEW seqs, IsList(seqs), \A s \in ToSet(seqs) : IsList(s)
  PROVE  \E S : seqs \in Seq(Seq(S))
<1> DEFINE S == UNION {ToSet(s) : s \in ToSet(seqs)}
<1>1. \A s \in ToSet(seqs) : ToSet(s) \subseteq S
  OBVIOUS
<1> HIDE DEF S
<1>2. ASSUME NEW s \in ToSet(seqs) PROVE s \in Seq(S)
  <2>1. s \in Seq(ToSet(s)) /\ ToSet(s) \subseteq S
    BY <1>1 DEF IsList
  <2> QED BY <2>1
<1>3. seqs \in Seq(ToSet(seqs))
  BY DEF IsList
<1> QED BY <1>2, <1>3

-----------------------------------------------------------------------------
(***************************************************************************)
(* What one reading of the tables says.  Given is what a generation knows  *)
(* of what it has read; Reach and Reachers are Names and Covering of any   *)
(* reading.                                                                *)
(***************************************************************************)
TemplateHolds(T) ==
  LET outs == T.outbounds
  IN  /\ IsList(outs) /\ IsList(T.rules)
      /\ \A i \in DOMAIN outs :
           /\ DOMAIN outs[i] = {"tag", "via"} /\ outs[i].via # <<>> /\ TagOfItsOwn(outs[i].tag)
           /\ \A j \in DOMAIN outs : outs[i].tag = outs[j].tag => i = j
      /\ \A i \in DOMAIN T.rules : \E j \in DOMAIN outs : TagDefaultOutbound(outs)[j].tag = T.rules[i].out
Given(T, R) ==
  /\ TemplateHolds(T)
  /\ \A i \in DOMAIN T.outbounds, n \in DOMAIN R.nodes : R.nodes[n].tag # T.outbounds[i].tag
  /\ Numbered(R.nodes) /\ TagsDiffer(R.nodes) /\ Numbered(R.regions)
  /\ Numbered(R.rules) /\ \A r \in DOMAIN R.rules : RuleRow(R.rules[r])
  /\ \A a, b \in DOMAIN R.tags : R.tags[a] = R.tags[b] => a = b
  /\ IsFiniteSet(R.pool) /\ R.pool \subseteq Nat \X (Domains \cup Addresses)

Reach(r, t, resolved, table) ==
  \/ t.name \cap RuleDomains(r, table) # {}
  \/ (resolved \/ t.name = {}) /\ t.address \in RuleCidrs(r, table)
Served(r, T, R) ==
  /\ r.action = "proxy" => r.node \in Usable(R.nodes)
  /\ r.action = "direct" => T.outbounds # <<>>
Reachers(actions, T, R, i, t, resolved) ==
  {r \in DOMAIN R.rules :
     /\ R.rules[r].enable /\ R.rules[r].action \in actions
     /\ R.rules[r].inbounds = {} \/ i \in R.rules[r].inbounds
     /\ Reach(R.rules[r], t, resolved, R.groups) /\ Served(R.rules[r], T, R)}
Exit(T, R, r) == OutboundOf(R.rules[r], T, R.nodes)
Asked(R, i, t, source, resolved) == Asking(R.tags[i], t, source, resolved)
Foremost(S, table) == CHOOSE r \in S : \A o \in S : o = r \/ Before(table, r, o)
RuledBy(v, reach, T, R) ==
  /\ reach = {} => v = {}
  /\ reach # {} => Foremost(reach, R.rules) \in reach /\ v = {Exit(T, R, Foremost(reach, R.rules))}

(* The first outbound has a tag, if there is one. *)
LEMMA DefaultTagged ==
  ASSUME NEW T, TemplateHolds(T)
  PROVE  DefaultOutboundTag(T.outbounds) = Untagged <=> T.outbounds = <<>>
<1> DEFINE outs == T.outbounds
<1>1. CASE outs = <<>>
  BY <1>1 DEF DefaultOutboundTag
<1>2. CASE outs # <<>>
  <2>1. outs \in Seq(ToSet(outs))
    BY DEF TemplateHolds, IsList
  <2>2. 1 \in DOMAIN outs /\ Head(outs) = outs[1] /\ DOMAIN outs[1] = {"tag", "via"}
    BY <1>2, <2>1 DEF TemplateHolds
  <2>3. CASE outs[1].tag # Untagged
    BY <1>2, <2>2, <2>3 DEF DefaultOutboundTag, TagDefaultOutbound
  <2>4. CASE outs[1].tag = Untagged
    <3> DEFINE tagged == [outs EXCEPT ![1].tag = DefaultTag]
    <3>1. tagged[1].tag = DefaultTag
      BY <2>2
    <3>2. Len(tagged) = Len(outs) /\ tagged # <<>> /\ Head(tagged) = tagged[1]
      BY <1>2, <2>1, <2>2
    <3>3. DefaultOutboundTag(outs) = DefaultTag
      BY <1>2, <2>2, <2>4, <3>1, <3>2 DEF DefaultOutboundTag, TagDefaultOutbound
    <3> QED BY <1>2, <3>3 DEF DefaultTag, Untagged
  <2> QED BY <2>3, <2>4
<1> QED BY <1>1, <1>2

(* What a row of the rules comes to (buildRule): nothing at all if it is       *)
(* dropped, else its outbound for whoever and whatever it names, and for       *)
(* nothing else.                                                               *)
LEMMA RuleSays ==
  ASSUME NEW T, NEW R, Given(T, R), NEW r \in DOMAIN R.rules, NEW i,
         NEW t, NEW source, NEW resolved
  PROVE  LET row == R.rules[r]
             list == BuildRule(row, T, R)
             out == OutboundOf(row, T, R.nodes)
         IN  /\ IsList(list)
             /\ \A x \in ToSet(list) : x.out = out /\ Served(row, T, R)
             /\ i \in DOMAIN R.tags => Verdict(list, Asking(R.tags[i], t, source, resolved))
                  = IF /\ row.inbounds = {} \/ i \in row.inbounds
                       /\ Reach(row, t, resolved, R.groups) /\ Served(row, T, R)
                    THEN {out} ELSE {}
<1> DEFINE row == R.rules[r]
           D == RuleDomains(row, R.groups)
           C == RuleCidrs(row, R.groups)
           F == RuleFrom(row, R.tags)
           out == OutboundOf(row, T, R.nodes)
           q == Asking(R.tags[i], t, source, resolved)
           a == IF D = {} THEN <<>> ELSE <<XrayRule(F, D, {}, {}, out)>>
           b == IF C = {} THEN <<>> ELSE <<XrayRule(F, {}, C, {}, out)>>
           list == BuildRule(row, T, R)
<1>1. Dropped(row, T, R) <=> \/ D \cup C = {}
                             \/ row.inbounds # {} /\ F = {}
                             \/ ~Served(row, T, R)
  BY DefaultTagged DEF Given, Dropped, Served
<1>2. list = IF Dropped(row, T, R) THEN <<>> ELSE a \o b
  BY DEF BuildRule
<1>3. /\ F = {} <=> row.inbounds \cap DOMAIN R.tags = {}
      /\ i \in DOMAIN R.tags => (R.tags[i] \in F <=> i \in row.inbounds)
  BY DEF Given, RuleFrom
<1>4. Fits(XrayRule(F, D, {}, {}, out), q) <=> (F = {} \/ R.tags[i] \in F) /\ (D = {} \/ t.name \cap D # {})
  BY DEF Fits, Matches, XrayRule, Asking
<1>5. Fits(XrayRule(F, {}, C, {}, out), q)
        <=> (F = {} \/ R.tags[i] \in F) /\ (C = {} \/ ((resolved \/ t.name = {}) /\ t.address \in C))
  BY DEF Fits, Matches, XrayRule, Asking
<1>6. Reach(row, t, resolved, R.groups)
        <=> t.name \cap D # {} \/ ((resolved \/ t.name = {}) /\ t.address \in C)
  BY DEF Reach
<1> HIDE DEF list
<1>7. CASE Dropped(row, T, R)
  <2>1. D \cup C = {} => ~Reach(row, t, resolved, R.groups)
    BY <1>6
  <2>2. i \in DOMAIN R.tags /\ row.inbounds # {} /\ F = {} => ~(row.inbounds = {} \/ i \in row.inbounds)
    BY <1>3
  <2>3. list = <<>>
    BY <1>2, <1>7
  <2> HIDE DEF row, D, C, F, out, q
  <2>4. IsList(list) /\ ToSet(list) = {} /\ Verdict(list, q) = {}
    BY <2>3, ShortLists
  <2> QED BY <1>1, <1>7, <2>1, <2>2, <2>4 DEF list, row, q, out
<1>8. CASE ~Dropped(row, T, R)
  <2>0. list = a \o b /\ D \cup C # {} /\ (row.inbounds = {} \/ F # {}) /\ Served(row, T, R)
    BY <1>1, <1>2, <1>8
  <2> DEFINE x == XrayRule(F, D, {}, {}, out)
             y == XrayRule(F, {}, C, {}, out)
  <2>1. x.out = out /\ y.out = out
    BY DEF XrayRule
  <2>a. i \in DOMAIN R.tags => ((F = {} \/ R.tags[i] \in F) <=> (row.inbounds = {} \/ i \in row.inbounds))
    BY <1>3, <2>0
  <2> HIDE DEF row, D, C, F, out, q, x, y
  <2>2. /\ a = IF D = {} THEN <<>> ELSE <<x>>
        /\ b = IF C = {} THEN <<>> ELSE <<y>>
    BY DEF x, y
  <2> HIDE DEF a, b
  <2>3. /\ IsList(a) /\ ToSet(a) = IF D = {} THEN {} ELSE {x}
        /\ IsList(b) /\ ToSet(b) = IF C = {} THEN {} ELSE {y}
    BY <2>2, ShortLists
  <2>4. IsList(list) /\ ToSet(list) = ToSet(a) \cup ToSet(b)
    BY <2>0, <2>3, Concatenated
  <2>5. \A z \in ToSet(list) : z.out = out
    BY <2>1, <2>3, <2>4
  <2>6. i \in DOMAIN R.tags => ((\E z \in ToSet(list) : Fits(z, q))
          <=> (row.inbounds = {} \/ i \in row.inbounds) /\ Reach(row, t, resolved, R.groups))
    BY <1>4, <1>5, <1>6, <2>a, <2>3, <2>4 DEF x, y
  <2>7. i \in DOMAIN R.tags => Verdict(list, q) =
          IF (row.inbounds = {} \/ i \in row.inbounds) /\ Reach(row, t, resolved, R.groups)
                           THEN {out} ELSE {}
    BY <2>4, <2>5, <2>6, VerdictOf
  <2> QED BY <2>0, <2>4, <2>5, <2>7 DEF list, row, q, out
<1> QED BY <1>7, <1>8

(* GetEnabled is an order: priorities are numbers, and ids decide between equal ones. *)
LEMMA RuleOrderIs ==
  ASSUME NEW rows, Numbered(rows), \A r \in DOMAIN rows : RuleRow(rows[r]), NEW actions
  PROVE  LET ids == RuleOrder(rows, actions)
         IN  /\ IsList(ids)
             /\ ToSet(ids) = {r \in DOMAIN rows : rows[r].enable /\ rows[r].action \in actions}
             /\ \A m, n \in 1..Len(ids) : m < n => Before(rows, ids[m], ids[n])
<1> DEFINE S == {r \in DOMAIN rows : rows[r].enable /\ rows[r].action \in actions}
           before == {p \in S \X S : Before(rows, p[1], p[2])}
           ids == RuleOrder(rows, actions)
<1>1. ids = InOrder(S, before)
  BY DEF RuleOrder
<1>2. \A r \in S : r \in Nat /\ rows[r].priority \in Nat
  BY DEF Numbered, RuleRow
<1>3. IsFiniteSet(S)
  BY FS_Subset DEF Numbered
<1>4. \A x, y : <<x, y>> \in before <=> x \in S /\ y \in S /\ Before(rows, x, y)
  OBVIOUS
<1> HIDE DEF S, before, ids
<1>5. /\ \A x \in S : <<x, x>> \notin before
      /\ \A x, y, z \in S : <<x, y>> \in before /\ <<y, z>> \in before => <<x, z>> \in before
      /\ \A x, y \in S : x = y \/ <<x, y>> \in before \/ <<y, x>> \in before
  BY <1>2, <1>4 DEF Before
<1>6. /\ IsList(ids) /\ ToSet(ids) = S
      /\ \A m, n \in 1..Len(ids) : m < n => <<ids[m], ids[n]>> \in before
  BY <1>1, <1>3, <1>5, InOrderIs
<1> QED BY <1>4, <1>6 DEF ids, S

(* Which rule decides among those that are built: the foremost that names the    *)
(* user and the target and can be served.                                        *)
LEMMA RulesSay ==
  ASSUME NEW T, NEW R, Given(T, R), NEW actions, NEW i,
         NEW t, NEW source, NEW resolved
  PROVE  /\ IsList(BuildRules(actions, T, R))
         /\ \A x \in ToSet(BuildRules(actions, T, R)) : \E r \in DOMAIN R.rules :
              /\ Served(R.rules[r], T, R) /\ R.rules[r].action \in actions
              /\ x.out = Exit(T, R, r)
         /\ i \in DOMAIN R.tags =>
              RuledBy(Verdict(BuildRules(actions, T, R), Asked(R, i, t, source, resolved)),
                      Reachers(actions, T, R, i, t, resolved), T, R)
<1> DEFINE ids == RuleOrder(R.rules, actions)
           seqs == [k \in DOMAIN ids |-> BuildRule(R.rules[ids[k]], T, R)]
           list == BuildRules(actions, T, R)
           q == Asked(R, i, t, source, resolved)
           reach == Reachers(actions, T, R, i, t, resolved)
           On == {r \in DOMAIN R.rules : R.rules[r].enable /\ R.rules[r].action \in actions}
<1>1. list = FlattenSeq(seqs)
  BY DEF BuildRules
<1>2. /\ IsList(ids) /\ ToSet(ids) = On
      /\ \A m, n \in 1..Len(ids) : m < n => Before(R.rules, ids[m], ids[n])
  BY RuleOrderIs DEF Given
<1>3. /\ Len(ids) \in Nat /\ DOMAIN ids = 1..Len(ids) /\ \A k \in 1..Len(ids) : ids[k] \in On
      /\ \A r \in On : \E k \in 1..Len(ids) : ids[k] = r
  BY <1>2 DEF IsList, ToSet
<1>4. \A r \in On : /\ IsList(BuildRule(R.rules[r], T, R))
                    /\ \A x \in ToSet(BuildRule(R.rules[r], T, R)) : x.out = Exit(T, R, r) /\ Served(R.rules[r], T, R)
                    /\ i \in DOMAIN R.tags => Verdict(BuildRule(R.rules[r], T, R), q) =
                                               IF r \in reach THEN {Exit(T, R, r)} ELSE {}
  <2> SUFFICES ASSUME NEW r \in On
               PROVE  /\ IsList(BuildRule(R.rules[r], T, R))
                      /\ \A x \in ToSet(BuildRule(R.rules[r], T, R)) :
                           x.out = Exit(T, R, r) /\ Served(R.rules[r], T, R)
                      /\ i \in DOMAIN R.tags => Verdict(BuildRule(R.rules[r], T, R), q) =
                                                 IF r \in reach THEN {Exit(T, R, r)} ELSE {}
    OBVIOUS
  <2>1. /\ IsList(BuildRule(R.rules[r], T, R))
        /\ \A x \in ToSet(BuildRule(R.rules[r], T, R)) :
             x.out = OutboundOf(R.rules[r], T, R.nodes) /\ Served(R.rules[r], T, R)
        /\ i \in DOMAIN R.tags => Verdict(BuildRule(R.rules[r], T, R), Asking(R.tags[i], t, source, resolved))
             = IF /\ R.rules[r].inbounds = {} \/ i \in R.rules[r].inbounds
                  /\ Reach(R.rules[r], t, resolved, R.groups) /\ Served(R.rules[r], T, R)
               THEN {OutboundOf(R.rules[r], T, R.nodes)} ELSE {}
    BY RuleSays
  <2>2. r \in reach <=> /\ R.rules[r].inbounds = {} \/ i \in R.rules[r].inbounds
                        /\ Reach(R.rules[r], t, resolved, R.groups) /\ Served(R.rules[r], T, R)
    BY DEF Reachers
  <2> HIDE DEF reach
  <2> QED BY <2>1, <2>2 DEF Exit, Asked
<1>5. reach \subseteq On
  BY DEF Reachers
<1>6. \A k \in 1..Len(ids) : seqs[k] = BuildRule(R.rules[ids[k]], T, R)
  BY <1>3
<1>7. seqs \in [1..Len(ids) -> {BuildRule(R.rules[r], T, R) : r \in On}]
  BY <1>3
<1> HIDE DEF ids, seqs, q, reach, list, On
<1>8. IsList(seqs) /\ Len(seqs) = Len(ids) /\ ToSet(seqs) \subseteq {BuildRule(R.rules[r], T, R) : r \in On}
  BY <1>3, <1>7, AsList
<1>a. \A s \in ToSet(seqs) : IsList(s)
  BY <1>4, <1>8
<1>9. PICK S : seqs \in Seq(Seq(S))
  BY <1>8, <1>a, Flattened
<1>10. /\ IsList(list)
       /\ \A x : x \in ToSet(list) <=> \E k \in 1..Len(ids) : x \in ToSet(seqs[k])
       /\ \A k \in 1..Len(ids) :
            Verdict(seqs[k], q) # {} /\ (\A j \in 1..(k - 1) : Verdict(seqs[j], q) = {})
              => Verdict(list, q) = Verdict(seqs[k], q)
  BY <1>1, <1>8, <1>9, VerdictFlat
<1>11. ASSUME NEW x \in ToSet(list)
       PROVE  \E r \in DOMAIN R.rules :
                Served(R.rules[r], T, R) /\ R.rules[r].action \in actions /\ x.out = Exit(T, R, r)
  <2>1. PICK k \in 1..Len(ids) : x \in ToSet(seqs[k])
    BY <1>10
  <2>2. ids[k] \in On /\ x.out = Exit(T, R, ids[k]) /\ Served(R.rules[ids[k]], T, R)
    BY <1>3, <1>4, <1>6, <2>1
  <2> QED BY <2>2 DEF On
<1>12. i \in DOMAIN R.tags => \A k \in 1..Len(ids) :
                             Verdict(seqs[k], q) = IF ids[k] \in reach THEN {Exit(T, R, ids[k])} ELSE {}
  BY <1>3, <1>4, <1>6
<1>13. ASSUME i \in DOMAIN R.tags, reach = {} PROVE Verdict(list, q) = {}
  <2>1. \A k \in 1..Len(ids) : IsList(seqs[k]) /\ \A x \in ToSet(seqs[k]) : ~Fits(x, q)
    BY <1>3, <1>4, <1>6, <1>12, <1>13, VerdictOf
  <2> QED BY <1>10, <2>1, VerdictOf
<1>14. ASSUME i \in DOMAIN R.tags, reach # {}
       PROVE  /\ Foremost(reach, R.rules) \in reach
              /\ Verdict(list, q) = {Exit(T, R, Foremost(reach, R.rules))}
  <2> DEFINE K == {k \in 1..Len(ids) : ids[k] \in reach}
  <2>1. K \in SUBSET Nat /\ K # {}
    BY <1>3, <1>5, <1>14
  <2>2. PICK k \in K : \A j \in K : k <= j
    <3> HIDE DEF K
    <3> QED BY <2>1, Smallest
  <2>3. k \in 1..Len(ids) /\ ids[k] \in reach
    OBVIOUS
  <2>4. ASSUME NEW j \in 1..(k - 1) PROVE Verdict(seqs[j], q) = {}
    <3>1. j \in 1..Len(ids) /\ ~(k <= j)
      BY <1>3, <2>3
    <3>2. ids[j] \notin reach
      BY <2>2, <3>1
    <3> QED BY <1>12, <1>14, <3>1, <3>2
  <2>5. Verdict(list, q) = {Exit(T, R, ids[k])}
    BY <1>10, <1>12, <1>14, <2>3, <2>4
  <2>6. \A o \in reach : o = ids[k] \/ Before(R.rules, ids[k], o)
    <3> SUFFICES ASSUME NEW o \in reach, o # ids[k] PROVE Before(R.rules, ids[k], o)
      OBVIOUS
    <3>1. PICK j \in 1..Len(ids) : ids[j] = o
      BY <1>3, <1>5
    <3>2. k < j
      BY <2>2, <3>1, <1>3
    <3> QED BY <1>2, <2>3, <3>1, <3>2
  <2>7. \A o \in reach : (\A p \in reach : p = o \/ Before(R.rules, o, p)) => o = ids[k]
    <3> SUFFICES ASSUME NEW o \in reach, Before(R.rules, o, ids[k]), Before(R.rules, ids[k], o) PROVE FALSE
      BY <2>3, <2>6
    <3>1. /\ R.rules[o].priority \in Nat /\ R.rules[ids[k]].priority \in Nat
          /\ o \in Nat /\ ids[k] \in Nat
      BY <1>5, <2>3 DEF Given, Numbered, RuleRow, On
    <3> QED BY <3>1 DEF Before
  <2>8. Foremost(reach, R.rules) = ids[k]
    BY <2>3, <2>6, <2>7 DEF Foremost
  <2> QED BY <2>3, <2>5, <2>8
<1>15. i \in DOMAIN R.tags => RuledBy(Verdict(list, q), reach, T, R)
  BY <1>13, <1>14 DEF RuledBy
<1> QED BY <1>10, <1>11, <1>15 DEF list, q, reach

(* The outbound a rule leads to, case by case. *)
LEMMA OutboundIs ==
  ASSUME NEW r, NEW T, NEW table
  PROVE  /\ r.action = "block" => OutboundOf(r, T, table) = BlockTag
         /\ r.action = "direct" => OutboundOf(r, T, table) = DefaultOutboundTag(T.outbounds)
         /\ r.action = "proxy" /\ r.node \in DOMAIN table => OutboundOf(r, T, table) = table[r.node].tag
BY DEF OutboundOf

(* The block rules, whatever their order. *)
LEMMA BlocksSay ==
  ASSUME NEW T, NEW R, Given(T, R), NEW i, NEW t, NEW source, NEW resolved
  PROVE  LET list == BuildRules({"block"}, T, R)
         IN  /\ IsList(list) /\ \A x \in ToSet(list) : x.out = BlockTag
             /\ i \in DOMAIN R.tags => Verdict(list, Asked(R, i, t, source, resolved))
                  = IF Reachers({"block"}, T, R, i, t, resolved) = {} THEN {} ELSE {BlockTag}
<1> DEFINE acts == {"block"}
           reach == Reachers(acts, T, R, i, t, resolved)
           list == BuildRules(acts, T, R)
<1>1. ASSUME NEW r, R.rules[r].action \in acts PROVE Exit(T, R, r) = BlockTag
  <2>1. R.rules[r].action = "block"
    BY <1>1
  <2> QED BY <2>1, OutboundIs, Zenon DEF Exit
<1>2. \A r \in reach : R.rules[r].action \in acts
  BY DEF Reachers
<1> HIDE DEF acts
<1>a. i \in DOMAIN R.tags => RuledBy(Verdict(list, Asked(R, i, t, source, resolved)), reach, T, R)
  BY RulesSay
<1>3. /\ IsList(list)
      /\ \A x \in ToSet(list) : \E r \in DOMAIN R.rules :
           R.rules[r].action \in acts /\ x.out = Exit(T, R, r)
  BY RulesSay
<1> HIDE DEF reach, list
<1>4. /\ \A x \in ToSet(list) : x.out = BlockTag
      /\ i \in DOMAIN R.tags => Verdict(list, Asked(R, i, t, source, resolved)) = IF reach = {} THEN {} ELSE {BlockTag}
  BY <1>1, <1>2, <1>3, <1>a DEF RuledBy
<1> QED BY <1>3, <1>4 DEF reach, list, acts

(* Rows read by id: each of them, once. *)
LEMMA InIdOrderIs ==
  ASSUME NEW S \in SUBSET Nat, IsFiniteSet(S)
  PROVE  /\ IsList(InIdOrder(S)) /\ ToSet(InIdOrder(S)) = S
         /\ \A m, n \in DOMAIN InIdOrder(S) : InIdOrder(S)[m] = InIdOrder(S)[n] => m = n
<1> DEFINE before == {p \in S \X S : p[1] < p[2]}
<1>1. \A x, y : <<x, y>> \in before <=> x \in S /\ y \in S /\ x < y
  OBVIOUS
<1> HIDE DEF before
<1>2. /\ \A x \in S : <<x, x>> \notin before
      /\ \A x, y, z \in S : <<x, y>> \in before /\ <<y, z>> \in before => <<x, z>> \in before
      /\ \A x, y \in S : x = y \/ <<x, y>> \in before \/ <<y, x>> \in before
  BY <1>1
<1>3. InIdOrder(S) = InOrder(S, before)
  BY DEF InIdOrder, before
<1> DEFINE ids == InOrder(S, before)
<1>4. /\ IsList(ids) /\ ToSet(ids) = S
      /\ \A m, n \in 1..Len(ids) : m < n => <<ids[m], ids[n]>> \in before
  BY <1>2, InOrderIs
<1> HIDE DEF ids
<1>5. DOMAIN ids = 1..Len(ids) /\ Len(ids) \in Nat
  BY <1>4, ListIs
<1>6. ASSUME NEW m \in DOMAIN ids, NEW n \in DOMAIN ids, ids[m] = ids[n] PROVE m = n
  <2>1. ~(m < n) /\ ~(n < m)
    BY <1>2, <1>4, <1>5, <1>6, ListIs
  <2> QED BY <1>5, <2>1
<1> QED BY <1>3, <1>4, <1>6 DEF ids

Denied(R, i, source) ==
  /\ source \in {"v6", "foreign"}
  /\ \E j \in DOMAIN R.regions : R.regions[j].born = R.tags[i] /\ R.regions[j].enable /\ R.regions[j].geo

(* The denials by region. *)
LEMMA GeoSays ==
  ASSUME NEW R, Numbered(R.regions), NEW i, NEW t, NEW source, NEW resolved
  PROVE  LET list == BuildGeoRules(R.regions)
         IN  /\ IsList(list) /\ \A x \in ToSet(list) : x.out = BlockTag
             /\ Verdict(list, Asked(R, i, t, source, resolved))
                  = IF Denied(R, i, source) THEN {BlockTag} ELSE {}
<1> DEFINE S == {j \in DOMAIN R.regions : R.regions[j].enable /\ R.regions[j].geo}
           rule(j, s) == XrayRule({R.regions[j].born}, {}, {}, {s}, BlockTag)
           pair(j) == <<rule(j, "v6"), rule(j, "foreign")>>
           ids == InIdOrder(S)
           seqs == [k \in DOMAIN ids |-> pair(ids[k])]
           list == BuildGeoRules(R.regions)
           q == Asking(R.tags[i], t, source, resolved)
<1>1. list = FlattenSeq(seqs)
  BY DEF BuildGeoRules
<1>2. S \in SUBSET Nat /\ IsFiniteSet(S)
  BY FS_Subset DEF Numbered
<1>3. IsList(ids) /\ ToSet(ids) = S
  <2> HIDE DEF S
  <2> QED BY <1>2, InIdOrderIs
<1>4. /\ Len(ids) \in Nat /\ DOMAIN ids = 1..Len(ids) /\ \A k \in 1..Len(ids) : ids[k] \in S
      /\ \A j \in S : \E k \in 1..Len(ids) : ids[k] = j
  <2> HIDE DEF S, ids
  <2> QED BY <1>3 DEF IsList, ToSet
<1>5. ASSUME NEW j \in S
      PROVE  IsList(pair(j)) /\ ToSet(pair(j)) = {rule(j, "v6"), rule(j, "foreign")}
  <2> DEFINE x == rule(j, "v6")  y == rule(j, "foreign")
  <2> HIDE DEF x, y
  <2>1. <<x, y>> \in Seq({x, y}) /\ DOMAIN <<x, y>> = {1, 2} /\ <<x, y>>[1] = x /\ <<x, y>>[2] = y
    OBVIOUS
  <2>2. ToSet(<<x, y>>) = {x, y}
    BY <2>1 DEF ToSet
  <2>3. IsList(<<x, y>>)
    BY <2>1, <2>2 DEF IsList
  <2> QED BY <2>2, <2>3 DEF x, y
<1>6. \A j, s : rule(j, s).out = BlockTag /\ (Fits(rule(j, s), q) <=> R.regions[j].born = R.tags[i] /\ source = s)
  BY DEF Fits, Matches, XrayRule, Asking
<1>7. Denied(R, i, source) <=> \E j \in S, s \in {"v6", "foreign"} : Fits(rule(j, s), q)
  <2>1. Denied(R, i, source) <=> source \in {"v6", "foreign"} /\ \E j \in S : R.regions[j].born = R.tags[i]
    BY DEF Denied
  <2> HIDE DEF S, rule
  <2> QED BY <1>6, <2>1
<1> HIDE DEF S, rule, ids, q, list
<1>8. /\ seqs \in [1..Len(ids) -> {pair(j) : j \in S}]
      /\ \A k \in 1..Len(ids) : seqs[k] = pair(ids[k])
  BY <1>4
<1> HIDE DEF seqs, pair
<1>9. IsList(seqs) /\ Len(seqs) = Len(ids) /\ ToSet(seqs) \subseteq {pair(j) : j \in S}
  BY <1>4, <1>8, AsList
<1>10. \A s \in ToSet(seqs) : IsList(s)
  BY <1>5, <1>9
<1>11. PICK U : seqs \in Seq(Seq(U))
  BY <1>9, <1>10, Flattened
<1>12. IsList(list) /\ \A x : x \in ToSet(list) <=> \E k \in 1..Len(ids) : x \in ToSet(seqs[k])
  BY <1>1, <1>9, <1>11, VerdictFlat
<1>13. \A x : x \in ToSet(list) <=> \E j \in S, s \in {"v6", "foreign"} : x = rule(j, s)
  BY <1>4, <1>5, <1>8, <1>12
<1>14. \A x \in ToSet(list) : x.out = BlockTag
  BY <1>6, <1>13
<1>15. (\E x \in ToSet(list) : Fits(x, q)) <=> Denied(R, i, source)
  BY <1>7, <1>13
<1> QED BY <1>12, <1>14, <1>15, VerdictOf DEF list, q, Asked

Own(t) == IF t.name = {} THEN {t.address} ELSE t.name
MeterRule(e, tags, guard) ==
  XrayRule({tags[e[1]]}, {e[2]} \cap Domains,
           IF e[2] \in Addresses THEN {e[2]} ELSE IF guard THEN Addresses ELSE {}, {}, MeterTag(e))

(* Which connections a metering rule fits. *)
LEMMA MeterFits ==
  ASSUME NEW tags, \A a, b \in DOMAIN tags : tags[a] = tags[b] => a = b,
         NEW i \in DOMAIN tags, NEW a \in DOMAIN tags, NEW x \in Domains \cup Addresses,
         NEW guard \in BOOLEAN, NEW t \in Targets, NEW source, NEW resolved
  PROVE  /\ MeterRule(<<a, x>>, tags, guard).out = MeterTag(<<a, x>>)
         /\ Fits(MeterRule(<<a, x>>, tags, guard), Asking(tags[i], t, source, resolved))
              <=> /\ a = i
                  /\ IF x \in Domains THEN t.name = {x} /\ (guard => resolved \/ t.name = {})
                     ELSE (resolved \/ t.name = {}) /\ t.address = x
<1> DEFINE rule == MeterRule(<<a, x>>, tags, guard)
<1>1. rule = XrayRule({tags[a]}, {x} \cap Domains,
           IF x \in Addresses THEN {x} ELSE IF guard THEN Addresses ELSE {}, {}, MeterTag(<<a, x>>))
  BY DEF MeterRule
<1>2. /\ Domains \cap Addresses = {} /\ t.address \in Addresses
      /\ t.name = {} \/ \E d \in Domains : t.name = {d}
  BY PoolsAssumption DEF Targets
<1>3. /\ rule.from = {tags[a]} /\ rule.domains = {x} \cap Domains /\ rule.source = {}
      /\ rule.ips = IF x \in Addresses THEN {x} ELSE IF guard THEN Addresses ELSE {}
      /\ rule.out = MeterTag(<<a, x>>)
  BY <1>1 DEF XrayRule
<1> HIDE DEF rule
<1>4. Fits(rule, Asking(tags[i], t, source, resolved))
        <=> /\ tags[i] = tags[a]
            /\ {x} \cap Domains = {} \/ t.name \cap ({x} \cap Domains) # {}
            /\ rule.ips = {} \/ ((resolved \/ t.name = {}) /\ t.address \in rule.ips)
  BY <1>3 DEF Fits, Matches, Asking
<1>5. CASE x \in Domains
  <2>1. (t.name \cap ({x} \cap Domains) # {}) <=> t.name = {x}
    BY <1>2, <1>5
  <2>2. rule.ips = IF guard THEN Addresses ELSE {}
    BY <1>2, <1>3, <1>5
  <2>3. (rule.ips = {} \/ ((resolved \/ t.name = {}) /\ t.address \in rule.ips))
          <=> (guard => resolved \/ t.name = {})
    BY <1>2, <2>2
  <2> QED BY <1>3, <1>4, <1>5, <2>1, <2>3 DEF rule
<1>6. CASE x \notin Domains
  <2>1. {x} \cap Domains = {} /\ rule.ips = {x}
    BY <1>3, <1>6
  <2>2. (rule.ips = {} \/ ((resolved \/ t.name = {}) /\ t.address \in rule.ips))
          <=> (resolved \/ t.name = {}) /\ t.address = x
    BY <2>1
  <2> QED BY <1>3, <1>4, <1>6, <2>1, <2>2 DEF rule
<1> QED BY <1>5, <1>6

(* The metering rules are a list, and lead to outbounds of the pool. *)
LEMMA MeterList ==
  ASSUME NEW entries, IsFiniteSet(entries), NEW tags, NEW guard
  PROVE  /\ IsList(BuildMeterRules(entries, tags, guard))
         /\ \A rule \in ToSet(BuildMeterRules(entries, tags, guard)) : \E e \in entries : rule.out = MeterTag(e)
<1> DEFINE N == {e \in entries : e[2] \in Domains}
           A == {e \in entries : e[2] \in Addresses}
           s == SetToSeq(N)
           u == SetToSeq(A)
           l == s \o u
           Rule(e) == MeterRule(e, tags, guard)
           list == BuildMeterRules(entries, tags, guard)
<1>1. list = [k \in DOMAIN l |-> Rule(l[k])]
  BY DEF BuildMeterRules, MeterRule
<1>2. IsFiniteSet(N) /\ IsFiniteSet(A) /\ N \cup A \subseteq entries
  <2>1. N \in SUBSET entries /\ A \in SUBSET entries
    OBVIOUS
  <2> HIDE DEF N, A
  <2>2. \A T \in SUBSET entries : IsFiniteSet(T)
    BY FS_Subset
  <2> QED BY <2>1, <2>2
<1> HIDE DEF N, A
<1>3. IsList(s) /\ IsList(u) /\ ToSet(s) = N /\ ToSet(u) = A
  BY <1>2, SetToSeqIs
<1> HIDE DEF s, u
<1>4. IsList(l) /\ ToSet(l) \subseteq entries
  <2>1. IsList(s \o u) /\ ToSet(s \o u) = ToSet(s) \cup ToSet(u)
    BY <1>3, Concatenated
  <2> QED BY <1>2, <1>3, <2>1
<1> HIDE DEF l, list, Rule
<1>5. Len(l) \in Nat /\ DOMAIN l = 1..Len(l) /\ \A k \in 1..Len(l) : l[k] \in entries
  BY <1>4, ListIs
<1>6. list \in [1..Len(l) -> {Rule(e) : e \in entries}]
  BY <1>1, <1>5
<1>7. IsList(list) /\ ToSet(list) \subseteq {Rule(e) : e \in entries}
  BY <1>5, <1>6, AsList
<1>8. \A e : Rule(e).out = MeterTag(e)
  BY DEF Rule, MeterRule, XrayRule
<1>9. \A rule \in ToSet(list) : \E e \in entries : rule.out = MeterTag(e)
  BY <1>7, <1>8
<1> QED BY <1>7, <1>9 DEF list

Measures(list, v, entries, i, t, guard, resolved) ==
  /\ IsList(list)
  /\ \A rule \in ToSet(list) : \E e \in entries : rule.out = MeterTag(e)
  /\ guard /\ ~resolved /\ v # {} => t.name = {}
  /\ \A x \in Own(t) :
       <<i, x>> \in entries /\ (guard => resolved \/ t.name = {}) => v = {MeterTag(<<i, x>>)}

(* Metering: a connection with a name is not measured before its address counts *)
(* where that is guarded, and each is measured under its own name first.        *)
LEMMA MeterSays ==
  ASSUME NEW entries, IsFiniteSet(entries), entries \subseteq Nat \X (Domains \cup Addresses),
         NEW tags, \A a, b \in DOMAIN tags : tags[a] = tags[b] => a = b,
         \A e \in entries : e[1] \in DOMAIN tags,
         NEW i \in DOMAIN tags,
         NEW guard \in BOOLEAN, NEW t \in Targets, NEW source, NEW resolved
  PROVE  Measures(BuildMeterRules(entries, tags, guard),
                  Verdict(BuildMeterRules(entries, tags, guard), Asking(tags[i], t, source, resolved)),
                  entries, i, t, guard, resolved)
<1> DEFINE N == {e \in entries : e[2] \in Domains}
           A == {e \in entries : e[2] \in Addresses}
           s == SetToSeq(N)
           u == SetToSeq(A)
           l == s \o u
           Rule(e) == MeterRule(e, tags, guard)
           list == BuildMeterRules(entries, tags, guard)
           q == Asking(tags[i], t, source, resolved)
<1>1. list = [k \in DOMAIN l |-> Rule(l[k])]
  BY DEF BuildMeterRules, MeterRule
<1>2. IsFiniteSet(N) /\ IsFiniteSet(A) /\ N \cup A = entries
  <2>1. N \in SUBSET entries /\ A \in SUBSET entries /\ N \cup A = entries
    OBVIOUS
  <2> HIDE DEF N, A
  <2>2. \A T \in SUBSET entries : IsFiniteSet(T)
    BY FS_Subset
  <2> QED BY <2>1, <2>2
<1> HIDE DEF N, A
<1>3. IsList(s) /\ IsList(u) /\ ToSet(s) = N /\ ToSet(u) = A
  BY <1>2, SetToSeqIs
<1> HIDE DEF s, u
<1>4. IsList(l) /\ ToSet(l) = entries /\ \A k \in 1..Len(s) : l[k] \in N
  <2>1. IsList(l) /\ ToSet(l) = entries /\ \A k \in 1..Len(s) : l[k] = s[k]
    <3>1. IsList(s \o u) /\ ToSet(s \o u) = ToSet(s) \cup ToSet(u) /\ \A k \in 1..Len(s) : (s \o u)[k] = s[k]
      BY <1>3, Concatenated
    <3> QED BY <1>2, <1>3, <3>1
  <2> QED BY <1>3, <2>1, ListIs
<1>5. \A e \in N : \E k \in 1..Len(s) : k \in 1..Len(l) /\ l[k] = e
  <2>1. /\ Len(s) \in Nat /\ Len(u) \in Nat /\ Len(l) = Len(s) + Len(u)
        /\ \A k \in 1..Len(s) : l[k] = s[k]
    BY <1>3, Concatenated, ListIs
  <2>2. \A e \in N : \E k \in 1..Len(s) : s[k] = e
    BY <1>3, ListIs
  <2> QED BY <2>1, <2>2
<1> HIDE DEF l, list, Rule
<1>6. Len(l) \in Nat /\ DOMAIN l = 1..Len(l) /\ \A k \in 1..Len(l) : l[k] \in entries
  BY <1>4, ListIs
<1>7. list \in [1..Len(l) -> {Rule(e) : e \in entries}] /\ \A k \in 1..Len(l) : list[k] = Rule(l[k])
  BY <1>1, <1>6
<1>8. IsList(list) /\ Len(list) = Len(l) /\ ToSet(list) \subseteq {Rule(e) : e \in entries}
  BY <1>6, <1>7, AsList
<1>9. ASSUME NEW e \in entries
      PROVE  /\ Rule(e).out = MeterTag(e)
             /\ e = <<e[1], e[2]>> /\ e[2] \in Domains \cup Addresses
             /\ Fits(Rule(e), q) <=> /\ e[1] = i
                                     /\ IF e[2] \in Domains THEN t.name = {e[2]} /\ (guard => resolved \/ t.name = {})
                                        ELSE (resolved \/ t.name = {}) /\ t.address = e[2]
  <2>1. e = <<e[1], e[2]>> /\ e[1] \in DOMAIN tags /\ e[2] \in Domains \cup Addresses
    OBVIOUS
  <2> DEFINE a == e[1]  x == e[2]
  <2>2. a \in DOMAIN tags /\ x \in Domains \cup Addresses
    BY <2>1
  <2> HIDE DEF a, x
  <2>3. /\ MeterRule(<<a, x>>, tags, guard).out = MeterTag(<<a, x>>)
        /\ Fits(MeterRule(<<a, x>>, tags, guard), q)
              <=> /\ a = i
                  /\ IF x \in Domains THEN t.name = {x} /\ (guard => resolved \/ t.name = {})
                     ELSE (resolved \/ t.name = {}) /\ t.address = x
    BY <2>2, MeterFits, SMTT(30)
  <2>4. <<a, x>> = e
    BY <2>1 DEF a, x
  <2> HIDE DEF q
  <2>5. /\ Rule(e).out = MeterTag(e)
        /\ Fits(Rule(e), q) <=> /\ a = i
                  /\ IF x \in Domains THEN t.name = {x} /\ (guard => resolved \/ t.name = {})
                     ELSE (resolved \/ t.name = {}) /\ t.address = x
    BY <2>3, <2>4 DEF Rule
  <2> QED BY <2>1, <2>5 DEF a, x
<1>10. \A rule \in ToSet(list) : \E e \in entries : rule.out = MeterTag(e)
  BY <1>8, <1>9
<1> DEFINE v == Verdict(list, q)
<1>11. ASSUME guard, ~resolved, v # {} PROVE t.name = {}
  <2>1. PICK rule \in ToSet(list) : Fits(rule, q)
    BY <1>8, <1>11, VerdictOf
  <2>2. PICK e \in entries : rule = Rule(e)
    BY <1>8, <2>1
  <2> HIDE DEF q, v
  <2> QED BY <1>9, <1>11, <2>1, <2>2
<1>12. ASSUME NEW x \in Own(t), <<i, x>> \in entries, guard => resolved \/ t.name = {}
       PROVE  v = {MeterTag(<<i, x>>)}
  <2> DEFINE me == <<i, x>>
  <2>0. /\ Domains \cap Addresses = {} /\ t.address \in Addresses
        /\ t.name = {} \/ \E d \in Domains : t.name = {d}
    BY PoolsAssumption DEF Targets
  <2>1. me \in entries /\ me[1] = i /\ me[2] = x
    BY <1>12
  <2>2. CASE t.name = {}
    <3>1. x = t.address /\ x \notin Domains
      BY <2>0, <2>2 DEF Own
    <3>2. Fits(Rule(me), q) /\ Rule(me).out = MeterTag(me)
      <4> HIDE DEF q, me
      <4> QED BY <1>9, <2>1, <2>2, <3>1
    <3>3. PICK k \in 1..Len(l) : l[k] = me
      BY <1>4, <2>1, ListIs
    <3>4. Rule(me) \in ToSet(list)
      <4>1. list[k] = Rule(l[k]) /\ k \in 1..Len(list)
        BY <1>7, <1>8, <3>3
      <4>2. list[k] \in ToSet(list)
        BY <1>8, <4>1, ListIs
      <4> HIDE DEF me
      <4> QED BY <3>3, <4>1, <4>2
    <3>5. ASSUME NEW rule \in ToSet(list), Fits(rule, q) PROVE rule.out = MeterTag(me)
      <4>1. PICK e \in entries : rule = Rule(e)
        BY <1>8, <3>5
      <4>2. e[1] = i /\ e[2] = x /\ e = <<e[1], e[2]>> /\ Rule(e).out = MeterTag(e)
        <5> HIDE DEF q
        <5> QED BY <1>9, <2>2, <3>1, <3>5, <4>1
      <4> QED BY <4>1, <4>2
    <3> HIDE DEF q, me
    <3> QED BY <1>8, <3>2, <3>4, <3>5, VerdictOf DEF me
  <2>3. CASE t.name # {}
    <3>1. x \in Domains /\ t.name = {x} /\ me \in N
      BY <2>0, <2>1, <2>3 DEF Own, N
    <3>2. Fits(Rule(me), q)
      <4> HIDE DEF q, me
      <4> QED BY <1>9, <1>12, <2>1, <3>1
    <3>3. PICK k \in 1..Len(s) : k \in 1..Len(l) /\ l[k] = me
      BY <1>5, <3>1
    <3>4. Fits(list[k], q)
      BY <1>7, <3>2, <3>3
    <3>5. PICK m \in Firsts(list, q) : TRUE
      BY <1>8, <3>3, <3>4, FirstIs
    <3>6. m \in 1..Len(l) /\ Fits(list[m], q) /\ \A j \in 1..(m - 1) : ~Fits(list[j], q)
      BY <1>8, <3>5 DEF Firsts
    <3>7. m <= k
      BY <1>6, <3>3, <3>4, <3>6, SMTT(30)
    <3>8. m \in 1..Len(s) /\ l[m] \in N /\ l[m] \in entries /\ list[m] = Rule(l[m])
      <4>1. Len(s) \in Nat
        BY <1>3, ListIs
      <4> QED BY <1>4, <1>6, <1>7, <3>6, <3>7, <4>1
    <3> DEFINE e == l[m]
    <3>9. e \in entries /\ Fits(Rule(e), q) /\ e[2] \in Domains
      BY <3>6, <3>8 DEF N
    <3>10. e[1] = i /\ {e[2]} = {x} /\ e = <<e[1], e[2]>> /\ Rule(e).out = MeterTag(e)
      <4> HIDE DEF q, e
      <4> QED BY <1>9, <3>1, <3>9
    <3>11. e = me
      BY <3>10
    <3>12. v = {list[m].out}
      <4> HIDE DEF q, Firsts
      <4> QED BY <1>8, <3>5, VerdictIs
    <3> QED BY <3>8, <3>10, <3>11, <3>12
  <2> QED BY <2>2, <2>3
<1> HIDE DEF q, v
<1>13. Measures(list, v, entries, i, t, guard, resolved)
  BY <1>8, <1>10, <1>11, <1>12 DEF Measures
<1> QED BY <1>13 DEF list, v, q

-----------------------------------------------------------------------------
(* Tags of the core's outbounds. *)
Outlets(outs) ==
  /\ IsList(outs)
  /\ \A a \in DOMAIN outs : DOMAIN outs[a] = {"tag", "via"} /\ outs[a].via # <<>>
  /\ \A a, b \in DOMAIN outs : outs[a].tag = outs[b].tag => a = b
HasTag(outs, tag) == \E a \in DOMAIN outs : outs[a].tag = tag

(* Reserved tags differ from each other and from any that is not reserved. *)
LEMMA ReservedTags ==
  ASSUME NEW e
  PROVE  /\ DefaultTag # BlockTag /\ MeterTag(e) \notin {DefaultTag, BlockTag}
         /\ IsReservedTag(DefaultTag) /\ IsReservedTag(BlockTag) /\ IsReservedTag(MeterTag(e))
         /\ DefaultTag # Untagged /\ BlockTag # Untagged
         /\ \A f : MeterTag(e) = MeterTag(f) => e[1] = f[1] /\ e[2] = f[2]
<1>1. DefaultTag # BlockTag /\ DefaultTag # Untagged /\ BlockTag # Untagged
  BY DEF DefaultTag, BlockTag, Untagged
<1>2. Len(MeterTag(e)) = 3 /\ Len(DefaultTag) = 1 /\ Len(BlockTag) = 1 /\ MeterTag(e) # <<>>
  BY DEF MeterTag, DefaultTag, BlockTag
<1>3. Head(MeterTag(e)) = "a-ui-meter"
  BY DEF MeterTag
<1>4. \A f : MeterTag(e) = MeterTag(f) => e[1] = f[1] /\ e[2] = f[2]
  BY DEF MeterTag
<1> QED BY <1>1, <1>2, <1>3, <1>4 DEF IsReservedTag, Untagged

(* The outbounds of the template, the first of them tagged. *)
LEMMA TemplateOutlets ==
  ASSUME NEW T, TemplateHolds(T)
  PROVE  /\ Outlets(TagDefaultOutbound(T.outbounds))
         /\ \A a \in DOMAIN TagDefaultOutbound(T.outbounds) :
              LET tag == TagDefaultOutbound(T.outbounds)[a].tag
              IN  tag = DefaultTag \/ (~IsReservedTag(tag) /\ \E b \in DOMAIN T.outbounds : tag = T.outbounds[b].tag)
         /\ T.outbounds # <<>> => /\ TagDefaultOutbound(T.outbounds) # <<>>
                                  /\ TagDefaultOutbound(T.outbounds)[1].tag = DefaultOutboundTag(T.outbounds)
<1> DEFINE outs == T.outbounds
           new == [outs EXCEPT ![1].tag = DefaultTag]
           o == TagDefaultOutbound(outs)
<1>1. /\ IsList(outs)
      /\ \A a \in DOMAIN outs :
           /\ DOMAIN outs[a] = {"tag", "via"} /\ outs[a].via # <<>> /\ ~IsReservedTag(outs[a].tag)
           /\ \A b \in DOMAIN outs : outs[a].tag = outs[b].tag => a = b
  BY DEF TemplateHolds, TagOfItsOwn
<1> HIDE DEF outs
<1>2. outs # <<>> => 1 \in DOMAIN outs /\ Head(outs) = outs[1]
  BY <1>1 DEF IsList
<1>3. o = IF outs # <<>> /\ Head(outs).tag = Untagged THEN new ELSE outs
  BY DEF TagDefaultOutbound
<1>4. CASE outs # <<>> /\ Head(outs).tag = Untagged
  <2>1. o = new
    BY <1>3, <1>4
  <2>2. /\ DOMAIN new = DOMAIN outs
        /\ new[1] = [outs[1] EXCEPT !.tag = DefaultTag]
        /\ \A a \in DOMAIN outs : a # 1 => new[a] = outs[a]
    BY <1>2, <1>4
  <2>3. /\ DOMAIN new[1] = {"tag", "via"} /\ new[1].tag = DefaultTag /\ new[1].via = outs[1].via
    BY <1>1, <1>2, <1>4, <2>2
  <2>4. Len(outs) \in Nat /\ DOMAIN outs = 1..Len(outs) /\ outs \in [1..Len(outs) -> ToSet(outs)]
    BY <1>1 DEF IsList
  <2>5. IsList(new) /\ new # <<>> /\ Head(new) = new[1]
    <3> DEFINE S == ToSet(outs) \cup {new[1]}
    <3>1. new \in [1..Len(outs) -> S]
      BY <2>2, <2>4
    <3> HIDE DEF S, new
    <3>2. IsList(new) /\ DOMAIN new = 1..Len(outs) /\ new \in Seq(S) /\ Len(new) = Len(outs)
      BY <2>4, <3>1, AsList
    <3>3. Len(outs) # 0
      BY <1>2, <1>4, <2>4
    <3> QED BY <2>4, <3>2, <3>3
  <2> HIDE DEF new, o
  <2>6. \A a \in DOMAIN new : DOMAIN new[a] = {"tag", "via"} /\ new[a].via # <<>>
    <3> SUFFICES ASSUME NEW a \in DOMAIN new PROVE DOMAIN new[a] = {"tag", "via"} /\ new[a].via # <<>>
      OBVIOUS
    <3>1. CASE a = 1
      BY <1>1, <1>2, <1>4, <2>3, <3>1
    <3>2. CASE a # 1
      BY <1>1, <2>2, <3>2
    <3> QED BY <3>1, <3>2
  <2>7. \A a \in DOMAIN new : IF a = 1 THEN new[a].tag = DefaultTag ELSE new[a].tag = outs[a].tag
    BY <2>2, <2>3
  <2>8. \A a \in DOMAIN outs : outs[a].tag # DefaultTag
    BY <1>1, ReservedTags
  <2>9. \A a, b \in DOMAIN new : new[a].tag = new[b].tag => a = b
    <3> SUFFICES ASSUME NEW a \in DOMAIN new, NEW b \in DOMAIN new, new[a].tag = new[b].tag PROVE a = b
      OBVIOUS
    <3>1. a \in DOMAIN outs /\ b \in DOMAIN outs
      BY <2>2
    <3>2. a = 1 <=> b = 1
      BY <2>7, <2>8, <3>1
    <3>3. CASE a # 1
      <4>1. outs[a].tag = outs[b].tag
        BY <2>7, <3>2, <3>3
      <4> QED BY <1>1, <3>1, <4>1
    <3> QED BY <3>2, <3>3
  <2>10. DefaultOutboundTag(outs) = new[1].tag
    BY <1>4, <2>1, <2>5 DEF DefaultOutboundTag, o
  <2>11. Outlets(new)
    BY <2>5, <2>6, <2>9 DEF Outlets
  <2>12. \A a \in DOMAIN new :
           \/ new[a].tag = DefaultTag
           \/ ~IsReservedTag(new[a].tag) /\ \E b \in DOMAIN outs : new[a].tag = outs[b].tag
    <3> SUFFICES ASSUME NEW a \in DOMAIN new, a # 1
                 PROVE  ~IsReservedTag(new[a].tag) /\ \E b \in DOMAIN outs : new[a].tag = outs[b].tag
      BY <2>7
    <3>1. a \in DOMAIN outs /\ new[a].tag = outs[a].tag
      BY <2>2, <2>7
    <3>2. ~IsReservedTag(outs[a].tag)
      BY <1>1, <3>1
    <3> QED BY <3>1, <3>2
  <2> QED BY <2>1, <2>5, <2>10, <2>11, <2>12 DEF outs, o
<1>5. CASE ~(outs # <<>> /\ Head(outs).tag = Untagged)
  <2>1. o = outs
    BY <1>3, <1>5
  <2>2. Outlets(outs)
    BY <1>1 DEF Outlets
  <2>3. \A a \in DOMAIN outs : ~IsReservedTag(outs[a].tag)
    BY <1>1
  <2> HIDE DEF o
  <2>4. outs # <<>> => DefaultOutboundTag(outs) = outs[1].tag
    BY <1>2, <2>1 DEF DefaultOutboundTag, o
  <2> QED BY <2>1, <2>2, <2>3, <2>4 DEF outs, o
<1> QED BY <1>4, <1>5

(* Lists of outbounds with tags of their own. *)
LEMMA OutletsJoined ==
  ASSUME NEW s, Outlets(s), NEW t, Outlets(t),
         \A a \in DOMAIN s, b \in DOMAIN t : s[a].tag # t[b].tag
  PROVE  /\ Outlets(s \o t) /\ Len(s \o t) = Len(s) + Len(t) /\ Len(s) \in Nat /\ Len(t) \in Nat
         /\ \A a \in DOMAIN s : a \in DOMAIN (s \o t) /\ (s \o t)[a] = s[a]
         /\ \A b \in DOMAIN t : Len(s) + b \in DOMAIN (s \o t) /\ (s \o t)[Len(s) + b] = t[b]
         /\ \A k \in DOMAIN (s \o t) : \/ k \in DOMAIN s /\ (s \o t)[k] = s[k]
                                       \/ k - Len(s) \in DOMAIN t /\ (s \o t)[k] = t[k - Len(s)]
<1> DEFINE st == s \o t
<1>1. IsList(s) /\ IsList(t)
  BY DEF Outlets
<1>2. /\ IsList(st) /\ Len(st) = Len(s) + Len(t)
      /\ \A i \in 1..Len(s) : st[i] = s[i]
      /\ \A i \in 1..Len(t) : st[Len(s) + i] = t[i]
      /\ \A i \in 1..Len(st) :
              \/ i \in 1..Len(s) /\ st[i] = s[i]
              \/ i - Len(s) \in 1..Len(t) /\ st[i] = t[i - Len(s)]
  BY <1>1, Concatenated
<1>3. /\ Len(s) \in Nat /\ Len(t) \in Nat /\ DOMAIN s = 1..Len(s) /\ DOMAIN t = 1..Len(t)
      /\ DOMAIN st = 1..(Len(s) + Len(t))
  BY <1>1, <1>2, ListIs
<1> HIDE DEF st
<1>4. /\ \A a \in DOMAIN s : a \in DOMAIN st /\ st[a] = s[a]
      /\ \A b \in DOMAIN t : Len(s) + b \in DOMAIN st /\ st[Len(s) + b] = t[b]
      /\ \A k \in DOMAIN st : \/ k \in DOMAIN s /\ st[k] = s[k]
                              \/ k - Len(s) \in DOMAIN t /\ st[k] = t[k - Len(s)]
  BY <1>2, <1>3
<1>5. ASSUME NEW k \in DOMAIN st PROVE DOMAIN st[k] = {"tag", "via"} /\ st[k].via # <<>>
  <2>1. CASE k \in DOMAIN s /\ st[k] = s[k]
    BY <2>1 DEF Outlets
  <2>2. CASE k - Len(s) \in DOMAIN t /\ st[k] = t[k - Len(s)]
    BY <2>2 DEF Outlets
  <2> QED BY <1>4, <2>1, <2>2
<1>6. ASSUME NEW k \in DOMAIN st, NEW m \in DOMAIN st, st[k].tag = st[m].tag PROVE k = m
  <2>1. CASE k \in DOMAIN s /\ st[k] = s[k] /\ m \in DOMAIN s /\ st[m] = s[m]
    BY <1>6, <2>1 DEF Outlets
  <2>2. CASE k - Len(s) \in DOMAIN t /\ st[k] = t[k - Len(s)] /\ m - Len(s) \in DOMAIN t /\ st[m] = t[m - Len(s)]
    <3>1. k - Len(s) = m - Len(s)
      BY <1>6, <2>2 DEF Outlets
    <3> QED BY <1>3, <3>1
  <2>3. CASE k \in DOMAIN s /\ st[k] = s[k] /\ m - Len(s) \in DOMAIN t /\ st[m] = t[m - Len(s)]
    BY <1>6, <2>3
  <2>4. CASE k - Len(s) \in DOMAIN t /\ st[k] = t[k - Len(s)] /\ m \in DOMAIN s /\ st[m] = s[m]
    BY <1>6, <2>4
  <2> QED BY <1>4, <2>1, <2>2, <2>3, <2>4
<1>7. Outlets(st)
  BY <1>2, <1>5, <1>6 DEF Outlets
<1> QED BY <1>2, <1>3, <1>4, <1>7 DEF st

(* The outbounds of the nodes that can be used, and the one that blocks. *)
LEMMA NodeOutlets ==
  ASSUME NEW table, Numbered(table), TagsDiffer(table)
  PROVE  LET ids == InIdOrder(Usable(table))
             outs == [k \in DOMAIN ids |-> [tag |-> table[ids[k]].tag, via |-> ViaNode(table[ids[k]].born)]]
         IN  /\ Outlets(outs)
             /\ \A k \in DOMAIN outs : \E n \in Usable(table) : outs[k].tag = table[n].tag
             /\ \A n \in Usable(table) : \E k \in DOMAIN outs :
                  outs[k].tag = table[n].tag /\ outs[k].via = ViaNode(table[n].born)
<1> DEFINE S == Usable(table)
           ids == InIdOrder(S)
           out(n) == [tag |-> table[n].tag, via |-> ViaNode(table[n].born)]
           outs == [k \in DOMAIN ids |-> out(ids[k])]
<1>1. S \in SUBSET Nat /\ IsFiniteSet(S) /\ S \subseteq DOMAIN table
  <2>1. S \in SUBSET DOMAIN table
    BY DEF Usable
  <2> HIDE DEF S
  <2> QED BY <2>1, FS_Subset DEF Numbered
<1> HIDE DEF S
<1>2. /\ IsList(ids) /\ ToSet(ids) = S
      /\ \A m, n \in DOMAIN ids : ids[m] = ids[n] => m = n
  BY <1>1, InIdOrderIs
<1> HIDE DEF ids
<1>3. /\ Len(ids) \in Nat /\ DOMAIN ids = 1..Len(ids)
      /\ \A k \in DOMAIN ids : ids[k] \in S
      /\ \A n \in S : \E k \in DOMAIN ids : ids[k] = n
  BY <1>2, ListIs
<1>4. \A n : /\ out(n).tag = table[n].tag /\ out(n).via = ViaNode(table[n].born)
             /\ DOMAIN out(n) = {"tag", "via"} /\ out(n).via # <<>>
  BY DEF ViaNode
<1> HIDE DEF out
<1>5. outs \in [1..Len(ids) -> {out(n) : n \in S}] /\ \A k \in DOMAIN ids : outs[k] = out(ids[k])
  BY <1>3
<1> HIDE DEF outs
<1>6. IsList(outs) /\ DOMAIN outs = DOMAIN ids
  BY <1>3, <1>5, AsList
<1>7. ASSUME NEW a \in DOMAIN outs, NEW b \in DOMAIN outs, outs[a].tag = outs[b].tag PROVE a = b
  <2>1. table[ids[a]].tag = table[ids[b]].tag /\ ids[a] \in DOMAIN table /\ ids[b] \in DOMAIN table
    BY <1>1, <1>3, <1>4, <1>5, <1>6, <1>7
  <2> QED BY <1>2, <1>6, <2>1 DEF TagsDiffer
<1>8. Outlets(outs)
  BY <1>4, <1>5, <1>6, <1>7 DEF Outlets
<1>9. \A k \in DOMAIN outs : \E n \in S : outs[k].tag = table[n].tag
  BY <1>3, <1>4, <1>5, <1>6
<1>10. \A n \in S : \E k \in DOMAIN outs : outs[k].tag = table[n].tag /\ outs[k].via = ViaNode(table[n].born)
  BY <1>3, <1>4, <1>5, <1>6
<1> QED BY <1>8, <1>9, <1>10 DEF outs, out, ids, S

(* A list of one outbound. *)
LEMMA OneOutlet ==
  ASSUME NEW out, DOMAIN out = {"tag", "via"}, out.via # <<>>
  PROVE  Outlets(<<out>>) /\ DOMAIN <<out>> = {1} /\ <<out>>[1] = out
<1>1. IsList(<<out>>) /\ DOMAIN <<out>> = {1} /\ <<out>>[1] = out
  BY ShortLists
<1> QED BY <1>1 DEF Outlets

(* What BuildOutbounds makes: the template's outbounds, the first with a tag;    *)
(* the nodes'; the one that blocks.                                              *)
LEMMA BuiltOutlets ==
  ASSUME NEW T, NEW R, Given(T, R)
  PROVE  LET outs == BuildOutbounds(T, R.nodes)
         IN  /\ Outlets(outs) /\ 1 \in DOMAIN outs
             /\ \A e : ~HasTag(outs, MeterTag(e))
             /\ T.outbounds # <<>> => outs[1].tag = DefaultOutboundTag(T.outbounds)
             /\ \E a \in DOMAIN outs : outs[a].tag = BlockTag /\ outs[a].via = Blackhole
             /\ \A n \in Usable(R.nodes) : \E a \in DOMAIN outs :
                  outs[a].tag = R.nodes[n].tag /\ outs[a].via = ViaNode(R.nodes[n].born)
             /\ \A k \in DOMAIN T.rules : HasTag(outs, T.rules[k].out)
<1> DEFINE table == R.nodes
           ids == InIdOrder(Usable(table))
           t == TagDefaultOutbound(T.outbounds)
           n == [k \in DOMAIN ids |-> [tag |-> table[ids[k]].tag, via |-> ViaNode(table[ids[k]].born)]]
           b == [tag |-> BlockTag, via |-> Blackhole]
           outs == BuildOutbounds(T, table)
<1>1. outs = (t \o n) \o <<b>>
  BY DEF BuildOutbounds
<1>2. /\ TemplateHolds(T) /\ Numbered(table) /\ TagsDiffer(table)
      /\ \A i \in DOMAIN T.outbounds, m \in DOMAIN table : table[m].tag # T.outbounds[i].tag
  BY DEF Given
<1>3. /\ Outlets(t)
      /\ \A a \in DOMAIN t : \/ t[a].tag = DefaultTag
                             \/ ~IsReservedTag(t[a].tag) /\ \E i \in DOMAIN T.outbounds : t[a].tag = T.outbounds[i].tag
      /\ T.outbounds # <<>> => t # <<>> /\ t[1].tag = DefaultOutboundTag(T.outbounds)
  BY <1>2, TemplateOutlets
<1>4. /\ Outlets(n)
      /\ \A k \in DOMAIN n : \E m \in Usable(table) : n[k].tag = table[m].tag
      /\ \A m \in Usable(table) : \E k \in DOMAIN n :
           n[k].tag = table[m].tag /\ n[k].via = ViaNode(table[m].born)
  BY <1>2, NodeOutlets
<1>5. Outlets(<<b>>) /\ DOMAIN <<b>> = {1} /\ <<b>>[1] = b /\ b.tag = BlockTag /\ b.via = Blackhole
  <2>1. DOMAIN b = {"tag", "via"} /\ b.via # <<>> /\ b.tag = BlockTag /\ b.via = Blackhole
    BY DEF Blackhole
  <2> HIDE DEF b
  <2> QED BY <2>1, OneOutlet
<1>6. \A k \in DOMAIN T.rules : HasTag(t, T.rules[k].out)
  <2>1. DOMAIN t = DOMAIN T.outbounds
    BY DEF TagDefaultOutbound
  <2> QED BY <1>2, <2>1 DEF TemplateHolds, HasTag
<1>7. \A m \in Usable(table) : ~IsReservedTag(table[m].tag) /\ m \in DOMAIN table
  BY DEF Usable
<1> HIDE DEF t, n, b, outs, table
<1>8. \A k \in DOMAIN n : ~IsReservedTag(n[k].tag)
  BY <1>4, <1>7
<1>9. \A a \in DOMAIN t, k \in DOMAIN n : t[a].tag # n[k].tag
  <2> SUFFICES ASSUME NEW a \in DOMAIN t, NEW k \in DOMAIN n, t[a].tag = n[k].tag PROVE FALSE
    OBVIOUS
  <2>1. t[a].tag # DefaultTag
    BY <1>8, ReservedTags
  <2>2. PICK i \in DOMAIN T.outbounds : t[a].tag = T.outbounds[i].tag
    BY <1>3, <2>1
  <2>3. PICK m \in Usable(table) : n[k].tag = table[m].tag
    BY <1>4
  <2> QED BY <1>2, <1>7, <2>2, <2>3
<1> DEFINE tn == t \o n
<1>10. /\ Outlets(tn) /\ Len(tn) = Len(t) + Len(n) /\ Len(t) \in Nat /\ Len(n) \in Nat
       /\ \A a \in DOMAIN t : a \in DOMAIN tn /\ tn[a] = t[a]
       /\ \A k \in DOMAIN n : Len(t) + k \in DOMAIN tn /\ tn[Len(t) + k] = n[k]
       /\ \A a \in DOMAIN tn : \/ a \in DOMAIN t /\ tn[a] = t[a]
                               \/ a - Len(t) \in DOMAIN n /\ tn[a] = n[a - Len(t)]
  BY <1>3, <1>4, <1>9, OutletsJoined
<1> HIDE DEF tn
<1>11. \A a \in DOMAIN tn : tn[a].tag = DefaultTag \/ ~IsReservedTag(tn[a].tag)
  <2>1. ASSUME NEW a \in DOMAIN t PROVE t[a].tag = DefaultTag \/ ~IsReservedTag(t[a].tag)
    BY <1>3
  <2> QED BY <1>8, <1>10, <2>1
<1> DEFINE c == <<b>>
<1>c. Outlets(c) /\ DOMAIN c = {1} /\ c[1] = b
  BY <1>5
<1>d. outs = tn \o c
  BY <1>1 DEF tn
<1> HIDE DEF c
<1>12. \A a \in DOMAIN tn, k \in DOMAIN c : tn[a].tag # c[k].tag
  BY <1>5, <1>c, <1>11, ReservedTags
<1>13. /\ Outlets(outs) /\ Len(outs) = Len(tn) + Len(c) /\ Len(tn) \in Nat /\ Len(c) \in Nat
       /\ \A a \in DOMAIN tn : a \in DOMAIN outs /\ outs[a] = tn[a]
       /\ \A k \in DOMAIN c : Len(tn) + k \in DOMAIN outs /\ outs[Len(tn) + k] = c[k]
       /\ \A a \in DOMAIN outs : \/ a \in DOMAIN tn /\ outs[a] = tn[a]
                                 \/ a - Len(tn) \in DOMAIN c /\ outs[a] = c[a - Len(tn)]
  <2> DEFINE x == tn \o c
  <2>1. /\ Outlets(x) /\ Len(x) = Len(tn) + Len(c) /\ Len(tn) \in Nat /\ Len(c) \in Nat
        /\ \A a \in DOMAIN tn : a \in DOMAIN x /\ x[a] = tn[a]
        /\ \A k \in DOMAIN c : Len(tn) + k \in DOMAIN x /\ x[Len(tn) + k] = c[k]
        /\ \A a \in DOMAIN x : \/ a \in DOMAIN tn /\ x[a] = tn[a]
                               \/ a - Len(tn) \in DOMAIN c /\ x[a] = c[a - Len(tn)]
    <3>1. Outlets(tn) /\ Outlets(c)
      BY <1>10, <1>c
    <3> QED BY <1>12, <3>1, OutletsJoined
  <2>2. outs = x
    BY <1>d
  <2> HIDE DEF x
  <2> QED BY <2>1, <2>2
<1>14. \E a \in DOMAIN outs : outs[a].tag = BlockTag /\ outs[a].via = Blackhole
  BY <1>5, <1>c, <1>13
<1>15. 1 \in DOMAIN outs
  <2>1. IsList(outs) /\ DOMAIN outs # {}
    BY <1>13, <1>14 DEF Outlets
  <2>2. Len(outs) \in Nat /\ DOMAIN outs = 1..Len(outs)
    BY <2>1, ListIs
  <2> QED BY <2>1, <2>2
<1>16. ASSUME NEW e, HasTag(outs, MeterTag(e)) PROVE FALSE
  <2>1. PICK a \in DOMAIN outs : outs[a].tag = MeterTag(e)
    BY <1>16 DEF HasTag
  <2>2. CASE a \in DOMAIN tn /\ outs[a] = tn[a]
    <3>1. tn[a].tag = DefaultTag \/ ~IsReservedTag(tn[a].tag)
      BY <1>11, <2>2
    <3> QED BY <2>1, <2>2, <3>1, ReservedTags
  <2>3. CASE a - Len(tn) \in DOMAIN c /\ outs[a] = c[a - Len(tn)]
    <3>1. outs[a].tag = BlockTag
      BY <1>5, <1>c, <2>3
    <3> QED BY <2>1, <3>1, ReservedTags
  <2> QED BY <1>13, <2>2, <2>3
<1>17. T.outbounds # <<>> => outs[1].tag = DefaultOutboundTag(T.outbounds)
  <2> SUFFICES ASSUME T.outbounds # <<>> PROVE outs[1].tag = DefaultOutboundTag(T.outbounds)
    OBVIOUS
  <2>1. 1 \in DOMAIN t
    BY <1>3 DEF Outlets, IsList
  <2> QED BY <1>3, <1>10, <1>13, <2>1
<1>18. ASSUME NEW m \in Usable(table)
       PROVE  \E a \in DOMAIN outs : outs[a].tag = table[m].tag /\ outs[a].via = ViaNode(table[m].born)
  <2>1. PICK k \in DOMAIN n : n[k].tag = table[m].tag /\ n[k].via = ViaNode(table[m].born)
    BY <1>4
  <2>2. Len(t) + k \in DOMAIN outs /\ outs[Len(t) + k] = n[k]
    BY <1>10, <1>13
  <2> QED BY <2>1, <2>2
<1>19. ASSUME NEW k \in DOMAIN T.rules PROVE HasTag(outs, T.rules[k].out)
  <2>1. PICK a \in DOMAIN t : t[a].tag = T.rules[k].out
    BY <1>6 DEF HasTag
  <2>2. a \in DOMAIN outs /\ outs[a] = t[a]
    BY <1>10, <1>13
  <2> QED BY <2>1, <2>2 DEF HasTag
<1> QED BY <1>13, <1>14, <1>15, <1>16, <1>17, <1>18, <1>19 DEF outs, table

(* Metering adds copies of the first outbound, under tags of their own. *)
LEMMA MeterOutlets ==
  ASSUME NEW outs, Outlets(outs), 1 \in DOMAIN outs, \A e : ~HasTag(outs, MeterTag(e)),
         NEW entries, IsFiniteSet(entries), entries \subseteq Nat \X (Domains \cup Addresses)
  PROVE  LET all == AppendMeterOutbounds(outs, entries)
         IN  /\ Outlets(all) /\ Head(all) = outs[1]
             /\ \A a \in DOMAIN outs : a \in DOMAIN all /\ all[a] = outs[a]
             /\ \A e \in entries : \E k \in DOMAIN all :
                  all[k].tag = MeterTag(e) /\ all[k].via = outs[1].via
<1> DEFINE l == SetToSeq(entries)
           first == outs[1]
           copy(e) == [first EXCEPT !.tag = MeterTag(e)]
           m == [k \in DOMAIN l |-> copy(l[k])]
           all == AppendMeterOutbounds(outs, entries)
<1>1. IsList(outs) /\ first = Head(outs) /\ DOMAIN first = {"tag", "via"} /\ first.via # <<>>
  BY DEF Outlets, IsList
<1>2. all = outs \o m
  BY <1>1 DEF AppendMeterOutbounds
<1>3. /\ IsList(l) /\ ToSet(l) = entries
      /\ \A a, b \in DOMAIN l : l[a] = l[b] => a = b
  BY SetToSeqIs
<1> HIDE DEF l, first
<1>4. /\ Len(l) \in Nat /\ DOMAIN l = 1..Len(l)
      /\ \A k \in DOMAIN l : l[k] \in entries
      /\ \A e \in entries : \E k \in DOMAIN l : l[k] = e
  BY <1>3, ListIs
<1>5. \A e : /\ DOMAIN copy(e) = {"tag", "via"} /\ copy(e).tag = MeterTag(e) /\ copy(e).via = first.via
             /\ copy(e).via # <<>>
  BY <1>1
<1> HIDE DEF copy
<1>6. m \in [1..Len(l) -> {copy(e) : e \in entries}] /\ \A k \in DOMAIN l : m[k] = copy(l[k])
  BY <1>4
<1> HIDE DEF m
<1>7. IsList(m) /\ DOMAIN m = DOMAIN l
  BY <1>4, <1>6, AsList
<1>8. ASSUME NEW a \in DOMAIN m, NEW b \in DOMAIN m, m[a].tag = m[b].tag PROVE a = b
  <2>1. MeterTag(l[a]) = MeterTag(l[b])
    BY <1>5, <1>6, <1>7, <1>8
  <2>2. l[a][1] = l[b][1] /\ l[a][2] = l[b][2]
    BY <2>1, ReservedTags
  <2>3. l[a] \in Nat \X (Domains \cup Addresses) /\ l[b] \in Nat \X (Domains \cup Addresses)
    BY <1>4, <1>7
  <2>4. l[a] = l[b]
    BY <2>2, <2>3
  <2> QED BY <1>3, <1>7, <2>4
<1>9. Outlets(m)
  BY <1>5, <1>6, <1>7, <1>8 DEF Outlets
<1>10. \A a \in DOMAIN outs, k \in DOMAIN m : outs[a].tag # m[k].tag
  BY <1>5, <1>6, <1>7 DEF HasTag
<1> DEFINE x == outs \o m
<1>11. /\ Outlets(x) /\ Len(x) = Len(outs) + Len(m) /\ Len(outs) \in Nat /\ Len(m) \in Nat
       /\ \A a \in DOMAIN outs : a \in DOMAIN x /\ x[a] = outs[a]
       /\ \A k \in DOMAIN m : Len(outs) + k \in DOMAIN x /\ x[Len(outs) + k] = m[k]
  BY <1>9, <1>10, OutletsJoined
<1> HIDE DEF x
<1>12. Head(x) = first
  <2>1. IsList(x) /\ 1 \in DOMAIN x /\ x[1] = outs[1]
    BY <1>11 DEF Outlets
  <2> QED BY <2>1 DEF IsList, first
<1>13. \A e \in entries : \E k \in DOMAIN x : x[k].tag = MeterTag(e) /\ x[k].via = first.via
  <2> SUFFICES ASSUME NEW e \in entries PROVE \E k \in DOMAIN x : x[k].tag = MeterTag(e) /\ x[k].via = first.via
    OBVIOUS
  <2>1. PICK k \in DOMAIN l : l[k] = e
    BY <1>4
  <2>2. m[k].tag = MeterTag(e) /\ m[k].via = first.via
    BY <1>5, <1>6, <2>1
  <2>3. Len(outs) + k \in DOMAIN x /\ x[Len(outs) + k] = m[k]
    BY <1>7, <1>11
  <2> QED BY <2>2, <2>3
<1> QED BY <1>2, <1>11, <1>12, <1>13 DEF x, first, all

-----------------------------------------------------------------------------
(* What a core does, over both passes: the outbound it is told, if any. *)
Final(cfg, tag, t, source) ==
  LET one == Verdict(cfg.rules, Asking(tag, t, source, cfg.strategy = "IPOnDemand"))
  IN  IF one = {} /\ cfg.strategy = "IPIfNonMatch" THEN Verdict(cfg.rules, Asking(tag, t, source, TRUE)) ELSE one

(* A core sends a connection to the outbound its rules say, or to the first. *)
LEMMA CoreSays ==
  ASSUME NEW list, IsList(list), NEW outs, Outlets(outs),
         NEW cfg, cfg.rules = list, cfg.outbounds = outs, NEW tag, NEW t, NEW source
  PROVE  /\ Decider(cfg, tag, t, source) = 0 <=> Final(cfg, tag, t, source) = {}
         /\ Decider(cfg, tag, t, source) # 0 => Decider(cfg, tag, t, source) \in 1..Len(list)
         /\ Final(cfg, tag, t, source) = {} => Dispatch(cfg, tag, t, source) = Head(outs)
         /\ \A a \in DOMAIN outs :
              Final(cfg, tag, t, source) = {outs[a].tag} => Dispatch(cfg, tag, t, source) = outs[a]
<1> DEFINE d == Decider(cfg, tag, t, source)
           f == Final(cfg, tag, t, source)
           start == cfg.strategy = "IPOnDemand"
           again == cfg.strategy = "IPIfNonMatch"
           v(resolved) == Verdict(list, Asking(tag, t, source, resolved))
           p(resolved) == Pass(cfg, tag, t, source, resolved)
           L == Len(list)
<1>1. ASSUME NEW resolved
      PROVE  IF v(resolved) = {} THEN p(resolved) = 0
             ELSE p(resolved) \in 1..L /\ p(resolved) # 0 /\ v(resolved) = {list[p(resolved)].out}
  BY PassIs
<1>2. d = IF p(start) = 0 /\ again THEN p(TRUE) ELSE p(start)
  BY DEF Decider
<1>3. f = IF v(start) = {} /\ again THEN v(TRUE) ELSE v(start)
  BY DEF Final
<1> HIDE DEF d, f, v, p, start, again, L
<1>4. IF f = {} THEN d = 0 ELSE d \in 1..L /\ d # 0 /\ f = {list[d].out}
  <2>1. v(start) = {} <=> p(start) = 0
    BY <1>1
  <2> QED BY <1>1, <1>2, <1>3, <2>1
<1> DEFINE named == IF d = 0 THEN {} ELSE {a \in DOMAIN outs : outs[a].tag = list[d].out}
           out == Dispatch(cfg, tag, t, source)
<1>5. out = IF named = {} THEN Head(outs) ELSE outs[CHOOSE a \in named : TRUE]
  BY DEF Dispatch, d
<1> HIDE DEF out
<1>6. f = {} => out = Head(outs)
  BY <1>4, <1>5
<1>7. ASSUME NEW a \in DOMAIN outs, f = {outs[a].tag} PROVE out = outs[a]
  <2>1. d # 0 /\ list[d].out = outs[a].tag
    BY <1>4, <1>7
  <2>2. named = {a}
    BY <2>1 DEF Outlets
  <2> HIDE DEF named
  <2>3. out = outs[CHOOSE b \in {a} : TRUE]
    BY <1>5, <2>2
  <2> QED BY <2>3
<1>8. /\ d = 0 <=> f = {}
      /\ d # 0 => d \in 1..L
  BY <1>4
<1> QED BY <1>6, <1>7, <1>8 DEF f, d, out, L

-----------------------------------------------------------------------------
(***************************************************************************)
(* What the rules decide: in one pass, and in the end.  The template comes *)
(* first, then denials by region and blocks, then the foremost of the      *)
(* other rules.                                                            *)
(***************************************************************************)
Ruling(T, R, i, t, source, resolved) ==
  LET own == Verdict(T.rules, Asked(R, i, t, source, resolved))
      routes == Reachers({"proxy", "direct"}, T, R, i, t, resolved)
  IN  IF own # {} THEN own
      ELSE IF Denied(R, i, source) \/ Reachers({"block"}, T, R, i, t, resolved) # {} THEN {BlockTag}
      ELSE IF routes = {} THEN {} ELSE {Exit(T, R, Foremost(routes, R.rules))}
Decision(T, R, i, t, source) ==
  LET one == Ruling(T, R, i, t, source, Strategy(T) = "IPOnDemand")
  IN  IF one = {} /\ Strategy(T) = "IPIfNonMatch" THEN Ruling(T, R, i, t, source, TRUE) ELSE one

LiveRules(T, R, guard) ==
  T.rules \o BuildGeoRules(R.regions) \o BuildRules({"block"}, T, R) \o BuildRules({"proxy", "direct"}, T, R)
    \o BuildMeterRules(R.pool, R.tags, guard)
Entries(R) == \A e \in R.pool : e[1] \in DOMAIN R.tags

(* Five lists, asked one after the other. *)
LEMMA JoinedFive ==
  ASSUME NEW a, IsList(a), NEW b, IsList(b), NEW c, IsList(c), NEW d, IsList(d), NEW e, IsList(e), NEW q
  PROVE  LET list == a \o b \o c \o d \o e
         IN  /\ IsList(list) /\ ToSet(list) = ToSet(a) \cup ToSet(b) \cup ToSet(c) \cup ToSet(d) \cup ToSet(e)
             /\ Verdict(list, q) = IF Verdict(a, q) # {} THEN Verdict(a, q)
                                   ELSE IF Verdict(b, q) # {} THEN Verdict(b, q)
                                   ELSE IF Verdict(c, q) # {} THEN Verdict(c, q)
                                   ELSE IF Verdict(d, q) # {} THEN Verdict(d, q)
                                   ELSE Verdict(e, q)
<1> DEFINE ab == a \o b
<1>1. /\ IsList(ab) /\ ToSet(ab) = ToSet(a) \cup ToSet(b)
      /\ Verdict(ab, q) = IF Verdict(a, q) = {} THEN Verdict(b, q) ELSE Verdict(a, q)
  BY VerdictJoined
<1> HIDE DEF ab
<1> DEFINE abc == ab \o c
<1>2. /\ IsList(abc) /\ ToSet(abc) = ToSet(ab) \cup ToSet(c)
      /\ Verdict(abc, q) = IF Verdict(ab, q) = {} THEN Verdict(c, q) ELSE Verdict(ab, q)
  BY <1>1, VerdictJoined
<1> HIDE DEF abc
<1> DEFINE abcd == abc \o d
<1>3. /\ IsList(abcd) /\ ToSet(abcd) = ToSet(abc) \cup ToSet(d)
      /\ Verdict(abcd, q) = IF Verdict(abc, q) = {} THEN Verdict(d, q) ELSE Verdict(abc, q)
  BY <1>2, VerdictJoined
<1> HIDE DEF abcd
<1> DEFINE list == abcd \o e
<1>4. /\ IsList(list) /\ ToSet(list) = ToSet(abcd) \cup ToSet(e)
      /\ Verdict(list, q) = IF Verdict(abcd, q) = {} THEN Verdict(e, q) ELSE Verdict(abcd, q)
  BY <1>3, VerdictJoined
<1> HIDE DEF list
<1>5. ToSet(list) = ToSet(a) \cup ToSet(b) \cup ToSet(c) \cup ToSet(d) \cup ToSet(e)
  BY <1>1, <1>2, <1>3, <1>4
<1>6. Verdict(list, q) = IF Verdict(a, q) # {} THEN Verdict(a, q)
                         ELSE IF Verdict(b, q) # {} THEN Verdict(b, q)
                         ELSE IF Verdict(c, q) # {} THEN Verdict(c, q)
                         ELSE IF Verdict(d, q) # {} THEN Verdict(d, q)
                         ELSE Verdict(e, q)
  BY <1>1, <1>2, <1>3, <1>4
<1> QED BY <1>4, <1>5, <1>6 DEF list, abcd, abc, ab

(* One pass. *)
LEMMA LiveRulesSay ==
  ASSUME NEW T, NEW R, Given(T, R), Entries(R), NEW guard \in BOOLEAN,
         NEW i \in DOMAIN R.tags, NEW t \in Targets, NEW source, NEW resolved
  PROVE  /\ IsList(LiveRules(T, R, guard))
         /\ Verdict(LiveRules(T, R, guard), Asked(R, i, t, source, resolved))
              = IF Ruling(T, R, i, t, source, resolved) # {} THEN Ruling(T, R, i, t, source, resolved)
                ELSE Verdict(BuildMeterRules(R.pool, R.tags, guard), Asked(R, i, t, source, resolved))
<1> DEFINE q == Asked(R, i, t, source, resolved)
           a == T.rules
           b == BuildGeoRules(R.regions)
           c == BuildRules({"block"}, T, R)
           d == BuildRules({"proxy", "direct"}, T, R)
           e == BuildMeterRules(R.pool, R.tags, guard)
           blocks == Reachers({"block"}, T, R, i, t, resolved)
           routes == Reachers({"proxy", "direct"}, T, R, i, t, resolved)
           ruling == Ruling(T, R, i, t, source, resolved)
<1>1. IsList(a)
  BY DEF Given, TemplateHolds
<1>2. IsList(b) /\ Verdict(b, q) = IF Denied(R, i, source) THEN {BlockTag} ELSE {}
  BY GeoSays DEF Given
<1>3. IsList(c) /\ Verdict(c, q) = IF blocks = {} THEN {} ELSE {BlockTag}
  BY BlocksSay
<1>4. /\ IsList(d)
      /\ routes = {} => Verdict(d, q) = {}
      /\ routes # {} => Verdict(d, q) = {Exit(T, R, Foremost(routes, R.rules))}
  <2> DEFINE acts == {"proxy", "direct"}
             l == BuildRules(acts, T, R)
             reach == Reachers(acts, T, R, i, t, resolved)
  <2> HIDE DEF acts
  <2>1. IsList(l) /\ RuledBy(Verdict(l, q), reach, T, R)
    BY RulesSay
  <2> HIDE DEF l, reach, q
  <2>2. /\ IsList(l)
        /\ reach = {} => Verdict(l, q) = {}
        /\ reach # {} => Verdict(l, q) = {Exit(T, R, Foremost(reach, R.rules))}
    BY <2>1 DEF RuledBy
  <2> QED BY <2>2 DEF l, reach, acts
<1>5. IsList(e)
  BY MeterSays DEF Given, Entries, Measures
<1>6. ruling = IF Verdict(a, q) # {} THEN Verdict(a, q)
               ELSE IF Denied(R, i, source) \/ blocks # {} THEN {BlockTag}
               ELSE IF routes = {} THEN {} ELSE {Exit(T, R, Foremost(routes, R.rules))}
  BY DEF Ruling
<1> DEFINE list == LiveRules(T, R, guard)
<1>7. list = a \o b \o c \o d \o e
  BY DEF LiveRules
<1> HIDE DEF q, a, b, c, d, e, blocks, routes, ruling, list
<1> DEFINE joined == a \o b \o c \o d \o e
<1>8. /\ IsList(joined)
      /\ Verdict(joined, q) = IF Verdict(a, q) # {} THEN Verdict(a, q)
                              ELSE IF Verdict(b, q) # {} THEN Verdict(b, q)
                              ELSE IF Verdict(c, q) # {} THEN Verdict(c, q)
                              ELSE IF Verdict(d, q) # {} THEN Verdict(d, q)
                              ELSE Verdict(e, q)
  <2>1. IsList(a) /\ IsList(b) /\ IsList(c) /\ IsList(d) /\ IsList(e)
    BY <1>1, <1>2, <1>3, <1>4, <1>5
  <2>2. IsList(a \o b \o c \o d \o e)
    BY <2>1, JoinedFive
  <2>3. Verdict(a \o b \o c \o d \o e, q)
          = IF Verdict(a, q) # {} THEN Verdict(a, q)
            ELSE IF Verdict(b, q) # {} THEN Verdict(b, q)
            ELSE IF Verdict(c, q) # {} THEN Verdict(c, q)
            ELSE IF Verdict(d, q) # {} THEN Verdict(d, q)
            ELSE Verdict(e, q)
    BY <2>1, JoinedFive
  <2> QED BY <2>2, <2>3
<1>9. list = joined
  BY <1>7
<1> HIDE DEF joined
<1>10. Verdict(joined, q) = IF ruling # {} THEN ruling ELSE Verdict(e, q)
  <2> DEFINE way == {Exit(T, R, Foremost(routes, R.rules))}
  <2>1. way # {}
    OBVIOUS
  <2> HIDE DEF way
  <2>2. ruling = IF Verdict(a, q) # {} THEN Verdict(a, q)
                 ELSE IF Denied(R, i, source) \/ blocks # {} THEN {BlockTag}
                 ELSE IF routes = {} THEN {} ELSE way
    BY <1>6 DEF way
  <2>3. Verdict(d, q) = IF routes = {} THEN {} ELSE way
    BY <1>4 DEF way
  <2> QED BY <1>2, <1>3, <1>8, <2>1, <2>2, <2>3
<1> QED BY <1>8, <1>9, <1>10 DEF list, ruling, e, q

(* For a target without a name both passes are one. *)
LEMMA OnePass ==
  ASSUME NEW T, NEW R, NEW i, NEW t, t.name = {}, NEW source, NEW x, NEW y
  PROVE  Ruling(T, R, i, t, source, x) = Ruling(T, R, i, t, source, y)
<1> DEFINE p == Asked(R, i, t, source, x)
           q == Asked(R, i, t, source, y)
<1>1. \A rule : Fits(rule, p) <=> Fits(rule, q)
  BY DEF Fits, Matches, Asked, Asking
<1> HIDE DEF p, q
<1>2. Verdict(T.rules, p) = Verdict(T.rules, q)
  <2> DEFINE list == T.rules
  <2> HIDE DEF list
  <2>1. Firsts(list, p) = Firsts(list, q)
    BY <1>1 DEF Firsts
  <2>2. Verdict(list, p) = Verdict(list, q)
    BY <2>1 DEF Verdict
  <2> QED BY <2>2 DEF list
<1>3. \A r : Reach(R.rules[r], t, x, R.groups) <=> Reach(R.rules[r], t, y, R.groups)
  BY DEF Reach
<1>4. \A acts : Reachers(acts, T, R, i, t, x) = Reachers(acts, T, R, i, t, y)
  BY <1>3 DEF Reachers
<1>5. Reachers({"block"}, T, R, i, t, x) = Reachers({"block"}, T, R, i, t, y)
  BY <1>4
<1>6. Reachers({"proxy", "direct"}, T, R, i, t, x) = Reachers({"proxy", "direct"}, T, R, i, t, y)
  BY <1>4
<1> QED BY <1>2, <1>5, <1>6, Zenon DEF Ruling, p, q

Guard(T) == MeterRuleNeedsIPGuard(Strategy(T))

(* Both passes.  Metering comes after every decision and keeps none from being   *)
(* taken: under IPIfNonMatch a connection with a name is not measured before the *)
(* second pass.                                                                  *)
LEMMA FinalSays ==
  ASSUME NEW T, NEW R, Given(T, R), Entries(R), NEW i \in DOMAIN R.tags, NEW t \in Targets, NEW source,
         NEW cfg, cfg.rules = LiveRules(T, R, Guard(T)), cfg.strategy = Strategy(T)
  PROVE  /\ Decision(T, R, i, t, source) # {} => Final(cfg, R.tags[i], t, source) = Decision(T, R, i, t, source)
         /\ Decision(T, R, i, t, source) = {} /\ Final(cfg, R.tags[i], t, source) # {} =>
              \E e \in R.pool : Final(cfg, R.tags[i], t, source) = {MeterTag(e)}
         /\ Decision(T, R, i, t, source) = {} => \A x \in Own(t) :
              <<i, x>> \in R.pool => Final(cfg, R.tags[i], t, source) = {MeterTag(<<i, x>>)}
<1> DEFINE list == LiveRules(T, R, Guard(T))
           meters == BuildMeterRules(R.pool, R.tags, Guard(T))
           f == Final(cfg, R.tags[i], t, source)
           D == Decision(T, R, i, t, source)
           v(resolved) == Verdict(list, Asked(R, i, t, source, resolved))
           a(resolved) == Ruling(T, R, i, t, source, resolved)
           m(resolved) == Verdict(meters, Asked(R, i, t, source, resolved))
           start == Strategy(T) = "IPOnDemand"
           again == Strategy(T) = "IPIfNonMatch"
<1>1. f = IF v(start) = {} /\ again THEN v(TRUE) ELSE v(start)
  BY DEF Final, Asked
<1>2. D = IF a(start) = {} /\ again THEN a(TRUE) ELSE a(start)
  BY DEF Decision
<1>3. Guard(T) \in BOOLEAN /\ (Guard(T) <=> start \/ again) /\ start \in BOOLEAN /\ ~(start /\ again)
  BY DEF Guard, MeterRuleNeedsIPGuard
<1>4. ASSUME NEW resolved PROVE v(resolved) = IF a(resolved) # {} THEN a(resolved) ELSE m(resolved)
  BY <1>3, LiveRulesSay
<1>5. ASSUME NEW resolved
      PROVE  /\ Guard(T) /\ ~resolved /\ m(resolved) # {} => t.name = {}
             /\ \A x \in Own(t) :
                  <<i, x>> \in R.pool /\ (Guard(T) => resolved \/ t.name = {}) => m(resolved) = {MeterTag(<<i, x>>)}
             /\ m(resolved) # {} => \E e \in R.pool : m(resolved) = {MeterTag(e)}
  <2> DEFINE tags == R.tags
             entries == R.pool
             guard == Guard(T)
             q == Asking(tags[i], t, source, resolved)
  <2>1. /\ IsFiniteSet(entries) /\ entries \subseteq Nat \X (Domains \cup Addresses)
        /\ \A x, y \in DOMAIN tags : tags[x] = tags[y] => x = y
        /\ \A e \in entries : e[1] \in DOMAIN tags
        /\ i \in DOMAIN tags /\ guard \in BOOLEAN
    BY <1>3 DEF Given, Entries
  <2> HIDE DEF tags, entries, guard
  <2> DEFINE l == BuildMeterRules(entries, tags, guard)
             w == Verdict(l, q)
  <2>2. /\ IsList(l)
        /\ \A rule \in ToSet(l) : \E e \in entries : rule.out = MeterTag(e)
        /\ guard /\ ~resolved /\ w # {} => t.name = {}
        /\ \A x \in Own(t) :
             <<i, x>> \in entries /\ (guard => resolved \/ t.name = {}) => w = {MeterTag(<<i, x>>)}
    <3>1. Measures(l, w, entries, i, t, guard, resolved)
      BY <2>1, MeterSays
    <3> HIDE DEF l, w
    <3> QED BY <3>1 DEF Measures
  <2> HIDE DEF l, q
  <2>3. ASSUME w # {} PROVE \E e \in entries : w = {MeterTag(e)}
    <3>1. PICK n \in Firsts(l, q) : TRUE
      BY <2>3 DEF Verdict
    <3>2. w = {l[n].out} /\ n \in 1..Len(l)
      BY <2>2, <3>1, VerdictIs DEF Firsts
    <3>3. l[n] \in ToSet(l)
      BY <2>2, <3>2, ListIs
    <3> QED BY <2>2, <3>2, <3>3
  <2>4. m(resolved) = w
    BY DEF l, q, tags, entries, guard, Asked
  <2> HIDE DEF w, m
  <2> QED BY <2>2, <2>3, <2>4 DEF entries, guard
<1>6. t.name = {} => a(start) = a(TRUE)
  BY OnePass
<1> HIDE DEF f, D, v, a, m, start, again, list, meters
<1>7. ASSUME D # {} PROVE f = D
  <2>1. CASE a(start) # {}
    <3>1. v(start) = a(start)
      BY <1>4, <2>1
    <3> QED BY <1>1, <1>2, <2>1, <3>1
  <2>2. CASE a(start) = {}
    <3>1. again /\ D = a(TRUE) /\ ~start /\ Guard(T)
      BY <1>2, <1>3, <1>7, <2>2
    <3>2. v(start) = m(start) /\ v(TRUE) = a(TRUE)
      BY <1>4, <1>7, <2>2, <3>1
    <3>3. m(start) = {}
      <4> SUFFICES ASSUME m(start) # {} PROVE FALSE
        OBVIOUS
      <4>1. t.name = {}
        BY <1>5, <3>1
      <4> QED BY <1>6, <1>7, <2>2, <3>1, <4>1
    <3> QED BY <1>1, <3>1, <3>2, <3>3
  <2> QED BY <2>1, <2>2
<1>8. ASSUME D = {} PROVE a(start) = {} /\ v(start) = m(start) /\ (again => v(TRUE) = m(TRUE))
  <2>1. a(start) = {}
    BY <1>2, <1>8
  <2>2. again => a(TRUE) = {}
    BY <1>2, <1>8, <2>1
  <2> QED BY <1>4, <2>1, <2>2
<1>9. ASSUME D = {}, f # {} PROVE \E e \in R.pool : f = {MeterTag(e)}
  BY <1>1, <1>5, <1>8, <1>9
<1>10. ASSUME D = {}, NEW x \in Own(t), <<i, x>> \in R.pool PROVE f = {MeterTag(<<i, x>>)}
  <2>1. CASE ~again
    <3>1. Guard(T) => start
      BY <1>3, <2>1
    <3>2. m(start) = {MeterTag(<<i, x>>)}
      BY <1>5, <1>10, <3>1
    <3> QED BY <1>1, <1>8, <1>10, <2>1, <3>2
  <2>2. CASE again /\ t.name = {}
    <3>1. m(start) = {MeterTag(<<i, x>>)}
      BY <1>5, <1>10, <2>2
    <3> QED BY <1>1, <1>8, <1>10, <3>1
  <2>3. CASE again /\ t.name # {}
    <3>1. m(start) = {}
      BY <1>3, <1>5, <2>3
    <3>2. m(TRUE) = {MeterTag(<<i, x>>)}
      BY <1>5, <1>10
    <3> QED BY <1>1, <1>8, <1>10, <2>3, <3>1, <3>2
  <2> QED BY <2>1, <2>2, <2>3
<1> QED BY <1>7, <1>9, <1>10 DEF f, D

(* The parts of an injected configuration. *)
LEMMA InjectIs ==
  ASSUME NEW T, NEW G
  PROVE  /\ Inject(T, G).rules = LiveRules(T, Live(G), Guard(T))
         /\ Inject(T, G).strategy = Strategy(T)
         /\ Inject(T, G).outbounds = AppendMeterOutbounds(BuildOutbounds(T, G.nodes), Live(G).pool)
         /\ Entries(Live(G))
         /\ Live(G).nodes = G.nodes /\ Live(G).rules = G.rules /\ Live(G).groups = G.groups
         /\ Live(G).regions = G.regions /\ Live(G).tags = G.tags
         /\ Live(G).pool = FilterMeterPool(G.pool, G.tags)
<1> DEFINE R == Live(G)
<1>1. /\ R.nodes = G.nodes /\ R.rules = G.rules /\ R.groups = G.groups
      /\ R.regions = G.regions /\ R.tags = G.tags /\ R.pool = FilterMeterPool(G.pool, G.tags)
  BY DEF Live
<1>2. Entries(R)
  BY <1>1 DEF Entries, FilterMeterPool
<1> HIDE DEF R
<1>3. /\ Inject(T, G).rules = LiveRules(T, R, Guard(T))
      /\ Inject(T, G).strategy = Strategy(T)
      /\ Inject(T, G).outbounds = AppendMeterOutbounds(BuildOutbounds(T, R.nodes), R.pool)
  BY DEF Inject, LiveRules, Guard, R
<1> QED BY <1>1, <1>2, <1>3 DEF R

Routes(T, R, i, t, resolved) == Reachers({"proxy", "direct"}, T, R, i, t, resolved)
Blocks(T, R, i, t, resolved) == Reachers({"block"}, T, R, i, t, resolved)
WayOf(T, R, r) ==
  IF R.rules[r].action = "direct" THEN BuildOutbounds(T, R.nodes)[1].via ELSE ViaNode(R.nodes[R.rules[r].node].born)
Lands(v, outs, via) == \E a \in DOMAIN outs : v = {outs[a].tag} /\ outs[a].via = via

(* A rule that can be served leads to an outbound that is there, and that      *)
(* leaves by the way the rule names.                                           *)
LEMMA RouteLands ==
  ASSUME NEW T, NEW R, Given(T, R), NEW r, R.rules[r].action \in {"proxy", "direct"}, Served(R.rules[r], T, R)
  PROVE  Lands({Exit(T, R, r)}, BuildOutbounds(T, R.nodes), WayOf(T, R, r))
<1> DEFINE outs == BuildOutbounds(T, R.nodes)
           row == R.rules[r]
<1>1. row.action \in {"proxy", "direct"} /\ Served(row, T, R)
  OBVIOUS
<1>2. /\ 1 \in DOMAIN outs
      /\ T.outbounds # <<>> => outs[1].tag = DefaultOutboundTag(T.outbounds)
      /\ \A n \in Usable(R.nodes) : \E a \in DOMAIN outs :
           outs[a].tag = R.nodes[n].tag /\ outs[a].via = ViaNode(R.nodes[n].born)
  BY BuiltOutlets
<1> HIDE DEF outs
<1>3. CASE row.action = "direct"
  <2>1. Exit(T, R, r) = DefaultOutboundTag(T.outbounds)
    BY <1>3, OutboundIs, Zenon DEF Exit
  <2>2. T.outbounds # <<>>
    BY <1>1, <1>3 DEF Served
  <2>3. {Exit(T, R, r)} = {outs[1].tag}
    BY <1>2, <2>1, <2>2
  <2>4. WayOf(T, R, r) = outs[1].via
    BY <1>3 DEF WayOf, outs
  <2> QED BY <1>2, <2>3, <2>4 DEF Lands, outs
<1>4. CASE row.action = "proxy"
  <2> DEFINE n == row.node
  <2>1. n \in Usable(R.nodes)
    BY <1>1, <1>4 DEF Served
  <2>2. n \in DOMAIN R.nodes
    BY <2>1 DEF Usable
  <2>3. Exit(T, R, r) = R.nodes[n].tag
    BY <1>4, <2>2, OutboundIs, Zenon DEF Exit
  <2>4. row.action # "direct"
    BY <1>4
  <2>5. WayOf(T, R, r) = ViaNode(R.nodes[n].born)
    BY <2>4, Zenon DEF WayOf
  <2>6. PICK a \in DOMAIN outs : outs[a].tag = R.nodes[n].tag /\ outs[a].via = ViaNode(R.nodes[n].born)
    BY <1>2, <2>1
  <2>7. {Exit(T, R, r)} = {outs[a].tag} /\ outs[a].via = WayOf(T, R, r)
    BY <2>3, <2>5, <2>6
  <2> QED BY <2>7 DEF Lands, outs
<1> QED BY <1>1, <1>3, <1>4

(* Where a ruling leads. *)
Settled(T, R, i, t, source, resolved) ==
  LET own == Verdict(T.rules, Asked(R, i, t, source, resolved))
      outs == BuildOutbounds(T, R.nodes)
      routes == Routes(T, R, i, t, resolved)
      ruling == Ruling(T, R, i, t, source, resolved)
      denied == Denied(R, i, source) \/ Blocks(T, R, i, t, resolved) # {}
      first == Foremost(routes, R.rules)
  IN  /\ own # {} => ruling = own /\ \E via : Lands(ruling, outs, via)
      /\ own = {} /\ denied => Lands(ruling, outs, Blackhole)
      /\ own = {} /\ ~denied /\ routes = {} => ruling = {}
      /\ own = {} /\ ~denied /\ routes # {} => first \in routes /\ Lands(ruling, outs, WayOf(T, R, first))

(* What is ruled leads to an outbound that is there. *)
LEMMA RulingLands ==
  ASSUME NEW T, NEW R, Given(T, R), NEW i \in DOMAIN R.tags, NEW t, NEW source, NEW resolved
  PROVE  Settled(T, R, i, t, source, resolved)
<1> DEFINE own == Verdict(T.rules, Asked(R, i, t, source, resolved))
           outs == BuildOutbounds(T, R.nodes)
           routes == Routes(T, R, i, t, resolved)
           ruling == Ruling(T, R, i, t, source, resolved)
           denied == Denied(R, i, source) \/ Blocks(T, R, i, t, resolved) # {}
           first == Foremost(routes, R.rules)
<1>1. ruling = IF own # {} THEN own ELSE IF denied THEN {BlockTag}
               ELSE IF routes = {} THEN {} ELSE {Exit(T, R, first)}
  BY DEF Ruling, Routes, Blocks
<1>2. /\ \E a \in DOMAIN outs : outs[a].tag = BlockTag /\ outs[a].via = Blackhole
      /\ \A k \in DOMAIN T.rules : HasTag(outs, T.rules[k].out)
  BY BuiltOutlets
<1>3. ASSUME own # {} PROVE \E via : Lands(own, outs, via)
  <2> DEFINE list == T.rules
             q == Asked(R, i, t, source, resolved)
  <2>1. IsList(list)
    BY DEF Given, TemplateHolds
  <2> HIDE DEF list, q, outs
  <2>2. PICK n \in Firsts(list, q) : TRUE
    BY <1>3 DEF Verdict, list, q
  <2>3. Verdict(list, q) = {list[n].out} /\ n \in 1..Len(list)
    BY <2>1, VerdictIs DEF Firsts
  <2>4. n \in DOMAIN list
    BY <2>1, <2>3, ListIs
  <2>5. PICK a \in DOMAIN outs : outs[a].tag = list[n].out
    BY <1>2, <2>4 DEF HasTag, list
  <2>6. Lands(Verdict(list, q), outs, outs[a].via)
    BY <2>3, <2>5 DEF Lands
  <2> QED BY <2>6 DEF list, q
<1>4. Lands({BlockTag}, outs, Blackhole)
  BY <1>2 DEF Lands
<1>5. ASSUME routes # {} PROVE first \in routes
  <2> DEFINE acts == {"proxy", "direct"}
             reach == Reachers(acts, T, R, i, t, resolved)
             l == BuildRules(acts, T, R)
             q == Asked(R, i, t, source, resolved)
  <2> HIDE DEF acts
  <2>1. RuledBy(Verdict(l, q), reach, T, R)
    BY RulesSay
  <2>2. reach = routes
    BY DEF acts, Routes
  <2> HIDE DEF reach
  <2> QED BY <1>5, <2>1, <2>2 DEF RuledBy
<1>6. ASSUME routes # {} PROVE Lands({Exit(T, R, first)}, outs, WayOf(T, R, first))
  <2>1. first \in routes
    BY <1>5, <1>6
  <2> HIDE DEF first
  <2>2. R.rules[first].action \in {"proxy", "direct"} /\ Served(R.rules[first], T, R)
    BY <2>1 DEF Routes, Reachers
  <2> QED BY <2>2, RouteLands
<1> HIDE DEF own, outs, routes, ruling, denied, first
<1>7. /\ own # {} => ruling = own /\ \E via : Lands(ruling, outs, via)
      /\ own = {} /\ denied => Lands(ruling, outs, Blackhole)
      /\ own = {} /\ ~denied /\ routes = {} => ruling = {}
      /\ own = {} /\ ~denied /\ routes # {} => first \in routes /\ Lands(ruling, outs, WayOf(T, R, first))
  BY <1>1, <1>3, <1>4, <1>5, <1>6
<1> QED BY <1>7 DEF own, outs, routes, ruling, denied, first, Settled

(* So does what is decided. *)
LEMMA DecisionLands ==
  ASSUME NEW T, NEW R, Given(T, R), NEW i \in DOMAIN R.tags, NEW t, NEW source
  PROVE  \/ Decision(T, R, i, t, source) = {}
         \/ \E a \in DOMAIN BuildOutbounds(T, R.nodes) :
              Decision(T, R, i, t, source) = {BuildOutbounds(T, R.nodes)[a].tag}
<1> DEFINE outs == BuildOutbounds(T, R.nodes)
           start == Strategy(T) = "IPOnDemand"
           ruling(resolved) == Ruling(T, R, i, t, source, resolved)
           D == Decision(T, R, i, t, source)
<1>1. ASSUME NEW resolved, ruling(resolved) # {} PROVE \E via : Lands(ruling(resolved), outs, via)
  <2> DEFINE v == ruling(resolved)
             own == Verdict(T.rules, Asked(R, i, t, source, resolved))
             denied == Denied(R, i, source) \/ Blocks(T, R, i, t, resolved) # {}
             routes == Routes(T, R, i, t, resolved)
             way == WayOf(T, R, Foremost(routes, R.rules))
  <2>1. Settled(T, R, i, t, source, resolved)
    BY RulingLands
  <2>2. /\ own # {} => \E via : Lands(v, outs, via)
        /\ own = {} /\ denied => Lands(v, outs, Blackhole)
        /\ own = {} /\ ~denied /\ routes = {} => v = {}
        /\ own = {} /\ ~denied /\ routes # {} => Lands(v, outs, way)
    BY <2>1 DEF Settled
  <2>3. v # {}
    BY <1>1
  <2> HIDE DEF v, own, outs, denied, routes, way
  <2>4. \E via : Lands(v, outs, via)
    BY <2>2, <2>3
  <2> QED BY <2>4 DEF v
<1>2. D = ruling(start) \/ D = ruling(TRUE)
  BY DEF Decision
<1> HIDE DEF outs, start, ruling, D
<1>3. D # {} => \E via : Lands(D, outs, via)
  BY <1>1, <1>2
<1>4. D = {} \/ \E a \in DOMAIN outs : D = {outs[a].tag}
  BY <1>3 DEF Lands
<1> QED BY <1>4 DEF D, outs

(* What a core does with an injected configuration. *)
Delivers(out, decider, D, outs, G, i, t) ==
  /\ D = {} => out.via = outs[1].via
  /\ \A via : Lands(D, outs, via) => out.via = via
  /\ \A a \in DOMAIN outs : D = {outs[a].tag} => out = outs[a]
  /\ D = {} => \A x \in Own(t) : <<i, x>> \in G.pool => out.tag = MeterTag(<<i, x>>)
  /\ D # {} => decider # 0
  /\ D = {} /\ G.pool = {} => decider = 0

(* The outbounds with those of metering: tags come once, the first stays the   *)
(* first.                                                                      *)
LEMMA GivenOutlets ==
  ASSUME NEW T, NEW R, Given(T, R)
  PROVE  LET outs == BuildOutbounds(T, R.nodes)
             all == AppendMeterOutbounds(outs, R.pool)
         IN  /\ Outlets(outs) /\ 1 \in DOMAIN outs
             /\ Outlets(all) /\ Head(all) = outs[1]
             /\ \A a \in DOMAIN outs : a \in DOMAIN all /\ all[a] = outs[a]
             /\ \A e \in R.pool : \E k \in DOMAIN all : all[k].tag = MeterTag(e) /\ all[k].via = outs[1].via
<1> DEFINE outs == BuildOutbounds(T, R.nodes)
           entries == R.pool
           all == AppendMeterOutbounds(outs, entries)
<1>1. Outlets(outs) /\ 1 \in DOMAIN outs /\ \A e : ~HasTag(outs, MeterTag(e))
  BY BuiltOutlets
<1>2. IsFiniteSet(entries) /\ entries \subseteq Nat \X (Domains \cup Addresses)
  BY DEF Given
<1> HIDE DEF outs, entries
<1>3. /\ Outlets(all) /\ Head(all) = outs[1]
      /\ \A a \in DOMAIN outs : a \in DOMAIN all /\ all[a] = outs[a]
      /\ \A e \in entries : \E k \in DOMAIN all : all[k].tag = MeterTag(e) /\ all[k].via = outs[1].via
  BY <1>1, <1>2, MeterOutlets
<1> HIDE DEF all
<1> QED BY <1>1, <1>3 DEF outs, entries, all

(* A core with an injected configuration does what is decided. *)
LEMMA DispatchSays ==
  ASSUME NEW T, NEW G, Given(T, Live(G)), NEW i \in DOMAIN G.tags, NEW t \in Targets, NEW source
  PROVE  Delivers(Dispatch(Inject(T, G), G.tags[i], t, source), Decider(Inject(T, G), G.tags[i], t, source),
                  Decision(T, Live(G), i, t, source), BuildOutbounds(T, G.nodes), G, i, t)
<1> DEFINE R == Live(G)
           cfg == Inject(T, G)
           tag == G.tags[i]
           out == Dispatch(cfg, tag, t, source)
           decider == Decider(cfg, tag, t, source)
           D == Decision(T, R, i, t, source)
           f == Final(cfg, tag, t, source)
           outs == BuildOutbounds(T, G.nodes)
           all == AppendMeterOutbounds(outs, R.pool)
           list == LiveRules(T, R, Guard(T))
<1>1. /\ cfg.rules = list /\ cfg.strategy = Strategy(T) /\ cfg.outbounds = all /\ Entries(R)
      /\ R.nodes = G.nodes /\ R.tags = G.tags /\ R.pool = FilterMeterPool(G.pool, G.tags)
  BY InjectIs
<1>2. /\ Outlets(outs) /\ 1 \in DOMAIN outs
      /\ Outlets(all) /\ Head(all) = outs[1]
      /\ \A a \in DOMAIN outs : a \in DOMAIN all /\ all[a] = outs[a]
      /\ \A e \in R.pool : \E k \in DOMAIN all : all[k].tag = MeterTag(e) /\ all[k].via = outs[1].via
  <2> DEFINE o == BuildOutbounds(T, R.nodes)
             l == AppendMeterOutbounds(o, R.pool)
  <2>1. /\ Outlets(o) /\ 1 \in DOMAIN o
        /\ Outlets(l) /\ Head(l) = o[1]
        /\ \A a \in DOMAIN o : a \in DOMAIN l /\ l[a] = o[a]
        /\ \A e \in R.pool : \E k \in DOMAIN l : l[k].tag = MeterTag(e) /\ l[k].via = o[1].via
    BY GivenOutlets
  <2>2. o = outs /\ l = all
    BY <1>1
  <2> HIDE DEF o, l, outs, all
  <2> QED BY <2>1, <2>2
<1> HIDE DEF cfg, all, outs, list
<1>3. IsList(list)
  <2>1. i \in DOMAIN R.tags /\ Guard(T) \in BOOLEAN
    BY <1>1 DEF Guard, MeterRuleNeedsIPGuard
  <2> HIDE DEF R
  <2> QED BY <1>1, <2>1, LiveRulesSay DEF list, R
<1>4. /\ decider = 0 <=> f = {}
      /\ f = {} => out = Head(all)
      /\ \A a \in DOMAIN all : f = {all[a].tag} => out = all[a]
  BY <1>1, <1>2, <1>3, CoreSays
<1>5. /\ D # {} => f = D
      /\ D = {} /\ f # {} => \E e \in R.pool : f = {MeterTag(e)}
      /\ D = {} => \A x \in Own(t) : <<i, x>> \in R.pool => f = {MeterTag(<<i, x>>)}
  <2> DEFINE me == R.tags[i]
             g == Final(cfg, me, t, source)
  <2>1. i \in DOMAIN R.tags /\ cfg.rules = LiveRules(T, R, Guard(T)) /\ cfg.strategy = Strategy(T)
    BY <1>1 DEF list
  <2>2. /\ D # {} => g = D
        /\ D = {} /\ g # {} => \E e \in R.pool : g = {MeterTag(e)}
        /\ D = {} => \A x \in Own(t) : <<i, x>> \in R.pool => g = {MeterTag(<<i, x>>)}
    <3>1. Given(T, R) /\ Entries(R)
      BY <1>1
    <3> HIDE DEF R
    <3> QED BY <2>1, <3>1, FinalSays, SMTT(30)
  <2>3. g = f
    BY <1>1
  <2> HIDE DEF g, f
  <2> QED BY <2>2, <2>3
<1>6. \A x : <<i, x>> \in G.pool => <<i, x>> \in R.pool
  BY <1>1 DEF FilterMeterPool
<1>7. G.pool = {} => R.pool = {}
  BY <1>1 DEF FilterMeterPool
<1> HIDE DEF R, out, decider, D, f
<1>8. ASSUME D = {} PROVE out.via = outs[1].via
  <2>1. CASE f = {}
    BY <1>2, <1>4, <2>1
  <2>2. CASE f # {}
    <3>1. PICK e \in R.pool : f = {MeterTag(e)}
      BY <1>5, <1>8, <2>2
    <3>2. PICK k \in DOMAIN all : all[k].tag = MeterTag(e) /\ all[k].via = outs[1].via
      BY <1>2
    <3>3. out = all[k]
      BY <1>4, <3>1, <3>2
    <3> QED BY <3>2, <3>3
  <2> QED BY <2>1, <2>2
<1>9. ASSUME NEW a \in DOMAIN outs, D = {outs[a].tag} PROVE out = outs[a]
  <2>1. f = {all[a].tag} /\ a \in DOMAIN all /\ all[a] = outs[a]
    BY <1>2, <1>5, <1>9
  <2> QED BY <1>4, <2>1
<1>10. \A via : Lands(D, outs, via) => out.via = via
  BY <1>9 DEF Lands
<1>11. ASSUME D = {}, NEW x \in Own(t), <<i, x>> \in G.pool PROVE out.tag = MeterTag(<<i, x>>)
  <2> DEFINE m == MeterTag(<<i, x>>)
  <2>1. f = {m} /\ <<i, x>> \in R.pool
    BY <1>5, <1>6, <1>11
  <2>2. PICK k \in DOMAIN all : all[k].tag = m
    BY <1>2, <2>1
  <2> HIDE DEF m
  <2>3. out = all[k]
    BY <1>4, <2>1, <2>2
  <2> QED BY <2>2, <2>3 DEF m
<1>12. D # {} => decider # 0
  BY <1>4, <1>5
<1>13. D = {} /\ G.pool = {} => decider = 0
  BY <1>4, <1>5, <1>7
<1>14. Delivers(out, decider, D, outs, G, i, t)
  BY <1>8, <1>9, <1>10, <1>11, <1>12, <1>13 DEF Delivers
<1> QED BY <1>14 DEF out, decider, D, outs, R, cfg

(* Every rule of an injected configuration names an outbound that is there. *)
LEMMA NamesOutbounds ==
  ASSUME NEW T, NEW G, Given(T, Live(G))
  PROVE  /\ Outlets(Inject(T, G).outbounds)
         /\ \A k \in DOMAIN Inject(T, G).rules : HasTag(Inject(T, G).outbounds, Inject(T, G).rules[k].out)
<1> DEFINE R == Live(G)
           guard == Guard(T)
           outs == BuildOutbounds(T, R.nodes)
           all == AppendMeterOutbounds(outs, R.pool)
           a == T.rules
           b == BuildGeoRules(R.regions)
           c == BuildRules({"block"}, T, R)
           d == BuildRules({"proxy", "direct"}, T, R)
           e == BuildMeterRules(R.pool, R.tags, guard)
           list == LiveRules(T, R, guard)
<1>1. /\ Inject(T, G).rules = list /\ Inject(T, G).outbounds = all /\ Entries(R)
  BY InjectIs
<1>2. /\ Outlets(all)
      /\ \A k \in DOMAIN outs : k \in DOMAIN all /\ all[k] = outs[k]
      /\ \A x \in R.pool : \E k \in DOMAIN all : all[k].tag = MeterTag(x)
  BY GivenOutlets
<1>3. /\ \E k \in DOMAIN outs : outs[k].tag = BlockTag
      /\ \A k \in DOMAIN a : HasTag(outs, a[k].out)
  BY BuiltOutlets
<1>4. list = a \o b \o c \o d \o e
  BY DEF LiveRules
<1>5. IsList(a)
  BY DEF Given, TemplateHolds
<1>6. IsList(b) /\ \A x \in ToSet(b) : x.out = BlockTag
  BY GeoSays DEF Given
<1>7. IsList(c) /\ \A x \in ToSet(c) : x.out = BlockTag
  BY BlocksSay
<1>8. /\ IsList(d)
      /\ \A x \in ToSet(d) : \E via : Lands({x.out}, outs, via)
  <2> DEFINE acts == {"proxy", "direct"}
             l == BuildRules(acts, T, R)
  <2> HIDE DEF acts, R
  <2>1. /\ IsList(l)
        /\ \A x \in ToSet(l) : \E r \in DOMAIN R.rules :
              /\ Served(R.rules[r], T, R) /\ R.rules[r].action \in acts
              /\ x.out = Exit(T, R, r)
    BY RulesSay DEF R
  <2> HIDE DEF l
  <2>2. ASSUME NEW x \in ToSet(l) PROVE \E via : Lands({x.out}, outs, via)
    <3>1. PICK r \in DOMAIN R.rules : Served(R.rules[r], T, R) /\ R.rules[r].action \in acts /\ x.out = Exit(T, R, r)
      BY <2>1
    <3>2. R.rules[r].action \in {"proxy", "direct"}
      BY <3>1 DEF acts
    <3>3. Lands({Exit(T, R, r)}, outs, WayOf(T, R, r))
      BY <3>1, <3>2, RouteLands DEF R
    <3>4. {x.out} = {Exit(T, R, r)}
      BY <3>1
    <3> HIDE DEF outs
    <3> QED BY <3>3, <3>4
  <2> QED BY <2>1, <2>2 DEF l, acts
<1>9. IsList(e) /\ \A x \in ToSet(e) : \E entry \in R.pool : x.out = MeterTag(entry)
  BY MeterList DEF Given
<1> HIDE DEF R, outs, all, a, b, c, d, e, list
<1>10. IsList(a \o b \o c \o d \o e)
  BY <1>5, <1>6, <1>7, <1>8, <1>9, JoinedFive
<1>11. ToSet(a \o b \o c \o d \o e) = ToSet(a) \cup ToSet(b) \cup ToSet(c) \cup ToSet(d) \cup ToSet(e)
  BY <1>5, <1>6, <1>7, <1>8, <1>9, JoinedFive
<1>12. \A tag : HasTag(outs, tag) => HasTag(all, tag)
  BY <1>2 DEF HasTag
<1>13. ASSUME NEW k \in DOMAIN list PROVE HasTag(all, list[k].out)
  <2> DEFINE x == list[k]
  <2>1. x \in ToSet(a) \cup ToSet(b) \cup ToSet(c) \cup ToSet(d) \cup ToSet(e)
    <3>1. IsList(list) /\ ToSet(list) = ToSet(a) \cup ToSet(b) \cup ToSet(c) \cup ToSet(d) \cup ToSet(e)
      BY <1>4, <1>10, <1>11
    <3> QED BY <3>1, ListIs
  <2> HIDE DEF x
  <2>2. CASE x \in ToSet(a)
    <3>1. PICK n \in DOMAIN a : a[n] = x
      BY <1>5, <2>2, ListIs
    <3> QED BY <1>3, <1>12, <3>1 DEF x
  <2>3. CASE x \in ToSet(b) \cup ToSet(c)
    <3>1. x.out = BlockTag
      BY <1>6, <1>7, <2>3
    <3> QED BY <1>3, <1>12, <3>1 DEF HasTag, x
  <2>4. CASE x \in ToSet(d)
    <3>1. PICK via : Lands({x.out}, outs, via)
      BY <1>8, <2>4
    <3>2. HasTag(outs, x.out)
      BY <3>1 DEF Lands, HasTag
    <3> QED BY <1>12, <3>2 DEF x
  <2>5. CASE x \in ToSet(e)
    <3>1. HasTag(all, x.out)
      BY <1>2, <1>9, <2>5 DEF HasTag
    <3> QED BY <3>1 DEF x
  <2> QED BY <2>1, <2>2, <2>3, <2>4, <2>5
<1> QED BY <1>1, <1>2, <1>13

(* A core that measures nothing: whether a rule matches in one pass. *)
LEMMA PassSays ==
  ASSUME NEW T, NEW G, Given(T, Live(G)), G.pool = {}, NEW i \in DOMAIN G.tags, NEW t \in Targets,
         NEW source, NEW resolved
  PROVE  Pass(Inject(T, G), G.tags[i], t, source, resolved) = 0
           <=> Ruling(T, Live(G), i, t, source, resolved) = {}
<1> DEFINE R == Live(G)
           cfg == Inject(T, G)
           list == LiveRules(T, R, Guard(T))
           ruling == Ruling(T, R, i, t, source, resolved)
           meters == BuildMeterRules(R.pool, R.tags, Guard(T))
           q == Asked(R, i, t, source, resolved)
<1>1. cfg.rules = list /\ Entries(R) /\ R.tags = G.tags /\ R.pool = {}
  BY InjectIs DEF FilterMeterPool
<1>2. Guard(T) \in BOOLEAN /\ i \in DOMAIN R.tags
  BY <1>1 DEF Guard, MeterRuleNeedsIPGuard
<1>3. IsList(list) /\ Verdict(list, q) = IF ruling # {} THEN ruling ELSE Verdict(meters, q)
  <2>1. Given(T, R)
    OBVIOUS
  <2> HIDE DEF R
  <2>2. IsList(list)
    BY <1>1, <1>2, <2>1, LiveRulesSay
  <2>3. Verdict(list, q) = IF ruling # {} THEN ruling ELSE Verdict(meters, q)
    BY <1>1, <1>2, <2>1, LiveRulesSay
  <2> QED BY <2>2, <2>3
<1>4. Verdict(meters, q) = {}
  <2> DEFINE entries == R.pool
             l == BuildMeterRules(entries, R.tags, Guard(T))
  <2>1. IsFiniteSet(entries)
    BY DEF Given
  <2> HIDE DEF entries
  <2>2. IsList(l) /\ \A x \in ToSet(l) : \E e \in entries : x.out = MeterTag(e)
    BY <2>1, MeterList
  <2>3. entries = {}
    BY <1>1 DEF entries
  <2> HIDE DEF l, q
  <2>4. Verdict(l, q) = {}
    BY <2>2, <2>3, VerdictOf
  <2> QED BY <2>4 DEF l, entries, q
<1> DEFINE tag == G.tags[i]
           at == Pass(cfg, tag, t, source, resolved)
           v == Verdict(list, Asking(tag, t, source, resolved))
<1>5. v = ruling
  <2>1. Asking(tag, t, source, resolved) = q
    BY <1>1 DEF Asked
  <2> HIDE DEF q, ruling, list, meters
  <2> QED BY <1>3, <1>4, <2>1
<1> HIDE DEF cfg, list, ruling, tag
<1>6. v = {} => at = 0
  BY <1>1, <1>3, PassIs
<1>7. v # {} => at # 0
  BY <1>1, <1>3, PassIs
<1> HIDE DEF v, at
<1>8. at = 0 <=> ruling = {}
  BY <1>5, <1>6, <1>7
<1> QED BY <1>8 DEF at, tag, cfg, ruling, R

-----------------------------------------------------------------------------
(* A generation that has read everything and holds what it has read. *)
Loaded ==
  /\ {"at", "tags", "pool", "nodes", "rules", "groups", "regions", "config"} \subseteq DOMAIN gen
  /\ gen.config = Inject(template, gen) /\ Given(template, Live(gen))
BareRead == [gen EXCEPT !.rules = <<>>, !.pool = {}, !.regions = <<>>]
OwnOf(i, t, s, resolved) == Verdict(template.rules, Asked(Live(gen), i, t, s, resolved))

(* Without rules, pool and regions only the template rules. *)
LEMMA BareIs ==
  ASSUME Loaded
  PROVE  /\ Given(template, Live(BareRead)) /\ BareRead.pool = {} /\ BareRead.tags = gen.tags
         /\ BareRead.nodes = gen.nodes /\ Bare = Inject(template, BareRead)
         /\ \A i, t, s, resolved :
              Ruling(template, Live(BareRead), i, t, s, resolved) = OwnOf(i, t, s, resolved)
<1> DEFINE R == Live(gen)
           Q == Live(BareRead)
           T == template
<1>1. /\ BareRead.pool = {} /\ BareRead.tags = gen.tags /\ BareRead.nodes = gen.nodes
      /\ BareRead.groups = gen.groups /\ BareRead.rules = <<>> /\ BareRead.regions = <<>>
  BY DEF Loaded, BareRead
<1>2. /\ R.tags = gen.tags /\ R.nodes = gen.nodes /\ R.groups = gen.groups
      /\ R.rules = gen.rules /\ R.regions = gen.regions
  BY DEF Live
<1>3. /\ Q.tags = gen.tags /\ Q.nodes = gen.nodes /\ Q.groups = gen.groups
      /\ Q.rules = <<>> /\ Q.regions = <<>> /\ Q.pool = {}
  BY <1>1 DEF Live, FilterMeterPool
<1>4. Given(T, R)
  BY DEF Loaded
<1> HIDE DEF R, Q, T
<1>5. IsFiniteSet({}) /\ DOMAIN <<>> = {}
  BY FS_EmptySet
<1>6. Given(T, Q)
  <2>1. Numbered(Q.regions) /\ Numbered(Q.rules) /\ \A r \in DOMAIN Q.rules : RuleRow(Q.rules[r])
    BY <1>3, <1>5 DEF Numbered
  <2>2. IsFiniteSet(Q.pool) /\ Q.pool \subseteq Nat \X (Domains \cup Addresses)
    BY <1>3, <1>5
  <2>3. /\ TemplateHolds(T)
        /\ \A i \in DOMAIN T.outbounds, n \in DOMAIN Q.nodes : Q.nodes[n].tag # T.outbounds[i].tag
        /\ Numbered(Q.nodes) /\ TagsDiffer(Q.nodes)
    BY <1>2, <1>3, <1>4 DEF Given
  <2>4. \A a, b \in DOMAIN Q.tags : Q.tags[a] = Q.tags[b] => a = b
    BY <1>2, <1>3, <1>4 DEF Given
  <2> QED BY <2>1, <2>2, <2>3, <2>4 DEF Given
<1>7. ASSUME NEW i, NEW t, NEW s, NEW resolved
      PROVE  Ruling(T, Q, i, t, s, resolved) = Verdict(T.rules, Asked(R, i, t, s, resolved))
  <2>1. ~Denied(Q, i, s)
    BY <1>3, <1>5 DEF Denied
  <2>2. \A acts : Reachers(acts, T, Q, i, t, resolved) = {}
    BY <1>3, <1>5 DEF Reachers
  <2>3. Asked(Q, i, t, s, resolved) = Asked(R, i, t, s, resolved)
    BY <1>2, <1>3 DEF Asked
  <2> DEFINE own == Verdict(T.rules, Asked(R, i, t, s, resolved))
             routes == Reachers({"proxy", "direct"}, T, Q, i, t, resolved)
             blocks == Reachers({"block"}, T, Q, i, t, resolved)
  <2>4. Ruling(T, Q, i, t, s, resolved)
          = IF own # {} THEN own
            ELSE IF Denied(Q, i, s) \/ blocks # {} THEN {BlockTag}
            ELSE IF routes = {} THEN {} ELSE {Exit(T, Q, Foremost(routes, Q.rules))}
    BY <2>3 DEF Ruling
  <2>5. routes = {} /\ blocks = {}
    BY <2>2
  <2> HIDE DEF routes, blocks, own
  <2>6. Ruling(T, Q, i, t, s, resolved) = own
    BY <2>1, <2>4, <2>5
  <2> QED BY <2>6 DEF own
<1> QED BY <1>1, <1>6, <1>7 DEF Bare, BareRead, OwnOf, R, Q, T

(* The outbound for whatever no rule decides is the same without the rules. *)
LEMMA BareHead ==
  ASSUME Loaded
  PROVE  Head(Bare.outbounds) = BuildOutbounds(template, gen.nodes)[1] /\ Bare.strategy = Strategy(template)
<1> DEFINE T == template
           Q == Live(BareRead)
           outs == BuildOutbounds(T, Q.nodes)
           all == AppendMeterOutbounds(outs, Q.pool)
<1>1. Given(T, Q) /\ Bare = Inject(T, BareRead) /\ BareRead.nodes = gen.nodes
  BY BareIs
<1>2. /\ Bare.outbounds = AppendMeterOutbounds(BuildOutbounds(T, gen.nodes), Q.pool) /\ Q.nodes = gen.nodes
      /\ Bare.strategy = Strategy(T)
  BY <1>1, InjectIs
<1>3. Head(all) = outs[1]
  BY <1>1, GivenOutlets
<1>4. Bare.outbounds = all /\ outs = BuildOutbounds(T, gen.nodes)
  BY <1>2
<1> HIDE DEF outs, all, T
<1>5. Head(Bare.outbounds) = BuildOutbounds(T, gen.nodes)[1]
  BY <1>3, <1>4
<1> QED BY <1>2, <1>5 DEF T

(* What the administrator is told, in the terms of the reading. *)
LEMMA ToldIs ==
  ASSUME Loaded, NEW i \in DOMAIN gen.tags, NEW t \in Targets, NEW s \in Sources, NEW resolved
  PROVE  LET R == Live(gen)
             own == OwnOf(i, t, s, resolved)
             denied == Denied(R, i, s) \/ Blocks(template, R, i, t, resolved) # {}
             routes == Routes(template, R, i, t, resolved)
         IN  Told(Bare, i, t, s, resolved)
               = IF own # {} THEN Via(Bare, i, t, s)
                 ELSE IF denied THEN Blackhole
                 ELSE IF routes = {} THEN Nowhere
                 ELSE WayOf(template, R, Foremost(routes, R.rules))
<1> DEFINE R == Live(gen)
           T == template
           own == OwnOf(i, t, s, resolved)
           routes == Routes(T, R, i, t, resolved)
           first == Foremost(routes, R.rules)
           geo == \E j \in DOMAIN gen.regions :
                    gen.regions[j].born = gen.tags[i] /\ gen.regions[j].enable /\ gen.regions[j].geo
           covering(acts) == Covering(acts, i, t, resolved)
           way == covering({"proxy", "direct"}) \cap Servable
           told == Told(Bare, i, t, s, resolved)
<1>1. /\ R.tags = gen.tags /\ R.nodes = gen.nodes /\ R.groups = gen.groups
      /\ R.rules = gen.rules /\ R.regions = gen.regions
  BY DEF Live
<1>2. Pass(Bare, gen.tags[i], t, s, resolved) # 0 <=> own # {}
  <2>1. /\ Given(T, Live(BareRead)) /\ BareRead.pool = {} /\ BareRead.tags = gen.tags
        /\ Bare = Inject(T, BareRead) /\ Ruling(T, Live(BareRead), i, t, s, resolved) = own
    BY BareIs
  <2> HIDE DEF own, T
  <2>2. Pass(Inject(T, BareRead), BareRead.tags[i], t, s, resolved) = 0
          <=> Ruling(T, Live(BareRead), i, t, s, resolved) = {}
    BY <2>1, PassSays
  <2> QED BY <2>1, <2>2
<1>3. (geo /\ s # "home") <=> Denied(R, i, s)
  BY <1>1 DEF Denied, Sources
<1> HIDE DEF R
<1>4. \A r, res : Names(gen.rules[r], t, res) <=> Reach(R.rules[r], t, res, R.groups)
  BY <1>1 DEF Names, Reach
<1>5. covering({"block"}) = Blocks(T, R, i, t, resolved)
  <2>1. \A r : R.rules[r].action = "block" => Served(R.rules[r], T, R)
    BY DEF Served
  <2> QED BY <1>1, <1>4, <2>1 DEF Covering, Blocks, Reachers
<1>6. way = routes
  <2>1. \A r : r \in Servable <=> r \in DOMAIN R.rules /\ Served(R.rules[r], T, R)
    BY <1>1 DEF Servable, Served
  <2> HIDE DEF T
  <2> QED BY <1>1, <1>4, <2>1 DEF Covering, Routes, Reachers
<1>7. told = IF Pass(Bare, gen.tags[i], t, s, resolved) # 0 THEN Via(Bare, i, t, s)
             ELSE IF (geo /\ s # "home") \/ covering({"block"}) # {} THEN Blackhole
             ELSE IF way = {} THEN Nowhere
             ELSE IF gen.rules[Foremost(way, gen.rules)].action = "direct" THEN Head(Bare.outbounds).via
             ELSE ViaNode(gen.nodes[gen.rules[Foremost(way, gen.rules)].node].born)
  BY DEF Told, Foremost
<1>8. Head(Bare.outbounds) = BuildOutbounds(T, R.nodes)[1]
  BY <1>1, BareHead
<1>9. WayOf(T, R, first) = IF gen.rules[first].action = "direct" THEN Head(Bare.outbounds).via
                           ELSE ViaNode(gen.nodes[gen.rules[first].node].born)
  BY <1>1, <1>8 DEF WayOf
<1>10. Foremost(way, gen.rules) = first
  BY <1>1, <1>6
<1> HIDE DEF own, routes, first, geo, covering, way, told, T
<1>11. told = IF own # {} THEN Via(Bare, i, t, s)
              ELSE IF Denied(R, i, s) \/ Blocks(T, R, i, t, resolved) # {} THEN Blackhole
              ELSE IF routes = {} THEN Nowhere ELSE WayOf(T, R, first)
  BY <1>2, <1>3, <1>5, <1>6, <1>7, <1>9, <1>10
<1> QED BY <1>11 DEF told, own, routes, first, R, T

(* A pass tells the administrator something exactly if it rules, and rules what  *)
(* it tells.                                                                     *)
LEMMA ToldLands ==
  ASSUME Loaded, NEW i \in DOMAIN gen.tags, NEW t \in Targets, NEW s \in Sources, NEW resolved
  PROVE  LET ruling == Ruling(template, Live(gen), i, t, s, resolved)
             own == OwnOf(i, t, s, resolved)
             told == Told(Bare, i, t, s, resolved)
             outs == BuildOutbounds(template, gen.nodes)
         IN  /\ ruling = {} <=> told = Nowhere
             /\ own # {} => ruling = own /\ told = Via(Bare, i, t, s)
             /\ own = {} /\ ruling # {} => Lands(ruling, outs, told)
             /\ \A via : Lands(ruling, outs, via) => via # Nowhere
<1> DEFINE T == template
           R == Live(gen)
           ruling == Ruling(T, R, i, t, s, resolved)
           own == OwnOf(i, t, s, resolved)
           told == Told(Bare, i, t, s, resolved)
           outs == BuildOutbounds(T, gen.nodes)
           denied == Denied(R, i, s) \/ Blocks(T, R, i, t, resolved) # {}
           routes == Routes(T, R, i, t, resolved)
           first == Foremost(routes, R.rules)
           way == WayOf(T, R, first)
           barevia == Via(Bare, i, t, s)
<1>1. Given(T, R) /\ R.tags = gen.tags /\ R.nodes = gen.nodes
  BY DEF Loaded, Live
<1>2. told = IF own # {} THEN barevia ELSE IF denied THEN Blackhole ELSE IF routes = {} THEN Nowhere ELSE way
  BY ToldIs
<1>3. Outlets(outs) /\ 1 \in DOMAIN outs
  <2> HIDE DEF R
  <2> QED BY <1>1, GivenOutlets
<1>4. \A v, via : Lands(v, outs, via) => v # {} /\ via # Nowhere
  <2> HIDE DEF outs
  <2> QED BY <1>3 DEF Lands, Outlets, Nowhere
<1>5. /\ own # {} => ruling = own
      /\ own = {} /\ denied => Lands(ruling, outs, Blackhole)
      /\ own = {} /\ ~denied /\ routes = {} => ruling = {}
      /\ own = {} /\ ~denied /\ routes # {} => Lands(ruling, outs, way)
  <2> DEFINE mine == Verdict(T.rules, Asked(R, i, t, s, resolved))
             o == BuildOutbounds(T, R.nodes)
  <2>1. mine = own /\ o = outs /\ i \in DOMAIN R.tags
    BY <1>1 DEF OwnOf
  <2>2. /\ mine # {} => ruling = mine
        /\ mine = {} /\ denied => Lands(ruling, o, Blackhole)
        /\ mine = {} /\ ~denied /\ routes = {} => ruling = {}
        /\ mine = {} /\ ~denied /\ routes # {} => Lands(ruling, o, way)
    <3>1. Settled(T, R, i, t, s, resolved)
      <4> HIDE DEF R, T
      <4> QED BY <1>1, <2>1, RulingLands
    <3> HIDE DEF R, T
    <3> QED BY <3>1 DEF Settled
  <2> HIDE DEF mine, own, o, outs, ruling, denied, routes, way
  <2> QED BY <2>1, <2>2
<1>6. barevia # Nowhere
  <2> DEFINE Q == Live(BareRead)
             D == Decision(T, Q, i, t, s)
             out == Dispatch(Bare, gen.tags[i], t, s)
             decider == Decider(Bare, gen.tags[i], t, s)
  <2>1. /\ Given(T, Q) /\ Bare = Inject(T, BareRead) /\ BareRead.tags = gen.tags /\ BareRead.nodes = gen.nodes
    BY BareIs
  <2>2. Delivers(out, decider, D, outs, BareRead, i, t)
    <3> DEFINE C == Inject(T, BareRead)  tags == BareRead.tags
    <3>1. Delivers(Dispatch(C, tags[i], t, s), Decider(C, tags[i], t, s),
                        D, BuildOutbounds(T, BareRead.nodes), BareRead, i, t)
      BY <2>1, DispatchSays
    <3> QED BY <2>1, <3>1
  <2>3. D = {} \/ \E a \in DOMAIN outs : D = {outs[a].tag}
    <3> DEFINE o == BuildOutbounds(T, Q.nodes)
    <3>1. o = outs /\ i \in DOMAIN Q.tags
      BY <2>1 DEF Live
    <3>2. D = {} \/ \E a \in DOMAIN o : D = {o[a].tag}
      <4> HIDE DEF Q, T
      <4> QED BY <2>1, <3>1, DecisionLands
    <3> HIDE DEF D, o, outs
    <3> QED BY <3>1, <3>2
  <2>4. barevia = out.via
    BY DEF Via
  <2> HIDE DEF D, out, outs, barevia
  <2>5. CASE D = {}
    <3>1. out.via = outs[1].via
      BY <2>2, <2>5 DEF Delivers
    <3> QED BY <1>3, <2>4, <3>1 DEF Outlets, Nowhere
  <2>6. CASE \E a \in DOMAIN outs : D = {outs[a].tag}
    <3>1. PICK a \in DOMAIN outs : D = {outs[a].tag}
      BY <2>6
    <3>2. out = outs[a]
      BY <2>2, <3>1 DEF Delivers
    <3> QED BY <1>3, <2>4, <3>2 DEF Outlets, Nowhere
  <2> QED BY <2>3, <2>5, <2>6
<1>7. Blackhole # Nowhere
  BY DEF Blackhole, Nowhere
<1> HIDE DEF ruling, own, told, outs, denied, routes, way, barevia
<1>8. /\ ruling = {} <=> told = Nowhere
      /\ own # {} => ruling = own /\ told = barevia
      /\ own = {} /\ ruling # {} => Lands(ruling, outs, told)
      /\ \A via : Lands(ruling, outs, via) => via # Nowhere
  BY <1>2, <1>4, <1>5, <1>6, <1>7
<1> QED BY <1>8 DEF ruling, own, told, outs, barevia, R, T

(* With all rules and with those of the template alone: what a core does once  *)
(* the decisions are known, and the second decision.                           *)
LEMMA BareDecides ==
  ASSUME Loaded, NEW i, NEW t, NEW s
  PROVE  Decision(template, Live(BareRead), i, t, s)
           = IF OwnOf(i, t, s, Strategy(template) = "IPOnDemand") = {} /\ Strategy(template) = "IPIfNonMatch"
             THEN OwnOf(i, t, s, TRUE) ELSE OwnOf(i, t, s, Strategy(template) = "IPOnDemand")
<1> DEFINE T == template
           Q == Live(BareRead)
           start == Strategy(T) = "IPOnDemand"
<1>1. Decision(T, Q, i, t, s)
        = IF Ruling(T, Q, i, t, s, start) = {} /\ Strategy(T) = "IPIfNonMatch" THEN Ruling(T, Q, i, t, s, TRUE)
          ELSE Ruling(T, Q, i, t, s, start)
  BY DEF Decision
<1>2. Ruling(T, Q, i, t, s, start) = OwnOf(i, t, s, start) /\ Ruling(T, Q, i, t, s, TRUE) = OwnOf(i, t, s, TRUE)
  BY BareIs
<1> QED BY <1>1, <1>2

(* What a core does with all rules and with those of the template alone, once  *)
(* the decisions are known.                                                    *)
LEMMA OnceDecided ==
  ASSUME Loaded, NEW i \in DOMAIN gen.tags, NEW t \in Targets, NEW s \in Sources
  PROVE  LET D == Decision(template, Live(gen), i, t, s)
             E == Decision(template, Live(BareRead), i, t, s)
             outs == BuildOutbounds(template, gen.nodes)
             out == Dispatch(gen.config, gen.tags[i], t, s)
             bare == Dispatch(Bare, gen.tags[i], t, s)
         IN  /\ D = {} => out.via = outs[1].via
             /\ E = {} => bare.via = outs[1].via
             /\ D # {} /\ D = E => out = bare
             /\ \A via : Lands(D, outs, via) => out.via = via
<1> DEFINE T == template
           R == Live(gen)
           Q == Live(BareRead)
           outs == BuildOutbounds(T, gen.nodes)
           D == Decision(T, R, i, t, s)
           E == Decision(T, Live(BareRead), i, t, s)
           out == Dispatch(gen.config, gen.tags[i], t, s)
           bare == Dispatch(Bare, gen.tags[i], t, s)
<1>1. Given(T, R) /\ R.tags = gen.tags /\ R.nodes = gen.nodes /\ gen.config = Inject(T, gen)
  BY DEF Loaded, Live
<1>2. Given(T, Q) /\ Bare = Inject(T, BareRead) /\ BareRead.tags = gen.tags /\ BareRead.nodes = gen.nodes
  BY BareIs
<1>3. Delivers(out, Decider(gen.config, gen.tags[i], t, s), D, outs, gen, i, t)
  BY <1>1, DispatchSays
<1>4. Delivers(bare, Decider(Bare, gen.tags[i], t, s), E, outs, BareRead, i, t)
  <2> DEFINE C == Inject(T, BareRead)  tags == BareRead.tags
  <2>1. Delivers(Dispatch(C, tags[i], t, s), Decider(C, tags[i], t, s),
                      E, BuildOutbounds(T, BareRead.nodes), BareRead, i, t)
    <3> DEFINE H == BareRead
    <3>1. Given(T, Live(H)) /\ i \in DOMAIN H.tags
      BY <1>2
    <3> HIDE DEF H, T
    <3>2. Delivers(Dispatch(Inject(T, H), H.tags[i], t, s), Decider(Inject(T, H), H.tags[i], t, s),
                   Decision(T, Live(H), i, t, s), BuildOutbounds(T, H.nodes), H, i, t)
      BY <3>1, DispatchSays
    <3> QED BY <3>2 DEF H, T
  <2> QED BY <1>2, <2>1
<1>5. D # {} /\ D = E => out = bare
  <2> DEFINE o == BuildOutbounds(T, R.nodes)
  <2>1. o = outs /\ i \in DOMAIN R.tags
    BY <1>1
  <2>2. D = {} \/ \E a \in DOMAIN o : D = {o[a].tag}
    <3> HIDE DEF R, T
    <3> QED BY <1>1, <2>1, DecisionLands
  <2> HIDE DEF outs, out, bare, D, E, o
  <2>3. \A a \in DOMAIN outs : D = {outs[a].tag} => out = outs[a]
    BY <1>3 DEF Delivers
  <2>4. \A a \in DOMAIN outs : E = {outs[a].tag} => bare = outs[a]
    BY <1>4 DEF Delivers
  <2> QED BY <2>1, <2>2, <2>3, <2>4
<1> HIDE DEF T, R, Q, outs, D, E, out, bare
<1>6. /\ D = {} => out.via = outs[1].via
      /\ E = {} => bare.via = outs[1].via
      /\ D # {} /\ D = E => out = bare
      /\ \A via : Lands(D, outs, via) => out.via = via
  BY <1>3, <1>4, <1>5 DEF Delivers
<1> QED BY <1>6 DEF T, R, Q, outs, D, E, out, bare

(* Every connection goes where it was promised. *)
LEMMA ConnectionKept ==
  ASSUME Loaded, NEW i \in DOMAIN gen.tags, NEW t \in Targets, NEW s \in Sources
  PROVE  Via(gen.config, i, t, s) = Promised(Bare, i, t, s)
<1> DEFINE T == template
           R == Live(gen)
           Q == Live(BareRead)
           outs == BuildOutbounds(T, gen.nodes)
           start == Strategy(T) = "IPOnDemand"
           again == Strategy(T) = "IPIfNonMatch"
           ruling(resolved) == Ruling(T, R, i, t, s, resolved)
           own(resolved) == OwnOf(i, t, s, resolved)
           told(resolved) == Told(Bare, i, t, s, resolved)
           D == Decision(T, R, i, t, s)
           E == Decision(T, Live(BareRead), i, t, s)
           out == Dispatch(gen.config, gen.tags[i], t, s)
           bare == Dispatch(Bare, gen.tags[i], t, s)
           barevia == Via(Bare, i, t, s)
<1>1. D = IF ruling(start) = {} /\ again THEN ruling(TRUE) ELSE ruling(start)
  BY DEF Decision
<1>2. E = IF own(start) = {} /\ again THEN own(TRUE) ELSE own(start)
  BY BareDecides
<1>3. ASSUME NEW resolved
      PROVE  /\ ruling(resolved) = {} <=> told(resolved) = Nowhere
             /\ own(resolved) # {} => ruling(resolved) = own(resolved) /\ told(resolved) = barevia
             /\ own(resolved) = {} /\ ruling(resolved) # {} => Lands(ruling(resolved), outs, told(resolved))
  BY ToldLands
<1>4. /\ D = {} => out.via = outs[1].via
      /\ D # {} /\ D = E => out = bare
      /\ \A via : Lands(D, outs, via) => out.via = via
  BY OnceDecided
<1>5. barevia = bare.via /\ Via(gen.config, i, t, s) = out.via
  BY DEF Via
<1>6. Promised(Bare, i, t, s)
         = IF told(start) # Nowhere THEN told(start)
           ELSE IF again /\ told(TRUE) # Nowhere THEN told(TRUE) ELSE outs[1].via
  <2>1. Head(Bare.outbounds) = outs[1] /\ Bare.strategy = Strategy(T)
    BY BareHead
  <2> HIDE DEF outs, T
  <2>2. Promised(Bare, i, t, s)
         = LET one == Told(Bare, i, t, s, Bare.strategy = "IPOnDemand")
               two == IF Bare.strategy = "IPIfNonMatch" THEN Told(Bare, i, t, s, TRUE) ELSE Nowhere
           IN  IF one # Nowhere THEN one ELSE IF two # Nowhere THEN two ELSE Head(Bare.outbounds).via
    BY DEF Promised
  <2> QED BY <2>1, <2>2
<1> HIDE DEF T, R, Q, outs, start, again, ruling, own, told, D, E, out, bare, barevia
<1>7. CASE ruling(start) # {}
  <2>1. D = ruling(start) /\ told(start) # Nowhere
    BY <1>1, <1>3, <1>7
  <2>2. own(start) # {} => out.via = told(start)
    BY <1>2, <1>3, <1>4, <1>5, <1>7, <2>1
  <2>3. own(start) = {} => out.via = told(start)
    BY <1>3, <1>4, <1>7, <2>1
  <2> QED BY <1>5, <1>6, <2>1, <2>2, <2>3
<1>8. CASE ruling(start) = {} /\ again /\ ruling(TRUE) # {}
  <2>1. D = ruling(TRUE) /\ told(TRUE) # Nowhere /\ told(start) = Nowhere /\ own(start) = {}
    BY <1>1, <1>3, <1>8
  <2>2. own(TRUE) # {} => out.via = told(TRUE)
    BY <1>2, <1>3, <1>4, <1>5, <1>8, <2>1
  <2>3. own(TRUE) = {} => out.via = told(TRUE)
    BY <1>3, <1>4, <1>8, <2>1
  <2> QED BY <1>5, <1>6, <1>8, <2>1, <2>2, <2>3
<1>9. CASE ruling(start) = {} /\ ~(again /\ ruling(TRUE) # {})
  <2>1. D = {} /\ told(start) = Nowhere /\ ~(again /\ told(TRUE) # Nowhere)
    BY <1>1, <1>3, <1>9
  <2>2. out.via = outs[1].via
    BY <1>4, <2>1
  <2> QED BY <1>5, <1>6, <2>1, <2>2
<1> QED BY <1>7, <1>8, <1>9

(* A configuration of what was read sends every connection where it was        *)
(* promised.                                                                   *)
LEMMA LoadedDecides == Loaded /\ gen.at = "done" => RulesDecide
<1> SUFFICES ASSUME Loaded, gen.at = "done" PROVE RulesDecide
  OBVIOUS
<1>1. NoDanglingTag
  <2> DEFINE C == Inject(template, gen)
  <2>1. Outlets(C.outbounds) /\ \A k \in DOMAIN C.rules : HasTag(C.outbounds, C.rules[k].out)
    BY NamesOutbounds DEF Loaded
  <2>2. gen.config = C
    BY DEF Loaded
  <2> HIDE DEF C
  <2> QED BY <2>1, <2>2 DEF NoDanglingTag, Outlets, HasTag
<1>2. \A t \in Reachable : t \in Targets
  BY DEF Reachable
<1>3. \A i \in DOMAIN gen.tags, t \in Reachable, s \in Sources : Via(gen.config, i, t, s) = Promised(Bare, i, t, s)
  BY <1>2, ConnectionKept
<1> QED BY <1>1, <1>3 DEF RulesDecide, Everywhere

UnmeteredRead == [gen EXCEPT !.pool = {}]

(* Without the pool the decisions are the same. *)
LEMMA UnmeteredIs ==
  ASSUME Loaded
  PROVE  /\ Given(template, Live(UnmeteredRead)) /\ UnmeteredRead.pool = {} /\ UnmeteredRead.tags = gen.tags
         /\ UnmeteredRead.nodes = gen.nodes /\ Unmetered = Inject(template, UnmeteredRead)
         /\ \A i, t, s : Decision(template, Live(UnmeteredRead), i, t, s) = Decision(template, Live(gen), i, t, s)
<1> DEFINE R == Live(gen)
           Q == Live(UnmeteredRead)
           T == template
<1>1. /\ UnmeteredRead.pool = {} /\ UnmeteredRead.tags = gen.tags /\ UnmeteredRead.nodes = gen.nodes
      /\ UnmeteredRead.groups = gen.groups /\ UnmeteredRead.rules = gen.rules /\ UnmeteredRead.regions = gen.regions
  BY DEF Loaded, UnmeteredRead
<1>2. /\ Q.tags = R.tags /\ Q.nodes = R.nodes /\ Q.groups = R.groups
      /\ Q.rules = R.rules /\ Q.regions = R.regions /\ Q.pool = {}
  BY <1>1 DEF Live, FilterMeterPool
<1>3. Given(T, R)
  BY DEF Loaded
<1>4. Unmetered = Inject(T, UnmeteredRead)
  BY DEF Unmetered, UnmeteredRead
<1> HIDE DEF R, Q, T
<1>5. IsFiniteSet({})
  BY FS_EmptySet
<1>6. Given(T, Q)
  BY <1>2, <1>3, <1>5 DEF Given
<1>7. ASSUME NEW i, NEW t, NEW s PROVE Decision(T, Q, i, t, s) = Decision(T, R, i, t, s)
  <2>1. \A acts, res : Reachers(acts, T, Q, i, t, res) = Reachers(acts, T, R, i, t, res)
    BY <1>2 DEF Reachers, Served
  <2>2. \A r : Exit(T, Q, r) = Exit(T, R, r)
    BY <1>2 DEF Exit
  <2>3. \A res : Asked(Q, i, t, s, res) = Asked(R, i, t, s, res)
    BY <1>2 DEF Asked
  <2>4. Denied(Q, i, s) <=> Denied(R, i, s)
    BY <1>2 DEF Denied
  <2>5. ASSUME NEW res PROVE Ruling(T, Q, i, t, s, res) = Ruling(T, R, i, t, s, res)
    <3> DEFINE own(P) == Verdict(T.rules, Asked(P, i, t, s, res))
               routes(P) == Reachers({"proxy", "direct"}, T, P, i, t, res)
               blocks(P) == Reachers({"block"}, T, P, i, t, res)
               first(P) == Exit(T, P, Foremost(routes(P), P.rules))
               ruling(P) == Ruling(T, P, i, t, s, res)
    <3>1. \A P \in {Q, R} : ruling(P) = IF own(P) # {} THEN own(P)
                                 ELSE IF Denied(P, i, s) \/ blocks(P) # {} THEN {BlockTag}
                                 ELSE IF routes(P) = {} THEN {} ELSE {first(P)}
      BY DEF Ruling
    <3>2. own(Q) = own(R) /\ routes(Q) = routes(R) /\ blocks(Q) = blocks(R)
      BY <2>1, <2>3
    <3>3. first(Q) = first(R)
      BY <1>2, <2>2, <3>2
    <3> HIDE DEF own, routes, blocks, first, ruling
    <3>4. ruling(Q) = ruling(R)
      BY <2>4, <3>1, <3>2, <3>3
    <3> QED BY <3>4 DEF ruling
  <2> DEFINE start == Strategy(T) = "IPOnDemand"
             ruling(P, res) == Ruling(T, P, i, t, s, res)
             decision(P) == Decision(T, P, i, t, s)
  <2>6. \A P : decision(P) = IF ruling(P, start) = {} /\ Strategy(T) = "IPIfNonMatch" THEN ruling(P, TRUE)
                             ELSE ruling(P, start)
    BY DEF Decision
  <2>7. ruling(Q, start) = ruling(R, start) /\ ruling(Q, TRUE) = ruling(R, TRUE)
    BY <2>5
  <2> HIDE DEF ruling, decision, start
  <2>8. decision(Q) = decision(R)
    BY <2>6, <2>7
  <2> QED BY <2>8 DEF decision
<1> QED BY <1>1, <1>4, <1>6, <1>7 DEF R, Q, T

(* A configuration of what was read measures, and moves nothing. *)
LEMMA LoadedMeters == Loaded => MeteringMovesNothing
<1> SUFFICES ASSUME Loaded PROVE MeteringMovesNothing
  OBVIOUS
<1> DEFINE with(i, t, s) == Dispatch(gen.config, gen.tags[i], t, s)
           without(i, t, s) == Dispatch(Unmetered, gen.tags[i], t, s)
           decider(i, t, s) == Decider(Unmetered, gen.tags[i], t, s)
<1>1. ASSUME NEW i \in DOMAIN gen.tags, NEW t \in Targets, NEW s \in Sources
      PROVE  /\ decider(i, t, s) # 0 => with(i, t, s) = without(i, t, s)
             /\ decider(i, t, s) = 0 =>
                  /\ with(i, t, s).via = without(i, t, s).via
                  /\ \A x \in Own(t) : <<i, x>> \in gen.pool => with(i, t, s).tag = MeterTag(<<i, x>>)
  <2> DEFINE T == template
             R == Live(gen)
             U == UnmeteredRead
             D == Decision(T, R, i, t, s)
             outs == BuildOutbounds(T, gen.nodes)
             a == with(i, t, s)
             b == without(i, t, s)
             d == decider(i, t, s)
  <2>1. Given(T, R) /\ R.tags = gen.tags /\ R.nodes = gen.nodes /\ gen.config = Inject(T, gen)
    BY DEF Loaded, Live
  <2>2. /\ Given(T, Live(U)) /\ U.pool = {} /\ U.tags = gen.tags /\ U.nodes = gen.nodes
        /\ Unmetered = Inject(T, U) /\ Decision(T, Live(U), i, t, s) = D
    BY UnmeteredIs
  <2>3. Delivers(a, Decider(gen.config, gen.tags[i], t, s), D, outs, gen, i, t)
    BY <2>1, DispatchSays
  <2>4. Delivers(b, d, D, outs, U, i, t)
    <3>1. Given(T, Live(U)) /\ i \in DOMAIN U.tags
      BY <2>2
    <3> HIDE DEF U, T
    <3>2. Delivers(Dispatch(Inject(T, U), U.tags[i], t, s), Decider(Inject(T, U), U.tags[i], t, s),
                   Decision(T, Live(U), i, t, s), BuildOutbounds(T, U.nodes), U, i, t)
      BY <3>1, DispatchSays
    <3> QED BY <2>2, <3>2 DEF U, T
  <2>5. D = {} \/ \E k \in DOMAIN outs : D = {outs[k].tag}
    <3> DEFINE o == BuildOutbounds(T, R.nodes)
    <3>1. o = outs /\ i \in DOMAIN R.tags
      BY <2>1
    <3>2. D = {} \/ \E k \in DOMAIN o : D = {o[k].tag}
      <4> HIDE DEF R, T
      <4> QED BY <2>1, <3>1, DecisionLands
    <3> HIDE DEF D, o, outs
    <3> QED BY <3>1, <3>2
  <2> HIDE DEF T, R, U, D, outs, a, b, d
  <2>6. D # {} => a = b /\ d # 0
    BY <2>3, <2>4, <2>5 DEF Delivers
  <2>7. D = {} => d = 0 /\ a.via = b.via /\ \A x \in Own(t) : <<i, x>> \in gen.pool => a.tag = MeterTag(<<i, x>>)
    BY <2>2, <2>3, <2>4 DEF Delivers
  <2>8. /\ d # 0 => a = b
        /\ d = 0 => a.via = b.via /\ \A x \in Own(t) : <<i, x>> \in gen.pool => a.tag = MeterTag(<<i, x>>)
    BY <2>6, <2>7
  <2> QED BY <2>8 DEF a, b, d
<1>2. \A t \in Reachable : t \in Targets
  BY DEF Reachable
<1> QED BY <1>1, <1>2 DEF MeteringMovesNothing, Everywhere, Own

-----------------------------------------------------------------------------
(***************************************************************************)
(* What a generation has read.  It fits together however long ago it was   *)
(* read, and whom it speaks of can still be told: a serial number that is  *)
(* still in a table is where it was read (Known), and a rule that nothing  *)
(* has come between names those it was meant for or nobody (MeansStill).   *)
(***************************************************************************)
TagsFit(tags) == \A a, b \in DOMAIN tags : tags[a] = tags[b] => a = b
PoolFits(entries) == IsFiniteSet(entries) /\ entries \subseteq Nat \X (Domains \cup Addresses)
NodesFit(exits, T) ==
  /\ Numbered(exits) /\ TagsDiffer(exits)
  /\ \A i \in DOMAIN T.outbounds, n \in DOMAIN exits : exits[n].tag # T.outbounds[i].tag
RulesFit(list) == Numbered(list) /\ \A r \in DOMAIN list : RuleRow(list[r])
GenFits ==
  /\ "tags" \in DOMAIN gen => TagsFit(gen.tags)
  /\ "pool" \in DOMAIN gen => PoolFits(gen.pool)
  /\ "nodes" \in DOMAIN gen => NodesFit(gen.nodes, template)
  /\ "rules" \in DOMAIN gen => RulesFit(gen.rules)

Known(born, id, table, n) ==
  /\ born \in 1..n
  /\ born \in Born(table) => id \in DOMAIN table /\ table[id].born = born
MeansStill(r, tags, exits, users, table) ==
  /\ r.inbounds = {} <=> r.meant.users = {}
  /\ \A i \in r.inbounds \cap DOMAIN tags : tags[i] \in r.meant.users \/ tags[i] \notin Born(users)
  /\ r.action = "proxy" /\ r.node \in DOMAIN exits =>
       exits[r.node].born = r.meant.node \/ exits[r.node].born \notin Born(table)
GenKnows ==
  /\ "tags" \in DOMAIN gen => \A i \in DOMAIN gen.tags : Known(gen.tags[i], i, inbounds, serial)
  /\ "nodes" \in DOMAIN gen => \A n \in DOMAIN gen.nodes : Known(gen.nodes[n].born, n, nodes, serial)
  /\ "rules" \in DOMAIN gen =>
       \A r \in DOMAIN gen.rules : gen.rules[r].sure => MeansStill(gen.rules[r], gen.tags, gen.nodes, inbounds, nodes)

Stages ==
  /\ gen.at = "idle" => DOMAIN gen = {"at"}
  /\ gen.at = "done" =>
       /\ DOMAIN gen = {"at", "served", "tags", "pool", "nodes", "rules", "groups", "regions", "config"}
       /\ Numbered(gen.regions) /\ gen.config = Inject(template, gen)
TablesFit == TemplateHolds(template) /\ PoolFits(pool) /\ NodesFit(nodes, template)
ReadInv == TablesFit /\ Stages /\ GenFits /\ GenKnows

(* Rows that stay keep their serial numbers, and new rows are given the next.    *)
Rising(old, new, n) ==
  \A j \in DOMAIN new : (j \in DOMAIN old /\ new[j].born = old[j].born) \/ new[j].born = n + 1
Tagged(old, new) ==
  \A j \in DOMAIN new : (j \in DOMAIN old /\ new[j].tag = old[j].tag) \/ \E k : new[j].tag = NodeTag(k)

(* Every step leaves the template, keeps the serial numbers of rows that stay  *)
(* and gives new rows the next.                                                *)
LEMMA TablesRise ==
  ASSUME Rows, SerialsHold, [Next]_vars
  PROVE  /\ serial' \in {serial, serial + 1} /\ template' = template
         /\ Rising(inbounds, inbounds', serial) /\ Rising(nodes, nodes', serial) /\ Tagged(nodes, nodes')
<1>1. template' = template
  BY Zenon DEF Next, EditRules, ReorderRules, EditInbounds, EditGroups, Subscribe, EditNodes, Meter, Generate,
         OpenForm, NumberForm, CheckForm, FetchRow, SaveForm, DelRule, Reorder, PruneSubscriptionOrphans,
         AddInbound, DelInbound, SwitchInbound, AddGroup, DelGroup, UpdateGroup, EndFetch,
         AddNode, DelNode, UpdateNode,
         StartFetch, Recompute, PruneMeterOrphans, StartGeneration, ReadTags, ReadPool, ReadNodes,
         ReadRules, ReadGroups, ReadRegions, GenerationFails, Read, tables, vars
<1>2. \A table : Rising(table, table, serial) /\ Tagged(table, table)
  BY DEF Rising, Tagged
<1>3. CASE UNCHANGED <<inbounds, nodes, serial>>
  BY <1>1, <1>2, <1>3
<1>4. ASSUME NEW geo, AddInbound(geo)
     PROVE serial' = serial + 1 /\ nodes' = nodes /\ Rising(inbounds, inbounds', serial)
  <2> DEFINE row == [born |-> serial', enable |-> TRUE, geo |-> geo]
             id == NextId(inbounds)
  <2>1. serial' = serial + 1 /\ nodes' = nodes /\ inbounds' = With(inbounds, id, row)
    BY <1>4 DEF AddInbound
  <2>2. row.born = serial + 1
    BY <2>1
  <2> HIDE DEF id, row
  <2> QED BY <2>1, <2>2 DEF With, Rising
<1>5. ASSUME NEW id \in DOMAIN inbounds, DelInbound(id) \/ SwitchInbound(id)
      PROVE  serial' = serial /\ nodes' = nodes /\ Rising(inbounds, inbounds', serial)
  <2>1. UNCHANGED <<nodes, serial>>
    BY <1>5 DEF DelInbound, SwitchInbound
  <2>2. DOMAIN inbounds' \subseteq DOMAIN inbounds /\ \A i \in DOMAIN inbounds' : inbounds'[i].born = inbounds[i].born
    BY <1>5 DEF DelInbound, SwitchInbound, Without, Restrict, Rows
  <2> QED BY <2>1, <2>2 DEF Rising
<1>6. ASSUME AddNode PROVE /\ serial' = serial + 1 /\ inbounds' = inbounds
                           /\ Rising(nodes, nodes', serial) /\ Tagged(nodes, nodes')
  <2> DEFINE row == [born |-> serial', tag |-> AllocTag, enable |-> TRUE, sound |-> TRUE]
             id == NextId(nodes)
  <2>1. serial' = serial + 1 /\ inbounds' = inbounds /\ nodes' = With(nodes, id, row)
    BY <1>6 DEF AddNode
  <2>2. row.born = serial + 1 /\ row.tag = AllocTag
    BY <2>1
  <2>3. \E k : AllocTag = NodeTag(k)
    BY DEF AllocTag
  <2> HIDE DEF id, row
  <2>4. DOMAIN nodes' = DOMAIN nodes \cup {id} /\ \A j \in DOMAIN nodes' : nodes'[j] = IF j = id THEN row ELSE nodes[j]
    BY <2>1 DEF With
  <2>5. Rising(nodes, nodes', serial)
    BY <2>2, <2>4 DEF Rising
  <2>6. Tagged(nodes, nodes')
    BY <2>2, <2>3, <2>4 DEF Tagged
  <2> QED BY <2>1, <2>5, <2>6
<1>7. ASSUME NEW id \in DOMAIN nodes, DelNode(id) \/ \E e, n \in BOOLEAN : UpdateNode(id, e, n)
      PROVE  serial' = serial /\ inbounds' = inbounds /\ Rising(nodes, nodes', serial) /\ Tagged(nodes, nodes')
  <2>1. UNCHANGED <<inbounds, serial>>
    BY <1>7 DEF DelNode, UpdateNode
  <2>2. /\ DOMAIN nodes' \subseteq DOMAIN nodes
        /\ \A n \in DOMAIN nodes' : nodes'[n].born = nodes[n].born /\ nodes'[n].tag = nodes[n].tag
    <3>1. CASE DelNode(id)
      BY <3>1 DEF DelNode, Without, Restrict
    <3>2. ASSUME NEW e, NEW n, UpdateNode(id, e, n)
          PROVE  /\ DOMAIN nodes' = DOMAIN nodes
                 /\ \A i \in DOMAIN nodes : nodes'[i].born = nodes[i].born /\ nodes'[i].tag = nodes[i].tag
      BY <3>2 DEF UpdateNode, Rows
    <3> QED BY <1>7, <3>1, <3>2
  <2> QED BY <2>1, <2>2 DEF Rising, Tagged
<1>8. ASSUME \/ \E d \in GroupDrafts : AddGroup(d)
             \/ \E id \in DOMAIN groups : DelGroup(id) \/ \E d \in GroupDrafts : UpdateGroup(id, d)
             \/ \E ok : EndFetch(ok)
      PROVE  serial' \in {serial, serial + 1} /\ UNCHANGED <<inbounds, nodes>>
  BY <1>8, Zenon DEF AddGroup, DelGroup, UpdateGroup, EndFetch
<1>9. [Next]_vars =>
        \/ UNCHANGED <<inbounds, groups, nodes, serial>>
        \/ \E geo \in BOOLEAN : AddInbound(geo)
        \/ \E id \in DOMAIN inbounds : DelInbound(id) \/ SwitchInbound(id)
        \/ \E d \in GroupDrafts : AddGroup(d)
        \/ \E id \in DOMAIN groups : DelGroup(id) \/ \E d \in GroupDrafts : UpdateGroup(id, d)
        \/ \E ok : EndFetch(ok)
        \/ AddNode
        \/ \E id \in DOMAIN nodes : DelNode(id) \/ \E e, n \in BOOLEAN : UpdateNode(id, e, n)
  BY DEF Next, EditRules, ReorderRules, EditInbounds, EditGroups, Subscribe, EditNodes, Meter, Generate,
         OpenForm, NumberForm, CheckForm, FetchRow, SaveForm, DelRule, Reorder, PruneSubscriptionOrphans,
         StartFetch, Recompute, PruneMeterOrphans, StartGeneration, ReadTags, ReadPool, ReadNodes,
         ReadRules, ReadGroups, ReadRegions, GenerationFails, Read, tables, vars
<1> QED BY <1>1, <1>2, <1>3, <1>4, <1>5, <1>6, <1>7, <1>8, <1>9

(* What was told apart stays so: nothing is given an old number again.           *)
LEMMA KnownStays ==
  ASSUME NEW old, NEW new, NEW n \in Nat, NEW m \in {n, n + 1}, Rising(old, new, n),
         \A a, b \in DOMAIN old : old[a].born = old[b].born => a = b,
         NEW born, NEW id, Known(born, id, old, n)
  PROVE  Known(born, id, new, m) /\ (born \notin Born(old) => born \notin Born(new))
<1>1. born \in 1..n /\ born # n + 1 /\ born \in 1..m
  BY DEF Known
<1>2. ASSUME NEW j \in DOMAIN new, new[j].born = born PROVE j \in DOMAIN old /\ old[j].born = born
  BY <1>1, <1>2 DEF Rising
<1>3. ASSUME born \in Born(new) PROVE born \in Born(old) /\ id \in DOMAIN new /\ new[id].born = born
  <2>1. PICK j \in DOMAIN new : new[j].born = born
    BY <1>3 DEF Born
  <2>2. j \in DOMAIN old /\ old[j].born = born
    BY <1>2, <2>1
  <2>3. born \in Born(old)
    BY <2>2 DEF Born
  <2>4. id = j
    BY <2>2, <2>3 DEF Known
  <2> QED BY <2>1, <2>3, <2>4
<1> QED BY <1>1, <1>3 DEF Known

(* Requests and jobs, whatever they write. *)
LEMMA GenStays ==
  ASSUME TypeInv, Stages, GenFits, GenKnows, gen' = gen, template' = template, serial' \in {serial, serial + 1},
         Rising(inbounds, inbounds', serial), Rising(nodes, nodes', serial), GenShape
  PROVE  (Stages /\ GenFits /\ GenKnows)'
<1>1. /\ serial \in Nat
      /\ \A a, b \in DOMAIN inbounds : inbounds[a].born = inbounds[b].born => a = b
      /\ \A a, b \in DOMAIN nodes : nodes[a].born = nodes[b].born => a = b
  BY DEF TypeInv, SerialsHold, ToldApart
<1>2. Stages'
  <2>1. Inject(template, gen)' = Inject(template, gen)
    OBVIOUS
  <2> QED BY <2>1 DEF Stages
<1>3. GenFits'
  BY DEF GenFits
<1>4. ASSUME "tags" \in DOMAIN gen, NEW i \in DOMAIN gen.tags
      PROVE  /\ Known(gen.tags[i], i, inbounds', serial')
             /\ gen.tags[i] \notin Born(inbounds) => gen.tags[i] \notin Born(inbounds')
  <2>1. Known(gen.tags[i], i, inbounds, serial)
    BY <1>4 DEF GenKnows
  <2> QED BY <1>1, <2>1, KnownStays
<1>5. ASSUME "nodes" \in DOMAIN gen, NEW n \in DOMAIN gen.nodes
      PROVE  /\ Known(gen.nodes[n].born, n, nodes', serial')
             /\ gen.nodes[n].born \notin Born(nodes) => gen.nodes[n].born \notin Born(nodes')
  <2>1. Known(gen.nodes[n].born, n, nodes, serial)
    BY <1>5 DEF GenKnows
  <2> QED BY <1>1, <2>1, KnownStays
<1>6. ASSUME "rules" \in DOMAIN gen, NEW r \in DOMAIN gen.rules, gen.rules[r].sure
      PROVE  MeansStill(gen.rules[r], gen.tags, gen.nodes, inbounds', nodes')
  <2>1. MeansStill(gen.rules[r], gen.tags, gen.nodes, inbounds, nodes)
    BY <1>6 DEF GenKnows
  <2>2. "tags" \in DOMAIN gen /\ "nodes" \in DOMAIN gen
    <3>1. gen.at \in {"idle", "tags", "pool", "nodes", "rules", "groups", "regions", "done"}
      BY DEF TypeInv, FlagsTyped
    <3> QED BY <1>6, <3>1 DEF GenShape, Stages
  <2> QED BY <1>4, <1>5, <2>1, <2>2 DEF MeansStill
<1>7. GenKnows'
  BY <1>4, <1>5, <1>6 DEF GenKnows
<1> QED BY <1>2, <1>3, <1>7

(* The tables keep what a generation may rely on. *)
LEMMA TablesKeepFit ==
  ASSUME TablesFit, Rows', SerialsHold', template' = template, Tagged(nodes, nodes'), [Next]_vars
  PROVE  TablesFit'
<1>1. TemplateHolds(template)'
  BY DEF TablesFit
<1>2. PoolFits(pool)'
  <2>1. ASSUME NEW less, less \subseteq pool PROVE PoolFits(less)
    BY <2>1, FS_Subset DEF TablesFit, PoolFits
  <2>2. ASSUME NEW id, DelInbound(id) PROVE pool' \subseteq pool
    BY <2>2 DEF DelInbound
  <2>3. ASSUME NEW chosen \in Pools, Recompute(chosen) PROVE PoolFits(pool')
    <3>1. pool' \subseteq pool \cup chosen
      BY <2>3 DEF Recompute
    <3>2. PoolFits(chosen) /\ PoolFits(pool)
      BY PoolsAssumption DEF PoolsAssumption, PoolFits, TablesFit
    <3>3. IsFiniteSet(pool \cup chosen)
      BY <3>2, FS_Union DEF PoolFits
    <3> QED BY <3>1, <3>2, <3>3, FS_Subset DEF PoolFits
  <2>4. PruneMeterOrphans => pool' \subseteq pool
    BY DEF PruneMeterOrphans
  <2>5. \/ pool' = pool \/ \E id \in DOMAIN inbounds : DelInbound(id)
        \/ \E chosen \in Pools : Recompute(chosen)
        \/ PruneMeterOrphans
    BY Zenon DEF Next, EditRules, ReorderRules, EditInbounds, EditGroups, Subscribe, EditNodes, Meter, Generate,
           OpenForm, NumberForm, CheckForm, FetchRow, SaveForm, DelRule, Reorder, PruneSubscriptionOrphans,
           AddInbound, SwitchInbound, AddGroup, DelGroup, UpdateGroup, EndFetch, AddNode, DelNode, UpdateNode,
           StartFetch, StartGeneration, ReadTags, ReadPool, ReadNodes,
           ReadRules, ReadGroups, ReadRegions, GenerationFails, Read, tables, vars
  <2> QED BY <2>1, <2>2, <2>3, <2>4, <2>5
<1>3. ASSUME NEW i \in DOMAIN template.outbounds, NEW n \in DOMAIN nodes'
      PROVE  nodes'[n].tag # template.outbounds[i].tag
  <2> DEFINE tag == template.outbounds[i].tag
  <2>1. TagOfItsOwn(tag)
    BY DEF TablesFit, TemplateHolds
  <2>2. \A k : NodeTag(k) # tag
    BY <2>1 DEF TagOfItsOwn, NodeTag, Untagged
  <2>3. n \in DOMAIN nodes => nodes[n].tag # tag
    BY DEF TablesFit, NodesFit
  <2> QED BY <2>2, <2>3 DEF Tagged
<1>4. NodesFit(nodes, template)'
  BY <1>3 DEF NodesFit, Rows, SerialsHold
<1> QED BY <1>1, <1>2, <1>4 DEF TablesFit

(* A generation under way: its reads. *)
LEMMA TagsRead ==
  ASSUME RuleInv, TypeInv, FlagInv, ReadInv, ReadTags
  PROVE  (Stages /\ GenFits /\ GenKnows)'
<1>1. gen.at = "tags" /\ DOMAIN gen = {"at", "served"}
  BY DEF ReadTags, Read, FlagInv, GenShape
<1>2. /\ gen'.at = "pool" /\ gen'.tags = EnabledInboundTags(inbounds) /\ DOMAIN gen' = {"at", "served", "tags"}
      /\ UNCHANGED <<inbounds, serial>>
  <2>1. Read("tags", "pool", "tags", EnabledInboundTags(inbounds))
    BY DEF ReadTags
  <2>2. "at" \in DOMAIN gen /\ "tags" \notin DOMAIN gen
    BY <1>1
  <2>3. /\ gen'.at = "pool" /\ gen'["tags"] = EnabledInboundTags(inbounds) /\ DOMAIN gen' = DOMAIN gen \cup {"tags"}
        /\ \A f \in DOMAIN gen \ {"at"} : gen'[f] = gen[f]
    BY <2>1, <2>2, ReadAdds
  <2>4. UNCHANGED <<inbounds, nodes, serial, template>>
    BY <2>1 DEF Read, tables
  <2> QED BY <1>1, <2>3, <2>4
<1>3. ASSUME NEW i \in DOMAIN gen'.tags PROVE i \in DOMAIN inbounds /\ gen'.tags[i] = inbounds[i].born
  BY <1>2 DEF EnabledInboundTags
<1>4. TagsFit(gen'.tags)
  BY <1>3 DEF TagsFit, TypeInv, SerialsHold, ToldApart
<1>5. \A i \in DOMAIN gen'.tags : Known(gen'.tags[i], i, inbounds, serial)
  BY <1>3 DEF Known, Born, TypeInv, SerialsHold
<1>6. Stages'
  BY <1>2 DEF Stages
<1> QED BY <1>2, <1>4, <1>5, <1>6 DEF GenFits, GenKnows

LEMMA PoolRead ==
  ASSUME FlagInv, ReadInv, ReadPool
  PROVE  (Stages /\ GenFits /\ GenKnows)'
<1>1. gen.at = "pool" /\ DOMAIN gen = {"at", "served", "tags"}
  BY DEF ReadPool, FlagInv, GenShape
<1>2. PICK p \in {pool, {}} : gen' = With([gen EXCEPT !.at = "nodes"], "pool", p)
  BY DEF ReadPool
<1>3. /\ gen'.at = "nodes" /\ gen'.pool = p /\ gen'.tags = gen.tags /\ DOMAIN gen' = {"at", "served", "tags", "pool"}
      /\ UNCHANGED <<inbounds, serial>>
  BY <1>1, <1>2 DEF ReadPool, With, tables
<1>4. PoolFits(p)
  BY FS_EmptySet DEF ReadInv, TablesFit, PoolFits
<1>5. TagsFit(gen'.tags) /\ \A i \in DOMAIN gen'.tags : Known(gen'.tags[i], i, inbounds, serial)
  BY <1>1, <1>3 DEF ReadInv, GenFits, GenKnows
<1>6. Stages'
  BY <1>3 DEF Stages
<1> QED BY <1>3, <1>4, <1>5, <1>6 DEF GenFits, GenKnows

LEMMA NodesRead ==
  ASSUME TypeInv, FlagInv, ReadInv, ReadNodes
  PROVE  (Stages /\ GenFits /\ GenKnows)'
<1>1. gen.at = "nodes" /\ DOMAIN gen = {"at", "served", "tags", "pool"}
  BY DEF ReadNodes, Read, FlagInv, GenShape
<1>2. /\ gen'.at = "rules" /\ gen'.nodes = nodes /\ DOMAIN gen' = {"at", "served", "tags", "pool", "nodes"}
      /\ gen'.tags = gen.tags /\ gen'.pool = gen.pool
      /\ UNCHANGED <<inbounds, nodes, serial, template>>
  <2>1. Read("nodes", "rules", "nodes", nodes)
    BY DEF ReadNodes
  <2>2. "at" \in DOMAIN gen /\ "nodes" \notin DOMAIN gen
    BY <1>1
  <2>3. /\ gen'.at = "rules" /\ gen'["nodes"] = nodes /\ DOMAIN gen' = DOMAIN gen \cup {"nodes"}
        /\ \A f \in DOMAIN gen \ {"at"} : gen'[f] = gen[f]
    BY <2>1, <2>2, ReadAdds
  <2>4. UNCHANGED <<inbounds, nodes, serial, template>>
    BY <2>1 DEF Read, tables
  <2> QED BY <1>1, <2>3, <2>4
<1>3. TagsFit(gen.tags) /\ PoolFits(gen.pool) /\ \A i \in DOMAIN gen.tags : Known(gen.tags[i], i, inbounds, serial)
  BY <1>1 DEF ReadInv, GenFits, GenKnows
<1>4. NodesFit(nodes, template)
  BY DEF ReadInv, TablesFit
<1>5. \A n \in DOMAIN nodes : Known(nodes[n].born, n, nodes, serial)
  BY DEF Known, Born, TypeInv, SerialsHold
<1>6. Stages'
  BY <1>2 DEF Stages
<1> QED BY <1>2, <1>3, <1>4, <1>5, <1>6 DEF GenFits, GenKnows

LEMMA RulesRead ==
  ASSUME RuleInv, FlagInv, ReadInv, ReadRules
  PROVE  (Stages /\ GenFits /\ GenKnows)'
<1>1. gen.at = "rules" /\ DOMAIN gen = {"at", "served", "tags", "pool", "nodes"}
  BY DEF ReadRules, Read, FlagInv, GenShape
<1>2. /\ gen'.at = "groups" /\ gen'.rules = rules /\ DOMAIN gen' = {"at", "served", "tags", "pool", "nodes", "rules"}
      /\ gen'.tags = gen.tags /\ gen'.pool = gen.pool /\ gen'.nodes = gen.nodes
      /\ UNCHANGED <<inbounds, nodes, serial, template>>
  <2>1. Read("rules", "groups", "rules", rules)
    BY DEF ReadRules
  <2>2. "at" \in DOMAIN gen /\ "rules" \notin DOMAIN gen
    BY <1>1
  <2>3. /\ gen'.at = "groups" /\ gen'["rules"] = rules /\ DOMAIN gen' = DOMAIN gen \cup {"rules"}
        /\ \A f \in DOMAIN gen \ {"at"} : gen'[f] = gen[f]
    BY <2>1, <2>2, ReadAdds
  <2>4. UNCHANGED <<inbounds, nodes, serial, template>>
    BY <2>1 DEF Read, tables
  <2> QED BY <1>1, <2>3, <2>4
<1>3. /\ TagsFit(gen.tags) /\ PoolFits(gen.pool) /\ NodesFit(gen.nodes, template)
      /\ \A i \in DOMAIN gen.tags : Known(gen.tags[i], i, inbounds, serial)
      /\ \A n \in DOMAIN gen.nodes : Known(gen.nodes[n].born, n, nodes, serial)
  BY <1>1 DEF ReadInv, GenFits, GenKnows
<1>4. RulesFit(rules)
  BY DEF RuleInv, Rows, RulesFit
<1>5. ASSUME NEW r \in DOMAIN rules, rules[r].sure
      PROVE  MeansStill(rules[r], gen.tags, gen.nodes, inbounds, nodes)
  <2>1. MeansWhatWasChosen(rules[r], inbounds, groups, nodes)
    BY <1>5 DEF RuleInv, RulesMeanWhatWasChosen
  <2> QED BY <1>3, <2>1 DEF MeansWhatWasChosen, MeansStill, Known
<1>6. Stages'
  BY <1>2 DEF Stages
<1> QED BY <1>2, <1>3, <1>4, <1>5, <1>6 DEF GenFits, GenKnows

LEMMA GroupsRead ==
  ASSUME FlagInv, ReadInv, ReadGroups
  PROVE  (Stages /\ GenFits /\ GenKnows)'
<1>1. gen.at = "groups" /\ DOMAIN gen = {"at", "served", "tags", "pool", "nodes", "rules"}
  BY DEF ReadGroups, Read, FlagInv, GenShape
<1>2. /\ gen'.at = "regions" /\ DOMAIN gen' = {"at", "served", "tags", "pool", "nodes", "rules", "groups"}
      /\ gen'.tags = gen.tags /\ gen'.pool = gen.pool /\ gen'.nodes = gen.nodes /\ gen'.rules = gen.rules
      /\ UNCHANGED <<inbounds, nodes, serial, template>>
  <2>1. Read("groups", "regions", "groups", groups)
    BY DEF ReadGroups
  <2>2. "at" \in DOMAIN gen /\ "groups" \notin DOMAIN gen
    BY <1>1
  <2>3. /\ gen'.at = "regions" /\ gen'["groups"] = groups /\ DOMAIN gen' = DOMAIN gen \cup {"groups"}
        /\ \A f \in DOMAIN gen \ {"at"} : gen'[f] = gen[f]
    BY <2>1, <2>2, ReadAdds
  <2>4. UNCHANGED <<inbounds, nodes, serial, template>>
    BY <2>1 DEF Read, tables
  <2> QED BY <1>1, <2>3, <2>4
<1>3. GenFits'
  BY <1>1, <1>2 DEF ReadInv, GenFits
<1>4. GenKnows'
  BY <1>1, <1>2 DEF ReadInv, GenKnows
<1>5. Stages'
  BY <1>2 DEF Stages
<1> QED BY <1>3, <1>4, <1>5

LEMMA RegionsRead ==
  ASSUME RuleInv, FlagInv, ReadInv, ReadRegions
  PROVE  (Stages /\ GenFits /\ GenKnows)'
<1> DEFINE read == With([gen EXCEPT !.at = "done"], "regions", inbounds)
<1>1. gen.at = "regions" /\ DOMAIN gen = {"at", "served", "tags", "pool", "nodes", "rules", "groups"}
  BY DEF ReadRegions, FlagInv, GenShape
<1>2. /\ DOMAIN read = DOMAIN gen \cup {"regions"} /\ read.at = "done" /\ read.regions = inbounds
      /\ \A f \in DOMAIN gen \ {"at"} : read[f] = gen[f]
  BY <1>1 DEF With
<1>3. gen' = With(read, "config", Inject(template, read)) /\ UNCHANGED <<inbounds, nodes, serial, template>>
  BY DEF ReadRegions, tables
<1> HIDE DEF read
<1>4. /\ gen'.at = "done" /\ gen'.config = Inject(template, read) /\ gen'.regions = inbounds
      /\ gen'.tags = gen.tags /\ gen'.pool = gen.pool /\ gen'.nodes = gen.nodes /\ gen'.rules = gen.rules
      /\ gen'.groups = gen.groups
      /\ DOMAIN gen' = {"at", "served", "tags", "pool", "nodes", "rules", "groups", "regions", "config"}
  BY <1>1, <1>2, <1>3 DEF With
<1>5. /\ read.tags = gen.tags /\ read.pool = gen.pool /\ read.nodes = gen.nodes /\ read.rules = gen.rules
      /\ read.groups = gen.groups
  BY <1>1, <1>2
<1>6. Inject(template, gen') = Inject(template, read)
  BY <1>2, <1>4, <1>5, InjectDepends
<1>7. Numbered(gen'.regions)
  BY <1>4 DEF RuleInv, Rows
<1>8. Stages'
  BY <1>3, <1>4, <1>6, <1>7 DEF Stages
<1>9. GenFits'
  BY <1>1, <1>3, <1>4 DEF ReadInv, GenFits
<1>10. GenKnows'
  BY <1>1, <1>3, <1>4 DEF ReadInv, GenKnows
<1> QED BY <1>8, <1>9, <1>10

LEMMA NewGeneration ==
  ASSUME StartGeneration \/ GenerationFails
  PROVE  (Stages /\ GenFits /\ GenKnows)'
<1>1. /\ gen'.at \in {"idle", "tags"}
      /\ DOMAIN gen' \subseteq {"at", "served"}
      /\ gen'.at = "idle" => DOMAIN gen' = {"at"}
  BY DEF StartGeneration, GenerationFails, NoGen
<1> QED BY <1>1 DEF Stages, GenFits, GenKnows

(* The invariant of generations. *)
LEMMA ReadInvAlways == Spec => []ReadInv
<1>1. Init => ReadInv
  <2> SUFFICES ASSUME Init PROVE ReadInv
    OBVIOUS
  <2>1. PICK s \in Starts : nodes = s.nodes /\ pool = s.pool /\ template = s.template /\ gen = NoGen
    BY DEF Init
  <2>2. TemplateHolds(template)
    BY <2>1, TemplatesAssumption DEF TemplatesAssumption, TemplateHolds
  <2>3. PoolFits(pool)
    BY <2>1, PoolsAssumption DEF PoolsAssumption, PoolFits
  <2>4. NodesFit(nodes, template)
    <3>1. Numbered(nodes) /\ TagsDiffer(nodes)
      BY <2>1, StartsAssumption DEF StartsAssumption
    <3>2. \A i \in DOMAIN template.outbounds, n \in DOMAIN nodes : nodes[n].tag # template.outbounds[i].tag
      BY <2>1, TemplatesAssumption DEF TemplatesAssumption
    <3> QED BY <3>1, <3>2 DEF NodesFit
  <2>5. Stages /\ GenFits /\ GenKnows
    BY <2>1 DEF NoGen, Stages, GenFits, GenKnows
  <2> QED BY <2>2, <2>3, <2>4, <2>5 DEF ReadInv, TablesFit
<1>2. RuleInv /\ TypeInv /\ FlagInv /\ ReadInv /\ RuleInv' /\ TypeInv' /\ [Next]_vars => ReadInv'
  <2> SUFFICES ASSUME RuleInv, TypeInv, FlagInv, ReadInv, RuleInv', TypeInv', [Next]_vars PROVE ReadInv'
    OBVIOUS
  <2>1. /\ serial' \in {serial, serial + 1} /\ template' = template
        /\ Rising(inbounds, inbounds', serial) /\ Rising(nodes, nodes', serial) /\ Tagged(nodes, nodes')
    BY TablesRise DEF RuleInv, TypeInv
  <2>2. TablesFit'
    <3>1. Rows' /\ SerialsHold'
      BY DEF RuleInv, TypeInv
    <3> QED BY <2>1, <3>1, TablesKeepFit DEF ReadInv
  <2>3. gen' = gen \/ Generate
    BY Zenon DEF Next, EditRules, ReorderRules, EditInbounds, EditGroups, Subscribe, EditNodes, Meter,
           OpenForm, NumberForm, CheckForm, FetchRow, SaveForm, DelRule, Reorder, PruneSubscriptionOrphans,
           AddInbound, DelInbound, SwitchInbound, AddGroup, DelGroup, UpdateGroup, EndFetch,
           AddNode, DelNode, UpdateNode, StartFetch, Recompute, PruneMeterOrphans, vars
  <2>4. gen' = gen => (Stages /\ GenFits /\ GenKnows)'
    BY <2>1, GenStays DEF ReadInv, FlagInv
  <2>5. Generate => (Stages /\ GenFits /\ GenKnows)'
    BY TagsRead, PoolRead, NodesRead, RulesRead, GroupsRead, RegionsRead, NewGeneration DEF Generate
  <2> QED BY <2>2, <2>3, <2>4, <2>5 DEF ReadInv
<1> QED BY <1>1, <1>2, RuleInvAlways, TypeInvAlways, FlagInvAlways, PTL DEF Spec

(* A generation that is done has loaded what the lemmas about injection ask    *)
(* for.                                                                        *)
LEMMA DoneLoaded == ReadInv /\ gen.at = "done" => Loaded
<1> SUFFICES ASSUME ReadInv, gen.at = "done" PROVE Loaded
  OBVIOUS
<1>1. /\ DOMAIN gen = {"at", "served", "tags", "pool", "nodes", "rules", "groups", "regions", "config"}
      /\ Numbered(gen.regions) /\ gen.config = Inject(template, gen)
  BY DEF ReadInv, Stages
<1>2. TagsFit(gen.tags) /\ PoolFits(gen.pool) /\ NodesFit(gen.nodes, template) /\ RulesFit(gen.rules)
  BY <1>1 DEF ReadInv, GenFits
<1> DEFINE R == Live(gen)
<1>3. /\ R.tags = gen.tags /\ R.nodes = gen.nodes /\ R.rules = gen.rules /\ R.regions = gen.regions
      /\ R.pool \subseteq gen.pool
  BY DEF Live, FilterMeterPool
<1> HIDE DEF R
<1>4. IsFiniteSet(R.pool) /\ R.pool \subseteq Nat \X (Domains \cup Addresses)
  BY <1>2, <1>3, FS_Subset DEF PoolFits
<1>5. TemplateHolds(template)
  BY DEF ReadInv, TablesFit
<1>6. Given(template, R)
  BY <1>1, <1>2, <1>3, <1>4, <1>5 DEF Given, TagsFit, NodesFit, RulesFit
<1> QED BY <1>1, <1>6 DEF Loaded, R

(* A rule that covers a user moves him on his own account. *)
LEMMA Moves ==
  ASSUME Loaded, GenKnows, NEW i \in DOMAIN gen.tags, gen.tags[i] \in Born(inbounds),
         NEW t, NEW acts, NEW resolved, NEW r \in Reachers(acts, template, Live(gen), i, t, resolved)
  PROVE  MovedFor(i, t)
<1> DEFINE R == Live(gen)
           rule == gen.rules[r]
           node == gen.nodes[rule.node].born
<1>1. R.tags = gen.tags /\ R.nodes = gen.nodes /\ R.groups = gen.groups /\ R.rules = gen.rules
  BY DEF Live
<1>2. /\ r \in DOMAIN gen.rules /\ rule.enable /\ (rule.inbounds = {} \/ i \in rule.inbounds)
      /\ Reach(rule, t, resolved, gen.groups) /\ Served(rule, template, R)
  BY <1>1 DEF Reachers
<1>3. r \in Servable
  BY <1>1, <1>2 DEF Servable, Served
<1>4. Names(rule, t, TRUE)
  BY <1>2 DEF Names, Reach
<1>5. ASSUME rule.sure
      PROVE  /\ rule.meant.users = {} \/ gen.tags[i] \in rule.meant.users
             /\ rule.action = "proxy" => node = rule.meant.node \/ node \notin Born(nodes)
  <2>1. MeansStill(rule, gen.tags, gen.nodes, inbounds, nodes)
    BY <1>2, <1>5 DEF GenKnows, Loaded
  <2>2. rule.action = "proxy" => rule.node \in DOMAIN gen.nodes
    BY <1>1, <1>2 DEF Served, Usable
  <2>3. rule.inbounds = {} \/ i \in rule.inbounds
    BY <1>2
  <2> HIDE DEF rule
  <2>4. rule.meant.users = {} \/ gen.tags[i] \in rule.meant.users
    BY <2>1, <2>3 DEF MeansStill
  <2>5. rule.action = "proxy" => node = rule.meant.node \/ node \notin Born(nodes)
    BY <2>1, <2>2 DEF MeansStill
  <2> QED BY <2>4, <2>5
<1> QED BY <1>2, <1>3, <1>4, <1>5 DEF MovedFor

(* Whoever is sent elsewhere than by the template alone is denied by region or *)
(* moved by a rule of his own.                                                 *)
LEMMA MovedOnOwnAccount ==
  ASSUME Loaded, GenKnows, NEW i \in DOMAIN gen.tags, gen.tags[i] \in Born(inbounds),
      NEW t \in Targets, NEW s \in Sources,
         Via(gen.config, i, t, s) # Via(Bare, i, t, s)
  PROVE  (s # "home" /\ Via(gen.config, i, t, s) = Blackhole) \/ MovedFor(i, t)
<1> DEFINE T == template
           R == Live(gen)
           Q == Live(BareRead)
           outs == BuildOutbounds(T, gen.nodes)
           start == Strategy(T) = "IPOnDemand"
           again == Strategy(T) = "IPIfNonMatch"
           ruling(resolved) == Ruling(T, R, i, t, s, resolved)
           own(resolved) == OwnOf(i, t, s, resolved)
           D == Decision(T, R, i, t, s)
           E == Decision(T, Q, i, t, s)
           out == Dispatch(gen.config, gen.tags[i], t, s)
           bare == Dispatch(Bare, gen.tags[i], t, s)
<1>1. Given(T, R) /\ R.tags = gen.tags /\ R.nodes = gen.nodes /\ gen.config = Inject(T, gen)
  BY DEF Loaded, Live
<1>2. /\ D = {} => out.via = outs[1].via
      /\ E = {} => bare.via = outs[1].via
      /\ D # {} /\ D = E => out = bare
      /\ \A via : Lands(D, outs, via) => out.via = via
  BY OnceDecided
<1>3. D = IF ruling(start) = {} /\ again THEN ruling(TRUE) ELSE ruling(start)
  BY DEF Decision
<1>4. E = IF own(start) = {} /\ again THEN own(TRUE) ELSE own(start)
  BY BareDecides
<1>5. ASSUME NEW resolved PROVE own(resolved) # {} => ruling(resolved) = own(resolved)
  BY ToldLands
<1>6. ASSUME NEW resolved, ruling(resolved) # {}, own(resolved) = {}, D = ruling(resolved)
      PROVE  (s # "home" /\ out.via = Blackhole) \/ MovedFor(i, t)
  <2> DEFINE v == ruling(resolved)
             mine == Verdict(T.rules, Asked(R, i, t, s, resolved))
             o == BuildOutbounds(T, R.nodes)
             denied == Denied(R, i, s)
             blocks == Blocks(T, R, i, t, resolved)
             routes == Routes(T, R, i, t, resolved)
             first == Foremost(routes, R.rules)
  <2>1. mine = own(resolved) /\ o = outs /\ i \in DOMAIN R.tags
    BY <1>1 DEF OwnOf
  <2>2. Settled(T, R, i, t, s, resolved)
    <3> HIDE DEF R, T
    <3> QED BY <1>1, <2>1, RulingLands
  <2>3. /\ mine = {} /\ (denied \/ blocks # {}) => Lands(v, o, Blackhole)
        /\ mine = {} /\ ~(denied \/ blocks # {}) /\ routes = {} => v = {}
        /\ mine = {} /\ ~(denied \/ blocks # {}) /\ routes # {} => first \in routes
    BY <2>2 DEF Settled
  <2>4. denied => s # "home"
    BY DEF Denied
  <2>5. \A r \in blocks \cup routes : MovedFor(i, t)
    <3>1. \A r \in blocks : MovedFor(i, t)
      BY Moves DEF Blocks
    <3>2. \A r \in routes : MovedFor(i, t)
      BY Moves DEF Routes
    <3> QED BY <3>1, <3>2
  <2>6. mine = {} /\ v # {} /\ D = v
    BY <1>6, <2>1
  <2> HIDE DEF v, mine, o, outs, own, denied, blocks, routes, first, D, out
  <2>7. CASE denied
    BY <1>2, <2>1, <2>3, <2>4, <2>6, <2>7
  <2>8. CASE blocks # {}
    BY <2>5, <2>8
  <2>9. CASE ~denied /\ blocks = {}
    BY <2>3, <2>5, <2>6, <2>9
  <2> QED BY <2>7, <2>8, <2>9
<1>7. Via(gen.config, i, t, s) = out.via /\ Via(Bare, i, t, s) = bare.via
  BY DEF Via
<1> HIDE DEF T, R, Q, outs, start, again, ruling, own, D, E, out, bare
<1>8. D # {} /\ D # E
  <2>1. D = {} => E = {}
    BY <1>3, <1>4, <1>5
  <2> QED BY <1>2, <1>7, <2>1
<1>9. \/ D = ruling(start) /\ own(start) = {}
      \/ D = ruling(TRUE) /\ own(TRUE) = {}
  BY <1>3, <1>4, <1>5, <1>8
<1> QED BY <1>6, <1>7, <1>8, <1>9

(* A configuration of what was read moves nobody by the rule of another. *)
LEMMA LoadedMoves == Loaded /\ GenKnows => NobodyElsesRule
<1> SUFFICES ASSUME Loaded, GenKnows PROVE NobodyElsesRule
  OBVIOUS
<1>1. \A t \in Reachable : t \in Targets
  BY DEF Reachable
<1>2. \A i \in DOMAIN gen.tags, t \in Reachable, s \in Sources :
        gen.tags[i] \in Born(inbounds) /\ Via(gen.config, i, t, s) # Via(Bare, i, t, s)
          => (s # "home" /\ Via(gen.config, i, t, s) = Blackhole) \/ MovedFor(i, t)
  BY <1>1, MovedOnOwnAccount
<1> QED BY <1>2 DEF NobodyElsesRule, Everywhere

(* Every configuration a generation comes to, whatever was written between its  *)
(* reads, names no outbound that is not there and gives no tag twice, and sends *)
(* every connection where the administrator was told: the template first, then  *)
(* denials by region, then blocks, then the first of the other rules by         *)
(* priority that covers the user, names the target and can be served            *)
(* (Inject and the four builders).                                              *)
THEOREM RulesAlwaysDecide == Spec => []RulesDecide
<1>1. ReadInv => RulesDecide
  <2>1. gen.at # "done" => RulesDecide
    BY DEF RulesDecide, NoDanglingTag, Everywhere
  <2> QED BY <2>1, DoneLoaded, LoadedDecides
<1> QED BY <1>1, ReadInvAlways, PTL

(* Metering moves no connection (appendMeterOutbounds, buildMeterRules): with   *)
(* and without the pool it leaves by the same way, what a rule decides is not   *)
(* measured, and the rest is measured under its own name if that is in the      *)
(* pool, also where addresses have to be asked first (meterRuleNeedsIPGuard).   *)
THEOREM MeteringOnlyMeasures == Spec => []MeteringMovesNothing
<1>1. ReadInv => MeteringMovesNothing
  <2>1. gen.at # "done" => MeteringMovesNothing
    BY DEF MeteringMovesNothing, Everywhere
  <2> QED BY <2>1, DoneLoaded, LoadedMeters
<1> QED BY <1>1, ReadInvAlways, PTL

(* What sends a user who is still there elsewhere than the template does is a   *)
(* denial by region or a rule that was chosen for him and, if it names a node   *)
(* that is still there, goes to the node that was chosen, however often ids     *)
(* were given again between the reads of the generation.                        *)
THEOREM OnlyOwnRules == Spec => []NobodyElsesRule
<1>1. ReadInv => NobodyElsesRule
  <2>1. gen.at # "done" => NobodyElsesRule
    BY DEF NobodyElsesRule, Everywhere
  <2> QED BY <2>1, DoneLoaded, LoadedMoves DEF ReadInv
<1> QED BY <1>1, ReadInvAlways, PTL
=============================================================================
