-------------------------------- MODULE Routing --------------------------------
(***************************************************************************)
(* The tables that say where traffic goes, the requests and jobs that edit *)
(* them, and a generation of the configuration that reads them one after   *)
(* the other (web/service/routing_rule.go, routing_domain.go,              *)
(* routing_outbound.go, inbound.go, meter_pool.go, controller/routing.go). *)
(*                                                                         *)
(* A table is a function from ids to rows.  SQLite gives a new row the id  *)
(* after the largest in use, so an id comes back when the last row goes;   *)
(* the serial number born says which user, group or node a row really is.  *)
(* Requests run concurrently and hold no lock: the rule form is checked,   *)
(* fetched and saved in separate steps, a subscription is fetched for up   *)
(* to half a minute, and any other request or job, an atomic step, may     *)
(* come between.  A second rule form at the same time is left out.         *)
(***************************************************************************)
EXTENDS RoutingInject

CONSTANTS
  Starts,       \* tables, template and bounds to start from
  Drafts,       \* what the rule form may say: [inbounds, groups, action, node, apply, enable]
  GroupDrafts,  \* what the group form may say: [domains, cidrs, urls]
  Pools         \* what a round of the meter pool may choose

(* Addresses of groups are addresses that serve something; the groups a start  *)
(* holds have been numbered and have nothing by subscription yet.              *)
ASSUME GroupsAssumption ==
  /\ GroupDrafts \subseteq [domains : SUBSET Domains, cidrs : SUBSET Addresses, urls : SUBSET DOMAIN Feed]
  /\ \A s \in Starts :
       /\ s.serial \in Nat
       /\ s.groups \in [DOMAIN s.groups -> [born : 1..s.serial, domains : SUBSET Domains,
            cidrs : SUBSET Addresses, urls : SUBSET DOMAIN Feed, sub : {{}}]]

VARIABLES
  inbounds,   \* id -> [born, enable, geo]
  groups,     \* id -> [born, domains, cidrs, urls, sub]; sub: addresses merged into it
  subs,       \* {<<group id, address>>} whose last content is kept
  nodes,      \* id -> [born, tag, enable, sound]
  rules,      \* id -> [inbounds, groups, action, node, apply, enable, priority, meant, sure]
  pool,       \* {<<inbound id, name or address>>} that are metered
  serial,     \* the last serial number given
  form,       \* the rule form under way
  fetch,      \* the subscription refresh under way; subscriptionMu admits one
  gen,        \* the generation of a configuration under way
  template,   \* settings: [outbounds, rules, strategy, resolve]
  needRestart, \* isNeedXrayRestart, what the next generation waits for
  unasked,    \* why the tables have moved on while nobody raised the flag
  left        \* bounds of the exploration: [writes, gens]

tables == <<inbounds, groups, subs, nodes, rules, pool, serial>>
flag == <<needRestart, unasked>>
vars == <<tables, form, fetch, gen, template, flag, left>>

NoForm == [step |-> "none"]
NoFetch == [busy |-> FALSE]
NoGen == [at |-> "idle"]

With(table, id, row) == [i \in DOMAIN table \cup {id} |-> IF i = id THEN row ELSE table[i]]
Without(table, id) == Restrict(table, DOMAIN table \ {id})
NextId(table) == 1 + Max(DOMAIN table \cup {0})
Born(table) == {table[i].born : i \in DOMAIN table}

(* Every request spends one write; the bound is the exploration's, not the code's. *)
Write == left.writes > 0 /\ left' = [left EXCEPT !.writes = @ - 1]

(* SetToNeedRestart, right after a write that succeeded; taken as one with it.  *)
Ask == needRestart' = TRUE /\ UNCHANGED unasked
Quiet == UNCHANGED flag
Missed(why) ==
  /\ unasked' = IF needRestart THEN unasked ELSE unasked \cup {why}
  /\ UNCHANGED needRestart

-----------------------------------------------------------------------------
(* Init *)
Init ==
  \E s \in Starts :
    /\ inbounds = s.inbounds /\ groups = s.groups /\ nodes = s.nodes /\ rules = s.rules
    /\ subs = {} /\ pool = s.pool /\ serial = s.serial
    /\ template = s.template /\ left = s.left
    /\ form = NoForm /\ fetch = NoFetch /\ gen = NoGen
    /\ needRestart = TRUE /\ unasked = {}

-----------------------------------------------------------------------------
(* The rule form.                                                            *)

(* Whom a draft means: an empty list of inbounds is everybody. *)
Meaning(d) ==
  [users |-> {inbounds[i].born : i \in d.inbounds},
   groups |-> {groups[g].born : g \in d.groups},
   node |-> IF d.action = "proxy" THEN nodes[d.node].born ELSE 0]

Offered(d) ==
  /\ d.inbounds \subseteq DOMAIN inbounds /\ d.groups \subseteq DOMAIN groups
  /\ d.action = "proxy" => d.node \in DOMAIN nodes

(* validate, and what it leaves out: whether the inbounds exist. *)
Actions == {"block", "proxy", "direct"}
Valid(d) ==
  /\ d.groups # {} /\ d.groups \subseteq DOMAIN groups
  /\ d.action \in Actions
  /\ d.action = "proxy" => d.node \in DOMAIN nodes

(* checkConflict.  A rule that is off still occupies its place. *)
IntersectInbounds(a, b) == a = {} \/ b = {} \/ a \cap b # {}
Conflicts(d, r) ==
  /\ d.groups \cap r.groups # {}
  /\ (d.apply /\ r.apply) \/ IntersectInbounds(d.inbounds, r.inbounds)
NoConflictEmptyIsNobody(id, d) ==
  \A o \in DOMAIN rules \ {id} :
    d.groups \cap rules[o].groups = {} \/ d.inbounds \cap rules[o].inbounds = {}
NoConflict(id, d) == \A o \in DOMAIN rules \ {id} : ~Conflicts(d, rules[o])

(* The priorities a request depends on: of all rules for a new one, of its own row else. *)
Place(id) == {rules[r].priority : r \in IF id = 0 THEN DOMAIN rules ELSE DOMAIN rules \cap {id}}
NextPriority == IF DOMAIN rules = {} THEN 0 ELSE 1 + Max({rules[r].priority : r \in DOMAIN rules})

(* The page offers what exists while it is open; id 0 is a new rule. *)
OpenForm(id, d) ==
  /\ form = NoForm /\ Write /\ Offered(d)
  /\ form' = [step |-> "open", id |-> id, draft |-> d, meant |-> Meaning(d),
              priority |-> 0, place |-> {}]
  /\ Quiet
  /\ UNCHANGED <<tables, fetch, gen, template>>

(* addRule takes its place first; the draft is checked afterwards. *)
NumberForm ==
  /\ form.step = "open" /\ form.id = 0
  /\ form' = [form EXCEPT !.step = "numbered", !.priority = NextPriority, !.place = Place(0)]
  /\ Quiet
  /\ UNCHANGED <<tables, fetch, gen, template, left>>

(* validate and checkConflict; their reads are taken as one. *)
CheckForm ==
  /\ form.step = "numbered" \/ (form.step = "open" /\ form.id # 0)
  /\ form' = IF Valid(form.draft) /\ NoConflict(form.id, form.draft)
             THEN [form EXCEPT !.step = "checked"] ELSE NoForm
  /\ Quiet
  /\ UNCHANGED <<tables, fetch, gen, template, left>>

(* Update reads the row it will write back; the order stays that of this row. *)
FetchRow ==
  /\ form.step = "checked" /\ form.id # 0
  /\ form' = IF form.id \in DOMAIN rules
             THEN [form EXCEPT !.step = "fetched", !.priority = rules[form.id].priority,
                               !.place = Place(form.id)]
             ELSE NoForm
  /\ Quiet
  /\ UNCHANGED <<tables, fetch, gen, template, left>>

(* The checks still hold, of the same users, groups and node, and the order     *)
(* taken is still the order.  A row saved in this state is sure: no other       *)
(* request has come between its form and its row in a way that matters.         *)
StillHolds(id, d) ==
  /\ Offered(d) /\ Meaning(d) = form.meant /\ NoConflict(id, d)
  /\ id # 0 => id \in DOMAIN rules
  /\ Place(id) = form.place

(* Save: gorm inserts the row when there is none to update. *)
SaveForm ==
  /\ form.step = "fetched" \/ (form.step = "checked" /\ form.id = 0)
  /\ LET d == form.draft
         id == IF form.id = 0 THEN NextId(rules) ELSE form.id
         row == [inbounds |-> d.inbounds, groups |-> d.groups, action |-> d.action, node |-> d.node,
                 apply |-> d.apply, enable |-> d.enable, priority |-> form.priority,
                 meant |-> form.meant, sure |-> StillHolds(form.id, d)]
     IN  rules' = With(rules, id, row)
  /\ form' = NoForm
  /\ Ask
  /\ UNCHANGED <<inbounds, groups, subs, nodes, pool, serial, fetch, gen, template, left>>

-----------------------------------------------------------------------------
(* The other requests about rules.                                           *)
DelRule(id) ==
  /\ Write /\ rules' = Without(rules, id)
  /\ Ask
  /\ UNCHANGED <<inbounds, groups, subs, nodes, pool, serial, form, fetch, gen, template>>

(* Reorder takes a permutation of all rules or nothing, in one transaction. *)
Reorder(position) ==
  /\ Write
  /\ rules' = [r \in DOMAIN rules |-> [rules[r] EXCEPT !.priority = position[r]]]
  /\ Ask
  /\ UNCHANGED <<inbounds, groups, subs, nodes, pool, serial, form, fetch, gen, template>>
Permutations0(ids) ==
  {p \in [ids -> 0..(Cardinality(ids) - 1)] : \A a, b \in ids : p[a] = p[b] => a = b}

-----------------------------------------------------------------------------
(* Inbounds.                                                                 *)
Named(r, id, born) ==
  [r EXCEPT !.inbounds = @ \cup {id}, !.meant.users = @ \cup {born}]
AttachInbound(id, born) ==
  [r \in DOMAIN rules |->
    IF rules[r].apply /\ rules[r].inbounds # {} THEN Named(rules[r], id, born) ELSE rules[r]]

(* planInboundDetach: a rule for this inbound alone goes, the others lose it. *)
DetachInboundKeepRules(id) ==
  [r \in DOMAIN rules |-> [rules[r] EXCEPT !.inbounds = @ \ {id}]]
DetachInbound(id) ==
  [r \in {r \in DOMAIN rules : rules[r].inbounds # {id}} |-> [rules[r] EXCEPT !.inbounds = @ \ {id}]]

AddInbound(geo) ==
  /\ Write /\ serial' = serial + 1
  /\ LET id == NextId(inbounds)
     IN  /\ inbounds' = With(inbounds, id, [born |-> serial', enable |-> TRUE, geo |-> geo])
         /\ rules' = AttachInbound(id, serial')
  /\ Ask
  /\ UNCHANGED <<groups, subs, nodes, pool, form, fetch, gen, template>>

(* The pool is cleaned first, in a database of its own, which may fail and     *)
(* stops nothing; then the bans, which may fail and end the request.           *)
DelInbound(id) ==
  /\ Write
  /\ pool' \in {pool, {e \in pool : e[1] # id}}
  /\ \/ inbounds' = Without(inbounds, id) /\ rules' = DetachInbound(id) /\ Ask
     \/ UNCHANGED <<inbounds, rules>> /\ IF pool' = pool THEN Quiet ELSE Missed("bans")
  /\ UNCHANGED <<groups, subs, nodes, serial, form, fetch, gen, template>>

SwitchInbound(id) ==
  /\ Write /\ inbounds' = [inbounds EXCEPT ![id].enable = ~@]
  /\ Ask
  /\ UNCHANGED <<groups, subs, nodes, rules, pool, serial, form, fetch, gen, template>>

-----------------------------------------------------------------------------
(* Groups and their subscriptions.                                           *)
AddGroup(d) ==
  /\ Write /\ serial' = serial + 1
  /\ groups' = With(groups, NextId(groups), [born |-> serial', domains |-> d.domains, cidrs |-> d.cidrs,
                                             urls |-> d.urls, sub |-> {}])
  /\ Ask
  /\ UNCHANGED <<inbounds, subs, nodes, rules, pool, form, fetch, gen, template>>

(* updateFieldsFor: other addresses empty what was subscribed. *)
UpdateGroup(id, d) ==
  /\ Write
  /\ groups' = [groups EXCEPT ![id].domains = d.domains, ![id].cidrs = d.cidrs, ![id].urls = d.urls,
                              ![id].sub = IF d.urls = groups[id].urls THEN @ ELSE {}]
  /\ Ask
  /\ UNCHANGED <<inbounds, subs, nodes, rules, pool, serial, form, fetch, gen, template>>

(* Refused while a rule refers to the group. *)
DelGroup(id) ==
  /\ Write /\ \A r \in DOMAIN rules : id \notin rules[r].groups
  /\ groups' = Without(groups, id) /\ subs' = {s \in subs : s[1] # id}
  /\ Ask
  /\ UNCHANGED <<inbounds, nodes, rules, pool, serial, form, fetch, gen, template>>

PruneSubscriptionOrphans ==
  /\ subs' = {s \in subs : s[1] \in DOMAIN groups} /\ subs' # subs
  /\ Quiet
  /\ UNCHANGED <<inbounds, groups, nodes, rules, pool, serial, form, fetch, gen, template, left>>

(* Refresh asks every address, RefreshDue those that are due; both work on the  *)
(* group and on the kept contents as read at the start.                         *)
StartFetch(id, due) ==
  /\ fetch = NoFetch /\ Write
  /\ fetch' = [busy |-> TRUE, id |-> id, urls |-> groups[id].urls, due |-> due,
               kept |-> {u \in groups[id].urls : <<id, u>> \in subs}]
  /\ Quiet
  /\ UNCHANGED <<tables, form, gen, template>>

(* Each address that answers renews its own row; the merge is written if it is *)
(* not empty and the group still has the addresses that were asked.  When one   *)
(* address fails the call returns an error, and nothing raises the flag.        *)
MergedDueOnly(ok) == ok
Merged(ok) == fetch.kept \cup ok
StillAskedAny == fetch.id \in DOMAIN groups
StillAsked == fetch.id \in DOMAIN groups /\ groups[fetch.id].urls = fetch.urls
EndFetch(ok) ==
  LET renewed == Merged(ok) # {} /\ StillAsked
  IN  /\ fetch.busy /\ ok \subseteq fetch.due
      /\ subs' = subs \cup {<<fetch.id, u>> : u \in ok}
      /\ groups' = IF renewed THEN [groups EXCEPT ![fetch.id].sub = Merged(ok)] ELSE groups
      /\ fetch' = NoFetch
      /\ IF renewed /\ ok = fetch.due THEN Ask
         ELSE IF groups' # groups THEN Missed("refresh") ELSE Quiet
      /\ UNCHANGED <<inbounds, nodes, rules, pool, serial, form, gen, template, left>>

-----------------------------------------------------------------------------
(* Outbound nodes and the meter pool.                                        *)

(* The first tag that no row has; that of a deleted node comes back. *)
AllocTagByCount == NodeTag(Cardinality(DOMAIN nodes) + 1)
AllocTag ==
  NodeTag(CHOOSE n \in 1..serial + 1 :
            LET taken(k) == \E i \in DOMAIN nodes : nodes[i].tag = NodeTag(k)
            IN  ~taken(n) /\ \A k \in 1..(n - 1) : taken(k))

(* persist *)
AddNode ==
  /\ Write /\ serial' = serial + 1
  /\ nodes' = With(nodes, NextId(nodes),
                   [born |-> serial', tag |-> AllocTag, enable |-> TRUE, sound |-> TRUE])
  /\ Ask
  /\ UNCHANGED <<inbounds, groups, subs, rules, pool, form, fetch, gen, template>>

(* Update keeps the tag; a new configuration has passed Xray's own test. *)
UpdateNode(id, enable, renewed) ==
  /\ Write
  /\ nodes' = [nodes EXCEPT ![id].enable = enable, ![id].sound = @ \/ renewed]
  /\ Ask
  /\ UNCHANGED <<inbounds, groups, subs, rules, pool, serial, form, fetch, gen, template>>

DelNode(id) ==
  /\ Write /\ \A r \in DOMAIN rules : rules[r].action # "proxy" \/ rules[r].node # id
  /\ nodes' = Without(nodes, id)
  /\ Ask
  /\ UNCHANGED <<inbounds, groups, subs, rules, pool, serial, form, fetch, gen, template>>

(* Recompute chooses anew for the enabled inbounds only. *)
Recompute(chosen) ==
  /\ Write
  /\ LET served(e) == e[1] \in DOMAIN inbounds /\ inbounds[e[1]].enable
     IN  pool' = {e \in pool : ~served(e)} \cup {e \in chosen : served(e)}
  /\ IF pool' = pool THEN Quiet ELSE Ask
  /\ UNCHANGED <<inbounds, groups, subs, nodes, rules, serial, form, fetch, gen, template>>

(* The hourly clean-up of what a deletion has left or a late round has added. *)
PruneMeterOrphans ==
  /\ pool' = {e \in pool : e[1] \in DOMAIN inbounds} /\ pool' # pool
  /\ Quiet
  /\ UNCHANGED <<inbounds, groups, subs, nodes, rules, serial, form, fetch, gen, template, left>>

-----------------------------------------------------------------------------
(* GetXrayConfig and Inject read the tables one by one.                      *)
StartGeneration ==
  /\ gen = NoGen /\ left.gens > 0 /\ left' = [left EXCEPT !.gens = @ - 1]
  /\ needRestart /\ needRestart' = FALSE /\ unasked' = {}
  /\ gen' = [at |-> "tags", served |-> EnabledInboundTags(inbounds)]
  /\ UNCHANGED <<tables, form, fetch, template>>

Read(stage, next, field, value) ==
  /\ gen.at = stage
  /\ gen' = With([gen EXCEPT !.at = next], field, value)
  /\ Quiet
  /\ UNCHANGED <<tables, form, fetch, template, left>>

ReadTags == Read("tags", "pool", "tags", EnabledInboundTags(inbounds))
(* A pool that cannot be read counts as empty. *)
ReadPool ==
  /\ gen.at = "pool"
  /\ \E p \in {pool, {}} : /\ gen' = With([gen EXCEPT !.at = "nodes"], "pool", p)
                           /\ IF p = pool THEN Quiet ELSE Missed("pool")
  /\ UNCHANGED <<tables, form, fetch, template, left>>
ReadNodes == Read("nodes", "rules", "nodes", nodes)
ReadRules == Read("rules", "groups", "rules", rules)
ReadGroups == Read("groups", "regions", "groups", groups)
ReadRegionsClears ==
  LET read == With([gen EXCEPT !.at = "done"], "regions", inbounds)
  IN  /\ gen.at = "regions"
      /\ gen' = With(read, "config", Inject(template, read))
      /\ needRestart' = FALSE /\ UNCHANGED unasked
      /\ UNCHANGED <<tables, form, fetch, template, left>>
ReadRegions ==
  LET read == With([gen EXCEPT !.at = "done"], "regions", inbounds)
  IN  /\ gen.at = "regions"
      /\ gen' = With(read, "config", Inject(template, read))
      /\ Quiet
      /\ UNCHANGED <<tables, form, fetch, template, left>>
(* Regions are wanted and there is no database of addresses: no configuration. *)
GenerationFails ==
  /\ gen.at = "regions" /\ \E i \in DOMAIN inbounds : inbounds[i].enable /\ inbounds[i].geo
  /\ Quiet
  /\ gen' = NoGen /\ UNCHANGED <<tables, form, fetch, template, left>>

Generate ==
  \/ StartGeneration \/ ReadTags \/ ReadPool \/ ReadNodes
  \/ ReadRules \/ ReadGroups \/ ReadRegions \/ GenerationFails

-----------------------------------------------------------------------------
EditRules ==
  \/ \E d \in Drafts, id \in DOMAIN rules \cup {0} : OpenForm(id, d)
  \/ NumberForm \/ CheckForm \/ FetchRow \/ SaveForm
  \/ \E id \in DOMAIN rules : DelRule(id)
ReorderRules == \E p \in Permutations0(DOMAIN rules) : Reorder(p)
EditInbounds ==
  \/ \E geo \in BOOLEAN : AddInbound(geo)
  \/ \E id \in DOMAIN inbounds : DelInbound(id) \/ SwitchInbound(id)
EditGroups ==
  \/ \E d \in GroupDrafts : AddGroup(d)
  \/ \E id \in DOMAIN groups : DelGroup(id) \/ \E d \in GroupDrafts : UpdateGroup(id, d)
  \/ PruneSubscriptionOrphans
Subscribe ==
  \/ \E id \in DOMAIN groups : \E due \in SUBSET groups[id].urls \ {{}} : StartFetch(id, due)
  \/ \E ok \in SUBSET DOMAIN Feed : EndFetch(ok)
EditNodes ==
  \/ AddNode
  \/ \E id \in DOMAIN nodes : DelNode(id) \/ \E e, n \in BOOLEAN : UpdateNode(id, e, n)
Meter == (\E chosen \in Pools : Recompute(chosen)) \/ PruneMeterOrphans

Next ==
  \/ EditRules \/ ReorderRules \/ EditInbounds \/ EditGroups \/ Subscribe
  \/ EditNodes \/ Meter \/ Generate
Spec == Init /\ [][Next]_vars

-----------------------------------------------------------------------------
(* Properties of the tables.                                                 *)

(* Tables whose rows are told apart by their serial numbers. *)
ToldApart(users, named, exits) ==
  /\ \A t \in {users, named, exits} : \A a, b \in DOMAIN t : t[a].born = t[b].born => a = b
  /\ Born(users) \cap Born(named) = {} /\ Born(users) \cap Born(exits) = {}
  /\ Born(named) \cap Born(exits) = {}
TagsDiffer(exits) == \A a, b \in DOMAIN exits : exits[a].tag = exits[b].tag => a = b
RuleRow(r) ==
  /\ DOMAIN r = {"inbounds", "groups", "action", "node", "apply", "enable", "priority", "meant", "sure"}
  /\ DOMAIN r.meant = {"users", "groups", "node"}
  /\ r.action \in Actions /\ r.groups # {} /\ r.priority \in Nat

(* The types: no two users, groups or nodes are one, no two nodes have one tag *)
(* (allocTag), no rule is without a group or an action (validate).             *)
TypeOK ==
  /\ Born(inbounds) \cup Born(groups) \cup Born(nodes) \subseteq 1..serial
  /\ ToldApart(inbounds, groups, nodes) /\ TagsDiffer(nodes)
  /\ \A r \in DOMAIN rules : RuleRow(rules[r])
  /\ needRestart \in BOOLEAN /\ unasked \subseteq {"bans", "pool", "refresh"}
  /\ form.step \in {"none", "open", "numbered", "checked", "fetched"}
  /\ gen.at \in {"idle", "tags", "pool", "nodes", "rules", "groups", "regions", "done"}

(* A rule speaks of the users, groups and node that were chosen in its form,   *)
(* or of users created since under apply_to_new_inbounds: it never passes to   *)
(* whoever is given a used id, never refers to what is gone, and deleting one  *)
(* of its users never turns it into a rule for everybody (DetachInbound,       *)
(* AttachInbound, CheckDomainGroupRefs, CheckOutboundRefs).                    *)
MeansWhatWasChosen(r, users, named, exits) ==
  /\ r.inbounds = {} <=> r.meant.users = {}
  /\ \A i \in r.inbounds : i \in DOMAIN users /\ users[i].born \in r.meant.users
  /\ \A g \in r.groups : g \in DOMAIN named /\ named[g].born \in r.meant.groups
  /\ r.action = "proxy" => r.node \in DOMAIN exits /\ exits[r.node].born = r.meant.node
RulesMeanWhatWasChosen ==
  \A r \in DOMAIN rules : rules[r].sure => MeansWhatWasChosen(rules[r], inbounds, groups, nodes)

(* Under one group at most one rule covers a user (checkConflict), also after  *)
(* users are added to rules and removed from them.                             *)
OneRulePerUserAndGroup ==
  \A a, b \in DOMAIN rules :
    a # b /\ rules[a].sure /\ rules[b].sure
      => \/ rules[a].groups \cap rules[b].groups = {}
         \/ ~IntersectInbounds(rules[a].inbounds, rules[b].inbounds)

(* Tables to start from are tables the requests could have left: ids count from *)
(* one, serial numbers and tags are given once, and rules that nothing has come *)
(* between are as the form accepts them.                                        *)
Numbered(table) == IsFiniteSet(DOMAIN table) /\ DOMAIN table \subseteq Nat \ {0}
ASSUME StartsAssumption ==
  \A s \in Starts :
    /\ \A table \in {s.inbounds, s.groups, s.nodes, s.rules} : Numbered(table)
    /\ \A i \in DOMAIN s.inbounds : "born" \in DOMAIN s.inbounds[i]
    /\ \A n \in DOMAIN s.nodes : {"born", "tag"} \subseteq DOMAIN s.nodes[n]
    /\ Born(s.inbounds) \cup Born(s.groups) \cup Born(s.nodes) \subseteq 1..s.serial
    /\ ToldApart(s.inbounds, s.groups, s.nodes) /\ TagsDiffer(s.nodes)
    /\ \A r \in DOMAIN s.rules :
         /\ RuleRow(s.rules[r])
         /\ s.rules[r].sure => MeansWhatWasChosen(s.rules[r], s.inbounds, s.groups, s.nodes)
         /\ \A q \in DOMAIN s.rules \ {r} :
              s.rules[r].sure /\ s.rules[q].sure => ~Conflicts(s.rules[r], s.rules[q])

(* Of the rest: a template keeps to tags of its own, and its rules to these;   *)
(* the pool names targets, finitely many; a name is not an address.            *)
TagOfItsOwn(t) == ~IsReservedTag(t) /\ (t # Untagged => Head(t) # "a-ui-node")
ASSUME TemplatesAssumption ==
  \A s \in Starts :
    LET outs == s.template.outbounds
    IN  /\ IsList(outs) /\ IsList(s.template.rules)
        /\ \A i \in DOMAIN outs :
             /\ DOMAIN outs[i] = {"tag", "via"} /\ outs[i].via # <<>> /\ TagOfItsOwn(outs[i].tag)
             /\ \A n \in DOMAIN s.nodes : s.nodes[n].tag # outs[i].tag
             /\ \A j \in DOMAIN outs : outs[i].tag = outs[j].tag => i = j
        /\ \A i \in DOMAIN s.template.rules :
             \E j \in DOMAIN outs : TagDefaultOutbound(outs)[j].tag = s.template.rules[i].out
ASSUME PoolsAssumption ==
  /\ Domains \cap Addresses = {}
  /\ \A p \in Pools \cup {s.pool : s \in Starts} : IsFiniteSet(p) /\ p \subseteq Nat \X (Domains \cup Addresses)

(* What a group has by subscription comes from the addresses it has now, also  *)
(* when they are changed, or the group deleted and its id given again, while a *)
(* refresh is under way (updateFieldsFor, the guard on subscribe_url).         *)
SubscriptionFollowsItsAddresses == \A g \in DOMAIN groups : groups[g].sub \subseteq groups[g].urls

Kept(g) == {u \in groups[g].sub : <<g, u>> \in subs}
KeepsWhatIsKept ==
  \A g \in DOMAIN groups \cap DOMAIN groups' :
    groups'[g].born = groups[g].born /\ groups'[g].urls = groups[g].urls => Kept(g) \subseteq groups'[g].sub

(* As long as the addresses stay, no refresh takes from a group the content of *)
(* an address whose last answer is kept, however few addresses answer, in a    *)
(* round of all addresses and in one of those that are due (refreshLockedURLs).*)
RefreshOnlyAdds == [][KeepsWhatIsKept]_groups

-----------------------------------------------------------------------------
(* The flag and the tables.                                                  *)
Now == [pool |-> pool, nodes |-> nodes, rules |-> rules, groups |-> groups, regions |-> inbounds,
        tags |-> EnabledInboundTags(inbounds)]
UpToDate == gen.served = Now.tags /\ gen.config = Inject(template, Now)

(* Whatever is written before, between or after the reads of a generation: if  *)
(* the flag is down the configuration says what the tables say, so no change   *)
(* waits for a generation nobody asked for (SetToNeedRestart after the write,  *)
(* IsNeedRestartAndSetFalse before the reads).  Exempt, until the next         *)
(* generation, are three writes the code does not ask for.                     *)
ConfigFollowsTables == gen.at = "done" /\ ~needRestart /\ unasked = {} => UpToDate

(* The same without the exemption of a refresh: when some addresses of a group *)
(* answer and others fail, "the conditions in the core change all the same"    *)
(* (refreshGroup of routing.html on Refresh).                                  *)
RefreshReachesTheCore == gen.at = "done" /\ ~needRestart /\ unasked \subseteq {"refresh"} => UpToDate

-----------------------------------------------------------------------------
(* Properties of a generated configuration, of any tables read while a request *)
(* is half-way or comes between two of the reads.                              *)
Via(cfg, i, t, s) == Dispatch(cfg, gen.tags[i], t, s).via
Bare == Inject(template, [gen EXCEPT !.rules = <<>>, !.pool = {}, !.regions = <<>>])
Unmetered == Inject(template, [gen EXCEPT !.pool = {}])
Everywhere(P(_, _, _)) == \A i \in DOMAIN gen.tags, t \in Reachable, s \in Sources : P(i, t, s)

(* No rule names an outbound that is not there, which Xray takes for the       *)
(* default one, and no tag comes twice, which Xray refuses to start with       *)
(* (part of RulesDecide).                                                      *)
NoDanglingTag ==
  gen.at = "done" =>
    LET out == gen.config.outbounds
    IN  /\ \A i \in DOMAIN gen.config.rules : \E j \in DOMAIN out : out[j].tag = gen.config.rules[i].out
        /\ \A i, j \in DOMAIN out : out[i].tag = out[j].tag => i = j

(* Where the administrator was told a connection would go.  The template's     *)
(* rules come first, then the denials by region, then any block rule that      *)
(* covers the user and names the target, whatever its priority, then the first *)
(* of the other rules by priority that does and can be served.  A rule names a *)
(* target by a domain, or by an address once the address counts.               *)
Names(r, t, resolved) ==
  \/ t.name \cap RuleDomains(r, gen.groups) # {}
  \/ (resolved \/ t.name = {}) /\ t.address \in RuleCidrs(r, gen.groups)
Covering(actions, i, t, resolved) ==
  {r \in DOMAIN gen.rules :
     /\ gen.rules[r].enable /\ gen.rules[r].action \in actions
     /\ gen.rules[r].inbounds = {} \/ i \in gen.rules[r].inbounds
     /\ Names(gen.rules[r], t, resolved)}
Servable ==
  {r \in DOMAIN gen.rules : gen.rules[r].action = "proxy" => gen.rules[r].node \in Usable(gen.nodes)}
  \ {r \in DOMAIN gen.rules : gen.rules[r].action = "direct" /\ template.outbounds = <<>>}
Nowhere == <<>>
Told(bare, i, t, s, resolved) ==
  LET geo   == \E j \in DOMAIN gen.regions :
                 gen.regions[j].born = gen.tags[i] /\ gen.regions[j].enable /\ gen.regions[j].geo
      route == Covering({"proxy", "direct"}, i, t, resolved) \cap Servable
      first == CHOOSE r \in route : \A q \in route : q = r \/ Before(gen.rules, r, q)
  IN  IF Pass(bare, gen.tags[i], t, s, resolved) # 0 THEN Via(bare, i, t, s)
      ELSE IF (geo /\ s # "home") \/ Covering({"block"}, i, t, resolved) # {} THEN Blackhole
      ELSE IF route = {} THEN Nowhere
      ELSE IF gen.rules[first].action = "direct" THEN Head(bare.outbounds).via
      ELSE ViaNode(gen.nodes[gen.rules[first].node].born)
Promised(bare, i, t, s) ==
  LET one == Told(bare, i, t, s, bare.strategy = "IPOnDemand")
      two == IF bare.strategy = "IPIfNonMatch" THEN Told(bare, i, t, s, TRUE) ELSE Nowhere
  IN  IF one # Nowhere THEN one ELSE IF two # Nowhere THEN two ELSE Head(bare.outbounds).via

(* The core sends every connection where the administrator was told: no block  *)
(* is overtaken by a rule, no rule says more than it should because a group,   *)
(* an inbound or a node of it has gone, no denial by region comes too late,    *)
(* and no rule is left to the core to make sense of.                           *)
RulesDecide ==
  /\ NoDanglingTag
  /\ gen.at = "done" =>
       LET bare == Bare
       IN  Everywhere(LAMBDA i, t, s : Via(gen.config, i, t, s) = Promised(bare, i, t, s))

(* What moves a user's connection from where the bare template sends it is a   *)
(* denial by region or a rule chosen for this user and, if it names a node,    *)
(* goes to the node that was chosen, whichever rows were written between the   *)
(* reads; users and nodes deleted meanwhile are past wronging.                 *)
MovedFor(i, t) ==
  \E r \in Servable :
    LET rule == gen.rules[r]
        node == gen.nodes[rule.node].born
    IN  /\ rule.enable /\ Names(rule, t, TRUE)
        /\ rule.sure =>
             /\ rule.meant.users = {} \/ gen.tags[i] \in rule.meant.users
             /\ rule.action = "proxy" => node = rule.meant.node \/ node \notin Born(nodes)
NobodyElsesRule ==
  gen.at = "done" =>
    LET bare == Bare
    IN  Everywhere(LAMBDA i, t, s :
          gen.tags[i] \in Born(inbounds) /\ Via(gen.config, i, t, s) # Via(bare, i, t, s)
            => \/ s # "home" /\ Via(gen.config, i, t, s) = Blackhole
               \/ MovedFor(i, t))

(* Metering measures and moves nothing: with and without the pool a connection *)
(* leaves by the same way, one that a rule decides is not measured, and one    *)
(* that no rule decides is measured under its own name if that is in the pool, *)
(* under an address only if it has no name there - also when the core resolves *)
(* names and rules of addresses still have to be asked (meterRuleNeedsIPGuard).*)
MeteringMovesNothing ==
  gen.at = "done" =>
    LET unmetered == Unmetered
        own(t) == IF t.name = {} THEN {t.address} ELSE t.name
    IN  Everywhere(LAMBDA i, t, s :
          LET with == Dispatch(gen.config, gen.tags[i], t, s)
              without == Dispatch(unmetered, gen.tags[i], t, s)
          IN  IF Decider(unmetered, gen.tags[i], t, s) # 0 THEN with = without
              ELSE /\ with.via = without.via
                   /\ \A x \in own(t) : <<i, x>> \in gen.pool => with.tag = MeterTag(<<i, x>>))
=============================================================================
