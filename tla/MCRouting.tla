------------------------------ MODULE MCRouting ------------------------------
(***************************************************************************)
(* Two kinds of exploration.  Long ones edit tables that hold one rule.    *)
(* Short ones generate a configuration from every order of two rules the   *)
(* form accepts, under several templates, while one request comes between  *)
(* the reads; their nodes include what older releases left behind: a node  *)
(* with a reserved tag and one whose configuration does not decode.        *)
(***************************************************************************)
EXTENDS Routing

MCDomains == {"d1", "d2"}
MCAddresses == {"a1", "private"}
MCAddressOf == [d1 |-> "a1", d2 |-> "private"]
MCFeed == [u1 |-> [domains |-> {"d2"}, cidrs |-> {}], u2 |-> [domains |-> {}, cidrs |-> {"a1"}]]

Draft(ins, gs, action, node, apply) ==
  [inbounds |-> ins, groups |-> gs, action |-> action, node |-> node, apply |-> apply, enable |-> TRUE]
MCDrafts ==
  { Draft({1}, {1}, "proxy", 1, FALSE),
    Draft({2}, {1}, "direct", 0, TRUE),
    Draft({1, 2}, {2}, "block", 0, TRUE),
    Draft({}, {2}, "proxy", 1, FALSE),
    Draft({2}, {1, 2}, "proxy", 2, FALSE),
    Draft({}, {1}, "block", 0, FALSE),
    Draft({1}, {}, "direct", 0, TRUE) }
MCAccepted == {d \in MCDrafts : d.groups # {}}

Group(n, domains, cidrs, urls) ==
  [born |-> n, domains |-> domains, cidrs |-> cidrs, urls |-> urls, sub |-> {}]
MCGroupDrafts ==
  { [domains |-> {"d1"}, cidrs |-> {}, urls |-> {"u1", "u2"}],
    [domains |-> {"d2"}, cidrs |-> {"a1"}, urls |-> {"u2"}] }
Inbound(n, geo) == [born |-> n, enable |-> TRUE, geo |-> geo]
Node(n) == [born |-> n, tag |-> NodeTag(n), enable |-> TRUE, sound |-> TRUE]

Private == XrayRule({}, {}, {"private"}, {}, <<"blocked">>)
Template(first, strategy, resolve) ==
  [outbounds |-> <<[tag |-> first, via |-> Freedom], [tag |-> <<"blocked">>, via |-> Blackhole]>>,
   rules |-> <<Private>>, strategy |-> strategy, resolve |-> resolve]
NoOutbounds == [outbounds |-> <<>>, rules |-> <<>>, strategy |-> "AsIs", resolve |-> FALSE]
Templates ==
  { Template(Untagged, "AsIs", FALSE), Template(<<"direct">>, "AsIs", TRUE),
    Template(Untagged, "IPOnDemand", FALSE), NoOutbounds }

Ins == 1 :> Inbound(1, FALSE) @@ 2 :> Inbound(2, TRUE)
Grs == 1 :> Group(3, {"d1"}, {}, {"u1", "u2"}) @@ 2 :> Group(4, {"d2"}, {"a1"}, {})
Old(n, tag, sound) == [born |-> n, tag |-> tag, enable |-> TRUE, sound |-> sound]
LongNodes == 1 :> Node(5)
ShortNodes == 1 :> Node(5) @@ 2 :> Old(6, NodeTag(6), FALSE) @@ 3 :> Old(7, BlockTag, TRUE)

Row(d, nodesThen, priority) ==
  [inbounds |-> d.inbounds, groups |-> d.groups, action |-> d.action, node |-> d.node,
   apply |-> d.apply, enable |-> TRUE, priority |-> priority, sure |-> TRUE,
   meant |-> [users |-> {Ins[i].born : i \in d.inbounds}, groups |-> {Grs[g].born : g \in d.groups},
              node |-> IF d.action = "proxy" THEN nodesThen[d.node].born ELSE 0]]

Start(nodesThen, rulesThen, poolThen, templateThen, writes, gens) ==
  [inbounds |-> Ins, groups |-> Grs, nodes |-> nodesThen, rules |-> rulesThen, pool |-> poolThen,
   serial |-> 7, template |-> templateThen, left |-> [writes |-> writes, gens |-> gens]]

MCPools == { {}, {<<1, "d1">>, <<1, "a1">>, <<2, "d2">>} }
Long ==
  { Start(LongNodes, 1 :> Row(Draft({1}, {1}, "proxy", 1, TRUE), LongNodes, 0), {},
          Template(Untagged, "AsIs", FALSE), 4, 0) }
Short ==
  { Start(ShortNodes, 1 :> Row(c, ShortNodes, p) @@ 2 :> Row(d, ShortNodes, 1 - p), m, t, 1, 1) :
      c \in MCAccepted, d \in MCAccepted, p \in 0..1, m \in MCPools, t \in Templates }
MCStarts ==
  Long \cup {s \in Short : ~Conflicts(s.rules[1], s.rules[2])}
=============================================================================
