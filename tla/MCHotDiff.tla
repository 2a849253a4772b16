------------------------------ MODULE MCHotDiff ------------------------------
(***************************************************************************)
(* Pairs of configurations as RoutingInjector writes them - a default      *)
(* outbound, nodes, metering copies; the rules of the administrator before *)
(* the metering ones - and of hand-written templates: inbounds that swap   *)
(* ports, tags that are empty or repeat, Reality, a second api form.       *)
(***************************************************************************)
EXTENDS HotDiff

In(t, port, reality, body) == [tag |-> t, port |-> port, reality |-> reality, body |-> body]
Api == In("api", 1, FALSE, "a")

MCInbounds ==
  {<<Api>> \o l : l \in
     { <<>>,
       <<In("x", 2, FALSE, "a")>>,
       <<In("x", 2, FALSE, "b")>>,
       <<In("x", 2, TRUE, "a")>>,
       <<In("x", 2, FALSE, "a"), In("y", 3, FALSE, "a")>>,
       <<In("y", 2, FALSE, "a"), In("x", 3, FALSE, "b")>>,
       <<In("y", 3, TRUE, "a"), In("x", 2, FALSE, "a")>>,
       <<In("x", 2, FALSE, "a"), In("x", 3, FALSE, "a")>>,
       <<In("", 2, FALSE, "a")>> }}
  \cup {<<In("api", 1, FALSE, "b")>>, <<In("x", 2, FALSE, "a")>>, <<In("y", 3, FALSE, "a")>>}

Out(t, body) == [tag |-> t, body |-> body]
Rule(dst, t) == [dst |-> dst, tag |-> t]
Direct == Out("direct", "a")

MCRoutings ==
  LET n == Out("n", "a")  n2 == Out("n", "b")  m == Out("m", "a")
      p == Out("meter1", "a")  q == Out("meter2", "a")
  IN { [outbounds |-> <<Direct>>, rules |-> <<>>],
       [outbounds |-> <<Direct, n>>, rules |-> <<Rule({"d1"}, "n")>>],
       [outbounds |-> <<Direct, n2>>, rules |-> <<Rule({"d1"}, "n")>>],
       [outbounds |-> <<Direct, n, m>>, rules |-> <<Rule({"d1"}, "n"), Rule({"d1", "d2"}, "m")>>],
       [outbounds |-> <<Direct, m, n>>, rules |-> <<Rule({"d1"}, "m"), Rule({"d2"}, "n")>>],
       [outbounds |-> <<Direct, n>>, rules |-> <<Rule({"d1"}, "direct"), Rule({"d1", "d2"}, "n")>>],
       [outbounds |-> <<Direct, n, p>>, rules |-> <<Rule({"d1"}, "n"), Rule({"d1"}, "meter1")>>],
       [outbounds |-> <<Direct, n, q>>, rules |-> <<Rule({"d1"}, "n"), Rule({"d2"}, "meter2")>>],
       [outbounds |-> <<Direct, n, p, q>>,
        rules |-> <<Rule({"d2"}, "n"), Rule({"d1"}, "meter1"), Rule({"d2"}, "meter2")>>],
       [outbounds |-> <<Direct, n, n2>>, rules |-> <<Rule({"d1"}, "n")>>],
       [outbounds |-> <<Out("", "a"), n>>, rules |-> <<Rule({"d1"}, "n")>>],
       [outbounds |-> <<Out("n", "a"), Direct>>, rules |-> <<Rule({"d1"}, "n")>>],
       [outbounds |-> <<Direct, Out("", "a")>>, rules |-> <<>>] }

Config(rest, strategy, ins, r) ==
  [rest |-> rest, strategy |-> strategy, inbounds |-> ins,
   outbounds |-> r.outbounds, rules |-> r.rules]

Plain == [outbounds |-> <<Direct, Out("n", "a")>>, rules |-> <<Rule({"d1"}, "n")>>]
OneIn == <<Api, In("x", 2, FALSE, "a")>>

MCConfigs ==
  {Config("s", "AsIs", ins, Plain) : ins \in MCInbounds}
  \cup {Config("s", "AsIs", OneIn, r) : r \in MCRoutings}
  \cup {Config("s", "AsIs", <<Api, In("x", 2, FALSE, "b")>>, r) : r \in MCRoutings}
  \cup {Config("t", "AsIs", OneIn, Plain), Config("s", "IPIfNonMatch", OneIn, Plain)}

MCDests == {"d1", "d2"}
MCMeterTags == {"meter1", "meter2"}
=============================================================================
