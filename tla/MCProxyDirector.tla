-------------------------- MODULE MCProxyDirector --------------------------
(* Two calls through every configuration of up to two of nine rules, and   *)
(* through some of three, where an empty destination hands a call on.      *)
EXTENDS ProxyDirector

Pair == <<"domain", "test">>

AnyRule(type, dests) ==
    [type |-> type, pairs |-> <<>>, paths |-> <<>>, ips |-> <<>>,
     dest |-> dests]

IpNet   == [AnyRule("ipBased", <<"b1">>) EXCEPT !.ips = <<"bad", "net4">>]
IpLoop  == [AnyRule("ipBased", <<"b2">>) EXCEPT !.ips = <<"loop6">>]
IpMixed == [AnyRule("ipBased", <<"b2", "">>) EXCEPT !.ips = <<"net4">>]
IpTypo  == [AnyRule("IpBased", <<"b1">>) EXCEPT !.ips = <<"net4">>]
Path    == [AnyRule("pathBased", <<"b2", "b3">>) EXCEPT !.paths = <<"bad", "one">>]
NoDest  == [AnyRule("pathBased", <<>>) EXCEPT !.paths = <<"all">>]
(* The second pair overrides the first, and the last one has no colon. *)
Header  == [AnyRule("headerBased", <<"b3">>) EXCEPT
               !.pairs = <<<<"domain", "prod">>, Pair, <<"domain">>>>]
(* Without any usable pair a rule matches every call. *)
NoPair  == [AnyRule("headerBased", <<"b1">>) EXCEPT !.pairs = <<<<"domain">>>>]
(* A key that is not in lower case never matches. *)
Upper   == [AnyRule("headerBased", <<"b2">>) EXCEPT !.pairs = <<<<"Domain", "test">>>>]

AllRules == {IpNet, IpLoop, IpMixed, IpTypo, Path, NoDest, Header, NoPair, Upper}

AllConfigs ==
    {<<>>} \cup {<<r>> : r \in AllRules} \cup {<<r, s>> : r, s \in AllRules}
    \cup {<<Header, r, s>> : r \in {IpMixed, Upper}, s \in {Path, NoPair, IpNet}}

AllSubnets == [cidr \in {"net4", "loop6"} |->
                  IF cidr = "net4" THEN {"10.0.0.1"} ELSE {"::1"}]
AllMatched == [regex \in {"one", "all"} |->
                  IF regex = "one" THEN {"m1"} ELSE {"m1", "m2"}]

Plain == [gateway |-> "", forwarded |-> <<>>, peer |-> "10.0.0.2",
          method |-> "m2", md |-> {}]

AllRequests ==
    {Plain,
     [Plain EXCEPT !.peer = "10.0.0.1", !.md = {Pair}],
     [Plain EXCEPT !.peer = "::1", !.method = "m1"],
     [Plain EXCEPT !.forwarded = <<"10.0.0.1">>, !.method = "m1"],
     [Plain EXCEPT !.gateway = "::1", !.peer = "10.0.0.1", !.md = {Pair}]}
=============================================================================
