---------------------------- MODULE MCFirewall ----------------------------
(* Two profiles, each with a table of its own or both with one, on hosts   *)
(* of the Debian family, of the RHEL family, with a legacy include, and    *)
(* without a main config.  The read-back is tried on every pair of many    *)
(* more rulesets, accepted or refused, with rules of every kind.           *)
EXTENDS Firewall, TLC

CONSTANTS web, base, lo, eth

OwnTables == web :> "web" @@ base :> "base"
OneTable == web :> "filter" @@ base :> "filter"
Host(flush, legacy) ==
    [exists |-> TRUE, flush |-> flush, legacy |-> legacy, includes |-> <<>>]
AllMains == {Host(TRUE, FALSE), Host(FALSE, FALSE), Host(TRUE, TRUE), NoMain}
Debian == {Host(TRUE, FALSE)}

Address(v6, start, bits) == [v6 |-> v6, base |-> start, bits |-> bits]
Input(action) ==
    [ chain |-> "input", action |-> action, proto |-> Unset, ports |-> <<>>, source |-> Unset,
      destination |-> Unset, in_interface |-> Unset, out_interface |-> Unset, ct_states |-> <<>> ]
Tcp(ports) == [Input("accept") EXCEPT !.proto = "tcp", !.ports = ports]
OneHost(bits) == [Input("drop") EXCEPT !.source = Address(FALSE, 3, bits)]
FamiliesMixed == [Input("accept") EXCEPT !.proto = "icmp", !.source = Address(TRUE, 3, Bare)]

OrderedRules ==
    { Tcp(<<2, 1, 2>>), Tcp(<<1, 2>>), OneHost(Width),
      [Tcp(<<1>>) EXCEPT !.source = Address(FALSE, 2, 1), !.action = "drop"],
      [Input("drop") EXCEPT !.ct_states = <<"new", "established">>],
      [Input("accept") EXCEPT !.source = Address(TRUE, 3, Bare)] }
OtherRules ==
    { Tcp(<<>>), Tcp(<<4>>), Input("accept"), OneHost(Width - 1),
      [Input("accept") EXCEPT !.in_interface = lo],
      [Input("drop") EXCEPT !.chain = "output", !.out_interface = lo],
      [Input("reject") EXCEPT !.proto = "icmp"], [Input("accept") EXCEPT !.proto = "icmpv6"],
      [Input("accept") EXCEPT !.proto = "udp", !.ports = <<1>>],
      [Input("accept") EXCEPT !.destination = Address(TRUE, 0, 0)], FamiliesMixed }

Policy(chain, policy) == [chain |-> chain, policy |-> policy]
DropInput == <<Policy("input", "drop")>>
BothChains == <<Policy("input", "drop"), Policy("output", "accept"), Policy("input", "accept")>>
Ruleset(family, policies, rules) == [family |-> family, policies |-> policies, rules |-> rules]

(* Profiles with ports that the caller opens: two of which one is dropped  *)
(* before, none, one there is already, one that is no port, and one for a  *)
(* chain that the profile leaves alone.                                    *)
Overridden ==
    LET Only(rule) == Ruleset("inet", DropInput, <<rule>>)
        Dropping == Only([Tcp(<<1>>) EXCEPT !.action = "drop"])
    IN { WithOverrides(Dropping, <<2, 1>>, <<1>>), WithOverrides(Dropping, <<>>, <<>>),
         WithOverrides(Only(Tcp(<<1, 2>>)), <<1>>, <<>>), WithOverrides(Dropping, <<>>, <<4>>),
         WithOverrides(Ruleset("inet", <<Policy("output", "drop")>>, <<>>), <<1>>, <<>>) }

ManyRulesets ==
    {Ruleset("inet", x, <<r>>) : x \in {DropInput, BothChains}, r \in OrderedRules \cup OtherRules}
    \cup {Ruleset("inet", DropInput, <<r, q>>) : r, q \in OrderedRules}
    \cup {Ruleset(x, DropInput, <<r>>) : x \in {"ip", "ip6"}, r \in OrderedRules}
    \cup {Ruleset("inet", x, <<>>) : x \in {<<>>, <<Policy("input", "reject")>>}}

ManyPackets ==
    { [ chain |-> c, proto |-> x[1], port |-> x[2], v6 |-> v6, source |-> a, destination |-> d,
        iif |-> i, oif |-> i, ct |-> state ] :
        c \in {"input", "output"}, v6 \in BOOLEAN, a \in {0, 2, 3}, d \in {1, 2}, i \in {lo, eth},
        x \in {"tcp", "udp"} \X {1, 2} \cup {"icmp", "icmpv6"} \X {Unset},
        state \in {"new", "invalid"} }

(* A ruleset, the same with its rules in another order, the same in other  *)
(* words, and one that nft refuses.                                        *)
Plain == Ruleset("inet", DropInput, <<Tcp(<<1, 2>>), OneHost(Width)>>)
Reordered == Ruleset("inet", DropInput, <<OneHost(Bare), Tcp(<<1, 2>>)>>)
Reworded == Ruleset("inet", DropInput, <<Tcp(<<2, 1, 2>>), OneHost(Bare)>>)
Refuted == Ruleset("inet", DropInput, <<FamiliesMixed>>)
Declarations == {Plain, Reordered, Reworded, Refuted}
Refutations == {Refuted}
AllSamples == ManyRulesets \cup Overridden \cup Declarations
=============================================================================
