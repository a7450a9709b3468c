---------------------------- MODULE FirewallRules ----------------------------
(***************************************************************************)
(* The rulesets of the firewall plugin: the normal form of a declared one, *)
(* the text rendered from it, the normal form of what nft lists of a       *)
(* table, and their difference, by which plan and apply judge whether the  *)
(* kernel holds what the profile declares (firewall/execution.go).         *)
(*                                                                         *)
(* A text is a function from its chains to their policies and rules, a     *)
(* rule of it the sequence of its matches and its verdict.  An address is  *)
(* a number of Width bits, of which a prefix fixes the first.              *)
(***************************************************************************)
EXTENDS Integers, Sequences, SequencesExt, FiniteSetsExt

CONSTANTS
    Width,      \* the bits of an address
    MaxPort,
    Interfaces,
    Unset, Bare,  \* a matcher left out; an address that is not a prefix
    Samples,    \* declared rulesets, each compared with the text of each
    Packets

Families == {"inet", "ip", "ip6"}
Chains == {"input", "output", "forward"}
Actions == {"accept", "drop", "reject"}
Protocols == {"tcp", "udp", "icmp", "icmpv6"}
CTStates == {"new", "established", "related", "invalid", "untracked"}
Addresses == [v6 : BOOLEAN, base : Nat, bits : 0..Width \cup {Bare}]

Rule ==
    [ chain : Chains, action : Actions, proto : Protocols \cup {Unset}, ports : Seq(Int),
      source : Addresses \cup {Unset}, destination : Addresses \cup {Unset},
      in_interface : Interfaces \cup {Unset}, out_interface : Interfaces \cup {Unset},
      ct_states : Seq(CTStates) ]

FirewallSpec ==
    [ family : Families, policies : Seq([chain : Chains, policy : Actions]), rules : Seq(Rule) ]

ASSUME FirewallRulesAssumption ==
    /\ Width \in Nat \ {0} /\ MaxPort \in Nat \ {0} /\ Bare \notin 0..Width
    /\ Unset \notin Interfaces \cup Actions \cup Protocols \cup {"ipv6-icmp"}
    /\ Unset \notin Nat /\ Unset \notin Addresses /\ \A S \in SUBSET CTStates : S # Unset
    /\ Samples \subseteq FirewallSpec
    /\ \A packet \in Packets : packet.source \in Nat /\ packet.destination \in Nat

Or(x, other) == IF x = Unset THEN other ELSE x
If(cond, s) == IF cond THEN s ELSE <<>>

(* The elements of s that are in S, and the first of every value of s.     *)
Those(s, S) == FlattenSeq([k \in DOMAIN s |-> If(s[k] \in S, <<s[k]>>)])
Distinct(s) == FlattenSeq([k \in DOMAIN s |-> If(\A l \in 1..k - 1 : s[l] # s[k], <<s[k]>>)])

-----------------------------------------------------------------------------
(* A prefix that covers one host is that host (nft spells it like that).   *)
CollapseFullPrefix(a) ==
    IF a # Unset THEN [a EXCEPT !.bits = IF @ = Width THEN Bare ELSE @] ELSE a

HasHostBits(a) == a # Unset /\ a.bits # Bare /\ a.base % 2^(Width - a.bits) # 0

NoMatcher(r) ==
    /\ r.proto = Unset /\ r.source = Unset /\ r.destination = Unset
    /\ r.in_interface = Unset /\ r.out_interface = Unset

RefusedRule(r) ==
    \/ ~(ToSet(r.ports) \subseteq 1..MaxPort)
    \/ HasHostBits(r.source) \/ HasHostBits(r.destination)
    \/ (r.proto \in {"tcp", "udp"}) # (r.ports # <<>>)
    \/ NoMatcher(r) /\ r.ct_states = <<>>

(* What the caller's override opens: one port, to everybody.  Its rule     *)
(* comes after all of the profile's.                                       *)
OpenPort(proto, port) ==
    [ chain |-> "input", action |-> "accept", proto |-> proto, ports |-> <<port>>, source |-> Unset,
      destination |-> Unset, in_interface |-> Unset, out_interface |-> Unset, ct_states |-> <<>> ]

WithOverrides(s, tcp, udp) ==
    [s EXCEPT !.rules = @ \o [k \in DOMAIN tcp |-> OpenPort("tcp", tcp[k])]
                          \o [k \in DOMAIN udp |-> OpenPort("udp", udp[k])]]

(* A rule for every port, in their order; a list of states is their set.   *)
NormalizeDesiredRule(r) ==
    LET normal == [ chain |-> r.chain, action |-> r.action, proto |-> r.proto, port |-> Unset,
                    source |-> CollapseFullPrefix(r.source),
                    destination |-> CollapseFullPrefix(r.destination),
                    in_interface |-> r.in_interface, out_interface |-> r.out_interface,
                    ct_states |-> ToSet(r.ct_states) ]
    IN IF r.ports = <<>> THEN <<normal>>
       ELSE Those([port \in 1..MaxPort |-> [normal EXCEPT !.port = port]],
                  {[normal EXCEPT !.port = port] : port \in ToSet(r.ports)})

(* The last policy of a chain counts, and the first of equal rules.        *)
NormalizeDesiredSpec(s) ==
    LET For(c) == {k \in DOMAIN s.policies : s.policies[k].chain = c} IN
    [ policies |-> [ c \in {s.policies[k].chain : k \in DOMAIN s.policies} |->
                       s.policies[Max(For(c))].policy ],
      rules |-> Distinct(FlattenSeq([k \in DOMAIN s.rules |-> NormalizeDesiredRule(s.rules[k])])) ]

(* assertAddressFamily.                                                    *)
OtherFamily(family, r) ==
    \E a \in {r.source, r.destination} \ {Unset} :
        family # "inet" /\ a.v6 # (family = "ip6")

Refused(s) ==
    \/ s.policies = <<>>
    \/ \E k \in DOMAIN s.policies : s.policies[k].policy = "reject"
    \/ \E k \in DOMAIN s.rules :
         \/ RefusedRule(s.rules[k]) \/ OtherFamily(s.family, s.rules[k])
         \/ \A l \in DOMAIN s.policies : s.policies[l].chain # s.rules[k].chain

-----------------------------------------------------------------------------
Expr(left, right) == <<[left |-> left, right |-> right]>>

AddressKeyword(family, a) ==
    IF family = "inet" THEN (IF a.v6 THEN "ip6" ELSE "ip") ELSE family

RenderNormalizedRule(family, r) ==
    FlattenSeq(<<
      If(r.in_interface # Unset, Expr(<<"meta", "iif">>, r.in_interface)),
      If(r.out_interface # Unset, Expr(<<"meta", "oif">>, r.out_interface)),
      If(r.source # Unset, Expr(<<AddressKeyword(family, r.source), "saddr">>, r.source)),
      If(r.destination # Unset, Expr(<<AddressKeyword(family, r.destination), "daddr">>, r.destination)),
      If(r.ct_states # {}, Expr(<<"ct", "state">>, r.ct_states)),
      If(r.proto \in {"tcp", "udp"}, Expr(<<r.proto, "dport">>, r.port)),
      If(r.proto = "icmp", Expr(<<"ip", "protocol">>, "icmp")),
      If(r.proto = "icmpv6", Expr(<<"ip6", "nexthdr">>, "icmpv6")),
      Expr(<<"verdict">>, r.action) >>)

RulesOf(rules, chain) == Those(rules, {r \in ToSet(rules) : r.chain = chain})

RenderNormalized(family, spec) ==
    [ c \in DOMAIN spec.policies \cup {spec.rules[k].chain : k \in DOMAIN spec.rules} |->
        LET mine == RulesOf(spec.rules, c) IN
        [ policy |-> IF c \in DOMAIN spec.policies THEN spec.policies[c] ELSE Unset,
          rules |-> [k \in DOMAIN mine |-> RenderNormalizedRule(family, mine[k])] ] ]

-----------------------------------------------------------------------------
(* nft: what it lists of a table into which these texts were loaded, with  *)
(* its own spelling of addresses and protocols, and what it makes of a     *)
(* packet.                                                                 *)
SpeltAddress(a) ==
    CASE a.bits = Bare  -> a
      [] a.bits = Width -> [a EXCEPT !.bits = Bare]
      [] OTHER          -> [a EXCEPT !.base = @ - (@ % 2^(Width - a.bits))]

Spelt(e) ==
    IF e.left \in {"ip", "ip6"} \X {"saddr", "daddr"}
    THEN [e EXCEPT !.right = SpeltAddress(@)]
    ELSE IF e.left = <<"ip6", "nexthdr">> THEN [e EXCEPT !.right = "ipv6-icmp"] ELSE e

Listing(texts) ==
    [ c \in UNION {DOMAIN texts[k] : k \in DOMAIN texts} |->
        LET mine == {k \in DOMAIN texts : c \in DOMAIN texts[k]}
            rules == FlattenSeq([k \in DOMAIN texts |-> If(k \in mine, texts[k][c].rules)])
        IN [ policy |-> texts[Max(mine)][c].policy,
             rules |-> [k \in DOMAIN rules |->
                          [l \in DOMAIN rules[k] |-> Spelt(rules[k][l])]] ] ]

(* The expressions of a rule with one of these left sides, and the right   *)
(* side of the last of them.                                               *)
With(exprs, lefts) == {k \in DOMAIN exprs : exprs[k].left \in lefts}

Right(exprs, lefts) ==
    LET those == With(exprs, lefts) IN IF those = {} THEN Unset ELSE exprs[Max(those)].right

Covers(a, v6, addr) ==
    a.v6 = v6 /\ (IF a.bits = Bare THEN a.base = addr
                  ELSE a.base \div 2^(Width - a.bits) = addr \div 2^(Width - a.bits))

Hits(e, packet) ==
    CASE e.left = <<"meta", "iif">> -> packet.iif = e.right
      [] e.left = <<"meta", "oif">> -> packet.oif = e.right
      [] e.left = <<"ct", "state">> -> packet.ct \in e.right
      [] e.left = <<"verdict">> -> TRUE
      [] e.left \in {"ip", "ip6"} \X {"saddr"} -> Covers(e.right, packet.v6, packet.source)
      [] e.left \in {"ip", "ip6"} \X {"daddr"} -> Covers(e.right, packet.v6, packet.destination)
      [] e.left \in {"tcp", "udp"} \X {"dport"} -> packet.proto = e.left[1] /\ packet.port = e.right
      [] OTHER -> packet.proto = e.right

Verdict(text, packet) ==
    IF packet.chain \notin DOMAIN text THEN "accept"
    ELSE LET rules == text[packet.chain].rules
             hits == {k \in DOMAIN rules :
                        \A l \in DOMAIN rules[k] : Hits(rules[k][l], packet)}
         IN IF hits = {} THEN text[packet.chain].policy
            ELSE Right(rules[Min(hits)], {<<"verdict">>})

-----------------------------------------------------------------------------
(* What hardline makes of a listed rule: nothing, when it has no verdict,  *)
(* no matcher it knows, or a protocol with ports and no port.              *)
NormalizeNftRuleExpr(chain, exprs) ==
    LET ported == With(exprs, {"tcp", "udp"} \X {"dport"})
        ct == Right(exprs, {<<"ct", "state">>})
        normal ==
          [ chain |-> chain, action |-> Right(exprs, {<<"verdict">>}),
            proto |-> IF ported # {} THEN exprs[Max(ported)].left[1]
                      ELSE IF Right(exprs, {<<"ip", "protocol">>}) = "icmp" THEN "icmp"
                      ELSE IF Right(exprs, {<<"ip6", "nexthdr">>}) \in {"icmpv6", "ipv6-icmp"}
                           THEN "icmpv6" ELSE Unset,
            port |-> IF ported = {} THEN Unset ELSE exprs[Max(ported)].right,
            source |-> CollapseFullPrefix(Right(exprs, {"ip", "ip6"} \X {"saddr"})),
            destination |-> CollapseFullPrefix(Right(exprs, {"ip", "ip6"} \X {"daddr"})),
            in_interface |-> Right(exprs, {"meta"} \X {"iif", "iifname"}),
            out_interface |-> Right(exprs, {"meta"} \X {"oif", "oifname"}),
            ct_states |-> Or(ct, {}) ]
    IN If(normal.action # Unset /\ (normal.ct_states # {} \/ ~NoMatcher(normal)), <<normal>>)

(* The policies there are, and the first of equal rules.                   *)
NormalizeCurrentState(listing) ==
    LET Read(c) == FlattenSeq([k \in DOMAIN listing[c].rules |->
                                 NormalizeNftRuleExpr(c, listing[c].rules[k])])
        chains == SetToSeq(DOMAIN listing)
    IN [ policies |-> [c \in {d \in DOMAIN listing : listing[d].policy # Unset} |-> listing[c].policy],
         rules |-> Distinct(FlattenSeq([k \in DOMAIN chains |-> Read(chains[k])])) ]

-----------------------------------------------------------------------------
(* Mutant: the order of rules does not count.                              *)
NeverReordered(current, desired, chains) == {}

ReorderedChains(current, desired, chains) ==
    { c \in chains :
        /\ Len(RulesOf(current, c)) = Len(RulesOf(desired, c))
        /\ RulesOf(current, c) # RulesOf(desired, c) }

(* DiffNormalized, over the chains the profile manages.  A chain without a *)
(* policy accepts.                                                         *)
DiffNormalized(current, desired) ==
    LET chains == DOMAIN desired.policies
        managed == {r \in ToSet(current.rules) : r.chain \in chains}
    IN [ policy_changes |-> { c \in chains : desired.policies[c] #
              (IF c \in DOMAIN current.policies THEN current.policies[c] ELSE "accept") },
         rules_to_add |-> ToSet(desired.rules) \ managed,
         rules_to_remove |-> managed \ ToSet(desired.rules),
         reordered |-> ReorderedChains(current.rules, desired.rules, chains) ]

Drifts(current, desired) ==
    LET diff == DiffNormalized(current, desired) IN \E key \in DOMAIN diff : diff[key] # {}

-----------------------------------------------------------------------------
(* What a declared ruleset says of a packet: the first rule that matches,  *)
(* or the last policy of the chain, or nothing.                            *)
Applies(r, packet) ==
    /\ r.chain = packet.chain
    /\ r.proto \in {Unset, packet.proto}
    /\ r.ports # <<>> => Contains(r.ports, packet.port)
    /\ r.source # Unset => Covers(r.source, packet.v6, packet.source)
    /\ r.destination # Unset => Covers(r.destination, packet.v6, packet.destination)
    /\ r.in_interface \in {Unset, packet.iif} /\ r.out_interface \in {Unset, packet.oif}
    /\ r.ct_states # <<>> => Contains(r.ct_states, packet.ct)

Says(s, packet) ==
    LET rules == {k \in DOMAIN s.rules : Applies(s.rules[k], packet)}
        policies == {k \in DOMAIN s.policies : s.policies[k].chain = packet.chain}
    IN IF policies = {} THEN Unset
       ELSE IF rules = {} THEN s.policies[Max(policies)].policy ELSE s.rules[Min(rules)].action

(* For every ruleset hardline accepts: its normal form, its text, and what *)
(* the kernel does and hardline reads once that text is loaded.            *)
Accepted == {s \in Samples : ~Refused(s)}
Desired == [s \in Accepted |-> NormalizeDesiredSpec(s)]
TextOf == [s \in Accepted |-> RenderNormalized(s.family, Desired[s])]
Current == [s \in Accepted |-> NormalizeCurrentState(Listing(<<TextOf[s]>>))]
Said == [s \in Accepted |-> [packet \in Packets |-> Says(s, packet)]]
Done == [s \in Accepted |-> [packet \in Packets |-> Verdict(TextOf[s], packet)]]

(* The pairs that the read-back gets wrong: a ruleset that drifts from     *)
(* itself, and two that do not drift apart although the one loaded does    *)
(* not treat some packet as the one wanted says.                           *)
Misread ==
    { x \in Accepted \X Accepted :
        LET loaded == x[1]  wanted == x[2] IN
        IF Drifts(Current[loaded], Desired[wanted]) THEN loaded = wanted
        ELSE \E packet \in Packets : Said[wanted][packet] \notin {Unset, Done[loaded][packet]} }
=============================================================================
