----------------------------- MODULE AuditRules -----------------------------
(***************************************************************************)
(* The rules of the audit plugin: how hardline reads those of its own file *)
(* and those that auditctl lists, which it spells in its own way, and when *)
(* it takes two for the same (audit/rules.go).                             *)
(*                                                                         *)
(* A rule is the sequence of its options, each <<flag, value>>: a path is  *)
(* its name and whether it ends in a slash, permissions and system calls   *)
(* are sequences, a comparison is <<field, operator, value>>.              *)
(***************************************************************************)
EXTENDS Naturals, SequencesExt

CONSTANT Unset

Permissions == <<"r", "w", "x", "a">>
Actions == {"always", "never"}
Lists == {"task", "exit", "user", "exclude", "filesystem"}
IdFields == {"auid", "uid", "gid"}
NoUser == {"4294967295", "-1", "unset"}

-----------------------------------------------------------------------------
RefusedList(pair) ==
    \/ (pair[1] \in Actions) = (pair[2] \in Actions)
    \/ ~({pair[1], pair[2]} \subseteq Actions \cup Lists)

RefusedRule(options) ==
    \/ \E k \in DOMAIN options :
         \/ options[k][1] \notin {"-w", "-p", "-a", "-A", "-S", "-k", "-F"}
         \/ options[k][1] \in {"-a", "-A"} /\ RefusedList(options[k][2])
    \/ \A k \in DOMAIN options : options[k][1] \notin {"-w", "-a", "-A"}

(* An action and a list, in either order.                                  *)
NormalizeRuleList(pair) == IF pair[2] \in Actions THEN <<pair[2], pair[1]>> ELSE pair

NormalizeField(f) ==
    IF f[1] \in IdFields /\ f[3] \in NoUser THEN <<f[1], f[2], "unset">> ELSE f

Blank == [ watch |-> Unset, perms |-> <<>>, list |-> Unset, syscalls |-> <<>>,
           fields |-> <<>>, key |-> Unset ]

WithOption(rule, option) ==
    LET value == option[2] IN
    CASE option[1] = "-w"         -> [rule EXCEPT !.watch = value[1]]
      [] option[1] = "-p"         -> [rule EXCEPT !.perms = value]
      [] option[1] \in {"-a", "-A"} -> [rule EXCEPT !.list = NormalizeRuleList(value)]
      [] option[1] = "-S"         -> [rule EXCEPT !.syscalls = @ \o value]
      [] option[1] = "-k"         -> [rule EXCEPT !.key = value]
      [] OTHER -> IF value[1] = "key" /\ value[2] = "=" THEN [rule EXCEPT !.key = value[3]]
                  ELSE [rule EXCEPT !.fields = Append(@, NormalizeField(value))]

Compared(rule, names) ==
    SelectSeq(rule.fields, LAMBDA f : f[1] \in names /\ f[2] = "=")

AsWatch(rule) ==
    LET perms == Compared(rule, {"perm"}) IN
    [ rule EXCEPT !.watch = Last(Compared(rule, {"path", "dir"}))[3][1],
                  !.perms = IF perms = <<>> THEN <<>> ELSE Last(perms)[3],
                  !.list = Unset, !.fields = <<>> ]

(* A rule that compares nothing but a path and permissions is a watch.     *)
FoldWatchFields(rule) ==
    IF /\ rule.watch = Unset /\ rule.syscalls = <<>> /\ rule.list = <<"always", "exit">>
       /\ Compared(rule, {"path", "dir"}) # <<>>
       /\ Compared(rule, {"path", "dir", "perm"}) = rule.fields
    THEN AsWatch(rule) ELSE rule

(* A watch without permissions has all of them.                            *)
ParseRuleTokens(options) ==
    LET rule == FoldWatchFields(FoldLeft(WithOption, Blank, options)) IN
    IF rule.watch # Unset /\ rule.perms = <<>> THEN [rule EXCEPT !.perms = Permissions] ELSE rule

(* What is sorted is as often there as before.                             *)
Sorted(s) == [x \in ToSet(s) |-> Cardinality({k \in DOMAIN s : s[k] = x})]

Canonical(rule) ==
    IF rule.watch # Unset THEN <<"w", rule.watch, Sorted(rule.perms), rule.key>>
    ELSE <<"a", rule.list, Sorted(rule.syscalls), Sorted(rule.fields), rule.key>>

(* ParseLoadedRules skips the rules it cannot read; ParseRules does not.   *)
CanonicalRules(rules) ==
    {Canonical(ParseRuleTokens(options)) : options \in {o \in rules : ~RefusedRule(o)}}

MissingRules(loaded, want) == CanonicalRules(want) \ CanonicalRules(loaded)

WatchPaths(rules) == {ParseRuleTokens(options).watch : options \in rules} \ {Unset}

-----------------------------------------------------------------------------
(* The kernel: the rule that it makes of some options.                     *)
Values(options, flags) ==
    LET mine == SelectSeq(options, LAMBDA o : o[1] \in flags)
    IN [k \in DOMAIN mine |-> mine[k][2]]

OnPath == {"path", "dir"}

KernelRule(options) ==
    LET watches == Values(options, {"-w"})
        lists == Values(options, {"-a", "-A"})
        fields == Values(options, {"-F"})
        paths == SelectSeq(fields, LAMBDA f : f[1] \in OnPath)
        perms == SelectSeq(fields, LAMBDA f : f[1] = "perm")
        keys == Values(options, {"-k"})
        named == SelectSeq(fields, LAMBDA f : f[1] = "key")
        Of(s, other) == IF s = <<>> THEN other ELSE Last(s)
    IN [ on |-> IF watches # <<>> THEN Last(watches)[1]
                ELSE Of(paths, <<"", "", <<Unset>>>>)[3][1],
         perms |-> ToSet(IF watches # <<>> THEN Of(Values(options, {"-p"}), Permissions)
                         ELSE Of(perms, <<"perm", "=", Permissions>>)[3]),
         list |-> IF watches # <<>> THEN {"always", "exit"} ELSE ToSet(Last(lists)),
         syscalls |-> UNION {ToSet(Values(options, {"-S"})[k]) : k \in DOMAIN Values(options, {"-S"})},
         fields |-> { <<f[1], f[2], IF f[3] \in NoUser THEN "unset" ELSE f[3]>> :
                        f \in {g \in ToSet(fields) : g[1] \notin OnPath \cup {"perm", "key"}} },
         others |-> {o \in ToSet(options) : o[1] = "-C"},
         key |-> Of(keys, Of(named, <<"key", "=", Unset>>)[3]) ]

(* auditctl -l: a watch (of a directory) as such, or by its fields.        *)
Printed(rule, style) ==
    LET perms == SelectSeq(Permissions, LAMBDA x : x \in rule.perms)
        list == IF "never" \in rule.list THEN "never" ELSE "always"
        Each(flag, values) == LET s == SetToSeq(values) IN [k \in DOMAIN s |-> <<flag, s[k]>>]
        Shown(f) == IF f[3] = "unset" /\ style = "fields" THEN <<f[1], f[2], "-1">> ELSE f
        If(condition, option) == IF condition THEN <<option>> ELSE <<>>
        plain == rule.on # Unset /\ rule.syscalls = {} /\ rule.fields = {} /\ rule.others = {}
    IN IF plain /\ style = "watch"
       THEN <<<<"-w", <<rule.on, FALSE>>>>, <<"-p", perms>>>>
            \o If(rule.key # Unset, <<"-k", rule.key>>)
       ELSE <<<<"-a", <<list, CHOOSE x \in rule.list : x # list>>>>>>
            \o If(rule.on # Unset, <<"-F", <<"dir", "=", <<rule.on, FALSE>>>>>>)
            \o If(rule.on # Unset, <<"-F", <<"perm", "=", perms>>>>)
            \o Each("-F", {Shown(f) : f \in rule.fields})
            \o Each("-S", {<<x>> : x \in rule.syscalls}) \o SetToSeq(rule.others)
            \o If(rule.key # Unset, <<"-F", <<"key", "=", rule.key>>>>)
=============================================================================
