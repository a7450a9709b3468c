------------------------------ MODULE MCPackages ------------------------------
(* Three packages, of which two need the one whose name comes between theirs. *)
EXTENDS Packages

CONSTANTS app, lib, web

Sorted == <<app, lib, web>>
BothNeedLib == [p \in Pkgs |-> IF p = lib THEN {} ELSE {lib}]

Mode(update, upgrade, autoremove) ==
    [op \in Ops |-> CASE op = "update" -> update [] op = "upgrade" -> upgrade
                      [] OTHER -> autoremove]

ModeChoices == { Mode("never", "never", "never"), Mode("always", "once", "once"),
                 Mode("never", "since", "always") }
=============================================================================
