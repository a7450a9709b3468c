------------------------------- MODULE MCSsh -------------------------------
(* Two keywords, three policies, and hosts whose other configuration says  *)
(* nothing, overrides a keyword, overrides it in a Match block, or does    *)
(* not parse with one of the drop-ins.                                     *)
EXTENDS Ssh, TLC

CONSTANTS pubkey, x11, yes, no

MCKeys == {pubkey, x11}
MCValues == {yes, no}
Policy(p, x) == pubkey :> p @@ x11 :> x
X11Off == Policy(Unset, no)
X11On == Policy(yes, yes)
KeysOff == Policy(no, no)
Broken1 == Policy(no, Unset)
MCWants == {X11Off, X11On, KeysOff, Broken1}
MCRejected == {Broken1}
Rest(first, match, clash) == [first |-> first, match |-> match, clash |-> clash]
Nothing == Policy(Unset, Unset)
MCRests ==
    { Rest(Nothing, Nothing, {}), Rest(Nothing, Policy(Unset, yes), {}),
      Rest(Policy(yes, Unset), Nothing, {}), Rest(Nothing, Nothing, {X11On}) }
=============================================================================
