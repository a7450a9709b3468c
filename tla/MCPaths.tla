-------------------------------- MODULE MCPaths --------------------------------
(* Profiles for one path: every stamp, every file, and steps that follow   *)
(* each other on the path without changing what another one wrote, or with.*)
EXTENDS Paths, SequencesExt

CONSTANTS c1, c2, p600, p644, root, admin, la, lb

Mode(perm, suid) == [perm |-> perm, suid |-> suid]
Write(content, mode) == [plugin |-> "template", content |-> content, mode |-> mode]
Stamp(mode, owner, a, i2) ==
    [ plugin |-> "file_meta", mode |-> mode, owner |-> owner,
      append_only |-> a, immutable |-> i2 ]

Stamps == { Stamp(m, o, a, b) : m \in {Unset, Mode(p600, FALSE), Mode(p600, TRUE)},
              o \in {Unset, admin}, a, b \in BOOLEAN \cup {Unset} }
Writes == {Write(c1, m) : m \in {Mode(p600, FALSE), Mode(p644, TRUE)}}

Alone == {<<s>> : s \in (Stamps \ {Stamp(Unset, Unset, Unset, Unset)}) \cup Writes}

(* A template and the owner, or the lock, it cannot give its file.         *)
Owner == Stamp(Unset, admin, Unset, Unset)
Lock == Stamp(Unset, Unset, Unset, TRUE)
Pairs == { <<w, s>> : w \in Writes, s \in {Owner, Lock} }
         \cup { <<s, w>> : w \in Writes, s \in {Owner, Lock} }
         \cup { <<Owner, Lock>>, <<Lock, Owner>>, <<Owner, Lock, Stamp(Mode(p600, TRUE), Unset, TRUE, FALSE)>> }
AllProfiles == Alone \cup Pairs

(* Texts of up to three lines, which end in LF, CR or both or in nothing, *)
(* and one that is too long to be compared.                                *)
Lines(n) == [1..n -> {<<la>>, <<lb>>}]
Text(lines, end) == FoldLeft(LAMBDA t, l : t \o l \o end, <<>>, lines)
SomeTexts ==
    {Text(l, <<LF>>) : l \in Lines(1) \cup Lines(2) \cup Lines(3)}
    \cup {Text(l, e) : l \in Lines(2), e \in {<<CR, LF>>, <<CR>>}}
    \cup {<<>>, <<LF>>, <<LF, LF>>, <<la>>, <<la, LF, LF, la>>, <<la, CR>>, <<la, LF, lb, LF, la, LF, la>>}
=============================================================================
