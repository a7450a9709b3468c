------------------------------- MODULE LineDiff -------------------------------
(***************************************************************************)
(* The diff a plan shows of a file it would write: the lines of the        *)
(* current and of the desired text, the edits that lead from one to the    *)
(* other, and the first of them (template/execution.go, and the same code  *)
(* once more in firewall/execution.go).  A text is a sequence of           *)
(* characters, of which CR and LF end lines.                               *)
(***************************************************************************)
EXTENDS Integers, Sequences

CONSTANTS
    Characters,
    Texts,         \* the texts compared
    CR, LF,
    MaxLines,      \* a longer text is not compared line by line
    PreviewLimit   \* how many edits are shown

ASSUME LineDiffAssumption ==
    /\ {CR, LF} \subseteq Characters /\ Texts \subseteq Seq(Characters)
    /\ MaxLines \in Nat /\ PreviewLimit \in Nat \ {0}

(* CRLF, and then CR, are replaced by LF.                                  *)
Normalized(t) ==
    LET f[s \in Seq(Characters)] ==
          IF s = <<>> THEN <<>>
          ELSE IF Head(s) # CR THEN <<Head(s)>> \o f[Tail(s)]
          ELSE IF Tail(s) # <<>> /\ Head(Tail(s)) = LF THEN f[Tail(s)]
          ELSE <<LF>> \o f[Tail(s)]
    IN f[t]

(* strings.Split at every LF.                                              *)
Split(t) ==
    LET f[s \in Seq(Characters)] ==
          IF s = <<>> THEN << <<>> >>
          ELSE IF Head(s) = LF THEN << <<>> >> \o f[Tail(s)]
          ELSE << <<Head(s)>> \o Head(f[Tail(s)]) >> \o Tail(f[Tail(s)])
    IN f[t]

(* What follows the last LF is a line unless it is empty.                  *)
SplitLines(t) ==
    LET lines == Split(Normalized(t)) IN
    IF lines[Len(lines)] = <<>> THEN SubSeq(lines, 1, Len(lines) - 1) ELSE lines

(* How far the lines of x and of y are compared: before line m of the one  *)
(* and line n of the other.                                                *)
Places(x, y) == (1..Len(x) + 1) \X (1..Len(y) + 1)

(* dp: how many lines of x from m on and of y from n on can be kept.       *)
Kept(x, y) ==
    LET f[at \in Places(x, y)] ==
          LET m == at[1]
              n == at[2]
          IN IF m > Len(x) \/ n > Len(y) THEN 0
             ELSE IF x[m] = y[n] THEN f[<<m + 1, n + 1>>] + 1
             ELSE IF f[<<m + 1, n>>] >= f[<<m, n + 1>>] THEN f[<<m + 1, n>>]
             ELSE f[<<m, n + 1>>]
    IN f

Line == Seq(Characters)

(* The kinds of an edit, written ' ', '-', '+' and '!' in the code.        *)
AllEdits == [kind : {"same", "removed", "added", "oversized"}, line : Line]

Edit(kind, line) == [kind |-> kind, line |-> line]

(* Mutant: a line that differs is always removed, whatever else it costs.  *)
RemoveAtOnce(x, y) ==
    LET f[at \in Places(x, y)] ==
          LET m == at[1]
              n == at[2]
          IN IF m > Len(x) /\ n > Len(y) THEN <<>>
             ELSE IF m <= Len(x) /\ n <= Len(y) /\ x[m] = y[n]
                  THEN <<Edit("same", x[m])>> \o f[<<m + 1, n + 1>>]
             ELSE IF m <= Len(x) THEN <<Edit("removed", x[m])>> \o f[<<m + 1, n>>]
             ELSE <<Edit("added", y[n])>> \o f[<<m, n + 1>>]
    IN f[<<1, 1>>]

(* diffTemplateLines: keep what is equal, remove before adding where that  *)
(* keeps as much, and add the rest.                                        *)
Edits(x, y) ==
    LET kept == Kept(x, y)
        f[at \in Places(x, y)] ==
          LET m == at[1]
              n == at[2]
          IN IF m > Len(x) /\ n > Len(y) THEN <<>>
             ELSE IF m <= Len(x) /\ n <= Len(y) /\ x[m] = y[n]
                  THEN <<Edit("same", x[m])>> \o f[<<m + 1, n + 1>>]
             ELSE IF m <= Len(x) /\ (n > Len(y) \/ kept[<<m + 1, n>>] >= kept[<<m, n + 1>>])
                  THEN <<Edit("removed", x[m])>> \o f[<<m + 1, n>>]
             ELSE <<Edit("added", y[n])>> \o f[<<m, n + 1>>]
    IN f[<<1, 1>>]

DiffLines(t, u) ==
    LET x == SplitLines(t)
        y == SplitLines(u)
    IN IF Len(x) > MaxLines \/ Len(y) > MaxLines THEN <<Edit("oversized", <<>>)>> ELSE Edits(x, y)

(* The edits of some kinds.                                                *)
OfKind(edits, kinds) ==
    LET f[s \in Seq(AllEdits)] ==
          IF s = <<>> THEN <<>>
          ELSE IF Head(s).kind \in kinds THEN <<Head(s)>> \o f[Tail(s)]
          ELSE f[Tail(s)]
    IN f[edits]

Changes(edits) == OfKind(edits, {"removed", "added", "oversized"})

(* renderTemplateContentDiff: the first changes, and how many are left out. *)
ContentDiff(t, u) ==
    LET changes == Changes(DiffLines(t, u))
        n == IF Len(changes) < PreviewLimit THEN Len(changes) ELSE PreviewLimit
    IN [shown |-> SubSeq(changes, 1, n), omitted |-> Len(changes) - n]

-----------------------------------------------------------------------------
(* The sequences that s has in it, with other elements in between or not.  *)
Increasing(n, top) ==
    {g \in [1..n -> 1..top] : \A j, k \in 1..n : j < k => g[j] < g[k]}
SubSequences(s) ==
    UNION {{[k \in 1..n |-> s[g[k]]] : g \in Increasing(n, Len(s))} : n \in 0..Len(s)}

LinesOf(edits, kinds) ==
    LET those == OfKind(edits, kinds) IN [k \in 1..Len(those) |-> those[k].line]

(* The edits of the diff lead from the lines of t to those of u, and there *)
(* are no more of them than it takes; one is shown unless the lines are    *)
(* the same, however many there are.                                       *)
Faithful(t, u) ==
    LET x == SplitLines(t)
        y == SplitLines(u)
        edits == DiffLines(t, u)
        diff == ContentDiff(t, u)
    IN /\ (diff.shown = <<>>) <=> (x = y /\ Len(x) <= MaxLines)
       /\ Len(diff.shown) + diff.omitted = Len(Changes(edits))
       /\ Len(x) <= MaxLines /\ Len(y) <= MaxLines =>
            /\ LinesOf(edits, {"same", "removed"}) = x
            /\ LinesOf(edits, {"same", "added"}) = y
            /\ \A s \in SubSequences(x) \cap SubSequences(y) :
                 Len(s) <= Len(LinesOf(edits, {"same"}))

Unfaithful == {pair \in Texts \X Texts : ~Faithful(pair[1], pair[2])}
=============================================================================
