--------------------------------- MODULE Path ---------------------------------
(***************************************************************************)
(* A file on the host, and what the commands hardline runs on it do: the   *)
(* kernel and coreutils, as the plugins template and file_meta meet them.  *)
(* A file is its content, its mode, its owner and the append-only and      *)
(* immutable attributes.  A mode is its permissions and its set-user-ID    *)
(* bit, because chown(2) clears the latter; owner and group are one value. *)
(* The kernel lets nobody chmod, chown, replace or remove a file that has  *)
(* either attribute.                                                       *)
(***************************************************************************)
EXTENDS Naturals, Sequences

CONSTANTS
    Contents,    \* what a file may hold
    Perms,       \* permission bits
    SetUid,      \* the values of the set-user-ID bit in use
    Owners,      \* owner:group pairs
    Root,        \* the owner of what `install` writes
    Unset, Gone

Letters == {"a", "i"}
Modes == [perm : Perms, suid : SetUid]
Files == [content : Contents, mode : Modes, owner : Owners, attrs : SUBSET Letters]

ASSUME PathAssumption ==
    /\ SetUid \subseteq BOOLEAN /\ FALSE \in SetUid
    /\ Root \in Owners
    /\ Unset \notin Modes \cup Owners \cup BOOLEAN
    /\ Gone \notin Files

If(cond, commands) == IF cond THEN commands ELSE <<>>
Chmod(mode) == <<[do |-> "chmod", arg |-> mode]>>
Chown(owner) == <<[do |-> "chown", arg |-> owner]>>
Rm == <<[do |-> "rm", arg |-> Gone]>>

(* WriteRootFile: the content goes to a temporary file, and install puts   *)
(* it in place, root's and with its mode.                                  *)
WriteRootFile(content, mode) ==
    <<[ do |-> "install",
        arg |-> [content |-> content, mode |-> mode, owner |-> Root, attrs |-> {}] ]>>

Plain(mode) == [mode EXCEPT !.suid = FALSE]

Refused(c, f) ==
    IF f = Gone THEN c.do \notin {"install", "rm"}
    ELSE c.do \notin {"chattr-", "chattr+"} /\ f.attrs # {}

Effect(c, f) ==
    CASE c.do \in {"install", "rm"} -> c.arg
      [] c.do = "chmod"   -> [f EXCEPT !.mode = c.arg]
      [] c.do = "chown"   -> [f EXCEPT !.owner = c.arg, !.mode = Plain(@)]
      [] c.do = "chattr-" -> [f EXCEPT !.attrs = @ \ c.arg]
      [] c.do = "chattr+" -> [f EXCEPT !.attrs = @ \cup c.arg]
=============================================================================
