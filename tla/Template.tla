------------------------------- MODULE Template -------------------------------
(***************************************************************************)
(* The template plugin (internals/plugins/template): it writes a rendered  *)
(* file with a mode, unless the path already has both.  What it found is   *)
(* put back as a whole (pluginapi.RestoreFileSnapshot).                    *)
(***************************************************************************)
EXTENDS Path

Specs == [plugin : {"template"}, content : Contents, mode : Modes]

(* SnapshotRemoteFile: attributes are not part of it.                      *)
Snapshot(f) ==
    IF f = Gone THEN Gone
    ELSE [content |-> f.content, mode |-> f.mode, owner |-> f.owner]

(* templateDestinationMatches; the owner is not compared.                  *)
Matches(cur, s) == cur # Gone /\ cur.content = s.content /\ cur.mode = s.mode

(* Mutant: a plan does not look at the mode.                               *)
WillRewrite(cur, s) == cur = Gone \/ cur.content # s.content

WillChange(cur, s) == ~Matches(cur, s)

(* Apply; the mkdir -p of the directory is part of the write.              *)
ApplyCommands(cur, s) == If(~Matches(cur, s), WriteRootFile(s.content, s.mode))

(* Mutant: the mode is not set once more after chown.                      *)
RestoreOnce(snap) ==
    IF snap = Gone THEN Rm
    ELSE WriteRootFile(snap.content, snap.mode) \o Chown(snap.owner)

(* RestoreFileSnapshot, which sets a special mode again after chown.       *)
RestoreCommands(snap) ==
    IF snap = Gone THEN Rm
    ELSE WriteRootFile(snap.content, snap.mode) \o Chown(snap.owner)
         \o If(snap.mode.suid, Chmod(snap.mode))

(* FileSnapshotConflict.                                                   *)
Conflict(cur, snap) == Snapshot(cur) # snap
=============================================================================
