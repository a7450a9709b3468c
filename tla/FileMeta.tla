------------------------------- MODULE FileMeta -------------------------------
(***************************************************************************)
(* The file_meta plugin (internals/plugins/filemeta): it re-stamps the     *)
(* mode, the owner and the attributes of a path that exists, one chattr,   *)
(* chmod or chown at a time, and takes the stamp back the same way.        *)
(***************************************************************************)
EXTENDS Path

Specs == [ plugin : {"file_meta"},
           mode : Modes \cup {Unset}, owner : Owners \cup {Unset},
           append_only : BOOLEAN \cup {Unset}, immutable : BOOLEAN \cup {Unset} ]

(* What the plugin sees of a path that exists.                             *)
Meta(f) == [mode |-> f.mode, owner |-> f.owner, attrs |-> f.attrs]
Snapshot(f) == IF f = Gone THEN Gone ELSE Meta(f)

Or(set, current) == IF set = Unset THEN current ELSE set

(* The value of an attribute letter the config leaves alone is the path's. *)
DesiredManagedAttrs(attrs, s) ==
    { l \in Letters : Or(IF l = "a" THEN s.append_only ELSE s.immutable, l \in attrs) }

Manages(s) == s.append_only # Unset \/ s.immutable # Unset

Wanted(cur, s) ==
    [ cur EXCEPT !.mode = Or(s.mode, @), !.owner = Or(s.owner, @),
                 !.attrs = IF Manages(s) THEN DesiredManagedAttrs(@, s) ELSE @ ]

(* Plan, which compares field by field.                                    *)
WillChange(cur, s) ==
    /\ cur # Gone
    /\ \/ s.mode \notin {Unset, cur.mode} \/ s.owner \notin {Unset, cur.owner}
       \/ Manages(s) /\ DesiredManagedAttrs(cur.attrs, s) # cur.attrs

(* chattr - and then chattr +, each when it has letters to name.           *)
ManagedAttrs(desired) ==
    If(desired # Letters, <<[do |-> "chattr-", arg |-> Letters \ desired]>>)
    \o If(desired # {}, <<[do |-> "chattr+", arg |-> desired]>>)

(* Mutant: the attributes that were lifted are put back only when they     *)
(* were to change.                                                         *)
LiftedForGood(cur, s) ==
    LET want == Wanted(cur, s)
        restamp == want.mode # cur.mode \/ want.owner # cur.owner
    IN If(restamp /\ Manages(s) /\ cur.attrs # {}, ManagedAttrs({}))
       \o If(want.mode # cur.mode, Chmod(want.mode))
       \o If(want.owner # cur.owner, Chown(want.owner))
       \o If(want.attrs # cur.attrs, ManagedAttrs(want.attrs))

(* Apply: lift the attributes when the stamp needs it, stamp what differs, *)
(* and lock again.                                                         *)
ApplyCommands(cur, s) ==
    LET want == Wanted(cur, s)
        restamp == want.mode # cur.mode \/ want.owner # cur.owner
        lift == restamp /\ Manages(s) /\ cur.attrs # {}
    IN If(lift, ManagedAttrs({}))
       \o If(want.mode # cur.mode, Chmod(want.mode))
       \o If(want.owner # cur.owner, Chown(want.owner))
       \o If(lift \/ want.attrs # cur.attrs, ManagedAttrs(want.attrs))

(* Mutant: a locked path is stamped as it is.                              *)
RestoreLocked(snap) == Chmod(snap.mode) \o Chown(snap.owner) \o ManagedAttrs(snap.attrs)

(* restoreFileMeta.                                                        *)
RestoreCommands(snap) ==
    ManagedAttrs({}) \o Chmod(snap.mode) \o Chown(snap.owner) \o ManagedAttrs(snap.attrs)

(* fileMetaConflict.                                                       *)
Conflict(cur, snap) == snap # Gone /\ Snapshot(cur) # snap
=============================================================================
