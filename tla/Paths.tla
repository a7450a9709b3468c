--------------------------------- MODULE Paths ---------------------------------
(***************************************************************************)
(* The life of one path under a profile whose steps, of the plugins        *)
(* template and file_meta, all manage it: captured, applied and captured   *)
(* again step by step (apply.executeStep), undone when a step fails, and   *)
(* rolled back once the run is on record (internals/rollback), with        *)
(* commands that fail with or without effect, a runner that is killed and  *)
(* starts over, and a path that somebody deletes meanwhile.                *)
(* Bound of the model: MaxFaults.                                          *)
(***************************************************************************)
EXTENDS Path, LineDiff

CONSTANTS
    Profiles,    \* sequences of steps for the path
    Uncaptured,  \* the After of a step whose second capture never happened
    MaxFaults,   \* how many commands fail, runners die or paths vanish
    ProbesLie    \* whether the test -e that looks for the path may fail, too

FM == INSTANCE FileMeta
TP == INSTANCE Template

ASSUME PathsAssumption ==
    /\ Profiles \subseteq Seq(FM!Specs \cup TP!Specs) \ {<<>>}
    /\ MaxFaults \in Nat /\ ProbesLie \in BOOLEAN
    /\ Uncaptured # Gone
    /\ {Gone, Uncaptured} \cap ({TP!Snapshot(f) : f \in Files} \cup {FM!Snapshot(f) : f \in Files}) = {}

VARIABLES
    profile,  \* the steps
    file,     \* the path, or Gone
    pc,       \* where the run or its rollback is
    i,        \* at which step
    cmds,     \* the commands still to run
    journal,  \* of each step begun: what was captured before and after it
    start,    \* history: the path as the run found it
    misled,   \* history: a capture before a step was a lie, or the path deleted
    faults    \* how many faults have happened

vars == <<profile, file, pc, i, cmds, journal, start, misled, faults>>

IsTemplate(k) == profile[k].plugin = "template"

Snapshot(k, f) == IF IsTemplate(k) THEN TP!Snapshot(f) ELSE FM!Snapshot(f)

ApplyCommands(k, cur) ==
    IF IsTemplate(k) THEN TP!ApplyCommands(cur, profile[k])
    ELSE FM!ApplyCommands(cur, profile[k])

WillChange(k, cur) ==
    IF IsTemplate(k) THEN TP!WillChange(cur, profile[k]) ELSE FM!WillChange(cur, profile[k])

Fault == faults < MaxFaults /\ faults' = faults + 1
NoFault == UNCHANGED faults

Init ==
    /\ profile \in Profiles /\ file \in Files \cup {Gone}
    /\ pc = "ready" /\ i = 1 /\ cmds = <<>> /\ journal = <<>>
    /\ start = file /\ misled = FALSE /\ faults = 0

-----------------------------------------------------------------------------
Begin ==
    /\ pc = "ready" /\ pc' = "capture"
    /\ start' = file
    /\ UNCHANGED <<profile, file, i, cmds, journal, misled, faults>>

(* test -e finds what is there, or lies.                                   *)
Probe(seen) ==
    \/ seen = file /\ NoFault
    \/ ProbesLie /\ seen = Gone /\ Fault

(* The capture before a step.  snapshotFileMeta trusts test -e; a          *)
(* SnapshotRemoteFile that cannot tell fails, and so does the run.         *)
CaptureBefore ==
    /\ pc = "capture"
    /\ \/ \E seen \in {file, Gone} :
            /\ IF IsTemplate(i) THEN seen = file /\ NoFault ELSE Probe(seen)
            /\ journal' = Append(journal, [before |-> Snapshot(i, seen), after |-> Uncaptured])
            /\ misled' = (misled \/ seen # file)
            /\ pc' = "inspect"
       \/ Fault /\ pc' = "failed" /\ UNCHANGED <<journal, misled>>
    /\ UNCHANGED <<profile, file, i, cmds, start>>

(* Apply looks at the path; file_meta refuses one that is not there.       *)
Inspect ==
    /\ pc = "inspect"
    /\ \/ \E seen \in {file, Gone} :
            /\ Probe(seen)
            /\ IF seen = Gone /\ ~IsTemplate(i)
               THEN pc' = "failed" /\ UNCHANGED cmds
               ELSE pc' = "apply" /\ cmds' = ApplyCommands(i, seen)
       \/ Fault /\ pc' = "failed" /\ UNCHANGED cmds
    /\ UNCHANGED <<profile, file, i, journal, start, misled>>

Complete == \A k \in DOMAIN profile : k \in DOMAIN journal /\ journal[k].after # Uncaptured

(* A rollback that stops: an automatic one for good.                       *)
Stuck == IF Complete THEN "stuck" ELSE "undo failed"

(* The next command of Apply or of a restoration.                          *)
Command ==
    /\ pc \in {"apply", "revert"} /\ cmds # <<>>
    /\ LET c == Head(cmds) IN
         \/ /\ ~Refused(c, file) /\ NoFault
            /\ file' = Effect(c, file)
            /\ cmds' = Tail(cmds)
            /\ UNCHANGED pc
         \/ /\ \/ Refused(c, file) /\ UNCHANGED file /\ NoFault
               \/ ~Refused(c, file) /\ file' \in {file, Effect(c, file)} /\ Fault
            /\ pc' = IF pc = "apply" THEN "failed" ELSE Stuck
            /\ cmds' = <<>>
    /\ UNCHANGED <<profile, i, journal, start, misled>>

(* The capture after a step; when there is none, the step failed.          *)
CaptureAfter ==
    /\ pc = "apply" /\ cmds = <<>>
    /\ \/ \E seen \in {file, Gone} :
            /\ IF IsTemplate(i) THEN seen = file /\ NoFault ELSE Probe(seen)
            /\ journal' = [journal EXCEPT ![i].after = Snapshot(i, seen)]
            /\ IF i = Len(profile) THEN pc' = "applied" /\ UNCHANGED i
               ELSE pc' = "capture" /\ i' = i + 1
       \/ Fault /\ pc' = "failed" /\ UNCHANGED <<i, journal>>
    /\ UNCHANGED <<profile, file, cmds, start, misled>>

-----------------------------------------------------------------------------
(* Rolling back.                                                           *)
Applies(k) == journal[k].before # journal[k].after

DetectConflict(k, snap) ==
    IF IsTemplate(k) THEN TP!Conflict(file, snap) ELSE FM!Conflict(file, snap)

(* checkStepConflicts.                                                     *)
Conflicts(resuming) ==
    { k \in DOMAIN journal :
        /\ Applies(k) /\ journal[k].after # Uncaptured
        /\ DetectConflict(k, journal[k].after)
        /\ ~(resuming /\ ~DetectConflict(k, journal[k].before)) }

(* RollbackSteps of a run that failed, and the rollback command.           *)
Rollback ==
    /\ pc \in {"failed", "applied", "stuck"}
    /\ pc' = IF Conflicts(pc = "stuck") = {} THEN "revert"
             ELSE IF pc = "failed" THEN Stuck ELSE "refused"
    /\ i' = Len(journal)
    /\ UNCHANGED <<profile, file, cmds, journal, start, misled, faults>>

(* The rollback command again, with --force-rollback.                      *)
ForceRollback ==
    /\ pc = "refused" /\ pc' = "revert"
    /\ i' = Len(journal)
    /\ UNCHANGED <<profile, file, cmds, journal, start, misled, faults>>

(* The next step back.  restoreFileMeta looks for the path first, and      *)
(* does nothing for one that was not there.                                *)
RevertStep ==
    /\ pc = "revert" /\ cmds = <<>> /\ i > 0
    /\ i' = i - 1
    /\ LET before == journal[i].before
           nothing == ~Applies(i) \/ (~IsTemplate(i) /\ before = Gone)
       IN
         CASE nothing -> UNCHANGED <<pc, cmds, faults>>
           [] ~nothing /\ IsTemplate(i) ->
                cmds' = TP!RestoreCommands(before) /\ UNCHANGED <<pc, faults>>
           [] OTHER ->
                \/ /\ file # Gone /\ NoFault
                   /\ cmds' = FM!RestoreCommands(before) /\ UNCHANGED pc
                \/ /\ pc' = Stuck /\ UNCHANGED cmds
                   /\ IF file = Gone THEN NoFault ELSE ProbesLie /\ Fault
    /\ UNCHANGED <<profile, file, journal, start, misled>>

Restored ==
    /\ pc = "revert" /\ cmds = <<>> /\ i = 0
    /\ pc' = "restored"
    /\ UNCHANGED <<profile, file, i, cmds, journal, start, misled, faults>>

(* A new run of the profile, after this one ended or the runner died.      *)
StartOver ==
    /\ \/ pc \in {"applied", "restored", "refused", "stuck", "undo failed"} /\ NoFault
       \/ pc # "ready" /\ Fault
    /\ pc' = "ready"
    /\ i' = 1 /\ cmds' = <<>> /\ journal' = <<>> /\ misled' = FALSE
    /\ UNCHANGED <<profile, file, start>>

(* Somebody deletes the path.                                              *)
Vanish ==
    /\ pc # "ready" /\ file # Gone /\ Fault
    /\ file' = Gone /\ misled' = TRUE
    /\ UNCHANGED <<profile, pc, i, cmds, journal, start>>

Next ==
    \/ Begin \/ CaptureBefore \/ Inspect \/ Command \/ CaptureAfter
    \/ Rollback \/ ForceRollback \/ RevertStep \/ Restored \/ StartOver \/ Vanish

Spec == Init /\ [][Next]_vars

-----------------------------------------------------------------------------
(* A path that differs from f by the bit that a chown cleared.             *)
OrPlain(f) == {f, [f EXCEPT !.mode = Plain(@)]}

(* What a step may leave of a path f: for a template what already matched, *)
(* or a file of its own; for file_meta the stamp on top of the rest.       *)
Outcomes(f, s) ==
    IF s.plugin = "template"
    THEN {[content |-> s.content, mode |-> s.mode, owner |-> Root, attrs |-> {}]}
         \cup {g \in {f} \ {Gone} : TP!Matches(g, s)}
    ELSE IF f = Gone THEN {}
    ELSE LET want == FM!Wanted(f, s) IN
         IF want.owner = f.owner THEN {want} ELSE OrPlain(want)

(* left[k] is what the first k steps may leave of a path f.                *)
Left(steps, f) ==
    LET left[k \in 0..Len(steps)] ==
          IF k = 0 THEN {f} ELSE UNION {Outcomes(g, steps[k]) : g \in left[k - 1]}
    IN left

(* A run that succeeded left exactly what its steps ask for, each on top   *)
(* of what it found: every stamp is complete, what it lifted is locked     *)
(* again, and what a config omits is as it was (Apply), except that a new  *)
(* owner costs the file its set-user-ID bit.                               *)
DoneMeansDesired ==
    (pc = "applied" /\ file # Gone) =>
        file \in Left(profile, start)[Len(profile)]

(* A rollback that ended well, forced or not, of a run that succeeded or   *)
(* failed anywhere, left the path as the run found it, locks included,     *)
(* unless somebody deleted it or test -e lied; what file_meta restores     *)
(* loses its set-user-ID bit (restoreFileMeta, RestoreFileSnapshot).       *)
UndoneMeansBefore ==
    (pc = "restored" /\ ~misled) =>
        \/ file = start
        \/ start # Gone /\ file \in OrPlain(start) /\ \E k \in DOMAIN profile : ~IsTemplate(k)

(* Where no command fails, no restoration is refused by the kernel: locks  *)
(* are lifted in time, and only a template step on a path that is locked   *)
(* can neither be applied nor undone.  A conflict is not such a refusal:   *)
(* it is found before the first restoration, where i is Len(journal) yet.  *)
UndoSucceeds ==
    (pc \in {"stuck", "undo failed"} /\ i < Len(journal) /\ faults = 0) =>
        file # Gone /\ file.attrs # {} /\ IsTemplate(Len(journal))

(* A profile of which a plan of the same path calls every step unchanged   *)
(* runs no command, not even one that lifts a lock and puts it back.       *)
PlanForesees ==
    (faults = 0 /\ \A k \in DOMAIN profile : ~WillChange(k, start)) =>
        cmds = <<>> /\ file = start

(* Whatever a path holds and a template is to put there, the plan shows the
   edits that lead from the one to the other, says how many it leaves out, and
   shows none only of a text with the same lines (renderTemplateContentDiff). *)
DiffShowsEdits == pc = "ready" => Unfaithful = {}

(* "Another tool, a manual edit, a second Hardline profile - touched a     *)
(* managed object between the apply and the rollback": nothing else makes  *)
(* a rollback find a conflict.                                             *)
ConflictMeansTouched ==
    (pc \in {"failed", "applied"} /\ ~misled) => Conflicts(FALSE) = {}
=============================================================================
