------------------------------ MODULE Service ------------------------------
(***************************************************************************)
(* The service plugin (internals/plugins/service) behind the file its      *)
(* service reads: a step writes the file, the next enables or disables the *)
(* unit and starts, stops, restarts or reloads it, the restart perhaps     *)
(* only on a change of the file.  Either step may fail and be rolled back  *)
(* with the run, and a run that went well may be rolled back later.        *)
(*                                                                         *)
(* A probe (is-active, is-enabled, cat) answers with its exit status only, *)
(* so one that fails says no.  Bound of the model: MaxFaults.              *)
(***************************************************************************)
EXTENDS Naturals

CONSTANTS
    Versions,    \* what the file may say
    Bad,         \* what the service does not start with
    Kinds,       \* of units on the host
    FaultKinds,  \* subset of {"command", "probe", "crash", "edit"}
    MaxFaults,
    None

ReloadActions == {"restarted", "reloaded"}
States == {"started", "stopped"} \cup ReloadActions
Probes == {"is-enabled", "is-active", "cat"}
Words == {"enabled", "enabled-runtime", "indirect", "disabled", "static", "masked", "not-found"}

Specs == [ enabled : BOOLEAN \cup {None}, on_change : BOOLEAN, state : States \cup {None} ]
Units == [ kind : Kinds, on : BOOLEAN, rt : BOOLEAN, active : BOOLEAN,
           loaded : Versions \cup {None} ]
Snapshots == [word : Words, active : BOOLEAN]

ASSUME ServiceAssumption ==
    /\ Bad \subseteq Versions /\ MaxFaults \in Nat
    /\ Kinds \subseteq {"plain", "indirect", "static", "masked", "missing"}
    /\ None \notin Versions \cup BOOLEAN /\ None \notin States \cup Probes
    /\ None \notin Snapshots

VARIABLES
    spec, file,
    unit,       \* enabled on disk, at runtime; running, and which file it read
    pc,
    want,       \* what this run writes into the file
    captured,   \* the captures before each step: the file, the unit
    after,      \* the unit's capture after its step
    changed,    \* whether the file step counts as changed
    planned,    \* whether Plan says that the unit's step changes something
    disturbed,  \* history: an edit, or a run that was killed or not undone
    faults

vars == <<spec, file, unit, pc, want, captured, after, changed, planned,
          disturbed, faults>>

-----------------------------------------------------------------------------
(* systemd.                                                                *)
Linkable(u) == u.kind \in {"plain", "indirect"}

Word(u) ==
    CASE u.kind = "missing"              -> "not-found"
      [] u.kind \in {"masked", "static"} -> u.kind
      [] Linkable(u) /\ u.on             -> "enabled"
      [] Linkable(u) /\ ~u.on /\ u.rt    -> "enabled-runtime"
      [] Linkable(u) /\ ~u.on /\ ~u.rt   -> IF u.kind = "plain" THEN "disabled" ELSE "indirect"

OnWords == {"enabled", "enabled-runtime", "indirect", "static"}
IsEnabled(u) == Word(u) \in OnWords

Runnable(u) == u.kind \notin {"masked", "missing"}
Running(u) == [u EXCEPT !.active = TRUE, !.loaded = file]
Stopped(u) == [u EXCEPT !.active = FALSE, !.loaded = None]

(* Whether a command succeeds, and what it makes of the unit.              *)
Works(cmd, u) ==
    CASE cmd \in {"enable", "enable --runtime"} -> Runnable(u)
      [] cmd \in {"disable", "stop"}            -> u.kind # "missing"
      [] OTHER                                  -> Runnable(u) /\ file \notin Bad

Effect(cmd, u) ==
    CASE cmd = "enable"           -> IF Linkable(u) THEN [u EXCEPT !.on = TRUE] ELSE u
      [] cmd = "enable --runtime" -> IF Linkable(u) THEN [u EXCEPT !.rt = TRUE] ELSE u
      [] cmd = "disable"          -> [u EXCEPT !.on = FALSE]
      [] cmd = "stop"             -> Stopped(u)
      [] cmd \in {"started"} \cup ReloadActions ->
           IF Works(cmd, u) THEN Running(u)
           ELSE IF cmd = "restarted" /\ Runnable(u) THEN Stopped(u) ELSE u

Fault(kind) == kind \in FaultKinds /\ faults < MaxFaults /\ faults' = faults + 1

Run(cmd, good, bad) ==
    \/ /\ unit' = Effect(cmd, unit)
       /\ pc' = IF Works(cmd, unit) THEN good ELSE bad
       /\ UNCHANGED faults
    \/ Fault("command") /\ unit' \in {unit, Effect(cmd, unit)} /\ pc' = bad

(* Which probe of an action, if any, fails.                                *)
Lies(probe) == IF probe = None THEN UNCHANGED faults ELSE Fault("probe")

WriteFile(version, good, bad) ==
    \/ file' = version /\ pc' = good /\ UNCHANGED faults
    \/ Fault("command") /\ file' \in {file, version} /\ pc' = bad

(* snapshotServiceState.                                                   *)
Snapshot(u) == [word |-> Word(u), active |-> u.active]

Init ==
    /\ spec \in Specs /\ file \in Versions
    /\ unit \in { u \in Units :
         /\ (u.on \/ u.rt) => Linkable(u)
         /\ u.loaded = IF u.active THEN file ELSE None
         /\ u.active => file \notin Bad /\ u.kind # "missing" }
    /\ pc = "ready" /\ want = file
    /\ captured = [file |-> file, unit |-> None] /\ after = None
    /\ changed = FALSE /\ planned = FALSE /\ disturbed = FALSE /\ faults = 0

-----------------------------------------------------------------------------
(* A run starts with the file step, which is rolled back when it fails and *)
(* is a change when it made one.                                           *)
FileStep ==
    /\ pc = "ready"
    /\ want' \in Versions
    /\ captured' = [file |-> file, unit |-> None] /\ after' = None
    /\ WriteFile(want', "capture", "failed")
    /\ changed' = (want' # file \/ pc' = "failed")
    /\ UNCHANGED <<spec, unit, planned, disturbed>>

(* Mutant: the enablement alone says whether the unit is as it is to be.   *)
SkippedWhenEnabled(enabled, active) ==
    CASE spec.state = None      -> TRUE
      [] spec.state = "started" -> active
      [] spec.state = "stopped" -> ~active
      [] OTHER -> /\ spec.on_change /\ ~changed
                  /\ spec.enabled \in {None, enabled}

(* Mutant: the change signal is not looked at.                             *)
SkippedWhenActive(enabled, active) ==
    CASE spec.state = None -> TRUE
      [] spec.state = "stopped" -> ~active
      [] OTHER -> (spec.state = "started" \/ spec.on_change) /\ active

(* Whether the unit is as the step wants it: restartPolicySuppressed, and   *)
(* the skips of Apply.                                                     *)
Skipped(enabled, active) ==
    CASE spec.state = None      -> TRUE
      [] spec.state = "started" -> active
      [] spec.state = "stopped" -> ~active
      [] OTHER -> /\ spec.on_change /\ ~changed /\ active
                  /\ spec.enabled \in {None, enabled}

(* Mutant: a plan looks at the enablement only when it is to be on.        *)
WillChangeWhenOn ==
    \/ spec.enabled = TRUE /\ ~IsEnabled(unit)
    \/ ~Skipped(IsEnabled(unit), unit.active)

(* Plan.                                                                   *)
WillChange ==
    \/ spec.enabled \notin {None, IsEnabled(unit)}
    \/ ~Skipped(IsEnabled(unit), unit.active)

Capture ==
    /\ pc = "capture"
    /\ \/ pc' = "enablement" /\ captured' = [captured EXCEPT !.unit = Snapshot(unit)]
          /\ UNCHANGED faults
       \/ Fault("command") /\ pc' = "failed" /\ UNCHANGED captured
    /\ planned' = WillChange
    /\ UNCHANGED <<spec, file, unit, want, after, changed, disturbed>>

(* Apply compares the enablement with what it is to be,                    *)
Enablement ==
    /\ pc = "enablement"
    /\ \E lie \in {None, "is-enabled"} :
         /\ Lies(lie)
         /\ pc' = IF spec.enabled \in {None, IsEnabled(unit) /\ lie = None}
                  THEN "state" ELSE "toggle"
    /\ UNCHANGED <<spec, file, unit, want, captured, after, changed, planned, disturbed>>

Toggle ==
    /\ pc = "toggle"
    /\ Run(IF spec.enabled THEN "enable" ELSE "disable", "state", "failed")
    /\ UNCHANGED <<spec, file, want, captured, after, changed, planned, disturbed>>

(* and its activity,                                                       *)
State ==
    /\ pc = "state"
    /\ \E lie \in {None, "is-enabled", "is-active"} :
         /\ Lies(lie)
         /\ pc' = IF Skipped(IsEnabled(unit) /\ lie # "is-enabled",
                             unit.active /\ lie # "is-active")
                  THEN "recapture" ELSE "act"
    /\ UNCHANGED <<spec, file, unit, want, captured, after, changed, planned, disturbed>>

Act ==
    /\ pc = "act"
    /\ Run(IF spec.state = "stopped" THEN "stop" ELSE spec.state, "recapture", "failed")
    /\ UNCHANGED <<spec, file, want, captured, after, changed, planned, disturbed>>

Recapture ==
    /\ pc = "recapture"
    /\ \/ pc' = "done" /\ after' = Snapshot(unit) /\ UNCHANGED faults
       \/ Fault("command") /\ pc' = "failed" /\ UNCHANGED after
    /\ UNCHANGED <<spec, file, unit, want, captured, changed, planned, disturbed>>

-----------------------------------------------------------------------------
(* The unit's step is reverted when its captures differ or its restart     *)
(* is to be done again (rollbackStepApplies).                              *)
UnitApplies ==
    /\ captured.unit # None
    /\ \/ captured.unit # after
       \/ spec.state \in ReloadActions /\ (spec.on_change => changed)

(* serviceStateConflict, and the file's: nothing is compared for a step    *)
(* that failed.                                                            *)
Enabled(snap) == snap.word = "enabled"
Conflict ==
    /\ pc = "done"
    /\ \/ changed /\ file # want
       \/ /\ UnitApplies
          /\ \/ Enabled(Snapshot(unit)) # Enabled(after)
             \/ unit.active # after.active

UnitNext == IF UnitApplies THEN "undo unit" ELSE "undone"

Rollback ==
    /\ pc \in {"done", "failed"} /\ ~Conflict
    /\ pc' = IF changed THEN "undo file" ELSE UnitNext
    /\ UNCHANGED <<spec, file, unit, want, captured, after, changed, planned, disturbed, faults>>

(* Files first; the unit is held back.                                     *)
UndoFile ==
    /\ pc = "undo file"
    /\ WriteFile(captured.file, UnitNext, "stuck")
    /\ UNCHANGED <<spec, unit, want, captured, after, changed, planned, disturbed>>

Refused(word) == word \in {"masked", "not-found"}

(* restoreServiceState: a unit that is not there is left alone, and one    *)
(* that was masked is refused,                                             *)
UndoUnit ==
    /\ pc = "undo unit"
    /\ \E lie \in {None, "cat"} :
         /\ Lies(lie)
         /\ pc' = IF unit.kind = "missing" \/ lie # None THEN "undone"
                  ELSE IF Refused(captured.unit.word) THEN "stuck"
                  ELSE IF captured.unit.word = "static" THEN "undo activity" ELSE "undo enablement"
    /\ UNCHANGED <<spec, file, unit, want, captured, after, changed, planned, disturbed>>

(* Mutant: driven by a boolean rather than by the recorded word.           *)
EnableOrDisable ==
    /\ pc = "undo enablement"
    /\ Run(IF captured.unit.word \in {"enabled", "enabled-runtime"}
           THEN "enable" ELSE "disable", "undo activity", "stuck")
    /\ UNCHANGED <<spec, file, want, captured, after, changed, planned, disturbed>>

UndoEnablement ==
    /\ pc = "undo enablement"
    /\ Run(CASE captured.unit.word = "enabled"         -> "enable"
             [] captured.unit.word = "enabled-runtime" -> "enable --runtime"
             [] OTHER                                  -> "disable",
           "undo activity", "stuck")
    /\ UNCHANGED <<spec, file, want, captured, after, changed, planned, disturbed>>

UndoActivity ==
    /\ pc = "undo activity"
    /\ Run(IF captured.unit.active THEN "restarted" ELSE "stop", "undone", "stuck")
    /\ UNCHANGED <<spec, file, want, captured, after, changed, planned, disturbed>>

(* The next run, after this one ended, or gave up, or the runner died.     *)
StartOver ==
    /\ \/ pc \in {"done", "undone"} /\ UNCHANGED <<disturbed, faults>>
       \/ pc = "stuck" /\ disturbed' = TRUE /\ UNCHANGED faults
       \/ pc \notin {"ready", "done", "undone", "stuck"} /\ Fault("crash")
          /\ disturbed' = TRUE
    /\ pc' = "ready"
    /\ UNCHANGED <<spec, file, unit, want, captured, after, changed, planned>>

(* Somebody else toggles the unit.                                         *)
Edit ==
    /\ Fault("edit") /\ disturbed' = TRUE
    /\ unit.kind = "plain"
    /\ unit' \in {[unit EXCEPT !.on = ~@], [unit EXCEPT !.rt = ~@], Stopped(unit)}
    /\ UNCHANGED <<spec, file, pc, want, captured, after, changed, planned>>

Next == \/ FileStep \/ Capture \/ Enablement \/ Toggle \/ State \/ Act \/ Recapture
        \/ Rollback \/ UndoFile \/ UndoUnit \/ UndoEnablement \/ UndoActivity
        \/ StartOver \/ Edit

Spec == Init /\ [][Next]_vars

-----------------------------------------------------------------------------
(* A run that went well left the unit as its step asks (Apply).            *)
DoneMeansDesired ==
    (pc = "done" /\ ~disturbed) =>
        /\ spec.enabled = TRUE => IsEnabled(unit)
        /\ spec.enabled = FALSE => ~unit.on
        /\ spec.state \in {"started"} \cup ReloadActions => unit.active
        /\ spec.state = "stopped" => ~unit.active

(* A restart that was skipped was not needed: after a run that went well   *)
(* the service runs the file that is on disk, whatever failed and was      *)
(* undone before; unless a run was killed or could not be undone, which no *)
(* change signal remembers (restartPolicySuppressed).                      *)
DoneMeansServed ==
    (pc = "done" /\ ~disturbed /\ spec.state \in ReloadActions) => unit.loaded = file

(* Apply runs no command that a plan of the same host does not announce    *)
(* (Plan).                                                                 *)
PlanForesees == (pc \in {"toggle", "act"} /\ ~disturbed) => planned

(* An undone run left the file and the unit as it found them, the word of  *)
(* is-enabled included, and the service running the file that came back    *)
(* (restoreServiceState, and the order of executeRollbackSteps).           *)
UndoneMeansBefore ==
    (pc = "undone" /\ ~disturbed) =>
        /\ file = captured.file
        /\ captured.unit \in {None, Snapshot(unit)}
        /\ (captured.unit # None /\ spec.state \in ReloadActions)
             => unit.loaded \in {None, file}

=============================================================================
