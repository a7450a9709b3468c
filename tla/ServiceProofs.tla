---------------------------- MODULE ServiceProofs ----------------------------
(***************************************************************************)
(* A file step and the service step behind it: a proof for any versions of *)
(* the file and any kind of unit, for every config, and for any number of  *)
(* runs, of commands that fail with or without effect, of runners that die *)
(* and of others who toggle the unit, as long as no probe lies.            *)
(***************************************************************************)
EXTENDS Service, TLAPS

Types ==
    /\ spec \in Specs /\ file \in Versions /\ want \in Versions /\ unit \in Units
    /\ captured \in [file : Versions, unit : Snapshots \cup {None}]
    /\ after \in Snapshots \cup {None}
    /\ changed \in BOOLEAN /\ planned \in BOOLEAN

(* What systemd keeps of a unit.                                           *)
Sane(u) ==
    /\ (u.on \/ u.rt) => Linkable(u)
    /\ u.active => u.kind # "missing"
    /\ u.loaded = None <=> ~u.active

Typed == Types /\ Sane(unit)

(* A unit of which the rollback's commands make what the capture holds.    *)
Undoable(u, snap) ==
    /\ snap.word = "not-found" <=> u.kind = "missing"
    /\ snap.word = "masked" <=> u.kind = "masked"
    /\ snap.word = "static" <=> u.kind = "static"
    /\ snap.word = "disabled" => u.kind = "plain" /\ ~u.rt
    /\ snap.word = "indirect" => u.kind = "indirect" /\ ~u.rt
    /\ snap.word = "enabled-runtime" => u.rt /\ ~u.on
    /\ u.kind = "missing" => ~snap.active

Reloads == spec.state \in ReloadActions

(* What the step asks of the enablement, and of the activity.              *)
EnablementDone ==
    /\ spec.enabled = TRUE => IsEnabled(unit)
    /\ spec.enabled = FALSE => ~unit.on
ActivityDone ==
    /\ spec.state \in {"started"} \cup ReloadActions => unit.active
    /\ spec.state = "stopped" => ~unit.active
    /\ Reloads => unit.loaded = file

Going == {"capture", "enablement", "toggle", "state", "act"}
Stepping == {"enablement", "toggle", "state", "act", "recapture"}

(* A run on its way, and one that went well.                               *)
WhileGoing ==
    /\ pc \in Going \cup {"recapture", "done"} =>
         file = want /\ (changed <=> want # captured.file)
    /\ pc \in Going /\ Reloads => unit.loaded \in {None, captured.file}
    /\ pc \in Going \cup {"recapture", "failed"} => after = None
    /\ pc \in Stepping \cup {"done"} => captured.unit \in Snapshots /\ Undoable(unit, captured.unit)
    /\ pc = "enablement" /\ WillChange => planned
    /\ pc = "toggle" => planned /\ spec.enabled \in BOOLEAN /\ spec.enabled # IsEnabled(unit)
    /\ pc = "state" /\ WillChange => planned
    /\ pc = "act" => planned
    /\ pc \in {"state", "act", "recapture", "done"} => EnablementDone
    /\ pc \in {"recapture", "done"} => ActivityDone

(* A run that failed, or is being rolled back.                             *)
Undoing == {"failed", "undo file", "undo unit", "undo enablement", "undo activity"}
WhileUndoing ==
    /\ pc = "capture" => captured.unit = None
    /\ pc \in Undoing \cup {"done"} =>
         /\ file \in {want, captured.file}
         /\ ~changed => want = captured.file
         /\ captured.unit # None => Undoable(unit, captured.unit)
         /\ captured.unit = None => after = None
         /\ Reloads => /\ unit.loaded \in {None, captured.file, want}
                       /\ captured.unit = None => unit.loaded \in {None, captured.file}
    /\ pc \in {"done", "failed", "undo file"} => after \in {None, Snapshot(unit)}
    /\ pc = "undo file" => changed
    /\ pc \in {"undo unit", "undo enablement", "undo activity"} =>
         captured.unit # None /\ file = captured.file
    /\ pc \in {"undo enablement", "undo activity"} =>
         captured.unit.word \notin {"not-found", "masked"}
    /\ pc = "undo enablement" => captured.unit.word # "static"
    /\ pc = "undo activity" => Word(unit) = captured.unit.word
    /\ pc = "undone" =>
         /\ file = captured.file /\ captured.unit \in {None, Snapshot(unit)}
         /\ Reloads => unit.loaded \in {None, file}

ServiceInv ==
    /\ Typed /\ (pc = "act" => spec.state # None)
    /\ ~disturbed =>
         /\ pc = "ready" /\ Reloads => unit.loaded \in {None, file}
         /\ WhileGoing /\ WhileUndoing

-----------------------------------------------------------------------------
(* The commands of systemctl.                                              *)
Commands == {"enable", "enable --runtime", "disable", "stop", "started"} \cup ReloadActions

(* Enabling and disabling leave everything else alone.                     *)
LEMMA EnablementEffect ==
    ASSUME unit \in Units
    PROVE  /\ Effect("enable", unit) = IF Linkable(unit) THEN [unit EXCEPT !.on = TRUE] ELSE unit
           /\ Effect("enable --runtime", unit) =
                IF Linkable(unit) THEN [unit EXCEPT !.rt = TRUE] ELSE unit
           /\ Effect("disable", unit) = [unit EXCEPT !.on = FALSE]
  BY DEF Effect, ReloadActions

LEMMA EffectTyped ==
    ASSUME NEW cmd \in Commands, unit \in Units, Sane(unit), file \in Versions
    PROVE  /\ Effect(cmd, unit) \in Units /\ Sane(Effect(cmd, unit))
           /\ Effect(cmd, unit).kind = unit.kind
  <1> USE ServiceAssumption DEF Units, Sane, Linkable
  <1>1. CASE cmd = "enable"
    <2>1. Effect(cmd, unit) = IF Linkable(unit) THEN [unit EXCEPT !.on = TRUE] ELSE unit
      BY <1>1, EnablementEffect
    <2>2. QED  BY <2>1
  <1>2. CASE cmd = "enable --runtime"
    <2>1. Effect(cmd, unit) = IF Linkable(unit) THEN [unit EXCEPT !.rt = TRUE] ELSE unit
      BY <1>2, EnablementEffect
    <2>2. QED  BY <2>1
  <1>3. CASE cmd = "disable"
    <2>1. Effect(cmd, unit) = [unit EXCEPT !.on = FALSE]  BY <1>3, EnablementEffect
    <2>2. QED  BY <2>1
  <1>4. CASE cmd = "stop"  BY <1>4 DEF Effect, Stopped, ReloadActions
  <1>5. CASE cmd \in {"started"} \cup ReloadActions
    <2>1. Effect(cmd, unit) = IF Works(cmd, unit) THEN Running(unit)
                              ELSE IF cmd = "restarted" /\ Runnable(unit) THEN Stopped(unit)
                              ELSE unit
      BY <1>5 DEF Effect, ReloadActions
    <2>2. Works(cmd, unit) => unit.kind # "missing"
      BY <1>5 DEF Works, Runnable, ReloadActions
    <2>3. Works(cmd, unit) => Running(unit) \in Units /\ Sane(Running(unit))
                              /\ Running(unit).kind = unit.kind
      BY <2>2 DEF Running
    <2>4. Stopped(unit) \in Units /\ Sane(Stopped(unit)) /\ Stopped(unit).kind = unit.kind
      BY DEF Stopped
    <2>5. QED  BY <2>1, <2>3, <2>4
  <1>6. QED  BY <1>1, <1>2, <1>3, <1>4, <1>5 DEF Commands

(* Starting, stopping and the like leave the enablement alone; what runs   *)
(* afterwards ran before or has read the file.                             *)
LEMMA ActivityEffect ==
    ASSUME NEW cmd \in {"stop", "started"} \cup ReloadActions, unit \in Units
    PROVE  LET u == Effect(cmd, unit) IN
           /\ u.kind = unit.kind /\ u.on = unit.on /\ u.rt = unit.rt
           /\ u.loaded \in {None, unit.loaded, file}
           /\ cmd = "stop" => ~u.active
           /\ cmd # "stop" /\ Works(cmd, unit) => u.active /\ u.loaded = file
  <1> USE DEF Units
  <1>1. CASE cmd = "stop"  BY <1>1 DEF Effect, Stopped, ReloadActions
  <1>2. CASE cmd \in {"started"} \cup ReloadActions
    <2>1. Effect(cmd, unit) = IF Works(cmd, unit) THEN Running(unit)
                              ELSE IF cmd = "restarted" /\ Runnable(unit) THEN Stopped(unit)
                              ELSE unit
      BY <1>2 DEF Effect, ReloadActions
    <2>2. cmd # "stop"  BY <1>2 DEF ReloadActions
    <2>3. QED  BY <2>1, <2>2 DEF Running, Stopped
  <1>3. QED  BY <1>1, <1>2

LEMMA RunOutcome ==
    ASSUME NEW cmd, NEW good, NEW bad, good # bad, Run(cmd, good, bad)
    PROVE  /\ unit' \in {unit, Effect(cmd, unit)} /\ pc' \in {good, bad}
           /\ pc' = good => unit' = Effect(cmd, unit) /\ Works(cmd, unit)
  BY DEF Run

(* is-enabled prints one word of each unit.                                *)
LEMMA WordOf ==
    ASSUME NEW u \in Units, Sane(u)
    PROVE  /\ Word(u) \in Words
           /\ Word(u) = "not-found" <=> u.kind = "missing"
           /\ Word(u) = "masked" <=> u.kind = "masked"
           /\ Word(u) = "static" <=> u.kind = "static"
           /\ Word(u) = "enabled" <=> u.on
           /\ Word(u) = "enabled-runtime" <=> u.rt /\ ~u.on
           /\ Word(u) = "disabled" <=> u.kind = "plain" /\ ~u.on /\ ~u.rt
           /\ Word(u) = "indirect" <=> u.kind = "indirect" /\ ~u.on /\ ~u.rt
  <1>1. u.kind \in {"plain", "indirect", "static", "masked", "missing"} /\ u.on \in BOOLEAN
        /\ u.rt \in BOOLEAN
    BY ServiceAssumption DEF Units
  <1>2. CASE u.kind = "missing"  BY <1>2 DEF Word, Words, Sane, Linkable
  <1>3. CASE u.kind \in {"masked", "static"}  BY <1>3 DEF Word, Words, Sane, Linkable
  <1>4. CASE Linkable(u)
    <2>1. CASE u.on  BY <1>4, <2>1 DEF Word, Words, Linkable
    <2>2. CASE ~u.on /\ u.rt  BY <1>4, <2>2 DEF Word, Words, Linkable
    <2>3. CASE ~u.on /\ ~u.rt  BY <1>4, <2>3 DEF Word, Words, Linkable
    <2>4. QED  BY <1>1, <2>1, <2>2, <2>3
  <1>5. QED  BY <1>1, <1>2, <1>3, <1>4 DEF Linkable

(* What was just captured can be put back.                                 *)
LEMMA SnapshotUndoable ==
    ASSUME Typed
    PROVE  Snapshot(unit) \in Snapshots /\ Undoable(unit, Snapshot(unit))
  <1>1. unit \in Units /\ Sane(unit)  BY DEF Typed, Types
  <1>2. Snapshot(unit).word = Word(unit) /\ Snapshot(unit).active = unit.active  BY DEF Snapshot
  <1>3. Snapshot(unit) \in Snapshots
    BY <1>1, WordOf DEF Snapshot, Snapshots, Units
  <1>4. QED  BY <1>1, <1>2, <1>3, WordOf DEF Undoable, Sane

-----------------------------------------------------------------------------
LEMMA RunTyped ==
    ASSUME Typed, NEW cmd \in Commands, NEW good, NEW bad, Run(cmd, good, bad)
    PROVE  unit' \in Units /\ Sane(unit')
  <1>1. unit' \in {unit, Effect(cmd, unit)}  BY DEF Run
  <1>2. QED  BY <1>1, EffectTyped DEF Typed, Types

(* The commands that the actions run.                                      *)
LEMMA CommandsRun ==
    ASSUME Typed
    PROVE  /\ Toggle => \E cmd \in {"enable", "disable"} : Run(cmd, "state", "failed")
           /\ Act /\ spec.state # None => \E cmd \in {"stop", "started"} \cup ReloadActions :
                /\ cmd = (IF spec.state = "stopped" THEN "stop" ELSE spec.state)
                /\ Run(cmd, "recapture", "failed")
           /\ UndoEnablement => \E cmd \in {"enable", "enable --runtime", "disable"} :
                Run(cmd, "undo activity", "stuck")
           /\ UndoActivity => \E cmd \in {"restarted", "stop"} : Run(cmd, "undone", "stuck")
  <1>1. spec.state \in States \cup {None}  BY DEF Typed, Types, Specs
  <1>2. QED
    BY <1>1 DEF Toggle, Act, UndoEnablement, UndoActivity, States, ReloadActions

LEMMA InitTyped == Init => Typed
  <1> SUFFICES ASSUME Init PROVE Typed  OBVIOUS
  <1>1. unit \in Units /\ Sane(unit)
    <2>1. /\ unit \in Units /\ (unit.on \/ unit.rt => Linkable(unit))
          /\ unit.loaded = IF unit.active THEN file ELSE None
          /\ unit.active => unit.kind # "missing"
      BY DEF Init
    <2>2. file # None  BY ServiceAssumption DEF Init
    <2>3. QED  BY <2>1, <2>2 DEF Sane, Units
  <1>2. captured \in [file : Versions, unit : Snapshots \cup {None}]  BY DEF Init
  <1>3. QED  BY <1>1, <1>2 DEF Init, Typed, Types

LEMMA NextTyped ==
    ASSUME Typed, pc = "act" => spec.state # None, [Next]_vars
    PROVE  Typed'
  <1>1. CASE FileStep
    <2>1. want' \in Versions /\ file' \in {file, want'}  BY <1>1 DEF FileStep, WriteFile
    <2>2. captured' \in [file : Versions, unit : Snapshots \cup {None}]
      BY <1>1 DEF FileStep, Typed, Types
    <2>3. changed' \in BOOLEAN  BY <1>1 DEF FileStep
    <2>4. QED  BY <1>1, <2>1, <2>2, <2>3 DEF FileStep, Typed, Types
  <1>2. CASE Capture
    <2>1. captured' \in [file : Versions, unit : Snapshots \cup {None}]
      BY <1>2, SnapshotUndoable DEF Capture, Typed, Types
    <2>2. planned' \in BOOLEAN  BY <1>2 DEF Capture, WillChange
    <2>3. QED  BY <1>2, <2>1, <2>2 DEF Capture, Typed, Types
  <1>3. CASE Toggle \/ Act \/ UndoEnablement \/ UndoActivity
    <2>1. PICK cmd \in Commands : \E good, bad : Run(cmd, good, bad)
      <3>1. CASE Toggle  BY <3>1, CommandsRun DEF Commands
      <3>2. CASE Act  BY <3>2, CommandsRun DEF Commands, Act
      <3>3. CASE UndoEnablement  BY <3>3, CommandsRun DEF Commands
      <3>4. CASE UndoActivity  BY <3>4, CommandsRun DEF Commands, ReloadActions
      <3>5. QED  BY <1>3, <3>1, <3>2, <3>3, <3>4
    <2>2. unit' \in Units /\ Sane(unit')  BY <2>1, RunTyped
    <2>3. QED  BY <1>3, <2>2 DEF Toggle, Act, UndoEnablement, UndoActivity, Typed, Types
  <1>4. CASE Recapture
    BY <1>4, SnapshotUndoable DEF Recapture, Typed, Types
  <1>5. CASE UndoFile
    <2>1. file' \in Versions  BY <1>5 DEF UndoFile, WriteFile, Typed, Types
    <2>2. QED  BY <1>5, <2>1 DEF UndoFile, Typed, Types
  <1>6. CASE Enablement \/ State \/ Rollback \/ UndoUnit \/ StartOver \/ UNCHANGED vars
    BY <1>6 DEF Enablement, State, Rollback, UndoUnit, StartOver, vars, Typed, Types
  <1>7. CASE Edit
    <2>1. unit' \in {[unit EXCEPT !.on = ~@], [unit EXCEPT !.rt = ~@], Stopped(unit)}
          /\ unit.kind = "plain"
      BY <1>7 DEF Edit
    <2>2. unit' \in Units /\ Sane(unit')
      BY <2>1, ServiceAssumption DEF Typed, Types, Sane, Units, Stopped, Linkable
    <2>3. QED  BY <1>7, <2>2 DEF Edit, Typed, Types
  <1>8. QED  BY <1>1, <1>2, <1>3, <1>4, <1>5, <1>6, <1>7 DEF Next

-----------------------------------------------------------------------------
(* A unit that was put back to what was captured, or not touched.          *)
LEMMA UndoableStays ==
    ASSUME NEW u, NEW v, NEW snap, Undoable(u, snap), v.kind = u.kind, v.on = u.on, v.rt = u.rt
    PROVE  Undoable(v, snap)
  BY DEF Undoable

LEMMA SameUnit ==
    ASSUME UNCHANGED <<spec, file, unit, changed>>
    PROVE  /\ (WillChange <=> WillChange') /\ (EnablementDone <=> EnablementDone')
           /\ (ActivityDone <=> ActivityDone') /\ Snapshot(unit)' = Snapshot(unit)
           /\ IsEnabled(unit)' = IsEnabled(unit) /\ Word(unit)' = Word(unit)
  BY DEF WillChange, Skipped, IsEnabled, Word, Linkable, EnablementDone, ActivityDone, Reloads,
         Snapshot

LEMMA NoLie == ASSUME "probe" \notin FaultKinds, NEW probe, Lies(probe) PROVE probe = None
  BY DEF Lies, Fault

(* A run starts.                                                           *)
LEMMA FileStepKeeps ==
    ASSUME Typed, Typed', ~disturbed, FileStep, Reloads => unit.loaded \in {None, file}
    PROVE  WhileGoing' /\ WhileUndoing'
  <1>1. /\ captured' = [file |-> file, unit |-> None] /\ after' = None /\ UNCHANGED <<spec, unit>>
        /\ changed' = (want' # file \/ pc' = "failed")
    BY DEF FileStep
  <1>2. \/ pc' = "capture" /\ file' = want'
        \/ pc' = "failed" /\ file' \in {file, want'}
    BY DEF FileStep, WriteFile
  <1>3. CASE pc' = "capture"
    BY <1>1, <1>2, <1>3 DEF WhileGoing, WhileUndoing, Going, Stepping, Undoing, Reloads
  <1>4. CASE pc' = "failed"
    BY <1>1, <1>2, <1>4 DEF WhileGoing, WhileUndoing, Going, Stepping, Undoing, Reloads
  <1>5. QED  BY <1>2, <1>3, <1>4

LEMMA CaptureKeeps ==
    ASSUME Typed, WhileGoing, WhileUndoing, Capture
    PROVE  WhileGoing' /\ WhileUndoing'
  <1> USE DEF WhileGoing, WhileUndoing, Going, Stepping, Undoing, Reloads
  <1>1. UNCHANGED <<spec, file, unit, want, after, changed>>  BY DEF Capture
  <1>2. CASE pc' = "enablement" /\ captured' = [captured EXCEPT !.unit = Snapshot(unit)]
    <2>1. captured'.file = captured.file /\ captured'.unit = Snapshot(unit)
      BY <1>2 DEF Typed, Types
    <2>2. planned' = WillChange  BY DEF Capture
    <2>3. Snapshot(unit) \in Snapshots /\ Undoable(unit, Snapshot(unit))  BY SnapshotUndoable
    <2>4. WhileGoing'
      BY <1>1, <1>2, <2>1, <2>2, <2>3, SameUnit DEF Capture, Undoable
    <2>5. WhileUndoing'  BY <1>2
    <2>6. QED  BY <2>4, <2>5
  <1>3. CASE pc' = "failed" /\ UNCHANGED captured
    BY <1>1, <1>3 DEF Capture
  <1>4. QED  BY <1>2, <1>3 DEF Capture

LEMMA NotEnabled == ASSUME NEW u, ~IsEnabled(u) PROVE IsEnabled(u) = FALSE
  BY DEF IsEnabled

LEMMA EnablementKeeps ==
    ASSUME Typed, WhileGoing, WhileUndoing, Enablement, "probe" \notin FaultKinds
    PROVE  WhileGoing' /\ WhileUndoing'
  <1> USE DEF WhileGoing, WhileUndoing, Going, Stepping, Undoing, Reloads
  <1>1. UNCHANGED <<spec, file, unit, want, captured, after, changed, planned>> /\ pc = "enablement"
    BY DEF Enablement
  <1>2. pc' = IF spec.enabled \in {None, IsEnabled(unit)} THEN "state" ELSE "toggle"
    <2>1. PICK lie \in {None, "is-enabled"} :
            /\ Lies(lie)
            /\ pc' = IF spec.enabled \in {None, IsEnabled(unit) /\ lie = None}
                     THEN "state" ELSE "toggle"
      BY DEF Enablement
    <2>2. lie = None  BY <2>1, NoLie
    <2>3. CASE IsEnabled(unit)
      <3>1. IsEnabled(unit) = TRUE  BY <2>3 DEF IsEnabled
      <3>2. (IsEnabled(unit) /\ lie = None) = TRUE  BY <2>2, <2>3
      <3>3. QED  BY <2>1, <3>1, <3>2
    <2>4. CASE ~IsEnabled(unit)
      <3>1. IsEnabled(unit) = FALSE  BY <2>4, NotEnabled
      <3>2. (IsEnabled(unit) /\ lie = None) = FALSE  BY <2>4
      <3>3. QED  BY <2>1, <3>1, <3>2
    <2>5. QED  BY <2>3, <2>4
  <1>3. CASE pc' = "state"
    <2>1. spec.enabled \in {None, IsEnabled(unit)}  BY <1>2, <1>3
    <2>2. IsEnabled(unit) \/ ~unit.on
      BY WordOf DEF IsEnabled, OnWords, Typed, Types
    <2>3. EnablementDone
      <3>1. spec.enabled = TRUE => IsEnabled(unit)
        BY <2>1, ServiceAssumption
      <3>2. spec.enabled = FALSE => ~IsEnabled(unit)
        BY <2>1, ServiceAssumption
      <3>3. ~IsEnabled(unit) => ~unit.on  BY <2>2
      <3>4. QED  BY <3>1, <3>2, <3>3 DEF EnablementDone
    <2>4. QED  BY <1>1, <1>3, <2>3, SameUnit DEF Undoable
  <1>4. CASE pc' = "toggle"
    <2>1. spec.enabled \notin {None, IsEnabled(unit)}  BY <1>2, <1>4
    <2>2. spec.enabled \in BOOLEAN  BY <2>1 DEF Typed, Types, Specs
    <2>3. WillChange  BY <2>1 DEF WillChange
    <2>4. QED  BY <1>1, <1>4, <2>1, <2>2, <2>3, SameUnit DEF Undoable
  <1>5. QED  BY <1>2, <1>3, <1>4

LEMMA ToggleKeeps ==
    ASSUME Typed, Typed', WhileGoing, WhileUndoing, Toggle
    PROVE  WhileGoing' /\ WhileUndoing'
  <1>1. UNCHANGED <<spec, file, want, captured, after, changed, planned>> /\ pc = "toggle"
    BY DEF Toggle
  <1>2. Run(IF spec.enabled THEN "enable" ELSE "disable", "state", "failed")  BY DEF Toggle
  <1>3. spec.enabled \in BOOLEAN /\ spec.enabled # IsEnabled(unit) /\ planned
        /\ Undoable(unit, captured.unit)
    BY <1>1 DEF WhileGoing, Stepping
  <1>4. unit' \in {unit, [unit EXCEPT !.on = spec.enabled]}
        /\ pc' \in {"state", "failed"} /\ (pc' = "state" => unit'.on = spec.enabled)
    <2>1. CASE spec.enabled = TRUE
      <3>1. Run("enable", "state", "failed")  BY <1>2, <2>1
      <3>2. /\ unit' \in {unit, Effect("enable", unit)} /\ pc' \in {"state", "failed"}
            /\ pc' = "state" => unit' = Effect("enable", unit) /\ Works("enable", unit)
        BY <3>1, RunOutcome
      <3>3. Effect("enable", unit) = IF Linkable(unit) THEN [unit EXCEPT !.on = TRUE] ELSE unit
        BY EnablementEffect DEF Typed, Types
      <3>4. ~IsEnabled(unit)  BY <1>3, <2>1 DEF IsEnabled
      <3>5. Works("enable", unit) => Linkable(unit)
        BY <3>4, WordOf, ServiceAssumption DEF Works, Runnable, IsEnabled, OnWords, Linkable, Typed,
           Types, Units
      <3>6. QED  BY <2>1, <3>2, <3>3, <3>5 DEF Typed, Types, Units
    <2>2. CASE spec.enabled = FALSE
      <3>1. Run("disable", "state", "failed")  BY <1>2, <2>2
      <3>2. /\ unit' \in {unit, Effect("disable", unit)} /\ pc' \in {"state", "failed"}
            /\ pc' = "state" => unit' = Effect("disable", unit)
        BY <3>1, RunOutcome
      <3>3. Effect("disable", unit) = [unit EXCEPT !.on = FALSE]
        BY EnablementEffect DEF Typed, Types
      <3>4. QED  BY <2>2, <3>2, <3>3 DEF Typed, Types, Units
    <2>3. QED  BY <1>3, <2>1, <2>2
  <1>5. /\ unit'.kind = unit.kind /\ unit'.rt = unit.rt /\ unit'.active = unit.active
        /\ unit'.loaded = unit.loaded
    BY <1>4 DEF Typed, Types, Units
  <1>6. Undoable(unit', captured.unit)
    <2>1. spec.enabled = TRUE => captured.unit.word # "enabled-runtime"
      <3>1. spec.enabled = TRUE => ~IsEnabled(unit)  BY <1>3 DEF IsEnabled
      <3>2. captured.unit.word = "enabled-runtime" => unit.rt  BY <1>3 DEF Undoable
      <3>3. unit.rt => Word(unit) \in {"enabled", "enabled-runtime"}
        BY WordOf DEF Typed, Types, Units
      <3>4. QED  BY <3>1, <3>2, <3>3 DEF IsEnabled, OnWords
    <2>2. spec.enabled = FALSE => (unit'.on => unit.on)
      BY <1>4 DEF Typed, Types, Units
    <2>3. unit'.on => unit.on \/ captured.unit.word # "enabled-runtime"  BY <1>3, <2>1, <2>2
    <2>4. QED  BY <1>3, <1>5, <2>3 DEF Undoable
  <1>7. pc' = "state" => EnablementDone'
    <2>1. pc' = "state" => unit'.on = spec.enabled  BY <1>4
    <2>2. unit'.on => IsEnabled(unit)'
      BY WordOf DEF IsEnabled, OnWords, Typed, Types
    <2>3. QED  BY <1>1, <2>1, <2>2 DEF EnablementDone
  <1>8. QED
    BY <1>1, <1>3, <1>4, <1>5, <1>6, <1>7
       DEF WhileGoing, WhileUndoing, Going, Stepping, Undoing, Reloads

LEMMA SkippedTruly ==
    ASSUME unit \in Units, NEW lie, lie = None
    PROVE  Skipped(IsEnabled(unit) /\ lie # "is-enabled", unit.active /\ lie # "is-active")
             <=> Skipped(IsEnabled(unit), unit.active)
  <1>1. lie # "is-enabled" /\ lie # "is-active"  BY ServiceAssumption DEF Probes
  <1>2. unit.active \in BOOLEAN  BY DEF Units
  <1>3. (unit.active /\ lie # "is-active") = unit.active  BY <1>1, <1>2
  <1>4. CASE IsEnabled(unit)
    <2>1. IsEnabled(unit) = TRUE  BY <1>4 DEF IsEnabled
    <2>2. (IsEnabled(unit) /\ lie # "is-enabled") = TRUE  BY <1>1, <1>4
    <2>3. QED  BY <1>3, <2>1, <2>2
  <1>5. CASE ~IsEnabled(unit)
    <2>1. IsEnabled(unit) = FALSE  BY <1>5, NotEnabled
    <2>2. (IsEnabled(unit) /\ lie # "is-enabled") = FALSE  BY <1>5
    <2>3. QED  BY <1>3, <2>1, <2>2
  <1>6. QED  BY <1>4, <1>5

LEMMA StateKeeps ==
    ASSUME Typed, WhileGoing, WhileUndoing, State, "probe" \notin FaultKinds
    PROVE  WhileGoing' /\ WhileUndoing'
  <1>1. UNCHANGED <<spec, file, unit, want, captured, after, changed, planned>> /\ pc = "state"
    BY DEF State
  <1>2. pc' = IF Skipped(IsEnabled(unit), unit.active) THEN "recapture" ELSE "act"
    <2>1. PICK lie \in {None, "is-enabled", "is-active"} :
            /\ Lies(lie)
            /\ pc' = IF Skipped(IsEnabled(unit) /\ lie # "is-enabled",
                                unit.active /\ lie # "is-active")
                     THEN "recapture" ELSE "act"
      BY DEF State
    <2>2. lie = None  BY <2>1, NoLie
    <2>3. QED  BY <2>1, <2>2, SkippedTruly DEF Typed, Types
  <1>3. file = want /\ (changed <=> want # captured.file) /\ captured.unit \in Snapshots
    BY <1>1 DEF WhileGoing, Going, Stepping
  <1>4. CASE Skipped(IsEnabled(unit), unit.active)
    <2>1. ActivityDone
      <3>1. spec.state \in States \cup {None} /\ Sane(unit) /\ unit.active \in BOOLEAN
        BY DEF Typed, Types, Specs, Units
      <3>2. Reloads => unit.loaded \in {None, captured.file}
        BY <1>1 DEF WhileGoing, Going
      <3>3. spec.state # None => spec.state \in States  BY <3>1
      <3>4. CASE spec.state = None
        BY <3>4, ServiceAssumption DEF ActivityDone, Reloads, States
      <3>5. CASE spec.state = "started"
        BY <1>4, <3>5, ServiceAssumption DEF Skipped, ActivityDone, Reloads, ReloadActions, States
      <3>6. CASE spec.state = "stopped"
        BY <1>4, <3>6, ServiceAssumption DEF Skipped, ActivityDone, Reloads, ReloadActions, States
      <3>7. CASE spec.state \in ReloadActions
        <4>1. ~changed /\ unit.active
          BY <1>4, <3>7, ServiceAssumption DEF Skipped, ReloadActions, States
        <4>2. unit.loaded = file  BY <1>3, <3>1, <3>2, <3>7, <4>1 DEF Sane, Reloads
        <4>3. QED  BY <3>7, <4>1, <4>2 DEF ActivityDone, ReloadActions
      <3>8. QED  BY <3>3, <3>4, <3>5, <3>6, <3>7 DEF States
    <2>2. QED
      BY <1>1, <1>2, <1>4, <2>1, SameUnit
         DEF WhileGoing, WhileUndoing, Going, Stepping, Undoing, Undoable, Reloads
  <1>5. CASE ~Skipped(IsEnabled(unit), unit.active)
    <2>1. WillChange  BY <1>5 DEF WillChange
    <2>2. planned  BY <1>1, <2>1 DEF WhileGoing
    <2>3. spec.state # None  BY <1>5, ServiceAssumption DEF Skipped, States
    <2>4. QED
      BY <1>1, <1>2, <1>5, <2>2, <2>3, SameUnit
         DEF WhileGoing, WhileUndoing, Going, Stepping, Undoing, Undoable, Reloads
  <1>6. QED  BY <1>4, <1>5

LEMMA WordKept ==
    ASSUME UNCHANGED spec, unit'.kind = unit.kind, unit'.on = unit.on, unit'.rt = unit.rt
    PROVE  /\ Word(unit)' = Word(unit) /\ (EnablementDone => EnablementDone')
           /\ \A snap : Undoable(unit, snap) => Undoable(unit', snap)
  <1>1. Word(unit)' = Word(unit)  BY DEF Word, Linkable
  <1>2. EnablementDone => EnablementDone'  BY <1>1 DEF EnablementDone, IsEnabled
  <1>3. ASSUME NEW snap, Undoable(unit, snap) PROVE Undoable(unit', snap)
    BY <1>3 DEF Undoable
  <1>4. QED  BY <1>1, <1>2, <1>3

LEMMA ActKeeps ==
    ASSUME Typed, spec.state # None, WhileGoing, WhileUndoing, Act
    PROVE  WhileGoing' /\ WhileUndoing'
  <1>1. UNCHANGED <<spec, file, want, captured, after, changed, planned>> /\ pc = "act"
    BY DEF Act
  <1>2. /\ file = want /\ (changed <=> want # captured.file) /\ captured.unit \in Snapshots
        /\ Undoable(unit, captured.unit) /\ after = None /\ EnablementDone
        /\ Reloads => unit.loaded \in {None, captured.file}
    BY <1>1 DEF WhileGoing, Going, Stepping
  <1>3. PICK cmd \in {"stop", "started"} \cup ReloadActions :
          /\ cmd = (IF spec.state = "stopped" THEN "stop" ELSE spec.state)
          /\ Run(cmd, "recapture", "failed")
    BY <1>2, CommandsRun
  <1>4. /\ unit' \in {unit, Effect(cmd, unit)} /\ pc' \in {"recapture", "failed"}
        /\ pc' = "recapture" => unit' = Effect(cmd, unit) /\ Works(cmd, unit)
    BY <1>3, RunOutcome
  <1>5. /\ unit'.kind = unit.kind /\ unit'.on = unit.on /\ unit'.rt = unit.rt
        /\ unit'.loaded \in {None, unit.loaded, file}
    BY <1>4, ActivityEffect DEF Typed, Types
  <1>6. EnablementDone' /\ Undoable(unit', captured.unit)  BY <1>1, <1>2, <1>5, WordKept
  <1>7. pc' = "recapture" => ActivityDone'
    <2> SUFFICES ASSUME pc' = "recapture" PROVE ActivityDone'  OBVIOUS
    <2>1. unit' = Effect(cmd, unit) /\ Works(cmd, unit)  BY <1>4
    <2>2. CASE spec.state = "stopped"
      <3>1. ~unit'.active  BY <1>3, <2>1, <2>2, ActivityEffect DEF Typed, Types
      <3>2. QED  BY <1>1, <2>2, <3>1 DEF ActivityDone, Reloads, ReloadActions
    <2>3. CASE spec.state # "stopped"
      <3>1. cmd # "stop"
        BY <1>2, <1>3, <2>3 DEF Typed, Types, Specs, States, ReloadActions
      <3>2. unit'.active /\ unit'.loaded = file  BY <2>1, <3>1, ActivityEffect DEF Typed, Types
      <3>3. QED  BY <1>1, <2>3, <3>2 DEF ActivityDone
    <2>4. QED  BY <2>2, <2>3
  <1>8. captured.unit # None  BY <1>2, ServiceAssumption
  <1>9. QED
    BY <1>1, <1>2, <1>4, <1>5, <1>6, <1>7, <1>8
       DEF WhileGoing, WhileUndoing, Going, Stepping, Undoing, Reloads

LEMMA RecaptureKeeps ==
    ASSUME Typed, WhileGoing, WhileUndoing, Recapture
    PROVE  WhileGoing' /\ WhileUndoing'
  <1>1. UNCHANGED <<spec, file, unit, want, captured, changed, planned>> /\ pc = "recapture"
    BY DEF Recapture
  <1>2. captured.unit # None  BY <1>1, ServiceAssumption DEF WhileGoing, Stepping
  <1>3. \/ pc' = "done" /\ after' = Snapshot(unit)
        \/ pc' = "failed" /\ UNCHANGED after
    BY DEF Recapture
  <1>4. QED
    BY <1>1, <1>2, <1>3, SameUnit
       DEF WhileGoing, WhileUndoing, Going, Stepping, Undoing, Undoable, Reloads, ActivityDone

-----------------------------------------------------------------------------
(* A run that needs nothing more than its file put back is undone.         *)
LEMMA NothingMoreToUndo ==
    ASSUME WhileUndoing, pc \in {"done", "failed", "undo file"}, ~UnitApplies,
           Reloads /\ captured.unit # None => ~changed
    PROVE  /\ captured.unit \in {None, Snapshot(unit)}
           /\ Reloads => unit.loaded \in {None, captured.file}
  <1>1. captured.unit # None => captured.unit = after  BY DEF UnitApplies
  <1>2. after \in {None, Snapshot(unit)}  BY DEF WhileUndoing
  <1>3. Reloads => IF captured.unit = None THEN unit.loaded \in {None, captured.file}
                   ELSE unit.loaded \in {None, captured.file, want} /\ want = captured.file
    BY DEF WhileUndoing, Undoing
  <1>4. QED  BY <1>1, <1>2, <1>3

LEMMA RollbackKeeps ==
    ASSUME Typed, WhileGoing, WhileUndoing, Rollback
    PROVE  WhileGoing' /\ WhileUndoing'
  <1>1. UNCHANGED <<spec, file, unit, want, captured, after, changed, planned>>
        /\ pc \in {"done", "failed"}
    BY DEF Rollback
  <1>2. CASE pc' = "undo file"
    <2>1. changed  BY <1>2 DEF Rollback, UnitNext
    <2>2. QED
      BY <1>1, <1>2, <2>1, SameUnit
         DEF WhileGoing, WhileUndoing, Going, Stepping, Undoing, Undoable, Reloads
  <1>3. CASE pc' = "undo unit"
    <2>1. ~changed /\ UnitApplies  BY <1>3 DEF Rollback, UnitNext
    <2>2. file = captured.file  BY <1>1, <2>1 DEF WhileUndoing, Undoing
    <2>3. captured.unit # None  BY <2>1 DEF UnitApplies
    <2>4. QED
      BY <1>1, <1>3, <2>2, <2>3, SameUnit
         DEF WhileGoing, WhileUndoing, Going, Stepping, Undoing, Undoable, Reloads
  <1>4. CASE pc' = "undone"
    <2>1. ~changed /\ ~UnitApplies  BY <1>4 DEF Rollback, UnitNext
    <2>2. file = captured.file  BY <1>1, <2>1 DEF WhileUndoing, Undoing
    <2>3. /\ captured.unit \in {None, Snapshot(unit)}
          /\ Reloads => unit.loaded \in {None, captured.file}
      BY <1>1, <2>1, NothingMoreToUndo
    <2>4. QED
      BY <1>1, <1>4, <2>2, <2>3, SameUnit
         DEF WhileGoing, WhileUndoing, Going, Stepping, Undoing, Reloads
  <1>5. QED  BY <1>2, <1>3, <1>4 DEF Rollback, UnitNext

LEMMA UndoFileKeeps ==
    ASSUME Typed, WhileGoing, WhileUndoing, UndoFile
    PROVE  WhileGoing' /\ WhileUndoing'
  <1>1. UNCHANGED <<spec, unit, want, captured, after, changed, planned>> /\ pc = "undo file"
    BY DEF UndoFile
  <1>2. changed  BY <1>1 DEF WhileUndoing
  <1>3. Snapshot(unit)' = Snapshot(unit) /\ Reloads' = Reloads
    BY <1>1 DEF Snapshot, Word, Linkable, Reloads
  <1>4. CASE pc' = "stuck"
    BY <1>4 DEF WhileGoing, WhileUndoing, Going, Stepping, Undoing
  <1>5. CASE pc' = UnitNext /\ file' = captured.file /\ UnitApplies
    <2>1. pc' = "undo unit" /\ captured.unit # None  BY <1>5 DEF UnitNext, UnitApplies
    <2>2. QED
      BY <1>1, <1>5, <2>1
         DEF WhileGoing, WhileUndoing, Going, Stepping, Undoing, Undoable, Reloads
  <1>6. CASE pc' = UnitNext /\ file' = captured.file /\ ~UnitApplies
    <2>1. pc' = "undone"  BY <1>6 DEF UnitNext
    <2>2. CASE captured.unit = None
      <3>1. Reloads => unit.loaded \in {None, captured.file}
        BY <1>1, <2>2 DEF WhileUndoing, Undoing
      <3>2. QED
        BY <1>1, <1>3, <1>6, <2>1, <2>2, <3>1
           DEF WhileGoing, WhileUndoing, Going, Stepping, Undoing
    <2>3. CASE captured.unit # None
      <3>1. ~Reloads  BY <1>2, <1>6, <2>3 DEF UnitApplies, Reloads
      <3>2. captured.unit = Snapshot(unit)  BY <1>1, <1>6, <2>3, <3>1, NothingMoreToUndo
      <3>3. QED
        BY <1>1, <1>3, <1>6, <2>1, <3>1, <3>2
           DEF WhileGoing, WhileUndoing, Going, Stepping, Undoing
    <2>4. QED  BY <2>2, <2>3
  <1>7. QED  BY <1>4, <1>5, <1>6 DEF UndoFile, WriteFile

LEMMA UndoUnitKeeps ==
    ASSUME Typed, WhileGoing, WhileUndoing, UndoUnit, "probe" \notin FaultKinds
    PROVE  WhileGoing' /\ WhileUndoing'
  <1>1. UNCHANGED <<spec, file, unit, want, captured, after, changed, planned>> /\ pc = "undo unit"
    BY DEF UndoUnit
  <1>2. pc' = IF unit.kind = "missing" THEN "undone"
              ELSE IF Refused(captured.unit.word) THEN "stuck"
              ELSE IF captured.unit.word = "static" THEN "undo activity" ELSE "undo enablement"
    BY NoLie DEF UndoUnit
  <1>3. /\ captured.unit # None /\ file = captured.file /\ Undoable(unit, captured.unit)
        /\ captured.unit \in Snapshots
    BY <1>1 DEF WhileUndoing, Undoing, Typed, Types
  <1>4. unit \in Units /\ Sane(unit)  BY DEF Typed, Types
  <1>5. CASE unit.kind = "missing"
    <2>1. ~unit.active /\ unit.loaded = None  BY <1>4, <1>5 DEF Sane
    <2>2. Word(unit) = "not-found"  BY <1>4, <1>5, WordOf
    <2>3. captured.unit.word = "not-found" /\ ~captured.unit.active  BY <1>3, <1>5 DEF Undoable
    <2>4. captured.unit = Snapshot(unit)
      <3>1. captured.unit.active = FALSE /\ unit.active = FALSE
        BY <1>3, <1>4, <2>1, <2>3 DEF Snapshots, Units
      <3>2. QED  BY <1>3, <2>2, <2>3, <3>1 DEF Snapshots, Snapshot
    <2>5. QED
      BY <1>1, <1>2, <1>3, <1>5, <2>1, <2>4, SameUnit
         DEF WhileGoing, WhileUndoing, Going, Stepping, Undoing, Reloads
  <1>6. CASE unit.kind # "missing"
    <2>1. CASE Refused(captured.unit.word)
      BY <1>2, <1>6, <2>1 DEF WhileGoing, WhileUndoing, Going, Stepping, Undoing
    <2>2. CASE ~Refused(captured.unit.word)
      <3>1. captured.unit.word \notin {"not-found", "masked"}  BY <2>2 DEF Refused
      <3>2. captured.unit.word = "static" => Word(unit) = "static"
        BY <1>3, <1>4, WordOf DEF Undoable
      <3>3. QED
        BY <1>1, <1>2, <1>3, <1>6, <2>2, <3>1, <3>2, SameUnit
           DEF WhileGoing, WhileUndoing, Going, Stepping, Undoing, Undoable, Reloads
    <2>3. QED  BY <2>1, <2>2
  <1>7. QED  BY <1>5, <1>6

(* The commands that put the word back: is-enabled prints it again.        *)
LEMMA UndoEnablementKeeps ==
    ASSUME Typed, Typed', WhileGoing, WhileUndoing, UndoEnablement
    PROVE  WhileGoing' /\ WhileUndoing'
  <1> DEFINE word == captured.unit.word
  <1>1. UNCHANGED <<spec, file, want, captured, after, changed, planned>>
        /\ pc = "undo enablement"
    BY DEF UndoEnablement
  <1>2. /\ captured.unit # None /\ file = captured.file /\ Undoable(unit, captured.unit)
        /\ word \in Words \ {"not-found", "masked", "static"}
        /\ Reloads => unit.loaded \in {None, captured.file, want}
    BY <1>1 DEF WhileUndoing, Undoing, Typed, Types, Snapshots
  <1>3. unit \in Units /\ Sane(unit) /\ unit' \in Units /\ Sane(unit')  BY DEF Typed, Types
  <1>4. Linkable(unit)
    BY <1>2, <1>3, ServiceAssumption DEF Undoable, Linkable, Units, Words
  <1>5. pc' \in {"undo activity", "stuck"}  BY DEF UndoEnablement, Run
  <1>6. ASSUME pc' = "undo activity"
        PROVE  /\ Word(unit') = word /\ Undoable(unit', captured.unit)
               /\ unit'.loaded = unit.loaded
    <2>1. CASE word = "enabled"
      <3>1. Run("enable", "undo activity", "stuck")  BY <2>1 DEF UndoEnablement
      <3>2. unit' = [unit EXCEPT !.on = TRUE]
        BY <1>3, <1>4, <1>6, <3>1, RunOutcome, EnablementEffect
      <3>3. unit'.on /\ unit'.kind = unit.kind /\ unit'.loaded = unit.loaded
        BY <1>3, <3>2 DEF Units
      <3>4. Word(unit') = "enabled"  BY <1>3, <3>3, WordOf
      <3>5. QED  BY <1>2, <2>1, <3>3, <3>4 DEF Undoable
    <2>2. CASE word = "enabled-runtime"
      <3>1. Run("enable --runtime", "undo activity", "stuck")  BY <2>2 DEF UndoEnablement
      <3>2. unit' = [unit EXCEPT !.rt = TRUE]
        <4>1. unit' = Effect("enable --runtime", unit)  BY <1>6, <3>1, RunOutcome
        <4>2. QED  BY <1>3, <1>4, <4>1, EnablementEffect
      <3>3. unit'.rt /\ unit'.on = unit.on /\ unit'.kind = unit.kind
            /\ unit'.loaded = unit.loaded
        BY <1>3, <3>2 DEF Units
      <3>4. ~unit.on  BY <1>2, <2>2 DEF Undoable
      <3>5. Word(unit') = "enabled-runtime"  BY <1>3, <3>3, <3>4, WordOf
      <3>6. QED  BY <1>2, <2>2, <3>3, <3>4, <3>5 DEF Undoable
    <2>3. CASE word \in {"disabled", "indirect"}
      <3>1. Run("disable", "undo activity", "stuck")  BY <2>3 DEF UndoEnablement
      <3>2. unit' = [unit EXCEPT !.on = FALSE]
        BY <1>3, <1>6, <3>1, RunOutcome, EnablementEffect
      <3>3. ~unit'.on /\ unit'.rt = unit.rt /\ unit'.kind = unit.kind
            /\ unit'.loaded = unit.loaded
        BY <1>3, <3>2 DEF Units
      <3>4. ~unit.rt /\ unit.kind = IF word = "disabled" THEN "plain" ELSE "indirect"
        BY <1>2, <2>3 DEF Undoable
      <3>5. Word(unit') = word  BY <1>3, <2>3, <3>3, <3>4, WordOf
      <3>6. QED  BY <1>2, <2>3, <3>3, <3>4, <3>5 DEF Undoable
    <2>4. QED  BY <1>2, <2>1, <2>2, <2>3 DEF Words
  <1>7. Word(unit)' = Word(unit')  OBVIOUS
  <1>8. CASE pc' = "undo activity"
    BY <1>1, <1>2, <1>6, <1>8
       DEF WhileGoing, WhileUndoing, Going, Stepping, Undoing, Reloads, Words
  <1>9. CASE pc' = "stuck"
    BY <1>9 DEF WhileGoing, WhileUndoing, Going, Stepping, Undoing
  <1>10. QED  BY <1>5, <1>8, <1>9

LEMMA UndoActivityKeeps ==
    ASSUME Typed, Typed', WhileGoing, WhileUndoing, UndoActivity
    PROVE  WhileGoing' /\ WhileUndoing'
  <1>1. UNCHANGED <<spec, file, want, captured, after, changed, planned>> /\ pc = "undo activity"
    BY DEF UndoActivity
  <1>2. /\ captured.unit \in Snapshots /\ file = captured.file
        /\ Word(unit) = captured.unit.word
    BY <1>1 DEF WhileUndoing, Typed, Types
  <1>3. unit \in Units /\ unit' \in Units /\ Sane(unit')  BY DEF Typed, Types
  <1>4. captured.unit.active \in BOOLEAN  BY <1>2 DEF Snapshots
  <1>5. pc' \in {"undone", "stuck"}  BY DEF UndoActivity, Run
  <1>6. CASE pc' = "undone"
    <2>1. /\ unit'.kind = unit.kind /\ unit'.on = unit.on /\ unit'.rt = unit.rt
          /\ unit'.active = captured.unit.active /\ unit'.loaded \in {None, file}
      <3>1. CASE captured.unit.active
        <4>1. Run("restarted", "undone", "stuck")  BY <3>1 DEF UndoActivity
        <4>2. unit' = Effect("restarted", unit) /\ Works("restarted", unit)
          BY <1>6, <4>1, RunOutcome
        <4>3. "restarted" \in ReloadActions  BY DEF ReloadActions
        <4>4. QED  BY <1>3, <1>4, <3>1, <4>2, <4>3, ActivityEffect DEF Units
      <3>2. CASE ~captured.unit.active
        <4>1. Run("stop", "undone", "stuck")  BY <3>2 DEF UndoActivity
        <4>2. unit' = Effect("stop", unit)  BY <1>6, <4>1, RunOutcome
        <4>3. ~unit'.active /\ unit'.kind = unit.kind /\ unit'.on = unit.on
              /\ unit'.rt = unit.rt
          BY <1>3, <4>2, ActivityEffect
        <4>4. unit'.loaded = None  BY <1>3, <4>3 DEF Sane
        <4>5. unit'.active = FALSE  BY <1>3, <4>3 DEF Units
        <4>6. QED  BY <1>4, <3>2, <4>3, <4>4, <4>5
      <3>3. QED  BY <3>1, <3>2
    <2>2. Word(unit)' = captured.unit.word  BY <1>1, <1>2, <2>1, WordKept
    <2>3. Snapshot(unit)' = captured.unit
      <3>1. Snapshot(unit)' = [word |-> Word(unit)', active |-> unit'.active]  BY DEF Snapshot
      <3>2. captured.unit = [word |-> captured.unit.word, active |-> captured.unit.active]
        BY <1>2 DEF Snapshots
      <3>3. QED  BY <2>1, <2>2, <3>1, <3>2
    <2>4. QED
      BY <1>1, <1>2, <1>6, <2>1, <2>3
         DEF WhileGoing, WhileUndoing, Going, Stepping, Undoing, Reloads
  <1>7. CASE pc' = "stuck"
    BY <1>7 DEF WhileGoing, WhileUndoing, Going, Stepping, Undoing
  <1>8. QED  BY <1>5, <1>6, <1>7

-----------------------------------------------------------------------------
LEMMA InitServed == Init => ServiceInv
  <1> SUFFICES ASSUME Init PROVE ServiceInv  OBVIOUS
  <1>1. unit.loaded \in {None, file}  BY DEF Init
  <1>2. QED
    BY <1>1, InitTyped
       DEF Init, ServiceInv, WhileGoing, WhileUndoing, Going, Stepping, Undoing

LEMMA NextServed ==
    ASSUME ServiceInv, "probe" \notin FaultKinds, [Next]_vars, ~disturbed
    PROVE  Typed' /\ (~disturbed' =>
             /\ (pc = "ready" /\ Reloads => unit.loaded \in {None, file})'
             /\ WhileGoing' /\ WhileUndoing')
  <1> USE DEF ServiceInv
  <1>1. Typed'  BY NextTyped
  <1>2. CASE FileStep
    <2>1. pc' # "ready"  BY <1>2 DEF FileStep, WriteFile
    <2>2. Reloads => unit.loaded \in {None, file}  BY <1>2 DEF FileStep
    <2>3. QED  BY <1>1, <1>2, <2>1, <2>2, FileStepKeeps
  <1>3. CASE Capture
    BY <1>1, <1>3, CaptureKeeps DEF Capture
  <1>4. CASE Enablement \/ State
    <2>1. pc' # "ready"  BY <1>4 DEF Enablement, State
    <2>2. QED  BY <1>1, <1>4, <2>1, EnablementKeeps, StateKeeps
  <1>5. CASE Toggle \/ Act \/ Recapture
    <2>1. pc' # "ready"  BY <1>5 DEF Toggle, Act, Recapture, Run
    <2>2. Act => spec.state # None  BY DEF Act
    <2>3. QED  BY <1>1, <1>5, <2>1, <2>2, ToggleKeeps, ActKeeps, RecaptureKeeps
  <1>6. CASE Rollback \/ UndoFile
    <2>1. pc' # "ready"  BY <1>6 DEF Rollback, UndoFile, WriteFile, UnitNext
    <2>2. QED  BY <1>1, <1>6, <2>1, RollbackKeeps, UndoFileKeeps
  <1>7. CASE UndoUnit \/ UndoEnablement \/ UndoActivity
    <2>1. pc' # "ready"  BY <1>7 DEF UndoUnit, UndoEnablement, UndoActivity, Run
    <2>2. QED
      BY <1>1, <1>7, <2>1, UndoUnitKeeps, UndoEnablementKeeps, UndoActivityKeeps
  <1>8. CASE StartOver
    <2>1. UNCHANGED <<spec, file, unit, want, captured, after, changed, planned>>
          /\ pc' = "ready" /\ (~disturbed' => pc \in {"done", "undone"})
      BY <1>8 DEF StartOver
    <2>2. ~disturbed' /\ Reloads => unit.loaded \in {None, file}
      BY <2>1 DEF WhileGoing, WhileUndoing, ActivityDone
    <2>3. QED
      BY <1>1, <2>1, <2>2
         DEF WhileGoing, WhileUndoing, Going, Stepping, Undoing, Reloads
  <1>9. CASE Edit  BY <1>1, <1>9 DEF Edit
  <1>10. CASE UNCHANGED vars
    <2>1. UNCHANGED <<spec, file, unit, want, captured, after, changed, planned, pc, disturbed>>
      BY <1>10 DEF vars
    <2>2. WhileGoing'
      BY <2>1, SameUnit DEF WhileGoing, Going, Stepping, Undoable, Reloads
    <2>3. WhileUndoing'  BY <2>1, SameUnit DEF WhileUndoing, Undoing, Undoable, Reloads
    <2>4. QED  BY <1>1, <2>1, <2>2, <2>3 DEF Reloads
  <1>11. QED
    BY <1>2, <1>3, <1>4, <1>5, <1>6, <1>7, <1>8, <1>9, <1>10 DEF Next

(* A command is run on the unit only where the config names a state.       *)
LEMMA NextActs ==
    ASSUME Typed, pc = "act" => spec.state # None, [Next]_vars
    PROVE  (pc = "act" => spec.state # None)'
  <1>1. CASE State
    <2>1. PICK lie : pc' = IF Skipped(IsEnabled(unit) /\ lie # "is-enabled",
                                      unit.active /\ lie # "is-active")
                           THEN "recapture" ELSE "act"
      BY <1>1 DEF State
    <2>2. spec' = spec  BY <1>1 DEF State
    <2>3. pc' = "act" => spec.state # None
      BY <2>1, ServiceAssumption DEF Skipped, States
    <2>4. QED  BY <2>2, <2>3
  <1>2. CASE ~State
    BY <1>2 DEF Next, vars, FileStep, WriteFile, Capture, Enablement, Toggle, Act, Recapture,
       Run, Rollback, UnitNext, UndoFile, UndoUnit, UndoEnablement, UndoActivity, StartOver, Edit
  <1>3. QED  BY <1>1, <1>2

LEMMA NextService ==
    ASSUME "probe" \notin FaultKinds
    PROVE  ServiceInv /\ [Next]_vars => ServiceInv'
  <1> SUFFICES ASSUME ServiceInv, [Next]_vars PROVE ServiceInv'  OBVIOUS
  <1>1. Typed' /\ (pc = "act" => spec.state # None)'  BY NextTyped, NextActs DEF ServiceInv
  <1>2. disturbed => disturbed'
    BY DEF Next, vars, FileStep, Capture, Enablement, Toggle, State, Act, Recapture, Rollback,
       UndoFile, UndoUnit, UndoEnablement, UndoActivity, StartOver, Edit
  <1>3. QED  BY <1>1, <1>2, NextServed DEF ServiceInv

LEMMA ServiceAlways == ASSUME "probe" \notin FaultKinds PROVE Spec => []ServiceInv
  BY InitServed, NextService, PTL DEF Spec

-----------------------------------------------------------------------------
(* A run that went well left the unit as its step asks.                    *)
THEOREM DoneIsDesired == ASSUME "probe" \notin FaultKinds PROVE Spec => []DoneMeansDesired
  <1>1. ServiceInv => DoneMeansDesired
    BY DEF ServiceInv, WhileGoing, EnablementDone, ActivityDone, DoneMeansDesired
  <1>2. QED  BY <1>1, ServiceAlways, PTL

(* The service runs the file on disk after every run that went well and    *)
(* that asks for a restart, however rarely the restart is done.            *)
THEOREM DoneIsServed == ASSUME "probe" \notin FaultKinds PROVE Spec => []DoneMeansServed
  <1>1. ServiceInv => DoneMeansServed
    BY DEF ServiceInv, WhileGoing, ActivityDone, Reloads, DoneMeansServed
  <1>2. QED  BY <1>1, ServiceAlways, PTL

(* No command is run that a plan of the same host does not announce.       *)
THEOREM PlansForesee == ASSUME "probe" \notin FaultKinds PROVE Spec => []PlanForesees
  <1>1. ServiceInv => PlanForesees  BY DEF ServiceInv, WhileGoing, PlanForesees
  <1>2. QED  BY <1>1, ServiceAlways, PTL

(* An undone run left file, unit and service as it found them.             *)
THEOREM UndoneIsBefore == ASSUME "probe" \notin FaultKinds PROVE Spec => []UndoneMeansBefore
  <1>1. ServiceInv => UndoneMeansBefore
    BY DEF ServiceInv, WhileUndoing, Reloads, UndoneMeansBefore
  <1>2. QED  BY <1>1, ServiceAlways, PTL
=============================================================================
