----------------------------- MODULE HardlineRuns -----------------------------
(***************************************************************************)
(* The core protocol of hardline: runners that apply signed profiles to    *)
(* one host over SSH and roll them back (internals/apply/apply.go,         *)
(* internals/rollback/*.go, internals/remote/lock.go, cmd/hardline).       *)
(*                                                                         *)
(* A runner is a process with a state directory of its own.  It takes the  *)
(* host's mutation lock (a directory), and then either applies a profile   *)
(* step by step, journalling each step locally before and after it runs,   *)
(* and commits the journal to the host; or loads a journal, checks that    *)
(* the host still looks the way that run left it, claims the journal,      *)
(* reverts its steps and deletes it.  Every action below is one remote     *)
(* command, or one local save, together with the decisions around it; a    *)
(* command may fail with or without having taken effect (a timeout closes  *)
(* the session, not the command), a runner may be killed between any two,  *)
(* and others may edit the host.                                           *)
(*                                                                         *)
(* Bounds of the model: RunIds (how many runs start) and MaxFaults (how    *)
(* many faults happen); FaultKinds says which faults there are.            *)
(***************************************************************************)
EXTENDS JournalRules, FiniteSets

CONSTANTS
    Runners,     \* the machines an operator runs hardline on
    RunIds,      \* run ids: the UTC timestamps NewJournal stamps, as numbers
    InitHost,    \* the host before hardline touched it
    Edits,       \* the values others give objects behind hardline's back
    Flags,       \* the command-line flags in use: a subset of the three below
    FaultKinds,  \* which faults happen
    MaxFaults,   \* how many
    ClocksAgree, \* the runners' clocks order runs the way they happened
    NoJournal, Nobody, Outside

AllFlags == {"keep", "local", "force"}
AllFaultKinds == {"command", "save", "crash", "edit", "signal"}

ASSUME RunsAssumption ==
    /\ RunIds \subseteq Nat \ {0}
    /\ IsFiniteSet(RunIds)
    /\ InitHost \in [Objects -> Value]
    /\ Edits \subseteq Value
    /\ Flags \subseteq AllFlags
    /\ FaultKinds \subseteq AllFaultKinds
    /\ MaxFaults \in Nat
    /\ ClocksAgree \in BOOLEAN
    /\ Nobody \notin RunIds
    /\ Outside \notin RunIds \cup {Nobody}
    /\ Profiles # {}

VARIABLES
    \* the host
    host,       \* the state of every object
    lock,       \* /var/lib/hardline/.apply-lock.d exists
    remote,     \* remote[p][run]: the journal file of a run of p, or NoJournal
    \* the runners
    pc,         \* where each runner is
    job,        \* the command it runs: kind, profile and flags
    mem,        \* the journal in its memory, or NoJournal
    todo,       \* the restorations a rollback has still to do
    degraded,   \* some object could not be restored, and that was tolerated
    cancelled,  \* the apply context is cancelled (first SIGINT or SIGTERM)
    result,     \* what the last command ended with
    local,      \* local[r][p]: the runner-side journal file, or NoJournal
    \* the environment
    faults,     \* how many faults have happened
    \* history, which no action reads
    born,       \* born[run]: the position of the run in real time, 0 before
    origin,     \* origin[run]: the host as the run found it
    writer,     \* who gave each object its value
    late,       \* objects others edited since the rollback was allowed
    tainted     \* the host no longer follows the journals, and not by a bug

hostVars == <<host, lock, remote>>
runnerVars == <<pc, job, mem, todo, degraded, cancelled, result, local>>
historyVars == <<born, origin, writer, late, tainted>>
vars == <<hostVars, runnerVars, faults, historyVars>>

-----------------------------------------------------------------------------
Statuses == {"in_progress", "interrupted", "failed", "success", "rolling_back"}

ApplyPCs == {"admit", "step", "exec", "run", "capture", "undo", "stamp",
             "commit", "tidy", "fallback"}
RollbackPCs == {"load", "preflight", "claim", "consume"}
RevertPCs == {"revert", "settle"}
LockedPCs == ApplyPCs \cup RollbackPCs \cup RevertPCs \cup {"release"}
PCs == {"idle", "lock"} \cup LockedPCs

Results == {"none", "refused", "conflict", "failed", "undone", "stuck", "success",
            "fallback", "lost", "unfinished", "reverted", "partial", "unconsumed"}

Jobs == [kind : {"none", "apply", "rollback"}, profile : Profiles, flags : SUBSET Flags]
NoJob == [kind |-> "none", profile |-> CHOOSE p \in Profiles : TRUE, flags |-> {}]

Captures == UNION {[S -> Value] : S \in SUBSET Objects}
Records == [before : Captures, after : Captures \cup {Uncaptured}]
Journals == [run : RunIds, status : Statuses, steps : Seq(Records)]

ASSUME NoJournalAssumption == NoJournal \notin Journals

Prof(r) == job[r].profile
Steps(r) == StepsOf[Prof(r)]
Has(r, flag) == flag \in job[r].flags
Holds(r) == pc[r] \in LockedPCs

Snapshot(p, i) == [o \in ObjectsOf(p, i) |-> host[o]]

(* Mutant: the claim writes a status no reader knows.                      *)
Misspelt(j, s) == [j EXCEPT !.status = IF s = "rolling_back" THEN "rollingback" ELSE s]

WithStatus(j, s) == [j EXCEPT !.status = s]

(* Mutant: the first file name of the listing instead of the last.         *)
Oldest(p) == CHOOSE k \in RunIds : /\ remote[p][k] # NoJournal
                                   /\ \A x \in RunIds : remote[p][x] # NoJournal => k <= x

(* The journal LoadRemoteLast picks: the lexically last file name.         *)
StoredRuns(p) == {k \in RunIds : remote[p][k] # NoJournal}
Newest(p) == CHOOSE k \in StoredRuns(p) : \A other \in StoredRuns(p) : other <= k

(* The runs whose rollback was begun and is not finished.                  *)
HalfReverted == {k \in RunIds : \E p \in Profiles : remote[p][k] # NoJournal
                                                   /\ remote[p][k].status = "rolling_back"}

Fault(kind) ==
    /\ kind \in FaultKinds
    /\ faults < MaxFaults
    /\ faults' = faults + 1

NoFault == UNCHANGED faults

Goto(r, where) == pc' = [pc EXCEPT ![r] = where]

(* Mutant: the command exits before its deferred unlock.                   *)
EndUnreleased(r, what) == /\ Goto(r, "idle")
                          /\ result' = [result EXCEPT ![r] = what]

End(r, what) == /\ Goto(r, "release")
                /\ result' = [result EXCEPT ![r] = what]

-----------------------------------------------------------------------------
Init ==
    /\ host = InitHost
    /\ lock = FALSE
    /\ remote = [p \in Profiles |-> [k \in RunIds |-> NoJournal]]
    /\ pc = [r \in Runners |-> "idle"]
    /\ job = [r \in Runners |-> NoJob]
    /\ mem = [r \in Runners |-> NoJournal]
    /\ todo = [r \in Runners |-> {}]
    /\ degraded = [r \in Runners |-> FALSE]
    /\ cancelled = [r \in Runners |-> FALSE]
    /\ result = [r \in Runners |-> "none"]
    /\ local = [r \in Runners |-> [p \in Profiles |-> NoJournal]]
    /\ faults = 0
    /\ born = [k \in RunIds |-> 0]
    /\ origin = [k \in RunIds |-> InitHost]
    /\ writer = [o \in Objects |-> Nobody]
    /\ late = [r \in Runners |-> {}]
    /\ tainted = FALSE

-----------------------------------------------------------------------------
(* A command starts, and takes the mutation lock of the host.              *)

FreshRun(k) ==
    /\ born[k] = 0
    /\ ClocksAgree => \A other \in RunIds : born[other] = 0 <=> k <= other

Starting == {r \in Runners : job[r].kind = "apply" /\ pc[r] \in {"lock", "admit"}}

StartApply(r) ==
    /\ pc[r] = "idle"
    /\ Cardinality(Starting) < Cardinality({k \in RunIds : born[k] = 0})
    /\ \E p \in Profiles, flags \in SUBSET (Flags \cap {"keep"}) :
         job' = [job EXCEPT ![r] = [kind |-> "apply", profile |-> p, flags |-> flags]]
    /\ Goto(r, "lock")
    /\ result' = [result EXCEPT ![r] = "none"]
    /\ UNCHANGED <<hostVars, mem, todo, degraded, cancelled, local, faults, historyVars>>

StartRollback(r) ==
    /\ pc[r] = "idle"
    /\ \E p \in Profiles, flags \in SUBSET (Flags \cap {"local", "force"}) :
         job' = [job EXCEPT ![r] = [kind |-> "rollback", profile |-> p, flags |-> flags]]
    /\ Goto(r, "lock")
    /\ result' = [result EXCEPT ![r] = "none"]
    /\ UNCHANGED <<hostVars, mem, todo, degraded, cancelled, local, faults, historyVars>>

(* The process of runner r ends: all that was in its memory is gone.       *)
Exit(r) ==
    /\ Goto(r, "idle")
    /\ job' = [job EXCEPT ![r] = NoJob]
    /\ mem' = [mem EXCEPT ![r] = NoJournal]
    /\ todo' = [todo EXCEPT ![r] = {}]
    /\ degraded' = [degraded EXCEPT ![r] = FALSE]
    /\ cancelled' = [cancelled EXCEPT ![r] = FALSE]
    /\ late' = [late EXCEPT ![r] = {}]

(* Mutant: mkdir -p, which succeeds on a directory that is there.          *)
TakeLockAnyway(r) ==
    /\ pc[r] = "lock"
    /\ lock' = TRUE
    /\ Goto(r, IF job[r].kind = "apply" THEN "admit" ELSE "load")
    /\ UNCHANGED <<host, remote, job, mem, todo, degraded, cancelled, result, local,
                   faults, historyVars>>

TakeLock(r) ==
    /\ pc[r] = "lock"
    /\ ~lock
    /\ lock' = TRUE
    /\ Goto(r, IF job[r].kind = "apply" THEN "admit" ELSE "load")
    /\ UNCHANGED <<host, remote, job, mem, todo, degraded, cancelled, result, local,
                   faults, historyVars>>

(* The lock is held by another, or the command that takes it fails, in     *)
(* which case the directory may have been made all the same.               *)
LockRefused(r) ==
    /\ pc[r] = "lock"
    /\ \/ lock /\ lock' = lock /\ NoFault
       \/ lock' \in {lock, TRUE} /\ Fault("command")
    /\ Exit(r)
    /\ result' = [result EXCEPT ![r] = "refused"]
    /\ UNCHANGED <<host, remote, local, born, origin, writer, tainted>>

(* The deferred rmdir; when it fails there is only a warning.              *)
ReleaseLock(r) ==
    /\ pc[r] = "release"
    /\ \/ lock' = FALSE /\ NoFault
       \/ lock' = lock /\ Fault("command")
    /\ Exit(r)
    /\ UNCHANGED <<host, remote, result, local, born, origin, writer, tainted>>

-----------------------------------------------------------------------------
(* apply                                                                   *)

SaveLocal(r, j) == local' = [local EXCEPT ![r][Prof(r)] = j]

(* A local save: written to a sibling and renamed, so it happens or not.   *)
SavedOr(r, j, then, otherwise) ==
    \/ SaveLocal(r, j) /\ NoFault /\ then
    \/ UNCHANGED local /\ Fault("save") /\ otherwise

(* The checks before the run (OS, versions, plugins) fail.                 *)
AdmitRefused(r) ==
    /\ pc[r] = "admit"
    /\ Fault("command")
    /\ End(r, "refused")
    /\ UNCHANGED <<hostVars, job, mem, todo, degraded, cancelled, local, historyVars>>

(* NewJournal, saved before anything is touched.                           *)
NewRun(r) ==
    /\ pc[r] = "admit"
    /\ \E k \in RunIds :
         LET j == [run |-> k, status |-> "in_progress", steps |-> <<>>] IN
         /\ FreshRun(k)
         /\ SavedOr(r, j,
                /\ Goto(r, "step")
                /\ mem' = [mem EXCEPT ![r] = j]
                /\ born' = [born EXCEPT ![k] = Cardinality({x \in RunIds : born[x] # 0}) + 1]
                /\ origin' = [origin EXCEPT ![k] = host]
                /\ tainted' = (tainted \/ HalfReverted # {})
                /\ UNCHANGED result,
                End(r, "refused") /\ UNCHANGED <<mem, born, origin, tainted>>)
    /\ UNCHANGED <<hostVars, job, todo, degraded, cancelled, writer, late>>

(* Mutant: a cancelled run may go on to its next step.                     *)
NextStepRegardless(r) ==
    /\ pc[r] = "step"
    /\ Goto(r, IF Len(mem[r].steps) < Len(Steps(r)) THEN "exec" ELSE "commit")
    /\ NoFault
    /\ UNCHANGED <<hostVars, job, mem, todo, degraded, cancelled, result, local, historyVars>>

(* The loop of applyProfile: abortIfCancelled between any two steps.       *)
NextStep(r) ==
    /\ pc[r] = "step"
    /\ ~cancelled[r]
    /\ Goto(r, IF Len(mem[r].steps) < Len(Steps(r)) THEN "exec" ELSE "commit")
    /\ NoFault
    /\ UNCHANGED <<hostVars, job, mem, todo, degraded, cancelled, result, local, historyVars>>

Interrupt(r) ==
    /\ pc[r] = "step"
    /\ cancelled[r]
    /\ LET j == WithStatus(mem[r], "interrupted") IN
         /\ mem' = [mem EXCEPT ![r] = j]
         /\ SavedOr(r, j, TRUE, TRUE)
    /\ IF mem[r].steps = <<>>
       THEN Goto(r, "stamp") /\ result' = [result EXCEPT ![r] = "failed"]
       ELSE Goto(r, "undo") /\ UNCHANGED result
    /\ UNCHANGED <<hostVars, job, todo, degraded, cancelled, historyVars>>

(* NewStepRecordFromCapture and SetAfterFromCapture.                       *)
Recorded(j, before) == [j EXCEPT !.steps = Append(@, [before |-> before, after |-> Uncaptured])]
Completed(j, after) == [j EXCEPT !.steps[Len(j.steps)].after = after]

(* Mutant: the capture before a step is kept in memory until the step ran. *)
CaptureUnsaved(r) ==
    /\ pc[r] = "exec"
    /\ mem' = [mem EXCEPT ![r] = Recorded(@, Snapshot(Prof(r), Len(@.steps) + 1))]
    /\ NoFault
    /\ Goto(r, "run")
    /\ UNCHANGED <<hostVars, job, todo, degraded, cancelled, result, local, historyVars>>

(* executeStep: capture what the step is about to change and journal it,   *)
(* run the plugin, capture again and journal that.                         *)
CaptureBefore(r) ==
    /\ pc[r] = "exec"
    /\ \/ /\ Fault("command")
          /\ Goto(r, "undo")
          /\ UNCHANGED <<mem, local>>
       \/ LET j == Recorded(mem[r], Snapshot(Prof(r), Len(mem[r].steps) + 1)) IN
          /\ mem' = [mem EXCEPT ![r] = j]
          /\ SavedOr(r, j, Goto(r, "run"), Goto(r, "undo"))
    /\ UNCHANGED <<hostVars, job, todo, degraded, cancelled, result, historyVars>>

(* What the plugin of step i of profile p makes of the host when it gets   *)
(* through n of the step's objects, and halfway through the next or not.   *)
AfterPlugin(p, i, n, halfway) ==
    LET objs == StepsOf[p][i].objects
        want == StepsOf[p][i].want
        done == {objs[k] : k \in 1..n} IN
    [ o \in Objects |->
        IF o \in done THEN Applied(o, host[o], want[o])
        ELSE IF halfway /\ n < Len(objs) /\ o = objs[n + 1]
             THEN HalfWritten(o, host[o], want[o])
        ELSE host[o] ]

WrittenBy(k) ==
    writer' = [o \in Objects |-> IF host'[o] # host[o] THEN k ELSE writer[o]]

RunStep(r) ==
    /\ pc[r] = "run"
    /\ LET i == Len(mem[r].steps) IN
         \/ /\ host' = AfterPlugin(Prof(r), i, Len(Steps(r)[i].objects), FALSE)
            /\ NoFault
            /\ Goto(r, "capture")
         \/ /\ \E n \in 0..Len(Steps(r)[i].objects), halfway \in BOOLEAN :
                 host' = AfterPlugin(Prof(r), i, n, halfway)
            /\ Fault("command")
            /\ Goto(r, "undo")
    /\ WrittenBy(mem[r].run)
    /\ UNCHANGED <<lock, remote, job, mem, todo, degraded, cancelled, result, local,
                   born, origin, late, tainted>>

(* Mutant: a capture that fails after the step is only logged.             *)
CaptureOptional(r) ==
    /\ pc[r] = "capture"
    /\ \/ Fault("command") /\ UNCHANGED <<mem, local>>
       \/ LET j == Completed(mem[r], Snapshot(Prof(r), Len(mem[r].steps))) IN
          /\ mem' = [mem EXCEPT ![r] = j]
          /\ SavedOr(r, j, TRUE, TRUE)
    /\ Goto(r, "step")
    /\ UNCHANGED <<hostVars, job, todo, degraded, cancelled, result, historyVars>>

(* What others wrote since the plugin ran is captured as the step's own.   *)
CaptureAfter(r) ==
    /\ pc[r] = "capture"
    /\ \/ /\ Fault("command")
          /\ Goto(r, "undo")
          /\ UNCHANGED <<mem, local, writer>>
       \/ LET i == Len(mem[r].steps)
              j == Completed(mem[r], Snapshot(Prof(r), i)) IN
          /\ mem' = [mem EXCEPT ![r] = j]
          /\ writer' = [o \in Objects |->
                          IF o \in ObjectsOf(Prof(r), i) /\ writer[o] = Outside
                          THEN mem[r].run ELSE writer[o]]
          /\ SavedOr(r, j, Goto(r, "step"), Goto(r, "undo"))
    /\ UNCHANGED <<hostVars, job, todo, degraded, cancelled, result,
                   born, origin, late, tainted>>

(* The run failed or was reverted: the journal is stamped and the run ends.*)
StampFailed(r) ==
    /\ pc[r] = "stamp"
    /\ LET j == WithStatus(mem[r], "failed") IN
         /\ mem' = [mem EXCEPT ![r] = j]
         /\ SavedOr(r, j, TRUE, TRUE)
    /\ Goto(r, "release")
    /\ UNCHANGED <<hostVars, job, todo, degraded, cancelled, result, historyVars>>

(* Every step is applied: the journal goes to the host.  The save may fail *)
(* with the file written.                                                  *)
Commit(r) ==
    /\ pc[r] = "commit"
    /\ LET j == WithStatus(mem[r], "success")
           stored == [remote EXCEPT ![Prof(r)][j.run] = j] IN
         /\ mem' = [mem EXCEPT ![r] = j]
         /\ \/ /\ remote' = stored
               /\ NoFault
               /\ Goto(r, "tidy")
               /\ UNCHANGED tainted
            \/ /\ remote' \in {remote, stored}
               /\ Fault("command")
               /\ Goto(r, "fallback")
               /\ tainted' = TRUE
    /\ UNCHANGED <<host, lock, job, todo, degraded, cancelled, result, local,
                   born, origin, writer, late>>

(* The runner-side journal is kept or removed; failing to only warns.      *)
Tidy(r) ==
    /\ pc[r] = "tidy"
    /\ SavedOr(r, IF Has(r, "keep") THEN mem[r] ELSE NoJournal, TRUE, TRUE)
    /\ End(r, "success")
    /\ UNCHANGED <<hostVars, job, mem, todo, degraded, cancelled, historyVars>>

Fallback(r) ==
    /\ pc[r] = "fallback"
    /\ SavedOr(r, mem[r], End(r, "fallback"), End(r, "lost"))
    /\ UNCHANGED <<hostVars, job, mem, todo, degraded, cancelled, historyVars>>

-----------------------------------------------------------------------------
(* Reverting: RollbackSteps on the way out of a failed or interrupted      *)
(* apply, and executeRollbackSteps of a manual rollback.                   *)

(* The automatic rollback's preflight: never forced, never a resume.       *)
UndoPreflight(r) ==
    /\ pc[r] = "undo"
    /\ LET js == mem[r].steps IN
         \/ /\ RollbackConflicts(Prof(r), js, host, FALSE) = {}
            /\ NoFault
            /\ Goto(r, "revert")
            /\ todo' = [todo EXCEPT ![r] = RevertItems(Prof(r), js)]
            /\ UNCHANGED <<result, tainted>>
         \/ /\ \/ RollbackConflicts(Prof(r), js, host, FALSE) # {} /\ NoFault
               \/ Fault("command")
            /\ Goto(r, "stamp")
            /\ result' = [result EXCEPT ![r] = "stuck"]
            /\ tainted' = TRUE
            /\ UNCHANGED todo
    /\ UNCHANGED <<hostVars, job, mem, degraded, cancelled, local,
                   born, origin, writer, late>>

(* A restoration failed: the mode of its step says whether that ends the   *)
(* rollback.                                                               *)
RestoreFailed(r, it) ==
    /\ Fault("command")
    /\ IF ToleratesFailedRevert(Steps(r)[it[1]].mode)
       THEN /\ Goto(r, "revert")
            /\ todo' = [todo EXCEPT ![r] = @ \ {it}]
            /\ degraded' = [degraded EXCEPT ![r] = TRUE]
            /\ writer' = [writer EXCEPT ![Steps(r)[it[1]].objects[it[2]]] = Nobody]
            /\ tainted' = TRUE
            /\ UNCHANGED result
       ELSE /\ IF job[r].kind = "apply"
               THEN Goto(r, "stamp") /\ result' = [result EXCEPT ![r] = "stuck"] /\ tainted' = TRUE
               ELSE End(r, "unfinished") /\ UNCHANGED tainted
            /\ UNCHANGED <<todo, degraded, writer>>

SetHost(o, v) == host' = [host EXCEPT ![o] = v]

(* What others gave o is gone; what a run gave it is not undone yet.       *)
Overwritten(o) == writer' = [writer EXCEPT ![o] = IF @ = Outside THEN Nobody ELSE @]

(* The first command of a restoration: rm, install, or enable/disable.     *)
RevertObject(r) ==
    /\ pc[r] = "revert"
    /\ \E it \in todo[r] :
         LET o == Steps(r)[it[1]].objects[it[2]]
             before == mem[r].steps[it[1]].before[o]
             half == HalfWritten(o, host[o], before) IN
         /\ IsNextToRevert(Prof(r), todo[r], it)
         /\ \/ /\ SetHost(o, half)
               /\ NoFault
               /\ IF RestoredInOne(o, before)
                  THEN /\ Goto(r, "revert")
                       /\ todo' = [todo EXCEPT ![r] = @ \ {it}]
                       /\ writer' = [writer EXCEPT ![o] = Nobody]
                  ELSE Goto(r, "settle") /\ Overwritten(o) /\ UNCHANGED todo
               /\ UNCHANGED <<degraded, result, tainted>>
            \/ /\ SetHost(o, half) \/ UNCHANGED host
               /\ RestoreFailed(r, it)
    /\ UNCHANGED <<lock, remote, job, mem, cancelled, local, born, origin, late>>

(* The second: chown, or restart/stop.                                     *)
SettleObject(r) ==
    /\ pc[r] = "settle"
    /\ \E it \in todo[r] :
         LET o == Steps(r)[it[1]].objects[it[2]]
             before == mem[r].steps[it[1]].before[o]
             settled == [host[o] EXCEPT !.meta = before.meta] IN
         /\ IsNextToRevert(Prof(r), todo[r], it)
         /\ \/ /\ SetHost(o, settled)
               /\ NoFault
               /\ Goto(r, "revert")
               /\ todo' = [todo EXCEPT ![r] = @ \ {it}]
               /\ writer' = [writer EXCEPT ![o] = Nobody]
               /\ UNCHANGED <<degraded, result, tainted>>
            \/ /\ SetHost(o, settled) \/ UNCHANGED host
               /\ RestoreFailed(r, it)
    /\ UNCHANGED <<lock, remote, job, mem, cancelled, local, born, origin, late>>

RevertDone(r) ==
    /\ pc[r] = "revert"
    /\ todo[r] = {}
    /\ IF job[r].kind = "apply"
       THEN /\ Goto(r, "stamp")
            /\ result' = [result EXCEPT ![r] = IF degraded[r] THEN "stuck" ELSE "undone"]
       ELSE Goto(r, "consume") /\ UNCHANGED result
    /\ NoFault
    /\ UNCHANGED <<hostVars, job, mem, todo, degraded, cancelled, local, historyVars>>

-----------------------------------------------------------------------------
(* rollback                                                                *)

Loadable(r) ==
    IF Has(r, "local") THEN {local[r][Prof(r)]} \ {NoJournal}
    ELSE IF StoredRuns(Prof(r)) = {} THEN {}
    ELSE {remote[Prof(r)][Newest(Prof(r))]}

Accepted(j) == j.status \in {"success", "rolling_back"}

(* Load the journal and read its status.                                   *)
LoadJournal(r) ==
    /\ pc[r] = "load"
    /\ \E j \in Loadable(r) : Accepted(j) /\ mem' = [mem EXCEPT ![r] = j]
    /\ Goto(r, "preflight")
    /\ NoFault
    /\ UNCHANGED <<hostVars, job, todo, degraded, cancelled, result, local, historyVars>>

LoadRefused(r) ==
    /\ pc[r] = "load"
    /\ \/ ~(\E j \in Loadable(r) : Accepted(j)) /\ NoFault
       \/ Fault("command")
    /\ End(r, "refused")
    /\ UNCHANGED <<hostVars, job, mem, todo, degraded, cancelled, local, historyVars>>

Conflicted(r) ==
    RollbackConflicts(Prof(r), mem[r].steps, host, mem[r].status = "rolling_back") # {}

Preflight(r) ==
    /\ pc[r] = "preflight"
    /\ Conflicted(r) => Has(r, "force")
    /\ Goto(r, "claim")
    /\ tainted' = (tainted \/ Conflicted(r) \/ HalfReverted \ {mem[r].run} # {})
    /\ NoFault
    /\ UNCHANGED <<hostVars, job, mem, todo, degraded, cancelled, result, local,
                   born, origin, writer, late>>

(* The refusal of a step whose plugin is not registered, which force does  *)
(* not override, is left out: every plugin is there.                       *)
PreflightRefused(r) ==
    /\ pc[r] = "preflight"
    /\ ~Has(r, "force")
    /\ \/ Conflicted(r) /\ NoFault /\ End(r, "conflict")
       \/ Fault("command") /\ End(r, "refused")
    /\ UNCHANGED <<hostVars, job, mem, todo, degraded, cancelled, local, historyVars>>

(* Mutant: the journal is claimed in memory only.                          *)
ClaimUnsaved(r) ==
    /\ pc[r] = "claim"
    /\ mem' = [mem EXCEPT ![r] = WithStatus(@, "rolling_back")]
    /\ todo' = [todo EXCEPT ![r] = RevertItems(Prof(r), mem[r].steps)]
    /\ Goto(r, "revert")
    /\ NoFault
    /\ UNCHANGED <<hostVars, job, degraded, cancelled, result, local, historyVars>>

(* claimJournal: the journal is rewritten as rolling_back where it was     *)
(* loaded from.  A remote rewrite may fail with the file written.          *)
Claim(r) ==
    /\ pc[r] = "claim"
    /\ LET j == WithStatus(mem[r], "rolling_back")
           p == Prof(r)
           claimed == [remote EXCEPT ![p][j.run] = j] IN
         \/ /\ IF Has(r, "local")
               THEN SaveLocal(r, j) /\ UNCHANGED remote
               ELSE remote' = claimed /\ UNCHANGED local
            /\ NoFault
            /\ mem' = [mem EXCEPT ![r] = j]
            /\ todo' = [todo EXCEPT ![r] = RevertItems(p, j.steps)]
            /\ Goto(r, "revert")
            /\ UNCHANGED result
         \/ /\ IF Has(r, "local")
               THEN Fault("save") /\ UNCHANGED remote
               ELSE Fault("command") /\ remote' \in {remote, claimed}
            /\ End(r, "refused")
            /\ UNCHANGED <<mem, todo, local>>
    /\ UNCHANGED <<host, lock, job, degraded, cancelled, historyVars>>

(* consumeJournal: the journal is deleted where it was loaded from.  When  *)
(* that fails the file may be gone all the same.                           *)
Consume(r) ==
    /\ pc[r] = "consume"
    /\ LET p == Prof(r)
           deleted == [remote EXCEPT ![p][mem[r].run] = NoJournal] IN
         \/ /\ IF Has(r, "local")
               THEN SaveLocal(r, NoJournal) /\ UNCHANGED remote
               ELSE remote' = deleted /\ UNCHANGED local
            /\ NoFault
            /\ End(r, IF degraded[r] THEN "partial" ELSE "reverted")
         \/ /\ \/ /\ Has(r, "local") /\ Fault("save")
                  /\ SaveLocal(r, NoJournal) \/ UNCHANGED local
                  /\ UNCHANGED remote
               \/ /\ ~Has(r, "local") /\ Fault("command")
                  /\ remote' \in {remote, deleted}
                  /\ UNCHANGED local
            /\ End(r, "unconsumed")
    /\ UNCHANGED <<host, lock, job, mem, todo, degraded, cancelled, historyVars>>

-----------------------------------------------------------------------------
(* The environment.                                                        *)

(* The first signal cancels the apply context; rollback has none.          *)
Signal(r) ==
    /\ "signal" \in FaultKinds
    /\ job[r].kind = "apply"
    /\ ~cancelled[r]
    /\ cancelled' = [cancelled EXCEPT ![r] = TRUE]
    /\ UNCHANGED <<hostVars, pc, job, mem, todo, degraded, result, local, faults, historyVars>>

(* The runner is killed, or exits on a second signal: no defer runs.       *)
Crash(r) ==
    /\ pc[r] # "idle"
    /\ Fault("crash")
    /\ tainted' = (\/ tainted
                   \/ /\ job[r].kind = "apply"
                      /\ pc[r] \notin {"lock", "admit", "tidy", "release"})
    /\ Exit(r)
    /\ result' = [result EXCEPT ![r] = "none"]
    /\ UNCHANGED <<hostVars, local, born, origin, writer>>

(* Somebody else changes an object.                                        *)
Edit(o, v) ==
    /\ Fault("edit")
    /\ host[o] # v
    /\ SetHost(o, v)
    /\ writer' = [writer EXCEPT ![o] = Outside]
    /\ tainted' = TRUE
    /\ late' = [r \in Runners |-> IF pc[r] \in RevertPCs \cup {"claim"} THEN late[r] \cup {o}
                                ELSE late[r]]
    /\ UNCHANGED <<lock, remote, runnerVars, born, origin>>

(* The operator removes a lock no live run holds, as the error says.       *)
RemoveStaleLock ==
    /\ lock
    /\ \A r \in Runners : ~Holds(r)
    /\ lock' = FALSE
    /\ UNCHANGED <<host, remote, runnerVars, faults, historyVars>>

-----------------------------------------------------------------------------
(* What the process of a runner does once started: every step of it.       *)
ApplyStep(r) ==
    \/ AdmitRefused(r) \/ NewRun(r) \/ NextStep(r) \/ Interrupt(r)
    \/ CaptureBefore(r) \/ RunStep(r) \/ CaptureAfter(r)
    \/ UndoPreflight(r) \/ StampFailed(r) \/ Commit(r) \/ Tidy(r) \/ Fallback(r)

RevertStep(r) == RevertObject(r) \/ SettleObject(r) \/ RevertDone(r)

RollbackStep(r) ==
    \/ LoadJournal(r) \/ LoadRefused(r) \/ Preflight(r) \/ PreflightRefused(r)
    \/ Claim(r) \/ Consume(r)

Progress(r) ==
    \/ TakeLock(r) \/ LockRefused(r) \/ ReleaseLock(r)
    \/ ApplyStep(r) \/ RevertStep(r) \/ RollbackStep(r)

Next ==
    \/ \E r \in Runners :
         StartApply(r) \/ StartRollback(r) \/ Progress(r) \/ Signal(r) \/ Crash(r)
    \/ \E o \in Objects, v \in Edits : Edit(o, v)
    \/ RemoveStaleLock

Spec == Init /\ [][Next]_vars

(* hardline is a sequential program and every remote command it waits for  *)
(* is cut off by a timeout, so a runner that is not killed goes on.        *)
FairSpec == Spec /\ \A r \in Runners : WF_vars(Progress(r))
=============================================================================
