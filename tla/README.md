# A formal model of hardline

hardline is a Go command-line program that applies a signed profile of
hardening steps to a remote host over SSH, and can take the run back: before
and after every step it captures what the step manages into a *rollback
journal*, and `hardline rollback` restores those captures in reverse. This
directory holds TLA+ modules that model how it does so, TLC configurations that
model-check them on small instances, and TLAPS proofs of the properties that
matter most for every instance.

To check everything, from this directory:

    tlc -config MCRuns_faults.cfg MCRuns      # any of the runs of PROJECT.json
    tlapm HardlineRecordProofs.tla            # any of the *Proofs modules

PROJECT.json lists the runs, and for every definition that models code the lines
of the source it stands for.

## 1. The system

| Component | Source | State it keeps | Operations | What makes it correct |
| --- | --- | --- | --- | --- |
| apply engine | `internals/apply` | the journal in memory, the position in the profile, which steps changed something | apply a profile step by step; abort between steps on a signal; roll back on a failed step; commit the journal to the host | what was written is on record before it is written; a failed run ends undone; only complete runs are committed |
| rollback engine | `internals/rollback/rollback.go` | the loaded journal, what is left to restore, degraded objects | load, gate on the status, conflict check, claim, restore, consume | nothing is restored before the journal is claimed; what another edited is not overwritten; an unfinished rollback can be finished |
| rollback journal | `internals/rollback/journal*.go` | one local file for a profile and host; one file on the host for every successful run | save, load the latest, delete | the journals on a host are a stack of successful runs |
| mutation lock | `internals/remote/lock.go` | a directory on the host | take, release | one apply or rollback at a time |
| remote client | `internals/remote/{exec,fs,host}.go`, `internals/connection` | SSH sessions, a timer for each command | run a command with a timeout, read and write root's files | a failure says nothing of whether the command took effect |
| plugins | `internals/plugins/*` | on the host: files, metadata, units, packages, kernel rules | validate, plan, apply, capture, roll back, detect a conflict | a step converges; what it captures is enough to take it back |
| profile and verification | `pkg/profile`, `internals/verify` | the verified bundle | parse, check signatures and overrides | only a signed, valid profile reaches the host |
| plugin loader and registry | `internals/plugins/loader.go`, `pkg/pluginapi/registry.go`, `internals/registry` | the registered plugins | load built-in and external plugins, dispatch | every step of a verified profile has a plugin |
| planner | `internals/plan` | a report | run every step's Plan and render the result | plan says what apply would do |
| CLI and tools | `cmd/*`, `internals/cli`, `pkg/logger` | flags | parse, print | - |

Components interact by calls inside one sequential process, and with the host by
remote commands. What makes hardline hard to get right is between the lines of
that process: a runner can be killed between any two commands; a command may
fail, or time out and take effect all the same; a signal may arrive at any
moment and is looked at between steps only; two machines may drive the same
host; others edit the host; a profile may be applied over another; and a
rollback must be able to finish what an earlier one began. PROJECT.json lists
the hazards at the lines where they bite, and the properties that are about
them.

## 2. The modules

| Module | What it is |
| --- | --- |
| `JournalRules` | pure functions of a journal and a profile: which steps changed something, what is restored in which order, what counts as a conflict |
| `HardlineRuns` | the core protocol: runners, lock, journals, host; one action for each remote command or local save of apply and rollback |
| `HardlineRunsProps` | its type invariant, safety, action and liveness properties, and the mapping to `JournalStack` |
| `JournalStack` | the abstract specification: stacks of successful runs, pushed, claimed and popped one run at a time |
| `MCRuns` | small instances for TLC (hosts, profiles), with five configurations |
| `HardlineRunsProofs`, `HardlineRecordProofs` | the proofs about the core, each building on the one before |
| `Path` | a file on a host and what install, rm, chmod, chown and chattr do to it |
| `FileMeta`, `Template` | the two plugins that write paths: the commands they run, what they capture, what their plans announce, what they call a conflict |
| `LineDiff` | the diff a plan shows of a text, against what a diff is |
| `Paths`, `MCPaths` | the life of one path under profiles of `Template` and `FileMeta` steps, command by command |
| `Ssh`, `MCSsh` | the ssh plugin and the sshd it configures: what is on disk, and what the daemon has read |
| `Service` | the service plugin behind the file its service reads |
| `AuditRules` | how audit rules are read, brought to a normal form and compared, and how auditctl prints them |
| `Audit`, `MCAudit` | the audit plugin and the kernel it loads rules into |
| `FirewallRules` | the normal form of firewall rulesets, their rendering, what is read back from nft, and the diff; and what a ruleset does to a packet |
| `Firewall`, `MCFirewall` | the firewall plugin and profiles that share a main config |
| `Packages`, `MCPackages` | the packages plugins and the package manager: plan, apply and rollback of one step |
| `PathsProofs`, `SshProofs`, `ServiceProofs`, `FirewallProofs`, `AuditProofs`, `PackagesProofs` | the proofs about the plugins |

### 2.1 The core protocol (`HardlineRuns`)

A runner `r` is one process on one machine, with a state directory of its own.
`pc[r]` says where its process is, `job[r]` which command it runs on which
profile with which flags, `mem[r]` is the journal in its memory and
`local[r][p]` the journal file it keeps for profile `p`. `remote[p][k]` is the
file of run `k` in `/var/lib/hardline/runs/<p>/`, `lock` the lock directory, and
`host[o]` the value of object `o`.

| Actions | Code |
| --- | --- |
| `StartApply`, `StartRollback`, `Signal` | `cmd/hardline/main.go` |
| `TakeLock`, `LockRefused`, `ReleaseLock`, `RemoveStaleLock` | `remote/lock.go`, and the deferred release in `apply.go` and `rollback.go` |
| `AdmitRefused`, `NewRun` | the checks of `Apply`, `NewJournal` and its first save |
| `NextStep`, `Interrupt` | the loop of `applyProfile`, `abortIfCancelled` |
| `CaptureBefore`, `RunStep`, `CaptureAfter` | `executeStep` |
| `StampFailed`, `Commit`, `Tidy`, `Fallback` | the end of `Apply` |
| `UndoPreflight` | the preflight of `RollbackSteps` |
| `RevertObject`, `SettleObject`, `RevertDone` | `executeRollbackSteps`, `rollbackStepWithMode`, and the two commands of a restoration |
| `LoadJournal`, `LoadRefused`, `Preflight`, `PreflightRefused`, `Claim`, `Consume` | `rollbackCommand` |
| `Crash`, `Edit` | a killed runner; somebody else |

The value of an object is a pair `[body, meta]`, since every plugin writes an
object with more than one command: a file's content and mode are installed, and
then it is given its owner; a unit is enabled and then started. A step's plugin
is abstracted to the values it wants its objects to have (`AfterPlugin`) and to
the prefix of them it gets through when it fails, halfway through an object
included. What a fault may do is stated in each action's second disjunct: a
failed remote command takes effect or does not, and a failed local save (a
rename) does not. A remote journal write is modelled as all or nothing: its
checksum makes a torn file unreadable, and the host itself never loses power.

`born`, `origin`, `writer`, `late` and `tainted` are history variables: `writer[o]`
is the run, or the outsider, that gave an object its value, `late[r]` what others
edited since the rollback of `r` passed its conflict check. No
guard reads them but `FreshRun`, which picks the run's id: with `ClocksAgree`,
the next number, otherwise any unused one, as two runners' clocks may have it.
`tainted` marks hosts that no longer follow their journals for a reason the code
reports or accepts (an edit, a forced rollback, a failed automatic rollback, a
degraded one, a crash in the middle of an apply, a lost commit, a run started
over a half-finished rollback); `JournalsChain` is about the others.


### 2.2 The plugins

`HardlineRuns` knows a plugin by the values its step wants. The plugin modules
look into one plugin each, with one action for each remote command that
changes the host or decides what the step does next, and with what the command
works on: the kernel's rules, sshd, systemd, a file's attributes. They include
as much of the engine as the plugin needs to be rolled back: the capture before
and after the step, the skipping of a step whose captures agree, the conflict
check, the rollback of a failed step and of a finished one, and a runner that
dies and is started over. They share four conventions:

- `pc` is the command that comes next; "failed" is a step that returned an
  error, "done" (or "applied") one that went well, "stuck" a rollback that
  failed, "undone" (or "restored") one that went well.
- A command that fails does so with or without effect (`Fault("command")`).
- A *probe* is a command of which only the exit status or the output is looked
  at, so that its failure is taken for an answer; `Fault("probe")` is that.
- `disturbed` (`unread` and `behind` in `Ssh`, `misled` in `Paths`) is a history variable: somebody else changed
  the host, or a run was abandoned half-way, so that a promise about the host
  no longer follows from the run alone. No guard reads it.

| Module | State and the code it stands for | Left out |
| --- | --- | --- |
| `Paths` with `FileMeta` and `Template` | `file` is the path's content, mode, owner and attributes, or `Gone`; `profile` the steps for it, `i` the step under way, `journal` what was captured before and after each. `cmds` is the list of commands that `Apply`, `restoreFileMeta` or `RestoreFileSnapshot` still has to run (`ApplyCommands`, `RestoreCommands` of either plugin); `Command` runs the next. The kernel refuses chmod, chown and a new file where a path is locked, and chown clears the set-user-ID bit (`Path`) | symbolic links, the directories above the path |
| `Ssh` | `disk` is what sshd would read, `daemon` what it has read. `Look` to `Verify` are `Apply` with its `install` and `activate`; `PutBack` to `ReloadBack` are both the plugin's `restorePrevious` and the engine's `Restore` (`undoing`). A policy gives keywords values, and sshd keeps the first it reads | the table of keywords, the parser of `sshd -T`, Plan |
| `Service` | `unit` is its kind, its enablement on disk and at runtime, whether it runs and which version of the file it has read. `FileStep` is the step before it, `Capture` to `Recapture` are `executeStep` around `Apply`, `UndoFile` to `UndoActivity` the rollback with its held-back unit; `WillChange` is `Plan` | more than one dependency, unit names |
| `Audit` with `AuditRules` | `file` and `others` are what the rules files say, `kernel` the rules it runs, in a form of its own (`KernelRule`), which auditctl prints in one of two styles (`Printed`). `locked` and `there` decide whether a load takes. `Admit` is what `Apply` refuses, `LoadRules` is `augenrules --load`, `Verify` the comparison of normal forms (`MissingRules`). A rule is the sequence of its options; `ParseRuleTokens` and `FoldWatchFields` bring it to its normal form | splitting a line into words; rules of more paths than one; which fields and actions a rule may name is a handful |
| `Firewall` with `FirewallRules` | `main` is the main config (whether it flushes, what it includes), `file[p]` a profile's managed file, `kernel` the tables, each a sequence of the texts that were loaded into it, and whether there are rules from elsewhere. `Start` to `Recapture` are a run, `UndoMain` to `Reload` a rollback; `journal[p]` the runs on record. The read-back compares `NormalizeCurrentState` of what nft lists with `NormalizeDesiredSpec` of the profile (`Drifts`) | IP addresses of more than `Width` bits, and how they are written |
| `Packages` | `host` is the version of each package and which came automatically, always closed under dependencies; `index` the version on offer, `ran` the state files of modes like `if_7d_since_last` (`"since"`). `Update` to `Autoremove` are `apply`, each removal behind the preview that guards it; `RestoreObject` takes the names backwards (`RestoreAbsent`, `RemoveObject`, `RestorePresent`), and `degraded` holds those a tolerant rollback gives up; `PlannedInstalls`, `PlannedRemovals`, `PlannedUpgrades` and `WillChange` are `RenderPlan` | names and parsing of output; how dependencies are resolved |

Three modules are pure functions, checked against a definition of what they are
for rather than against themselves. `LineDiff` is the dynamic programme behind a
plan's preview (`diffTemplateLines`, which the firewall plugin repeats):
`DiffShowsEdits` asks that the lines kept and removed are the one text and the
lines kept and added the other, that no longer part could have been kept, and
that what the preview leaves out is counted. `FirewallRules` says what a table
does to a packet (`Verdict`, first match first); `ReadBackTells` asks that two
rulesets which the read-back takes for the same treat every packet the same, for
every pair of a large sample. `AuditRules` has the kernel's rule, which is
independent of any spelling (`KernelRule`); `DoneMeansLoaded` asks that the
comparison of normal forms agrees with it.


## 3. What the runs check

| Run | Module, configuration | Instance | What it shows |
| --- | --- | --- | --- |
| `faults` | `MCRuns_faults` | 2 runners, 1 profile of a step with 2 files and one with a file, 2 run ids, 2 faults of any kind but edits, signals, `--keep-local-rollback` | types, mutual exclusion, claim before revert, write-ahead (`ChangesRecorded`), only complete journals on the host, a run or rollback that reports success restored the host, no rollback finds a conflict with its own work, and the refinement of `JournalStack` |
| `chains` | `MCRuns_chains` | 1 runner, 2 profiles that write the same file, one of them with a best-effort package and a service restarted on change; 3 run ids, 2 faults, signals | the journals on the host chain from its first state to its present one; a rollback restores what its run found; services are reverted last |
| `liveness` | `MCRuns_liveness` | 1 fair runner, a profile of 2 files of which one is not root's, `--local-journal` and `--force-rollback`, others edit the files; 2 faults | without `--force-rollback`, no restoration still to be made, of a first or a resumed rollback, is of what others wrote before the conflict check; every command ends, and with the lock given up; an interrupted run ends undone |
| `paths` | `MCPaths` | every stamp, two templates and profiles of two or three steps, on every file with 2 contents, 4 modes, 2 owners and the two attributes, or on none; 2 faults, probes that lie, a path that vanishes; 29 texts for the diff | a run that succeeded left exactly what its steps ask for; an undone one the path it found, locks and special mode included; the kernel refuses no restoration; where a plan calls every step unchanged no command runs; the plan's diff is one |
| `ssh` | `MCSsh` | 4 policies, 4 kinds of host; 3 faults, others edit and reload | what ends well is served by the daemon; key authentication is never turned off by a reload; undone means undone in the daemon |
| `service` | `MCService` | every config, units of 5 kinds, files of which one stops the service from starting; 2 faults, others toggle the unit | a run that ended well left the unit as asked and running the file on disk; nothing is done that a plan does not announce; an undone run left unit and file as before |
| `audit` | `MCAudit` | 4 declarations of one or two rules in different spellings, one of them unreadable, 3 sets of other rules, both ways of printing a watch; 2 faults, others lock the policy, delete a rule or the path | what ended well is in the file and the kernel, and no load that worked is called failed; others' rules stay; an undone run leaves no rule without a file; a run that a plan calls unchanged loads nothing |
| `firewall` | `MCFirewall` | 2 profiles with a table each, 4 kinds of main config, 4 rulesets: one, the same reordered, the same reworded, one refused; 1 fault, 2 runs on record for each; 91 rulesets for the read-back, some with ports the caller opens, compared pair by pair on every packet of a sample | the kernel holds what the files say; an applied profile stays in force, alone in its table; an undone run left files and table as it found them; a run that a plan calls unchanged changes none of them; profiles do not make each other fail; the read-back tells rulesets apart that differ in effect |
| `packages` | `MCPackages` | 3 packages of which two need the one whose name comes between theirs, 2 versions, apt and dnf, 3 choices of modes, every install, purge and also-removes list; 1 fault of any kind, others install and remove | nothing is removed that the step does not declare; without a fault nothing is added, taken or upgraded that the plan does not announce, but for what `purge_also_removes` allows an announced autoremove, what an announced update brings to an announced upgrade, and what apt upgrades of its install list; an undone run left nothing it installed, and gave back what it took |
| `resume`, `autoedits`, `overlap` | `MCRuns_resume`, `MCRuns_autoedits`, `MCPaths_overlap` | small | violations: what the documentation says and the code does not do (section 6) |

Bounds. In the core, `RunIds` bounds how many runs start and `MaxFaults` how
many faults happen; nothing else is bounded, and in between operators start
commands as they like. Two runs are what a rollback target and a newer run need;
three are needed for two profiles in either order over one file (`chains`). Two
faults are what it takes to break a recovery: one that starts it and one in the
middle of it; `ssh` has three because a step, its own restoration and the
engine's may each fail. Two runners are what a race for the lock needs. Two
objects show both orders of completed and pending work, in one step and across
two (`faults`).

In the plugin modules the sets are as small as the code's comparisons allow: two
contents, two owners, two keywords give an equal and an unequal pair, and a
third value is there where one must be refused. In `paths`, two permissions and
the set-user-ID bit show a mode that chown changes and one that it does not; one
to three steps on one path show a step that undoes what another relies on. The
texts of the diff have up to three lines, one more than the preview shows, and
one text has four, which is more than `MaxLines` compares; the code's own limits
(`templateDiffMaxLines`, `templateDiffPreviewLimit`) are larger numbers for the
same comparisons. `Firewall` bounds the number of successful runs on record
(`MaxRuns`); two let a profile be applied over itself and over another, and both
be taken back in any order. Its addresses have two bits, which makes every
prefix length a case (all, half, one host, or no prefix); rules are compared in
ordered pairs, since every comparison of the read-back is of two rules of one
chain. In `audit`, the rules of a declaration are the spellings that
`docs/profiles/audit-plugin.md` lists, two of them with the same path and key,
so that taking one for the other would show. In `packages`, three packages let
two depend on one, so that a purge has collateral, an autoremove has something
to take, and a rollback meets a dependency before and after what needs it
(packages are taken in the order of their names); two versions let an upgrade
and a pinned downgrade happen. `service` leaves failing probes out
(`FaultKinds`), because of what they show (section 6).

TLC checks deadlock in all runs but `firewall`: there the tool is idle when both
profiles have `MaxRuns` runs on record and a conflict keeps them from being
taken back, which is a place where the program may stop.

The runs `faults` and `resume` differ by the owner of the file: in `faults` every
file is root's before the run, so that a restoration interrupted between
`install` and `chown` leaves what it should; `resume` shows what happens
otherwise. `liveness` has the other owner, too.

Types. `TypeOK` of the core is checked and proved. The plugin modules do not state
theirs as a property; where a proof needs one, it is a part of the proof's
invariant (`Typed`) and proved with it.

Fairness. `FairSpec` asks only that a runner that is not killed goes on
(`WF_vars(Progress(r))`): the program is sequential, and every remote command it
waits for is cut off by a timer (`remote/exec.go`). No fairness is asked of
operators, faults or signals. `Crash` makes `pc` idle as well, and leaves the lock behind.
So `CommandsEnd` asks two things: every command ends, killed or not; and one that
holds the lock ends with the lock given up, if nothing fails from then on, the
rmdir or the runner included. A second signal is such a failure.


## 4. What is proved

The core, for any profiles, steps, objects, runners, flags, fault kinds, number
of faults and (finite) set of run ids, from the assumptions `RulesAssumption`,
`RunsAssumption` and `NoJournalAssumption`, the ones marked * from the
hypotheses of section 4.2 besides; the plugins, for any values of their
constants that satisfy the assumption of their module, any number of runs and of
faults, the ones marked † from the hypotheses of section 4.3:

| Theorem | Module | It establishes |
| --- | --- | --- |
| `TypeCorrect` | `HardlineRunsProofs` | `TypeOK`, and that every journal fits its profile |
| `OneCommandAtATime` | `HardlineRunsProofs` | `MutualExclusion` |
| `RollbacksAreClaimed` | `HardlineRunsProofs` | `ClaimedWhileReverting` |
| `StoredRunsAreComplete` | `HardlineRunsProofs` | `StoredJournalsComplete` |
| `EditsAreSpared` | `HardlineRunsProofs` | `ManualRollbackSparesEdits`: of every restoration an unforced rollback makes, not of its check alone |
| `ImplementsJournalStack` | `HardlineRunsProofs` | `JournalsAreStacked`: the protocol refines `JournalStack` |
| `UndoneApplies` * | `HardlineRunsProofs` | `UndoneMeansRestored` |
| `RevertedRollbacks` * | `HardlineRunsProofs` | `RevertedMeansRestored` |
| `FilesBeforeServices` * | `HardlineRunsProofs` | `ServicesRevertedLast` |
| `UndosBegin` * | `HardlineRunsProofs` | `UndoAccepted` |
| `ChangesAreRecorded` * | `HardlineRecordProofs` | `ChangesRecorded`, the write-ahead promise |
| `JournalsLeadBack` * | `HardlineRecordProofs` | `JournalsChain`: each object's journals lead from its value before hardline to the present one |
| `ResumesBegin` *, `NoFileStopsAResume` * | `HardlineRecordProofs` | `ResumeAccepted`, for files; and that of any profile no file stops a rollback that resumes |
| `KeyAuthSurvivesRuns`, `DoneIsServed`, `UndoneIsBefore` | `SshProofs` | `KeyAuthKept`, `DoneMeansServed`, `UndoneMeansBefore` of `Ssh` |
| `DoneIsDesired`, `DoneIsServed`, `PlansForesee`, `UndoneIsBefore` | `ServiceProofs` | `DoneMeansDesired`, `DoneMeansServed`, `PlanForesees`, `UndoneMeansBefore` of `Service`, as long as no probe lies |
| `KernelKeepsToFiles` | `FirewallProofs` | `KernelMatchesFiles` |
| `AppliedStay` †, `UndoneIsBefore` †, `OnlyRefusedFail` † | `FirewallProofs` | `AppliedProfilesStay`, `UndoneMeansBefore`, `FailsOnlyRefused`: profiles that share a main config keep out of each other's way |
| `PlansForesee` †, `PlansForeseeApart` † | `FirewallProofs` | `PlanForesees`, as long as no grep fails unnoticed, or for profiles with tables of their own |
| `ReadBacksTell` | `FirewallProofs` | `ReadBackTells`, for any rulesets hardline accepts and any packets |
| `OthersStay`, `UndoneRunsLeaveNothing`, `PlansForesee` | `AuditProofs` | `OthersRulesKept`, `UndoneMeansUnloaded`, `PlanForesees` |
| `TakesOnlyDeclared`, `DoneIsDesired`, `PlansForesee`, `UndoneIsBefore` | `PackagesProofs` | `CollateralDeclared`, `DoneMeansDesired`, `PlanForesees`, `UndoneMeansBefore` of `Packages`, whatever depends on what |
| `DonePathIsDesired`, `UndonePathIsBefore`, `LocksAreLifted`, `PlanOfPathForesees` | `PathsProofs` | `DoneMeansDesired`, `UndoneMeansBefore`, `UndoSucceeds`, `PlanForesees` of `Paths`, for profiles of any length |
| `EveryDiffIsFaithful`, `DiffsAreFaithful` | `PathsProofs` | `DiffShowsEdits`, for any two texts and of any length: a diff leads from the one to the other and keeps as many lines as it can |
| `DoneIsLoaded` † | `AuditProofs` | `DoneMeansLoaded`, for rules that auditctl's spellings tell apart |

### 4.1 The protocol

The type invariant is not inductive by itself:
`CaptureAfter` writes into the last record of the journal and `RevertObject`
indexes its records by what is left to do, so `TypeInv` adds that every journal
in memory or on a disk *fits* its profile (records of its first steps, capturing
exactly the objects of those) and that the journal is there where the process
needs it. Mutual exclusion follows from `LockInv`, that a runner inside a
command finds the lock directory there; taking the lock needs it absent,
`RemoveStaleLock` needs nobody inside. The journal properties need `JournalInv`,
which says what the journal looks like at each point of a command: in an apply,
how many steps are recorded and that all but the last are completed (so that
`Commit` stores a complete one); that the run under way is not yet on the host;
and in a rollback, that the journal in memory is still the one stored. It holds
because only one runner is inside a command. That edits are spared needs
`SpareInv` besides: a journal that says `success` or `rolling_back` has every
capture, also the copies that runners keep, so the conflict check of a rollback
has something to compare every object with. `RiskInv` carries what the check
found from there to every restoration: of what is left to restore, only objects
that were edited since (`late`) can hold what others wrote and neither capture
of their step does. A half-finished restoration does not disturb that, since
`Overwritten` says that what others wrote is gone with its first command. The refinement maps the runs on
the host to the stacks, those marked `rolling_back` to the claimed ones, and
the apply under way to the active run; each action is a step of the abstract
stack or leaves it alone, given that invariant, and the top of a stack exists
because a finite set of run ids has a greatest one (`FiniteSetHasMax`).

### 4.2 What the host holds

The theorems marked * relate the journals to the host itself. Their hypotheses,
definitions in `HardlineRunsProofs` (the last five in `HardlineRecordProofs`):

| Hypothesis | Why the code justifies it |
| --- | --- |
| `NoEdits`: nobody edits the host behind hardline's back | what an edit under way leaves is captured as if the run had found it, and no journal can tell the two apart. What happens to edits between runs is the subject of `EditsAreSpared`, which does not assume it |
| `NoopsManageNothing`: a step without a rollback has no objects | `"noop"` is a value the registry accepts (`registry.go:16`) and the engine skips (`rollback.go:319`, `445`, `apply.go:308`); no plugin declares it |
| `ServicesApart`: a step that captures a unit captures nothing else | `service/execution.go:259` captures the unit alone |
| `Plain(InitHost)`: a file that is not there has no owner of its own | there is nothing to own |
| `StepsApart`: the steps of a profile manage different objects | where two write the same file the automatic rollback does refuse what the run itself did: run `overlap`, section 6 |
| `ClocksAgree` (a constant of the model): runs are numbered in the order they begin | run ids are the runner's clock; where clocks disagree `JournalsChain` is false, section 6 |
| `FromHostOnly`: no rollback with `--local-journal` | such a rollback leaves the host's own copy of the journal where it is (section 6) |
| `TwoProfilesEach`: an object is of at most two profiles | with three, `JournalsChain` is false, section 6. The documentation asks for one profile for each file (`docs/users/failure-and-recovery.md:122`) |
| `RootsFiles`: a file is root's before hardline | hardline writes every file as root and gives it its owner in a second command; a rollback that dies between the two leaves a file that is neither as the run left it nor as it found it, and is refused: run `resume`, section 6 |
| `OwnedOnce`: an object is of one step of one profile | the documentation asks for one profile for each file, and for steps that do not overlap |
| `FilesOnly`: no step manages a service | none: a service whose enablement is restored and whose activity is not (`service/execution.go:420` to `440`) is neither as the run left it nor as it found it, and stops the rollback that resumes: section 6 |

`UndosBegin` needs `NoEdits` and `StepsApart` only, `JournalsLeadBack` the first
eight, `NoFileStopsAResume` `NoEdits`, `ClocksAgree`, `FromHostOnly`,
`RootsFiles` and `OwnedOnce`, `ResumesBegin` `FilesOnly` besides, the others the
first four. The instances of the runs `faults` and `chains` satisfy the first
eight; so the theorems are not about nothing, and TLC checked the invariants
below on those instances before they were proved (`ChainInv` on 1 473 171 states
of `chains`).

- `HostInv`. Every journal, in memory or on a disk, is *honest*: the first step
  of it that changed an object starts from what the run found (`origin`). In an
  apply, every object that differs from what the run found is managed by a step
  that the journal counts as changing, which a step whose `after` is not
  captured yet always is (`StepActuallyChanged`): that rule is what makes an
  interrupted step come back. In a rollback, what is still to be restored is
  closed under "comes after" (`Behind`) and, as long as nothing was lost, every
  object with nothing left to do is as found (`RestoredSoFar`). The crux is
  `LastRestoration`: the restoration of an object that comes last is the one of
  the first step that changed it. Services are restored after all files, so the
  order of restorations is not the order of the steps backwards, and here
  `ServicesApart` is needed. `HalfRestored` covers a file the content of which
  is back and the owner is not.
- `LeftInv`, for `UndosBegin`: the host is as the captured steps left it, but
  for the step under way, whose comparison `ConflictsAt` leaves out.
- `RecordInv`. `writer` says which run an object's value is of. The latest run
  is covered by a stored journal (`LatestRecorded`), and a stored journal that a
  rollback would accept explains all that its run wrote (`AcceptedTell`). For an
  apply this follows its place in `executeStep`: before the step runs, the disk
  has the very record that memory has (`AtStep`); no journal of the run that a
  rollback would accept exists before the run is complete (`NotAccepted`); and
  the local journal goes only when the host has its own (`"tidy"`). For a
  rollback, everything that still is of its run has a restoration to come
  (`StillToDo`), so that a journal is deleted only when nothing of its run is
  left. `Latest` is preserved because run ids are counted (`BirthsInv`): a run
  that begins is later than every other one.
- `ChainInv`. `Chain(L, at, first, last)` says of a set of links, one for each
  stored run that changed the object, that there is a way through all of them,
  in the order of the runs, from `first` to `last`. `Stacked` says what holds of
  these chains at every moment, until the host is tainted: they lead to the host
  while nothing applies and nothing is half reverted (`LeadsToHost`); to what
  the run under way found while one applies (`LedToRun`); and, without the run
  that is half reverted, to what will be when it is back (`LeadsBack`).
  `ClaimsTheTop` is the crux: a rollback whose preflight found no conflict works
  on the run that is the last link of every object it changed. Suppose there
  were later links on such an object. The run is its profile's newest, so they
  are all of one other profile, and each of them brought the object from a value
  that profile does not want to one that it wants (`WantInv`); so the first of
  them began outside the set of wanted values and the last ended in it, and the
  host cannot hold what the run left (`NotTheTop`). That they are of one profile
  is where `TwoProfilesEach` is needed. The rest of the invariant is
  bookkeeping: a run is of one profile and numbered as it began (`RunsInv`), a
  rollback that lost something taints the host (`LossInv`) and has the journal
  it loaded (`ReadInv`). Commits add a link (`ChainGrows`) and the end of a
  rollback takes one away (`ChainShrinks`).
- `KeepInv`, for `ResumesBegin`. A resumed rollback compares each object with
  what the journal holds of it from before and from after its step
  (`ConflictsAt`), and a file passes if it is either. `KeepInv` says that a file
  is at every moment one of two things, what it was before hardline or what its
  one step makes of it, and that these are what any journal captured of it
  (`Keeps`). A failed or killed `install` leaves the first, one that was not
  given its owner yet the second, because root's it is from the start. The
  subtle part is a journal that found the file already as the step leaves it:
  then *both* its captures are that, and the file must not go back to the first.
  It cannot, because any other journal that could take it there is of a later
  run of the same profile, and a later run found the file so, too (`Above`): no
  rollback skips the newest journal, so journals go in order.

### 4.3 The plugins

None of the properties proved is inductive: each speaks of a place where a run
has ended, and holds there because of what every place on the way owes. The
invariants say that, place by place, for histories without a disturbance.

- `DesiredInv` (`Paths`): after the first k steps the path is in `Left[k]`, what
  they may leave of it, unless somebody deleted it. Within a step, `Marking`
  follows file_meta's commands one by one: which of the wanted owner, mode and
  attributes are in place when the rest is left to run. That `Left`, a recursive
  function, has the values its definition says (`LeftFacts`) is itself proved,
  by the least number for which it would not.
- `Past` (`Paths`): unless a capture before a step was misled, there is a
  sequence `v` of files, v[k] being the path before step k, of which the journal
  holds the snapshots (`History`). It is quantified, not a variable, because a
  snapshot does not tell the file: a template's has no attributes, file_meta's no
  content. `Leads` says what a step can have changed that its snapshots do not
  show, which is nothing (a template replaces only a path without locks,
  file_meta keeps the content); so a step whose captures are equal left the file
  as it was. `UndoInv` then follows the rollback: what comes after step k is
  undone (`UndoneTo`), and within a step each command that is left finds what it
  needs (`Putting`, `Stamping`). That a restoration is never refused rests on the
  same: a template step that was applied found no locks, and the steps after it
  have taken theirs away again when its turn comes.
- `Idle` (`Paths`): where a plan calls every step unchanged, each step's captures
  are equal, so that neither the run nor its rollback has a command to run.
- `EveryDiffIsFaithful` (`LineDiff`) is about functions that recur over texts and
  over two sequences of lines at once. That such a function exists and is what
  its body says is proved once (`Recursion`, `FixpointTyped`): a function of `D`
  whose value at a point depends on points of lower rank only is the limit of
  the ones that are right below a rank, and the least rank at which there is none
  would have one. Then by induction over what is left of the two texts at a
  place: the edits from there on lead from the one rest to the other and keep
  exactly as many lines as the table says (`EditsLead`), and no pair of
  increasing choices of equal lines is longer (`MostKept`): where the next lines
  are equal, both choices can be taken to begin after them; where they are not,
  one of the two choices skips its next line.
- `ServedInv` (`Ssh`): wherever the daemon may differ from the disk, a reload is
  still to come, or the difference was there when the step began (`behind`); and both the configuration that was vetted and the one the
  drop-in would be put back to (`Old`) keep key authentication. So every reload,
  forwards or back, is of a configuration that does.
- `ServiceInv` (`Service`): `WhileGoing` follows what the run has established so
  far (the file written, then the enablement, then the activity, and that each
  command was announced by the plan), `WhileUndoing` what is still to be undone:
  that the captured word of `is-enabled` is one the commands of the rollback can
  reproduce on this unit (`Undoable`), and which versions of the file the
  service may be running. That `disable` undoes an `enable --runtime`, or
  `enable` an `indirect`, fails here. The theorems assume
  `"probe" \notin FaultKinds`: with a probe that lies they are false (section 6).
- `MatchInv` (`Firewall`): a load that flushes first makes the kernel what the
  files say, and every place from which a load follows has a main config that
  flushes; a rollback's reload flushes in any case.
- `TellInv` (`Firewall`), for `UndoneIsBefore`: a capture of a profile's table
  says what the captured main config and the captured file put there
  (`Telling`), because a run begins where the kernel holds what the files say;
  so to put those two back and to load them puts the table back as well,
  whatever the files of other profiles have become since.
- `StayInv` (`Firewall`), for `AppliedStay`: each run on record took its profile
  up where the one before it left it, and added no include but its own
  (`Linked`). A rollback puts back the *whole* main config, also the lines of
  others, and takes none of them away only because its conflict check finds the
  main config as this run left it; so whatever is included now was included
  then. `OnceInv` says that no file is included twice where no grep failed.
- `PresentInv` (`Firewall`), for `OnlyRefusedFail`: without a fault, every file
  that is included, or that the rollback of the run under way will include
  again, is there; so every load works, and the read-back sees a table with the
  profile's own text and no other, from which it does not drift
  (`NoSelfDrift`).
- `ForeseeInv` (`Firewall`): a run that finds its file and its include in place
  writes nothing, and loads what is loaded. Where a grep fails, the include is
  written twice; then `PlansForeseeApart` follows from `TellInv` and `StayInv`,
  because a table reads back the same wherever and however often the text is in
  it (`CurrentSame`).
- `ReadBacksTell` (`FirewallRules`) is about every pair of accepted rulesets. A
  sequence is described by what it *leads in* (`LeadsIn`): that it has x, before
  anything in S. Concatenation, selection and the removal of repetitions are
  each described by what they do to that (`FlatLeads`, `ThoseFacts`,
  `DistinctFacts`), and it determines a sequence without repetitions
  (`SameOrder`). A declared rule applies to a packet when one of its normal
  rules does (`RuleNormal`), a rendered one is hit by the same packets
  (`HitsMeets`), and hardline reads from nft's listing of it, addresses respelt,
  the normal rule it was rendered from (`RuleReadsBack`). So the kernel's
  verdict and what the ruleset says are both that of the first normal rule of
  the chain that the packet meets (`VerdictFirst`, `SaysFirst`); a table that
  holds a ruleset's text, alone or several times, reads back as its policies and
  its rules in their order (`CurrentFacts`), so that it never drifts from itself
  (`NoSelfDrift`); and where nothing drifts, each managed chain has the same
  rules in the same order (`NoDriftMeans`). A chain whose rules are as many and
  in another order is told by `reorderedChains` alone; rules as a set would not
  do.
- `KernelInv` (`Audit`): no file that a run may load, neither its own nor the
  captured one, clears or locks the policy, so a load that goes well leaves
  exactly what the files declare; the kernel runs more than that only between
  the write of a file and its load.
- `PlanInv` (`Audit`): until something is written the host is as captured, and
  whatever is written or loaded was announced by the plan.
- `LoadInv` (`Audit`), for `DoneIsLoaded`: every rule in the kernel is one that
  some file declares, so that the comparison of what auditctl lists with what is
  wanted (`Carries`) says what the kernel runs.
- `GuardInv` (`Packages`): where a removal is about to run, what it takes has
  been looked at, and still is what was looked at unless somebody was faster. A
  host stays closed under dependencies (`Sound`), so a package that comes back
  takes none away.
- `RunInv` and `PlanInv` (`Packages`): what a run has added its install list
  needs, what it has taken the step declares. Where the plan announced nothing,
  each operation that is left finds nothing to do (`IdleOps`); for the
  autoremove this is so because an installation can only make packages wanted
  that were automatic, never the other way round.
- `AheadInv` (`Packages`), for `PlansForesee`: what is gone or in another version
  was announced, and what is still to run as well. The plan previews the purge on
  the host as it is, and the purge runs after the installs: it takes none of what
  was there but what it would have taken before them, because an installation
  adds packages, automatic ones that only it needs among them, and makes others
  manual (`BrokenForeseen`, `PurgeForeseen`).
- `UndoInv` (`Packages`): of the names that the rollback has gone through, none
  is installed that was not, and none missing that was there; the ones it has
  still to go through were all declared. The crux is that a package that is
  given back brings along only packages that were there before, because the host
  that the step found was closed under dependencies (`PresentStep`), so that it
  brings back none of those already removed.

Their hypotheses, definitions in `FirewallProofs` and `Audit`:

| Hypothesis | Why the code justifies it |
| --- | --- |
| `TablesApart`: no two profiles manage one table | with one table the properties are false, and section 6 shows it: the promise that "profiles do not load each other's rules" (`docs/profiles/firewall-plugin.md:83`) holds for profiles with tables of their own |
| `NoLegacy`: no host includes the whole directory of managed files | `EnsureNftablesInclude` refuses such a host (`firewall/execution.go:676`), so no run goes well on one; that its failed runs leave it as it was is checked by the run `firewall`, in which such hosts occur |
| `"probe" \notin FaultKinds` (`PlansForesee` alone) | a grep that fails makes the run include its file once more, which no plan announces. Profiles with tables of their own need it not (`PlansForeseeApart`); for profiles that share one, the text that is in the table again may bring back its policy for a chain, and nothing is claimed |
| `SpellingsTold` (`DoneIsLoaded` alone): the comparison of a listed rule with a declared one tells the kernel's rules apart | TLC evaluates it for the rules of the run `audit` (`ToldApart`); section 6 lists rules for which it, and `DoneMeansLoaded` with it, is false |

### 4.4 What is model-checked only

Of the core, the two liveness properties: fairness is out of the prover's reach.
Of the firewall, what the theorems marked † leave to the run: hosts with a
legacy include. Profiles that manage one table are left out of both, but for
`KernelKeepsToFiles` and `PlansForesee`, which hold of them too.
The other way round, `DoneMeansDesired` of `Packages` is proved and in no
configuration; it holds on the instance of `MCPackages`.
`ResumeAccepted` is neither proved nor checked for profiles with services and
for files of other owners, where it is false (section 6).


## 5. What is not modelled, and why

- The remote client's sessions and the SSH handshake: their effect, a command
  that fails with or without having taken effect, is part of every action.
- A command that times out and lands *later*, after the runner went on: the
  model lets it land with the failure or never. A late landing would defeat any
  rollback; the code has no means to prevent it.
- The refusal of a rollback for a step whose plugin is not registered
  (`rollback.go:317`): every plugin is there. It ends as the refusals that are
  modelled (`PreflightRefused`), before anything is claimed.
- A grep of the firewall plugin that fails to find the flush line, and writes it
  twice: a second flush does nothing.
- Power loss of the host, and torn files.
- JSON, checksums, paths, quoting and formatting; logging and progress display.
- Signature checks, the planner's report, the schema generator and the profile
  tool: pure functions without state (component list in PROJECT.json).
- The text of rules, rulesets and policies: how a line is split into words, how
  an IP address is written, the table of sshd's keywords. The modules begin
  where the code has a structure.
- The planner around the plugins' plans (`plan.go`, `report.go`): it calls Plan
  step by step, keeps no state and prints.
- How a package manager resolves dependencies: `Packages` models what it does to
  a closed set of installed packages, not alternatives, conflicts or holds.
- A rollback resumed after another profile's run changed the same object in
  between, and back: `JournalsChain` excludes runs started over a half-reverted
  one (`tainted`), which the code allows.

## 6. Findings

Three disagreements between the documentation and the code, each shown by a run
that TLC ends with a counterexample (PROJECT.json quotes the lines):

1. `resume`: a rollback that stops between `install` and `chown` of a file that
   is not root's cannot be resumed without `--force-rollback`; the documentation
   says that it is resumed. The same holds of one that stops between the two
   commands for a service, `systemctl enable` or `disable` and `start` or `stop`
   (`ResumeAccepted` in the instance of `chains` with the profile `base` alone).
2. `autoedits`: the automatic rollback compares nothing for the step that
   failed, and overwrites what another wrote to its file.
3. `overlap`: a template step and a file_meta step for one path, which is how a
   file would be given another owner than root, make the run's own rollback a
   conflict: the capture after the first step is not what the second left. The
   documentation says that only somebody else's change is a conflict.

More of what the models show, with other constants or weaker exemptions than the
runs have. After each of these changes TLC finds the property violated:

| Change | Property | What the code does |
| --- | --- | --- |
| `MCRuns_faults`: two steps of one profile write the same file | `UndoAccepted` | the automatic rollback refuses its own run's work as somebody's edit (`docs/users/failure-and-recovery.md:58`) |
| `MCRuns_chains`: `ClocksAgree = FALSE` | `JournalsChain` | run ids are the runner's clock, so that "most recent" is whatever the clocks say, and a rollback takes back another run than the last (`docs/internals/rollback.md:117`) |
| `MCRuns_chains`: three profiles write one file, the first and the last the same (`Profiles = {base, site, third}`, `StepsOf <- FirstAndLastAlike`) | `JournalsChain` | the conflict check compares the host with what the run itself left (`rollback.go:430`), so the first run is rolled back from under the two later ones without force; their journals lead nowhere any more (`docs/users/failure-and-recovery.md:120` says that "on the default (non-forced) path the conflict check keeps the host consistent") |
| `MCPaths`: `UndoneMeansBefore` without `OrPlain` | `UndoneMeansBefore` | the restoration of file_meta runs chown after chmod, and chown clears the set-user-ID bit (`filemeta/execution.go:226`); `Apply` does the same where a step sets the owner and the mode (`DoneMeansDesired` without `OrPlain`) |
| `MCPaths`: `UndoneMeansBefore` without `misled` | `UndoneMeansBefore` | a `test -e` that fails is recorded as a path that is absent, and its step is not taken back (`filemeta/execution.go:312`) |
| `MCRuns_liveness`: `ManualRollbackSparesEdits` with `{}` for `late[r]` | that property | a rollback compares all steps with the host once, before the claim (`rollback.go:104`), and restores them one after the other without looking again: what is edited in between is overwritten without force (`docs/users/failure-and-recovery.md:13` says that the reverse walk "refuses to overwrite anything that has changed since") |
| `MCSsh`: `DoneMeansServed` without `~behind` | `DoneMeansServed` | a runner that died between the move of a drop-in and the reload leaves one that the next apply finds in place and reports as applied, and no daemon has read it: `sshd -T` reads the disk (`ssh/execution.go:173`; `docs/profiles/ssh-plugin.md:78` calls this "the exact failure this plugin exists to prevent") |
| `MCSsh`: `KeyAuthKept` without `~unread` | `KeyAuthKept` | `Restore` reloads what is on disk without the key-authentication guard (`ssh/execution.go:344`), also what a killed runner left |
| `MCService`: `"probe"` among the faults | `DoneMeansDesired`, `PlanForesees`, `UndoneMeansBefore` | an `is-enabled`, `is-active` or `cat` that fails is taken for a no (`service/execution.go:57`, `399`) |
| `MCAudit`: `PlanForesees` without `faults = 0` | `PlanForesees` | `auditctl -l` that fails prints nothing, which is taken for a kernel without rules: apply loads where plan saw nothing to do (`audit/execution.go:27`) |
| `MCAudit`: a rule that is not a watch, with `-F perm=` letters in another order than auditctl prints them, `-F dir=` where it prints `path=`, or a system call or letter named twice | `DoneMeansLoaded` | the load worked, and the step fails because the rule is not found among those listed (`audit/rules.go:205`; `docs/profiles/audit-plugin.md:48` says how spellings are matched) |
| `MCFirewall`: `TableOf <- OneTable` | `FailsOnlyRefused`, `AppliedProfilesStay`, `UndoneMeansBefore` | profiles that manage one table load each other's rules, and their read-back fails (`docs/profiles/firewall-plugin.md:83` says "profiles do not load each other's rules") |
| `MCPackages`: `UndoneMeansBefore`, a package is degraded only if another installed one needs it | that property | packages are removed in the reverse order of their names: one that is needed by another of the run is refused, and left there after the other is gone (`packages/backend.go:423`; `docs/internals/rollback.md:172` says that "package rollback removes packages that this run installed when they were absent before") |
| `MCPackages`: `PlanForesees` with `{}` for `AptInstalls` | `PlanForesees` | `apt-get install` upgrades an installed package of the install list (`packages/backend.go:255`), of which a plan says "currently installed (no install change)": it leaves the names of that list out of what the preview says (`docs/profiles/packages-plugin.md:92` says "Plan reports what the transaction would do") |
| `MCPackages`: `UndoneMeansBefore` without the exemption of what another target needs | `UndoneMeansBefore` | a package reinstalled as the dependency of another comes in the current version, and apt refuses the pinned downgrade (`packages/backend.go:443`) |
| `MCPackages`: `CollateralDeclared` without `disturbed # "raced"` | `CollateralDeclared` | preview and removal are two commands (`packages/backend.go:259`) |

Three more the models show in their exemptions. A plan does not look for the
flush line of a main config that includes the profile's file already, although a
run would write it (`docs/profiles/firewall-plugin.md:111` says that it is
reported at plan time); in the model no host begins so, since a file is included
by hardline only, which writes the flush line first. A kept local journal
(`--keep-local-rollback`) leaves a run that was rolled back from it the rollback
target on the host. And the rollback of a failed firewall step reloads the main
config even where the step had changed nothing, which flushes live rules that no
file declares (`firewall/execution.go:581`); `UndoneMeansBefore` of `Firewall`
leaves those rules (`live`) out.

## 7. Plan

In this order; the first four are done.

1. The core protocol, its abstract stack, and their proofs.
2. The plugins whose commands have an order that matters: `Ssh`, `Service`,
   `Audit`, `Firewall`, `Packages`, and `FileMeta` and `Template` on one path.
3. The pure rules of plugins, against a definition of what they are for:
   `AuditRules`, `FirewallRules`, `LineDiff`.
4. Proofs of the invariants of the plugins, and that the read-back of the
   firewall and the diff of a plan are right for any ruleset and any text.
5. The planner (`plan.go`) and the checks a profile passes before it reaches a
   host (`pkg/profile`, `internals/verify`): what they guarantee of the
   constants of the models (step ids, dependencies, overlapping objects).
