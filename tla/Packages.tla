------------------------------ MODULE Packages ------------------------------
(***************************************************************************)
(* The packages plugins (internals/plugins/packages), for apt and dnf: one  *)
(* step that updates, upgrades, installs, purges and autoremoves, in this   *)
(* order, with its plan, its captures, and its rollback, one package at a   *)
(* time.                                                                    *)
(*                                                                          *)
(* The package manager is modelled by what it does to the set of installed  *)
(* packages, which is always closed under dependencies, also when a         *)
(* command fails midway.  Bounds of the model: two versions, MaxFaults.     *)
(***************************************************************************)
EXTENDS Naturals, Sequences

CONSTANTS
    Names,       \* the packages, in the order of their names
    Deps,        \* what each depends on
    Managers,    \* subset of {"apt", "dnf"}
    Modes,       \* of update, upgrade and autoremove: never, always, once, since
    FaultKinds,  \* subset of {"command", "probe", "locked", "crash", "edit"}
    MaxFaults,
    None

Pkgs == { Names[i] : i \in DOMAIN Names }
Ops == {"update", "upgrade", "autoremove"}
Hosts == [ver : [Pkgs -> 0..2], auto : SUBSET Pkgs]

(* decode and validate.                                                    *)
Specs ==
    { s \in [mode : Modes, install : SUBSET Pkgs, purge : SUBSET Pkgs,
             also : SUBSET Pkgs] :
        /\ s.install \cap (s.purge \cup s.also) = {} /\ s.purge \cap s.also = {}
        /\ s.also # {} => s.purge # {} \/ s.mode["autoremove"] # "never"
        /\ s.install \cup s.purge # {} \/ \E op \in Ops : s.mode[op] # "never" }

ASSUME PackagesAssumption ==
    /\ Names \in Seq(Pkgs) /\ Deps \in [Pkgs -> SUBSET Pkgs]
    /\ Modes \subseteq [Ops -> {"never", "always", "once", "since"}]
    /\ MaxFaults \in Nat
    /\ \A S \in SUBSET Pkgs : None \notin [S -> 0..2]

VARIABLES
    manager, spec,
    host,      \* the version of each package, 0 for none; the automatic ones
    index,     \* the version that the package index offers
    ran,       \* the operations whose state file is recent
    pc, would, \* whether a package had to change when the step began
    before, after,       \* the captures: a version for every name of the step
    todo, degraded,      \* how far the rollback is, and what it gave up
    planned,   \* what Plan says that the step changes: whether anything, what it
               \* adds, takes and upgrades, and whether it says that it upgrades
               \* from a refreshed index, and clears what nothing needs
    found,     \* history: the host that the step found
    disturbed, \* history: whether somebody else changed packages during the run,
               \* "raced" when it was between a preview and its command
    faults

step == <<manager, spec>>
vars == <<manager, spec, host, index, ran, pc, would, before, after, todo, degraded,
          planned, found, disturbed, faults>>

-----------------------------------------------------------------------------
(* The package manager.                                                    *)
Installed(h) == { p \in Pkgs : h.ver[p] # 0 }
Closed(S) == \A p \in S : Deps[p] \subseteq S

(* What comes with the packages in S; what goes with them; what none but    *)
(* automatic packages need.                                                *)
Needed(S) == { p \in Pkgs : \A C \in SUBSET Pkgs : (S \subseteq C /\ Closed(C)) => p \in C }
Broken(h, S) == { p \in Installed(h) :
                    \A C \in SUBSET (Installed(h) \ S) : Closed(C) => p \notin C }
Unused(h) == Installed(h) \ Needed(Installed(h) \ h.auto)

Without(h, S) == [ver |-> [p \in Pkgs |-> IF p \in S THEN 0 ELSE h.ver[p]],
                  auto |-> h.auto \ S]
Upgraded(h) == [h EXCEPT !.ver = [p \in Pkgs |-> IF @[p] = 0 THEN 0 ELSE index]]

(* Packages named to the command are no longer automatic; apt upgrades      *)
(* those that are there.                                                   *)
With(h, S) ==
    LET new == Needed(S) \ Installed(h) IN
    [ver |-> [p \in Pkgs |-> IF p \in new \/ (p \in S /\ manager = "apt")
                             THEN index ELSE h.ver[p]],
     auto |-> (h.auto \cup new) \ S]
WithPin(h, p, v) == [With(h, {p}) EXCEPT !.ver[p] = v]
PinWorks(p, v) == v <= index /\ (manager = "dnf" \/ host.ver[p] <= v)

(* What a purge takes: dnf collects what nothing needs any more.           *)
Purged(h, S) ==
    LET gone  == Broken(h, S)
        loose == Unused(Without(h, gone)) \ Unused(h)
        kept  == Needed(Installed(h) \ (gone \cup loose)) IN
    IF manager = "dnf" THEN gone \cup (loose \ kept) ELSE gone

(* A command that fails may have changed some packages.                    *)
Partly(h, g) ==
    { m \in { [ver  |-> [p \in Pkgs |-> IF p \in D THEN g.ver[p] ELSE h.ver[p]],
               auto |-> (g.auto \cap D) \cup (h.auto \ D)] : D \in SUBSET Pkgs } :
        Closed(Installed(m)) }

Fault(kind) == kind \in FaultKinds /\ faults < MaxFaults /\ faults' = faults + 1

Skip(next) == pc' = next /\ UNCHANGED <<host, faults>>
Run(g, next) ==
    \/ host' = g /\ pc' = next /\ UNCHANGED faults
    \/ Fault("command") /\ host' \in Partly(host, g) /\ pc' = "failed"

-----------------------------------------------------------------------------
Declared == spec.purge \cup spec.also
Targets == spec.install \cup Declared

(* Query, for every name of the step.                                      *)
Query == [p \in Targets |-> host.ver[p]]

(* WouldChange; the deciding half of ShouldRun and PlanOpDecision.         *)
WouldChange == ~(spec.install \subseteq Installed(host))
               \/ spec.purge \cap Installed(host) # {}

ShouldRun(op, change) ==
    CASE spec.mode[op] = "never"  -> FALSE
      [] spec.mode[op] = "always" -> TRUE
      [] spec.mode[op] = "once"   -> change
      [] spec.mode[op] = "since"  -> op \notin ran

(* RenderPlan, from the previews: what it says is installed,               *)
PlannedInstalls == Needed(spec.install) \ Installed(host)

(* Mutant: a plan does not look at what the autoremove would take.          *)
PlannedPurges == Purged(host, spec.purge)

(* and removed,                                                            *)
PlannedRemovals ==
    Purged(host, spec.purge)
      \cup IF ShouldRun("autoremove", WouldChange) THEN Unused(host) ELSE {}

(* and upgraded, going by the index there is,                              *)
PlannedUpgrades ==
    { p \in Installed(host) : ShouldRun("upgrade", WouldChange) /\ host.ver[p] # index }

(* and whether it says that there is something to do.                      *)
WillChange ==
    \/ ShouldRun("update", WouldChange)
    \/ PlannedUpgrades \cup PlannedInstalls \cup PlannedRemovals # {}

Init ==
    /\ manager \in Managers /\ spec \in Specs
    /\ host \in { h \in Hosts : /\ Closed(Installed(h)) /\ h.auto \subseteq Installed(h)
                                /\ \A p \in Pkgs : h.ver[p] < 2 }
    /\ index \in {1, 2} /\ ran = {}
    /\ pc = "ready" /\ would = FALSE /\ before = Query /\ after = None /\ todo = 0
    /\ degraded = {} /\ planned = None /\ found = host /\ disturbed = "no" /\ faults = 0

-----------------------------------------------------------------------------
(* The run.                                                                *)
Capture ==
    /\ pc = "ready" /\ pc' = "lock"
    /\ before' = Query /\ after' = None /\ degraded' = {}
    /\ planned' = [change |-> WillChange, adds |-> PlannedInstalls, takes |-> PlannedRemovals,
                   upgrades  |-> PlannedUpgrades,
                   refreshes |-> ShouldRun("update", WouldChange) /\ ShouldRun("upgrade", WouldChange),
                   clears    |-> ShouldRun("autoremove", WouldChange)]
    /\ found' = host /\ disturbed' = "no"
    /\ UNCHANGED <<step, host, index, ran, would, todo, faults>>

(* Another process may hold the package manager's lock.                    *)
CheckLock ==
    /\ pc = "lock"
    /\ would' = WouldChange
    /\ \/ pc' = "update" /\ UNCHANGED faults
       \/ pc' = "failed" /\ Fault("locked")
    /\ UNCHANGED <<step, host, index, ran, before, after, todo, degraded, planned, found,
                   disturbed>>

(* MarkRan.                                                                *)
Mark(op) == ran' = IF pc' # "failed" /\ spec.mode[op] = "since" THEN ran \cup {op} ELSE ran

Update ==
    /\ pc = "update"
    /\ IF ShouldRun("update", would)
       THEN Run(host, "upgrade") /\ Mark("update")
            /\ index' \in IF pc' = "failed" THEN {index, 2} ELSE {2}
       ELSE Skip("upgrade") /\ UNCHANGED <<ran, index>>
    /\ UNCHANGED <<step, would, before, after, todo, degraded, planned, found, disturbed>>

Upgrade ==
    /\ pc = "upgrade"
    /\ IF ShouldRun("upgrade", would)
       THEN Run(Upgraded(host), "install") /\ Mark("upgrade")
       ELSE Skip("install") /\ UNCHANGED ran
    /\ UNCHANGED <<step, index, would, before, after, todo, degraded, planned, found,
                   disturbed>>

Install ==
    /\ pc = "install"
    /\ IF spec.install # {} THEN Run(With(host, spec.install), "purge") ELSE Skip("purge")
    /\ UNCHANGED <<step, index, ran, would, before, after, todo, degraded, planned, found,
                   disturbed>>

(* GuardPurgeTransaction, and the guard of the autoremove.                 *)
Allowed(taken) == taken \subseteq Declared

PreviewPurge ==
    /\ pc = "purge"
    /\ \/ /\ pc' = IF spec.purge = {} THEN "autoremove"
                   ELSE IF Allowed(Purged(host, spec.purge)) THEN "purging" ELSE "failed"
          /\ UNCHANGED faults
       \/ spec.purge # {} /\ Fault("command") /\ pc' = "failed"
    /\ UNCHANGED <<step, host, index, ran, would, before, after, todo, degraded, planned,
                   found, disturbed>>

Purge ==
    /\ pc = "purging"
    /\ Run(Without(host, Purged(host, spec.purge)), "autoremove")
    /\ UNCHANGED <<step, index, ran, would, before, after, todo, degraded, planned, found,
                   disturbed>>

PreviewAutoremove ==
    /\ pc = "autoremove"
    /\ \/ /\ pc' = IF ~ShouldRun("autoremove", would) THEN "recapture"
                   ELSE IF Allowed(Unused(host)) THEN "autoremoving" ELSE "failed"
          /\ UNCHANGED faults
       \/ ShouldRun("autoremove", would) /\ Fault("command") /\ pc' = "failed"
    /\ UNCHANGED <<step, host, index, ran, would, before, after, todo, degraded, planned,
                   found, disturbed>>

Autoremove ==
    /\ pc = "autoremoving"
    /\ Run(Without(host, Unused(host)), "recapture") /\ Mark("autoremove")
    /\ UNCHANGED <<step, index, would, before, after, todo, degraded, planned, found,
                   disturbed>>

Recapture ==
    /\ pc = "recapture"
    /\ \/ pc' = "done" /\ after' = Query /\ UNCHANGED faults
       \/ Fault("command") /\ pc' = "failed" /\ UNCHANGED after
    /\ UNCHANGED <<step, host, index, ran, would, before, todo, degraded, planned, found,
                   disturbed>>

-----------------------------------------------------------------------------
(* The rollback.                                                           *)

(* capturedRollbackMode: whether the journal goes on when an object cannot  *)
(* be restored.                                                            *)
Tolerant ==
    \/ \E p \in spec.purge : before[p] # 0
    \/ spec.install # {}
    \/ \E op \in {"upgrade", "autoremove"} : spec.mode[op] # "never"

(* conflict: what the step left has changed.                               *)
Conflict == pc = "done" /\ before # after /\ Query # after

Rollback ==
    /\ pc \in {"done", "failed"} /\ ~Conflict
    /\ pc' = "undo"
    /\ todo' = IF before = after THEN 0 ELSE Len(Names)
    /\ UNCHANGED <<step, host, index, ran, would, before, after, degraded, planned, found,
                   disturbed, faults>>

Settled == todo' = todo - 1 /\ pc' = "undo" /\ UNCHANGED degraded
GiveUp(p) ==
    IF Tolerant THEN /\ degraded' = degraded \cup {p} /\ todo' = todo - 1 /\ pc' = "undo"
                ELSE pc' = "stuck" /\ UNCHANGED <<degraded, todo>>

(* Mutant: the removal is not previewed.                                   *)
RemoveUnseen(p) ==
    pc' = "removing" /\ UNCHANGED <<host, todo, degraded, faults>>

(* An installed package is removed when nothing else goes with it,         *)
RestoreAbsent(p) ==
    /\ \/ /\ Broken(host, {p}) \subseteq {p}
          /\ pc' = "removing" /\ UNCHANGED <<todo, degraded, faults>>
       \/ ~(Broken(host, {p}) \subseteq {p}) /\ GiveUp(p) /\ UNCHANGED faults
       \/ Fault("command") /\ GiveUp(p)
    /\ UNCHANGED host

(* Mutant: a package that is purged is installed as whatever there is.     *)
RestoreAny(p) == host' = With(host, {p}) /\ Settled /\ UNCHANGED faults

(* a purged one is installed in its old version, or else in any.           *)
RestorePresent(p) ==
    LET plain == With(host, {p}) IN
    \/ /\ host' = IF PinWorks(p, before[p]) THEN WithPin(host, p, before[p]) ELSE plain
       /\ Settled /\ UNCHANGED faults
    \/ Fault("command") /\ host' = plain /\ Settled
    \/ Fault("command") /\ host' \in Partly(host, plain) /\ GiveUp(p)

RestoreObject ==
    /\ pc = "undo" /\ todo > 0
    /\ LET p == Names[todo] IN
       CASE p \in spec.install /\ before[p] = 0 -> RestoreAbsent(p)
         [] p \in Declared /\ before[p] # 0     -> RestorePresent(p)
         [] OTHER                               -> Settled /\ UNCHANGED <<host, faults>>
    /\ UNCHANGED <<step, index, ran, would, before, after, planned, found, disturbed>>

RemoveObject ==
    /\ pc = "removing"
    /\ LET p == Names[todo]
           removed == Without(host, Broken(host, {p})) IN
       \/ host' = removed /\ Settled /\ UNCHANGED faults
       \/ Fault("command") /\ host' \in Partly(host, removed) /\ GiveUp(p)
    /\ UNCHANGED <<step, index, ran, would, before, after, planned, found, disturbed>>

Undone ==
    /\ pc = "undo" /\ todo = 0 /\ pc' = "undone"
    /\ UNCHANGED <<step, host, index, ran, would, before, after, todo, degraded, planned,
                   found, disturbed, faults>>

-----------------------------------------------------------------------------
(* The next run, after this one ended, or gave up, or the runner died.     *)
StartOver ==
    /\ \/ pc \in {"done", "undone", "stuck"} /\ UNCHANGED faults
       \/ pc \notin {"ready", "done", "undone", "stuck"} /\ Fault("crash")
    /\ pc' = "ready" /\ would' = FALSE /\ before' = Query /\ after' = None /\ todo' = 0
    /\ degraded' = {} /\ planned' = None /\ found' = host /\ disturbed' = "no"
    /\ UNCHANGED <<step, host, index, ran>>

(* The time since an operation ran passes; or its state file cannot be      *)
(* read, or has not been written, which counts as never.                   *)
Elapse ==
    /\ \E op \in ran : ran' = ran \ {op}
    /\ \/ pc = "ready" /\ UNCHANGED faults
       \/ Fault("probe")
    /\ UNCHANGED <<step, host, index, pc, would, before, after, todo, degraded, planned,
                   found, disturbed>>

(* Somebody else installs or removes a package.                            *)
Edit ==
    /\ Fault("edit")
    /\ disturbed' = IF pc \in {"purging", "autoremoving", "removing"} THEN "raced" ELSE "edited"
    /\ \E p \in Pkgs : host' \in {With(host, {p}), Without(host, Broken(host, {p}))} \ {host}
    /\ UNCHANGED <<step, index, ran, pc, would, before, after, todo, degraded, planned, found>>

Next == \/ Capture \/ CheckLock \/ Update \/ Upgrade \/ Install \/ PreviewPurge \/ Purge
        \/ PreviewAutoremove \/ Autoremove \/ Recapture
        \/ Rollback \/ RestoreObject \/ RemoveObject \/ Undone
        \/ StartOver \/ Elapse \/ Edit

Spec == Init /\ [][Next]_vars

-----------------------------------------------------------------------------
(* No command of a run takes a package that the step does not declare, and  *)
(* none of its rollback takes another than the one it is to remove, even    *)
(* when somebody else installed what depends on them; unless it was just    *)
(* between the preview and the command (GuardPurgeTransaction, the guards   *)
(* of the autoremove and of restore).                                      *)
CollateralDeclared ==
    [][ (<<pc, todo>>' # <<pc, todo>> /\ disturbed # "raced") =>
          Installed(host) \ Installed(host') \subseteq
            IF pc = "removing" THEN {Names[todo]} ELSE Declared ]_vars

(* An undone run, but for the objects it reports as degraded, left nothing  *)
(* installed that it had been asked to install, and brought back all that   *)
(* was there; a purged package in the version it had, unless another that   *)
(* needs it came back first (restore).                                     *)
UndoneMeansBefore ==
    (pc = "undone" /\ disturbed = "no") =>
        /\ \A p \in spec.install \ degraded : before[p] = 0 => host.ver[p] = 0
        /\ Installed(found) \subseteq Installed(host) \cup degraded
        /\ (after # None /\ faults = 0) =>
             \A p \in spec.purge :
               (\A q \in Targets \ {p} : p \notin Needed({q}))
                 => before[p] \in {0, host.ver[p]}

(* A run that went well left what it installs installed, and what it        *)
(* purges purged, whatever depends on what (the order of apply, and the     *)
(* guards of what else a purge or an autoremove takes).                    *)
DoneMeansDesired ==
    (pc = "done" /\ disturbed = "no") =>
        /\ spec.install \subseteq Installed(host)
        /\ spec.purge \cap Installed(host) = {}

(* A run without a fault installs only what its plan announces; it removes  *)
(* only that, and packages that purge_also_removes allows where the plan    *)
(* announces an autoremove; it upgrades only what the plan lists, or, where *)
(* the plan announces an update and an upgrade, what the update brings; and *)
(* with apt also what is on its install list; and when the plan calls the   *)
(* step unchanged, it changes nothing but these last ones.  (Previews are   *)
(* of the host before the run, and its commands change it: RenderPlan,      *)
(* apply.)  That apt upgrades its install list, no plan says: RenderPlan    *)
(* leaves the names of that list out of what the preview says.             *)
AptInstalls == IF manager = "apt" THEN spec.install ELSE {}

PlanForesees ==
    (pc \in {"done", "failed"} /\ disturbed = "no" /\ faults = 0) =>
        /\ Installed(host) \ Installed(found) \subseteq planned.adds
        /\ Installed(found) \ Installed(host) \subseteq
             planned.takes \cup IF planned.clears THEN spec.also ELSE {}
        /\ \A p \in (Installed(found) \cap Installed(host)) \ AptInstalls :
             host.ver[p] # found.ver[p] => p \in planned.upgrades \/ planned.refreshes
        /\ ~planned.change => \A p \in Pkgs \ AptInstalls : host.ver[p] = found.ver[p]

=============================================================================
