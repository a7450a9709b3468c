---------------------------- MODULE JournalRules ----------------------------
(***************************************************************************)
(* The rules by which hardline reads a rollback journal: which steps of a  *)
(* run changed the host, which are to be reverted, in which order, and     *)
(* when the host no longer looks the way the journal left it.  They are    *)
(* pure functions of a journal's step records and of the profile the run   *)
(* applied (internals/rollback/rollback.go), shared by the modules that    *)
(* use them.                                                               *)
(*                                                                         *)
(* The state of an object is a pair, because every plugin writes an object *)
(* with more than one remote command: the body and the meta of a file      *)
(* (content and mode; owner and group), or the enablement and the activity *)
(* of a service.                                                           *)
(***************************************************************************)
EXTENDS Naturals, Sequences

CONSTANTS
    Profiles,    \* the signed profiles a runner may apply to the host
    Objects,     \* the files and services the profiles' steps manage
    Services,    \* those of them that are systemd units
    Bodies,      \* contents of a file (or enablements of a service)
    Metas,       \* owners of a file (or activities of a service)
    Absent,      \* the body of a file that does not exist
    Root,        \* the owner `install` gives a file
    Uncaptured,  \* the After of a step whose post-apply capture never happened
    StepsOf      \* StepsOf[p]: the steps of profile p, in action-file order

Value == [body : Bodies, meta : Metas]

Modes == {"deterministic", "best_effort", "irreversible", "noop"}

(* A step as the journal sees it: the objects its plugin captures (in      *)
(* capture order), the values Apply brings them to, the rollback mode of   *)
(* the capture, and the reload intent of a service step with its           *)
(* restart_deps (step positions).                                          *)
Step == [ objects : Seq(Objects), want : [Objects -> Value], mode : Modes,
          reload : {"none", "always", "on_change"}, deps : SUBSET Nat ]

ASSUME RulesAssumption ==
    /\ Services \subseteq Objects
    /\ Absent \in Bodies
    /\ Root \in Metas
    /\ Uncaptured \notin UNION {[S -> Value] : S \in SUBSET Objects}
    /\ \A p \in Profiles : /\ StepsOf[p] \in Seq(Step)
                           /\ Len(StepsOf[p]) > 0

ObjectsOf(p, i) == {StepsOf[p][i].objects[k] : k \in DOMAIN StepsOf[p][i].objects}

Capture(p, i) == [ObjectsOf(p, i) -> Value]

-----------------------------------------------------------------------------
(* Which steps a rollback reverts.  js is a journal's sequence of records  *)
(* [before |-> ..., after |-> ...], the i-th of which is of the i-th step. *)

(* Mutant: a step that failed before its second capture counts as having   *)
(* changed nothing.                                                        *)
UncapturedIsUnchanged(p, js, i) ==
    ObjectsOf(p, i) # {} /\ js[i].after # Uncaptured /\ js[i].before # js[i].after

StepActuallyChanged(p, js, i) ==
    /\ ObjectsOf(p, i) # {}
    /\ js[i].before # js[i].after

ServiceReloadTriggered(p, js, i) ==
    \/ StepsOf[p][i].reload = "always"
    \/ /\ StepsOf[p][i].reload = "on_change"
       /\ \E d \in StepsOf[p][i].deps \cap DOMAIN js : StepActuallyChanged(p, js, d)

StepApplies(p, js, i) ==
    StepActuallyChanged(p, js, i) \/ ServiceReloadTriggered(p, js, i)

HasServiceObjects(p, i) == ObjectsOf(p, i) \cap Services # {}

(* Mutant: the backward loop stops before the first step.                  *)
RevertItemsButFirst(p, js) ==
    { it \in UNION {{i} \X DOMAIN StepsOf[p][i].objects : i \in DOMAIN js \ {1}} :
        StepApplies(p, js, it[1]) /\ StepsOf[p][it[1]].mode # "noop" }

(* The restorations executeRollbackSteps performs: object k of step i, for *)
(* every object of every step that applies and is not a noop.              *)
RevertItems(p, js) ==
    { it \in UNION {{i} \X DOMAIN StepsOf[p][i].objects : i \in DOMAIN js} :
        /\ StepApplies(p, js, it[1])
        /\ StepsOf[p][it[1]].mode # "noop" }

(* Mutant: services are not held back.                                     *)
PlainlyBackwards(p, x, y) == x[1] > y[1] \/ (x[1] = y[1] /\ x[2] > y[2])

(* The order of those restorations: steps backwards, except that steps     *)
(* with a service are held back behind all the others, and the objects of  *)
(* a step backwards.                                                       *)
RevertedBefore(p, x, y) ==
    \/ ~HasServiceObjects(p, x[1]) /\ HasServiceObjects(p, y[1])
    \/ /\ HasServiceObjects(p, x[1]) = HasServiceObjects(p, y[1])
       /\ x[1] > y[1] \/ (x[1] = y[1] /\ x[2] > y[2])

IsNextToRevert(p, items, it) ==
    \A other \in items \ {it} : RevertedBefore(p, it, other)

ToleratesFailedRevert(mode) == mode \in {"best_effort", "irreversible"}

-----------------------------------------------------------------------------
(* Conflicts.  checkStepConflicts asks the plugin whether the host still   *)
(* holds what the step left in its After; on a resumed rollback an object  *)
(* already back at its Before is progress, not drift.  A step whose After  *)
(* was never captured has nothing to compare with.                         *)

(* Mutants: what a first attempt reverted counts as drift; a resumed       *)
(* rollback checks nothing; a step without an After is compared with its   *)
(* Before.                                                                 *)
ProgressIsDrift(p, js, i, now, resuming) ==
    {o \in ObjectsOf(p, i) : js[i].after # Uncaptured /\ now[o] # js[i].after[o]}
ResumedUnchecked(p, js, i, now, resuming) ==
    {o \in ObjectsOf(p, i) : js[i].after # Uncaptured /\ now[o] # js[i].after[o] /\ ~resuming}
FailedStepCompared(p, js, i, now, resuming) ==
    { o \in ObjectsOf(p, i) :
        now[o] # IF js[i].after = Uncaptured THEN js[i].before[o] ELSE js[i].after[o] }

ConflictsAt(p, js, i, now, resuming) ==
    { o \in ObjectsOf(p, i) :
        /\ js[i].after # Uncaptured
        /\ now[o] # js[i].after[o]
        /\ ~(resuming /\ now[o] = js[i].before[o]) }

(* Mutant: every rollback is forced.                                       *)
NeverConflicts(p, js, now, resuming) == {}

RollbackConflicts(p, js, now, resuming) ==
    UNION { ConflictsAt(p, js, i, now, resuming) :
              i \in {x \in DOMAIN js : StepApplies(p, js, x)} }

-----------------------------------------------------------------------------
(* What the plugins write.  A file is installed whole, by root, and then   *)
(* given its owner; a service is enabled and then started.                 *)

HalfWritten(o, current, target) ==
    [ body |-> target.body,
      meta |-> IF o \in Services THEN current.meta ELSE Root ]

(* Plugin.Apply of one object: a file whose body is already the wanted one *)
(* is left alone, any other is installed (and stays root's).               *)
Applied(o, current, want) ==
    IF o \in Services THEN want
    ELSE IF current.body = want.body THEN current
    ELSE HalfWritten(o, current, want)

(* A file that did not exist is restored by one rm; every other object in  *)
(* two commands.                                                           *)
RestoredInOne(o, target) == o \notin Services /\ target.body = Absent
=============================================================================
