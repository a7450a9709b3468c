-------------------------------- MODULE MCRuns --------------------------------
(* Small instances of HardlineRuns for TLC: the objects, values and        *)
(* profiles its configurations choose from.                                *)
EXTENDS HardlineRunsProps

CONSTANTS
    conf, drop, unit, pkg,              \* two files, a service, a package
    old, new, newer, edited, none,      \* bodies
    root, admin, stopped, running,      \* owners and activities
    r1, r2, base, site                  \* runners and profiles

V(b, m) == [body |-> b, meta |-> m]

AllBodies == {old, new, newer, edited, none}
AllMetas == {root, admin, stopped, running}
TwoFiles == {conf, drop}
ThreeFiles == {conf, drop, pkg}
UnitAndPackage == {conf, unit, pkg}
Units == {unit}
NoUnits == {}

(* conf exists, drop does not, unit is disabled and stopped; the package   *)
(* is installed.                                                           *)
HostBefore ==
    [ o \in Objects |-> CASE o = drop -> V(none, root)
                          [] o = unit -> V(old, stopped)
                          [] OTHER -> V(old, root) ]

(* The same host, where conf belongs to somebody else than root.           *)
HostAdmin == [HostBefore EXCEPT ![conf].meta = admin]

ByOthers == {V(edited, admin), V(old, root)}

(* A step that brings every object it manages to body b, and a service up. *)
StepOf(objs, b, mode) ==
    [ objects |-> objs,
      want |-> [o \in Objects |-> V(b, IF o = unit THEN running ELSE root)],
      mode |-> mode, reload |-> "none", deps |-> {} ]

Plain(objs, b) == StepOf(objs, b, "deterministic")

OnChange(objs, b, deps) == [Plain(objs, b) EXCEPT !.reload = "on_change", !.deps = deps]

(* Two steps, each with a file of its own.                                 *)
TwoSteps == [p \in Profiles |-> << Plain(<<conf>>, new), Plain(<<drop>>, new) >>]

(* A step with two files, as the firewall plugin has, and one with a file. *)
PairAndOne == [p \in Profiles |-> << Plain(<<drop, conf>>, new), Plain(<<pkg>>, new) >>]

(* A file, a package whose revert may fail, and a service; and a second     *)
(* profile that writes the file, too.                                      *)
PackageAndOverlap ==
    [ p \in Profiles |->
        IF p = base THEN << Plain(<<conf>>, new), StepOf(<<pkg>>, new, "best_effort"),
                            OnChange(<<unit>>, new, {1}) >>
        ELSE << Plain(<<conf>>, newer) >> ]

(* Three profiles write the file, the second one something else: not an     *)
(* instance of a run, see section 6 of the README.                         *)
FirstAndLastAlike ==
    [p \in Profiles |-> << Plain(<<conf>>, IF p = site THEN newer ELSE new) >>]
=============================================================================
