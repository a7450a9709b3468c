------------------------------- MODULE Audit -------------------------------
(***************************************************************************)
(* The audit plugin (internals/plugins/audit): it writes a rules file that *)
(* augenrules concatenates after everybody else's, loads the result into   *)
(* the kernel, and compares what the kernel runs with what was declared.   *)
(*                                                                         *)
(* The distribution's files clear the kernel's rules first, so a load      *)
(* leaves what the files say; a locked kernel takes the load and ignores   *)
(* it; a watch of a path that is not there fails the whole load.  Remote   *)
(* commands fail with or without effect, and auditctl's output is empty    *)
(* when it fails.  All watches are of one path.  Bound of the model:       *)
(* MaxFaults.                                                              *)
(***************************************************************************)
EXTENDS AuditRules

CONSTANTS
    Declarations,  \* the sets of rules that profiles declare,
    Foreign,       \* and those of the other files
    FaultKinds,    \* subset of {"command", "probe", "crash", "others"}
    MaxFaults

Contents == [rules : Declarations, clears : BOOLEAN, locks : BOOLEAN]
NoFile == [rules |-> {}, clears |-> FALSE, locks |-> FALSE]

ASSUME AuditAssumption == MaxFaults \in Nat /\ {} \notin Declarations

VARIABLES
    file,       \* hardline's rules file
    others,     \* what the other files declare
    kernel,     \* the rules the kernel runs
    style,      \* how auditctl prints a watch
    locked,     \* whether it takes no others until it reboots
    there,      \* whether the watched path exists
    pc, want,
    captured,   \* the capture before the step,
    after,      \* and the one after it, of which there may be none
    disturbed,  \* history: others changed something, or a run was abandoned
    faults

vars == <<file, others, kernel, style, locked, there, pc, want, captured, after, disturbed,
          faults>>
host == <<file, others, kernel, style, locked, there>>

-----------------------------------------------------------------------------
Fault(kind) == kind \in FaultKinds /\ faults < MaxFaults /\ faults' = faults + 1

KernelRules(rules) == {KernelRule(options) : options \in rules}

(* augenrules --load, and what it may leave when it fails.                 *)
Merged == KernelRules(IF file.clears THEN file.rules ELSE others \cup file.rules)
Loadable == there \/ \A rule \in Merged : rule.on = Unset

Load(good, bad) ==
    \/ /\ Loadable
       /\ kernel' = IF locked THEN kernel ELSE Merged
       /\ locked' = (locked \/ file.locks)
       /\ pc' = good /\ UNCHANGED faults
    \/ /\ Fault("command") \/ (~Loadable /\ UNCHANGED faults)
       /\ kernel' \in {kernel} \cup {k \in SUBSET Merged : ~locked}
       /\ locked' \in {locked, locked \/ file.locks}
       /\ pc' = bad

Write(content, good, bad) ==
    \/ file' = content /\ pc' = good /\ UNCHANGED faults
    \/ Fault("command") /\ file' \in {file, content} /\ pc' = bad

(* loadedRules, and what the capture records of them.                      *)
Listed == {Printed(rule, style) : rule \in kernel}
Snapshot == [file |-> file, kernel |-> CanonicalRules(Listed)]

Init ==
    /\ file \in {[NoFile EXCEPT !.rules = rules] : rules \in Declarations \cup {{}}}
    /\ others \in Foreign
    /\ kernel \in SUBSET KernelRules(others \cup file.rules)
    /\ style \in {"watch", "fields"}
    /\ locked = FALSE /\ there \in BOOLEAN
    /\ pc = "ready" /\ want = NoFile
    /\ captured = Snapshot /\ after = <<>>
    /\ disturbed = FALSE /\ faults = 0

-----------------------------------------------------------------------------
Capture ==
    /\ pc = "ready" /\ pc' = "admit"
    /\ captured' = Snapshot /\ after' = <<>>
    /\ want' \in Contents
    /\ UNCHANGED <<host, disturbed, faults>>

(* Mutant: the rules are taken as they are.                                *)
AnyRulesLoadable(c) == TRUE

AssertLoadableRules(c) == ~c.clears /\ ~c.locks

Readable(c) == \A options \in c.rules : ~RefusedRule(options)

(* assertWatchPathsExist.                                                  *)
Watchable(c) == WatchPaths(c.rules) = {} \/ there

(* Apply refuses rules that clear or lock the policy or that it cannot     *)
(* read, a locked policy, and a watch of a path that is not there.         *)
(* auditctl -s that fails shows no lock; test -e that fails shows no path. *)
Admit ==
    /\ pc = "admit"
    /\ \/ /\ UNCHANGED faults
          /\ pc' = IF /\ AssertLoadableRules(want) /\ Readable(want) /\ ~locked
                      /\ Watchable(want)
                   THEN "write" ELSE "failed"
       \/ /\ Fault("probe") /\ AssertLoadableRules(want) /\ Readable(want)
          /\ pc' \in {"failed"} \cup {p \in {"write"} : Watchable(want)}
    /\ UNCHANGED <<host, want, captured, after, disturbed>>

Carries(listed, c) == MissingRules(listed, c.rules) = {}

(* Mutant: a plan looks at the file only.                                  *)
WillRewrite(s, w) == s.file # w

(* Plan.                                                                   *)
WillChange(s, w) == s.file # w \/ ~(CanonicalRules(w.rules) \subseteq s.kernel)

(* A file that matches is left, and one that is loaded, too, ends the      *)
(* step.                                                                   *)
WriteFile ==
    /\ pc = "write"
    /\ \/ /\ file = want /\ UNCHANGED <<file, faults>>
          /\ pc' = IF Carries(Listed, want) THEN "recapture" ELSE "load"
       \/ file = want /\ Fault("probe") /\ pc' = "load" /\ UNCHANGED file
       \/ file # want /\ Write(want, "load", "failed")
    /\ UNCHANGED <<others, kernel, style, locked, there, want, captured, after, disturbed>>

(* load, and its check of the kernel.                                      *)
LoadRules ==
    /\ pc = "load"
    /\ Load("verify", "failed")
    /\ UNCHANGED <<file, others, style, there, want, captured, after, disturbed>>

(* Mutant: a load that worked is taken to have loaded the rules.           *)
VerifyNothing ==
    /\ pc = "verify" /\ pc' = "recapture"
    /\ UNCHANGED <<host, want, captured, after, disturbed, faults>>

Verify ==
    /\ pc = "verify"
    /\ \/ /\ pc' = IF Carries(Listed, want) THEN "recapture" ELSE "failed"
          /\ UNCHANGED faults
       \/ Fault("probe") /\ pc' = "failed"
    /\ UNCHANGED <<host, want, captured, after, disturbed>>

Recapture ==
    /\ pc = "recapture"
    /\ \/ pc' = "done" /\ after' = <<Snapshot>> /\ UNCHANGED faults
       \/ Fault("command") /\ pc' = "failed" /\ UNCHANGED after
    /\ UNCHANGED <<host, want, captured, disturbed>>

-----------------------------------------------------------------------------
(* The capture records what the kernel runs, so that a run that only       *)
(* loaded counts as a change (Capture).                                    *)
Changed == after # <<captured>>

Rollback ==
    /\ \/ pc = "failed"
       \/ pc = "done" /\ file = after[1].file
    /\ pc' = IF Changed THEN "undo file" ELSE "undone"
    /\ UNCHANGED <<host, want, captured, after, disturbed, faults>>

(* Mutant: a step that failed is taken to have written nothing.            *)
UndoFileDone ==
    /\ pc = "undo file"
    /\ Write(IF after = <<>> THEN file ELSE captured.file, "undo load", "stuck")
    /\ UNCHANGED <<others, kernel, style, locked, there, want, captured, after, disturbed>>

(* Restore: the file, and a load that nothing verifies.                    *)
UndoFile ==
    /\ pc = "undo file"
    /\ Write(captured.file, "undo load", "stuck")
    /\ UNCHANGED <<others, kernel, style, locked, there, want, captured, after, disturbed>>

UndoLoad ==
    /\ pc = "undo load"
    /\ Load("undone", "stuck")
    /\ UNCHANGED <<file, others, style, there, want, captured, after, disturbed>>

(* The next run, after this one ended, or gave up, or the runner died.     *)
StartOver ==
    /\ \/ pc \in {"done", "undone"} /\ UNCHANGED <<disturbed, faults>>
       \/ pc = "stuck" /\ disturbed' = TRUE /\ UNCHANGED faults
       \/ pc \notin {"ready", "done", "undone", "stuck"} /\ Fault("crash")
          /\ disturbed' = TRUE
    /\ pc' = "ready"
    /\ UNCHANGED <<host, want, captured, after>>

(* Somebody locks the policy, deletes a rule or the watched path.          *)
Others ==
    /\ Fault("others") /\ disturbed' = TRUE
    /\ \/ locked' = TRUE /\ UNCHANGED <<kernel, there>>
       \/ ~locked /\ kernel' \in {kernel \ {r} : r \in kernel} /\ UNCHANGED <<locked, there>>
       \/ there' = FALSE /\ UNCHANGED <<kernel, locked>>
    /\ UNCHANGED <<file, others, style, pc, want, captured, after>>

Next == \/ Capture \/ Admit \/ WriteFile \/ LoadRules \/ Verify \/ Recapture
        \/ Rollback \/ UndoFile \/ UndoLoad \/ StartOver \/ Others

Spec == Init /\ [][Next]_vars

-----------------------------------------------------------------------------
(* Of the rules on a host, hardline takes one that auditctl lists for a    *)
(* declared one if, and only if, the kernel makes the same rule of the     *)
(* two.  It is so of the spellings the documentation lists, and not of     *)
(* all that auditctl accepts.                                              *)
Declared == UNION Declarations
Known == Declared \cup UNION Foreign
Styles == {"watch", "fields"}

Takes(listed, options) ==
    ~RefusedRule(listed)
    /\ Canonical(ParseRuleTokens(listed)) = Canonical(ParseRuleTokens(options))

SpellingsTold ==
    \A o \in Declared, x \in Known, s \in Styles :
        ~RefusedRule(o) =>
            (Takes(Printed(KernelRule(x), s), o) <=> KernelRule(o) = KernelRule(x))

-----------------------------------------------------------------------------
(* A step that went well left the rules in the file, and the kernel runs   *)
(* every one of them whatever was locked, missing or unreadable on the way *)
(* and in whichever of the doc's spellings they are declared               *)
(* (SpellingsTold); and a load that worked is never taken for one that did *)
(* not (docs/profiles/audit-plugin.md:48).                                 *)
DoneMeansLoaded ==
    [][ LET runs == KernelRules(want.rules) \subseteq kernel IN
        /\ (pc' = "recapture" /\ pc # "recapture") => file' = want /\ runs
        /\ (pc = "verify" /\ pc' = "failed" /\ UNCHANGED faults) => ~runs ]_vars

(* No run takes others' rules out of the kernel, nor locks it for good:    *)
(* a load that goes well leaves every rule other files declare             *)
(* (AssertLoadableRules).                                                  *)
OthersRulesKept ==
    (pc \in {"verify", "undone"} /\ ~disturbed /\ Changed)
        => KernelRules(others) \subseteq kernel /\ ~locked

(* An undone run left no rule of its own behind: the file is back, and the *)
(* kernel runs no rule that no file declares (Restore).                    *)
UndoneMeansUnloaded ==
    (pc = "undone" /\ ~disturbed)
        => file = captured.file /\ kernel \subseteq Merged

(* A run that a plan of the same host calls unchanged loads nothing, not   *)
(* even what others declared and left unloaded.  It is about runs without  *)
(* any fault: an auditctl -l that fails shows no rules (Plan, Apply).      *)
PlanForesees ==
    (pc = "recapture" /\ faults = 0 /\ ~WillChange(captured, want)) => Snapshot = captured
=============================================================================
