------------------------------ MODULE Firewall ------------------------------
(***************************************************************************)
(* The firewall plugin (internals/plugins/firewall) and profiles that      *)
(* share a main config: a step renders the profile's ruleset into a file   *)
(* of its own, makes the main config flush the kernel and include that     *)
(* file, loads the main config, and reads the profile's table back.  Its   *)
(* rollback restores the main config, then the file, and loads again.      *)
(*                                                                         *)
(* One run at a time is under way (the mutation lock).  A table holds the  *)
(* texts that were loaded into it, in order; rules in the kernel that no   *)
(* file declares are one flag.  Bounds of the model: MaxFaults and         *)
(* MaxRuns, the successful runs on record for a profile.                   *)
(***************************************************************************)
EXTENDS FirewallRules

CONSTANTS
    Profiles,
    Rulesets,     \* the ones profiles declare, of those that are accepted
    Rejected,     \* those of them whose text nft refuses
    TableOf,      \* the table each profile manages
    Mains,        \* the main configs hosts come with
    FaultKinds,   \* subset of {"command", "probe", "crash", "delete"}
    MaxFaults, MaxRuns,
    Absent

Tables == {TableOf[p] : p \in Profiles}
NoMain == [exists |-> FALSE, flush |-> FALSE, legacy |-> FALSE, includes |-> <<>>]

ASSUME FirewallAssumption ==
    /\ Rejected \subseteq Rulesets /\ Rulesets \subseteq Accepted
    /\ Mains \subseteq { [exists |-> TRUE, flush |-> f, legacy |-> l, includes |-> <<>>] :
                           f, l \in BOOLEAN } \cup {NoMain}
    /\ \A s \in Rulesets : TextOf[s] # Absent
    /\ MaxFaults \in Nat /\ MaxRuns \in Nat

VARIABLES
    main,       \* the main config: whether it flushes, and what it includes
    file,       \* the managed file of each profile
    kernel,     \* the tables, and whether it has rules from elsewhere
    pc, p, want,
    before,     \* the capture before the step
    journal,    \* of each profile: its runs, as [before, after]
    disturbed,  \* history: a run was abandoned, or others deleted a file
    faults

vars == <<main, file, kernel, pc, p, want, before, journal, disturbed, faults>>
run == <<p, want, before, journal, disturbed>>

-----------------------------------------------------------------------------
(* nft.  A legacy main config includes every file of the directory.        *)
Loadable == main.exists /\ \A q \in ToSet(main.includes) : file[q] # Absent

(* What a main config and files put into a table, in the order of the      *)
(* includes, and what the kernel holds when it holds what the files say.   *)
(* A file that is about another table puts no text into it.                *)
NoText == <<>>

DeclaredIn(m, files, t) ==
    LET listed == IF m.legacy THEN SetToSeq({q \in Profiles : files[q] # Absent}) ELSE <<>>
        read == m.includes \o listed
    IN [k \in DOMAIN read |-> IF TableOf[read[k]] = t THEN files[read[k]] ELSE NoText]

Declared(t) == IF main.exists THEN DeclaredIn(main, file, t) ELSE <<>>

Empty == [tables |-> [t \in Tables |-> <<>>], live |-> FALSE]

(* What a load leaves in the kernel, flushed first or not.                 *)
Loaded(flushed) ==
    [ tables |-> [t \in Tables |-> IF flushed THEN Declared(t) ELSE kernel.tables[t] \o Declared(t)],
      live |-> ~flushed /\ kernel.live ]

Fault(kind) == kind \in FaultKinds /\ faults < MaxFaults /\ faults' = faults + 1
NoFault == UNCHANGED faults

(* nft -f of what the files say, on a kernel flushed first or not.         *)
Load(flushed, good, bad) ==
    \/ Loadable /\ kernel' = Loaded(flushed) /\ pc' = good /\ NoFault
    \/ ~Loadable /\ pc' = bad /\ UNCHANGED <<kernel, faults>>
    \/ /\ Fault("command") /\ pc' = bad
       /\ kernel' \in {kernel} \cup {k \in {Loaded(flushed)} : Loadable}

(* A command that writes a file takes effect, or fails with or without.    *)
Writes(var, value, good, bad) ==
    \/ var' = value /\ pc' = good /\ NoFault
    \/ Fault("command") /\ var' \in {var, value} /\ pc' = bad

Init ==
    /\ main \in Mains
    /\ file = [q \in Profiles |-> Absent]
    /\ kernel \in [tables : {[t \in Tables |-> Declared(t)]}, live : BOOLEAN]
    /\ pc = "ready"
    /\ p \in Profiles /\ want \in Rulesets
    /\ before = [file |-> Absent, main |-> main, table |-> NormalizeCurrentState(Listing(<<>>)),
                 live |-> FALSE]
    /\ journal = [q \in Profiles |-> <<>>]
    /\ disturbed = FALSE /\ faults = 0

-----------------------------------------------------------------------------
(* currentFirewallState.                                                   *)
Running(q) == NormalizeCurrentState(Listing(kernel.tables[TableOf[q]]))

(* Capture: the managed file, the main config and the loaded table.        *)
Snapshot(q) == [ file |-> file[q], main |-> main, table |-> Running(q), live |-> kernel.live ]

(* ValidatePlan: the include is there, and the main config loads.           *)
Valid(s, q) == Loadable /\ Contains(s.main.includes, q)

(* Mutant: a plan looks for the include, and not at what it includes.      *)
WillInclude(s, q, w) == ~Valid(s, q)

(* Plan, on such a capture: something is not as it is to be.               *)
WillChange(s, q, w) == s.file # TextOf[w] \/ Drifts(s.table, Desired[w]) \/ ~Valid(s, q)

Start ==
    /\ pc = "ready" /\ pc' = "stage"
    /\ \E q \in Profiles :
         /\ Len(journal[q]) < MaxRuns
         /\ p' = q /\ before' = Snapshot(q)
    /\ want' \in Rulesets
    /\ UNCHANGED <<main, file, kernel, journal, disturbed, faults>>

(* installFirewallCandidate: nft parses the candidate, which is then moved *)
(* over the managed file.  A file that matches is left.                    *)
Stage ==
    /\ pc = "stage"
    /\ IF file[p] = TextOf[want] \/ want \in Rejected
       THEN /\ pc' = IF file[p] = TextOf[want] THEN "flush" ELSE "failed"
            /\ UNCHANGED <<file, faults>>
       ELSE Writes(file, [file EXCEPT ![p] = TextOf[want]], "flush", "failed")
    /\ UNCHANGED <<main, kernel, run>>

(* EnsureNftablesFlush.  A flush that grep fails to find is written again, *)
(* to no effect.                                                           *)
EnsureFlush ==
    /\ pc = "flush"
    /\ IF main.flush THEN pc' = "include" /\ UNCHANGED <<main, faults>>
       ELSE Writes(main, [main EXCEPT !.exists = TRUE, !.flush = TRUE], "include", "failed")
    /\ UNCHANGED <<file, kernel, run>>

IsIncluded == Contains(main.includes, p)
WithInclude == [main EXCEPT !.includes = Append(@, p)]

(* EnsureNftablesInclude: a legacy include is refused, an include that is  *)
(* there is left; a grep that fails, for either, finds nothing.            *)
EnsureInclude ==
    /\ pc = "include"
    /\ \/ /\ IF main.legacy \/ IsIncluded
             THEN pc' = (IF main.legacy THEN "failed" ELSE "validate") /\ UNCHANGED <<main, faults>>
             ELSE Writes(main, WithInclude, "validate", "failed")
       \/ /\ Fault("probe") /\ pc' = "validate"
          /\ main' \in {WithInclude} \cup {m \in {main} : IsIncluded}
    /\ UNCHANGED <<file, kernel, run>>

(* ValidateApply.                                                          *)
Validate ==
    /\ pc = "validate"
    /\ \/ pc' = (IF IsIncluded /\ Loadable THEN "load" ELSE "failed") /\ NoFault
       \/ Fault("command") /\ pc' = "failed"
    /\ UNCHANGED <<main, file, kernel, run>>

(* ActivateFirewall: the load,                                             *)
Activate ==
    /\ pc = "load"
    /\ Load(main.flush, "read back", "failed")
    /\ UNCHANGED <<main, file, run>>

(* and the read-back, of which duplicates are not a part.                  *)
ReadBack ==
    /\ pc = "read back"
    /\ \/ pc' = (IF Drifts(Running(p), Desired[want]) THEN "failed" ELSE "recapture")
          /\ NoFault
       \/ Fault("command") /\ pc' = "failed"
    /\ UNCHANGED <<main, file, kernel, run>>

Recapture ==
    /\ pc = "recapture"
    /\ \/ /\ pc' = "ready" /\ NoFault
          /\ journal' = [journal EXCEPT ![p] =
                           Append(@, [before |-> before, after |-> Snapshot(p)])]
       \/ Fault("command") /\ pc' = "failed" /\ UNCHANGED journal
    /\ UNCHANGED <<main, file, kernel, p, want, before, disturbed>>

-----------------------------------------------------------------------------
Top(q) == journal[q][Len(journal[q])]

(* Mutant: the main config is not compared.                                *)
FileConflict(q) == Top(q).after.file # file[q]

Conflict(q) == Top(q).after.file # file[q] \/ Top(q).after.main # main

Changed(r) == [r.before EXCEPT !.live = FALSE] # [r.after EXCEPT !.live = FALSE]

(* The rollback of a failed step, and of the latest run of a profile; the  *)
(* engine skips a step whose captures agree.                               *)
UndoFailed ==
    /\ pc = "failed" /\ pc' = "undo main"
    /\ UNCHANGED <<main, file, kernel, run, faults>>

Rollback ==
    /\ pc = "ready"
    /\ \E q \in Profiles :
         /\ journal[q] # <<>> /\ (Changed(Top(q)) => ~Conflict(q))
         /\ pc' = IF Changed(Top(q)) THEN "undo main" ELSE "skipped"
         /\ p' = q /\ before' = Top(q).before
         /\ journal' = [journal EXCEPT ![q] = SubSeq(@, 1, Len(@) - 1)]
    /\ UNCHANGED <<main, file, kernel, want, disturbed, faults>>

(* Mutant: a flush that the step added stays.                              *)
UndoIncludes ==
    /\ pc = "undo main"
    /\ Writes(main, [before.main EXCEPT !.flush = main.flush], "undo file", "stuck")
    /\ UNCHANGED <<file, kernel, run>>

(* Objects are restored back to front: restoreMainConfig,                  *)
UndoMain ==
    /\ pc = "undo main"
    /\ Writes(main, before.main, "undo file", "stuck")
    /\ UNCHANGED <<file, kernel, run>>

(* then the managed file,                                                  *)
UndoFile ==
    /\ pc = "undo file"
    /\ Writes(file, [file EXCEPT ![p] = before.file], "reload", "stuck")
    /\ UNCHANGED <<main, kernel, run>>

(* Mutant: what the main config says is added to what is loaded.           *)
ReloadOnTop ==
    /\ pc = "reload"
    /\ IF main.exists THEN Load(main.flush, "undone", "stuck")
       ELSE Writes(kernel, Empty, "undone", "stuck")
    /\ UNCHANGED <<main, file, run>>

(* and reloadFromMainConfig, which flushes in any case.                    *)
Reload ==
    /\ pc = "reload"
    /\ IF main.exists THEN Load(TRUE, "undone", "stuck")
       ELSE Writes(kernel, Empty, "undone", "stuck")
    /\ UNCHANGED <<main, file, run>>

(* The next run, after this one ended, or gave up, or the runner died.     *)
StartOver ==
    /\ \/ pc \in {"undone", "skipped"} /\ UNCHANGED <<disturbed, faults>>
       \/ pc = "stuck" /\ disturbed' = TRUE /\ NoFault
       \/ pc \notin {"ready", "undone", "skipped", "stuck"} /\ Fault("crash") /\ disturbed' = TRUE
    /\ pc' = "ready"
    /\ UNCHANGED <<main, file, kernel, p, want, before, journal>>

(* Somebody deletes a managed file.                                        *)
Delete ==
    /\ Fault("delete") /\ disturbed' = TRUE
    /\ \E q \in Profiles : file[q] # Absent /\ file' = [file EXCEPT ![q] = Absent]
    /\ UNCHANGED <<main, kernel, pc, p, want, before, journal>>

Next == \/ Start \/ Stage \/ EnsureFlush \/ EnsureInclude \/ Validate \/ Activate
        \/ ReadBack \/ Recapture \/ UndoFailed \/ Rollback \/ UndoMain \/ UndoFile
        \/ Reload \/ StartOver \/ Delete

Spec == Init /\ [][Next]_vars

-----------------------------------------------------------------------------
AtRest == pc \in {"ready", "undone", "skipped"} /\ ~disturbed

(* Between runs the kernel holds what a reboot would load, so the ruleset  *)
(* in force is never one that a restart loses or brings back: the flush,   *)
(* the includes and the files agree with what was loaded (Apply, Restore). *)
KernelMatchesFiles ==
    AtRest => \A t \in Tables : kernel.tables[t] = Declared(t)

(* A profile that was applied stays in force, alone in its table and       *)
(* loaded once (twice only where a grep failed to find its include), while *)
(* other profiles that share the main config are applied, fail and are     *)
(* rolled back in any order the conflict check admits                      *)
(* (docs/profiles/firewall-plugin.md, "Profiles that share a main config").*)
AppliedProfilesStay ==
    AtRest => \A q \in Profiles :
        journal[q] # <<>> =>
            LET loaded == kernel.tables[TableOf[q]]
                texts == {k \in DOMAIN loaded : loaded[k] # NoText} IN
            {loaded[k] : k \in texts} = {Top(q).after.file} /\ (faults = 0 => Cardinality(texts) = 1)

(* An undone run left the main config, its file and its table as it found  *)
(* them (RestoreFirewallFile).                                             *)
UndoneMeansBefore ==
    (pc = "undone" /\ ~disturbed) =>
        [Snapshot(p) EXCEPT !.live = before.live] = before

(* A step that goes well, and that a plan of the same host calls unchanged, *)
(* left its file and its table as they were, and the main config as well   *)
(* unless a grep failed to find the include (Plan).  A main config that    *)
(* includes the file and does not flush, which Plan does not report though *)
(* a run would change it, is none that hardline leaves or a host begins    *)
(* with here.                                                              *)
PlanForesees ==
    (pc = "recapture" /\ ~disturbed /\ ~WillChange(before, p, want)) =>
        /\ file[p] = before.file /\ Running(p) = before.table
        /\ faults = 0 => main = before.main

(* Without a fault a step fails only for a ruleset nft refuses or a legacy *)
(* include: profiles do not load each other's rules                        *)
(* (docs/profiles/firewall-plugin.md:83), and nft's spelling of a rule is  *)
(* not taken for another rule (collapseFullPrefix).                        *)
FailsOnlyRefused ==
    (pc = "failed" /\ faults = 0) => want \in Rejected \/ main.legacy

(* When a read-back accepts what is loaded, every packet is treated as the *)
(* declared rules say, with the first match first, whatever other accepted *)
(* ruleset was loaded instead; and a ruleset never drifts from itself      *)
(* (DiffNormalized, reorderedChains).                                      *)
ReadBackTells == pc = "read back" => Misread = {}

=============================================================================
