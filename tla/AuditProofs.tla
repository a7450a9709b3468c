---------------------------- MODULE AuditProofs ----------------------------
(***************************************************************************)
(* What the audit plugin owes the other rules files of a host, and an      *)
(* undone run the kernel: a proof for any rules and any files, any number  *)
(* of runs, and any number of commands that fail with or without effect.   *)
(***************************************************************************)
EXTENDS Audit, TLAPS

(* Neither the rules file, nor what it may come back to, nor what a step   *)
(* is about to write clears or locks the policy.                           *)
FilesHarmless ==
    /\ AssertLoadableRules(file) /\ AssertLoadableRules(captured.file)
    /\ pc = "write" => AssertLoadableRules(want)

(* Where the kernel runs no rule that no file declares: not between the    *)
(* write of a file and its load, nor on the way back.                      *)
Settled == {"ready", "admit", "write", "verify", "recapture", "done", "undone"}

(* Where no capture followed that of before.                               *)
Midway == {"admit", "write", "load", "verify", "recapture", "failed"}

KernelInv ==
    /\ FilesHarmless
    /\ pc \in Midway => after = <<>>
    /\ ~disturbed =>
         /\ ~locked
         /\ pc \in Settled => kernel \subseteq Merged
         /\ pc = "verify" \/ (pc = "undone" /\ Changed) => kernel = Merged
         /\ pc \in {"undo load", "undone"} => file = captured.file

-----------------------------------------------------------------------------
(* What leaves the files alone leaves what they merge to alone.            *)
LEMMA MergedStays == file' = file /\ others' = others => Merged' = Merged
  BY DEF Merged

(* A load that goes well, of files that neither clear nor lock, into a     *)
(* kernel that is not locked: the kernel runs what they say.               *)
LEMMA LoadMerges ==
    ASSUME NEW good, NEW bad, good # bad, Load(good, bad), AssertLoadableRules(file),
           ~locked, file' = file, others' = others
    PROVE  /\ pc' \in {good, bad} /\ ~locked'
           /\ pc' = good => kernel' = Merged'
  <1>1. pc' \in {good, bad}  BY DEF Load
  <1>2. ~locked'  BY DEF Load, AssertLoadableRules
  <1>3. pc' = good => kernel' = Merged  BY DEF Load
  <1>4. QED  BY <1>1, <1>2, <1>3, MergedStays

LEMMA InitKernel == Init => KernelInv
  <1> SUFFICES ASSUME Init PROVE KernelInv  OBVIOUS
  <1>1. PICK rules : file = [NoFile EXCEPT !.rules = rules]  BY DEF Init
  <1>2. ~file.clears /\ ~file.locks  BY <1>1 DEF NoFile
  <1>3. captured.file = file  BY DEF Init, Snapshot
  <1>4. FilesHarmless  BY <1>2, <1>3 DEF Init, FilesHarmless, AssertLoadableRules
  <1>5. kernel \subseteq Merged  BY <1>2 DEF Init, Merged
  <1>6. QED  BY <1>4, <1>5 DEF Init, KernelInv, Settled, Midway

-----------------------------------------------------------------------------
LEMMA NextHarmless == FilesHarmless /\ [Next]_vars => FilesHarmless'
  <1> SUFFICES ASSUME FilesHarmless, [Next]_vars PROVE FilesHarmless'  OBVIOUS
  <1> USE DEF FilesHarmless, host
  <1>1. CASE Capture
    <2>1. captured'.file = file  BY <1>1 DEF Capture, Snapshot
    <2>2. QED  BY <1>1, <2>1 DEF Capture, AssertLoadableRules
  <1>2. CASE Admit  BY <1>2 DEF Admit, AssertLoadableRules
  <1>3. CASE WriteFile
    <2>1. file' \in {file, want} /\ captured' = captured /\ pc' # "write"
      BY <1>3 DEF WriteFile, Write
    <2>2. AssertLoadableRules(want)  BY <1>3 DEF WriteFile
    <2>3. QED  BY <2>1, <2>2 DEF AssertLoadableRules
  <1>4. CASE UndoFile
    <2>1. file' \in {file, captured.file} /\ captured' = captured /\ pc' # "write"
      BY <1>4 DEF UndoFile, Write
    <2>2. QED  BY <2>1 DEF AssertLoadableRules
  <1>5. CASE LoadRules \/ UndoLoad
    <2>1. file' = file /\ captured' = captured /\ pc' # "write"
      BY <1>5 DEF LoadRules, UndoLoad, Load
    <2>2. QED  BY <2>1 DEF AssertLoadableRules
  <1>6. CASE Verify \/ Recapture \/ Rollback \/ StartOver
    <2>1. file' = file /\ captured' = captured /\ pc' # "write"
      BY <1>6 DEF Verify, Recapture, Rollback, StartOver
    <2>2. QED  BY <2>1 DEF AssertLoadableRules
  <1>7. CASE Others \/ UNCHANGED vars
    BY <1>7 DEF Others, vars, AssertLoadableRules
  <1>8. QED  BY <1>1, <1>2, <1>3, <1>4, <1>5, <1>6, <1>7 DEF Next

LEMMA NextKernel == KernelInv /\ [Next]_vars => KernelInv'
  <1> SUFFICES ASSUME KernelInv, [Next]_vars PROVE KernelInv'  OBVIOUS
  <1>0. FilesHarmless'  BY NextHarmless DEF KernelInv
  <1> USE DEF KernelInv, Settled, Midway, host
  <1>1. CASE Capture  BY <1>0, <1>1, MergedStays DEF Capture
  <1>2. CASE Admit  BY <1>0, <1>2, MergedStays DEF Admit
  <1>3. CASE WriteFile
    <2>1. CASE pc' = "recapture"
      <3>1. file' = file  BY <1>3, <2>1 DEF WriteFile, Write
      <3>2. QED  BY <1>0, <1>3, <2>1, <3>1, MergedStays DEF WriteFile
    <2>2. CASE pc' \in {"load", "failed"}  BY <1>0, <1>3, <2>2 DEF WriteFile
    <2>3. QED  BY <1>3, <2>1, <2>2 DEF WriteFile, Write
  <1>4. CASE LoadRules
    <2>1. Load("verify", "failed") /\ UNCHANGED <<file, others, captured, after, disturbed>>
      BY <1>4 DEF LoadRules
    <2>2. pc' \in {"verify", "failed"}  BY <2>1 DEF Load
    <2>3. ~disturbed => ~locked' /\ (pc' = "verify" => kernel' = Merged')
      BY <2>1, LoadMerges DEF FilesHarmless
    <2>4. after = <<>>  BY <1>4 DEF LoadRules
    <2>5. QED  BY <1>0, <2>1, <2>2, <2>3, <2>4
  <1>5. CASE Verify  BY <1>0, <1>5, MergedStays DEF Verify
  <1>6. CASE Recapture  BY <1>0, <1>6, MergedStays DEF Recapture
  <1>7. CASE Rollback
    <2>1. Changed' = Changed  BY <1>7 DEF Rollback, Changed
    <2>2. UNCHANGED <<file, others, kernel, locked, captured, after, disturbed>>
      BY <1>7 DEF Rollback
    <2>3. CASE Changed
      <3>1. pc' = "undo file"  BY <1>7, <2>3 DEF Rollback
      <3>2. QED  BY <1>0, <2>2, <3>1
    <2>4. CASE ~Changed
      <3>1. after = <<captured>> /\ pc' = "undone"  BY <1>7, <2>4 DEF Rollback, Changed
      <3>2. after # <<>> /\ after[1] = captured  BY <3>1
      <3>3. pc = "done" /\ file = captured.file  BY <1>7, <3>2 DEF Rollback
      <3>4. QED  BY <1>0, <2>1, <2>2, <2>4, <3>1, <3>3, MergedStays
    <2>5. QED  BY <2>3, <2>4
  <1>8. CASE UndoFile
    <2>1. UNCHANGED <<locked, captured, after, disturbed>>  BY <1>8 DEF UndoFile
    <2>2. \/ pc' = "undo load" /\ file' = captured.file
          \/ pc' = "stuck"
      BY <1>8 DEF UndoFile, Write
    <2>3. QED  BY <1>0, <2>1, <2>2
  <1>9. CASE UndoLoad
    <2>1. Load("undone", "stuck") /\ UNCHANGED <<file, others, captured, after, disturbed>>
      BY <1>9 DEF UndoLoad
    <2>2. pc' \in {"undone", "stuck"}  BY <2>1 DEF Load
    <2>3. ~disturbed => ~locked' /\ (pc' = "undone" => kernel' = Merged')
      BY <2>1, LoadMerges DEF FilesHarmless
    <2>4. ~disturbed => file' = captured'.file  BY <1>9, <2>1 DEF UndoLoad
    <2>5. QED  BY <1>0, <2>1, <2>2, <2>3, <2>4
  <1>10. CASE StartOver  BY <1>0, <1>10, MergedStays DEF StartOver
  <1>11. CASE Others  BY <1>0, <1>11 DEF Others
  <1>12. CASE UNCHANGED vars
    <2>1. Changed' = Changed  BY <1>12 DEF vars, Changed
    <2>2. QED  BY <1>0, <1>12, <2>1, MergedStays DEF vars
  <1>13. QED
    BY <1>1, <1>2, <1>3, <1>4, <1>5, <1>6, <1>7, <1>8, <1>9, <1>10, <1>11, <1>12 DEF Next

LEMMA KernelAlways == Spec => []KernelInv
  BY InitKernel, NextKernel, PTL DEF Spec

-----------------------------------------------------------------------------
(* A load, of a step or of its rollback, never costs the host a rule that  *)
(* another file declares, nor the freedom to load again.                   *)
THEOREM OthersStay == Spec => []OthersRulesKept
  <1>1. KernelInv => OthersRulesKept
    <2> SUFFICES ASSUME KernelInv, pc \in {"verify", "undone"}, ~disturbed, Changed
                 PROVE  KernelRules(others) \subseteq kernel /\ ~locked
      BY DEF OthersRulesKept
    <2>1. kernel = Merged /\ ~locked  BY DEF KernelInv
    <2>2. Merged = KernelRules(others \cup file.rules)
      BY DEF Merged, KernelInv, FilesHarmless, AssertLoadableRules
    <2>3. QED  BY <2>1, <2>2 DEF KernelRules
  <1>2. QED  BY <1>1, KernelAlways, PTL

(* An undone run leaves no rule of its own in the kernel, however often    *)
(* commands failed before.                                                 *)
THEOREM UndoneRunsLeaveNothing == Spec => []UndoneMeansUnloaded
  <1>1. KernelInv => UndoneMeansUnloaded
    BY DEF KernelInv, UndoneMeansUnloaded, Settled
  <1>2. QED  BY <1>1, KernelAlways, PTL

-----------------------------------------------------------------------------
(* As long as nothing failed and nobody meddled, the host of a run that    *)
(* has done nothing yet is as it was captured, and a run that writes or    *)
(* loads is one that a plan announces.                                     *)
PlanInv ==
    /\ faults \in Nat
    /\ faults = 0 =>
         /\ pc \in {"admit", "write"} => Snapshot = captured
         /\ pc \in {"load", "verify"} => WillChange(captured, want)
         /\ pc = "recapture" => Snapshot = captured \/ WillChange(captured, want)

(* What a plan compares the file with, and the rules with those it lists.  *)
LEMMA MissingForeseen ==
    ASSUME Snapshot = captured, file # want \/ ~Carries(Listed, want)
    PROVE  WillChange(captured, want)
  <1>1. captured.file = file /\ captured.kernel = CanonicalRules(Listed)  BY DEF Snapshot
  <1>2. ~Carries(Listed, want) => ~(CanonicalRules(want.rules) \subseteq captured.kernel)
    BY <1>1 DEF Carries, MissingRules
  <1>3. QED  BY <1>1, <1>2 DEF WillChange

LEMMA SnapshotStays == UNCHANGED <<file, kernel, style>> => Snapshot' = Snapshot
  BY DEF Snapshot, Listed

LEMMA FaultsCount == ASSUME PlanInv, NEW kind, Fault(kind) PROVE faults' \in Nat /\ faults' # 0
  BY DEF PlanInv, Fault

LEMMA InitPlan == Init => PlanInv
  BY DEF Init, PlanInv

LEMMA NextPlan == PlanInv /\ [Next]_vars => PlanInv'
  <1> SUFFICES ASSUME PlanInv, [Next]_vars PROVE PlanInv'  OBVIOUS
  <1>0. faults' \in Nat /\ (faults' = 0 => faults = 0 /\ \A kind : ~Fault(kind))
    <2>1. faults' = faults \/ \E kind : Fault(kind)
      BY DEF Next, Capture, Admit, WriteFile, Write, LoadRules, Verify, Recapture, Rollback,
             UndoFile, UndoLoad, Load, StartOver, Others, vars
    <2>2. QED  BY <2>1, FaultsCount DEF PlanInv
  <1> SUFFICES ASSUME faults' = 0
               PROVE  /\ pc' \in {"admit", "write"} => Snapshot' = captured'
                      /\ pc' \in {"load", "verify"} => WillChange(captured, want)'
                      /\ pc' = "recapture" =>
                           Snapshot' = captured' \/ WillChange(captured, want)'
    BY <1>0 DEF PlanInv
  <1>00. faults = 0 /\ \A kind : ~Fault(kind)  BY <1>0
  <1>000. captured' = captured /\ want' = want =>
            WillChange(captured, want)' = WillChange(captured, want)
    BY DEF WillChange
  <1>1. CASE Capture  BY <1>1, SnapshotStays DEF Capture, host
  <1>2. CASE Admit
    BY <1>2, <1>00, SnapshotStays DEF Admit, host, PlanInv
  <1>3. CASE WriteFile
    <2>1. Snapshot = captured /\ UNCHANGED <<kernel, style, want, captured>>
      BY <1>3, <1>00 DEF WriteFile, PlanInv
    <2>2. \/ file' = file /\ pc' = "recapture"
          \/ pc' = "load" /\ (file # want \/ ~Carries(Listed, want))
      BY <1>3, <1>00 DEF WriteFile, Write
    <2>3. QED  BY <2>1, <2>2, <1>000, MissingForeseen, SnapshotStays
  <1>4. CASE LoadRules
    <2>1. WillChange(captured, want) /\ UNCHANGED <<want, captured>>
      BY <1>4, <1>00 DEF LoadRules, PlanInv
    <2>2. pc' \in {"verify", "failed"}  BY <1>4 DEF LoadRules, Load
    <2>3. QED  BY <2>1, <2>2, <1>000
  <1>5. CASE Verify
    <2>1. WillChange(captured, want) /\ UNCHANGED <<want, captured>>
      BY <1>5, <1>00 DEF Verify, PlanInv
    <2>2. pc' \in {"recapture", "failed"}  BY <1>5 DEF Verify
    <2>3. QED  BY <2>1, <2>2, <1>000
  <1>6. CASE Recapture \/ Rollback \/ UndoFile \/ UndoLoad \/ StartOver
    <2>1. pc' \in {"done", "failed", "undo file", "undone", "undo load", "stuck", "ready"}
      BY <1>6 DEF Recapture, Rollback, UndoFile, UndoLoad, Write, Load, StartOver
    <2>2. QED  BY <2>1
  <1>7. CASE Others  BY <1>7, <1>00 DEF Others
  <1>8. CASE UNCHANGED vars
    <2>1. Snapshot' = Snapshot  BY <1>8, SnapshotStays DEF vars
    <2>2. QED  BY <1>8, <1>00, <1>000, <2>1 DEF vars, PlanInv
  <1>9. QED  BY <1>1, <1>2, <1>3, <1>4, <1>5, <1>6, <1>7, <1>8 DEF Next

(* A run that a plan of the same host calls unchanged loads nothing and    *)
(* writes nothing, whatever the rules and however auditctl spells them, as *)
(* long as no probe failed.                                                *)
THEOREM PlansForesee == Spec => []PlanForesees
  <1>1. PlanInv => PlanForesees  BY DEF PlanInv, PlanForesees
  <1>2. QED  BY <1>1, InitPlan, NextPlan, PTL DEF Spec

-----------------------------------------------------------------------------
(* Where the rules come from, and what a step has seen to before it loads. *)
LoadInv ==
    /\ faults \in Nat /\ style \in Styles
    /\ file.rules \subseteq Declared /\ captured.file.rules \subseteq Declared
    /\ want.rules \subseteq Declared /\ others \subseteq Known
    /\ kernel \subseteq KernelRules(Known)
    /\ pc \in {"write", "load", "verify"} => Readable(want)
    /\ pc \in {"load", "verify"} => file = want

(* Then the comparison of what is listed says what the kernel runs.        *)
LEMMA CarriesTells ==
    ASSUME SpellingsTold, LoadInv, Readable(want)
    PROVE  Carries(Listed, want) <=> KernelRules(want.rules) \subseteq kernel
  <1>1. \A o \in want.rules : ~RefusedRule(o) /\ o \in Declared  BY DEF Readable, LoadInv
  <1>2. \A k \in kernel : \E x \in Known : k = KernelRule(x)  BY DEF LoadInv, KernelRules
  <1>3. \A o \in want.rules, k \in kernel : Takes(Printed(k, style), o) <=> KernelRule(o) = k
    BY <1>1, <1>2 DEF SpellingsTold, LoadInv
  <1>4. CanonicalRules(want.rules) = {Canonical(ParseRuleTokens(o)) : o \in want.rules}
    BY <1>1 DEF CanonicalRules
  <1>5. CanonicalRules(Listed) =
          { Canonical(ParseRuleTokens(l)) :
              l \in { Printed(k, style) :
                       k \in {x \in kernel : ~RefusedRule(Printed(x, style))} } }
    BY DEF CanonicalRules, Listed
  <1>6. Carries(Listed, want) <=>
          \A o \in want.rules : \E k \in kernel : Takes(Printed(k, style), o)
    BY <1>4, <1>5 DEF Carries, MissingRules, Takes
  <1>7. KernelRules(want.rules) \subseteq kernel <=>
          \A o \in want.rules : \E k \in kernel : KernelRule(o) = k
    BY DEF KernelRules
  <1>8. QED  BY <1>3, <1>6, <1>7

LEMMA MergedKnown ==
    ASSUME file.rules \subseteq Known, others \subseteq Known
    PROVE  Merged \subseteq KernelRules(Known)
  BY DEF Merged, KernelRules

LEMMA InitLoad == Init => LoadInv
  <1> SUFFICES ASSUME Init PROVE LoadInv  OBVIOUS
  <1>1. file.rules \subseteq Declared /\ file.rules \subseteq Known
    BY DEF Init, NoFile, Declared, Known
  <1>2. captured.file = file /\ want.rules = {}  BY DEF Init, Snapshot, NoFile
  <1>3. others \subseteq Known  BY DEF Init, Known
  <1>4. kernel \subseteq KernelRules(Known)  BY <1>1, <1>3 DEF Init, KernelRules
  <1>5. QED  BY <1>1, <1>2, <1>3, <1>4 DEF Init, LoadInv, Styles

LEMMA LoadKnown ==
    ASSUME LoadInv, NEW good, NEW bad, Load(good, bad)
    PROVE  pc' \in {good, bad} /\ faults' \in Nat /\ kernel' \subseteq KernelRules(Known)
  <1>1. Merged \subseteq KernelRules(Known)  BY MergedKnown DEF LoadInv, Known
  <1>2. pc' \in {good, bad} /\ faults' \in Nat  BY DEF Load, Fault, LoadInv
  <1>3. kernel' \subseteq kernel \cup Merged  BY DEF Load
  <1>4. QED  BY <1>1, <1>2, <1>3 DEF LoadInv

LEMMA NextLoad == LoadInv /\ [Next]_vars => LoadInv'
  <1> SUFFICES ASSUME LoadInv, [Next]_vars PROVE LoadInv'  OBVIOUS
  <1>0. faults' \in Nat
    <2>1. faults' = faults \/ \E kind : Fault(kind)
      BY DEF Next, Capture, Admit, WriteFile, Write, LoadRules, Verify, Recapture, Rollback,
             UndoFile, UndoLoad, Load, StartOver, Others, vars
    <2>2. QED  BY <2>1 DEF Fault, LoadInv
  <1> USE <1>0 DEF LoadInv, host
  <1>1. CASE Capture
    <2>1. want'.rules \subseteq Declared  BY <1>1 DEF Capture, Contents, Declared
    <2>2. QED  BY <1>1, <2>1 DEF Capture, Snapshot
  <1>2. CASE Admit  BY <1>2 DEF Admit, Readable
  <1>3. CASE WriteFile
    <2>1. file' \in {file, want} /\ (pc' = "load" => file' = want)
          /\ pc' \in {"recapture", "load", "failed"}
      BY <1>3 DEF WriteFile, Write
    <2>2. QED  BY <1>3, <2>1 DEF WriteFile, Readable
  <1>4. CASE LoadRules
    <2>1. Load("verify", "failed")  BY <1>4 DEF LoadRules
    <2>2. QED  BY <1>4, <2>1, LoadKnown DEF LoadRules, Readable
  <1>5. CASE Verify  BY <1>5 DEF Verify, Readable
  <1>6. CASE Recapture  BY <1>6 DEF Recapture
  <1>7. CASE Rollback  BY <1>7 DEF Rollback
  <1>8. CASE UndoFile
    <2>1. Write(captured.file, "undo load", "stuck")  BY <1>8 DEF UndoFile
    <2>2. file' = file \/ file' = captured.file  BY <2>1 DEF Write
    <2>3. file'.rules \subseteq Declared  BY <2>2
    <2>4. pc' \in {"undo load", "stuck"}  BY <2>1 DEF Write
    <2>5. QED  BY <1>8, <2>3, <2>4 DEF UndoFile
  <1>9. CASE UndoLoad
    <2>1. Load("undone", "stuck")  BY <1>9 DEF UndoLoad
    <2>2. pc' \in {"undone", "stuck"} /\ kernel' \subseteq KernelRules(Known)
      BY <2>1, LoadKnown
    <2>3. QED  BY <1>9, <2>2 DEF UndoLoad
  <1>10. CASE StartOver  BY <1>10 DEF StartOver
  <1>11. CASE Others
    <2>1. kernel' \subseteq kernel  BY <1>11 DEF Others
    <2>2. QED  BY <1>11, <2>1 DEF Others, Readable
  <1>12. CASE UNCHANGED vars  BY <1>12 DEF vars, Readable
  <1>13. QED
    BY <1>1, <1>2, <1>3, <1>4, <1>5, <1>6, <1>7, <1>8, <1>9, <1>10, <1>11, <1>12 DEF Next

(* A step that ends well left its rules in the file and in the kernel,     *)
(* whatever was locked, missing or unreadable on the way, and no load that *)
(* worked is called failed, for every set of rules that are told apart.    *)
THEOREM DoneIsLoaded == ASSUME SpellingsTold PROVE Spec => DoneMeansLoaded
  <1> DEFINE Runs == KernelRules(want.rules) \subseteq kernel
             Good == /\ (pc' = "recapture" /\ pc # "recapture") => file' = want /\ Runs
                     /\ (pc = "verify" /\ pc' = "failed" /\ UNCHANGED faults) => ~Runs
  <1>1. LoadInv /\ [Next]_vars => [Good]_vars
    <2> SUFFICES ASSUME LoadInv, Next PROVE Good  OBVIOUS
    <2>1. pc' = "recapture" /\ pc # "recapture" =>
            ((WriteFile /\ file = want) \/ Verify) /\ Carries(Listed, want) /\ file' = want
      <3>1. ASSUME pc' = "recapture", pc # "recapture" PROVE WriteFile \/ Verify
        BY <3>1 DEF Next, Capture, Admit, LoadRules, Recapture, Rollback, UndoFile, UndoLoad,
                    Load, Write, StartOver, Others
      <3>2. CASE WriteFile  BY <3>2 DEF WriteFile, Write
      <3>3. CASE Verify  BY <3>3 DEF Verify, host, LoadInv
      <3>4. QED  BY <3>1, <3>2, <3>3
    <2>2. pc = "verify" /\ pc' = "failed" /\ UNCHANGED faults => ~Carries(Listed, want)
      <3>1. SUFFICES ASSUME pc = "verify", pc' = "failed", UNCHANGED faults
                     PROVE  ~Carries(Listed, want)
        OBVIOUS
      <3>2. Verify
        BY <3>1 DEF Next, Capture, Admit, WriteFile, LoadRules, Recapture, Rollback, UndoFile,
                    UndoLoad, StartOver, Others
      <3>3. ~Fault("probe")  BY <3>1 DEF Fault, LoadInv
      <3>4. QED  BY <3>1, <3>2, <3>3 DEF Verify
    <2>3. pc \in {"write", "verify"} => (Carries(Listed, want) <=> Runs)
      BY CarriesTells DEF LoadInv
    <2>4. WriteFile \/ Verify => pc \in {"write", "verify"}  BY DEF WriteFile, Verify
    <2> HIDE DEF Runs
    <2>5. QED  BY <2>1, <2>2, <2>3, <2>4
  <1>2. Spec => []LoadInv  BY InitLoad, NextLoad, PTL DEF Spec
  <1> HIDE DEF Good
  <1>3. Spec => [][Good]_vars  BY <1>1, <1>2, PTL DEF Spec
  <1>4. QED  BY <1>3 DEF Good, DoneMeansLoaded
=============================================================================
