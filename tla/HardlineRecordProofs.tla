------------------------- MODULE HardlineRecordProofs -------------------------
(***************************************************************************)
(* What the journals record, for any runners, profiles, flags and faults   *)
(* but edits by others: proofs that they are written ahead, so that        *)
(* whatever the latest run made of the host is in one on a disk, with the  *)
(* value it found; that those on the host are a chain, so that rolling     *)
(* them back leads to the host as it was before hardline; and that a       *)
(* rollback that was interrupted begins again.                             *)
(***************************************************************************)
EXTENDS HardlineRunsProofs

Latest(births, k) == \A other \in RunIds : births[other] <= births[k]

(* One of the first n steps of journal j changed object o.                 *)
ChangedBy(p, j, o, n) == \E i \in 1..n : o \in ObjectsOf(p, i) /\ Changed(j, i)

(* All that the run of j wrote, as `by` has it, is the work of those steps.*)
Explains(p, j, n, by) == \A o \in Objects : by[o] = j.run => ChangedBy(p, j, o, n)

ExplainsAll(p, j, by) == Explains(p, j, Len(j.steps), by)

-----------------------------------------------------------------------------
(* Who wrote an object has begun, and later runs are later.                *)
WritersInv ==
    \A o \in Objects : writer[o] # Outside /\ (writer[o] \in RunIds => born[writer[o]] # 0)

BirthsInv == \A k \in RunIds : born[k] <= Cardinality({x \in RunIds : born[x] # 0})

(* What the latest run wrote is covered by a stored journal of it.         *)
LatestRecorded ==
    \A k \in RunIds : \A o \in Objects :
        Latest(born, k) /\ writer[o] = k => \E j \in StoredJournals(k) : Covering(j, o) # {}

(* A stored journal that a rollback accepts explains all its run wrote.    *)
AcceptedTell ==
    /\ \A r \in Runners, p \in Profiles :
         local[r][p] # NoJournal /\ Accepted(local[r][p]) =>
             ExplainsAll(p, local[r][p], writer)
    /\ \A p \in Profiles, k \in RunIds :
         remote[p][k] # NoJournal => ExplainsAll(p, remote[p][k], writer)

SharedInv == WritersInv /\ BirthsInv /\ LatestRecorded /\ AcceptedTell

(* No stored journal that a rollback accepts is of run k.                  *)
NotAccepted(k) ==
    /\ \A r \in Runners, p \in Profiles :
         local[r][p] # NoJournal /\ Accepted(local[r][p]) => local[r][p].run # k
    /\ \A p \in Profiles : remote[p][k] = NoJournal

(* Before a step runs its record is on the disk, and once it ran what it   *)
(* changed differs from that record.                                       *)
AtStep(where, p, j, saved, by, now) ==
    LET m == Len(j.steps) IN
    /\ where = "run" =>
         /\ saved = j
         /\ Explains(p, j, m - 1, by)
         /\ \A o \in ObjectsOf(p, m) : j.steps[m].before[o] = now[o]
    /\ where = "capture" =>
         \A o \in Objects : by[o] = j.run =>
             \/ ChangedBy(p, j, o, m - 1)
             \/ o \in ObjectsOf(p, m) /\ j.steps[m].before[o] # now[o]

Applies(r) ==
    job[r].kind = "apply" /\ pc[r] \in Journalled =>
        /\ Latest(born, mem[r].run)
        /\ ExplainsAll(Prof(r), mem[r], writer)
        /\ local[r][Prof(r)] # NoJournal => local[r][Prof(r)].run = mem[r].run
        /\ AtStep(pc[r], Prof(r), mem[r], local[r][Prof(r)], writer, host)
        /\ Uncommitted(pc[r]) => ~Accepted(mem[r]) /\ NotAccepted(mem[r].run)
        /\ pc[r] = "tidy" => remote[Prof(r)][mem[r].run] # NoJournal

(* All that a rollback's run wrote is still to be restored.                *)
StillToDo(p, j, items, by) ==
    \A o \in Objects : by[o] = j.run => ItemsOn(p, j, o) \cap items # {}

RollsBack(r) ==
    job[r].kind = "rollback" /\ pc[r] \in Journalled =>
        /\ Accepted(mem[r])
        /\ ExplainsAll(Prof(r), mem[r], writer)
        /\ Has(r, "local") => local[r][Prof(r)] = mem[r]
        /\ pc[r] \in Reverting => StillToDo(Prof(r), mem[r], todo[r], writer)

(* ChangesRecorded, strengthened to be inductive.                          *)
RecordInv == SharedInv /\ \A r \in Runners : Applies(r) /\ RollsBack(r)

-----------------------------------------------------------------------------
LEMMA RecordTypes ==
    ASSUME Invariants
    PROVE  /\ writer \in [Objects -> RunIds \cup {Nobody, Outside}]
           /\ born \in [RunIds -> Nat]
           /\ Nobody \notin RunIds /\ RunIds \subseteq Nat /\ IsFiniteSet(RunIds)
  BY RunsAssumption DEF Invariants, TypeInv, TypeOK, HistoryType, RunsAssumption

(* What explains the objects of a run covers them.                         *)
LEMMA ExplainsCovers ==
    ASSUME NEW p \in Profiles, NEW j, Fits(p, j), NEW by, ExplainsAll(p, j, by),
           NEW o \in Objects, by[o] = j.run
    PROVE  Covering(j, o) # {}
  <1>1. PICK i \in 1..Len(j.steps) : o \in ObjectsOf(p, i)
    BY DEF ExplainsAll, Explains, ChangedBy
  <1>2. QED  BY <1>1, CoveringSteps

(* A run can only lose what it wrote to a rollback.                        *)
LEMMA ExplainsLess ==
    ASSUME NEW p, NEW j, j.run \in RunIds, NEW n, NEW by, Explains(p, j, n, by), NEW by2,
           \A o \in Objects : by2[o] \in {by[o], Nobody}
    PROVE  Explains(p, j, n, by2)
  <1>1. Nobody \notin RunIds  BY RunsAssumption DEF RunsAssumption
  <1>2. \A o \in Objects : by2[o] = j.run => by[o] = j.run  BY <1>1
  <1>3. QED  BY <1>2 DEF Explains

LEMMA RestampedExplains ==
    ASSUME NEW p \in Profiles, NEW j, Fits(p, j), NEW s \in Statuses, NEW by,
           ExplainsAll(p, j, by)
    PROVE  ExplainsAll(p, WithStatus(j, s), by)
  <1>1. WithStatus(j, s).run = j.run /\ WithStatus(j, s).steps = j.steps  BY StampedFits
  <1>2. QED  BY <1>1 DEF ExplainsAll, Explains, ChangedBy, Changed

(* Writing a journal of run k loses no journal of another run.             *)
LEMMA StoredAfter ==
    ASSUME Invariants, NEW r \in Runners, NEW k \in RunIds, NEW j, NEW x,
           \/ local' = local
           \/ /\ SaveLocal(r, j)
              /\ local[r][Prof(r)] # NoJournal => local[r][Prof(r)].run = k,
           remote' \in {remote, [remote EXCEPT ![Prof(r)][k] = x]}
    PROVE  \A other \in RunIds \ {k} : StoredJournals(other) \subseteq StoredJournals(other)'
  <1> DEFINE p == Prof(r)
  <1>1. SUFFICES ASSUME NEW other \in RunIds \ {k}, NEW y \in StoredJournals(other)
                 PROVE  y \in StoredJournals(other)'
    OBVIOUS
  <1>2. y # NoJournal /\ y.run = other  BY DEF StoredJournals
  <1>3. p \in Profiles  BY RunnerTypes
  <1>4. CASE \E s \in Runners, q \in Profiles : y = local[s][q]
    <2>1. PICK s \in Runners, q \in Profiles : y = local[s][q]  BY <1>4
    <2>2. local'[s][q] = local[s][q]
      <3>1. CASE local' = local  BY <3>1
      <3>2. CASE SaveLocal(r, j) /\ (local[r][p] # NoJournal => local[r][p].run = k)
        <4>1. s # r \/ q # p  BY <1>2, <2>1, <3>2
        <4>2. local' = [local EXCEPT ![r][p] = j]  BY <3>2 DEF SaveLocal
        <4> HIDE DEF p
        <4>3. QED  BY <1>3, <4>1, <4>2, RunnerTypes
      <3>3. QED  BY <3>1, <3>2
    <2>3. QED  BY <1>2, <2>1, <2>2 DEF StoredJournals
  <1>5. CASE \E q \in Profiles : y = remote[q][other]
    <2>1. PICK q \in Profiles : y = remote[q][other]  BY <1>5
    <2>2. remote'[q][other] = remote[q][other]
      <3> HIDE DEF p
      <3>1. remote' \in {remote, [remote EXCEPT ![p][k] = x]}  BY DEF p
      <3>2. QED  BY SMTT(30), <1>3, <3>1, RunnerTypes
    <2>3. QED  BY <1>2, <2>1, <2>2 DEF StoredJournals
  <1>6. QED  BY <1>4, <1>5 DEF StoredJournals

(* What is stored after a step covers what the latest run wrote, if that   *)
(* of the run the step is about does.                                      *)
LEMMA RecordedAfter ==
    ASSUME LatestRecorded, NEW k0 \in RunIds,
           \A o \in Objects : writer'[o] \in {writer[o], Nobody, k0},
           \A k \in RunIds \ {k0} :
             Latest(born', k) => /\ Latest(born, k)
                                 /\ StoredJournals(k) \subseteq StoredJournals(k)',
           \A o \in Objects : Latest(born', k0) /\ writer'[o] = k0 =>
             \E j \in StoredJournals(k0)' : Covering(j, o) # {}
    PROVE  LatestRecorded'
  <1>1. SUFFICES ASSUME NEW k \in RunIds, NEW o \in Objects, Latest(born', k), writer'[o] = k
                 PROVE  \E j \in StoredJournals(k)' : Covering(j, o) # {}
    BY DEF LatestRecorded, Latest, Covering
  <1>2. CASE k = k0  BY <1>1, <1>2
  <1>3. CASE k # k0
    <2>1. Nobody \notin RunIds  BY RunsAssumption DEF RunsAssumption
    <2>2. writer[o] = k  BY <1>1, <1>3, <2>1
    <2>3. QED  BY <1>1, <1>3, <2>2 DEF LatestRecorded
  <1>4. QED  BY <1>2, <1>3

(* A step of runner r writes journals of run k0, and objects in its name   *)
(* only if no rollback would accept a journal of it.                       *)
LEMMA SharedAfter ==
    ASSUME Invariants, SharedInv, NEW r \in Runners, NEW k0 \in RunIds, born[k0] # 0,
           born' = born, NEW j, NEW x,
           \/ local' = local
           \/ /\ SaveLocal(r, j)
              /\ local[r][Prof(r)] # NoJournal => local[r][Prof(r)].run = k0
              /\ j # NoJournal /\ Accepted(j) => ExplainsAll(Prof(r), j, writer'),
           remote' \in {remote, [remote EXCEPT ![Prof(r)][k0] = x]},
           x # NoJournal => ExplainsAll(Prof(r), x, writer'),
           \/ \A o \in Objects : writer'[o] \in {writer[o], Nobody}
           \/ NotAccepted(k0) /\ \A o \in Objects : writer'[o] \in {writer[o], k0},
           \A o \in Objects : Latest(born, k0) /\ writer'[o] = k0 =>
             \E y \in StoredJournals(k0)' : Covering(y, o) # {}
    PROVE  SharedInv'
  <1> DEFINE p == Prof(r)
  <1>1. p \in Profiles  BY RunnerTypes
  <1>2. Nobody \notin RunIds /\ Outside \notin RunIds \cup {Nobody}
    BY RunsAssumption DEF RunsAssumption
  <1>3. \A o \in Objects : writer'[o] \in {writer[o], Nobody, k0}  OBVIOUS
  <1>4. WritersInv'
    BY <1>2, <1>3 DEF SharedInv, WritersInv
  <1>5. BirthsInv'  BY DEF SharedInv, BirthsInv
  <1>6. LatestRecorded'
    <2>1. \A other \in RunIds \ {k0} : StoredJournals(other) \subseteq StoredJournals(other)'
      BY StoredAfter
    <2>2. \A k \in RunIds \ {k0} : Latest(born', k) =>
            Latest(born, k) /\ StoredJournals(k) \subseteq StoredJournals(k)'
      BY <2>1
    <2>3. LatestRecorded  BY DEF SharedInv
    <2>4. \A o \in Objects : Latest(born', k0) /\ writer'[o] = k0 =>
            \E y \in StoredJournals(k0)' : Covering(y, o) # {}
      OBVIOUS
    <2>5. QED  BY <1>3, <2>2, <2>3, <2>4, RecordedAfter
  <1>7. ASSUME NEW q \in Profiles, NEW y, y.run \in RunIds, ExplainsAll(q, y, writer),
               y.run = k0 => ~NotAccepted(k0)
        PROVE  ExplainsAll(q, y, writer')
    <2>1. \A o \in Objects : writer'[o] = y.run => writer[o] = y.run
      BY <1>2, <1>7
    <2>2. QED  BY <1>7, <2>1 DEF ExplainsAll, Explains
  <1>8. ASSUME NEW s \in Runners, NEW q \in Profiles,
               local'[s][q] # NoJournal, Accepted(local'[s][q])
        PROVE  ExplainsAll(q, local'[s][q], writer')
    <2>1. CASE local'[s][q] = local[s][q]
      <3>1. /\ ExplainsAll(q, local[s][q], writer) /\ local[s][q].run \in RunIds
            /\ local[s][q].run = k0 => ~NotAccepted(k0)
        BY <1>8, <2>1, RunnerTypes DEF SharedInv, AcceptedTell, NotAccepted, Journals
      <3>2. QED  BY <1>7, <2>1, <3>1
    <2>2. CASE local'[s][q] # local[s][q]
      <3>1. /\ SaveLocal(r, j)
            /\ j # NoJournal /\ Accepted(j) => ExplainsAll(p, j, writer')
        BY <2>2
      <3>2. s = r /\ q = p /\ local'[s][q] = j
        <4>1. local' = [local EXCEPT ![r][p] = j]  BY <3>1 DEF SaveLocal
        <4> HIDE DEF p
        <4>2. QED  BY <1>1, <2>2, <4>1, RunnerTypes
      <3>3. QED  BY <1>8, <3>1, <3>2
    <2>3. QED  BY <2>1, <2>2
  <1>9. ASSUME NEW q \in Profiles, NEW k \in RunIds, remote'[q][k] # NoJournal
        PROVE  ExplainsAll(q, remote'[q][k], writer')
    <2>1. CASE remote'[q][k] = remote[q][k]
      <3>1. ExplainsAll(q, remote[q][k], writer) /\ remote[q][k].run = k
        BY <1>9, <2>1 DEF SharedInv, AcceptedTell, Invariants, JournalInv, StoredInv
      <3>2. k = k0 => ~NotAccepted(k0)  BY <1>9, <2>1 DEF NotAccepted
      <3>3. QED  BY <1>7, <2>1, <3>1, <3>2
    <2>2. CASE remote'[q][k] # remote[q][k]
      <3> HIDE DEF p
      <3>1. remote' = [remote EXCEPT ![p][k0] = x]  BY <2>2 DEF p
      <3>2. q = p /\ remote'[q][k] = x  BY <1>1, <2>2, <3>1, RunnerTypes
      <3>3. QED  BY <1>9, <3>2 DEF p
    <2>3. QED  BY <2>1, <2>2
  <1>10. AcceptedTell'  BY <1>8, <1>9 DEF AcceptedTell
  <1>11. QED  BY <1>4, <1>5, <1>6, <1>10 DEF SharedInv

(* Where the journals stay, what the latest run wrote stays recorded; and  *)
(* a journal that explains it all records it.                              *)
LEMMA StillRecorded ==
    ASSUME SharedInv, NEW k0 \in RunIds, UNCHANGED <<local, remote>>,
           \A o \in Objects : writer'[o] \in {writer[o], Nobody}
    PROVE  \A o \in Objects : Latest(born, k0) /\ writer'[o] = k0 =>
             \E y \in StoredJournals(k0)' : Covering(y, o) # {}
  <1> SUFFICES ASSUME NEW o \in Objects, Latest(born, k0), writer'[o] = k0
               PROVE  \E y \in StoredJournals(k0)' : Covering(y, o) # {}
    OBVIOUS
  <1>1. writer[o] = k0  BY RunsAssumption DEF RunsAssumption
  <1>2. PICK y \in StoredJournals(k0) : Covering(y, o) # {}
    BY <1>1 DEF SharedInv, LatestRecorded
  <1>3. y \in StoredJournals(k0)'  BY DEF StoredJournals
  <1>4. QED  BY <1>2, <1>3

LEMMA WellRecorded ==
    ASSUME Invariants, NEW r \in Runners, NEW k0 \in RunIds,
           NEW y, Fits(Prof(r), y), y # NoJournal, y.run = k0,
           ExplainsAll(Prof(r), y, writer'),
           SaveLocal(r, y) \/ local'[r][Prof(r)] = y \/ remote'[Prof(r)][k0] = y
    PROVE  \A o \in Objects : Latest(born, k0) /\ writer'[o] = k0 =>
             \E z \in StoredJournals(k0)' : Covering(z, o) # {}
  <1> SUFFICES ASSUME NEW o \in Objects, writer'[o] = k0
               PROVE  \E z \in StoredJournals(k0)' : Covering(z, o) # {}
    OBVIOUS
  <1>1. Prof(r) \in Profiles  BY RunnerTypes
  <1>2. local'[r][Prof(r)] = y \/ remote'[Prof(r)][k0] = y
    BY <1>1, RunnerTypes DEF SaveLocal
  <1>3. y \in StoredJournals(k0)'  BY <1>1, <1>2 DEF StoredJournals
  <1>4. Covering(y, o) # {}  BY <1>1, ExplainsCovers
  <1>5. QED  BY <1>3, <1>4

(* What is stored and written changes under the lock only, so what holds   *)
(* of another runner stays so.                                             *)
LEMMA RecordStep ==
    ASSUME Invariants, RecordInv, NEW r \in Runners, OthersStill(r),
           UNCHANGED <<host, local, remote, writer, born>> \/ Holds(r),
           SharedInv', Applies(r)', RollsBack(r)'
    PROVE  RecordInv'
  <1>1. ASSUME NEW s \in Runners, s # r PROVE Applies(s)' /\ RollsBack(s)'
    <2>1. /\ pc'[s] = pc[s] /\ mem'[s] = mem[s] /\ todo'[s] = todo[s] /\ job'[s] = job[s]
          /\ Prof(s)' = Prof(s)
      BY <1>1 DEF OthersStill, Prof
    <2>2. CASE UNCHANGED <<host, local, remote, writer, born>>
      BY <2>1, <2>2
      DEF RecordInv, Applies, RollsBack, AtStep, NotAccepted, StillToDo, Has
    <2>3. CASE Holds(r)
      <3>1. ~Holds(s)  BY <1>1, <2>3 DEF Invariants, LockInv, MutualExclusion
      <3>2. pc[s] \notin Journalled  BY <3>1, Waiting DEF Journalled, Unloaded
      <3>3. QED  BY <2>1, <3>2 DEF Applies, RollsBack
    <2>4. QED  BY <2>2, <2>3
  <1>2. QED  BY <1>1 DEF RecordInv

(* Runner r goes on with the journal it has, or ends.                      *)
LEMMA MovesRecord ==
    ASSUME Invariants, RecordInv, NEW r \in Runners, OthersStill(r),
           UNCHANGED <<host, local, remote, writer, born>>,
           \/ pc'[r] \notin Journalled
           \/ /\ job'[r] = job[r] /\ mem'[r] = mem[r] /\ pc[r] \in Journalled
              /\ pc'[r] = pc[r] \/ pc'[r] \notin {"run", "capture", "tidy"}
              /\ Uncommitted(pc'[r]) => Uncommitted(pc[r])
              /\ \/ job[r].kind = "apply"
                 \/ pc'[r] \in Reverting => pc[r] \in Reverting /\ todo'[r] = todo[r]
    PROVE  RecordInv'
  <1>1. SharedInv'
    BY DEF RecordInv, SharedInv, WritersInv, BirthsInv, LatestRecorded, AcceptedTell,
           StoredJournals
  <1>2. Applies(r) /\ RollsBack(r)  BY DEF RecordInv
  <1>3. CASE pc'[r] \notin Journalled
    BY <1>1, <1>3, RecordStep DEF Applies, RollsBack
  <1>4. CASE /\ job'[r] = job[r] /\ mem'[r] = mem[r] /\ pc[r] \in Journalled
             /\ pc'[r] = pc[r] \/ pc'[r] \notin {"run", "capture", "tidy"}
             /\ Uncommitted(pc'[r]) => Uncommitted(pc[r])
             /\ \/ job[r].kind = "apply"
                \/ pc'[r] \in Reverting => pc[r] \in Reverting /\ todo'[r] = todo[r]
    <2>1. Prof(r)' = Prof(r) /\ Has(r, "local")' = Has(r, "local")
      BY <1>4 DEF Prof, Has
    <2>2. Applies(r)'
      <3>1. SUFFICES ASSUME job[r].kind = "apply" PROVE Applies(r)'
        BY <1>4 DEF Applies
      <3>2. /\ Latest(born, mem[r].run)
            /\ ExplainsAll(Prof(r), mem[r], writer)
            /\ local[r][Prof(r)] # NoJournal => local[r][Prof(r)].run = mem[r].run
            /\ AtStep(pc[r], Prof(r), mem[r], local[r][Prof(r)], writer, host)
            /\ Uncommitted(pc[r]) => ~Accepted(mem[r]) /\ NotAccepted(mem[r].run)
            /\ pc[r] = "tidy" => remote[Prof(r)][mem[r].run] # NoJournal
        BY <1>2, <1>4, <3>1 DEF Applies
      <3>3. AtStep(pc'[r], Prof(r), mem[r], local[r][Prof(r)], writer, host)
        BY <1>4, <3>2 DEF AtStep
      <3>4. NotAccepted(mem[r].run)' <=> NotAccepted(mem[r].run)
        BY <1>4 DEF NotAccepted
      <3>5. QED  BY <1>4, <2>1, <3>2, <3>3, <3>4 DEF Applies
    <2>3. RollsBack(r)'
      BY <1>2, <1>4, <2>1 DEF RollsBack
    <2>4. QED  BY <1>1, <2>2, <2>3, RecordStep
  <1>5. QED  BY <1>3, <1>4

(* Most steps are moves.                                                   *)
LEMMA MovingRecord ==
    ASSUME Invariants, RecordInv, NEW r \in Runners, OthersStill(r),
           \/ StartApply(r) \/ StartRollback(r) \/ Signal(r) \/ Crash(r)
           \/ TakeLock(r) \/ LockRefused(r) \/ ReleaseLock(r)
           \/ AdmitRefused(r) \/ NextStep(r) \/ UndoPreflight(r)
           \/ RevertDone(r) \/ LoadRefused(r) \/ Preflight(r) \/ PreflightRefused(r)
    PROVE  RecordInv'
  <1>1. UNCHANGED <<host, local, remote, writer, born>>
    BY DEF StartApply, StartRollback, Signal, Crash, TakeLock, LockRefused, ReleaseLock,
           AdmitRefused, NextStep, UndoPreflight, RevertDone, LoadRefused, Preflight,
           PreflightRefused, Exit, hostVars, historyVars
  <1>2. ASSUME pc'[r] \in Unloaded \cup {"release"} PROVE RecordInv'
    BY <1>1, <1>2, MovesRecord DEF Journalled
  <1>3. CASE \/ StartApply(r) \/ StartRollback(r) \/ Crash(r)
             \/ TakeLock(r) \/ LockRefused(r) \/ ReleaseLock(r)
    BY <1>2, <1>3, RunnerTypes
    DEF StartApply, StartRollback, Crash, TakeLock, LockRefused, ReleaseLock, Exit, Goto,
        Unloaded
  <1>4. CASE AdmitRefused(r) \/ LoadRefused(r) \/ PreflightRefused(r)
    BY <1>2, <1>4, RunnerTypes DEF AdmitRefused, LoadRefused, PreflightRefused, End, Goto
  <1>5. ASSUME NEW where \in Journalled \ {"run", "capture", "tidy"}, pc'[r] = where,
               job' = job, mem' = mem, pc[r] \in Journalled,
               Uncommitted(where) => Uncommitted(pc[r]),
               job[r].kind = "apply"
                 \/ (where \in Reverting => pc[r] \in Reverting /\ todo'[r] = todo[r])
        PROVE  RecordInv'
    BY <1>1, <1>5, MovesRecord
  <1> USE DEF Journalled, Unloaded, Uncommitted, Reverting, PCs, LockedPCs, ApplyPCs,
              RollbackPCs, RevertPCs
  <1>6. CASE NextStep(r)
    <2>1. pc[r] = "step" /\ pc'[r] \in {"exec", "commit"} /\ mem' = mem /\ job' = job
      BY <1>6, RunnerTypes DEF NextStep, Goto
    <2>2. job[r].kind = "apply"
      BY <2>1 DEF Invariants, JournalInv, RunnerInv, CommandFits
    <2>3. QED  BY <1>5, <2>1, <2>2
  <1>7. CASE UndoPreflight(r)
    <2>1. pc[r] = "undo" /\ pc'[r] \in {"revert", "stamp"} /\ mem' = mem /\ job' = job
      BY <1>7, RunnerTypes DEF UndoPreflight, Goto
    <2>2. job[r].kind = "apply"
      BY <2>1 DEF Invariants, JournalInv, RunnerInv, CommandFits
    <2>3. QED  BY <1>5, <2>1, <2>2
  <1>8. CASE RevertDone(r)
    <2>1. /\ pc[r] = "revert" /\ mem' = mem /\ job' = job /\ todo' = todo
          /\ \/ job[r].kind = "apply" /\ pc'[r] = "stamp"
             \/ job[r].kind # "apply" /\ pc'[r] = "consume"
      BY <1>8, RunnerTypes DEF RevertDone, Goto
    <2>2. QED  BY <1>5, <2>1
  <1>9. CASE Preflight(r)
    <2>1. pc[r] = "preflight" /\ pc'[r] = "claim" /\ mem' = mem /\ job' = job
      BY <1>9, RunnerTypes DEF Preflight, Goto
    <2>2. QED  BY <1>5, <2>1
  <1>10. CASE Signal(r)
    <2>1. pc' = pc /\ mem' = mem /\ job' = job /\ todo' = todo  BY <1>10 DEF Signal
    <2>2. CASE pc[r] \in Journalled  BY <1>1, <2>1, <2>2, MovesRecord
    <2>3. CASE pc[r] \notin Journalled  BY <1>1, <2>1, <2>3, MovesRecord
    <2>4. QED  BY <2>2, <2>3
  <1>11. QED  BY <1>3, <1>4, <1>6, <1>7, <1>8, <1>9, <1>10

-----------------------------------------------------------------------------
(* A rollback accepts what it loads.                                       *)
LEMMA LoadRecord ==
    ASSUME Invariants, RecordInv, NEW r \in Runners, OthersStill(r), LoadJournal(r)
    PROVE  RecordInv'
  <1> DEFINE p == Prof(r)
  <1>1. /\ UNCHANGED <<host, local, remote, writer, born, job>>
        /\ pc'[r] = "preflight" /\ pc[r] = "load"
    BY RunnerTypes DEF LoadJournal, Goto, hostVars, historyVars
  <1>2. PICK j \in Loadable(r) : Accepted(j) /\ mem' = [mem EXCEPT ![r] = j]
    BY DEF LoadJournal
  <1>3. job[r].kind = "rollback"
    BY <1>1 DEF Invariants, JournalInv, RunnerInv, CommandFits, RollbackPCs
  <1>4. SharedInv'
    BY <1>1
    DEF RecordInv, SharedInv, WritersInv, BirthsInv, LatestRecorded, AcceptedTell,
        StoredJournals
  <1>5. mem'[r] = j /\ Prof(r)' = p /\ Has(r, "local")' = Has(r, "local") /\ p \in Profiles
    BY <1>1, <1>2, RunnerTypes DEF Prof, Has
  <1>6. ExplainsAll(p, j, writer) /\ (Has(r, "local") => local[r][p] = j)
    <2>1. CASE Has(r, "local")
      <3>1. j = local[r][p] /\ j # NoJournal  BY <1>2, <2>1 DEF Loadable
      <3>2. QED  BY <1>2, <1>5, <3>1 DEF RecordInv, SharedInv, AcceptedTell
    <2>2. CASE ~Has(r, "local")
      <3>1. StoredRuns(p) # {} /\ j = remote[p][Newest(p)]  BY <1>2, <2>2 DEF Loadable
      <3>2. Newest(p) \in RunIds /\ remote[p][Newest(p)] # NoJournal
        BY <1>5, <3>1, NewestStored DEF StoredRuns
      <3>3. QED  BY <1>5, <2>2, <3>1, <3>2 DEF RecordInv, SharedInv, AcceptedTell
    <2>3. QED  BY <2>1, <2>2
  <1>7. Applies(r)'  BY <1>1, <1>3 DEF Applies
  <1>8. RollsBack(r)'
    BY <1>1, <1>2, <1>5, <1>6 DEF RollsBack, Reverting, RevertPCs
  <1>9. QED  BY <1>1, <1>4, <1>7, <1>8, RecordStep

(* The new run is the latest, and has written nothing.                     *)
LEMMA NewRunRecord ==
    ASSUME Invariants, HonestInv, RecordInv, NEW r \in Runners, OthersStill(r), NewRun(r)
    PROVE  RecordInv'
  <1> DEFINE p == Prof(r)
             begun == {x \in RunIds : born[x] # 0}
             n == Cardinality(begun)
  <1>1. /\ pc[r] = "admit" /\ Holds(r) /\ p \in Profiles
        /\ UNCHANGED <<host, remote, job, writer>>
    BY RunnerTypes DEF NewRun, hostVars, Holds, LockedPCs, ApplyPCs
  <1>2. PICK k \in RunIds :
          LET j == [run |-> k, status |-> "in_progress", steps |-> <<>>] IN
          /\ born[k] = 0
          /\ \/ /\ SaveLocal(r, j)
                /\ Goto(r, "step")
                /\ mem' = [mem EXCEPT ![r] = j]
                /\ born' = [born EXCEPT ![k] = n + 1]
             \/ UNCHANGED <<local, born>> /\ End(r, "refused")
    BY DEF NewRun, SavedOr, FreshRun
  <1> DEFINE j == [run |-> k, status |-> "in_progress", steps |-> <<>>]
  <1>3. CASE UNCHANGED <<local, born>> /\ End(r, "refused")
    <2>1. pc'[r] = "release"  BY <1>3, RunnerTypes DEF End, Goto
    <2>2. QED  BY <1>1, <1>3, <2>1, MovesRecord DEF Journalled
  <1>4. CASE /\ SaveLocal(r, j)
             /\ Goto(r, "step")
             /\ mem' = [mem EXCEPT ![r] = j]
             /\ born' = [born EXCEPT ![k] = n + 1]
    <2>1. born \in [RunIds -> Nat] /\ IsFiniteSet(RunIds) /\ Nobody \notin RunIds
      BY RecordTypes
    <2>2. IsFiniteSet(begun) /\ n \in Nat  BY <2>1, FS_Subset, FS_CardinalityType
    <2>3. begun \cup {k} = {x \in RunIds : born'[x] # 0}
      <3> HIDE DEF n
      <3>1. \A x \in RunIds : born'[x] = IF x = k THEN n + 1 ELSE born[x]
        BY <1>4, <2>1
      <3>2. n + 1 # 0  BY <2>2
      <3>3. QED  BY <3>1, <3>2
    <2>4. Cardinality(begun \cup {k}) = n + 1
      <3>1. k \notin begun  BY <1>2
      <3>2. QED  BY <2>2, <3>1, FS_AddElement
    <2>5. BirthsInv  BY DEF RecordInv, SharedInv
    <2>6. \A x \in RunIds : born[x] <= n  BY <2>5 DEF BirthsInv
    <2>7. j.run = k /\ j.steps = <<>> /\ Len(j.steps) = 0 /\ j.status = "in_progress"
      OBVIOUS
    <2> HIDE DEF n, begun, j
    <2>8. /\ born'[k] = n + 1 /\ \A x \in RunIds : born'[x] <= n + 1
          /\ \A x \in RunIds \ {k} : born'[x] = born[x]
      BY <1>4, <2>1, <2>2, <2>6
    <2>9. BirthsInv'  BY <2>3, <2>4, <2>8 DEF BirthsInv
    <2>10. WritersInv /\ LatestRecorded /\ AcceptedTell  BY DEF RecordInv, SharedInv
    <2>11. \A o \in Objects : writer[o] # k  BY <1>2, <2>10 DEF WritersInv
    <2>12. WritersInv'  BY <1>1, <1>2, <2>8, <2>10, <2>11 DEF WritersInv
    <2>13. LatestRecorded'
      <3>1. ASSUME NEW x \in RunIds, Latest(born', x) PROVE x = k
        <4>1. born'[k] <= born'[x]  BY <3>1 DEF Latest
        <4>2. x # k => born'[x] <= n  BY <2>6, <2>8
        <4>3. QED  BY <2>1, <2>2, <2>8, <4>1, <4>2
      <3>2. QED  BY <1>1, <2>11, <3>1 DEF LatestRecorded
    <2>14. mem'[r] = j /\ Prof(r)' = p /\ pc'[r] = "step" /\ local'[r][p] = j
           /\ local' = [local EXCEPT ![r][p] = j]
      <3>1. local' = [local EXCEPT ![r][p] = j]  BY <1>4 DEF SaveLocal
      <3>2. mem'[r] = j /\ Prof(r)' = p /\ pc'[r] = "step"
        BY <1>1, <1>4, RunnerTypes DEF Goto, Prof
      <3> HIDE DEF p
      <3>3. QED  BY <1>1, <3>1, <3>2, RunnerTypes
    <2> HIDE DEF p
    <2>15. \A s \in Runners, q \in Profiles : local'[s][q] \in {local[s][q], j}
      BY <1>1, <2>14, RunnerTypes
    <2>16. ~Accepted(j)  BY <2>7 DEF Accepted
    <2>17. AcceptedTell'
      <3>1. \A s \in Runners, q \in Profiles : Accepted(local'[s][q]) =>
              local'[s][q] = local[s][q]
        BY <2>15, <2>16
      <3>2. QED  BY <1>1, <2>10, <3>1 DEF AcceptedTell
    <2>18. NotAccepted(k)'
      <3>1. ASSUME NEW s \in Runners, NEW q \in Profiles, local'[s][q] # NoJournal,
                   Accepted(local'[s][q])
            PROVE  local'[s][q].run # k
        <4>1. local'[s][q] = local[s][q]  BY <2>15, <2>16, <3>1
        <4>2. born[local[s][q].run] # 0  BY <3>1, <4>1 DEF HonestInv, Honest
        <4>3. QED  BY <1>2, <4>1, <4>2
      <3>2. \A q \in Profiles : remote'[q][k] = NoJournal
        BY <1>1, <1>2 DEF Invariants, JournalInv, StoredInv
      <3>3. QED  BY <3>1, <3>2 DEF NotAccepted
    <2>19. SharedInv'  BY <2>9, <2>12, <2>13, <2>17 DEF SharedInv
    <2>20. Applies(r)'
      <3>1. Latest(born', k)  BY <2>8 DEF Latest
      <3>2. ExplainsAll(p, j, writer')  BY <1>1, <2>7, <2>11 DEF ExplainsAll, Explains
      <3>3. AtStep(pc'[r], p, j, local'[r][p], writer', host')  BY <2>14 DEF AtStep
      <3>4. QED  BY <2>7, <2>14, <2>16, <2>18, <3>1, <3>2, <3>3 DEF Applies
    <2>21. RollsBack(r)'
      <3>1. job'[r].kind = "apply"
        BY <1>1 DEF Invariants, JournalInv, RunnerInv, CommandFits, ApplyPCs
      <3>2. QED  BY <3>1 DEF RollsBack
    <2>22. QED  BY <1>1, <2>19, <2>20, <2>21, RecordStep
  <1>5. QED  BY <1>2, <1>3, <1>4

-----------------------------------------------------------------------------
LEMMA ApplyFacts ==
    ASSUME Invariants, RecordInv, NEW r \in Runners, pc[r] \in Journalled,
           job[r].kind = "apply"
    PROVE  /\ Prof(r) \in Profiles /\ Holds(r)
           /\ Fits(Prof(r), mem[r]) /\ mem[r] # NoJournal
           /\ mem[r].run \in RunIds /\ born[mem[r].run] # 0
           /\ Latest(born, mem[r].run)
           /\ ExplainsAll(Prof(r), mem[r], writer)
           /\ local[r][Prof(r)] # NoJournal => local[r][Prof(r)].run = mem[r].run
           /\ AtStep(pc[r], Prof(r), mem[r], local[r][Prof(r)], writer, host)
           /\ Uncommitted(pc[r]) => ~Accepted(mem[r]) /\ NotAccepted(mem[r].run)
           /\ pc[r] = "tidy" => remote[Prof(r)][mem[r].run] # NoJournal
  <1>1. Prof(r) \in Profiles /\ Fits(Prof(r), mem[r]) /\ mem[r] \in Journals
    BY RunnerFacts DEF Invariants
  <1>2. mem[r] # NoJournal /\ mem[r].run \in RunIds
    BY <1>1, NoJournalAssumption DEF Journals
  <1>3. born[mem[r].run] # 0  BY <1>2 DEF Invariants, JournalInv, RunnerInv, UnderWay
  <1>4. Holds(r)  BY DEF Holds, Journalled, Unloaded, PCs, LockedPCs
  <1>5. Applies(r)  BY DEF RecordInv
  <1>6. QED  BY <1>1, <1>2, <1>3, <1>4, <1>5 DEF Applies

(* A run that applies keeps its journal j, which no rollback accepts, in   *)
(* memory and perhaps on the disk.                                         *)
LEMMA SavesRecord ==
    ASSUME Invariants, RecordInv, NEW r \in Runners, OthersStill(r),
           pc[r] \in Journalled, Uncommitted(pc[r]), job[r].kind = "apply",
           UNCHANGED <<host, remote, writer, born, job>>,
           NEW j, Fits(Prof(r), j), j # NoJournal, j.run = mem[r].run, ~Accepted(j),
           ExplainsAll(Prof(r), j, writer),
           mem'[r] = j, local' = local \/ SaveLocal(r, j), pc'[r] # "tidy",
           AtStep(pc'[r], Prof(r), j, local'[r][Prof(r)], writer, host)
    PROVE  RecordInv'
  <1> DEFINE p == Prof(r)
             k == mem[r].run
  <1>1. /\ p \in Profiles /\ Holds(r) /\ k \in RunIds /\ born[k] # 0 /\ Latest(born, k)
        /\ local[r][p] # NoJournal => local[r][p].run = k
        /\ NotAccepted(k)
    BY ApplyFacts
  <1>2. SharedInv  BY DEF RecordInv
  <1>3. \A o \in Objects : Latest(born, k) /\ writer'[o] = k =>
          \E y \in StoredJournals(k)' : Covering(y, o) # {}
    <2>1. CASE SaveLocal(r, j)  BY <1>1, <2>1, WellRecorded
    <2>2. CASE local' = local
      <3>1. UNCHANGED <<local, remote>> /\ \A o \in Objects : writer'[o] \in {writer[o], Nobody}
        BY <2>2
      <3>2. QED  BY <1>1, <1>2, <3>1, StillRecorded
    <2>3. QED  BY <2>1, <2>2
  <1>4. SharedInv'
    <2>1. NoJournal # NoJournal => ExplainsAll(Prof(r), NoJournal, writer')  OBVIOUS
    <2>2. remote' \in {remote, [remote EXCEPT ![Prof(r)][k] = NoJournal]}  OBVIOUS
    <2>3. \A o \in Objects : writer'[o] \in {writer[o], Nobody}  OBVIOUS
    <2>4. \/ local' = local
          \/ /\ SaveLocal(r, j)
             /\ local[r][Prof(r)] # NoJournal => local[r][Prof(r)].run = k
             /\ j # NoJournal /\ Accepted(j) => ExplainsAll(Prof(r), j, writer')
      BY <1>1
    <2>5. QED  BY <1>1, <1>2, <1>3, <2>1, <2>2, <2>3, <2>4, SharedAfter
  <1>5. Prof(r)' = p /\ job'[r] = job[r]  BY DEF Prof
  <1> HIDE DEF p
  <1>6. \A s \in Runners, q \in Profiles : local'[s][q] \in {local[s][q], j}
    <2>1. CASE local' = local  BY <2>1
    <2>2. CASE SaveLocal(r, j)  BY <1>1, <2>2, RunnerTypes DEF SaveLocal, p
    <2>3. QED  BY <2>1, <2>2
  <1>7. NotAccepted(k)'
    <2>1. \A s \in Runners, q \in Profiles : Accepted(local'[s][q]) =>
            local'[s][q] = local[s][q]
      BY <1>6
    <2>2. QED  BY <1>1, <2>1 DEF NotAccepted
  <1>8. local'[r][p] # NoJournal => local'[r][p].run = k  BY <1>1, <1>6
  <1>9. Applies(r)'
    BY <1>1, <1>5, <1>7, <1>8 DEF Applies, p
  <1>10. RollsBack(r)'  BY <1>5 DEF RollsBack
  <1>11. QED  BY <1>1, <1>4, <1>9, <1>10, RecordStep

LEMMA StampRecord ==
    ASSUME Invariants, RecordInv, NEW r \in Runners, OthersStill(r),
           Interrupt(r) \/ StampFailed(r)
    PROVE  RecordInv'
  <1> DEFINE p == Prof(r)
  <1>1. pc[r] \in {"step", "stamp"}  BY DEF Interrupt, StampFailed
  <1>2. pc[r] \in Journalled /\ Uncommitted(pc[r]) /\ pc[r] \in ApplyPCs
    BY <1>1
    DEF Journalled, Unloaded, Uncommitted, PCs, LockedPCs, ApplyPCs, RevertPCs
  <1>3. job[r].kind = "apply"
    BY <1>2 DEF Invariants, JournalInv, RunnerInv, CommandFits
  <1>4. p \in Profiles /\ Fits(p, mem[r]) /\ ExplainsAll(p, mem[r], writer)
    BY <1>2, <1>3, ApplyFacts
  <1>5. UNCHANGED <<host, remote, writer, born, job>>
    BY DEF Interrupt, StampFailed, hostVars, historyVars
  <1>6. PICK s \in {"interrupted", "failed"} :
          /\ mem' = [mem EXCEPT ![r] = WithStatus(mem[r], s)]
          /\ local' = local \/ SaveLocal(r, WithStatus(mem[r], s))
    <2>1. CASE Interrupt(r)  BY <2>1 DEF Interrupt, SavedOr
    <2>2. CASE StampFailed(r)  BY <2>2 DEF StampFailed, SavedOr
    <2>3. QED  BY <2>1, <2>2
  <1>7. pc'[r] \in {"stamp", "undo", "release"}
    BY RunnerTypes DEF Interrupt, StampFailed, Goto
  <1> DEFINE j == WithStatus(mem[r], s)
  <1>8. s \in Statuses  BY DEF Statuses
  <1>9. /\ Fits(p, j) /\ j # NoJournal /\ j.run = mem[r].run /\ j.status = s
        /\ ExplainsAll(p, j, writer)
    BY <1>4, <1>8, StampedFits, RestampedExplains
  <1>10. mem'[r] = j  BY <1>6, RunnerTypes
  <1>11. local' = local \/ SaveLocal(r, j)  BY <1>6
  <1> HIDE DEF j
  <1>12. ~Accepted(j)  BY <1>9 DEF Accepted
  <1>13. pc'[r] # "tidy" /\ AtStep(pc'[r], p, j, local'[r][p], writer, host)
    BY <1>7 DEF AtStep
  <1>14. QED
    BY <1>2, <1>3, <1>5, <1>9, <1>10, <1>11, <1>12, <1>13, SavesRecord

(* A step of which only the capture before is recorded explains nothing    *)
(* new; the capture after it explains what is not as it was.               *)
LEMMA RecordedExplains ==
    ASSUME NEW p \in Profiles, NEW j, Fits(p, j), Len(j.steps) < Len(StepsOf[p]),
           NEW c \in Capture(p, Len(j.steps) + 1), NEW by, ExplainsAll(p, j, by)
    PROVE  LET n == Recorded(j, c) IN
           /\ Explains(p, n, Len(n.steps) - 1, by)
           /\ ExplainsAll(p, n, by)
  <1> DEFINE n == Recorded(j, c)
             m == Len(j.steps)
  <1>1. /\ n.run = j.run /\ Len(n.steps) = m + 1
        /\ \A i \in 1..m : n.steps[i] = j.steps[i]
    BY ZenonT(40), AppendedFits
  <1>2. m \in Nat  BY DEF Fits, Journals
  <1> HIDE DEF n, m
  <1>3. \A i \in 1..m : Changed(n, i) <=> Changed(j, i)  BY <1>1 DEF Changed
  <1>4. Explains(p, n, m, by)
    BY <1>1, <1>3 DEF ExplainsAll, Explains, ChangedBy, m
  <1>5. Explains(p, n, m + 1, by)
    <2>1. \A i \in 1..m : i \in 1..(m + 1)  BY <1>2
    <2>2. QED  BY <1>4, <2>1 DEF Explains, ChangedBy
  <1>6. Len(n.steps) - 1 = m  BY <1>1, <1>2
  <1>7. Explains(p, n, Len(n.steps) - 1, by) /\ ExplainsAll(p, n, by)
    BY <1>1, <1>4, <1>5, <1>6 DEF ExplainsAll
  <1>8. QED  BY <1>7 DEF n

LEMMA CompletedExplains ==
    ASSUME NEW p \in Profiles, NEW j, Fits(p, j), Len(j.steps) > 0,
           NEW c \in Capture(p, Len(j.steps)), NEW saved, NEW by, NEW now,
           AtStep("capture", p, j, saved, by, now),
           \A o \in ObjectsOf(p, Len(j.steps)) : c[o] = now[o]
    PROVE  ExplainsAll(p, Completed(j, c), by)
  <1> DEFINE n == Completed(j, c)
             m == Len(j.steps)
  <1>1. /\ n.run = j.run /\ Len(n.steps) = m
        /\ \A i \in 1..(m - 1) : n.steps[i] = j.steps[i]
        /\ n.steps[m].before = j.steps[m].before /\ n.steps[m].after = c
    BY CompletedFits
  <1>2. m \in Nat /\ m > 0  BY DEF Fits, Journals
  <1>3. \A o \in Objects : by[o] = j.run =>
          \/ ChangedBy(p, j, o, m - 1)
          \/ o \in ObjectsOf(p, m) /\ j.steps[m].before[o] # now[o]
    BY DEF AtStep
  <1>4. \A o \in ObjectsOf(p, m) : c[o] = now[o]  OBVIOUS
  <1> HIDE DEF n, m
  <1>5. ASSUME NEW o \in Objects, by[o] = n.run PROVE ChangedBy(p, n, o, m)
    <2>1. CASE ChangedBy(p, j, o, m - 1)
      <3>1. PICK i \in 1..(m - 1) : o \in ObjectsOf(p, i) /\ Changed(j, i)
        BY <2>1 DEF ChangedBy
      <3>2. i \in 1..m /\ Changed(n, i)  BY <1>1, <1>2, <3>1 DEF Changed
      <3>3. QED  BY <3>1, <3>2 DEF ChangedBy
    <2>2. CASE o \in ObjectsOf(p, m) /\ j.steps[m].before[o] # now[o]
      <3>1. n.steps[m].before[o] # n.steps[m].after[o]  BY <1>1, <1>4, <2>2
      <3>2. Changed(n, m) /\ m \in 1..m  BY <1>2, <3>1 DEF Changed
      <3>3. QED  BY <2>2, <3>2 DEF ChangedBy
    <2>3. QED  BY <1>1, <1>3, <1>5, <2>1, <2>2
  <1>6. QED  BY <1>1, <1>5 DEF ExplainsAll, Explains, n

LEMMA CaptureRecord ==
    ASSUME Invariants, RecordInv, NEW r \in Runners, OthersStill(r),
           CaptureBefore(r) \/ CaptureAfter(r)
    PROVE  RecordInv'
  <1> DEFINE p == Prof(r)
             m == Len(mem[r].steps)
  <1>1. /\ pc[r] \in {"exec", "capture"} /\ pc[r] \in Journalled /\ pc[r] \in ApplyPCs
        /\ Uncommitted(pc[r])
    BY DEF CaptureBefore, CaptureAfter, Journalled, Unloaded, Uncommitted, PCs, LockedPCs,
           ApplyPCs, RevertPCs
  <1>2. job[r].kind = "apply"
    BY <1>1 DEF Invariants, JournalInv, RunnerInv, CommandFits
  <1>3. /\ p \in Profiles /\ Fits(p, mem[r]) /\ ExplainsAll(p, mem[r], writer)
        /\ AtStep(pc[r], p, mem[r], local[r][p], writer, host) /\ ~Accepted(mem[r])
        /\ RunnerFits(pc[r], p, mem[r], todo[r])
    BY <1>1, <1>2, ApplyFacts, RunnerFacts DEF Invariants
  <1>4. UNCHANGED <<host, remote, born, job>>
    BY DEF CaptureBefore, CaptureAfter, hostVars, historyVars
  <1>5. \A i \in 1..Len(StepsOf[p]) :
          /\ Snapshot(p, i) \in Capture(p, i)
          /\ \A o \in ObjectsOf(p, i) : Snapshot(p, i)[o] = host[o]
    BY <1>3, HostTypes, SnapshotType DEF Snapshot
  <1>6. m \in Nat /\ Len(StepsOf[p]) \in Nat
    BY <1>3, RulesAssumption DEF RulesAssumption, Fits, Journals
  <1>7. ASSUME UNCHANGED <<mem, local, writer>>, pc'[r] = "undo" PROVE RecordInv'
    BY <1>1, <1>2, <1>4, <1>7, MovesRecord
  <1>8. CASE CaptureBefore(r)
    <2> DEFINE c == Snapshot(p, m + 1)
               j == Recorded(mem[r], c)
    <2>1. pc[r] = "exec" /\ m < Len(StepsOf[p]) /\ m + 1 \in 1..Len(StepsOf[p])
      BY <1>3, <1>6, <1>8 DEF CaptureBefore, RunnerFits
    <2>2. c \in Capture(p, m + 1) /\ \A o \in ObjectsOf(p, m + 1) : c[o] = host[o]
      BY <1>5, <2>1
    <2>3. writer' = writer  BY <1>8 DEF CaptureBefore, historyVars
    <2>4. \/ UNCHANGED <<mem, local>> /\ pc'[r] = "undo"
          \/ /\ mem' = [mem EXCEPT ![r] = j]
             /\ \/ SaveLocal(r, j) /\ pc'[r] = "run"
                \/ local' = local /\ pc'[r] = "undo"
      BY <1>8, RunnerTypes DEF CaptureBefore, SavedOr, Goto
    <2> HIDE DEF c
    <2>5. p \in Profiles /\ Fits(p, mem[r]) /\ m < Len(StepsOf[p]) /\ c \in Capture(p, m + 1)
      BY <1>3, <2>1, <2>2
    <2>6. /\ Fits(p, j) /\ j # NoJournal /\ j.run = mem[r].run /\ j.status = mem[r].status
          /\ Len(j.steps) = m + 1 /\ j.steps[m + 1] = [before |-> c, after |-> Uncaptured]
      BY <2>5, AppendedFits
    <2>7. Explains(p, j, Len(j.steps) - 1, writer) /\ ExplainsAll(p, j, writer)
      BY <1>3, <2>5, RecordedExplains
    <2> HIDE DEF j, m
    <2>8. CASE UNCHANGED <<mem, local>> /\ pc'[r] = "undo"  BY <1>7, <2>3, <2>8
    <2>9. CASE /\ mem' = [mem EXCEPT ![r] = j]
               /\ \/ SaveLocal(r, j) /\ pc'[r] = "run"
                  \/ local' = local /\ pc'[r] = "undo"
      <3>1. ~Accepted(j)  BY <1>3, <2>6 DEF Accepted
      <3>2. mem'[r] = j /\ pc'[r] # "tidy"  BY <2>9, RunnerTypes
      <3>3. AtStep(pc'[r], p, j, local'[r][p], writer, host)
        <4>1. CASE pc'[r] = "undo"  BY <4>1 DEF AtStep
        <4>2. CASE pc'[r] = "run" /\ SaveLocal(r, j)
          <5>1. local'[r][p] = j
            <6>1. local' = [local EXCEPT ![r][p] = j]  BY <4>2 DEF SaveLocal
            <6> HIDE DEF p
            <6>2. QED  BY <1>3, <6>1, RunnerTypes
          <5>2. \A o \in ObjectsOf(p, Len(j.steps)) : j.steps[Len(j.steps)].before[o] = host[o]
            BY <2>2, <2>6
          <5>3. QED  BY <2>7, <4>2, <5>1, <5>2 DEF AtStep
        <4>3. QED  BY <2>9, <4>1, <4>2
      <3>4. local' = local \/ SaveLocal(r, j)  BY <2>9
      <3>5. QED
        BY <1>1, <1>2, <1>4, <2>3, <2>6, <2>7, <3>1, <3>2, <3>3, <3>4, SavesRecord
    <2>10. QED  BY <2>4, <2>8, <2>9
  <1>9. CASE CaptureAfter(r)
    <2> DEFINE c == Snapshot(p, m)
               j == Completed(mem[r], c)
    <2>1. pc[r] = "capture" /\ m > 0 /\ m \in 1..Len(StepsOf[p])
      BY <1>3, <1>6, <1>9 DEF CaptureAfter, RunnerFits, Fits
    <2>2. c \in Capture(p, m) /\ \A o \in ObjectsOf(p, m) : c[o] = host[o]
      BY <1>5, <2>1
    <2>3. writer' = writer
      <3>1. \A o \in Objects : writer[o] # Outside
        BY DEF RecordInv, SharedInv, WritersInv
      <3>2. writer' = writer \/ writer' = [o \in Objects |-> writer[o]]
        <4>1. CASE UNCHANGED writer  BY <4>1
        <4>2. CASE writer' = [o \in Objects |->
                                IF o \in ObjectsOf(p, m) /\ writer[o] = Outside
                                THEN mem[r].run ELSE writer[o]]
          BY <3>1, <4>2
        <4>3. QED  BY <1>9, <4>1, <4>2 DEF CaptureAfter
      <3>3. QED  BY <3>2, RecordTypes
    <2>4. \/ UNCHANGED <<mem, local>> /\ pc'[r] = "undo"
          \/ /\ mem' = [mem EXCEPT ![r] = j]
             /\ local' = local \/ SaveLocal(r, j)
             /\ pc'[r] \in {"step", "undo"}
      BY <1>9, RunnerTypes DEF CaptureAfter, SavedOr, Goto
    <2> HIDE DEF c
    <2>5. p \in Profiles /\ Fits(p, mem[r]) /\ m > 0 /\ c \in Capture(p, m)
      BY <1>3, <2>1, <2>2
    <2>6. Fits(p, j) /\ j # NoJournal /\ j.run = mem[r].run /\ j.status = mem[r].status
      BY <2>5, CompletedFits
    <2>7. ExplainsAll(p, j, writer)
      BY <1>3, <2>1, <2>2, <2>5, CompletedExplains
    <2> HIDE DEF j, m
    <2>8. CASE UNCHANGED <<mem, local>> /\ pc'[r] = "undo"  BY <1>7, <2>3, <2>8
    <2>9. CASE /\ mem' = [mem EXCEPT ![r] = j]
               /\ local' = local \/ SaveLocal(r, j)
               /\ pc'[r] \in {"step", "undo"}
      <3>1. ~Accepted(j)  BY <1>3, <2>6 DEF Accepted
      <3>2. mem'[r] = j /\ pc'[r] # "tidy"  BY <2>9, RunnerTypes
      <3>3. AtStep(pc'[r], p, j, local'[r][p], writer, host)  BY <2>9 DEF AtStep
      <3>4. QED
        BY <1>1, <1>2, <1>4, <2>3, <2>6, <2>7, <2>9, <3>1, <3>2, <3>3, SavesRecord
    <2>10. QED  BY <2>4, <2>8, <2>9
  <1>10. QED  BY <1>8, <1>9

(* A plugin changes what its recorded step captured, and nothing else.     *)
LEMMA RunStepRecord ==
    ASSUME Invariants, HostInv, RecordInv, NEW r \in Runners, OthersStill(r), RunStep(r)
    PROVE  RecordInv'
  <1> DEFINE p == Prof(r)
             m == Len(mem[r].steps)
  <1>0. PICK k \in RunIds : mem[r].run = k
    BY PluginsStay DEF Fits, Journals
  <1>1. /\ p \in Profiles /\ Fits(p, mem[r]) /\ mem[r] # NoJournal /\ Holds(r)
        /\ m \in 1..Len(mem[r].steps) /\ m \in 1..Len(StepsOf[p])
        /\ \A o \in Objects : o \notin ObjectsOf(p, m) => host'[o] = host[o]
    BY PluginsStay
  <1>2. /\ pc[r] = "run" /\ pc'[r] \in {"capture", "undo"}
        /\ UNCHANGED <<local, remote, born, mem, job, todo>>
        /\ writer' = [o \in Objects |-> IF host'[o] # host[o] THEN k ELSE writer[o]]
    BY <1>0, RunnerTypes DEF RunStep, Goto, WrittenBy
  <1>3. pc[r] \in Journalled /\ Uncommitted(pc[r]) /\ pc[r] \in ApplyPCs
    BY <1>2 DEF Journalled, Unloaded, Uncommitted, PCs, LockedPCs, ApplyPCs, RevertPCs
  <1>4. job[r].kind = "apply"
    BY <1>3 DEF Invariants, JournalInv, RunnerInv, CommandFits
  <1>5. /\ born[k] # 0 /\ Latest(born, k)
        /\ ExplainsAll(p, mem[r], writer)
        /\ local[r][p] # NoJournal => local[r][p].run = k
        /\ AtStep("run", p, mem[r], local[r][p], writer, host)
        /\ ~Accepted(mem[r]) /\ NotAccepted(k)
    BY <1>0, <1>2, <1>3, <1>4, ApplyFacts
  <1>6. Changed(mem[r], m)
    <2>1. Running(pc[r], p, mem[r], host, origin)  BY DEF HostInv, RunnerHost
    <2>2. mem[r].steps[m].after = Uncaptured  BY <1>2, <2>1 DEF Running, RunPCs
    <2>3. mem[r].steps[m].before \in Capture(p, m)  BY <1>1 DEF Fits
    <2>4. mem[r].steps[m].before # Uncaptured  BY <1>1, <2>3, CaptureType
    <2>5. QED  BY <2>2, <2>4 DEF Changed
  <1>7. /\ local[r][p] = mem[r]
        /\ Explains(p, mem[r], m - 1, writer)
        /\ \A o \in ObjectsOf(p, m) : mem[r].steps[m].before[o] = host[o]
    BY <1>5 DEF AtStep
  <1> HIDE DEF p, m
  <1>8. \A o \in Objects :
          /\ host'[o] # host[o] => writer'[o] = k /\ o \in ObjectsOf(p, m)
          /\ host'[o] = host[o] => writer'[o] = writer[o]
    BY <1>1, <1>2
  <1>9. ExplainsAll(p, mem[r], writer')
    <2>1. SUFFICES ASSUME NEW o \in Objects, writer'[o] = k
                   PROVE  ChangedBy(p, mem[r], o, Len(mem[r].steps))
      BY <1>0 DEF ExplainsAll, Explains
    <2>2. CASE host'[o] # host[o]  BY <1>1, <1>6, <1>8, <2>2 DEF ChangedBy
    <2>3. CASE host'[o] = host[o]
      BY <1>0, <1>5, <1>8, <2>1, <2>3 DEF ExplainsAll, Explains
    <2>4. QED  BY <2>2, <2>3
  <1>10. SharedInv  BY DEF RecordInv
  <1>11. local'[r][Prof(r)] = mem[r] /\ mem[r].run = k  BY <1>0, <1>2, <1>7 DEF p
  <1>12. \A o \in Objects : Latest(born, k) /\ writer'[o] = k =>
           \E y \in StoredJournals(k)' : Covering(y, o) # {}
    <2>1. /\ Fits(Prof(r), mem[r]) /\ mem[r] # NoJournal /\ mem[r].run = k
          /\ ExplainsAll(Prof(r), mem[r], writer')
          /\ local'[r][Prof(r)] = mem[r]
      BY <1>1, <1>9, <1>11 DEF p
    <2>2. QED  BY <1>5, <2>1, WellRecorded
  <1>13. SharedInv'
    <2>1. remote' \in {remote, [remote EXCEPT ![Prof(r)][k] = NoJournal]} /\ local' = local
      BY <1>2
    <2>2. \/ \A o \in Objects : writer'[o] \in {writer[o], Nobody}
          \/ NotAccepted(k) /\ \A o \in Objects : writer'[o] \in {writer[o], k}
      BY <1>5, <1>8
    <2>3. NoJournal # NoJournal => ExplainsAll(Prof(r), NoJournal, writer')  OBVIOUS
    <2>4. born' = born  BY <1>2
    <2>5. QED  BY <1>5, <1>10, <1>12, <2>1, <2>2, <2>3, <2>4, SharedAfter
  <1>14. Prof(r)' = p /\ mem'[r] = mem[r] /\ job'[r] = job[r]  BY <1>2 DEF Prof, p
  <1>15. AtStep(pc'[r], p, mem[r], local[r][p], writer', host')
    <2>1. SUFFICES ASSUME NEW o \in Objects, writer'[o] = k
                   PROVE  \/ ChangedBy(p, mem[r], o, m - 1)
                          \/ o \in ObjectsOf(p, m) /\ mem[r].steps[m].before[o] # host'[o]
      BY <1>0, <1>2 DEF AtStep, m
    <2>2. CASE host'[o] # host[o]  BY <1>7, <1>8, <2>2
    <2>3. CASE host'[o] = host[o]  BY <1>0, <1>7, <1>8, <2>1, <2>3 DEF Explains
    <2>4. QED  BY <2>2, <2>3
  <1>16. NotAccepted(k)'  BY <1>2, <1>5 DEF NotAccepted
  <1>17. Applies(r)'
    BY <1>0, <1>2, <1>5, <1>9, <1>14, <1>15, <1>16 DEF Applies, Latest
  <1>18. RollsBack(r)'  BY <1>4, <1>14 DEF RollsBack
  <1>19. QED  BY <1>1, <1>13, <1>17, <1>18, RecordStep

(* Every step is applied: the journal on the host is the run's record, and *)
(* the local one may go.                                                   *)
LEMMA CommitRecord ==
    ASSUME Invariants, RecordInv, NEW r \in Runners, OthersStill(r), Commit(r)
    PROVE  RecordInv'
  <1> DEFINE p == Prof(r)
             j == WithStatus(mem[r], "success")
  <1>1. /\ pc[r] = "commit" /\ UNCHANGED <<host, local, writer, born, job>>
        /\ mem' = [mem EXCEPT ![r] = j]
        /\ \/ remote' = [remote EXCEPT ![p][j.run] = j] /\ pc' = [pc EXCEPT ![r] = "tidy"]
           \/ /\ remote' \in {remote, [remote EXCEPT ![p][j.run] = j]}
              /\ pc' = [pc EXCEPT ![r] = "fallback"]
    BY DEF Commit, Goto
  <1>2. pc[r] \in Journalled /\ pc[r] \in ApplyPCs
    BY <1>1 DEF Journalled, Unloaded, PCs, LockedPCs, ApplyPCs
  <1>3. job[r].kind = "apply"
    BY <1>2 DEF Invariants, JournalInv, RunnerInv, CommandFits
  <1>4. PICK k \in RunIds : mem[r].run = k  BY <1>2, <1>3, ApplyFacts
  <1>5. /\ p \in Profiles /\ Holds(r) /\ Fits(p, mem[r])
        /\ born[k] # 0 /\ Latest(born, k)
        /\ ExplainsAll(p, mem[r], writer)
        /\ local[r][p] # NoJournal => local[r][p].run = k
    BY <1>2, <1>3, <1>4, ApplyFacts
  <1>6. Fits(p, j) /\ j # NoJournal /\ j.run = k /\ ExplainsAll(p, j, writer)
    <2>1. "success" \in Statuses  BY DEF Statuses
    <2>2. QED  BY <1>4, <1>5, <2>1, StampedFits, RestampedExplains
  <1> HIDE DEF j
  <1>7. \/ remote' = [remote EXCEPT ![p][k] = j] /\ pc'[r] = "tidy"
        \/ remote' = [remote EXCEPT ![p][k] = j] /\ pc'[r] = "fallback"
        \/ remote' = remote /\ pc'[r] = "fallback"
    BY <1>1, <1>6, RunnerTypes
  <1>8. /\ remote' = remote \/ remote'[p][k] = j
        /\ pc'[r] = "fallback" \/ (pc'[r] = "tidy" /\ remote'[p][k] = j)
    <2>1. CASE remote' = [remote EXCEPT ![p][k] = j]
      <3> HIDE DEF p
      <3>1. remote'[p][k] = j  BY <1>5, <2>1, RunnerTypes
      <3>2. QED  BY <1>7, <3>1
    <2>2. CASE remote' = remote /\ pc'[r] = "fallback"  BY <2>2
    <2>3. QED  BY <1>7, <2>1, <2>2
  <1>9. SharedInv  BY DEF RecordInv
  <1>10. \A o \in Objects : writer'[o] \in {writer[o], Nobody}  BY <1>1
  <1>11. \A o \in Objects : Latest(born, k) /\ writer'[o] = k =>
           \E y \in StoredJournals(k)' : Covering(y, o) # {}
    <2>1. CASE remote' = remote
      <3>1. UNCHANGED <<local, remote>>  BY <1>1, <2>1
      <3>2. QED  BY <1>9, <1>10, <3>1, StillRecorded
    <2>2. CASE remote'[p][k] = j
      <3>1. /\ Fits(Prof(r), j) /\ j # NoJournal /\ j.run = k
            /\ ExplainsAll(Prof(r), j, writer') /\ remote'[Prof(r)][k] = j
        BY <1>1, <1>6, <2>2
      <3>2. QED  BY <3>1, WellRecorded
    <2>3. QED  BY <1>8, <2>1, <2>2
  <1>12. SharedInv'
    <2>1. /\ local' = local /\ born' = born
          /\ j # NoJournal => ExplainsAll(Prof(r), j, writer')
          /\ remote' \in {remote, [remote EXCEPT ![Prof(r)][k] = j]}
      BY <1>1, <1>6, <1>7
    <2>2. QED  BY <1>5, <1>9, <1>10, <1>11, <2>1, SharedAfter
  <1>13. mem'[r] = j /\ Prof(r)' = p /\ job'[r] = job[r]  BY <1>1, RunnerTypes DEF Prof
  <1>14. ~Uncommitted(pc'[r])  BY <1>8 DEF Uncommitted
  <1>15. AtStep(pc'[r], p, j, local'[r][p], writer', host')  BY <1>8 DEF AtStep
  <1>16. Applies(r)'
    BY <1>1, <1>5, <1>6, <1>8, <1>13, <1>14, <1>15 DEF Applies
  <1>17. RollsBack(r)'  BY <1>3, <1>13 DEF RollsBack
  <1>18. QED  BY <1>5, <1>12, <1>16, <1>17, RecordStep

LEMMA TidyRecord ==
    ASSUME Invariants, RecordInv, NEW r \in Runners, OthersStill(r), Tidy(r) \/ Fallback(r)
    PROVE  RecordInv'
  <1> DEFINE p == Prof(r)
  <1>1. /\ pc[r] \in {"tidy", "fallback"}
        /\ UNCHANGED <<host, remote, writer, born>> /\ pc'[r] = "release"
        /\ \/ local' = local \/ SaveLocal(r, mem[r])
           \/ pc[r] = "tidy" /\ SaveLocal(r, NoJournal)
    BY RunnerTypes DEF Tidy, Fallback, SavedOr, End, Goto, hostVars, historyVars
  <1>2. pc[r] \in Journalled /\ pc[r] \in ApplyPCs
    BY <1>1 DEF Journalled, Unloaded, PCs, LockedPCs, ApplyPCs
  <1>3. job[r].kind = "apply"
    BY <1>2 DEF Invariants, JournalInv, RunnerInv, CommandFits
  <1>4. PICK k \in RunIds : mem[r].run = k  BY <1>2, <1>3, ApplyFacts
  <1>5. /\ p \in Profiles /\ Holds(r) /\ Fits(p, mem[r]) /\ mem[r] # NoJournal
        /\ born[k] # 0 /\ Latest(born, k)
        /\ ExplainsAll(p, mem[r], writer)
        /\ local[r][p] # NoJournal => local[r][p].run = k
        /\ pc[r] = "tidy" => remote[p][k] # NoJournal
    BY <1>2, <1>3, <1>4, ApplyFacts
  <1>6. SharedInv  BY DEF RecordInv
  <1>7. \A o \in Objects : writer'[o] \in {writer[o], Nobody}  BY <1>1
  <1>8. \A o \in Objects : Latest(born, k) /\ writer'[o] = k =>
          \E y \in StoredJournals(k)' : Covering(y, o) # {}
    <2>1. CASE local' = local
      <3>1. UNCHANGED <<local, remote>>  BY <1>1, <2>1
      <3>2. QED  BY <1>6, <1>7, <3>1, StillRecorded
    <2>2. CASE SaveLocal(r, mem[r])
      <3>1. /\ Fits(Prof(r), mem[r]) /\ mem[r] # NoJournal /\ mem[r].run = k
            /\ ExplainsAll(Prof(r), mem[r], writer') /\ SaveLocal(r, mem[r])
        BY <1>1, <1>4, <1>5, <2>2
      <3>2. QED  BY <3>1, WellRecorded
    <2>3. CASE pc[r] = "tidy"
      <3>1. remote[p][k] # NoJournal  BY <1>5, <2>3
      <3>2. Fits(p, remote[p][k])
        BY <1>5, <3>1 DEF Invariants, TypeInv, StoredFits
      <3>3. remote[p][k].run = k
        BY <1>5, <3>1 DEF Invariants, JournalInv, StoredInv
      <3>4. ExplainsAll(p, remote[p][k], writer)
        BY <1>5, <1>6, <3>1 DEF SharedInv, AcceptedTell
      <3>5. /\ Fits(Prof(r), remote[p][k]) /\ remote[p][k] # NoJournal
            /\ remote[p][k].run = k /\ ExplainsAll(Prof(r), remote[p][k], writer')
            /\ remote'[Prof(r)][k] = remote[p][k]
        BY <1>1, <3>1, <3>2, <3>3, <3>4
      <3>6. QED  BY <3>5, WellRecorded
    <2>4. QED  BY <1>1, <2>1, <2>2, <2>3
  <1>9. SharedInv'
    <2>1. PICK j \in {mem[r], NoJournal} :
            \/ local' = local
            \/ /\ SaveLocal(r, j)
               /\ local[r][Prof(r)] # NoJournal => local[r][Prof(r)].run = k
               /\ j # NoJournal /\ Accepted(j) => ExplainsAll(Prof(r), j, writer')
      BY <1>1, <1>5
    <2>2. remote' \in {remote, [remote EXCEPT ![Prof(r)][k] = NoJournal]} /\ born' = born
      BY <1>1
    <2>3. NoJournal # NoJournal => ExplainsAll(Prof(r), NoJournal, writer')  OBVIOUS
    <2>4. QED  BY <1>5, <1>6, <1>7, <1>8, <2>1, <2>2, <2>3, SharedAfter
  <1>10. Applies(r)' /\ RollsBack(r)'  BY <1>1 DEF Applies, RollsBack, Journalled
  <1>11. QED  BY <1>5, <1>9, <1>10, RecordStep

-----------------------------------------------------------------------------
LEMMA RollbackFacts ==
    ASSUME Invariants, RecordInv, NEW r \in Runners, pc[r] \in Journalled,
           job[r].kind = "rollback"
    PROVE  /\ Prof(r) \in Profiles /\ Holds(r)
           /\ Fits(Prof(r), mem[r]) /\ mem[r] # NoJournal /\ mem[r].run \in RunIds
           /\ Accepted(mem[r])
           /\ ExplainsAll(Prof(r), mem[r], writer)
           /\ Has(r, "local") => local[r][Prof(r)] = mem[r]
           /\ pc[r] \in Reverting => StillToDo(Prof(r), mem[r], todo[r], writer)
  <1>1. Prof(r) \in Profiles /\ Fits(Prof(r), mem[r]) /\ mem[r] \in Journals
    BY RunnerFacts DEF Invariants
  <1>2. mem[r] # NoJournal /\ mem[r].run \in RunIds
    BY <1>1, NoJournalAssumption DEF Journals
  <1>3. Holds(r)  BY DEF Holds, Journalled, Unloaded, PCs, LockedPCs
  <1>4. RollsBack(r)  BY DEF RecordInv
  <1>5. QED  BY <1>1, <1>2, <1>3, <1>4 DEF RollsBack

(* What a restoration is done with, nobody is the writer of.               *)
LEMMA RestoreWriter ==
    ASSUME Invariants, HostInv, NEW r \in Runners, RevertObject(r) \/ SettleObject(r)
    PROVE  \E it \in todo[r] : LET o == Steps(r)[it[1]].objects[it[2]] IN
             /\ o \in Objects
             /\ UNCHANGED <<local, remote, born, mem, job>>
             /\ \/ writer' = writer /\ todo'[r] = todo[r]
                \/ Overwritten(o) /\ todo'[r] = todo[r]
                \/ writer' = [writer EXCEPT ![o] = Nobody] /\ todo'[r] = todo[r] \ {it}
             /\ pc'[r] \in {"revert", "settle", "stamp", "release"}
             /\ job[r].kind # "apply" => pc'[r] # "stamp"
  <1>1. pc[r] \in {"revert", "settle"}  BY Zenon DEF RevertObject, SettleObject
  <1>2. RunnerFits(pc[r], Prof(r), mem[r], todo[r]) /\ Prof(r) \in Profiles
    BY SMTT(30), RunnerFacts DEF Invariants
  <1> DEFINE O(it) == Steps(r)[it[1]].objects[it[2]]
  <1>3. \A it \in todo[r] : O(it) \in Objects  BY <1>2, ItemType DEF Steps
  <1>4. PICK it \in todo[r] :
          \/ /\ \/ /\ Goto(r, "revert")
                   /\ todo' = [todo EXCEPT ![r] = @ \ {it}]
                   /\ writer' = [writer EXCEPT ![O(it)] = Nobody]
                \/ Goto(r, "settle") /\ Overwritten(O(it)) /\ UNCHANGED todo
          \/ RestoreFailed(r, it)
    <2>1. CASE RevertObject(r)  BY ZenonT(40), <2>1 DEF RevertObject
    <2>2. CASE SettleObject(r)  BY ZenonT(40), <2>2 DEF SettleObject
    <2>3. QED  BY Zenon, <2>1, <2>2
  <1>5. UNCHANGED <<local, remote, born, mem, job>>
    BY Zenon DEF RevertObject, SettleObject
  <1>6. /\ \/ writer' = writer /\ todo'[r] = todo[r]
           \/ Overwritten(O(it)) /\ todo'[r] = todo[r]
           \/ writer' = [writer EXCEPT ![O(it)] = Nobody] /\ todo'[r] = todo[r] \ {it}
        /\ pc'[r] \in {"revert", "settle", "stamp", "release"}
        /\ job[r].kind # "apply" => pc'[r] # "stamp"
    <2> HIDE DEF O
    <2>1. CASE /\ Goto(r, "revert")
               /\ todo' = [todo EXCEPT ![r] = @ \ {it}]
               /\ writer' = [writer EXCEPT ![O(it)] = Nobody]
      BY <2>1, RunnerTypes, HostTypes DEF Goto
    <2>2. CASE Goto(r, "settle") /\ Overwritten(O(it)) /\ UNCHANGED todo
      BY <2>2, RunnerTypes DEF Goto
    <2>3. CASE RestoreFailed(r, it)
      BY <2>3, RunnerTypes, HostTypes DEF RestoreFailed, Goto, End, O
    <2>4. QED  BY <1>4, <2>1, <2>2, <2>3
  <1>7. QED  BY Zenon, <1>3, <1>5, <1>6

LEMMA RestoreRecord ==
    ASSUME Invariants, HostInv, RecordInv, NEW r \in Runners, OthersStill(r),
           RevertObject(r) \/ SettleObject(r)
    PROVE  RecordInv'
  <1> DEFINE p == Prof(r)
  <1>1. pc[r] \in {"revert", "settle"} /\ pc[r] \in Reverting /\ pc[r] \in Journalled
        /\ Uncommitted(pc[r])
    BY Zenon DEF RevertObject, SettleObject, Reverting, Journalled, Unloaded,
                 Uncommitted, PCs, LockedPCs, RevertPCs
  <1>2. job[r].kind \in {"apply", "rollback"}
    BY <1>1 DEF Invariants, JournalInv, RunnerInv, CommandFits, LockedPCs, RevertPCs
  <1>3. PICK it \in todo[r], o \in Objects :
          /\ o \in {Steps(r)[it[1]].objects[it[2]]}
          /\ UNCHANGED <<local, remote, born, mem, job>>
          /\ \/ writer' = writer /\ todo'[r] = todo[r]
             \/ Overwritten(o) /\ todo'[r] = todo[r]
             \/ writer' = [writer EXCEPT ![o] = Nobody] /\ todo'[r] = todo[r] \ {it}
          /\ pc'[r] \in {"revert", "settle", "stamp", "release"}
          /\ job[r].kind # "apply" => pc'[r] # "stamp"
    BY RestoreWriter
  <1>4. writer \in [Objects -> RunIds \cup {Nobody, Outside}]  BY RecordTypes
  <1>5. /\ \A x \in Objects : writer'[x] \in {writer[x], Nobody}
        /\ todo'[r] = todo[r] \/ (writer'[o] = Nobody /\ todo'[r] = todo[r] \ {it})
    <2>1. CASE writer' = writer /\ todo'[r] = todo[r]  BY <2>1
    <2>2. CASE writer' = [writer EXCEPT ![o] = Nobody] /\ todo'[r] = todo[r] \ {it}
      BY <1>4, <2>2
    <2>3. CASE Overwritten(o) /\ todo'[r] = todo[r]
      BY <1>4, <2>3 DEF Overwritten
    <2>4. QED  BY <1>3, <2>1, <2>2, <2>3
  <1>6. SharedInv  BY DEF RecordInv
  <1>7. mem[r].run \in RunIds /\ Holds(r) /\ p \in Profiles
    BY <1>1, <1>2, ApplyFacts, RollbackFacts
  <1>8. SharedInv'
    <2>1. \A k \in RunIds : \A x \in Objects : Latest(born, k) /\ writer'[x] = k =>
            \E y \in StoredJournals(k)' : Covering(y, x) # {}
      <3>1. UNCHANGED <<local, remote>>  BY <1>3
      <3>2. QED  BY <1>5, <1>6, <3>1, StillRecorded
    <2>2. LatestRecorded'  BY <1>3, <2>1 DEF LatestRecorded
    <2>3. Nobody \notin RunIds /\ Outside # Nobody  BY RunsAssumption DEF RunsAssumption
    <2>4. WritersInv' /\ BirthsInv'
      BY <1>3, <1>5, <1>6, <2>3 DEF SharedInv, WritersInv, BirthsInv
    <2>5. AcceptedTell'
      <3>1. ASSUME NEW s \in Runners, NEW q \in Profiles,
                   local[s][q] # NoJournal, Accepted(local[s][q])
            PROVE  ExplainsAll(q, local[s][q], writer')
        <4>1. local[s][q].run \in RunIds /\ ExplainsAll(q, local[s][q], writer)
          BY <1>6, <3>1, RunnerTypes DEF SharedInv, AcceptedTell, Journals
        <4>2. QED  BY <1>5, <4>1, ExplainsLess DEF ExplainsAll
      <3>2. ASSUME NEW q \in Profiles, NEW k \in RunIds, remote[q][k] # NoJournal
            PROVE  ExplainsAll(q, remote[q][k], writer')
        <4>1. remote[q][k].run \in RunIds /\ ExplainsAll(q, remote[q][k], writer)
          BY <1>6, <3>2, RunnerTypes DEF SharedInv, AcceptedTell, Journals
        <4>2. QED  BY <1>5, <4>1, ExplainsLess DEF ExplainsAll
      <3>3. QED  BY <1>3, <3>1, <3>2 DEF AcceptedTell
    <2>6. QED  BY <2>2, <2>4, <2>5 DEF SharedInv
  <1>9. Prof(r)' = p /\ mem'[r] = mem[r] /\ job'[r] = job[r]
        /\ Has(r, "local")' = Has(r, "local")
    BY <1>3 DEF Prof, Has
  <1>10. ExplainsAll(p, mem[r], writer) => ExplainsAll(p, mem[r], writer')
    BY <1>5, <1>7, ExplainsLess DEF ExplainsAll
  <1>11. Applies(r)'
    <2>1. SUFFICES ASSUME job[r].kind = "apply" PROVE Applies(r)'
      BY <1>9 DEF Applies
    <2>2. /\ Latest(born, mem[r].run) /\ ExplainsAll(p, mem[r], writer')
          /\ local[r][p] # NoJournal => local[r][p].run = mem[r].run
          /\ ~Accepted(mem[r]) /\ NotAccepted(mem[r].run)
      BY <1>1, <1>10, <2>1, ApplyFacts
    <2>3. NotAccepted(mem[r].run)'  BY <1>3, <2>2 DEF NotAccepted
    <2>4. AtStep(pc'[r], p, mem[r], local'[r][p], writer', host')  BY <1>3 DEF AtStep
    <2>5. QED  BY <1>3, <1>9, <2>2, <2>3, <2>4 DEF Applies
  <1>12. RollsBack(r)'
    <2>1. SUFFICES ASSUME job[r].kind = "rollback" PROVE RollsBack(r)'
      BY <1>9 DEF RollsBack
    <2>2. /\ Accepted(mem[r]) /\ ExplainsAll(p, mem[r], writer')
          /\ Has(r, "local") => local[r][p] = mem[r]
          /\ StillToDo(p, mem[r], todo[r], writer)
      BY <1>1, <1>10, <2>1, RollbackFacts
    <2>3. StillToDo(p, mem[r], todo'[r], writer')
      <3>1. SUFFICES ASSUME NEW x \in Objects, writer'[x] = mem[r].run
                     PROVE  ItemsOn(p, mem[r], x) \cap todo'[r] # {}
        BY DEF StillToDo
      <3>2. Nobody \notin RunIds  BY RunsAssumption DEF RunsAssumption
      <3>3. writer[x] = mem[r].run  BY <1>5, <1>7, <3>1, <3>2
      <3>4. PICK y \in ItemsOn(p, mem[r], x) : y \in todo[r]
        BY <2>2, <3>3 DEF StillToDo
      <3>5. CASE todo'[r] = todo[r]  BY <3>4, <3>5
      <3>6. CASE writer'[o] = Nobody /\ todo'[r] = todo[r] \ {it}
        <4>1. x # o  BY <1>7, <3>1, <3>2, <3>6
        <4>2. o = StepsOf[p][it[1]].objects[it[2]] /\ x = StepsOf[p][y[1]].objects[y[2]]
          BY <1>3, <3>4 DEF ItemsOn, Steps
        <4>3. y # it  BY <4>1, <4>2
        <4>4. QED  BY <3>4, <3>6, <4>3
      <3>7. QED  BY <1>5, <3>5, <3>6
    <2>4. QED  BY <1>3, <1>9, <2>2, <2>3 DEF RollsBack
  <1>13. QED  BY Zenon, <1>7, <1>8, <1>11, <1>12, RecordStep

(* A claimed journal is stored in the place of the one it claims, and all  *)
(* it explains is to be restored.                                          *)
LEMMA ClaimRecord ==
    ASSUME NoopsManageNothing, Invariants, HostInv, RecordInv, NEW r \in Runners,
           OthersStill(r), Claim(r)
    PROVE  RecordInv'
  <1> DEFINE p == Prof(r)
             j == WithStatus(mem[r], "rolling_back")
  <1>1. pc[r] = "claim" /\ pc[r] \in Journalled /\ pc[r] \in RollbackPCs
    BY DEF Claim, Journalled, Unloaded, PCs, LockedPCs, RollbackPCs
  <1>2. job[r].kind = "rollback"
    BY <1>1 DEF Invariants, JournalInv, RunnerInv, CommandFits
  <1>3. PICK k \in RunIds : mem[r].run = k  BY <1>1, <1>2, RollbackFacts
  <1>4. /\ p \in Profiles /\ Holds(r) /\ Fits(p, mem[r]) /\ mem[r] # NoJournal
        /\ ExplainsAll(p, mem[r], writer)
        /\ Has(r, "local") => local[r][p] = mem[r]
    BY <1>1, <1>2, RollbackFacts
  <1>5. born[k] # 0  BY <1>3, <1>4 DEF HostInv, HonestInv, Honest
  <1>6. /\ Fits(p, j) /\ j # NoJournal /\ j.run = k /\ j.status = "rolling_back"
        /\ ExplainsAll(p, j, writer)
    <2>1. "rolling_back" \in Statuses  BY DEF Statuses
    <2>2. QED  BY <1>3, <1>4, <2>1, StampedFits, RestampedExplains
  <1>7. /\ UNCHANGED <<host, born, writer, job>>
        /\ \/ local' = local /\ remote' = remote
           \/ Has(r, "local") /\ SaveLocal(r, j) /\ remote' = remote
           \/ local' = local /\ remote' = [remote EXCEPT ![p][j.run] = j]
        /\ \/ /\ mem' = [mem EXCEPT ![r] = j]
              /\ todo' = [todo EXCEPT ![r] = RevertItems(p, j.steps)]
              /\ pc' = [pc EXCEPT ![r] = "revert"]
              /\ Has(r, "local") => SaveLocal(r, j)
           \/ pc' = [pc EXCEPT ![r] = "release"]
    BY DEF Claim, historyVars, Goto, End
  <1> HIDE DEF j
  <1>8. \/ local' = local /\ remote' = remote
        \/ Has(r, "local") /\ SaveLocal(r, j) /\ remote' = remote
        \/ local' = local /\ remote' = [remote EXCEPT ![p][k] = j]
    BY <1>6, <1>7
  <1>9. SharedInv  BY DEF RecordInv
  <1>10. \A o \in Objects : writer'[o] \in {writer[o], Nobody}  BY <1>7
  <1>11. ExplainsAll(Prof(r), j, writer') /\ Fits(Prof(r), j)  BY <1>6, <1>7
  <1>12. \A o \in Objects : Latest(born, k) /\ writer'[o] = k =>
           \E y \in StoredJournals(k)' : Covering(y, o) # {}
    <2>1. CASE local' = local /\ remote' = remote
      <3>1. UNCHANGED <<local, remote>>  BY <2>1
      <3>2. QED  BY <1>9, <1>10, <3>1, StillRecorded
    <2>2. CASE SaveLocal(r, j)  BY <1>6, <1>11, <2>2, WellRecorded
    <2>3. CASE remote' = [remote EXCEPT ![p][k] = j]
      <3>1. remote'[Prof(r)][k] = j
        <4> HIDE DEF p
        <4>1. remote'[p][k] = j  BY <1>4, <2>3, RunnerTypes
        <4>2. QED  BY <4>1 DEF p
      <3>2. QED  BY <1>6, <1>11, <3>1, WellRecorded
    <2>4. QED  BY <1>8, <2>1, <2>2, <2>3
  <1>13. SharedInv'
    <2>1. \/ local' = local
          \/ /\ SaveLocal(r, j)
             /\ local[r][Prof(r)] # NoJournal => local[r][Prof(r)].run = k
             /\ j # NoJournal /\ Accepted(j) => ExplainsAll(Prof(r), j, writer')
      BY <1>3, <1>4, <1>8, <1>11
    <2>2. /\ remote' \in {remote, [remote EXCEPT ![Prof(r)][k] = j]} /\ born' = born
          /\ j # NoJournal => ExplainsAll(Prof(r), j, writer')
      BY <1>7, <1>8, <1>11
    <2>3. QED  BY <1>5, <1>9, <1>10, <1>12, <2>1, <2>2, SharedAfter
  <1>14. Prof(r)' = p /\ job'[r] = job[r] /\ Has(r, "local")' = Has(r, "local")
    BY <1>7 DEF Prof, Has
  <1>15. Applies(r)'  BY <1>2, <1>14 DEF Applies
  <1>16. RollsBack(r)'
    <2>1. CASE pc' = [pc EXCEPT ![r] = "release"]
      <3>1. pc'[r] = "release"  BY <2>1, RunnerTypes
      <3>2. QED  BY <3>1 DEF RollsBack, Journalled
    <2>2. CASE /\ mem' = [mem EXCEPT ![r] = j]
               /\ todo' = [todo EXCEPT ![r] = RevertItems(p, j.steps)]
               /\ pc' = [pc EXCEPT ![r] = "revert"]
               /\ Has(r, "local") => SaveLocal(r, j)
      <3>1. mem'[r] = j /\ todo'[r] = RevertItems(p, j.steps) /\ pc'[r] = "revert"
        BY <2>2, RunnerTypes, HostTypes
      <3>2. Accepted(j)  BY <1>6 DEF Accepted
      <3>3. Has(r, "local") => local'[r][p] = j
        BY <1>4, <2>2, RunnerTypes DEF SaveLocal
      <3>4. StillToDo(p, j, RevertItems(p, j.steps), writer')
        <4>1. SUFFICES ASSUME NEW o \in Objects, writer'[o] = j.run
                       PROVE  ItemsOn(p, j, o) \cap RevertItems(p, j.steps) # {}
          BY DEF StillToDo
        <4>2. PICK i \in 1..Len(j.steps) : o \in ObjectsOf(p, i) /\ Changed(j, i)
          BY <1>11, <4>1 DEF ExplainsAll, Explains, ChangedBy
        <4>3. PICK n \in Nat : <<i, n>> \in ItemsOn(p, j, o)
          BY <1>4, <1>6, <4>2, ChangedHasItem
        <4>4. QED  BY <4>3 DEF ItemsOn
      <3>5. QED  BY <1>11, <1>14, <3>1, <3>2, <3>3, <3>4 DEF RollsBack
    <2>3. QED  BY <1>7, <2>1, <2>2
  <1>17. QED  BY <1>4, <1>13, <1>15, <1>16, RecordStep

(* A journal is deleted when its run is the writer of nothing any more.    *)
LEMMA ConsumeRecord ==
    ASSUME Invariants, HostInv, RecordInv, NEW r \in Runners, OthersStill(r), Consume(r)
    PROVE  RecordInv'
  <1> DEFINE p == Prof(r)
  <1>1. pc[r] = "consume" /\ pc[r] \in Journalled /\ pc[r] \in RollbackPCs
        /\ pc[r] \in Reverting
    BY DEF Consume, Journalled, Unloaded, PCs, LockedPCs, RollbackPCs, Reverting
  <1>2. job[r].kind = "rollback"
    BY <1>1 DEF Invariants, JournalInv, RunnerInv, CommandFits
  <1>3. PICK k \in RunIds : mem[r].run = k  BY <1>1, <1>2, RollbackFacts
  <1>4. /\ p \in Profiles /\ Holds(r) /\ mem[r] # NoJournal
        /\ Has(r, "local") => local[r][p] = mem[r]
        /\ StillToDo(p, mem[r], todo[r], writer)
    BY <1>1, <1>2, RollbackFacts
  <1>5. born[k] # 0  BY <1>3, <1>4 DEF HostInv, HonestInv, Honest
  <1>6. todo[r] = {}
    <2>1. RunnerHost(r)  BY DEF HostInv
    <2>2. QED  BY <1>1, <2>1 DEF RunnerHost, Reverts
  <1>7. \A o \in Objects : writer[o] # k  BY <1>3, <1>4, <1>6 DEF StillToDo
  <1>8. /\ UNCHANGED <<host, born, writer, job, mem>> /\ pc'[r] = "release"
        /\ local' = local \/ (Has(r, "local") /\ SaveLocal(r, NoJournal))
        /\ remote' \in {remote, [remote EXCEPT ![p][k] = NoJournal]}
    BY <1>3, RunnerTypes DEF Consume, historyVars, Goto, End
  <1>9. SharedInv  BY DEF RecordInv
  <1>10. SharedInv'
    <2>1. \/ local' = local
          \/ /\ SaveLocal(r, NoJournal)
             /\ local[r][Prof(r)] # NoJournal => local[r][Prof(r)].run = k
             /\ NoJournal # NoJournal /\ Accepted(NoJournal) =>
                  ExplainsAll(Prof(r), NoJournal, writer')
      BY <1>3, <1>4, <1>8
    <2>2. NoJournal # NoJournal => ExplainsAll(Prof(r), NoJournal, writer')  OBVIOUS
    <2>3. /\ remote' \in {remote, [remote EXCEPT ![Prof(r)][k] = NoJournal]} /\ born' = born
          /\ \A o \in Objects : writer'[o] \in {writer[o], Nobody}
      BY <1>8
    <2>4. \A o \in Objects : Latest(born, k) /\ writer'[o] = k =>
            \E y \in StoredJournals(k)' : Covering(y, o) # {}
      BY <1>7, <1>8
    <2>5. QED  BY <1>5, <1>9, <2>1, <2>2, <2>3, <2>4, SharedAfter
  <1>11. Applies(r)' /\ RollsBack(r)'  BY <1>8 DEF Applies, RollsBack, Journalled
  <1>12. QED  BY <1>4, <1>10, <1>11, RecordStep

-----------------------------------------------------------------------------
LEMMA RecordKept ==
    ASSUME NoEdits, NoopsManageNothing
    PROVE  Invariants /\ HostInv /\ RecordInv /\ [Next]_vars => RecordInv'
  <1> SUFFICES ASSUME Invariants, HostInv, RecordInv, [Next]_vars PROVE RecordInv'
    OBVIOUS
  <1>1. ASSUME NEW r \in Runners,
               StartApply(r) \/ StartRollback(r) \/ Progress(r) \/ Signal(r) \/ Crash(r)
        PROVE  RecordInv'
    <2>1. OthersStill(r)  BY <1>1, OneRunnerMoves
    <2>2. CASE \/ StartApply(r) \/ StartRollback(r) \/ Signal(r) \/ Crash(r)
               \/ TakeLock(r) \/ LockRefused(r) \/ ReleaseLock(r)
               \/ AdmitRefused(r) \/ NextStep(r) \/ UndoPreflight(r)
               \/ RevertDone(r) \/ LoadRefused(r) \/ Preflight(r) \/ PreflightRefused(r)
      BY <2>1, <2>2, MovingRecord
    <2>3. CASE NewRun(r)  BY <2>1, <2>3, NewRunRecord DEF HostInv
    <2>4. CASE \/ Interrupt(r) \/ StampFailed(r) \/ CaptureBefore(r) \/ CaptureAfter(r)
               \/ RunStep(r) \/ Commit(r) \/ Tidy(r) \/ Fallback(r)
      BY <2>1, <2>4, StampRecord, CaptureRecord, RunStepRecord, CommitRecord, TidyRecord
    <2>5. CASE RevertObject(r) \/ SettleObject(r)  BY <2>1, <2>5, RestoreRecord
    <2>6. CASE LoadJournal(r) \/ Claim(r) \/ Consume(r)
      BY <2>1, <2>6, LoadRecord, ClaimRecord, ConsumeRecord
    <2>7. QED
      BY <1>1, <2>2, <2>3, <2>4, <2>5, <2>6
      DEF Progress, ApplyStep, RevertStep, RollbackStep
  <1>2. ASSUME NEW o \in Objects, NEW v \in Edits, Edit(o, v) PROVE FALSE
    BY <1>2 DEF Edit, Fault, NoEdits
  <1>3. CASE RemoveStaleLock \/ UNCHANGED vars
    <2>1. UNCHANGED <<host, remote, pc, job, mem, todo, local, born, writer>>
      BY <1>3 DEF RemoveStaleLock, vars, hostVars, runnerVars, historyVars
    <2>2. SharedInv'
      BY <2>1
      DEF RecordInv, SharedInv, WritersInv, BirthsInv, LatestRecorded, AcceptedTell,
          StoredJournals
    <2>3. \A r \in Runners : Applies(r)' /\ RollsBack(r)'
      BY <2>1
      DEF RecordInv, Applies, RollsBack, AtStep, NotAccepted, StillToDo, Has, Prof
    <2>4. QED  BY <2>2, <2>3 DEF RecordInv
  <1>4. QED  BY <1>1, <1>2, <1>3 DEF Next

LEMMA RecordInit == Init => RecordInv
  <1> SUFFICES ASSUME Init PROVE RecordInv  OBVIOUS
  <1>1. Nobody \notin RunIds /\ Outside # Nobody  BY RunsAssumption DEF RunsAssumption
  <1>2. WritersInv /\ LatestRecorded  BY <1>1 DEF Init, WritersInv, LatestRecorded
  <1>3. BirthsInv
    <2>1. IsFiniteSet({x \in RunIds : born[x] # 0})
      BY RunsAssumption, FS_Subset DEF RunsAssumption
    <2>2. Cardinality({x \in RunIds : born[x] # 0}) \in Nat  BY <2>1, FS_CardinalityType
    <2>3. \A k \in RunIds : born[k] = 0  BY DEF Init
    <2>4. QED  BY <2>2, <2>3 DEF BirthsInv
  <1>4. AcceptedTell  BY DEF Init, AcceptedTell
  <1>5. \A r \in Runners : Applies(r) /\ RollsBack(r)
    BY DEF Init, Applies, RollsBack, Journalled, Unloaded
  <1>6. QED  BY <1>2, <1>3, <1>4, <1>5 DEF RecordInv, SharedInv

(* Whatever was killed, lost or refused since the latest run began, every  *)
(* object that holds what it wrote is recorded in a journal on a disk,     *)
(* with the value the run found it with: a step runs only when its record  *)
(* is saved, and no journal goes before another holds what it recorded.    *)
THEOREM ChangesAreRecorded ==
    ASSUME NoEdits, NoopsManageNothing, ServicesApart, Plain(InitHost)
    PROVE  Spec => []ChangesRecorded
  <1>1. Invariants /\ HostInv /\ RecordInv => ChangesRecorded
    <2>1. SUFFICES ASSUME Invariants, HostInv, RecordInv, NEW o \in Objects,
                          NEW k \in RunIds, writer[o] = k, Latest(born, k)
                   PROVE  \E j \in StoredJournals(k) :
                            Covering(j, o) # {} /\ RunBefore(j, o) = origin[k][o]
      BY DEF ChangesRecorded, Latest
    <2>2. PICK j \in StoredJournals(k) : Covering(j, o) # {}
      BY <2>1 DEF RecordInv, SharedInv, LatestRecorded
    <2>3. j # NoJournal /\ j.run = k  BY <2>2 DEF StoredJournals
    <2>4. PICK p \in Profiles : Fits(p, j) /\ Honest(p, j, born, origin)
      <3>1. CASE \E r \in Runners, p \in Profiles : j = local[r][p]
        BY <2>1, <2>3, <3>1 DEF Invariants, TypeInv, StoredFits, HostInv, HonestInv
      <3>2. CASE \E p \in Profiles : j = remote[p][k]
        BY <2>1, <2>3, <3>2 DEF Invariants, TypeInv, StoredFits, HostInv, HonestInv
      <3>3. QED  BY <2>2, <3>1, <3>2 DEF StoredJournals
    <2>5. RunBefore(j, o) = origin[j.run][o]  BY <2>2, <2>4, HonestBefore
    <2>6. QED  BY <2>2, <2>3, <2>5
  <1>2. Init => HostInv /\ RecordInv  BY HostInit, RecordInit
  <1>3. Invariants /\ HostInv /\ [Next]_vars => HostInv'  BY HostKept
  <1>4. Invariants /\ HostInv /\ RecordInv /\ [Next]_vars => RecordInv'  BY RecordKept
  <1>5. QED  BY <1>1, <1>2, <1>3, <1>4, InvariantsHold, PTL DEF Spec

-----------------------------------------------------------------------------
(* The journals of all runs: each object's are a chain.                    *)
(*                                                                         *)
(* The changes of one object are a chain: in the order `at` of their runs  *)
(* they lead from value start to value end, each from where the one before *)
(* it ended.                                                               *)
Chain(L, at, start, end) ==
    /\ L = {} => start = end
    /\ \A x \in L : (\A y \in L : at[y.run] <= at[x.run]) => x.after = end
    /\ \A x \in L : (\A y \in L : at[x.run] <= at[y.run]) => x.before = start
    /\ \A x, y \in L :
         /\ at[x.run] < at[y.run]
         /\ \A z \in L : at[z.run] <= at[x.run] \/ at[y.run] <= at[z.run]
         => y.before = x.after

(* A later change is added, the latest one is dropped.                     *)
LEMMA ChainGrows ==
    ASSUME NEW L, NEW at, NEW start, NEW x, Chain(L, at, start, x.before),
           at[x.run] \in Nat, \A y \in L : at[y.run] \in Nat /\ at[y.run] < at[x.run]
    PROVE  Chain(L \cup {x}, at, start, x.after)
  <1> DEFINE M == L \cup {x}
  <1>1. \A y \in L : at[y.run] \in Nat /\ ~(at[x.run] <= at[y.run]) /\ y # x  OBVIOUS
  <1>2. ASSUME NEW y \in M, \A z \in M : at[z.run] <= at[y.run] PROVE y.after = x.after
    BY <1>1, <1>2
  <1>3. ASSUME NEW y \in M, \A z \in M : at[y.run] <= at[z.run] PROVE y.before = start
    <2>1. CASE y = x
      <3>1. L = {}  BY <1>1, <1>3, <2>1
      <3>2. QED  BY <2>1, <3>1 DEF Chain
    <2>2. CASE y \in L  BY <1>3, <2>2 DEF Chain
    <2>3. QED  BY <2>1, <2>2
  <1>4. ASSUME NEW y \in M, NEW w \in M, at[y.run] < at[w.run],
               \A z \in M : at[z.run] <= at[y.run] \/ at[w.run] <= at[z.run]
        PROVE  w.before = y.after
    <2>1. y \in L
      <3>1. CASE y = x
        <4>1. CASE w = x  BY <1>4, <3>1, <4>1
        <4>2. CASE w \in L  BY <1>1, <1>4, <3>1, <4>2
        <4>3. QED  BY <4>1, <4>2
      <3>2. QED  BY <3>1
    <2>2. CASE w = x
      <3>1. \A z \in L : at[z.run] <= at[y.run]  BY <1>1, <1>4, <2>2
      <3>2. QED  BY <2>1, <2>2, <3>1 DEF Chain
    <2>3. CASE w \in L  BY <1>4, <2>1, <2>3 DEF Chain
    <2>4. QED  BY <2>2, <2>3
  <1>5. QED  BY <1>2, <1>3, <1>4 DEF Chain

LEMMA ChainShrinks ==
    ASSUME NEW L, NEW at, NEW start, NEW end, Chain(L, at, start, end), NEW x \in L,
           at[x.run] \in Nat, \A y \in L \ {x} : at[y.run] \in Nat /\ at[y.run] < at[x.run]
    PROVE  Chain(L \ {x}, at, start, x.before)
  <1> DEFINE M == L \ {x}
  <1>1. M = {} => start = x.before
    <2>1. SUFFICES ASSUME M = {} PROVE start = x.before  OBVIOUS
    <2>2. \A y \in L : at[x.run] <= at[y.run]  BY <2>1
    <2>3. QED  BY <2>2 DEF Chain
  <1>2. ASSUME NEW y \in M, \A z \in M : at[z.run] <= at[y.run] PROVE y.after = x.before
    <2>1. \A z \in L : at[z.run] <= at[y.run] \/ at[x.run] <= at[z.run]  BY <1>2
    <2>2. QED  BY <1>2, <2>1 DEF Chain
  <1>3. ASSUME NEW y \in M, \A z \in M : at[y.run] <= at[z.run] PROVE y.before = start
    <2>1. \A z \in L : at[y.run] <= at[z.run]  BY <1>3
    <2>2. QED  BY <1>3, <2>1 DEF Chain
  <1>4. ASSUME NEW y \in M, NEW w \in M, at[y.run] < at[w.run],
               \A z \in M : at[z.run] <= at[y.run] \/ at[w.run] <= at[z.run]
        PROVE  w.before = y.after
    <2>1. \A z \in L : at[z.run] <= at[y.run] \/ at[w.run] <= at[z.run]  BY <1>4
    <2>2. QED  BY <1>4, <2>1 DEF Chain
  <1>5. QED  BY <1>1, <1>2, <1>3, <1>4 DEF Chain

(* What comes after a change leaves the object outside of what a change    *)
(* can start from, and so not where that change left it.                   *)
LEMMA NotTheTop ==
    ASSUME NEW L, NEW at, NEW start, NEW end, Chain(L, at, start, end),
           NEW n \in Nat, \A y \in L : at[y.run] \in 1..n,
           NEW x \in L, NEW later \in L, at[x.run] < at[later.run],
           NEW S, \A y \in L : at[x.run] < at[y.run] => y.before \notin S /\ y.after \in S
    PROVE  x.after # end
  <1> DEFINE N == {at[y.run] : y \in {z \in L : at[x.run] < at[z.run]}}
  <1>1. N \subseteq 1..n /\ N # {}  OBVIOUS
  <1> HIDE DEF N
  <1>2. FirstOf(N) \in N /\ \A i \in N : FirstOf(N) <= i  BY <1>1, LeastStep
  <1>3. LastOf(N) \in N /\ \A i \in N : i <= LastOf(N)  BY <1>1, LastStep
  <1> USE DEF N
  <1>4. PICK first \in L : /\ at[x.run] < at[first.run]
                           /\ \A z \in L : at[x.run] < at[z.run] => at[first.run] <= at[z.run]
    BY <1>2
  <1>5. PICK last \in L : /\ at[x.run] < at[last.run]
                          /\ \A z \in L : at[x.run] < at[z.run] => at[z.run] <= at[last.run]
    BY <1>3
  <1>6. \A z \in L : at[z.run] <= at[x.run] \/ at[x.run] < at[z.run]  OBVIOUS
  <1>7. first.before = x.after  BY <1>4, <1>6 DEF Chain
  <1>8. last.after = end
    <2>1. \A z \in L : at[z.run] <= at[last.run]  BY <1>5, <1>6
    <2>2. QED  BY <2>1 DEF Chain
  <1>9. QED  BY <1>4, <1>5, <1>7, <1>8

-----------------------------------------------------------------------------
(* Journal j records that its run changed object o.                        *)
Alters(j, o) == Covering(j, o) # {} /\ RunBefore(j, o) # RunAfter(j, o)

LinkOf(j, o) == [run |-> j.run, before |-> RunBefore(j, o), after |-> RunAfter(j, o)]

(* The changes of object o that the journals on the host, rem, record.     *)
OnHost(rem) == {rem[p][k] : p \in Profiles, k \in RunIds} \ {NoJournal}
Links(rem, o) == {LinkOf(j, o) : j \in {x \in OnHost(rem) : Alters(x, o)}}

(* Those of the runs not in `but` lead from the host as it was before      *)
(* hardline to `now`.                                                      *)
Chained(rem, births, but, now) ==
    \A o \in Objects :
        Chain({x \in Links(rem, o) : x.run \notin but}, births, InitHost[o], now[o])

(* A run is of one profile, and its number says when it was.               *)
OneProfileEach ==
    \A p, q \in Profiles, k \in RunIds :
        remote[p][k] # NoJournal /\ remote[q][k] # NoJournal => p = q

BornInOrder ==
    \A k, other \in RunIds :
        other < k /\ born[k] # 0 => born[other] # 0 /\ born[other] < born[k]

LEMMA LinksOfStored ==
    ASSUME NEW rem, NEW o, \A p \in Profiles, k \in RunIds :
                             rem[p][k] # NoJournal => rem[p][k].run = k
    PROVE  \A x \in Links(rem, o) : \E p \in Profiles : \E k \in RunIds :
             /\ rem[p][k] # NoJournal /\ Alters(rem[p][k], o)
             /\ x.run = k /\ rem[p][k].run = k
             /\ x = LinkOf(rem[p][k], o)
  <1>1. SUFFICES ASSUME NEW x \in Links(rem, o)
                 PROVE  \E p \in Profiles : \E k \in RunIds :
                          /\ rem[p][k] # NoJournal /\ Alters(rem[p][k], o)
                          /\ x.run = k /\ rem[p][k].run = k
                          /\ x = LinkOf(rem[p][k], o)
    OBVIOUS
  <1>2. PICK j \in OnHost(rem) : Alters(j, o) /\ x = LinkOf(j, o)  BY DEF Links
  <1>3. PICK p \in Profiles, k \in RunIds : j = rem[p][k] /\ j # NoJournal
    BY <1>2 DEF OnHost
  <1>4. x.run = j.run  BY <1>2 DEF LinkOf
  <1>5. QED  BY <1>2, <1>3, <1>4

LEMMA StoredIsLink ==
    ASSUME NEW rem, NEW o, NEW p \in Profiles, NEW k \in RunIds,
           rem[p][k] # NoJournal, Alters(rem[p][k], o)
    PROVE  LinkOf(rem[p][k], o) \in Links(rem, o)
  <1>1. rem[p][k] \in OnHost(rem)  BY DEF OnHost
  <1>2. QED  BY <1>1 DEF Links

(* Stamping a journal changes nothing it records.                          *)
LEMMA StampedLink ==
    ASSUME NEW p \in Profiles, NEW j, Fits(p, j), NEW s \in Statuses, NEW o
    PROVE  /\ Alters(WithStatus(j, s), o) <=> Alters(j, o)
           /\ LinkOf(WithStatus(j, s), o) = LinkOf(j, o)
  <1> DEFINE n == WithStatus(j, s)
  <1>1. n.steps = j.steps /\ n.run = j.run  BY StampedFits
  <1> HIDE DEF n
  <1>2. /\ Covering(n, o) = Covering(j, o)
        /\ RunBefore(n, o) = RunBefore(j, o) /\ RunAfter(n, o) = RunAfter(j, o)
    BY <1>1 DEF Covering, RunBefore, RunAfter
  <1>3. (Alters(n, o) <=> Alters(j, o)) /\ LinkOf(n, o) = LinkOf(j, o)
    BY <1>1, <1>2 DEF Alters, LinkOf
  <1>4. QED  BY <1>3 DEF n

(* A run is committed, claimed, or consumed.                               *)
LEMMA LinksCommitted ==
    ASSUME NEW p \in Profiles, NEW k \in RunIds, NEW j, j # NoJournal, NEW o,
           remote \in [Profiles -> [RunIds -> Journals \cup {NoJournal}]],
           remote' = [remote EXCEPT ![p][k] = j], remote[p][k] = NoJournal
    PROVE  Links(remote', o) = IF Alters(j, o) THEN Links(remote, o) \cup {LinkOf(j, o)}
                               ELSE Links(remote, o)
  <1>1. \A q \in Profiles, x \in RunIds :
          remote'[q][x] = IF q = p /\ x = k THEN j ELSE remote[q][x]
    OBVIOUS
  <1>2. OnHost(remote') = OnHost(remote) \cup {j}
    <2>1. \A y \in OnHost(remote') : y \in OnHost(remote) \cup {j}  BY <1>1 DEF OnHost
    <2>2. \A y \in OnHost(remote) : y \in OnHost(remote')
      <3>1. SUFFICES ASSUME NEW y \in OnHost(remote) PROVE y \in OnHost(remote')  OBVIOUS
      <3>2. PICK q \in Profiles, x \in RunIds : y = remote[q][x] /\ y # NoJournal
        BY DEF OnHost
      <3>3. remote'[q][x] = y  BY <1>1, <3>2
      <3>4. QED  BY <3>2, <3>3 DEF OnHost
    <2>3. remote'[p][k] = j  BY <1>1
    <2>4. j \in OnHost(remote')  BY <2>3 DEF OnHost
    <2>5. QED  BY <2>1, <2>2, <2>4
  <1>3. QED  BY <1>2 DEF Links

LEMMA LinksClaimed ==
    ASSUME NEW p \in Profiles, NEW k \in RunIds, NEW j, Fits(p, j), NEW s \in Statuses, NEW o,
           remote \in [Profiles -> [RunIds -> Journals \cup {NoJournal}]],
           remote' = [remote EXCEPT ![p][k] = WithStatus(j, s)],
           remote[p][k] # NoJournal, remote[p][k] = j \/ remote[p][k] = WithStatus(j, s)
    PROVE  Links(remote', o) = Links(remote, o)
  <1>1. \A q \in Profiles, x \in RunIds :
          remote'[q][x] = IF q = p /\ x = k THEN WithStatus(j, s) ELSE remote[q][x]
    OBVIOUS
  <1>2. WithStatus(j, s) # NoJournal  BY StampedFits
  <1>3. /\ Alters(WithStatus(j, s), o) <=> Alters(remote[p][k], o)
        /\ LinkOf(WithStatus(j, s), o) = LinkOf(remote[p][k], o)
    BY StampedLink
  <1>4. \A x \in Links(remote', o) : x \in Links(remote, o)
    <2>1. SUFFICES ASSUME NEW y \in OnHost(remote'), Alters(y, o)
                   PROVE  LinkOf(y, o) \in Links(remote, o)
      BY DEF Links
    <2>2. PICK q \in Profiles, x \in RunIds : y = remote'[q][x] /\ y # NoJournal
      BY DEF OnHost
    <2>3. /\ remote[q][x] # NoJournal /\ Alters(remote[q][x], o)
          /\ LinkOf(y, o) = LinkOf(remote[q][x], o)
      BY <1>1, <1>3, <2>1, <2>2
    <2>4. QED  BY <2>3, StoredIsLink
  <1>5. \A x \in Links(remote, o) : x \in Links(remote', o)
    <2>1. SUFFICES ASSUME NEW y \in OnHost(remote), Alters(y, o)
                   PROVE  LinkOf(y, o) \in Links(remote', o)
      BY DEF Links
    <2>2. PICK q \in Profiles, x \in RunIds : y = remote[q][x] /\ y # NoJournal
      BY DEF OnHost
    <2>3. /\ remote'[q][x] # NoJournal /\ Alters(remote'[q][x], o)
          /\ LinkOf(y, o) = LinkOf(remote'[q][x], o)
      BY <1>1, <1>2, <1>3, <2>1, <2>2
    <2>4. QED  BY <2>3, StoredIsLink
  <1>6. QED  BY <1>4, <1>5

LEMMA LinksConsumed ==
    ASSUME NEW p \in Profiles, NEW k \in RunIds, NEW o,
           \A q \in Profiles, x \in RunIds : remote[q][x] # NoJournal => remote[q][x].run = x,
           OneProfileEach, remote[p][k] # NoJournal,
           remote \in [Profiles -> [RunIds -> Journals \cup {NoJournal}]],
           remote' = [remote EXCEPT ![p][k] = NoJournal]
    PROVE  Links(remote', o) = {x \in Links(remote, o) : x.run # k}
  <1>1. \A q \in Profiles, x \in RunIds :
          remote'[q][x] = IF q = p /\ x = k THEN NoJournal ELSE remote[q][x]
    OBVIOUS
  <1>2. ASSUME NEW z \in Links(remote', o) PROVE z \in Links(remote, o) /\ z.run # k
    <2>1. PICK y \in OnHost(remote') : Alters(y, o) /\ z = LinkOf(y, o)  BY <1>2 DEF Links
    <2>2. PICK q \in Profiles, x \in RunIds : y = remote'[q][x] /\ y # NoJournal
      BY DEF OnHost
    <2>3. remote[q][x] = y /\ y.run = x /\ (q # p \/ x # k)  BY <1>1, <2>2
    <2>4. x # k  BY <2>2, <2>3 DEF OneProfileEach
    <2>5. z \in Links(remote, o)  BY <2>1, <2>2, <2>3, StoredIsLink
    <2>6. QED  BY <2>1, <2>3, <2>4, <2>5 DEF LinkOf
  <1>3. ASSUME NEW z \in Links(remote, o), z.run # k PROVE z \in Links(remote', o)
    <2>1. PICK q \in Profiles, x \in RunIds :
            /\ remote[q][x] # NoJournal /\ Alters(remote[q][x], o)
            /\ z.run = x /\ z = LinkOf(remote[q][x], o)
      BY SMTT(30), <1>3, LinksOfStored
    <2>2. /\ remote'[q][x] # NoJournal /\ Alters(remote'[q][x], o)
          /\ z = LinkOf(remote'[q][x], o)
      BY <1>1, <1>3, <2>1
    <2>3. LinkOf(remote'[q][x], o) \in Links(remote', o)  BY <2>2, StoredIsLink
    <2>4. QED  BY <2>2, <2>3
  <1>4. QED  BY <1>2, <1>3

-----------------------------------------------------------------------------
(* More hypotheses.  Runs are numbered in the order they began; rollbacks  *)
(* work from the host; and each object is of at most two profiles.  (With  *)
(* three, a rollback can be taken for allowed when two later runs, of the  *)
(* other profiles, have brought an object back to what the run left.)      *)
FromHostOnly == "local" \notin Flags

Manages(p, o) == \E i \in 1..Len(StepsOf[p]) : o \in ObjectsOf(p, i)

TwoProfilesEach ==
    \A o \in Objects : \A p, q, x \in Profiles :
        Manages(p, o) /\ Manages(q, o) /\ Manages(x, o) => p = q \/ q = x \/ p = x

RunsInv == OneProfileEach /\ BornInOrder

(* A run that is committed has brought each object it changed to what its  *)
(* profile wants, from where it was not.                                   *)
Reached(o, v, want) == IF o \in Services THEN v = want ELSE v.body = want.body

Brought(o, before, after, want) ==
    /\ Reached(o, after, want)
    /\ before # after => ~Reached(o, before, want)

Wanted(p, j) ==
    \A i \in 1..Len(j.steps) :
        j.steps[i].after # Uncaptured =>
            \A o \in ObjectsOf(p, i) :
                Brought(o, j.steps[i].before[o], j.steps[i].after[o], StepsOf[p][i].want[o])

WantedHere(where, p, j, now, found) ==
    LET m == Len(j.steps) IN
    /\ where \in Early \cup {"commit"} => Wanted(p, j)
    /\ where = "capture" =>
         \A o \in ObjectsOf(p, m) :
             Brought(o, j.steps[m].before[o], now[o], StepsOf[p][m].want[o])
    /\ where = "commit" => LeftAs(p, j, now) /\ Accounts(p, j, now, found)

WantInv ==
    /\ \A p \in Profiles, k \in RunIds : remote[p][k] # NoJournal => Wanted(p, remote[p][k])
    /\ \A r \in Runners : WantedHere(pc[r], Prof(r), mem[r], host, origin)

(* What a rollback lost taints the host.                                   *)
LossInv == \A r \in Runners : degraded[r] => tainted

(* A rollback has the journal it loaded.                                   *)
ReadInv ==
    \A r \in Runners :
        pc[r] \in {"preflight", "claim"} => mem[r] = remote[Prof(r)][mem[r].run]

(* A run is under way that has changed the host, or may have.              *)
Applying(r) == job[r].kind = "apply" /\ pc[r] \in RunPCs \cup RevertPCs \cup {"commit"}

(* The host as the rollback of run k of p is to leave it.                  *)
Meant(p, k) ==
    [o \in Objects |-> IF ItemsOn(p, remote[p][k], o) # {} THEN origin[k][o] ELSE host[o]]

(* The journals on the host lead to the host; while a run is under way, to *)
(* what it found; while one is reverted, the others lead to what will be.  *)
ClaimsTheTop ==
    \A r \in Runners : pc[r] = "claim" => ~Conflicted(r) /\ HalfReverted \subseteq {mem[r].run}

LedToRun ==
    \A r \in Runners :
        Applying(r) => HalfReverted = {} /\ Chained(remote, born, {}, origin[mem[r].run])

LeadsToHost ==
    (\A r \in Runners : ~Applying(r)) /\ HalfReverted = {} => Chained(remote, born, {}, host)

LeadsBack ==
    \A k \in HalfReverted :
        /\ HalfReverted = {k}
        /\ \A p \in Profiles : remote[p][k] # NoJournal =>
             Chained(remote, born, {k}, Meant(p, k))

Stacked == ClaimsTheTop /\ LedToRun /\ LeadsToHost /\ LeadsBack

(* JournalsChain, strengthened to be inductive.                            *)
ChainInv == RunsInv /\ WantInv /\ LossInv /\ ReadInv /\ (~tainted => Stacked)

-----------------------------------------------------------------------------
(* What only some steps change.                                            *)
LEMMA RemoteChanges ==
    ASSUME [Next]_vars, remote' # remote
    PROVE  \E r \in Runners : Commit(r) \/ Claim(r) \/ Consume(r)
  <1>1. ASSUME NEW r \in Runners,
               StartApply(r) \/ StartRollback(r) \/ Progress(r) \/ Signal(r) \/ Crash(r)
        PROVE  Commit(r) \/ Claim(r) \/ Consume(r)
    <2>1. ~(StartApply(r) \/ StartRollback(r) \/ Signal(r) \/ Crash(r)
             \/ TakeLock(r) \/ LockRefused(r) \/ ReleaseLock(r))
      BY DEF StartApply, StartRollback, Signal, Crash, TakeLock, LockRefused, ReleaseLock,
             hostVars
    <2>2. ~(AdmitRefused(r) \/ NewRun(r) \/ NextStep(r) \/ Interrupt(r) \/ CaptureBefore(r)
             \/ CaptureAfter(r) \/ UndoPreflight(r) \/ StampFailed(r) \/ RunStep(r)
             \/ Tidy(r) \/ Fallback(r))
      BY Zenon DEF AdmitRefused, NewRun, NextStep, Interrupt, CaptureBefore, CaptureAfter,
             UndoPreflight, StampFailed, RunStep, Tidy, Fallback, hostVars
    <2>3. ~(RevertStep(r) \/ LoadJournal(r) \/ LoadRefused(r) \/ Preflight(r)
             \/ PreflightRefused(r))
      BY Zenon DEF RevertStep, RevertObject, SettleObject, RevertDone, LoadJournal,
                   LoadRefused, Preflight, PreflightRefused, hostVars
    <2>4. QED  BY <1>1, <2>1, <2>2, <2>3 DEF Progress, ApplyStep, RollbackStep
  <1>2. ~(\E o \in Objects, v \in Edits : Edit(o, v))  BY DEF Edit
  <1>3. ~RemoveStaleLock /\ ~UNCHANGED vars  BY DEF RemoveStaleLock, vars, hostVars
  <1>4. QED  BY <1>1, <1>2, <1>3 DEF Next

LEMMA BirthChanges ==
    ASSUME [Next]_vars, born' # born \/ origin' # origin
    PROVE  \E r \in Runners : NewRun(r)
  <1>1. ASSUME NEW r \in Runners,
               StartApply(r) \/ StartRollback(r) \/ Progress(r) \/ Signal(r) \/ Crash(r)
        PROVE  NewRun(r)
    <2>1. ~(StartApply(r) \/ StartRollback(r) \/ Signal(r) \/ Crash(r)
             \/ TakeLock(r) \/ LockRefused(r) \/ ReleaseLock(r))
      BY DEF StartApply, StartRollback, Signal, Crash, TakeLock, LockRefused, ReleaseLock,
             historyVars
    <2>2. ~(AdmitRefused(r) \/ Commit(r) \/ NextStep(r) \/ Interrupt(r) \/ CaptureBefore(r)
             \/ CaptureAfter(r) \/ UndoPreflight(r) \/ StampFailed(r) \/ RunStep(r)
             \/ Tidy(r) \/ Fallback(r))
      BY Zenon DEF AdmitRefused, Commit, NextStep, Interrupt, CaptureBefore, CaptureAfter,
             UndoPreflight, StampFailed, RunStep, Tidy, Fallback, historyVars
    <2>3. ~(RevertStep(r) \/ RollbackStep(r))
      BY Zenon DEF RevertStep, RevertObject, SettleObject, RevertDone, RollbackStep,
                   LoadJournal, LoadRefused, Preflight, PreflightRefused, Claim,
                   Consume, historyVars
    <2>4. QED  BY <1>1, <2>1, <2>2, <2>3 DEF Progress, ApplyStep
  <1>2. ~(\E o \in Objects, v \in Edits : Edit(o, v))  BY DEF Edit
  <1>3. ~RemoveStaleLock /\ ~UNCHANGED vars
    BY DEF RemoveStaleLock, vars, historyVars
  <1>4. QED  BY <1>1, <1>2, <1>3 DEF Next

LEMMA TaintStays ==
    ASSUME Invariants, [Next]_vars, tainted
    PROVE  tainted'
  <1>1. ASSUME NEW r \in Runners,
               StartApply(r) \/ StartRollback(r) \/ Progress(r) \/ Signal(r) \/ Crash(r)
        PROVE  tainted'
    <2>1. CASE \/ StartApply(r) \/ StartRollback(r) \/ Signal(r) \/ Crash(r)
               \/ TakeLock(r) \/ LockRefused(r) \/ ReleaseLock(r)
      BY <2>1
      DEF StartApply, StartRollback, Signal, Crash, TakeLock, LockRefused, ReleaseLock,
          historyVars
    <2>2. CASE \/ AdmitRefused(r) \/ NewRun(r) \/ NextStep(r) \/ Interrupt(r)
               \/ CaptureBefore(r) \/ CaptureAfter(r)
      BY <2>2
      DEF AdmitRefused, NewRun, SavedOr, NextStep, Interrupt, CaptureBefore, CaptureAfter,
          historyVars
    <2>3. CASE \/ UndoPreflight(r) \/ StampFailed(r) \/ RunStep(r) \/ Commit(r)
               \/ Tidy(r) \/ Fallback(r)
      BY Zenon, <2>3
        DEF UndoPreflight, StampFailed, RunStep, Commit, Tidy, Fallback, historyVars
    <2>4. CASE RevertStep(r)
      BY Zenon, <2>4
        DEF RevertStep, RevertObject, SettleObject, RestoreFailed, RevertDone, historyVars
    <2>5. CASE RollbackStep(r)
      BY <2>5 DEF RollbackStep, LoadJournal, LoadRefused, Preflight, PreflightRefused,
                  Claim, Consume, historyVars
    <2>6. QED  BY <1>1, <2>1, <2>2, <2>3, <2>4, <2>5 DEF Progress, ApplyStep
  <1>2. CASE \E o \in Objects, v \in Edits : Edit(o, v)  BY <1>2 DEF Edit
  <1>3. CASE RemoveStaleLock \/ UNCHANGED vars
    BY <1>3 DEF RemoveStaleLock, vars, historyVars
  <1>4. QED  BY <1>1, <1>2, <1>3 DEF Next

(* A restoration that is lost taints the host.                             *)
LEMMA LossKept ==
    ASSUME Invariants, LossInv, [Next]_vars
    PROVE  LossInv'
  <1>1. \A s \in Runners : degraded'[s] = degraded[s] => (degraded'[s] => tainted')
    BY TaintStays DEF LossInv
  <1>2. ASSUME NEW r \in Runners,
               StartApply(r) \/ StartRollback(r) \/ Progress(r) \/ Signal(r) \/ Crash(r)
        PROVE  LossInv'
    <2>1. \A s \in Runners \ {r} : degraded'[s] = degraded[s]
      BY <1>2, OneRunnerMoves DEF OthersStill
    <2>2. degraded'[r] = degraded[r] \/ ~degraded'[r] \/ tainted'
      <3> USE HostTypes
      <3>1. CASE \/ StartApply(r) \/ StartRollback(r) \/ Signal(r) \/ Crash(r)
                 \/ TakeLock(r) \/ LockRefused(r) \/ ReleaseLock(r)
        BY <3>1
        DEF StartApply, StartRollback, Signal, Crash, TakeLock, LockRefused, ReleaseLock, Exit
      <3>2. CASE ApplyStep(r)
        BY Zenon, <3>2
        DEF ApplyStep, AdmitRefused, NewRun, NextStep, Interrupt, CaptureBefore, CaptureAfter,
            UndoPreflight, StampFailed, RunStep, Commit, Tidy, Fallback
      <3>3. CASE RevertStep(r)
        BY Zenon, <3>3 DEF RevertStep, RevertObject, SettleObject, RestoreFailed, RevertDone
      <3>4. CASE RollbackStep(r)
        BY <3>4 DEF RollbackStep, LoadJournal, LoadRefused, Preflight, PreflightRefused,
                    Claim, Consume
      <3>5. QED  BY <1>2, <3>1, <3>2, <3>3, <3>4 DEF Progress
    <2>3. QED  BY <1>1, <2>1, <2>2 DEF LossInv
  <1>3. CASE \/ \E o \in Objects, v \in Edits : Edit(o, v)
             \/ RemoveStaleLock
             \/ UNCHANGED vars
    BY <1>1, <1>3 DEF Edit, RemoveStaleLock, vars, runnerVars, LossInv
  <1>4. QED  BY <1>2, <1>3 DEF Next

(* A rollback is at its preflight or claim with the journal it loaded: no  *)
(* other runner has the lock, and the host's journals stay.                *)
LEMMA ReadKept ==
    ASSUME FromHostOnly, Invariants, ReadInv, [Next]_vars
    PROVE  ReadInv'
  <1>1. ASSUME NEW r \in Runners,
               StartApply(r) \/ StartRollback(r) \/ Progress(r) \/ Signal(r) \/ Crash(r)
        PROVE  ReadInv'
    <2>1. OthersStill(r)  BY <1>1, OneRunnerMoves
    <2>2. ASSUME NEW s \in Runners, s # r, pc'[s] \in {"preflight", "claim"}
          PROVE  mem'[s] = remote'[Prof(s)'][mem'[s].run]
      <3>1. pc'[s] = pc[s] /\ mem'[s] = mem[s] /\ Prof(s)' = Prof(s)
        BY <2>1, <2>2 DEF OthersStill, Prof
      <3>2. Holds(s)  BY <2>2, <3>1 DEF Holds, LockedPCs, RollbackPCs
      <3>3. ~Holds(r)  BY <2>2, <3>2 DEF Invariants, LockInv, MutualExclusion
      <3>4. remote' = remote
        <4>1. ~(Commit(r) \/ Claim(r) \/ Consume(r))
          BY <3>3 DEF Commit, Claim, Consume, Holds, LockedPCs, ApplyPCs, RollbackPCs
        <4>2. \A x \in Runners : Commit(x) \/ Claim(x) \/ Consume(x) => x = s
          <5>1. \A x \in Runners : Commit(x) \/ Claim(x) \/ Consume(x) => Holds(x)
            BY DEF Commit, Claim, Consume, Holds, LockedPCs, ApplyPCs, RollbackPCs
          <5>2. QED  BY <3>2, <5>1 DEF Invariants, LockInv, MutualExclusion
        <4>3. ~(Commit(s) \/ Claim(s) \/ Consume(s))
          <5>1. pc[s] \in {"preflight", "claim"}  BY <2>2, <3>1
          <5>2. Claim(s) => pc'[s] # "claim"  BY RunnerTypes DEF Claim, Goto, End
          <5>3. Claim(s) => pc'[s] # "preflight"  BY RunnerTypes DEF Claim, Goto, End
          <5>4. QED  BY <2>2, <5>1, <5>2, <5>3 DEF Commit, Consume
        <4>4. QED  BY <4>2, <4>3, RemoteChanges
      <3>5. QED  BY <2>2, <3>1, <3>4 DEF ReadInv
    <2>3. ASSUME pc'[r] \in {"preflight", "claim"}
          PROVE  mem'[r] = remote'[Prof(r)'][mem'[r].run]
      <3>1. LoadJournal(r) \/ Preflight(r) \/ (Signal(r) /\ pc'[r] = pc[r])
        <4> USE RunnerTypes, <2>3 DEF Goto, End, Exit
        <4>1. ~(StartApply(r) \/ StartRollback(r) \/ Crash(r)
                 \/ TakeLock(r) \/ LockRefused(r) \/ ReleaseLock(r))
          BY DEF StartApply, StartRollback, Crash, TakeLock, LockRefused, ReleaseLock
        <4>2. ~(AdmitRefused(r) \/ NewRun(r) \/ NextStep(r) \/ Interrupt(r)
                 \/ CaptureBefore(r) \/ CaptureAfter(r))
          BY DEF AdmitRefused, NewRun, SavedOr, NextStep, Interrupt, CaptureBefore,
                 CaptureAfter
        <4>3. ~(UndoPreflight(r) \/ StampFailed(r) \/ RunStep(r) \/ Commit(r)
                 \/ Tidy(r) \/ Fallback(r))
          BY Zenon DEF UndoPreflight, StampFailed, RunStep, Commit, Tidy, Fallback, SavedOr
        <4>4. ~(RevertObject(r) \/ SettleObject(r))
          BY Zenon DEF RevertObject, SettleObject, RestoreFailed
        <4>5. ~(RevertDone(r) \/ LoadRefused(r) \/ PreflightRefused(r) \/ Claim(r) \/ Consume(r))
          BY DEF RevertDone, LoadRefused, PreflightRefused, Claim, Consume
        <4>6. Signal(r) => pc' = pc  BY DEF Signal
        <4>7. QED
          BY <1>1, <4>1, <4>2, <4>3, <4>4, <4>5, <4>6
          DEF Progress, ApplyStep, RevertStep, RollbackStep
      <3>2. CASE Preflight(r) \/ (Signal(r) /\ pc'[r] = pc[r])
        <4>1. UNCHANGED <<remote, mem, job>>  BY <3>2 DEF Preflight, Signal, hostVars
        <4>2. pc[r] \in {"preflight", "claim"}  BY <2>3, <3>2 DEF Preflight
        <4>3. QED  BY <4>1, <4>2 DEF ReadInv, Prof
      <3>3. CASE LoadJournal(r)
        <4> DEFINE p == Prof(r)
        <4>1. ~Has(r, "local")
          <5>1. job[r].flags \subseteq Flags  BY RunnerTypes DEF Jobs
          <5>2. QED  BY <5>1 DEF Has, FromHostOnly
        <4>2. mem'[r] \in Loadable(r)  BY <3>3, RunnerTypes DEF LoadJournal
        <4>3. StoredRuns(p) # {} /\ mem'[r] = remote[p][Newest(p)]
          BY <4>1, <4>2 DEF Loadable
        <4>4. p \in Profiles /\ Newest(p) \in RunIds /\ remote[p][Newest(p)] # NoJournal
          BY <4>3, RunnerTypes, NewestStored DEF StoredRuns
        <4>5. remote[p][Newest(p)].run = Newest(p)
          BY <4>4 DEF Invariants, JournalInv, StoredInv
        <4>6. UNCHANGED <<remote, job>>  BY <3>3 DEF LoadJournal, hostVars
        <4>7. QED  BY <4>3, <4>5, <4>6 DEF Prof
      <3>4. QED  BY <3>1, <3>2, <3>3
    <2>4. QED  BY <2>2, <2>3 DEF ReadInv
  <1>2. CASE \/ \E o \in Objects, v \in Edits : Edit(o, v)
             \/ RemoveStaleLock
             \/ UNCHANGED vars
    <2>1. UNCHANGED <<remote, pc, mem, job>>
      BY <1>2 DEF Edit, RemoveStaleLock, vars, hostVars, runnerVars
    <2>2. QED  BY <2>1 DEF ReadInv, Prof
  <1>3. QED  BY <1>1, <1>2 DEF Next

-----------------------------------------------------------------------------
(* A run is committed by the runner that began it, and a new run has a     *)
(* greater number than all before it.                                      *)
LEMMA RunsKept ==
    ASSUME ClocksAgree, Invariants, RecordInv, RunsInv, [Next]_vars
    PROVE  RunsInv'
  <1>1. OneProfileEach'
    <2>1. CASE remote' = remote  BY <2>1 DEF RunsInv, OneProfileEach
    <2>2. CASE remote' # remote
      <3>1. PICK r \in Runners : Commit(r) \/ Claim(r) \/ Consume(r)
        BY <2>2, RemoteChanges
      <3> DEFINE p == Prof(r)
      <3>2. pc[r] \in Journalled /\ p \in Profiles
        BY <3>1, RunnerTypes
        DEF Commit, Claim, Consume, Journalled, Unloaded, PCs, LockedPCs, ApplyPCs, RollbackPCs
      <3>3. CASE Commit(r)
        <4>1. job[r].kind = "apply" /\ Uncommitted(pc[r])
          BY <3>3 DEF Commit, Invariants, JournalInv, RunnerInv, CommandFits, ApplyPCs,
                      LockedPCs, Uncommitted
        <4>2. NotAccepted(mem[r].run) /\ Fits(p, mem[r])  BY <3>2, <4>1, ApplyFacts
        <4>3. \A q \in Profiles : remote[q][mem[r].run] = NoJournal
          BY <4>2 DEF NotAccepted
        <4>4. WithStatus(mem[r], "success").run = mem[r].run
          BY <3>2, <4>2, StampedFits DEF Statuses
        <4>5. \A q \in Profiles, x \in RunIds :
                remote'[q][x] # NoJournal =>
                  (q = p /\ x = mem[r].run) \/ remote[q][x] # NoJournal
          BY <3>3, <4>4, RunnerTypes DEF Commit
        <4>6. QED  BY <4>3, <4>5 DEF RunsInv, OneProfileEach
      <3>4. CASE Claim(r)
        <4>1. FromHost(r) \/ Has(r, "local")
          BY <3>4 DEF Claim, Invariants, JournalInv, RunnerInv, CommandFits, RollbackPCs,
                      LockedPCs, FromHost
        <4>2. remote' = remote \/ remote[p][mem[r].run] # NoJournal
          <5>1. Has(r, "local") => remote' = remote  BY <3>4 DEF Claim
          <5>2. FromHost(r) => remote[p][mem[r].run] # NoJournal
            BY DEF Invariants, JournalInv, RunnerInv, Loaded, StoredRuns
          <5>3. QED  BY <4>1, <5>1, <5>2
        <4>3. WithStatus(mem[r], "rolling_back").run = mem[r].run
          BY <3>2, RunnerFacts, StampedFits DEF Statuses, Invariants
        <4>4. \A q \in Profiles, x \in RunIds :
                remote'[q][x] # NoJournal =>
                  (q = p /\ x = mem[r].run) \/ remote[q][x] # NoJournal
          BY <3>4, <4>3, RunnerTypes DEF Claim
        <4>5. \A q \in Profiles, x \in RunIds :
                remote'[q][x] # NoJournal => remote[q][x] # NoJournal
          BY <2>2, <4>2, <4>4
        <4>6. QED  BY <4>5 DEF RunsInv, OneProfileEach
      <3>5. CASE Consume(r)
        <4> DEFINE k == mem[r].run
        <4>1. remote' \in {remote, [remote EXCEPT ![p][k] = NoJournal]}
          BY <3>5 DEF Consume
        <4>2. k \in RunIds  BY <3>2, RunnerFacts DEF Invariants, Fits, Journals
        <4> HIDE DEF p, k
        <4>3. \A q \in Profiles, x \in RunIds :
                remote'[q][x] = remote[q][x] \/ remote'[q][x] = NoJournal
          BY <3>2, <4>1, <4>2, RunnerTypes
        <4>4. QED  BY <4>3 DEF RunsInv, OneProfileEach
      <3>6. QED  BY <3>1, <3>3, <3>4, <3>5
    <2>3. QED  BY <2>1, <2>2
  <1>2. BornInOrder'
    <2>1. CASE born' = born  BY <2>1 DEF RunsInv, BornInOrder
    <2>2. CASE born' # born
      <3>1. PICK r \in Runners : NewRun(r)  BY <2>2, BirthChanges
      <3> DEFINE n == Cardinality({x \in RunIds : born[x] # 0})
      <3>2. PICK k \in RunIds : FreshRun(k) /\ born' = [born EXCEPT ![k] = n + 1]
        BY <2>2, <3>1 DEF NewRun, SavedOr
      <3>3. born[k] = 0 /\ \A other \in RunIds : born[other] = 0 <=> k <= other
        BY <3>2 DEF FreshRun
      <3>4. n \in Nat
        <4>1. IsFiniteSet({x \in RunIds : born[x] # 0})
          BY RecordTypes, FS_Subset
        <4>2. QED  BY <4>1, FS_CardinalityType
      <3>5. \A x \in RunIds : born[x] <= n /\ born[x] \in Nat /\ x \in Nat
        BY RecordTypes DEF RecordInv, SharedInv, BirthsInv
      <3> HIDE DEF n
      <3>6. \A x \in RunIds : born'[x] = IF x = k THEN n + 1 ELSE born[x]
        BY <3>2, RecordTypes
      <3>7. BornInOrder  BY DEF RunsInv
      <3>8. QED  BY <3>3, <3>4, <3>5, <3>6, <3>7 DEF BornInOrder
    <2>3. QED  BY <2>1, <2>2
  <1>3. QED  BY <1>1, <1>2 DEF RunsInv

-----------------------------------------------------------------------------
(* What a committed run made of its objects.                               *)
LEMMA WantStep ==
    ASSUME Invariants, WantInv, NEW r \in Runners, OthersStill(r),
           UNCHANGED <<host, origin>> \/ Holds(r),
           \A p \in Profiles, k \in RunIds :
             remote'[p][k] # NoJournal => Wanted(p, remote'[p][k]),
           WantedHere(pc'[r], Prof(r)', mem'[r], host', origin')
    PROVE  WantInv'
  <1>1. ASSUME NEW s \in Runners, s # r
        PROVE  WantedHere(pc'[s], Prof(s)', mem'[s], host', origin')
    <2>1. pc'[s] = pc[s] /\ mem'[s] = mem[s] /\ Prof(s)' = Prof(s)
      BY <1>1 DEF OthersStill, Prof
    <2>2. WantedHere(pc[s], Prof(s), mem[s], host, origin)  BY DEF WantInv
    <2>3. CASE UNCHANGED <<host, origin>>  BY <2>1, <2>2, <2>3
    <2>4. CASE Holds(r)
      <3>1. ~Holds(s)  BY <1>1, <2>4 DEF Invariants, LockInv, MutualExclusion
      <3>2. pc[s] \in {"idle", "lock"}  BY <3>1, Waiting
      <3>3. QED  BY <2>1, <3>2 DEF WantedHere, Early
    <2>5. QED  BY <2>3, <2>4
  <1>2. QED  BY <1>1 DEF WantInv

(* The journals on the host stay as they were, are stamped or are dropped. *)
LEMMA WantedStill ==
    ASSUME Invariants, WantInv, remote' = remote
    PROVE  \A p \in Profiles, k \in RunIds :
             remote'[p][k] # NoJournal => Wanted(p, remote'[p][k])
  BY DEF WantInv

(* Where nothing is said of the runner, nothing is to be kept.             *)
LEMMA LeavesWant ==
    ASSUME Invariants, HostInv, WantInv, NEW r \in Runners, OthersStill(r),
           \/ StartApply(r) \/ StartRollback(r) \/ Crash(r)
           \/ TakeLock(r) \/ LockRefused(r) \/ ReleaseLock(r)
           \/ AdmitRefused(r) \/ Interrupt(r) \/ UndoPreflight(r) \/ StampFailed(r)
           \/ Tidy(r) \/ Fallback(r) \/ RevertStep(r)
           \/ LoadJournal(r) \/ LoadRefused(r) \/ Preflight(r) \/ PreflightRefused(r)
    PROVE  WantInv'
  <1>1. pc'[r] \notin Early \cup {"commit"}
    <2> USE RunnerTypes DEF Early, Goto, End, Exit
    <2>1. CASE \/ StartApply(r) \/ StartRollback(r) \/ Crash(r)
               \/ TakeLock(r) \/ LockRefused(r) \/ ReleaseLock(r)
      BY <2>1 DEF StartApply, StartRollback, Crash, TakeLock, LockRefused, ReleaseLock
    <2>2. CASE AdmitRefused(r) \/ Interrupt(r) \/ UndoPreflight(r) \/ StampFailed(r)
      BY Zenon, <2>2 DEF AdmitRefused, Interrupt, UndoPreflight, StampFailed
    <2>3. CASE Tidy(r) \/ Fallback(r)  BY Zenon, <2>3 DEF Tidy, Fallback, SavedOr
    <2>4. CASE RevertObject(r) \/ SettleObject(r)
      BY ZenonT(40), <2>4 DEF RevertObject, SettleObject, RestoreFailed
    <2>5. CASE RevertDone(r)  BY <2>5 DEF RevertDone
    <2>6. CASE LoadJournal(r) \/ LoadRefused(r) \/ Preflight(r) \/ PreflightRefused(r)
      BY <2>6 DEF LoadJournal, LoadRefused, Preflight, PreflightRefused
    <2>7. QED  BY <2>1, <2>2, <2>3, <2>4, <2>5, <2>6 DEF RevertStep
  <1>2. UNCHANGED <<host, origin>> \/ Holds(r)
    <2>1. CASE RevertObject(r) \/ SettleObject(r)
      BY Zenon, <2>1 DEF RevertObject, SettleObject, Holds, LockedPCs, RevertPCs
    <2>2. CASE ~(RevertObject(r) \/ SettleObject(r))
      BY Zenon, <2>2
      DEF StartApply, StartRollback, Crash, TakeLock, LockRefused, ReleaseLock, AdmitRefused,
          Interrupt, UndoPreflight, StampFailed, Tidy, Fallback, RevertStep, RevertDone,
          LoadJournal, LoadRefused, Preflight, PreflightRefused, hostVars, historyVars
    <2>3. QED  BY <2>1, <2>2
  <1>3. remote' = remote
    BY Zenon DEF StartApply, StartRollback, Crash, TakeLock, LockRefused, ReleaseLock,
                 AdmitRefused, Interrupt, UndoPreflight, StampFailed, Tidy, Fallback,
                 RevertStep, RevertObject, SettleObject, RevertDone, LoadJournal,
                 LoadRefused, Preflight, PreflightRefused, hostVars
  <1>4. WantedHere(pc'[r], Prof(r)', mem'[r], host', origin')
    <2>1. pc'[r] # "capture" /\ pc'[r] # "commit"  BY <1>1 DEF Early
    <2>2. QED  BY <1>1, <2>1 DEF WantedHere
  <1>5. QED  BY <1>2, <1>3, <1>4, WantedStill, WantStep

(* A run begins or goes on; before it commits, the host is as its steps    *)
(* left it.                                                                *)
LEMMA MovesWant ==
    ASSUME Invariants, HostInv, LeftInv, WantInv, NEW r \in Runners, OthersStill(r),
           NewRun(r) \/ NextStep(r) \/ Signal(r)
    PROVE  WantInv'
  <1>1. host' = host /\ job' = job /\ remote' = remote /\ Prof(r)' = Prof(r)
    BY DEF NewRun, NextStep, Signal, hostVars, Prof
  <1>2. CASE NewRun(r)
    <2>1. PICK k : \/ pc' = [pc EXCEPT ![r] = "release"]
                   \/ /\ pc' = [pc EXCEPT ![r] = "step"]
                      /\ mem' = [mem EXCEPT ![r] = [run |-> k, status |-> "in_progress",
                                                    steps |-> <<>>]]
      BY <1>2 DEF NewRun, SavedOr, Goto, End
    <2>2. WantedHere(pc'[r], Prof(r)', mem'[r], host', origin')
      <3>1. CASE pc' = [pc EXCEPT ![r] = "release"]
        <4>1. pc'[r] = "release"  BY <3>1, RunnerTypes
        <4>2. QED  BY <4>1 DEF WantedHere, Early
      <3>2. CASE /\ pc' = [pc EXCEPT ![r] = "step"]
                 /\ mem' = [mem EXCEPT ![r] = [run |-> k, status |-> "in_progress",
                                               steps |-> <<>>]]
        <4>1. mem'[r].steps = <<>> /\ pc'[r] = "step"  BY <3>2, RunnerTypes
        <4>2. Len(mem'[r].steps) = 0  BY <4>1
        <4>3. QED  BY <4>1, <4>2 DEF WantedHere, Wanted
      <3>3. QED  BY <2>1, <3>1, <3>2
    <2>3. Holds(r)  BY <1>2 DEF NewRun, Holds, LockedPCs, ApplyPCs
    <2>4. QED  BY <1>1, <2>2, <2>3, WantedStill, WantStep
  <1>3. CASE NextStep(r)
    <2>1. pc[r] = "step" /\ pc'[r] \in {"exec", "commit"} /\ UNCHANGED <<mem, origin>>
      BY <1>3, RunnerTypes DEF NextStep, Goto, historyVars
    <2>2. Wanted(Prof(r), mem[r])  BY <2>1 DEF WantInv, WantedHere, Early
    <2>3. LeftAs(Prof(r), mem[r], host) /\ Accounts(Prof(r), mem[r], host, origin)
      BY <2>1 DEF LeftInv, RunnerLeft, HostInv, RunnerHost, Running, RunPCs
    <2>4. WantedHere(pc'[r], Prof(r)', mem'[r], host', origin')
      BY <1>1, <2>1, <2>2, <2>3 DEF WantedHere
    <2>5. QED  BY <1>1, <2>1, <2>4, WantedStill, WantStep
  <1>4. CASE Signal(r)
    <2>1. UNCHANGED <<pc, mem, origin>>  BY <1>4 DEF Signal, historyVars
    <2>2. WantedHere(pc'[r], Prof(r)', mem'[r], host', origin')
      BY <1>1, <2>1 DEF WantInv
    <2>3. QED  BY <1>1, <2>1, <2>2, WantedStill, WantStep
  <1>5. QED  BY <1>2, <1>3, <1>4

(* A record keeps what the earlier ones say; the capture after a step is   *)
(* what the plugin made.                                                   *)
LEMMA CapturesWant ==
    ASSUME Invariants, WantInv, NEW r \in Runners, OthersStill(r),
           CaptureBefore(r) \/ CaptureAfter(r)
    PROVE  WantInv'
  <1> DEFINE p == Prof(r)
             m == Len(mem[r].steps)
  <1>1. /\ p \in Profiles /\ Holds(r)
        /\ pc[r] \in {"exec", "capture"} /\ pc[r] \in Journalled
        /\ RunnerFits(pc[r], p, mem[r], todo[r])
    BY RunnerFacts
    DEF Invariants, CaptureBefore, CaptureAfter, Journalled, Unloaded, PCs, LockedPCs,
        ApplyPCs, Holds
  <1>2. /\ Fits(p, mem[r]) /\ m \in Nat /\ Len(StepsOf[p]) \in Nat
    BY <1>1, RunnerFacts, RulesAssumption DEF Invariants, Journals, RulesAssumption
  <1>3. WantedHere(pc[r], p, mem[r], host, origin) /\ Wanted(p, mem[r])
    BY <1>1 DEF WantInv, WantedHere, Early
  <1>4. host' = host /\ Prof(r)' = p /\ remote' = remote
    BY DEF CaptureBefore, CaptureAfter, hostVars, Prof
  <1>5. \A i \in 1..Len(StepsOf[p]) :
          /\ Snapshot(p, i) \in Capture(p, i)
          /\ \A o \in ObjectsOf(p, i) : o \in Objects /\ Snapshot(p, i)[o] = host[o]
    BY <1>1, HostTypes, SnapshotType, ObjectsOfType DEF Snapshot
  <1>6. ASSUME WantedHere(pc'[r], p, mem'[r], host, origin')
        PROVE  WantInv'
    <2>1. WantedHere(pc'[r], Prof(r)', mem'[r], host', origin')  BY <1>4, <1>6
    <2>2. QED  BY <1>1, <1>4, <2>1, WantedStill, WantStep
  <1>7. ASSUME pc'[r] = "undo" PROVE WantInv'
    BY <1>6, <1>7 DEF WantedHere, Early
  <1>8. CASE CaptureBefore(r)
    <2> DEFINE c == Snapshot(p, m + 1)
               j == Recorded(mem[r], c)
    <2>1. pc[r] = "exec" /\ m < Len(StepsOf[p]) /\ m + 1 \in 1..Len(StepsOf[p])
      BY <1>1, <1>2, <1>8 DEF CaptureBefore, RunnerFits
    <2>2. c \in Capture(p, m + 1)  BY <1>5, <2>1
    <2> HIDE DEF c
    <2>3. p \in Profiles /\ Fits(p, mem[r]) /\ m < Len(StepsOf[p]) /\ c \in Capture(p, m + 1)
      BY <1>1, <1>2, <2>1, <2>2
    <2>4. /\ Len(j.steps) = m + 1
          /\ \A i \in 1..m : j.steps[i] = mem[r].steps[i]
          /\ j.steps[m + 1] = [before |-> c, after |-> Uncaptured]
      BY ZenonT(40), <2>3, AppendedFits
    <2>5. pc'[r] = "undo" \/ (mem'[r] = j /\ pc'[r] = "run")
      BY <1>8, RunnerTypes DEF CaptureBefore, SavedOr, Goto, c
    <2> HIDE DEF j
    <2>6. Wanted(p, j)
      <3>1. \A i \in 1..(m + 1) : i = m + 1 \/ i \in 1..m  BY <1>2
      <3>2. j.steps[m + 1].after = Uncaptured  BY <2>4
      <3>3. QED  BY <1>3, <2>4, <3>1, <3>2 DEF Wanted
    <2>7. QED  BY <1>6, <1>7, <2>5, <2>6 DEF WantedHere
  <1>9. CASE CaptureAfter(r)
    <2> DEFINE c == Snapshot(p, m)
               j == Completed(mem[r], c)
    <2>1. pc[r] = "capture" /\ m > 0 /\ m \in 1..Len(StepsOf[p])
      BY <1>1, <1>2, <1>9 DEF CaptureAfter, RunnerFits, Fits
    <2>2. c \in Capture(p, m) /\ \A o \in ObjectsOf(p, m) : c[o] = host[o]
      BY <1>5, <2>1
    <2> HIDE DEF c
    <2>3. /\ Len(j.steps) = m
          /\ \A i \in 1..(m - 1) : j.steps[i] = mem[r].steps[i]
          /\ j.steps[m].before = mem[r].steps[m].before
          /\ j.steps[m].after = c
      BY <1>1, <1>2, <2>1, <2>2, CompletedFits
    <2>4. pc'[r] = "undo" \/ (mem'[r] = j /\ pc'[r] = "step")
      BY <1>9, RunnerTypes DEF CaptureAfter, SavedOr, Goto, c
    <2> HIDE DEF j
    <2>5. Wanted(p, j)
      <3>1. SUFFICES ASSUME NEW i \in 1..m, j.steps[i].after # Uncaptured,
                            NEW o \in ObjectsOf(p, i)
                     PROVE  Brought(o, j.steps[i].before[o], j.steps[i].after[o],
                                    StepsOf[p][i].want[o])
        BY <2>3 DEF Wanted
      <3>2. CASE i = m  BY <1>3, <2>1, <2>2, <2>3, <3>2 DEF WantedHere
      <3>3. CASE i \in 1..(m - 1)
        <4>1. i \in 1..m  BY <1>2
        <4>2. QED  BY <1>3, <2>3, <3>1, <3>3, <4>1 DEF Wanted
      <3>4. QED  BY <1>2, <3>2, <3>3
    <2>6. QED  BY <1>6, <1>7, <2>4, <2>5 DEF WantedHere
  <1>10. QED  BY <1>8, <1>9

LEMMA AppliedBrings ==
    ASSUME NEW o, NEW v, NEW w
    PROVE  Brought(o, v, Applied(o, v, w), w)
  BY DEF Applied, HalfWritten, Brought, Reached

(* A plugin that gets through brings the objects of its step to what the   *)
(* profile wants, and does not touch one that is there already.            *)
LEMMA PluginsWant ==
    ASSUME Invariants, RecordInv, WantInv, NEW r \in Runners, OthersStill(r), RunStep(r)
    PROVE  WantInv'
  <1> DEFINE p == Prof(r)
             m == Len(mem[r].steps)
             objs == StepsOf[p][m].objects
  <1>1. /\ p \in Profiles /\ Fits(p, mem[r]) /\ Holds(r)
        /\ m \in 1..Len(mem[r].steps) /\ m \in 1..Len(StepsOf[p])
    BY PluginsStay
  <1>2. pc[r] = "run" /\ UNCHANGED <<remote, job, mem>>  BY DEF RunStep
  <1>3. Wanted(p, mem[r])  BY <1>2 DEF WantInv, WantedHere, Early
  <1>4. \A o \in ObjectsOf(p, m) : mem[r].steps[m].before[o] = host[o]
    <2>1. pc[r] \in Journalled /\ pc[r] \in ApplyPCs
      BY <1>2 DEF Journalled, Unloaded, PCs, LockedPCs, ApplyPCs
    <2>2. job[r].kind = "apply"
      BY <2>1 DEF Invariants, JournalInv, RunnerInv, CommandFits
    <2>3. AtStep(pc[r], p, mem[r], local[r][p], writer, host)  BY <2>1, <2>2, ApplyFacts
    <2>4. QED  BY <1>2, <2>3 DEF AtStep
  <1>5. \/ pc'[r] = "undo"
        \/ pc'[r] = "capture" /\ host' = AfterPlugin(p, m, Len(objs), FALSE)
    BY RunnerTypes DEF RunStep, Goto, Steps
  <1>6. ASSUME host' = AfterPlugin(p, m, Len(objs), FALSE), NEW o \in ObjectsOf(p, m)
        PROVE  Brought(o, mem[r].steps[m].before[o], host'[o], StepsOf[p][m].want[o])
    <2>1. /\ StepsOf[p][m] \in Step /\ o \in Objects
      BY <1>1, ObjectsOfType
    <2>2. objs \in Seq(Objects)  BY <2>1 DEF Step
    <2>3. o \in {objs[k] : k \in 1..Len(objs)}  BY <2>2 DEF ObjectsOf
    <2>4. host'[o] = Applied(o, host[o], StepsOf[p][m].want[o])
      BY <1>6, <2>1, <2>3 DEF AfterPlugin
    <2>5. mem[r].steps[m].before[o] = host[o]  BY <1>4
    <2>6. QED  BY <2>4, <2>5, AppliedBrings
  <1>7. WantedHere(pc'[r], p, mem[r], host', origin')
    <2>1. CASE pc'[r] = "undo"  BY <2>1 DEF WantedHere, Early
    <2>2. CASE pc'[r] = "capture" /\ host' = AfterPlugin(p, m, Len(objs), FALSE)
      <3>1. \A o \in ObjectsOf(p, m) :
              Brought(o, mem[r].steps[m].before[o], host'[o], StepsOf[p][m].want[o])
        BY <1>6, <2>2
      <3>2. QED  BY <1>3, <2>2, <3>1 DEF WantedHere
    <2>3. QED  BY <1>5, <2>1, <2>2
  <1>8. WantedHere(pc'[r], Prof(r)', mem'[r], host', origin')  BY <1>2, <1>7 DEF Prof
  <1>9. QED  BY <1>1, <1>2, <1>8, WantedStill, WantStep

(* The journal that goes to the host, or is stamped there, says what the   *)
(* run made.                                                               *)
LEMMA StoresWant ==
    ASSUME Invariants, RecordInv, WantInv, FromHostOnly, ReadInv, NEW r \in Runners,
           OthersStill(r), Commit(r) \/ Claim(r) \/ Consume(r)
    PROVE  WantInv'
  <1> DEFINE p == Prof(r)
  <1>1. /\ pc[r] \in {"commit", "claim", "consume"} /\ Holds(r) /\ p \in Profiles
        /\ pc[r] \in Journalled
    BY RunnerTypes
    DEF Commit, Claim, Consume, Holds, LockedPCs, ApplyPCs, RollbackPCs, Journalled, Unloaded,
        PCs
  <1>2. Fits(p, mem[r])  BY <1>1, RunnerFacts DEF Invariants
  <1>3. WantedHere(pc'[r], Prof(r)', mem'[r], host', origin')
    <2>1. pc'[r] \in {"tidy", "fallback", "revert", "release"}
      BY RunnerTypes DEF Commit, Claim, Consume, Goto, End
    <2>2. QED  BY <2>1 DEF WantedHere, Early
  <1>4. ASSUME NEW q \in Profiles, NEW k \in RunIds, remote'[q][k] # NoJournal
        PROVE  Wanted(q, remote'[q][k])
    <2>1. remote[q][k] # NoJournal => Wanted(q, remote[q][k])  BY DEF WantInv
    <2>2. \/ remote'[q][k] = remote[q][k]
          \/ /\ q = p /\ \E s \in {"success", "rolling_back"} :
                            remote'[q][k] = WithStatus(mem[r], s)
             /\ pc[r] = "commit" \/ (pc[r] = "claim" /\ mem[r] = remote[p][mem[r].run])
      <3>1. CASE Commit(r)  BY ZenonT(40), <3>1, RunnerTypes DEF Commit
      <3>2. CASE Claim(r)
        <4> DEFINE j == WithStatus(mem[r], "rolling_back")
        <4>1. pc[r] = "claim" /\ remote' \in {remote, [remote EXCEPT ![p][j.run] = j]}
          BY <3>2 DEF Claim
        <4>2. mem[r] = remote[p][mem[r].run]  BY <4>1 DEF ReadInv
        <4> HIDE DEF j
        <4>3. remote'[q][k] = remote[q][k] \/ (q = p /\ remote'[q][k] = j)
          BY <4>1, RunnerTypes
        <4> USE DEF j
        <4>4. QED  BY <4>1, <4>2, <4>3
      <3>3. CASE Consume(r)
        <4>1. remote'[q][k] \in {remote[q][k], NoJournal}  BY <3>3, RunnerTypes DEF Consume
        <4>2. QED  BY <1>4, <4>1
      <3>4. QED  BY <3>1, <3>2, <3>3
    <2>3. CASE /\ q = p /\ \E s \in {"success", "rolling_back"} :
                             remote'[q][k] = WithStatus(mem[r], s)
               /\ pc[r] = "commit" \/ (pc[r] = "claim" /\ mem[r] = remote[p][mem[r].run])
      <3>1. Wanted(p, mem[r])
        <4>1. CASE pc[r] = "commit"  BY <4>1 DEF WantInv, WantedHere
        <4>2. CASE mem[r] = remote[p][mem[r].run]
          <5>1. mem[r] # NoJournal /\ mem[r].run \in RunIds
            BY <1>2, NoJournalAssumption DEF Fits, Journals
          <5>2. PICK x \in RunIds : mem[r].run = x  BY <5>1
          <5>3. QED  BY <1>1, <4>2, <5>1, <5>2 DEF WantInv
        <4>3. QED  BY <2>3, <4>1, <4>2
      <3>2. PICK s \in {"success", "rolling_back"} : remote'[q][k] = WithStatus(mem[r], s)
        BY <2>3
      <3>3. WithStatus(mem[r], s).steps = mem[r].steps
        BY <1>1, <1>2, StampedFits DEF Statuses
      <3>4. QED  BY <2>3, <3>1, <3>2, <3>3 DEF Wanted
    <2>4. QED  BY <1>4, <2>1, <2>2, <2>3
  <1>5. QED  BY <1>1, <1>3, <1>4, WantStep

LEMMA WantKept ==
    ASSUME NoEdits, FromHostOnly, Invariants, HostInv, LeftInv, RecordInv, WantInv, ReadInv,
           [Next]_vars
    PROVE  WantInv'
  <1>1. ASSUME NEW r \in Runners,
               StartApply(r) \/ StartRollback(r) \/ Progress(r) \/ Signal(r) \/ Crash(r)
        PROVE  WantInv'
    <2>1. OthersStill(r)  BY <1>1, OneRunnerMoves
    <2>2. CASE \/ StartApply(r) \/ StartRollback(r) \/ Crash(r)
               \/ TakeLock(r) \/ LockRefused(r) \/ ReleaseLock(r)
               \/ AdmitRefused(r) \/ Interrupt(r) \/ UndoPreflight(r) \/ StampFailed(r)
               \/ Tidy(r) \/ Fallback(r) \/ RevertStep(r)
               \/ LoadJournal(r) \/ LoadRefused(r) \/ Preflight(r) \/ PreflightRefused(r)
      BY <2>1, <2>2, LeavesWant
    <2>3. CASE NewRun(r) \/ NextStep(r) \/ Signal(r)  BY <2>1, <2>3, MovesWant
    <2>4. CASE CaptureBefore(r) \/ CaptureAfter(r)  BY <2>1, <2>4, CapturesWant
    <2>5. CASE RunStep(r)  BY <2>1, <2>5, PluginsWant
    <2>6. CASE Commit(r) \/ Claim(r) \/ Consume(r)  BY <2>1, <2>6, StoresWant
    <2>7. QED  BY <1>1, <2>2, <2>3, <2>4, <2>5, <2>6 DEF Progress, ApplyStep, RollbackStep
  <1>2. ~(\E o \in Objects, v \in Edits : Edit(o, v))  BY DEF Edit, Fault, NoEdits
  <1>3. CASE RemoveStaleLock \/ UNCHANGED vars
    <2>1. UNCHANGED <<host, remote, pc, job, mem, origin>>
      BY <1>3 DEF RemoveStaleLock, vars, hostVars, runnerVars, historyVars
    <2>2. QED  BY <2>1 DEF WantInv, Prof
  <1>4. QED  BY <1>1, <1>2, <1>3 DEF Next

-----------------------------------------------------------------------------
(* An object has one step of a journal, if any.                            *)
LEMMA ManagedOnce ==
    ASSUME StepsApart, NEW p \in Profiles, NEW j, Fits(p, j), NEW o, Covering(j, o) # {}
    PROVE  \E i \in 1..Len(j.steps) :
             /\ o \in ObjectsOf(p, i) /\ i \in 1..Len(StepsOf[p])
             /\ RunBefore(j, o) = j.steps[i].before[o]
             /\ RunAfter(j, o) = j.steps[i].after[o]
  <1>1. /\ Len(j.steps) \in Nat /\ Len(StepsOf[p]) \in Nat
        /\ Covering(j, o) = {i \in 1..Len(j.steps) : o \in ObjectsOf(p, i)}
        /\ Len(j.steps) <= Len(StepsOf[p])
    BY CoveringSteps, RulesAssumption DEF RulesAssumption, Fits
  <1>2. PICK i \in 1..Len(j.steps) : o \in ObjectsOf(p, i)  BY <1>1
  <1>3. \A x \in 1..Len(j.steps) : x \in 1..Len(StepsOf[p])  BY <1>1
  <1>4. Covering(j, o) = {i}
    <2>1. \A x \in Covering(j, o) : x = i  BY <1>1, <1>2, <1>3 DEF StepsApart
    <2>2. i \in Covering(j, o)  BY <1>1, <1>2
    <2>3. QED  BY <2>1, <2>2
  <1>5. FirstOf({i}) = i /\ LastOf({i}) = i  BY <1>1, <1>2 DEF FirstOf, LastOf
  <1>6. QED  BY <1>2, <1>3, <1>4, <1>5 DEF RunBefore, RunAfter

(* A committed run brought each object it changed to what its profile      *)
(* wants.                                                                  *)
LEMMA LinkBrought ==
    ASSUME StepsApart, NEW p \in Profiles, NEW j, Fits(p, j), AllCaptured(j), Wanted(p, j),
           NEW o, Alters(j, o)
    PROVE  /\ Manages(p, o)
           /\ \A i \in 1..Len(StepsOf[p]) : o \in ObjectsOf(p, i) =>
                /\ Reached(o, RunAfter(j, o), StepsOf[p][i].want[o])
                /\ ~Reached(o, RunBefore(j, o), StepsOf[p][i].want[o])
  <1>1. PICK i \in 1..Len(j.steps) :
             /\ o \in ObjectsOf(p, i) /\ i \in 1..Len(StepsOf[p])
             /\ RunBefore(j, o) = j.steps[i].before[o]
             /\ RunAfter(j, o) = j.steps[i].after[o]
    BY ManagedOnce DEF Alters
  <1>2. Brought(o, RunBefore(j, o), RunAfter(j, o), StepsOf[p][i].want[o])
    BY <1>1 DEF AllCaptured, Wanted
  <1>3. \A x \in 1..Len(StepsOf[p]) : o \in ObjectsOf(p, x) => x = i
    BY <1>1 DEF StepsApart
  <1>4. RunBefore(j, o) # RunAfter(j, o)  BY DEF Alters
  <1>5. QED  BY <1>1, <1>2, <1>3, <1>4 DEF Brought, Manages

(* A preflight that finds no conflict finds every object that is to be     *)
(* restored as the run left it.                                            *)
LEMMA FoundAsLeft ==
    ASSUME NoopsManageNothing, StepsApart, NEW p \in Profiles, NEW j, Fits(p, j),
           AllCaptured(j), NEW births, NEW found, Honest(p, j, births, found), NEW now,
           RollbackConflicts(p, j.steps, now, FALSE) = {}, NEW o
    PROVE  /\ ItemsOn(p, j, o) # {} => /\ Covering(j, o) # {}
                                       /\ now[o] = RunAfter(j, o)
                                       /\ found[j.run][o] = RunBefore(j, o)
           /\ Alters(j, o) => ItemsOn(p, j, o) # {}
  <1>1. ASSUME ItemsOn(p, j, o) # {}
        PROVE  /\ Covering(j, o) # {}
               /\ now[o] = RunAfter(j, o) /\ found[j.run][o] = RunBefore(j, o)
    <2>1. PICK it : it \in ItemsOn(p, j, o)  BY <1>1
    <2>2. /\ it \in RevertItems(p, j.steps) /\ o = StepsOf[p][it[1]].objects[it[2]]
      BY <2>1 DEF ItemsOn
    <2>3. /\ it[1] \in 1..Len(j.steps) /\ it[2] \in DOMAIN StepsOf[p][it[1]].objects
      BY <2>2, RevertItemsType
    <2>4. o \in ObjectsOf(p, it[1]) /\ StepApplies(p, j.steps, it[1])
      BY <2>2, <2>3 DEF ObjectsOf, RevertItems
    <2>5. DOMAIN j.steps = 1..Len(j.steps)  BY DEF Fits, Journals
    <2>6. now[o] = j.steps[it[1]].after[o]
      <3>1. o \notin ConflictsAt(p, j.steps, it[1], now, FALSE)
        BY <2>3, <2>4, <2>5 DEF RollbackConflicts
      <3>2. QED  BY <2>3, <2>4, <3>1 DEF ConflictsAt, AllCaptured
    <2>7. Covering(j, o) # {}  BY <2>3, <2>4, CoveringSteps
    <2>8. PICK i \in 1..Len(j.steps) :
             /\ o \in ObjectsOf(p, i) /\ i \in 1..Len(StepsOf[p])
             /\ RunBefore(j, o) = j.steps[i].before[o]
             /\ RunAfter(j, o) = j.steps[i].after[o]
      BY <2>7, ManagedOnce
    <2>9. it[1] \in 1..Len(StepsOf[p])
      <3>1. Len(j.steps) \in Nat /\ Len(StepsOf[p]) \in Nat
        BY CoveringSteps, RulesAssumption DEF RulesAssumption
      <3>2. QED  BY <2>3, <3>1 DEF Fits
    <2>10. i = it[1]  BY <2>4, <2>8, <2>9 DEF StepsApart
    <2>11. RunBefore(j, o) = found[j.run][o]  BY <2>7, HonestBefore
    <2>12. QED  BY <2>6, <2>7, <2>8, <2>10, <2>11
  <1>2. ASSUME Alters(j, o) PROVE ItemsOn(p, j, o) # {}
    BY <1>2, HonestBefore DEF Alters
  <1>3. QED  BY <1>1, <1>2

LEMMA ChainSame ==
    ASSUME NEW L, NEW at, NEW start, NEW end, Chain(L, at, start, end), NEW at2,
           \A x \in L : at2[x.run] = at[x.run]
    PROVE  Chain(L, at2, start, end)
  BY DEF Chain

(* A chain to one host is a chain to another that is the same.             *)
LEMMA ChainedSame ==
    ASSUME NEW rem, NEW births, NEW but, NEW now, Chained(rem, births, but, now), NEW now2,
           \A o \in Objects : now2[o] = now[o]
    PROVE  Chained(rem, births, but, now2)
  BY DEF Chained

-----------------------------------------------------------------------------
(* A step of runner r that leaves the host and its journals alone.         *)
LEMMA StackStill ==
    ASSUME Invariants, Stacked, NEW r \in Runners, OthersStill(r),
           UNCHANGED <<host, remote, born, origin>>,
           pc'[r] = "claim" =>
             \/ pc[r] = "claim" /\ job'[r] = job[r] /\ mem'[r] = mem[r]
             \/ ~Conflicted(r)' /\ HalfReverted \subseteq {mem'[r].run},
           Applying(r)' => Applying(r) /\ mem'[r].run = mem[r].run,
           Applying(r) /\ ~Applying(r)' =>
             \A o \in Objects : host[o] = origin[mem[r].run][o]
    PROVE  Stacked'
  <1>1. HalfReverted' = HalfReverted  BY DEF HalfReverted
  <1>2. \A s \in Runners \ {r} :
          /\ pc'[s] = pc[s] /\ job'[s] = job[s] /\ mem'[s] = mem[s]
          /\ Conflicted(s)' = Conflicted(s) /\ Applying(s)' = Applying(s)
    BY DEF OthersStill, Conflicted, Prof, Applying
  <1>3. ClaimsTheTop'
    <2>1. ASSUME NEW s \in Runners, pc'[s] = "claim"
          PROVE  ~Conflicted(s)' /\ HalfReverted' \subseteq {mem'[s].run}
      <3>1. CASE s # r \/ (pc[r] = "claim" /\ job'[r] = job[r] /\ mem'[r] = mem[r])
        <4>1. pc[s] = "claim" /\ mem'[s] = mem[s] /\ Conflicted(s)' = Conflicted(s)
          BY <1>2, <2>1, <3>1 DEF Conflicted, Prof
        <4>2. QED  BY <1>1, <4>1 DEF Stacked, ClaimsTheTop
      <3>2. CASE s = r /\ ~Conflicted(r)' /\ HalfReverted \subseteq {mem'[r].run}
        BY <1>1, <3>2
      <3>3. QED  BY <2>1, <3>1, <3>2
    <2>2. QED  BY <2>1 DEF ClaimsTheTop
  <1>4. LedToRun'
    <2>1. ASSUME NEW s \in Runners, Applying(s)'
          PROVE  HalfReverted' = {} /\ Chained(remote', born', {}, origin'[mem'[s].run])
      <3>1. Applying(s) /\ mem'[s].run = mem[s].run  BY <1>2, <2>1
      <3>2. HalfReverted = {} /\ Chained(remote, born, {}, origin[mem[s].run])
        BY <3>1 DEF Stacked, LedToRun
      <3>3. QED  BY <1>1, <3>1, <3>2
    <2>2. QED  BY <2>1 DEF LedToRun
  <1>5. LeadsToHost'
    <2>1. SUFFICES ASSUME \A s \in Runners : ~Applying(s)', HalfReverted' = {}
                   PROVE  Chained(remote', born', {}, host')
      BY DEF LeadsToHost
    <2>2. CASE \A s \in Runners : ~Applying(s)
      BY <1>1, <2>1, <2>2 DEF Stacked, LeadsToHost
    <2>3. CASE \E s \in Runners : Applying(s)
      <3>1. Applying(r) /\ ~Applying(r)'  BY <1>2, <2>1, <2>3
      <3>2. Chained(remote, born, {}, origin[mem[r].run])
        BY <3>1 DEF Stacked, LedToRun
      <3>3. \A o \in Objects : host[o] = origin[mem[r].run][o]  BY <3>1
      <3>4. Chained(remote, born, {}, host)  BY <3>2, <3>3, ChainedSame
      <3>5. QED  BY <3>4
    <2>4. QED  BY <2>2, <2>3
  <1>6. LeadsBack'
    <2>1. \A p, k : Meant(p, k)' = Meant(p, k)  BY DEF Meant
    <2>2. LeadsBack  BY DEF Stacked
    <2>3. QED  BY <1>1, <2>1, <2>2 DEF LeadsBack
  <1>7. QED  BY <1>3, <1>4, <1>5, <1>6 DEF Stacked

(* Commands that start, end or give up, outside of a run's changes.        *)
LEMMA OutsideStacked ==
    ASSUME Invariants, Stacked, NEW r \in Runners, OthersStill(r), ~tainted',
           \/ StartApply(r) \/ StartRollback(r) \/ Crash(r)
           \/ TakeLock(r) \/ LockRefused(r) \/ ReleaseLock(r)
           \/ AdmitRefused(r) \/ StampFailed(r) \/ Tidy(r) \/ Fallback(r)
           \/ LoadJournal(r) \/ LoadRefused(r) \/ PreflightRefused(r)
    PROVE  Stacked'
  <1>1. pc'[r] \notin RunPCs \cup RevertPCs \cup {"commit", "claim"}
    <2> USE RunnerTypes DEF Goto, End, Exit, RunPCs, RevertPCs
    <2>1. CASE \/ StartApply(r) \/ StartRollback(r) \/ Crash(r)
               \/ TakeLock(r) \/ LockRefused(r) \/ ReleaseLock(r)
      BY <2>1 DEF StartApply, StartRollback, Crash, TakeLock, LockRefused, ReleaseLock
    <2>2. CASE AdmitRefused(r) \/ StampFailed(r) \/ Tidy(r) \/ Fallback(r)
      BY <2>2 DEF AdmitRefused, StampFailed, Tidy, Fallback, SavedOr
    <2>3. CASE LoadJournal(r) \/ LoadRefused(r) \/ PreflightRefused(r)
      BY <2>3 DEF LoadJournal, LoadRefused, PreflightRefused
    <2>4. QED  BY <2>1, <2>2, <2>3
  <1>2. ~Applying(r)
    <2> USE DEF Applying, RunPCs, RevertPCs
    <2>1. CASE \/ StartApply(r) \/ StartRollback(r)
               \/ TakeLock(r) \/ LockRefused(r) \/ ReleaseLock(r)
      BY <2>1 DEF StartApply, StartRollback, TakeLock, LockRefused, ReleaseLock
    <2>2. CASE Crash(r)  BY <2>2 DEF Crash
    <2>3. CASE AdmitRefused(r) \/ StampFailed(r) \/ Tidy(r) \/ Fallback(r)
      BY <2>3 DEF AdmitRefused, StampFailed, Tidy, Fallback
    <2>4. CASE LoadJournal(r) \/ LoadRefused(r) \/ PreflightRefused(r)
      BY <2>4 DEF LoadJournal, LoadRefused, PreflightRefused
    <2>5. QED  BY <2>1, <2>2, <2>3, <2>4
  <1>3. UNCHANGED <<host, remote, born, origin>>
    BY DEF StartApply, StartRollback, Crash, TakeLock, LockRefused, ReleaseLock,
           AdmitRefused, StampFailed, Tidy, Fallback, LoadJournal, LoadRefused,
           PreflightRefused, hostVars, historyVars
  <1>4. ~Applying(r)' /\ pc'[r] # "claim"  BY <1>1 DEF Applying
  <1>5. QED  BY <1>2, <1>3, <1>4, StackStill

(* A run goes on, or ends with the host as it found it.                    *)
LEMMA RunStacked ==
    ASSUME Invariants, HostInv, LossInv, Stacked, NEW r \in Runners, OthersStill(r), ~tainted',
           ~tainted,
           \/ NextStep(r) \/ Interrupt(r) \/ CaptureBefore(r) \/ CaptureAfter(r)
           \/ UndoPreflight(r) \/ RevertDone(r) \/ Signal(r)
    PROVE  Stacked'
  <1>1. UNCHANGED <<host, remote, born, origin, job>>
    BY DEF NextStep, Interrupt, CaptureBefore, CaptureAfter, UndoPreflight, RevertDone,
           Signal, hostVars, historyVars
  <1>2. pc'[r] = "claim" => pc[r] = "claim" /\ job'[r] = job[r] /\ mem'[r] = mem[r]
    <2> USE RunnerTypes DEF Goto
    <2>1. ~(NextStep(r) \/ Interrupt(r) \/ CaptureBefore(r) \/ CaptureAfter(r)) \/ pc'[r] # "claim"
      BY DEF NextStep, Interrupt, CaptureBefore, CaptureAfter, SavedOr
    <2>2. ~(UndoPreflight(r) \/ RevertDone(r)) \/ pc'[r] # "claim"
      BY DEF UndoPreflight, RevertDone
    <2>3. Signal(r) => UNCHANGED <<pc, mem>>  BY DEF Signal
    <2>4. QED  BY <1>1, <2>1, <2>2, <2>3
  <1>3. pc[r] \in Journalled => /\ Fits(Prof(r), mem[r]) /\ Prof(r) \in Profiles
                                /\ mem[r].steps = <<>> => Len(mem[r].steps) = 0
    BY RunnerFacts DEF Invariants
  <1>4. mem'[r] = mem[r] \/ mem'[r].run = mem[r].run
    <2>1. CASE NextStep(r) \/ UndoPreflight(r) \/ RevertDone(r) \/ Signal(r)
      BY <2>1 DEF NextStep, UndoPreflight, RevertDone, Signal
    <2>2. CASE Interrupt(r)
      <3>1. mem'[r] = WithStatus(mem[r], "interrupted") /\ pc[r] \in Journalled
        BY <2>2, RunnerTypes
        DEF Interrupt, Journalled, Unloaded, PCs, LockedPCs, ApplyPCs
      <3>2. QED  BY <1>3, <3>1, StampedFits DEF Statuses
    <2>3. CASE CaptureBefore(r) \/ CaptureAfter(r)
      <3>1. /\ pc[r] \in {"exec", "capture"} /\ pc[r] \in Journalled
            /\ RunnerFits(pc[r], Prof(r), mem[r], todo[r])
        BY <2>3, RunnerFacts
        DEF CaptureBefore, CaptureAfter, Journalled, Unloaded, PCs, LockedPCs, ApplyPCs,
            Invariants
      <3>2. mem[r] \in Journals  BY <3>1, RunnerFacts DEF Invariants
      <3>3. \A c : Recorded(mem[r], c).run = mem[r].run /\ Completed(mem[r], c).run = mem[r].run
        BY <3>2 DEF Journals, Recorded, Completed
      <3>4. CASE CaptureBefore(r)
        <4>1. mem'[r] = mem[r] \/ \E c : mem'[r] = Recorded(mem[r], c)
          BY <3>4, RunnerTypes DEF CaptureBefore
        <4>2. QED  BY <3>3, <4>1
      <3>5. CASE CaptureAfter(r)
        <4>1. mem'[r] = mem[r] \/ \E c : mem'[r] = Completed(mem[r], c)
          BY <3>5, RunnerTypes DEF CaptureAfter
        <4>2. QED  BY <3>3, <4>1
      <3>6. QED  BY <2>3, <3>4, <3>5
    <2>4. QED  BY <2>1, <2>2, <2>3
  <1>5. Applying(r)' => Applying(r)
    <2> USE RunnerTypes DEF Goto, Applying, RunPCs, RevertPCs
    <2>1. CASE NextStep(r) \/ Interrupt(r) \/ CaptureBefore(r) \/ CaptureAfter(r)
               \/ UndoPreflight(r)
      BY <1>1, <2>1 DEF NextStep, Interrupt, CaptureBefore, CaptureAfter, UndoPreflight
    <2>2. CASE RevertDone(r)  BY <1>1, <2>2 DEF RevertDone
    <2>3. CASE Signal(r)  BY <1>1, <2>3 DEF Signal
    <2>4. QED  BY <2>1, <2>2, <2>3
  <1>6. ASSUME Applying(r), ~Applying(r)'
        PROVE  \A o \in Objects : host[o] = origin[mem[r].run][o]
    <2>1. job[r].kind = "apply" /\ pc'[r] \notin RunPCs \cup RevertPCs \cup {"commit"}
      BY <1>1, <1>6 DEF Applying
    <2>2. RunnerHost(r)  BY DEF HostInv
    <2>3. CASE Interrupt(r)
      <3>1. pc[r] = "step" /\ pc[r] \in Journalled
        BY <2>3 DEF Interrupt, Journalled, Unloaded, PCs, LockedPCs, ApplyPCs
      <3>2. mem[r].steps = <<>>
        BY <2>1, <2>3, RunnerTypes DEF Interrupt, Goto, RunPCs
      <3>3. Accounts(Prof(r), mem[r], host, origin)
        BY <2>2, <3>1 DEF RunnerHost, Running, RunPCs
      <3>4. QED  BY <1>3, <3>1, <3>2, <3>3 DEF Accounts
    <2>4. CASE RevertDone(r)
      <3>1. pc[r] \in Reverting /\ todo[r] = {}
        BY <2>4 DEF RevertDone, Reverting, RevertPCs
      <3>2. ~degraded[r]  BY DEF LossInv
      <3>3. RestoredSoFar(Prof(r), mem[r], todo[r], job[r].kind, host, origin)
        BY <2>2, <3>1, <3>2 DEF RunnerHost, Reverts
      <3>4. QED  BY <2>1, <3>1, <3>3 DEF RestoredSoFar
    <2>5. ~(NextStep(r) \/ CaptureBefore(r) \/ CaptureAfter(r) \/ UndoPreflight(r) \/ Signal(r))
      <3> USE RunnerTypes DEF Goto, RunPCs, RevertPCs
      <3>1. ~NextStep(r)  BY <2>1 DEF NextStep
      <3>2. ~(CaptureBefore(r) \/ CaptureAfter(r))
        BY <2>1 DEF CaptureBefore, CaptureAfter, SavedOr
      <3>3. ~UndoPreflight(r)  BY <2>1 DEF UndoPreflight
      <3>4. ~Signal(r)  BY <1>1, <1>6 DEF Signal, Applying
      <3>5. QED  BY <3>1, <3>2, <3>3, <3>4
    <2>6. QED  BY <2>3, <2>4, <2>5
  <1>7. Applying(r)' => Applying(r) /\ mem'[r].run = mem[r].run  BY <1>4, <1>5
  <1>8. QED  BY <1>1, <1>2, <1>6, <1>7, StackStill

(* A preflight that lets a rollback go on without force has found the host *)
(* as the run left it, and no other rollback half done.                    *)
LEMMA PreflightStacked ==
    ASSUME Invariants, Stacked, NEW r \in Runners, OthersStill(r), ~tainted', Preflight(r)
    PROVE  Stacked'
  <1>1. /\ UNCHANGED <<host, remote, born, origin, job, mem>>
        /\ pc[r] = "preflight" /\ pc'[r] = "claim"
        /\ ~Conflicted(r) /\ HalfReverted \subseteq {mem[r].run}
    BY RunnerTypes DEF Preflight, hostVars, Goto
  <1>2. ~Conflicted(r)' /\ HalfReverted \subseteq {mem'[r].run}
    BY <1>1 DEF Conflicted, Prof
  <1>3. ~Applying(r) /\ ~Applying(r)'
    BY <1>1 DEF Applying, RunPCs, RevertPCs
  <1>4. QED  BY <1>1, <1>2, <1>3, StackStill

(* While runner r has the lock, no other applies or claims.                *)
LEMMA OthersOff ==
    ASSUME Invariants, NEW r \in Runners, OthersStill(r), Holds(r)
    PROVE  \A s \in Runners \ {r} :
             /\ ~Applying(s) /\ ~Applying(s)'
             /\ pc[s] # "claim" /\ pc'[s] # "claim"
  <1>1. SUFFICES ASSUME NEW s \in Runners, s # r
                 PROVE  /\ ~Applying(s) /\ ~Applying(s)'
                        /\ pc[s] # "claim" /\ pc'[s] # "claim"
    OBVIOUS
  <1>2. ~Holds(s)  BY <1>1 DEF Invariants, LockInv, MutualExclusion
  <1>3. pc[s] \in {"idle", "lock"} /\ pc'[s] = pc[s] /\ job'[s] = job[s]
    BY <1>1, <1>2, Waiting DEF OthersStill
  <1>4. QED  BY <1>3 DEF Applying, RunPCs, RevertPCs

(* What a run under way does to the host, the journals do not know of.     *)
LEMMA BusyStacked ==
    ASSUME Invariants, Stacked, NEW r \in Runners, OthersStill(r),
           UNCHANGED <<remote, born, origin, mem>>, Applying(r), Applying(r)'
    PROVE  Stacked'
  <1>1. Holds(r) /\ pc'[r] # "claim"
    BY DEF Applying, Holds, LockedPCs, ApplyPCs, RevertPCs, RunPCs
  <1>2. \A s \in Runners \ {r} : ~Applying(s)' /\ pc'[s] # "claim"  BY <1>1, OthersOff
  <1>3. HalfReverted = {} /\ Chained(remote, born, {}, origin[mem[r].run])
    BY DEF Stacked, LedToRun
  <1>4. HalfReverted' = {}  BY <1>3 DEF HalfReverted
  <1>5. ClaimsTheTop' /\ LeadsBack'  BY <1>1, <1>2, <1>4 DEF ClaimsTheTop, LeadsBack
  <1>6. LedToRun'  BY <1>2, <1>3, <1>4 DEF LedToRun
  <1>7. LeadsToHost'  BY DEF LeadsToHost
  <1>8. QED  BY <1>5, <1>6, <1>7 DEF Stacked

LEMMA RunStepStacked ==
    ASSUME Invariants, Stacked, NEW r \in Runners, OthersStill(r), RunStep(r)
    PROVE  Stacked'
  <1>1. pc[r] = "run" /\ pc'[r] \in {"capture", "undo"}
        /\ UNCHANGED <<remote, born, origin, mem, job>>
    BY RunnerTypes DEF RunStep, Goto
  <1>2. job[r].kind = "apply"
    BY <1>1 DEF Invariants, JournalInv, RunnerInv, CommandFits, ApplyPCs
  <1>3. Applying(r) /\ Applying(r)'  BY <1>1, <1>2 DEF Applying, RunPCs
  <1>4. QED  BY <1>1, <1>3, BusyStacked

(* The journals of runs on the host are of runs that have begun.           *)
LEMMA LinkRuns ==
    ASSUME Invariants, NEW o, NEW x \in Links(remote, o)
    PROVE  x.run \in RunIds /\ born[x.run] # 0 /\ born[x.run] \in Nat
  <1>1. \A p \in Profiles, k \in RunIds : remote[p][k] # NoJournal =>
          remote[p][k].run = k /\ born[k] # 0
    BY DEF Invariants, JournalInv, StoredInv
  <1>2. PICK p \in Profiles, k \in RunIds :
             /\ remote[p][k] # NoJournal
             /\ x.run = k
    BY <1>1, LinksOfStored
  <1>3. QED  BY <1>1, <1>2, HostTypes

(* A run begins where the journals lead to.                                *)
LEMMA NewRunStacked ==
    ASSUME Invariants, Stacked, NEW r \in Runners, OthersStill(r), ~tainted', NewRun(r)
    PROVE  Stacked'
  <1> DEFINE n == Cardinality({x \in RunIds : born[x] # 0})
  <1>1. /\ UNCHANGED <<host, remote, job>> /\ pc[r] = "admit" /\ Holds(r) /\ ~Applying(r)
    BY DEF NewRun, hostVars, Holds, LockedPCs, ApplyPCs, Applying, RunPCs, RevertPCs
  <1>2. PICK k \in RunIds :
          LET j == [run |-> k, status |-> "in_progress", steps |-> <<>>] IN
          /\ born[k] = 0
          /\ \/ /\ Goto(r, "step")
                /\ mem' = [mem EXCEPT ![r] = j]
                /\ born' = [born EXCEPT ![k] = n + 1]
                /\ origin' = [origin EXCEPT ![k] = host]
                /\ tainted' = (tainted \/ HalfReverted # {})
             \/ UNCHANGED <<born, origin>> /\ End(r, "refused")
    BY DEF NewRun, SavedOr, FreshRun
  <1> DEFINE j == [run |-> k, status |-> "in_progress", steps |-> <<>>]
  <1>3. CASE UNCHANGED <<born, origin>> /\ End(r, "refused")
    <2>1. pc'[r] = "release"  BY <1>3, RunnerTypes DEF End, Goto
    <2>2. ~Applying(r)'  BY <2>1 DEF Applying, RunPCs, RevertPCs
    <2>3. QED  BY <1>1, <1>3, <2>1, <2>2, StackStill
  <1>4. CASE /\ Goto(r, "step")
             /\ mem' = [mem EXCEPT ![r] = j]
             /\ born' = [born EXCEPT ![k] = n + 1]
             /\ origin' = [origin EXCEPT ![k] = host]
             /\ tainted' = (tainted \/ HalfReverted # {})
    <2>1. HalfReverted = {} /\ HalfReverted' = {}
      <3>1. HalfReverted = {}  BY <1>4
      <3>2. QED  BY <1>1, <3>1 DEF HalfReverted
    <2>2. \A s \in Runners \ {r} :
             ~Applying(s) /\ ~Applying(s)' /\ pc'[s] # "claim"
      BY <1>1, OthersOff
    <2>3. Chained(remote, born, {}, host)
      BY <1>1, <2>1, <2>2 DEF Stacked, LeadsToHost
    <2>4. pc'[r] = "step" /\ mem'[r].run = k /\ origin'[k] = host
      BY <1>4, RunnerTypes, HostTypes DEF Goto
    <2>5. Chained(remote', born', {}, host)
      <3>1. ASSUME NEW o \in Objects
            PROVE  Chain({x \in Links(remote, o) : x.run \notin {}}, born', InitHost[o], host[o])
        <4>1. \A x \in Links(remote, o) : born'[x.run] = born[x.run]
          BY <1>2, <1>4, LinkRuns, HostTypes
        <4>2. Chain({x \in Links(remote, o) : x.run \notin {}}, born, InitHost[o], host[o])
          BY <2>3 DEF Chained
        <4>3. QED  BY <4>1, <4>2, ChainSame
      <3>2. QED  BY <1>1, <3>1 DEF Chained
    <2>6. Applying(r)' /\ pc'[r] # "claim"
      <3>1. job[r].kind = "apply"
        BY <1>1 DEF Invariants, JournalInv, RunnerInv, CommandFits, ApplyPCs
      <3>2. QED  BY <1>1, <2>4, <3>1 DEF Applying, RunPCs
    <2>7. ClaimsTheTop' /\ LeadsBack' /\ LeadsToHost'
      BY <2>1, <2>2, <2>6 DEF ClaimsTheTop, LeadsBack, LeadsToHost
    <2>8. LedToRun'  BY <2>1, <2>2, <2>4, <2>5 DEF LedToRun
    <2>9. QED  BY <2>7, <2>8 DEF Stacked
  <1>5. QED  BY <1>2, <1>3, <1>4

(* What a restoration does to the host, the journals left out of account   *)
(* the one that is reverted do not see.                                    *)
LEMMA RestoreStacked ==
    ASSUME Invariants, HostInv, FromHostOnly, RunsInv, Stacked, NEW r \in Runners,
           OthersStill(r), ~tainted', RevertObject(r) \/ SettleObject(r)
    PROVE  Stacked'
  <1> DEFINE p == Prof(r)
  <1>1. pc[r] \in {"revert", "settle"} /\ pc[r] \in Reverting /\ Holds(r)
        /\ UNCHANGED <<remote, born, origin, mem, job>>
    BY Zenon DEF RevertObject, SettleObject, Reverting, RevertPCs, Holds, LockedPCs
  <1>2. job[r].kind \in {"apply", "rollback"}
    BY <1>1 DEF Invariants, JournalInv, RunnerInv, CommandFits, LockedPCs, RevertPCs
  <1>3. /\ pc'[r] \in {"revert", "settle", "release", "stamp"}
        /\ job[r].kind = "apply" => pc'[r] \in {"revert", "settle"}
    BY Zenon, RunnerTypes DEF RevertObject, SettleObject, RestoreFailed, Goto, End
  <1>4. CASE job[r].kind = "apply"
    <2>1. Applying(r) /\ Applying(r)'
      BY <1>1, <1>3, <1>4 DEF Applying, RevertPCs
    <2>2. QED  BY <1>1, <2>1, BusyStacked
  <1>5. CASE job[r].kind = "rollback"
    <2>1. PICK it \in todo[r], o \in Objects : Restores(r, it, o)  BY RestoreCases
    <2>2. \A x \in Objects : host'[x] = host[x] \/ ItemsOn(p, mem[r], x) # {}
      BY <2>1, HostTypes DEF Restores
    <2>3. /\ p \in Profiles /\ mem[r] # NoJournal /\ mem[r].run \in RunIds
      BY <1>1, RevertFacts
    <2>4. mem[r].status = "rolling_back" /\ mem[r] = remote[p][mem[r].run]
      <3>1. ~Has(r, "local")
        <4>1. job[r].flags \subseteq Flags  BY RunnerTypes DEF Jobs
        <4>2. QED  BY <4>1 DEF Has, FromHostOnly
      <3>2. QED  BY <1>1, <1>5, <3>1 DEF Invariants, JournalInv, RunnerInv, Claimed, RevertPCs
    <2>5. PICK k \in RunIds : mem[r].run = k  BY <2>3
    <2>6. remote[p][k] = mem[r] /\ k \in HalfReverted
      BY <2>3, <2>4, <2>5 DEF HalfReverted
    <2>7. HalfReverted = {k} /\ HalfReverted' = {k}
      <3>1. HalfReverted = {k}  BY <2>6 DEF Stacked, LeadsBack
      <3>2. HalfReverted' = HalfReverted  BY <1>1 DEF HalfReverted
      <3>3. QED  BY <3>1, <3>2
    <2>8. \A s \in Runners : ~Applying(s)' /\ pc'[s] # "claim"
      <3>1. ~Applying(r)' /\ pc'[r] # "claim"  BY <1>1, <1>3, <1>5 DEF Applying
      <3>2. QED  BY <1>1, <3>1, OthersOff
    <2>9. ClaimsTheTop' /\ LedToRun' /\ LeadsToHost'
      BY <2>7, <2>8 DEF ClaimsTheTop, LedToRun, LeadsToHost
    <2>10. ASSUME NEW q \in Profiles, remote[q][k] # NoJournal
           PROVE  Chained(remote, born, {k}, Meant(q, k)')
      <3>1. q = p  BY <2>3, <2>6, <2>10 DEF RunsInv, OneProfileEach
      <3>2. \A x \in Objects : Meant(q, k)'[x] = Meant(q, k)[x]
        BY <1>1, <2>2, <2>6, <3>1 DEF Meant
      <3>3. Chained(remote, born, {k}, Meant(q, k))
        BY <2>6, <2>10 DEF Stacked, LeadsBack
      <3>4. QED  BY <3>2, <3>3, ChainedSame
    <2>11. LeadsBack'
      <3>1. ASSUME NEW q \in Profiles, remote'[q][k] # NoJournal
            PROVE  Chained(remote', born', {k}, Meant(q, k)')
        BY <1>1, <2>10, <3>1
      <3>2. QED  BY <2>7, <3>1 DEF LeadsBack
    <2>12. QED  BY <2>9, <2>11 DEF Stacked
  <1>6. QED  BY Zenon, <1>2, <1>4, <1>5

(* A run is committed: each object it changed is one more link, from what  *)
(* it found to what it left, and it left the others as they were.          *)
LEMMA CommitStacked ==
    ASSUME NoopsManageNothing, StepsApart, Invariants, HostInv, RecordInv, RunsInv, WantInv,
           Stacked, NEW r \in Runners, OthersStill(r), ~tainted', Commit(r)
    PROVE  Stacked'
  <1> DEFINE p == Prof(r)
             j == WithStatus(mem[r], "success")
  <1>1. /\ pc[r] = "commit" /\ UNCHANGED <<host, born, origin, job>>
        /\ remote' = [remote EXCEPT ![p][j.run] = j] /\ pc'[r] = "tidy"
    BY RunnerTypes DEF Commit, Goto
  <1>2. pc[r] \in Journalled /\ pc[r] \in ApplyPCs /\ Uncommitted(pc[r])
    BY <1>1 DEF Journalled, Unloaded, PCs, LockedPCs, ApplyPCs, Uncommitted
  <1>3. job[r].kind = "apply"
    BY <1>2 DEF Invariants, JournalInv, RunnerInv, CommandFits
  <1>4. PICK k \in RunIds : mem[r].run = k  BY <1>2, <1>3, ApplyFacts
  <1>5. /\ p \in Profiles /\ Holds(r) /\ Fits(p, mem[r]) /\ mem[r] # NoJournal
        /\ born[k] # 0 /\ Latest(born, k) /\ NotAccepted(k)
    BY <1>2, <1>3, <1>4, ApplyFacts
  <1>6. /\ Fits(p, j) /\ j # NoJournal /\ j.run = k /\ j.status = "success"
    BY <1>4, <1>5, StampedFits DEF Statuses
  <1>7. \A o : (Alters(j, o) <=> Alters(mem[r], o)) /\ LinkOf(j, o) = LinkOf(mem[r], o)
    BY <1>5, StampedLink DEF Statuses
  <1> HIDE DEF j
  <1>8. remote' = [remote EXCEPT ![p][k] = j]  BY <1>1, <1>6
  <1>9. HalfReverted = {} /\ Chained(remote, born, {}, origin[k])
    <2>1. Applying(r)  BY <1>1, <1>3 DEF Applying
    <2>2. QED  BY <1>4, <2>1 DEF Stacked, LedToRun
  <1>10. HalfReverted' = {}
    <2>1. \A q \in Profiles, x \in RunIds :
            remote'[q][x] = IF q = p /\ x = k THEN j ELSE remote[q][x]
      <3> HIDE DEF p
      <3>1. QED  BY <1>5, <1>8, RunnerTypes
    <2>2. \A q \in Profiles, x \in RunIds :
            remote'[q][x] # NoJournal /\ remote'[q][x].status = "rolling_back" =>
              remote[q][x] # NoJournal /\ remote[q][x].status = "rolling_back"
      BY <1>6, <2>1
    <2>3. QED  BY <1>9, <2>2 DEF HalfReverted
  <1>11. /\ LeftAs(p, mem[r], host) /\ Accounts(p, mem[r], host, origin)
         /\ AllCaptured(mem[r]) /\ Honest(p, mem[r], born, origin)
    BY <1>1, <1>5
    DEF WantInv, WantedHere, Invariants, JournalInv, RunnerInv, CapturedBy, HostInv, HonestInv
  <1>12. \A o : Covering(mem[r], o) # {} =>
            RunBefore(mem[r], o) = origin[k][o] /\ RunAfter(mem[r], o) = host[o]
    <2>1. SUFFICES ASSUME NEW o, Covering(mem[r], o) # {}
                   PROVE  RunBefore(mem[r], o) = origin[k][o] /\ RunAfter(mem[r], o) = host[o]
      OBVIOUS
    <2>2. RunBefore(mem[r], o) = origin[mem[r].run][o]
      BY <1>5, <1>11, <2>1, HonestBefore
    <2>3. RunAfter(mem[r], o) = host[o]
      <3>1. PICK i \in 1..Len(mem[r].steps) :
               /\ o \in ObjectsOf(p, i)
               /\ RunAfter(mem[r], o) = mem[r].steps[i].after[o]
        BY <1>5, <2>1, ManagedOnce
      <3>2. QED  BY <1>11, <3>1 DEF LeftAs, AllCaptured
    <2>4. QED  BY <1>4, <2>2, <2>3
  <1>13. \A o : \A y \in Links(remote, o) :
            born[y.run] \in Nat /\ born[y.run] < born[k]
    <2>1. SUFFICES ASSUME NEW o, NEW y \in Links(remote, o)
                   PROVE  born[y.run] \in Nat /\ born[y.run] < born[k]
      OBVIOUS
    <2>2. \A q \in Profiles, x \in RunIds : remote[q][x] # NoJournal => remote[q][x].run = x
      BY DEF Invariants, JournalInv, StoredInv
    <2>3. PICK q \in Profiles, x \in RunIds : remote[q][x] # NoJournal /\ y.run = x
      BY <2>2, LinksOfStored
    <2>4. x # k  BY <1>5, <2>3 DEF NotAccepted
    <2>5. born[x] # 0 /\ born[x] \in Nat /\ born[k] \in Nat /\ x \in Nat /\ k \in Nat
      BY <2>1, <2>3, LinkRuns, RecordTypes
    <2>6. born[x] <= born[k]  BY <1>5 DEF Latest
    <2>7. x < k => born[x] < born[k]  BY <1>5 DEF RunsInv, BornInOrder
    <2>8. k < x => born[k] < born[x]  BY <2>5 DEF RunsInv, BornInOrder
    <2>9. QED  BY <2>3, <2>4, <2>5, <2>6, <2>7, <2>8
  <1>14. ASSUME NEW o \in Objects
         PROVE  Chain({x \in Links(remote', o) : x.run \notin {}}, born, InitHost[o], host[o])
    <2> DEFINE L == {x \in Links(remote, o) : x.run \notin {}}
               y == LinkOf(j, o)
    <2>1. Chain(L, born, InitHost[o], origin[k][o])  BY <1>9 DEF Chained
    <2>2. Links(remote', o) = IF Alters(j, o) THEN Links(remote, o) \cup {LinkOf(j, o)}
                              ELSE Links(remote, o)
      <3>1. remote[p][k] = NoJournal  BY <1>5 DEF NotAccepted
      <3>2. QED  BY Zenon, <1>5, <1>6, <1>8, <3>1, RunnerTypes, LinksCommitted
    <2>3. CASE Alters(j, o)
      <3>1. /\ y.run = k /\ y.before = origin[k][o] /\ y.after = host[o]
        <4>1. y = LinkOf(mem[r], o) /\ Alters(mem[r], o)  BY <1>7, <2>3
        <4>2. Covering(mem[r], o) # {}  BY <4>1 DEF Alters
        <4>3. QED  BY <1>4, <1>12, <4>1, <4>2 DEF LinkOf
      <3>2. {x \in Links(remote', o) : x.run \notin {}} = L \cup {y}  BY <2>2, <2>3
      <3> HIDE DEF L, y
      <3>3. \A x \in L : born[x.run] \in Nat /\ born[x.run] < born[y.run]
        BY <1>13, <3>1 DEF L
      <3>4. born[y.run] \in Nat  BY <3>1, RecordTypes
      <3>5. Chain(L, born, InitHost[o], y.before)  BY <2>1, <3>1
      <3>6. Chain(L \cup {y}, born, InitHost[o], y.after)  BY <3>3, <3>4, <3>5, ChainGrows
      <3>7. QED  BY <3>1, <3>2, <3>6
    <2>4. CASE ~Alters(j, o)
      <3>1. host[o] = origin[k][o]
        <4>1. SUFFICES ASSUME host[o] # origin[k][o] PROVE FALSE  OBVIOUS
        <4>2. PICK i \in 1..Len(mem[r].steps) : o \in ObjectsOf(p, i)
          BY <1>4, <1>11, <4>1 DEF Accounts
        <4>3. Covering(mem[r], o) # {}  BY <1>5, <4>2, CoveringSteps
        <4>4. QED  BY <1>7, <1>12, <2>4, <4>1, <4>3 DEF Alters
      <3>2. {x \in Links(remote', o) : x.run \notin {}} = L  BY <2>2, <2>4
      <3>3. QED  BY <2>1, <3>1, <3>2
    <2>5. QED  BY <2>3, <2>4
  <1>15. \A s \in Runners : ~Applying(s)' /\ pc'[s] # "claim"
    <2>1. ~Applying(r)' /\ pc'[r] # "claim"
      BY <1>1 DEF Applying, RunPCs, RevertPCs
    <2>2. QED  BY <1>5, <2>1, OthersOff
  <1>16. Chained(remote', born', {}, host')  BY <1>1, <1>14 DEF Chained
  <1>17. QED
    BY <1>10, <1>15, <1>16 DEF Stacked, ClaimsTheTop, LedToRun, LeadsToHost, LeadsBack

(* When run k is the newest of its profile and the host still holds what   *)
(* it made of an object, no other profile's run has changed the object     *)
(* since: without its link the chain leads to what it found.               *)
LEMMA RunIsTheTop ==
    ASSUME StepsApart, TwoProfilesEach, Invariants, RecordInv, RunsInv, WantInv,
           NEW p \in Profiles, NEW k \in RunIds, remote[p][k] # NoJournal,
           \A other \in StoredRuns(p) : other <= k,
           NEW o \in Objects, Alters(remote[p][k], o),
           Chain(Links(remote, o), born, InitHost[o], host[o]),
           RunAfter(remote[p][k], o) = host[o]
    PROVE  Chain({x \in Links(remote, o) : x.run \notin {k}}, born, InitHost[o],
                 RunBefore(remote[p][k], o))
  <1> DEFINE L == Links(remote, o)
             x == LinkOf(remote[p][k], o)
             n == Cardinality({z \in RunIds : born[z] # 0})
  <1>1. \A q \in Profiles, m \in RunIds : remote[q][m] # NoJournal =>
          /\ remote[q][m].run = m /\ Fits(q, remote[q][m])
          /\ AllCaptured(remote[q][m]) /\ Wanted(q, remote[q][m])
    BY DEF Invariants, JournalInv, StoredInv, Complete, TypeInv, StoredFits, WantInv
  <1>2. x \in L /\ x.run = k /\ x.before = RunBefore(remote[p][k], o) /\ x.after = host[o]
    BY <1>1, StoredIsLink DEF LinkOf
  <1>3. \A y \in L : \E q \in Profiles : \E m \in RunIds :
          /\ remote[q][m] # NoJournal /\ Alters(remote[q][m], o)
          /\ y.run = m /\ y = LinkOf(remote[q][m], o)
    BY <1>1, LinksOfStored
  <1>4. \A y \in L : y.run = k => y = x  BY <1>3 DEF RunsInv, OneProfileEach
  <1>5. n \in Nat /\ \A y \in L : born[y.run] \in 1..n
    <2>1. IsFiniteSet({z \in RunIds : born[z] # 0})  BY RecordTypes, FS_Subset
    <2>2. n \in Nat  BY <2>1, FS_CardinalityType
    <2>3. \A z \in RunIds : born[z] <= n  BY DEF RecordInv, SharedInv, BirthsInv
    <2> HIDE DEF n
    <2>4. \A y \in L : y.run \in RunIds /\ born[y.run] # 0 /\ born[y.run] \in Nat
      BY LinkRuns
    <2>5. QED  BY <2>2, <2>3, <2>4
  <1> HIDE DEF n
  <1>6. k \in Nat /\ born[k] \in Nat /\ born[k] # 0
    BY <1>2, LinkRuns, RecordTypes
  <1>7. ASSUME NEW y \in L, born[k] < born[y.run] PROVE FALSE
    <2> DEFINE S == {z.after : z \in {w \in L : born[x.run] < born[w.run]}}
    <2>1. ASSUME NEW z \in L, born[k] < born[z.run]
          PROVE  \E q \in Profiles :
                   /\ q # p /\ Manages(q, o)
                   /\ \A i \in 1..Len(StepsOf[q]) : o \in ObjectsOf(q, i) =>
                        /\ Reached(o, z.after, StepsOf[q][i].want[o])
                        /\ ~Reached(o, z.before, StepsOf[q][i].want[o])
      <3>1. PICK q \in Profiles, m \in RunIds :
               /\ remote[q][m] # NoJournal /\ Alters(remote[q][m], o)
               /\ z.run = m /\ z = LinkOf(remote[q][m], o)
        BY <1>3, <2>1
      <3>2. q # p
        <4>1. SUFFICES ASSUME q = p PROVE FALSE  OBVIOUS
        <4>2. m \in StoredRuns(p)  BY <3>1, <4>1 DEF StoredRuns
        <4>3. m <= k /\ m \in Nat /\ born[m] \in Nat  BY <4>2, RecordTypes
        <4>4. m < k => born[m] < born[k]  BY <1>6 DEF RunsInv, BornInOrder
        <4>5. QED  BY <1>6, <2>1, <3>1, <4>3, <4>4
      <3>3. /\ z.before = RunBefore(remote[q][m], o) /\ z.after = RunAfter(remote[q][m], o)
        BY <3>1 DEF LinkOf
      <3>4. QED  BY <1>1, <3>1, <3>2, <3>3, LinkBrought
    <2>2. PICK q \in Profiles : q # p /\ Manages(q, o)  BY <1>7, <2>1
    <2>3. PICK i \in 1..Len(StepsOf[q]) : o \in ObjectsOf(q, i)  BY <2>2 DEF Manages
    <2>4. Manages(p, o)  BY <1>1, LinkBrought
    <2>5. \A z \in L : born[k] < born[z.run] =>
            /\ Reached(o, z.after, StepsOf[q][i].want[o])
            /\ ~Reached(o, z.before, StepsOf[q][i].want[o])
      BY <2>1, <2>2, <2>3, <2>4 DEF TwoProfilesEach
    <2>6. \A z \in L : born[x.run] < born[z.run] => z.before \notin S /\ z.after \in S
      BY <1>2, <2>5
    <2>7. born[x.run] < born[y.run]  BY <1>2, <1>7
    <2> HIDE DEF S, x, L
    <2>8. Chain(L, born, InitHost[o], host[o])  BY DEF L
    <2>9. x.after # host[o]  BY ZenonT(40), <1>2, <1>5, <1>7, <2>6, <2>7, <2>8, NotTheTop
    <2>10. QED  BY <1>2, <2>9
  <1>8. \A y \in L \ {x} : born[y.run] \in Nat /\ born[y.run] < born[x.run]
    <2>1. SUFFICES ASSUME NEW y \in L, y # x
                   PROVE  born[y.run] \in Nat /\ born[y.run] < born[x.run]
      OBVIOUS
    <2>2. PICK m \in RunIds : y.run = m  BY <1>3, <2>1
    <2>3. m # k /\ m \in Nat /\ born[m] \in Nat /\ born[m] # 0
      BY <1>4, <2>1, <2>2, LinkRuns, RecordTypes
    <2>4. ~(born[k] < born[m])  BY <1>7, <2>1, <2>2
    <2>5. m < k => born[m] < born[k]  BY <1>6 DEF RunsInv, BornInOrder
    <2>6. k < m => born[k] < born[m]  BY <2>3 DEF RunsInv, BornInOrder
    <2>7. QED  BY <1>2, <1>6, <2>2, <2>3, <2>4, <2>5, <2>6
  <1>9. {y \in L : y.run \notin {k}} = L \ {x}  BY <1>2, <1>4
  <1> HIDE DEF x, L
  <1>10. Chain(L, born, InitHost[o], host[o])  BY DEF L
  <1>11. born[x.run] \in Nat  BY <1>2, <1>6
  <1>12. Chain(L \ {x}, born, InitHost[o], x.before)  BY <1>2, <1>8, <1>10, <1>11, ChainShrinks
  <1>13. QED  BY <1>2, <1>9, <1>12 DEF L

(* A rollback claims the newest journal of its profile: what it is to      *)
(* restore, the others lead to.                                            *)
LEMMA ClaimLeadsBack ==
    ASSUME NoopsManageNothing, StepsApart, TwoProfilesEach, Invariants, HostInv, RecordInv,
           RunsInv, WantInv, Stacked, NEW p \in Profiles, NEW k \in RunIds,
           remote[p][k] # NoJournal, \A other \in StoredRuns(p) : other <= k,
           HalfReverted \subseteq {k}, \A r \in Runners : ~Applying(r),
           RollbackConflicts(p, remote[p][k].steps, host,
                             remote[p][k].status = "rolling_back") = {}
    PROVE  Chained(remote, born, {k}, Meant(p, k))
  <1> DEFINE j == remote[p][k]
  <1>1. CASE k \in HalfReverted  BY <1>1 DEF Stacked, LeadsBack
  <1>2. CASE k \notin HalfReverted
    <2>1. HalfReverted = {} /\ Chained(remote, born, {}, host)
      BY <1>2 DEF Stacked, LeadsToHost
    <2>2. j.status # "rolling_back"  BY <1>2 DEF HalfReverted
    <2>3. RollbackConflicts(p, j.steps, host, FALSE) = {}  BY <2>2
    <2>4. /\ Fits(p, j) /\ AllCaptured(j) /\ Honest(p, j, born, origin) /\ j.run = k
      BY DEF Invariants, JournalInv, StoredInv, Complete, TypeInv, StoredFits, HostInv,
             HonestInv
    <2>5. \A o : /\ ItemsOn(p, j, o) # {} => /\ Covering(j, o) # {}
                                             /\ host[o] = RunAfter(j, o)
                                             /\ origin[k][o] = RunBefore(j, o)
                 /\ Alters(j, o) => ItemsOn(p, j, o) # {}
      <3> HIDE DEF j
      <3>1. Fits(p, j) /\ AllCaptured(j) /\ Honest(p, j, born, origin)  BY <2>4
      <3>2. ASSUME NEW o
            PROVE  /\ ItemsOn(p, j, o) # {} => /\ Covering(j, o) # {}
                                               /\ host[o] = RunAfter(j, o)
                                               /\ origin[j.run][o] = RunBefore(j, o)
                   /\ Alters(j, o) => ItemsOn(p, j, o) # {}
        BY <2>3, <3>1, FoundAsLeft
      <3>3. QED  BY <2>4, <3>2
    <2>6. ASSUME NEW o \in Objects
          PROVE  Chain({x \in Links(remote, o) : x.run \notin {k}}, born, InitHost[o],
                       Meant(p, k)[o])
      <3>1. Chain(Links(remote, o), born, InitHost[o], host[o])
        <4>1. {x \in Links(remote, o) : x.run \notin {}} = Links(remote, o)  OBVIOUS
        <4>2. QED  BY <2>1, <4>1 DEF Chained
      <3>2. CASE Alters(j, o)
        <4>1. Meant(p, k)[o] = RunBefore(j, o) /\ RunAfter(j, o) = host[o]
          BY <2>5, <3>2 DEF Meant
        <4>2. QED  BY <3>1, <3>2, <4>1, RunIsTheTop
      <3>3. CASE ~Alters(j, o)
        <4>1. Meant(p, k)[o] = host[o]  BY <2>5, <3>3 DEF Meant, Alters
        <4>2. {x \in Links(remote, o) : x.run \notin {k}} = Links(remote, o)
          <5>1. \A q \in Profiles, m \in RunIds : remote[q][m] # NoJournal =>
                  remote[q][m].run = m
            BY DEF Invariants, JournalInv, StoredInv
          <5>2. ASSUME NEW x \in Links(remote, o), x.run = k PROVE FALSE
            <6>1. PICK q \in Profiles, m \in RunIds :
                     remote[q][m] # NoJournal /\ Alters(remote[q][m], o) /\ x.run = m
              BY <5>1, LinksOfStored
            <6>2. q = p  BY <5>2, <6>1 DEF RunsInv, OneProfileEach
            <6>3. QED  BY <3>3, <5>2, <6>1, <6>2
          <5>3. QED  BY <5>2
        <4>3. QED  BY <3>1, <4>1, <4>2
      <3>4. QED  BY <3>2, <3>3
    <2>7. QED  BY <2>6 DEF Chained
  <1>3. QED  BY <1>1, <1>2

LEMMA ClaimStacked ==
    ASSUME NoopsManageNothing, StepsApart, TwoProfilesEach, FromHostOnly, Invariants, HostInv,
           RecordInv, RunsInv, WantInv, ReadInv, Stacked, NEW r \in Runners, OthersStill(r),
           Claim(r)
    PROVE  Stacked'
  <1> DEFINE p == Prof(r)
             j == WithStatus(mem[r], "rolling_back")
  <1>1. /\ pc[r] = "claim" /\ UNCHANGED <<host, born, origin, job>> /\ Holds(r)
        /\ pc[r] \in Journalled
    BY DEF Claim, historyVars, Holds, LockedPCs, RollbackPCs, Journalled, Unloaded, PCs
  <1>2. job[r].kind = "rollback"
    BY <1>1 DEF Invariants, JournalInv, RunnerInv, CommandFits, RollbackPCs
  <1>3. ~Has(r, "local")
    <2>1. job[r].flags \subseteq Flags  BY RunnerTypes DEF Jobs
    <2>2. QED  BY <2>1 DEF Has, FromHostOnly
  <1>4. PICK k \in RunIds : mem[r].run = k  BY <1>1, <1>2, RollbackFacts
  <1>5. /\ p \in Profiles /\ Fits(p, mem[r]) /\ mem[r] # NoJournal
        /\ mem[r] = remote[p][k] /\ \A other \in StoredRuns(p) : other <= k
    <2>1. FromHost(r)  BY <1>1, <1>2, <1>3 DEF FromHost
    <2>2. mem[r] = remote[p][mem[r].run]  BY <1>1 DEF ReadInv
    <2>3. \A other \in StoredRuns(p) : other <= mem[r].run
      BY <2>1 DEF Invariants, JournalInv, RunnerInv, Loaded
    <2>4. QED  BY <1>1, <1>2, <1>4, <2>2, <2>3, RollbackFacts
  <1>6. /\ Fits(p, j) /\ j # NoJournal /\ j.run = k /\ j.status = "rolling_back"
        /\ j.steps = mem[r].steps
    BY <1>4, <1>5, StampedFits DEF Statuses
  <1>7. /\ pc'[r] \in {"revert", "release"}
        /\ remote' = remote \/ remote' = [remote EXCEPT ![p][k] = j]
    BY <1>3, <1>6, RunnerTypes DEF Claim, Goto, End
  <1>8. ~Applying(r) /\ ~Applying(r)' /\ pc'[r] # "claim"
    BY <1>1, <1>2, <1>7 DEF Applying
  <1>9. \A s \in Runners : ~Applying(s) /\ ~Applying(s)' /\ pc'[s] # "claim"
    BY <1>1, <1>8, OthersOff
  <1>10. CASE remote' = remote
    BY <1>1, <1>8, <1>10, StackStill
  <1>11. CASE remote' = [remote EXCEPT ![p][k] = j]
    <2>1. \A q \in Profiles, x \in RunIds :
            remote'[q][x] = IF q = p /\ x = k THEN j ELSE remote[q][x]
      <3> HIDE DEF p, j
      <3>1. QED  BY <1>5, <1>11, RunnerTypes
    <2>2. HalfReverted \subseteq {k} /\ ~Conflicted(r)
      BY <1>1, <1>4 DEF Stacked, ClaimsTheTop
    <2>3. HalfReverted' = {k}
      <3>1. \A x \in RunIds : x # k => (x \in HalfReverted' <=> x \in HalfReverted)
        BY <2>1 DEF HalfReverted
      <3>2. k \in HalfReverted'
        <4>1. remote'[p][k] = j  BY <1>5, <2>1
        <4>2. QED  BY <1>5, <1>6, <4>1 DEF HalfReverted
      <3>3. HalfReverted' \subseteq RunIds  BY DEF HalfReverted
      <3>4. QED  BY <2>2, <3>1, <3>2, <3>3
    <2>4. Chained(remote, born, {k}, Meant(p, k))
      BY <1>5, <1>9, <2>2, ClaimLeadsBack DEF Conflicted
    <2>5. \A o : Links(remote', o) = Links(remote, o)
      <3> DEFINE read == mem[r]
      <3>1. /\ p \in Profiles /\ Fits(p, read) /\ "rolling_back" \in Statuses
            /\ remote' = [remote EXCEPT ![p][k] = WithStatus(read, "rolling_back")]
            /\ remote[p][k] # NoJournal
            /\ remote[p][k] = read \/ remote[p][k] = WithStatus(read, "rolling_back")
            /\ remote \in [Profiles -> [RunIds -> Journals \cup {NoJournal}]]
        BY <1>5, <1>11, RunnerTypes DEF Statuses
      <3> HIDE DEF p, j, read
      <3>2. QED  BY <3>1, LinksClaimed
    <2>6. Chained(remote', born, {k}, Meant(p, k))  BY <2>4, <2>5 DEF Chained
    <2>7. \A o : ItemsOn(p, remote'[p][k], o) = ItemsOn(p, remote[p][k], o)
      <3>1. remote'[p][k].steps = remote[p][k].steps  BY <1>5, <1>6, <2>1
      <3>2. QED  BY <3>1 DEF ItemsOn
    <2>8. ASSUME NEW q \in Profiles, remote'[q][k] # NoJournal
          PROVE  Chained(remote', born', {k}, Meant(q, k)')
      <3>1. q = p  BY <1>5, <2>1, <2>8 DEF RunsInv, OneProfileEach
      <3>2. \A o \in Objects : Meant(q, k)'[o] = Meant(q, k)[o]
        BY <1>1, <2>7, <3>1 DEF Meant
      <3>3. QED  BY <1>1, <2>6, <3>1, <3>2, ChainedSame
    <2>9. LeadsBack'  BY <2>3, <2>8 DEF LeadsBack
    <2>10. ClaimsTheTop' /\ LedToRun' /\ LeadsToHost'
      BY <1>9, <2>3 DEF ClaimsTheTop, LedToRun, LeadsToHost
    <2>11. QED  BY <2>9, <2>10 DEF Stacked
  <1>12. QED  BY <1>7, <1>10, <1>11

(* A rollback that is done deletes its journal: the others lead to what it *)
(* restored.                                                               *)
LEMMA ConsumeStacked ==
    ASSUME FromHostOnly, Invariants, HostInv, RunsInv, LossInv, Stacked, NEW r \in Runners,
           OthersStill(r), ~tainted, Consume(r)
    PROVE  Stacked'
  <1> DEFINE p == Prof(r)
  <1>1. /\ pc[r] = "consume" /\ UNCHANGED <<host, born, origin, job, mem>> /\ Holds(r)
        /\ pc[r] \in Reverting
    BY DEF Consume, historyVars, Holds, LockedPCs, RollbackPCs, Reverting
  <1>2. job[r].kind = "rollback"
    BY <1>1 DEF Invariants, JournalInv, RunnerInv, CommandFits, RollbackPCs
  <1>3. ~Has(r, "local")
    <2>1. job[r].flags \subseteq Flags  BY RunnerTypes DEF Jobs
    <2>2. QED  BY <2>1 DEF Has, FromHostOnly
  <1>4. PICK k \in RunIds : mem[r].run = k  BY <1>1, RevertFacts
  <1>5. /\ p \in Profiles /\ RunnerHost(r) /\ mem[r] # NoJournal
        /\ mem[r] = remote[p][k] /\ mem[r].status = "rolling_back"
    <2>1. mem[r].status = "rolling_back" /\ mem[r] = remote[p][mem[r].run]
      BY <1>1, <1>2, <1>3 DEF Invariants, JournalInv, RunnerInv, Claimed
    <2>2. QED  BY <1>1, <1>4, <2>1, RevertFacts
  <1>6. HalfReverted = {k} /\ Chained(remote, born, {k}, Meant(p, k))
    <2>1. k \in HalfReverted  BY <1>5 DEF HalfReverted
    <2>2. QED  BY <1>5, <2>1 DEF Stacked, LeadsBack
  <1>7. /\ pc'[r] = "release"
        /\ remote' = remote \/ remote' = [remote EXCEPT ![p][k] = NoJournal]
    BY <1>3, <1>4, RunnerTypes DEF Consume, Goto, End
  <1>8. ~Applying(r) /\ ~Applying(r)' /\ pc'[r] # "claim"
    BY <1>1, <1>2, <1>7 DEF Applying
  <1>9. \A s \in Runners : ~Applying(s)' /\ pc'[s] # "claim"
    BY <1>1, <1>8, OthersOff
  <1>10. CASE remote' = remote
    BY <1>1, <1>8, <1>10, StackStill
  <1>11. CASE remote' = [remote EXCEPT ![p][k] = NoJournal]
    <2>1. \A q \in Profiles, x \in RunIds :
            remote'[q][x] = IF q = p /\ x = k THEN NoJournal ELSE remote[q][x]
      <3> HIDE DEF p
      <3>1. QED  BY <1>5, <1>11, RunnerTypes
    <2>2. HalfReverted' = {}
      <3>1. \A x \in RunIds : x \in HalfReverted' => x \in HalfReverted /\ x # k
        <4>1. \A q \in Profiles : remote[q][k] # NoJournal => q = p
          BY <1>5 DEF RunsInv, OneProfileEach
        <4>2. \A q \in Profiles : remote'[q][k] = NoJournal  BY <2>1, <4>1
        <4>3. QED  BY <2>1, <4>2 DEF HalfReverted
      <3>2. HalfReverted' \subseteq RunIds  BY DEF HalfReverted
      <3>3. QED  BY <1>6, <3>1, <3>2
    <2>3. \A o \in Objects : host[o] = Meant(p, k)[o]
      <3>1. todo[r] = {}  BY <1>1, <1>5 DEF RunnerHost, Reverts
      <3>2. ~degraded[r]  BY DEF LossInv
      <3>3. RestoredSoFar(p, mem[r], todo[r], job[r].kind, host, origin)
        BY <1>1, <1>5, <3>2 DEF RunnerHost, Reverts
      <3>4. \A o \in Objects : ItemsOn(p, mem[r], o) # {} => host[o] = origin[mem[r].run][o]
        BY <3>1, <3>3 DEF RestoredSoFar
      <3>5. QED  BY <1>4, <1>5, <3>4 DEF Meant
    <2>4. \A o : Links(remote', o) = {x \in Links(remote, o) : x.run # k}
      <3>1. \A q \in Profiles, x \in RunIds : remote[q][x] # NoJournal => remote[q][x].run = x
        BY DEF Invariants, JournalInv, StoredInv
      <3>2. remote[p][k] # NoJournal  BY <1>5
      <3> HIDE DEF p
      <3>3. OneProfileEach  BY DEF RunsInv
      <3>4. QED  BY Zenon, <1>5, <1>11, <3>1, <3>2, <3>3, RunnerTypes, LinksConsumed
    <2>5. Chained(remote', born, {}, Meant(p, k))
      <3>1. \A o : {x \in Links(remote', o) : x.run \notin {}}
                     = {x \in Links(remote, o) : x.run \notin {k}}
        BY <2>4
      <3>2. QED  BY <1>6, <3>1 DEF Chained
    <2>6. Chained(remote', born', {}, host')
      BY <1>1, <2>3, <2>5, ChainedSame
    <2>7. QED
      BY <1>9, <2>2, <2>6 DEF Stacked, ClaimsTheTop, LedToRun, LeadsToHost, LeadsBack
  <1>12. QED  BY <1>7, <1>10, <1>11

-----------------------------------------------------------------------------
LEMMA StackedKept ==
    ASSUME NoEdits, NoopsManageNothing, StepsApart, ClocksAgree, FromHostOnly, TwoProfilesEach,
           Invariants, HostInv, RecordInv, RunsInv, WantInv, LossInv, ReadInv, Stacked,
           [Next]_vars, ~tainted, ~tainted'
    PROVE  Stacked'
  <1>1. ASSUME NEW r \in Runners,
               StartApply(r) \/ StartRollback(r) \/ Progress(r) \/ Signal(r) \/ Crash(r)
        PROVE  Stacked'
    <2>1. OthersStill(r)  BY <1>1, OneRunnerMoves
    <2>2. CASE \/ StartApply(r) \/ StartRollback(r) \/ Crash(r)
               \/ TakeLock(r) \/ LockRefused(r) \/ ReleaseLock(r)
               \/ AdmitRefused(r) \/ StampFailed(r) \/ Tidy(r) \/ Fallback(r)
               \/ LoadJournal(r) \/ LoadRefused(r) \/ PreflightRefused(r)
      BY <2>1, <2>2, OutsideStacked
    <2>3. CASE \/ NextStep(r) \/ Interrupt(r) \/ CaptureBefore(r) \/ CaptureAfter(r)
               \/ UndoPreflight(r) \/ RevertDone(r) \/ Signal(r)
      BY <2>1, <2>3, RunStacked
    <2>4. CASE NewRun(r)  BY <2>1, <2>4, NewRunStacked
    <2>5. CASE RunStep(r)  BY <2>1, <2>5, RunStepStacked
    <2>6. CASE Commit(r)  BY <2>1, <2>6, CommitStacked
    <2>7. CASE RevertObject(r) \/ SettleObject(r)  BY <2>1, <2>7, RestoreStacked
    <2>8. CASE Preflight(r)  BY <2>1, <2>8, PreflightStacked
    <2>9. CASE Claim(r)  BY <2>1, <2>9, ClaimStacked
    <2>10. CASE Consume(r)  BY <2>1, <2>10, ConsumeStacked
    <2>11. QED
      BY <1>1, <2>2, <2>3, <2>4, <2>5, <2>6, <2>7, <2>8, <2>9, <2>10
      DEF Progress, ApplyStep, RevertStep, RollbackStep
  <1>2. ~(\E o \in Objects, v \in Edits : Edit(o, v))  BY DEF Edit, Fault, NoEdits
  <1>3. CASE RemoveStaleLock \/ UNCHANGED vars
    <2>1. UNCHANGED <<host, remote, pc, job, mem, born, origin>>
      BY <1>3 DEF RemoveStaleLock, vars, hostVars, runnerVars, historyVars
    <2>2. HalfReverted' = HalfReverted  BY <2>1 DEF HalfReverted
    <2>3. \A r \in Runners : (Conflicted(r)' <=> Conflicted(r)) /\ (Applying(r)' <=> Applying(r))
      BY <2>1 DEF Conflicted, Prof, Applying
    <2>4. ClaimsTheTop' /\ LedToRun' /\ LeadsToHost'
      BY <2>1, <2>2, <2>3 DEF Stacked, ClaimsTheTop, LedToRun, LeadsToHost
    <2>5. LeadsBack'
      <3>1. \A p, k : Meant(p, k)' = Meant(p, k)  BY <2>1 DEF Meant
      <3>2. LeadsBack  BY DEF Stacked
      <3>3. QED  BY <2>1, <2>2, <3>1, <3>2 DEF LeadsBack
    <2>6. QED  BY <2>4, <2>5 DEF Stacked
  <1>4. QED  BY <1>1, <1>2, <1>3 DEF Next

LEMMA ChainKept ==
    ASSUME NoEdits, NoopsManageNothing, StepsApart, ClocksAgree, FromHostOnly, TwoProfilesEach
    PROVE  /\ Invariants /\ HostInv /\ LeftInv /\ RecordInv /\ ChainInv /\ [Next]_vars
           => ChainInv'
  <1> SUFFICES ASSUME Invariants, HostInv, LeftInv, RecordInv, ChainInv, [Next]_vars
               PROVE  ChainInv'
    OBVIOUS
  <1>1. RunsInv /\ WantInv /\ LossInv /\ ReadInv  BY DEF ChainInv
  <1>2. RunsInv' /\ WantInv' /\ LossInv' /\ ReadInv'
    BY <1>1, RunsKept, WantKept, LossKept, ReadKept
  <1>3. ~tainted' => Stacked'
    <2>1. SUFFICES ASSUME ~tainted' PROVE Stacked'  OBVIOUS
    <2>2. ~tainted  BY <2>1, TaintStays
    <2>3. Stacked  BY <2>2 DEF ChainInv
    <2>4. QED  BY <1>1, <2>1, <2>2, <2>3, StackedKept
  <1>4. QED  BY <1>2, <1>3 DEF ChainInv

LEMMA ChainInit == Init => ChainInv
  <1> SUFFICES ASSUME Init PROVE ChainInv  OBVIOUS
  <1>1. \A r \in Runners : pc[r] = "idle" /\ mem[r] = NoJournal /\ ~degraded[r]
    BY DEF Init
  <1>2. \A p \in Profiles, k \in RunIds : remote[p][k] = NoJournal  BY DEF Init
  <1>3. RunsInv  BY <1>2 DEF Init, RunsInv, OneProfileEach, BornInOrder
  <1>4. WantInv  BY <1>1, <1>2 DEF WantInv, WantedHere, Early
  <1>5. LossInv /\ ReadInv  BY <1>1 DEF LossInv, ReadInv
  <1>6. HalfReverted = {}  BY <1>2 DEF HalfReverted
  <1>7. \A r \in Runners : ~Applying(r)  BY <1>1 DEF Applying, RunPCs, RevertPCs
  <1>8. Chained(remote, born, {}, host)
    <2>1. OnHost(remote) = {}  BY <1>2 DEF OnHost
    <2>2. \A o : Links(remote, o) = {}  BY <2>1 DEF Links
    <2>3. \A o \in Objects : host[o] = InitHost[o]  BY DEF Init
    <2>4. QED  BY <2>2, <2>3 DEF Chained, Chain
  <1>9. Stacked
    BY <1>1, <1>6, <1>7, <1>8 DEF Stacked, ClaimsTheTop, LedToRun, LeadsToHost, LeadsBack
  <1>10. QED  BY <1>3, <1>4, <1>5, <1>9 DEF ChainInv

-----------------------------------------------------------------------------
LEMMA LatestJournal ==
    ASSUME NEW S, S # {}, NEW at, NEW n \in Nat, \A x \in S : at[x.run] \in 1..n
    PROVE  LET latest == CHOOSE j \in S : \A x \in S : at[x.run] <= at[j.run] IN
           latest \in S /\ \A x \in S : at[x.run] <= at[latest.run]
  <1> DEFINE N == {at[x.run] : x \in S}
  <1>1. N \subseteq 1..n /\ N # {}  OBVIOUS
  <1> HIDE DEF N
  <1>2. LastOf(N) \in N /\ \A i \in N : i <= LastOf(N)  BY <1>1, LastStep
  <1> USE DEF N
  <1>3. \E j \in S : \A x \in S : at[x.run] <= at[j.run]  BY <1>2
  <1>4. QED  BY <1>3

(* Between commands, and when nobody else meddles, the journals on the     *)
(* host are a stack: each object's lead from the value it had before       *)
(* hardline to the one it has now, each run from what the one before it    *)
(* left.  So rolling back every run restores the host, and no command that *)
(* failed, was interrupted, refused, resumed or lost breaks the chain.     *)
THEOREM JournalsLeadBack ==
    ASSUME NoEdits, NoopsManageNothing, ServicesApart, StepsApart, ClocksAgree, FromHostOnly,
           TwoProfilesEach, Plain(InitHost)
    PROVE  Spec => []JournalsChain
  <1>1. Invariants /\ RecordInv /\ ChainInv => JournalsChain
    <2> SUFFICES ASSUME Invariants, RecordInv, ChainInv, Quiet, NEW o \in Objects
                 PROVE  LET js == Changing(o)
                            Earlier(j) == {x \in js : born[x.run] < born[j.run]}
                            Top(S) == CHOOSE j \in S : \A x \in S : born[x.run] <= born[j.run]
                        IN  /\ host[o] = IF js = {} THEN InitHost[o] ELSE RunAfter(Top(js), o)
                            /\ \A j \in js :
                                 RunBefore(j, o) = IF Earlier(j) = {} THEN InitHost[o]
                                                   ELSE RunAfter(Top(Earlier(j)), o)
      BY DEF JournalsChain
    <2> DEFINE js == Changing(o)
               L == Links(remote, o)
               n == Cardinality({k \in RunIds : born[k] # 0})
               Earlier(j) == {x \in js : born[x.run] < born[j.run]}
               Last(S) == CHOOSE j \in S : \A x \in S : born[x.run] <= born[j.run]
    <2>1. Chain(L, born, InitHost[o], host[o])
      <3>1. \A r \in Runners : ~Applying(r)
        BY DEF Quiet, Applying, Holds, LockedPCs, ApplyPCs, RunPCs, RevertPCs
      <3>2. Chained(remote, born, {}, host)
        BY <3>1 DEF Quiet, ChainInv, Stacked, LeadsToHost
      <3>3. {x \in L : x.run \notin {}} = L  OBVIOUS
      <3>4. QED  BY <3>2, <3>3 DEF Chained
    <2>2. L = {LinkOf(j, o) : j \in js}
      <3>1. OnHost(remote) = UNION {{remote[p][k] : k \in StoredRuns(p)} : p \in Profiles}
        BY DEF OnHost, StoredRuns
      <3>2. js = {x \in OnHost(remote) : Alters(x, o)}  BY <3>1 DEF Changing, Alters
      <3>3. QED  BY <3>2 DEF Links
    <2>3. n \in Nat /\ \A j \in js : born[j.run] \in 1..n
      <3>1. IsFiniteSet({k \in RunIds : born[k] # 0})  BY RecordTypes, FS_Subset
      <3>2. n \in Nat  BY <3>1, FS_CardinalityType
      <3>3. \A k \in RunIds : born[k] <= n  BY DEF RecordInv, SharedInv, BirthsInv
      <3> HIDE DEF n
      <3>4. ASSUME NEW j \in js PROVE born[j.run] \in 1..n
        <4>1. LinkOf(j, o) \in L /\ LinkOf(j, o).run = j.run  BY <2>2 DEF LinkOf
        <4>2. j.run \in RunIds /\ born[j.run] # 0 /\ born[j.run] \in Nat
          BY <4>1, LinkRuns
        <4>3. QED  BY <3>2, <3>3, <4>2
      <3>5. QED  BY <3>2, <3>4
    <2>4. \A j \in js : /\ LinkOf(j, o) \in L /\ LinkOf(j, o).run = j.run
                        /\ LinkOf(j, o).before = RunBefore(j, o)
                        /\ LinkOf(j, o).after = RunAfter(j, o)
      BY <2>2 DEF LinkOf
    <2>5. \A y \in L : \E j \in js : y.run = j.run  BY <2>2 DEF LinkOf
    <2>6. \A S \in SUBSET js : S # {} =>
            Last(S) \in S /\ \A x \in S : born[x.run] <= born[Last(S).run]
      <3>1. SUFFICES ASSUME NEW S \in SUBSET js, S # {}
                     PROVE  Last(S) \in S /\ \A x \in S : born[x.run] <= born[Last(S).run]
        OBVIOUS
      <3>2. \A x \in S : born[x.run] \in 1..n  BY <2>3, <3>1
      <3> HIDE DEF n, js
      <3>3. QED  BY <2>3, <3>1, <3>2, LatestJournal
    <2> HIDE DEF js, L, n, Last
    <2>7. host[o] = IF js = {} THEN InitHost[o] ELSE RunAfter(Last(js), o)
      <3>1. CASE js = {}
        <4>1. L = {}  BY <2>5, <3>1
        <4>2. QED  BY <2>1, <3>1, <4>1 DEF Chain
      <3>2. CASE js # {}
        <4>1. Last(js) \in js /\ \A x \in js : born[x.run] <= born[Last(js).run]
          BY <2>6, <3>2
        <4>2. \A y \in L : born[y.run] <= born[LinkOf(Last(js), o).run]
          BY <2>4, <2>5, <4>1
        <4>3. LinkOf(Last(js), o).after = host[o]  BY <2>1, <2>4, <4>1, <4>2 DEF Chain
        <4>4. QED  BY <2>4, <3>2, <4>1, <4>3
      <3>3. QED  BY <3>1, <3>2
    <2>8. ASSUME NEW j \in js
          PROVE  RunBefore(j, o) = IF Earlier(j) = {} THEN InitHost[o]
                                   ELSE RunAfter(Last(Earlier(j)), o)
      <3> DEFINE x == LinkOf(j, o)
      <3>1. x \in L /\ x.run = j.run /\ x.before = RunBefore(j, o)  BY <2>4
      <3> HIDE DEF x
      <3>2. CASE Earlier(j) = {}
        <4>1. \A y \in L : born[x.run] <= born[y.run]  BY <2>3, <2>5, <3>1, <3>2
        <4>2. x.before = InitHost[o]  BY <2>1, <3>1, <4>1 DEF Chain
        <4>3. QED  BY <3>1, <3>2, <4>2
      <3>3. CASE Earlier(j) # {}
        <4> DEFINE e == Last(Earlier(j))
                   y == LinkOf(e, o)
        <4>1. e \in Earlier(j) /\ \A z \in Earlier(j) : born[z.run] <= born[e.run]
          BY <2>6, <3>3
        <4> HIDE DEF e
        <4>2. e \in js /\ born[e.run] < born[j.run]  BY <4>1
        <4>3. y \in L /\ y.run = e.run /\ y.after = RunAfter(e, o)  BY <2>4, <4>2
        <4> HIDE DEF y
        <4>4. \A z \in js : born[z.run] <= born[e.run] \/ born[j.run] <= born[z.run]
          BY <2>3, <4>1
        <4>5. \A z \in L : born[z.run] <= born[y.run] \/ born[x.run] <= born[z.run]
          BY <2>5, <3>1, <4>3, <4>4
        <4>6. x.before = y.after
          BY <2>1, <3>1, <4>2, <4>3, <4>5 DEF Chain
        <4>7. QED  BY <3>1, <3>3, <4>3, <4>6 DEF e
      <3>4. QED  BY <3>2, <3>3
    <2>9. QED  BY <2>7, <2>8 DEF js, Last
  <1>2. Init => HostInv /\ LeftInv /\ RecordInv /\ ChainInv
    BY HostInit, RecordInit, ChainInit DEF Init, LeftInv, RunnerLeft, RunPCs
  <1>3. Invariants /\ HostInv /\ [Next]_vars => HostInv'  BY HostKept
  <1>4. Invariants /\ LeftInv /\ [Next]_vars => LeftInv'  BY LeftKept
  <1>5. Invariants /\ HostInv /\ RecordInv /\ [Next]_vars => RecordInv'  BY RecordKept
  <1>6. Invariants /\ HostInv /\ LeftInv /\ RecordInv /\ ChainInv /\ [Next]_vars => ChainInv'
    BY ChainKept
  <1>7. QED  BY <1>1, <1>2, <1>3, <1>4, <1>5, <1>6, InvariantsHold, PTL DEF Spec

-----------------------------------------------------------------------------
(* Resuming: what a rollback that was cut short has left of a file is what *)
(* the next one takes for its own work.                                    *)
(* The hypotheses of this part.  A file is root's before hardline, as it   *)
(* is once hardline wrote it; and an object is of one step of one profile. *)
RootsFiles == \A o \in Objects \ Services : InitHost[o].meta = Root

OwnedOnce ==
    \A p, q \in Profiles : \A i \in 1..Len(StepsOf[p]), k \in 1..Len(StepsOf[q]) :
        ObjectsOf(p, i) \cap ObjectsOf(q, k) # {} => p = q /\ i = k

Files(p, i) == ObjectsOf(p, i) \ Services

(* A file as the step that manages it leaves it.                           *)
Full(p, i, o) == [body |-> StepsOf[p][i].want[o].body, meta |-> Root]

(* What journal j says of each file: it was as before hardline or as its   *)
(* step leaves it; and if it was, it is.                                   *)
Keeps(p, j, now) ==
    \A i \in 1..Len(j.steps) : \A o \in Files(p, i) :
        /\ j.steps[i].before[o] \in {InitHost[o], Full(p, i, o)}
        /\ j.steps[i].after # Uncaptured => j.steps[i].after[o] = Full(p, i, o)
        /\ j.steps[i].before[o] = Full(p, i, o) => now[o] = Full(p, i, o)

(* What an earlier run found as its step leaves it, a later one found so.  *)
Above(p, lower, upper) ==
    \A i \in 1..Len(upper.steps) : \A o \in Files(p, i) :
        lower.steps[i].before[o] = Full(p, i, o) => upper.steps[i].before[o] = Full(p, i, o)

AboveAll(p, j, rem) ==
    \A x \in RunIds : rem[p][x] # NoJournal /\ x < j.run => Above(p, rem[p][x], j)

HostKeeps(now) ==
    \A p \in Profiles : \A i \in 1..Len(StepsOf[p]) : \A o \in Files(p, i) :
        now[o] \in {InitHost[o], Full(p, i, o)}

StoredKeep(rem, now) ==
    \A p \in Profiles, k \in RunIds :
        rem[p][k] # NoJournal => Keeps(p, rem[p][k], now) /\ AboveAll(p, rem[p][k], rem)

(* A run that applies is above every journal on the host, too.             *)
RunnerKeeps(r) ==
    pc[r] \in Journalled =>
        /\ Keeps(Prof(r), mem[r], host)
        /\ AboveAll(Prof(r), mem[r], remote)
        /\ job[r].kind = "apply" =>
             \A x \in RunIds : remote[Prof(r)][x] # NoJournal => x <= mem[r].run
        /\ pc[r] = "capture" =>
             LET m == Len(mem[r].steps) IN
             \A o \in Files(Prof(r), m) : host[o] = Full(Prof(r), m, o)

(* ResumeAccepted, strengthened to be inductive.                           *)
KeepInv == HostKeeps(host) /\ StoredKeep(remote, host) /\ \A r \in Runners : RunnerKeeps(r)

LEMMA KeepStep ==
    ASSUME Invariants, KeepInv, NEW r \in Runners, OthersStill(r),
           UNCHANGED <<host, remote>> \/ Holds(r),
           HostKeeps(host'), StoredKeep(remote', host'), RunnerKeeps(r)'
    PROVE  KeepInv'
  <1>1. ASSUME NEW s \in Runners, s # r PROVE RunnerKeeps(s)'
    <2>1. pc'[s] = pc[s] /\ mem'[s] = mem[s] /\ job'[s] = job[s] /\ Prof(s)' = Prof(s)
      BY <1>1 DEF OthersStill, Prof
    <2>2. RunnerKeeps(s)  BY DEF KeepInv
    <2>3. CASE UNCHANGED <<host, remote>>  BY <2>1, <2>2, <2>3 DEF RunnerKeeps
    <2>4. CASE Holds(r)
      <3>1. ~Holds(s)  BY <1>1, <2>4 DEF Invariants, LockInv, MutualExclusion
      <3>2. pc[s] \in {"idle", "lock"}  BY <3>1, Waiting
      <3>3. QED  BY <2>1, <3>2 DEF RunnerKeeps, Journalled, Unloaded
    <2>5. QED  BY <2>3, <2>4
  <1>2. HostKeeps(host)' /\ StoredKeep(remote, host)'  OBVIOUS
  <1>3. QED  BY <1>1, <1>2 DEF KeepInv

(* A runner that has no journal, or none it works from any more.           *)
LEMMA LeavesKeep ==
    ASSUME Invariants, KeepInv, NEW r \in Runners, OthersStill(r),
           \/ StartApply(r) \/ StartRollback(r) \/ Crash(r)
           \/ TakeLock(r) \/ LockRefused(r) \/ ReleaseLock(r)
           \/ AdmitRefused(r) \/ StampFailed(r) \/ Tidy(r) \/ Fallback(r)
           \/ LoadRefused(r) \/ PreflightRefused(r)
           \/ Signal(r) /\ pc[r] \notin Journalled
    PROVE  KeepInv'
  <1>1. pc'[r] \notin Journalled
    <2> USE RunnerTypes DEF Goto, End, Exit, Journalled, Unloaded
    <2>1. CASE \/ StartApply(r) \/ StartRollback(r) \/ Crash(r)
               \/ TakeLock(r) \/ LockRefused(r) \/ ReleaseLock(r)
      BY <2>1 DEF StartApply, StartRollback, Crash, TakeLock, LockRefused, ReleaseLock
    <2>2. CASE AdmitRefused(r) \/ StampFailed(r) \/ Tidy(r) \/ Fallback(r)
      BY <2>2 DEF AdmitRefused, StampFailed, Tidy, Fallback, SavedOr
    <2>3. CASE LoadRefused(r) \/ PreflightRefused(r)
      BY <2>3 DEF LoadRefused, PreflightRefused
    <2>4. CASE Signal(r) /\ pc[r] \notin Journalled  BY <2>4 DEF Signal
    <2>5. QED  BY <2>1, <2>2, <2>3, <2>4
  <1>2. UNCHANGED <<host, remote>>
    BY DEF StartApply, StartRollback, Crash, TakeLock, LockRefused, ReleaseLock,
           AdmitRefused, StampFailed, Tidy, Fallback, LoadRefused, PreflightRefused, Signal,
           hostVars
  <1>3. RunnerKeeps(r)'  BY <1>1 DEF RunnerKeeps
  <1>4. HostKeeps(host') /\ StoredKeep(remote', host')  BY <1>2 DEF KeepInv
  <1>5. QED  BY <1>2, <1>3, <1>4, KeepStep

(* A runner goes on with its journal, restamped perhaps.                   *)
LEMMA GoesOnKeep ==
    ASSUME Invariants, KeepInv, NEW r \in Runners, OthersStill(r),
           \/ NextStep(r) \/ Interrupt(r) \/ UndoPreflight(r) \/ RevertDone(r) \/ Preflight(r)
           \/ Signal(r) /\ pc[r] \in Journalled
    PROVE  KeepInv'
  <1>1. UNCHANGED <<host, remote, job>> /\ Prof(r)' = Prof(r)
    BY DEF NextStep, Interrupt, UndoPreflight, RevertDone, Preflight, Signal, hostVars, Prof
  <1>2. pc[r] \in Journalled
    BY DEF NextStep, Interrupt, UndoPreflight, RevertDone, Preflight, Journalled, Unloaded,
           PCs, LockedPCs, ApplyPCs, RevertPCs, RollbackPCs
  <1>3. mem'[r].steps = mem[r].steps /\ mem'[r].run = mem[r].run
    <2>1. CASE Interrupt(r)
      <3>1. mem'[r] = WithStatus(mem[r], "interrupted")
        BY <2>1, RunnerTypes DEF Interrupt
      <3>2. QED  BY <1>2, <3>1, RunnerFacts DEF Invariants, Statuses
    <2>2. CASE NextStep(r) \/ UndoPreflight(r) \/ RevertDone(r) \/ Preflight(r) \/ Signal(r)
      BY <2>2 DEF NextStep, UndoPreflight, RevertDone, Preflight, Signal
    <2>3. QED  BY <2>1, <2>2
  <1>4. pc'[r] # "capture" \/ pc'[r] = pc[r]
    BY RunnerTypes DEF NextStep, Interrupt, UndoPreflight, RevertDone, Preflight, Signal, Goto
  <1>5. RunnerKeeps(r)  BY DEF KeepInv
  <1>6. RunnerKeeps(r)'
    BY <1>1, <1>2, <1>3, <1>4, <1>5 DEF RunnerKeeps, Keeps, AboveAll, Above
  <1>7. HostKeeps(host') /\ StoredKeep(remote', host')  BY <1>1 DEF KeepInv
  <1>8. QED  BY <1>1, <1>6, <1>7, KeepStep

(* A run that begins has said nothing yet, and is above every other.       *)
LEMMA NewRunKeep ==
    ASSUME ClocksAgree, Invariants, KeepInv, NEW r \in Runners, OthersStill(r), NewRun(r)
    PROVE  KeepInv'
  <1>1. UNCHANGED <<host, remote, job>> /\ Holds(r) /\ Prof(r)' = Prof(r)
    BY DEF NewRun, hostVars, Holds, LockedPCs, ApplyPCs, Prof
  <1>2. PICK k \in RunIds :
          /\ FreshRun(k)
          /\ \/ Goto(r, "release")
             \/ /\ Goto(r, "step")
                /\ mem' = [mem EXCEPT ![r] = [run |-> k, status |-> "in_progress",
                                              steps |-> <<>>]]
    BY DEF NewRun, SavedOr, End
  <1>3. RunnerKeeps(r)'
    <2>1. CASE Goto(r, "release")
      <3>1. pc'[r] = "release"  BY <2>1, RunnerTypes DEF Goto
      <3>2. QED  BY <3>1 DEF RunnerKeeps, Journalled
    <2>2. CASE /\ Goto(r, "step")
               /\ mem' = [mem EXCEPT ![r] = [run |-> k, status |-> "in_progress",
                                             steps |-> <<>>]]
      <3>1. pc'[r] = "step" /\ mem'[r].run = k /\ mem'[r].steps = <<>>
        BY <2>2, RunnerTypes DEF Goto
      <3>2. 1..Len(mem'[r].steps) = {}  BY <3>1
      <3>3. \A x \in RunIds : remote[Prof(r)][x] # NoJournal => x <= k
        <4>1. SUFFICES ASSUME NEW x \in RunIds, remote[Prof(r)][x] # NoJournal
                       PROVE  x <= k
          OBVIOUS
        <4>2. born[x] # 0  BY <4>1, RunnerTypes DEF Invariants, JournalInv, StoredInv
        <4>3. ~(k <= x)  BY <1>2, <4>2 DEF FreshRun
        <4>4. x \in Nat /\ k \in Nat  BY RunsAssumption DEF RunsAssumption
        <4>5. QED  BY <4>3, <4>4
      <3>4. Keeps(Prof(r)', mem'[r], host')  BY <3>2 DEF Keeps
      <3>5. AboveAll(Prof(r)', mem'[r], remote')  BY <3>2 DEF AboveAll, Above
      <3>6. QED  BY <1>1, <3>1, <3>3, <3>4, <3>5 DEF RunnerKeeps
    <2>3. QED  BY <1>2, <2>1, <2>2
  <1>4. HostKeeps(host') /\ StoredKeep(remote', host')  BY <1>1 DEF KeepInv
  <1>5. QED  BY <1>1, <1>3, <1>4, KeepStep

(* A rollback loads a journal of the host.                                 *)
LEMMA LoadKeep ==
    ASSUME FromHostOnly, Invariants, KeepInv, NEW r \in Runners, OthersStill(r), LoadJournal(r)
    PROVE  KeepInv'
  <1> DEFINE p == Prof(r)
  <1>1. /\ UNCHANGED <<host, remote, job>> /\ Prof(r)' = p /\ pc'[r] = "preflight"
        /\ pc[r] = "load"
    BY RunnerTypes DEF LoadJournal, hostVars, Prof, Goto
  <1>2. ~Has(r, "local")
    <2>1. job[r].flags \subseteq Flags  BY RunnerTypes DEF Jobs
    <2>2. QED  BY <2>1 DEF Has, FromHostOnly
  <1>3. mem'[r] \in Loadable(r)  BY RunnerTypes DEF LoadJournal
  <1>4. StoredRuns(p) # {} /\ mem'[r] = remote[p][Newest(p)]
    BY <1>2, <1>3 DEF Loadable
  <1>5. p \in Profiles /\ Newest(p) \in RunIds /\ remote[p][Newest(p)] # NoJournal
    BY <1>4, RunnerTypes, NewestStored DEF StoredRuns
  <1>6. Keeps(p, mem'[r], host) /\ AboveAll(p, mem'[r], remote)
    BY <1>4, <1>5 DEF KeepInv, StoredKeep
  <1>7. job[r].kind = "rollback"
    BY <1>1 DEF Invariants, JournalInv, RunnerInv, CommandFits, RollbackPCs
  <1>8. RunnerKeeps(r)'  BY <1>1, <1>6, <1>7 DEF RunnerKeeps
  <1>9. HostKeeps(host') /\ StoredKeep(remote', host')  BY <1>1 DEF KeepInv
  <1>10. QED  BY <1>1, <1>8, <1>9, KeepStep

(* A capture before a step finds what the host keeps; the one after it,    *)
(* what the plugin made.                                                   *)
LEMMA CaptureKeep ==
    ASSUME Invariants, KeepInv, NEW r \in Runners, OthersStill(r),
           CaptureBefore(r) \/ CaptureAfter(r)
    PROVE  KeepInv'
  <1> DEFINE p == Prof(r)
             m == Len(mem[r].steps)
  <1>1. /\ p \in Profiles /\ Holds(r)
        /\ pc[r] \in {"exec", "capture"} /\ pc[r] \in Journalled
        /\ RunnerFits(pc[r], p, mem[r], todo[r])
    BY RunnerFacts
    DEF Invariants, CaptureBefore, CaptureAfter, Journalled, Unloaded, PCs, LockedPCs,
        ApplyPCs, Holds
  <1>2. /\ Fits(p, mem[r]) /\ m \in Nat /\ Len(StepsOf[p]) \in Nat
    BY <1>1, RunnerFacts, RulesAssumption DEF Invariants, Journals, RulesAssumption
  <1>3. /\ Keeps(p, mem[r], host) /\ AboveAll(p, mem[r], remote)
        /\ job[r].kind = "apply" =>
             \A x \in RunIds : remote[p][x] # NoJournal => x <= mem[r].run
        /\ pc[r] = "capture" => \A o \in Files(p, m) : host[o] = Full(p, m, o)
    BY <1>1 DEF KeepInv, RunnerKeeps
  <1>4. UNCHANGED <<host, remote, job>> /\ Prof(r)' = p
    BY DEF CaptureBefore, CaptureAfter, hostVars, Prof
  <1>5. \A i \in 1..Len(StepsOf[p]) :
          /\ Snapshot(p, i) \in Capture(p, i)
          /\ \A o \in ObjectsOf(p, i) : o \in Objects /\ Snapshot(p, i)[o] = host[o]
    BY <1>1, HostTypes, SnapshotType, ObjectsOfType DEF Snapshot
  <1>6. ASSUME pc'[r] # "capture", mem'[r].run = mem[r].run, Keeps(p, mem'[r], host),
               AboveAll(p, mem'[r], remote)
        PROVE  KeepInv'
    <2>1. RunnerKeeps(r)'  BY <1>3, <1>4, <1>6 DEF RunnerKeeps
    <2>2. HostKeeps(host') /\ StoredKeep(remote', host')  BY <1>4 DEF KeepInv
    <2>3. QED  BY <1>1, <2>1, <2>2, KeepStep
  <1>7. CASE CaptureBefore(r)
    <2> DEFINE c == Snapshot(p, m + 1)
               j == Recorded(mem[r], c)
    <2>1. pc[r] = "exec" /\ m < Len(StepsOf[p]) /\ m + 1 \in 1..Len(StepsOf[p])
      BY <1>1, <1>2, <1>7 DEF CaptureBefore, RunnerFits
    <2>2. c \in Capture(p, m + 1) /\ \A o \in Files(p, m + 1) : c[o] = host[o]
      BY <1>5, <2>1 DEF Files
    <2> HIDE DEF c
    <2>3. p \in Profiles /\ Fits(p, mem[r]) /\ m < Len(StepsOf[p]) /\ c \in Capture(p, m + 1)
      BY <1>1, <1>2, <2>1, <2>2
    <2>4. /\ Len(j.steps) = m + 1 /\ j.run = mem[r].run
          /\ \A i \in 1..m : j.steps[i] = mem[r].steps[i]
          /\ j.steps[m + 1] = [before |-> c, after |-> Uncaptured]
      BY ZenonT(40), <2>3, AppendedFits
    <2>5. pc'[r] # "capture" /\ (mem'[r] = mem[r] \/ mem'[r] = j)
      BY <1>7, RunnerTypes DEF CaptureBefore, SavedOr, Goto, c
    <2>6. \A i \in 1..(m + 1) : i = m + 1 \/ i \in 1..m  BY <1>2
    <2> HIDE DEF j
    <2>7. Keeps(p, j, host)
      <3>1. ASSUME NEW o \in Files(p, m + 1)
            PROVE  /\ j.steps[m + 1].before[o] \in {InitHost[o], Full(p, m + 1, o)}
                   /\ j.steps[m + 1].after = Uncaptured
                   /\ j.steps[m + 1].before[o] = Full(p, m + 1, o) =>
                        host[o] = Full(p, m + 1, o)
        <4>1. host[o] \in {InitHost[o], Full(p, m + 1, o)}
          BY <1>1, <2>1, <3>1 DEF KeepInv, HostKeeps
        <4>2. QED  BY <2>2, <2>4, <3>1, <4>1
      <3>2. QED  BY <1>3, <2>4, <2>6, <3>1 DEF Keeps
    <2>8. AboveAll(p, j, remote)
      <3>1. SUFFICES ASSUME NEW x \in RunIds, remote[p][x] # NoJournal, x < mem[r].run,
                            NEW i \in 1..(m + 1), NEW o \in Files(p, i),
                            remote[p][x].steps[i].before[o] = Full(p, i, o)
                     PROVE  j.steps[i].before[o] = Full(p, i, o)
        BY <2>4 DEF AboveAll, Above
      <3>2. CASE i \in 1..m  BY <1>3, <2>4, <3>1, <3>2 DEF AboveAll, Above
      <3>3. CASE i = m + 1
        <4>1. Len(remote[p][x].steps) = Len(StepsOf[p])
          BY <1>1, <3>1 DEF Invariants, JournalInv, StoredInv, Complete
        <4>2. host[o] = Full(p, i, o)
          BY <1>1, <2>1, <3>1, <3>3, <4>1 DEF KeepInv, StoredKeep, Keeps
        <4>3. QED  BY <2>2, <2>4, <3>1, <3>3, <4>2
      <3>4. QED  BY <2>6, <3>2, <3>3
    <2>9. QED  BY <1>3, <1>6, <2>4, <2>5, <2>7, <2>8
  <1>8. CASE CaptureAfter(r)
    <2> DEFINE c == Snapshot(p, m)
               j == Completed(mem[r], c)
    <2>1. pc[r] = "capture" /\ m > 0 /\ m \in 1..Len(StepsOf[p])
      BY <1>1, <1>2, <1>8 DEF CaptureAfter, RunnerFits, Fits
    <2>2. c \in Capture(p, m) /\ \A o \in Files(p, m) : c[o] = Full(p, m, o)
      BY <1>3, <1>5, <2>1 DEF Files
    <2> HIDE DEF c
    <2>3. /\ Len(j.steps) = m /\ j.run = mem[r].run
          /\ \A i \in 1..(m - 1) : j.steps[i] = mem[r].steps[i]
          /\ j.steps[m].before = mem[r].steps[m].before
          /\ j.steps[m].after = c
      BY <1>1, <1>2, <2>1, <2>2, CompletedFits
    <2>4. pc'[r] # "capture" /\ (mem'[r] = mem[r] \/ mem'[r] = j)
      BY <1>8, RunnerTypes DEF CaptureAfter, SavedOr, Goto, c
    <2> HIDE DEF j
    <2>5. \A i \in 1..m : j.steps[i].before = mem[r].steps[i].before
      <3>1. \A i \in 1..m : i = m \/ i \in 1..(m - 1)  BY <1>2
      <3>2. QED  BY <2>3, <3>1
    <2>6. Keeps(p, j, host)
      <3>1. \A i \in 1..m : i = m \/ (i \in 1..(m - 1) /\ j.steps[i] = mem[r].steps[i])
        BY <1>2, <2>3
      <3>2. QED  BY <1>3, <2>2, <2>3, <2>5, <3>1 DEF Keeps
    <2>7. AboveAll(p, j, remote)  BY <1>3, <2>3, <2>5 DEF AboveAll, Above
    <2>8. QED  BY <1>3, <1>6, <2>3, <2>4, <2>6, <2>7
  <1>9. QED  BY <1>7, <1>8

(* What changes the host for files towards what their steps want, or not   *)
(* at all, lets every journal keep what it says.                           *)
Towards(now, then) ==
    \A p \in Profiles : \A i \in 1..Len(StepsOf[p]) : \A o \in Files(p, i) :
        then[o] \in {now[o], Full(p, i, o)}

LEMMA TowardsKeeps ==
    ASSUME NEW p \in Profiles, NEW j, Fits(p, j), NEW now, NEW then, Towards(now, then),
           Keeps(p, j, now)
    PROVE  Keeps(p, j, then)
  <1>1. \A i \in 1..Len(j.steps) : i \in 1..Len(StepsOf[p])
    <2>1. Len(j.steps) \in Nat /\ Len(StepsOf[p]) \in Nat
      BY RulesAssumption DEF Fits, Journals, RulesAssumption
    <2>2. QED  BY <2>1 DEF Fits
  <1>2. QED  BY <1>1 DEF Towards, Keeps

LEMMA RunStepKeep ==
    ASSUME OwnedOnce, RootsFiles, Invariants, KeepInv, NEW r \in Runners, OthersStill(r),
           RunStep(r)
    PROVE  KeepInv'
  <1> DEFINE p == Prof(r)
             m == Len(mem[r].steps)
             objs == StepsOf[p][m].objects
  <1>1. /\ p \in Profiles /\ Fits(p, mem[r]) /\ mem[r] # NoJournal /\ Holds(r)
        /\ m \in 1..Len(mem[r].steps) /\ m \in 1..Len(StepsOf[p])
        /\ \E n \in Nat, halfway \in BOOLEAN : host' = AfterPlugin(p, m, n, halfway)
        /\ \A o \in Objects : o \notin ObjectsOf(p, m) => host'[o] = host[o]
    BY PluginsStay
  <1>2. /\ pc[r] = "run" /\ pc[r] \in Journalled /\ UNCHANGED <<remote, job, mem>>
        /\ Prof(r)' = p
    BY DEF RunStep, Journalled, Unloaded, PCs, LockedPCs, ApplyPCs, Prof
  <1>3. \A o \in Files(p, m) :
          /\ o \in Objects
          /\ Applied(o, host[o], StepsOf[p][m].want[o]) = Full(p, m, o)
          /\ HalfWritten(o, host[o], StepsOf[p][m].want[o]) = Full(p, m, o)
    <2>1. SUFFICES ASSUME NEW o \in Files(p, m)
                   PROVE  /\ o \in Objects
                          /\ Applied(o, host[o], StepsOf[p][m].want[o]) = Full(p, m, o)
                          /\ HalfWritten(o, host[o], StepsOf[p][m].want[o]) = Full(p, m, o)
      OBVIOUS
    <2>2. o \in Objects \ Services  BY <1>1, ObjectsOfType DEF Files
    <2>3. HalfWritten(o, host[o], StepsOf[p][m].want[o]) = Full(p, m, o)
      BY <2>2 DEF HalfWritten, Full
    <2>4. host[o] \in {InitHost[o], Full(p, m, o)}  BY <1>1 DEF KeepInv, HostKeeps
    <2>5. host[o].meta = Root  BY <2>2, <2>4 DEF RootsFiles, Full
    <2>6. host[o] = [body |-> host[o].body, meta |-> host[o].meta]
      BY <2>2, HostTypes DEF Value
    <2>7. host[o].body = StepsOf[p][m].want[o].body => host[o] = Full(p, m, o)
      BY <2>5, <2>6 DEF Full
    <2>8. QED  BY <2>2, <2>3, <2>7 DEF Applied
  <1>4. Towards(host, host')
    <2>1. SUFFICES ASSUME NEW q \in Profiles, NEW i \in 1..Len(StepsOf[q]),
                          NEW o \in Files(q, i)
                   PROVE  host'[o] \in {host[o], Full(q, i, o)}
      BY DEF Towards
    <2>2. o \in Objects /\ o \in ObjectsOf(q, i)  BY ObjectsOfType DEF Files
    <2>3. CASE o \notin ObjectsOf(p, m)  BY <1>1, <2>2, <2>3
    <2>4. CASE o \in ObjectsOf(p, m)
      <3>1. q = p /\ i = m  BY <1>1, <2>2, <2>4 DEF OwnedOnce
      <3>2. PICK n \in Nat, halfway \in BOOLEAN : host' = AfterPlugin(p, m, n, halfway)
        BY <1>1
      <3>3. host'[o] \in {host[o], Applied(o, host[o], StepsOf[p][m].want[o]),
                          HalfWritten(o, host[o], StepsOf[p][m].want[o])}
        BY <2>2, <3>2 DEF AfterPlugin
      <3>4. o \in Files(p, m)  BY <2>1, <3>1
      <3>5. QED  BY <1>3, <3>1, <3>3, <3>4
    <2>5. QED  BY <2>3, <2>4
  <1>5. HostKeeps(host')
    BY <1>4 DEF KeepInv, HostKeeps, Towards
  <1>6. StoredKeep(remote', host')
    <2>1. ASSUME NEW q \in Profiles, NEW k \in RunIds, remote[q][k] # NoJournal
          PROVE  Keeps(q, remote[q][k], host') /\ AboveAll(q, remote[q][k], remote)
      <3>1. Fits(q, remote[q][k])  BY <2>1 DEF Invariants, TypeInv, StoredFits
      <3>2. Keeps(q, remote[q][k], host) /\ AboveAll(q, remote[q][k], remote)
        BY <2>1 DEF KeepInv, StoredKeep
      <3>3. QED  BY <1>4, <3>1, <3>2, TowardsKeeps
    <2>2. QED  BY <1>2, <2>1 DEF StoredKeep
  <1>7. pc'[r] = "capture" => \A o \in Files(p, m) : host'[o] = Full(p, m, o)
    <2>1. SUFFICES ASSUME pc'[r] = "capture", NEW o \in Files(p, m)
                   PROVE  host'[o] = Full(p, m, o)
      OBVIOUS
    <2>2. host' = AfterPlugin(p, m, Len(objs), FALSE)
      BY <2>1, RunnerTypes DEF RunStep, Goto, Steps
    <2>3. StepsOf[p][m] \in Step  BY <1>1, ObjectsOfType
    <2>4. objs \in Seq(Objects)  BY <2>3 DEF Step
    <2>5. o \in {objs[k] : k \in 1..Len(objs)}  BY <2>1, <2>4 DEF ObjectsOf, Files
    <2>6. host'[o] = Applied(o, host[o], StepsOf[p][m].want[o])
      BY <1>3, <2>1, <2>2, <2>5 DEF AfterPlugin
    <2>7. QED  BY <1>3, <2>1, <2>6
  <1>8. RunnerKeeps(r)'
    <2>1. RunnerKeeps(r)  BY DEF KeepInv
    <2>2. Keeps(p, mem[r], host')
      <3>1. Keeps(p, mem[r], host)  BY <1>2, <2>1 DEF RunnerKeeps
      <3>2. QED  BY <1>1, <1>4, <3>1, TowardsKeeps
    <2>3. QED  BY <1>2, <1>7, <2>1, <2>2 DEF RunnerKeeps
  <1>9. QED  BY <1>1, <1>5, <1>6, <1>8, KeepStep

(* A restoration: a file gets the value it had before the step, which      *)
(* nothing on the host found as the step leaves it.                        *)
LEMMA RestoredFile ==
    ASSUME RootsFiles, Invariants, KeepInv, NEW r \in Runners,
           RevertObject(r) \/ SettleObject(r)
    PROVE  \E i \in 1..Len(mem[r].steps) : \E o \in ObjectsOf(Prof(r), i) :
             \A x \in Objects \ Services :
               \/ host'[x] = host[x]
               \/ x = o /\ host'[x] = mem[r].steps[i].before[o]
  <1> DEFINE p == Prof(r)
             B(i, o) == mem[r].steps[i].before[o]
  <1>1. /\ p \in Profiles /\ pc[r] \in Journalled
        /\ RunnerFits(pc[r], p, mem[r], todo[r])
        /\ Fits(p, mem[r])
    BY RunnerFacts
    DEF RevertObject, SettleObject, RevertPCs, Journalled, Unloaded, PCs, LockedPCs, Invariants
  <1>2. PICK it \in todo[r] :
          LET o == StepsOf[p][it[1]].objects[it[2]] IN
          \/ host' = host
          \/ host' = [host EXCEPT ![o] = HalfWritten(o, host[o], B(it[1], o))]
          \/ host' = [host EXCEPT ![o] = [host[o] EXCEPT !.meta = B(it[1], o).meta]]
    BY DEF RevertObject, SettleObject, SetHost, Steps
  <1> DEFINE i == it[1]
             o == StepsOf[p][i].objects[it[2]]
  <1>3. i \in 1..Len(mem[r].steps) /\ it[2] \in DOMAIN StepsOf[p][i].objects
    BY <1>1, <1>2 DEF RunnerFits
  <1>4. i \in 1..Len(StepsOf[p])
    <2>1. Len(mem[r].steps) \in Nat /\ Len(StepsOf[p]) \in Nat
      BY <1>1, RulesAssumption DEF Fits, Journals, RulesAssumption
    <2>2. QED  BY <1>1, <1>3, <2>1 DEF Fits
  <1>5. o \in ObjectsOf(p, i) /\ o \in Objects
    BY <1>1, <1>3, <1>4, ObjectsOfType DEF ObjectsOf
  <1>6. B(i, o) \in Value  BY <1>1, <1>2, ItemType
  <1>7. \/ host' = host
        \/ host' = [host EXCEPT ![o] = HalfWritten(o, host[o], B(i, o))]
        \/ host' = [host EXCEPT ![o] = [host[o] EXCEPT !.meta = B(i, o).meta]]
    BY <1>2
  <1>8. KeepInv /\ RunnerKeeps(r)  BY DEF KeepInv
  <1>9. o \notin Services => /\ B(i, o) \in {InitHost[o], Full(p, i, o)}
                             /\ host[o] \in {InitHost[o], Full(p, i, o)}
    BY <1>1, <1>3, <1>4, <1>5, <1>8 DEF KeepInv, RunnerKeeps, Keeps, HostKeeps, Files
  <1> HIDE DEF o, i
  <1>10. o \notin Services => B(i, o).meta = Root /\ host[o].meta = Root
    BY <1>5, <1>9 DEF RootsFiles, Full
  <1> DEFINE b == B(i, o)
  <1> HIDE DEF B
  <1>11. o \notin Services => HalfWritten(o, host[o], b) = b
    <2>1. SUFFICES ASSUME o \notin Services PROVE HalfWritten(o, host[o], b) = b
      OBVIOUS
    <2>2. b \in [body : Bodies, meta : Metas] /\ b.meta = Root  BY <1>6, <1>10, <2>1 DEF Value
    <2> HIDE DEF b
    <2>3. b = [body |-> b.body, meta |-> Root]  BY <2>2
    <2>4. QED  BY <2>1, <2>3 DEF HalfWritten
  <1>12. o \notin Services => [host[o] EXCEPT !.meta = b.meta] = host[o]
    <2>1. SUFFICES ASSUME o \notin Services PROVE [host[o] EXCEPT !.meta = b.meta] = host[o]
      OBVIOUS
    <2>2. host[o] \in [body : Bodies, meta : Metas] /\ host[o].meta = b.meta
      BY <1>5, <1>10, <2>1, HostTypes DEF Value
    <2>3. QED  BY <2>2
  <1>13. \A x \in Objects \ Services : host'[x] = host[x] \/ (x = o /\ host'[x] = b)
    <2>1. host \in [Objects -> Value]  BY HostTypes
    <2>2. ASSUME NEW v, host' = [host EXCEPT ![o] = v], NEW x \in Objects
          PROVE  host'[x] = IF x = o THEN v ELSE host[x]
      BY <2>1, <2>2
    <2> HIDE DEF b
    <2>3. CASE host' = host  BY <2>3
    <2>4. CASE host' = [host EXCEPT ![o] = HalfWritten(o, host[o], b)]
      BY <1>11, <2>2, <2>4
    <2>5. CASE host' = [host EXCEPT ![o] = [host[o] EXCEPT !.meta = b.meta]]
      BY <1>12, <2>2, <2>5
    <2>6. QED  BY <1>7, <2>3, <2>4, <2>5 DEF b
  <1>14. QED  BY <1>3, <1>5, <1>13 DEF b, B, i

LEMMA RestoreKeep ==
    ASSUME RootsFiles, OwnedOnce, FromHostOnly, Invariants, KeepInv, NEW r \in Runners,
           OthersStill(r), RevertObject(r) \/ SettleObject(r)
    PROVE  KeepInv'
  <1> DEFINE p == Prof(r)
             m == mem[r].run
  <1>1. /\ p \in Profiles /\ pc[r] \in RevertPCs /\ pc[r] \in Journalled /\ Holds(r)
        /\ Fits(p, mem[r]) /\ mem[r] # NoJournal /\ m \in RunIds
    BY RunnerFacts
    DEF RevertObject, SettleObject, RevertPCs, Journalled, Unloaded, PCs, LockedPCs, Holds,
        Invariants, RunnerFits, Fits, Journals
  <1>2. UNCHANGED <<remote, mem, job>> /\ Prof(r)' = p
    BY DEF RevertObject, SettleObject, Prof
  <1>3. pc'[r] # "capture"
    <2>1. PICK it \in todo[r] :
            RestoreFailed(r, it) \/ Goto(r, "revert") \/ Goto(r, "settle")
      BY DEF RevertObject, SettleObject
    <2>2. QED  BY <2>1, FailedRestores, RunnerTypes DEF Goto
  <1>4. /\ Keeps(p, mem[r], host) /\ AboveAll(p, mem[r], remote)
        /\ job[r].kind = "apply" =>
             \A x \in RunIds : remote[p][x] # NoJournal => x <= m
    BY <1>1 DEF KeepInv, RunnerKeeps
  <1>5a. PICK i \in 1..Len(mem[r].steps) : \E o \in ObjectsOf(p, i) :
          \A x \in Objects \ Services :
            host'[x] = host[x] \/ (x = o /\ host'[x] = mem[r].steps[i].before[o])
    BY RestoredFile
  <1>5. PICK o \in ObjectsOf(p, i) :
          \A x \in Objects \ Services :
            host'[x] = host[x] \/ (x = o /\ host'[x] = mem[r].steps[i].before[o])
    BY <1>5a
  <1> DEFINE b == mem[r].steps[i].before[o]
  <1>6. i \in 1..Len(StepsOf[p]) /\ o \in Objects
    <2>1. Len(mem[r].steps) \in Nat /\ Len(StepsOf[p]) \in Nat
      BY <1>1, RulesAssumption DEF Fits, Journals, RulesAssumption
    <2>2. i \in 1..Len(StepsOf[p])  BY <1>1, <2>1 DEF Fits
    <2>3. QED  BY <1>1, <2>2, ObjectsOfType
  <1>7. o \notin Services => b \in {InitHost[o], Full(p, i, o)}
    BY <1>4 DEF Keeps, Files
  <1>8. ASSUME NEW q \in Profiles, NEW k \in 1..Len(StepsOf[q]), NEW x \in Files(q, k)
        PROVE  host'[x] = host[x] \/ (q = p /\ k = i /\ x = o /\ host'[x] = b)
    <2>1. x \in Objects \ Services /\ x \in ObjectsOf(q, k)
      BY <1>8, ObjectsOfType DEF Files
    <2>2. x = o => q = p /\ k = i  BY <1>1, <1>6, <1>8, <2>1 DEF OwnedOnce
    <2>3. QED  BY <1>5, <2>1, <2>2
  <1>9. HostKeeps(host')
    <2>1. SUFFICES ASSUME NEW q \in Profiles, NEW k \in 1..Len(StepsOf[q]),
                          NEW x \in Files(q, k)
                   PROVE  host'[x] \in {InitHost[x], Full(q, k, x)}
      BY DEF HostKeeps
    <2>2. x \notin Services  BY <2>1 DEF Files
    <2>3. host[x] \in {InitHost[x], Full(q, k, x)}  BY <2>1 DEF KeepInv, HostKeeps
    <2>4. CASE host'[x] = host[x]  BY <2>3, <2>4
    <2>5. CASE q = p /\ k = i /\ x = o /\ host'[x] = b  BY <1>7, <2>2, <2>5
    <2>6. QED  BY <1>8, <2>1, <2>4, <2>5
  <1> HIDE DEF b
  <1>10. ASSUME NEW q \in Profiles, NEW j, Fits(q, j), Keeps(q, j, host),
                q = p /\ o \in Files(p, i) /\ i \in 1..Len(j.steps)
                  /\ j.steps[i].before[o] = Full(p, i, o) => b = Full(p, i, o)
         PROVE  Keeps(q, j, host')
    <2>1. SUFFICES ASSUME NEW k \in 1..Len(j.steps), NEW x \in Files(q, k),
                          j.steps[k].before[x] = Full(q, k, x)
                   PROVE  host'[x] = Full(q, k, x)
      BY <1>10 DEF Keeps
    <2>2. k \in 1..Len(StepsOf[q])
      <3>1. Len(j.steps) \in Nat /\ Len(StepsOf[q]) \in Nat
        BY <1>10, RulesAssumption DEF Fits, Journals, RulesAssumption
      <3>2. QED  BY <1>10, <3>1 DEF Fits
    <2>3. CASE host'[x] = host[x]  BY <1>10, <2>1, <2>3 DEF Keeps
    <2>4. CASE q = p /\ k = i /\ x = o /\ host'[x] = b  BY <1>10, <2>1, <2>4
    <2>5. QED  BY <1>8, <2>2, <2>3, <2>4
  <1>11. StoredKeep(remote', host')
    <2>1. SUFFICES ASSUME NEW q \in Profiles, NEW k \in RunIds, remote[q][k] # NoJournal
                   PROVE  /\ Keeps(q, remote[q][k], host')
                          /\ AboveAll(q, remote[q][k], remote)
      BY <1>2 DEF StoredKeep
    <2>2. Keeps(q, remote[q][k], host) /\ AboveAll(q, remote[q][k], remote)
      BY <2>1 DEF KeepInv, StoredKeep
    <2>3. Fits(q, remote[q][k]) /\ remote[q][k].run = k
      BY <2>1 DEF Invariants, TypeInv, StoredFits, JournalInv, StoredInv
    <2>4. ASSUME q = p, o \in Files(p, i), i \in 1..Len(remote[p][k].steps),
                 remote[p][k].steps[i].before[o] = Full(p, i, o)
          PROVE  b = Full(p, i, o)
      <3>1. k \in Nat /\ m \in Nat  BY <1>1, <2>1, RunsAssumption DEF RunsAssumption
      <3>2. k <= m
        <4>1. CASE job[r].kind = "apply"  BY <1>4, <2>1, <2>4, <4>1
        <4>2. CASE job[r].kind # "apply"
          <5>1. FromHost(r)
            <6>1. job[r].kind = "rollback"
              BY <1>1, <4>2 DEF Invariants, JournalInv, RunnerInv, CommandFits, LockedPCs
            <6>2. ~Has(r, "local")
              <7>1. job[r].flags \subseteq Flags  BY RunnerTypes DEF Jobs
              <7>2. QED  BY <7>1 DEF Has, FromHostOnly
            <6>3. QED  BY <1>1, <6>1, <6>2 DEF FromHost
          <5>2. QED
            BY <2>1, <2>4, <5>1 DEF Invariants, JournalInv, RunnerInv, Loaded, StoredRuns
        <4>3. QED  BY <4>1, <4>2
      <3>3. CASE k < m
        BY <1>4, <2>1, <2>4, <3>3 DEF AboveAll, Above, b
      <3>4. CASE k = m
        <4>1. job[r].kind = "apply" => remote[p][m] = NoJournal
          BY <1>1 DEF Invariants, JournalInv, RunnerInv, UnderWay, Uncommitted, RevertPCs
        <4>2. job[r].kind # "apply" => mem[r] = remote[p][m]
          <5>1. SUFFICES ASSUME job[r].kind # "apply" PROVE mem[r] = remote[p][m]
            OBVIOUS
          <5>2. job[r].kind = "rollback"
            BY <1>1, <5>1 DEF Invariants, JournalInv, RunnerInv, CommandFits, LockedPCs
          <5>3. ~Has(r, "local")
            <6>1. job[r].flags \subseteq Flags  BY RunnerTypes DEF Jobs
            <6>2. QED  BY <6>1 DEF Has, FromHostOnly
          <5>4. QED  BY <1>1, <5>2, <5>3 DEF Invariants, JournalInv, RunnerInv, Claimed
        <4>3. QED  BY <2>1, <2>4, <3>4, <4>1, <4>2 DEF b
      <3>5. QED  BY <3>1, <3>2, <3>3, <3>4
    <2>5. QED  BY <1>10, <2>1, <2>2, <2>3, <2>4
  <1>12. Keeps(p, mem[r], host')
    BY <1>1, <1>4, <1>10 DEF b
  <1>13. RunnerKeeps(r)'
    BY <1>2, <1>3, <1>4, <1>12 DEF RunnerKeeps
  <1>14. QED  BY <1>1, <1>9, <1>11, <1>13, KeepStep

(* The newest journal of a profile is put on the host, or put there again. *)
LEMMA StoreKeep ==
    ASSUME Invariants, KeepInv, NEW p \in Profiles, NEW k \in RunIds, NEW j, Fits(p, j),
           j.run = k, Keeps(p, j, host), AboveAll(p, j, remote),
           \A x \in RunIds : remote[p][x] # NoJournal => x <= k,
           remote' \in {remote, [remote EXCEPT ![p][k] = j]}, host' = host
    PROVE  StoredKeep(remote', host') /\ AboveAll(p, j, remote')
  <1>1. CASE remote' = remote  BY <1>1 DEF KeepInv
  <1>2. CASE remote' = [remote EXCEPT ![p][k] = j]
    <2>1. \A q \in Profiles, x \in RunIds :
            remote'[q][x] = IF q = p /\ x = k THEN j ELSE remote[q][x]
      BY <1>2, RunnerTypes
    <2>2. \A x \in RunIds : x \in Nat  BY RunsAssumption DEF RunsAssumption
    <2>3. AboveAll(p, j, remote')
      <3>1. \A x \in RunIds : x < k => remote'[p][x] = remote[p][x]  BY <2>1, <2>2
      <3>2. QED  BY <3>1 DEF AboveAll
    <2>4. ASSUME NEW q \in Profiles, NEW x \in RunIds, remote'[q][x] # NoJournal
          PROVE  Keeps(q, remote'[q][x], host') /\ AboveAll(q, remote'[q][x], remote')
      <3>1. CASE q = p /\ x = k  BY <2>1, <2>3, <3>1
      <3>2. CASE ~(q = p /\ x = k)
        <4>1. remote'[q][x] = remote[q][x] /\ remote[q][x].run = x
          BY <2>1, <2>4, <3>2 DEF Invariants, JournalInv, StoredInv
        <4>2. Keeps(q, remote[q][x], host) /\ AboveAll(q, remote[q][x], remote)
          BY <2>4, <4>1 DEF KeepInv, StoredKeep
        <4>3. \A y \in RunIds : y < x => remote'[q][y] = remote[q][y]
          <5>1. q = p => x < k  BY <2>2, <2>4, <3>2, <4>1
          <5>2. QED  BY <2>1, <2>2, <5>1
        <4>4. AboveAll(q, remote[q][x], remote')
          BY <4>1, <4>2, <4>3 DEF AboveAll
        <4>5. QED  BY <4>1, <4>2, <4>4
      <3>3. QED  BY <3>1, <3>2
    <2>5. QED  BY <2>3, <2>4 DEF StoredKeep
  <1>3. QED  BY <1>1, <1>2

LEMMA CommitKeep ==
    ASSUME Invariants, KeepInv, NEW r \in Runners, OthersStill(r), Commit(r)
    PROVE  KeepInv'
  <1> DEFINE p == Prof(r)
             j == WithStatus(mem[r], "success")
  <1>1. /\ pc[r] = "commit" /\ pc[r] \in Journalled /\ Holds(r) /\ job[r].kind = "apply"
        /\ remote' \in {remote, [remote EXCEPT ![p][j.run] = j]}
        /\ mem'[r] = j /\ pc'[r] \in {"tidy", "fallback"}
        /\ job' = job /\ host' = host /\ Prof(r)' = p
    BY RunnerTypes
    DEF Commit, Goto, Journalled, Unloaded, PCs, LockedPCs, ApplyPCs, Holds, Prof,
        Invariants, JournalInv, RunnerInv, CommandFits
  <1>2. /\ p \in Profiles /\ Fits(p, j) /\ j.run = mem[r].run /\ j.steps = mem[r].steps
        /\ j.run \in RunIds
    BY <1>1, RunnerFacts DEF Invariants, Statuses, Journals
  <1>3. /\ Keeps(p, mem[r], host) /\ AboveAll(p, mem[r], remote)
        /\ \A x \in RunIds : remote[p][x] # NoJournal => x <= mem[r].run
    BY <1>1 DEF KeepInv, RunnerKeeps
  <1> HIDE DEF j
  <1>4. Keeps(p, j, host) /\ AboveAll(p, j, remote)
    BY <1>2, <1>3 DEF Keeps, AboveAll, Above
  <1>5. StoredKeep(remote', host') /\ AboveAll(p, j, remote')
    <2>1. \A x \in RunIds : remote[p][x] # NoJournal => x <= j.run  BY <1>2, <1>3
    <2> HIDE DEF p
    <2>2. QED  BY <1>1, <1>2, <1>4, <2>1, StoreKeep
  <1>6. \A x \in RunIds : remote'[p][x] # NoJournal => x <= j.run
    <2>1. j.run \in Nat  BY <1>2, RunsAssumption DEF RunsAssumption
    <2>2. \A x \in RunIds : remote'[p][x] = remote[p][x] \/ x = j.run
      BY <1>1, <1>2, RunnerTypes
    <2>3. QED  BY <1>2, <1>3, <2>1, <2>2
  <1>7. RunnerKeeps(r)'
    BY <1>1, <1>4, <1>5, <1>6 DEF RunnerKeeps
  <1>8. HostKeeps(host')  BY <1>1 DEF KeepInv
  <1>9. QED  BY <1>1, <1>5, <1>7, <1>8, KeepStep

LEMMA ClaimKeep ==
    ASSUME FromHostOnly, Invariants, KeepInv, NEW r \in Runners, OthersStill(r), Claim(r)
    PROVE  KeepInv'
  <1> DEFINE p == Prof(r)
             j == WithStatus(mem[r], "rolling_back")
  <1>1. /\ pc[r] = "claim" /\ pc[r] \in Journalled /\ Holds(r) /\ job[r].kind = "rollback"
        /\ remote' \in {remote, [remote EXCEPT ![p][j.run] = j]}
        /\ (mem'[r] = j /\ pc'[r] = "revert") \/ pc'[r] = "release"
        /\ job' = job /\ host' = host /\ Prof(r)' = p
    BY RunnerTypes
    DEF Claim, Goto, End, Journalled, Unloaded, PCs, LockedPCs, RollbackPCs, Holds, Prof,
        Invariants, JournalInv, RunnerInv, CommandFits
  <1>2. /\ p \in Profiles /\ Fits(p, j) /\ j.run = mem[r].run /\ j.steps = mem[r].steps
        /\ j.run \in RunIds
    BY <1>1, RunnerFacts DEF Invariants, Statuses, Journals
  <1>3. Keeps(p, mem[r], host) /\ AboveAll(p, mem[r], remote)
    BY <1>1 DEF KeepInv, RunnerKeeps
  <1>4. \A x \in RunIds : remote[p][x] # NoJournal => x <= mem[r].run
    <2>1. ~Has(r, "local")
      <3>1. job[r].flags \subseteq Flags  BY RunnerTypes DEF Jobs
      <3>2. QED  BY <3>1 DEF Has, FromHostOnly
    <2>2. FromHost(r)  BY <1>1, <2>1 DEF FromHost
    <2>3. QED  BY <2>2 DEF Invariants, JournalInv, RunnerInv, Loaded, StoredRuns
  <1> HIDE DEF j
  <1>5. Keeps(p, j, host) /\ AboveAll(p, j, remote)
    BY <1>2, <1>3 DEF Keeps, AboveAll, Above
  <1>6. StoredKeep(remote', host') /\ AboveAll(p, j, remote')
    <2>1. \A x \in RunIds : remote[p][x] # NoJournal => x <= j.run  BY <1>2, <1>4
    <2> HIDE DEF p
    <2>2. QED  BY <1>1, <1>2, <1>5, <2>1, StoreKeep
  <1>7. RunnerKeeps(r)'
    <2>1. CASE pc'[r] = "release"  BY <2>1 DEF RunnerKeeps, Journalled
    <2>2. CASE pc'[r] # "release"
      BY <1>1, <1>5, <1>6, <2>2 DEF RunnerKeeps
    <2>3. QED  BY <2>1, <2>2
  <1>8. HostKeeps(host')  BY <1>1 DEF KeepInv
  <1>9. QED  BY <1>1, <1>6, <1>7, <1>8, KeepStep

LEMMA ConsumeKeep ==
    ASSUME Invariants, KeepInv, NEW r \in Runners, OthersStill(r), Consume(r)
    PROVE  KeepInv'
  <1> DEFINE p == Prof(r)
             m == mem[r].run
  <1>1. /\ pc[r] = "consume" /\ pc[r] \in Journalled /\ Holds(r)
        /\ remote' \in {remote, [remote EXCEPT ![p][m] = NoJournal]}
        /\ pc'[r] = "release" /\ host' = host
    BY RunnerTypes
    DEF Consume, Goto, End, Journalled, Unloaded, PCs, LockedPCs, RollbackPCs, Holds
  <1>2. p \in Profiles /\ m \in RunIds
    BY <1>1, RunnerFacts DEF Invariants, Journals
  <1> HIDE DEF p, m
  <1>3. \A q \in Profiles, x \in RunIds : remote'[q][x] \in {remote[q][x], NoJournal}
    <2>1. CASE remote' = remote  BY <2>1
    <2>2. CASE remote' = [remote EXCEPT ![p][m] = NoJournal]  BY <1>2, <2>2, RunnerTypes
    <2>3. QED  BY <1>1, <2>1, <2>2
  <1>4. StoredKeep(remote', host')
    <2>1. SUFFICES ASSUME NEW q \in Profiles, NEW x \in RunIds, remote'[q][x] # NoJournal
                   PROVE  /\ Keeps(q, remote'[q][x], host')
                          /\ AboveAll(q, remote'[q][x], remote')
      BY DEF StoredKeep
    <2>2. remote'[q][x] = remote[q][x]  BY <1>3, <2>1
    <2>3. Keeps(q, remote[q][x], host) /\ AboveAll(q, remote[q][x], remote)
      BY <2>1, <2>2 DEF KeepInv, StoredKeep
    <2>4. \A y \in RunIds : remote'[q][y] # NoJournal => remote'[q][y] = remote[q][y]
      BY <1>3
    <2>5. AboveAll(q, remote[q][x], remote')  BY <2>3, <2>4 DEF AboveAll
    <2>6. QED  BY <1>1, <2>2, <2>3, <2>5
  <1>5. RunnerKeeps(r)'  BY <1>1 DEF RunnerKeeps, Journalled
  <1>6. HostKeeps(host')  BY <1>1 DEF KeepInv
  <1>7. QED  BY <1>1, <1>4, <1>5, <1>6, KeepStep

LEMMA KeepKept ==
    ASSUME NoEdits, ClocksAgree, FromHostOnly, RootsFiles, OwnedOnce, Invariants, KeepInv,
           [Next]_vars
    PROVE  KeepInv'
  <1>1. ASSUME NEW r \in Runners,
               StartApply(r) \/ StartRollback(r) \/ Progress(r) \/ Signal(r) \/ Crash(r)
        PROVE  KeepInv'
    <2>1. OthersStill(r)  BY <1>1, OneRunnerMoves
    <2>2. CASE \/ StartApply(r) \/ StartRollback(r) \/ Crash(r)
               \/ TakeLock(r) \/ LockRefused(r) \/ ReleaseLock(r)
               \/ AdmitRefused(r) \/ StampFailed(r) \/ Tidy(r) \/ Fallback(r)
               \/ LoadRefused(r) \/ PreflightRefused(r)
               \/ Signal(r) /\ pc[r] \notin Journalled
      BY <2>1, <2>2, LeavesKeep
    <2>3. CASE \/ NextStep(r) \/ Interrupt(r) \/ UndoPreflight(r) \/ RevertDone(r)
               \/ Preflight(r)
               \/ Signal(r) /\ pc[r] \in Journalled
      BY <2>1, <2>3, GoesOnKeep
    <2>4. CASE NewRun(r)  BY <2>1, <2>4, NewRunKeep
    <2>5. CASE LoadJournal(r)  BY <2>1, <2>5, LoadKeep
    <2>6. CASE CaptureBefore(r) \/ CaptureAfter(r)  BY <2>1, <2>6, CaptureKeep
    <2>7. CASE RunStep(r)  BY <2>1, <2>7, RunStepKeep
    <2>8. CASE RevertObject(r) \/ SettleObject(r)  BY <2>1, <2>8, RestoreKeep
    <2>9. CASE Commit(r)  BY <2>1, <2>9, CommitKeep
    <2>10. CASE Claim(r)  BY <2>1, <2>10, ClaimKeep
    <2>11. CASE Consume(r)  BY <2>1, <2>11, ConsumeKeep
    <2>12. CASE ApplyStep(r)
      BY <2>2, <2>3, <2>4, <2>6, <2>7, <2>9, <2>12 DEF ApplyStep
    <2>13. CASE RevertStep(r) \/ RollbackStep(r)
      BY <2>2, <2>3, <2>5, <2>8, <2>10, <2>11, <2>13 DEF RevertStep, RollbackStep
    <2>14. CASE Signal(r)  BY <2>2, <2>3, <2>14
    <2>15. QED  BY <1>1, <2>2, <2>12, <2>13, <2>14 DEF Progress
  <1>2. ~(\E o \in Objects, v \in Edits : Edit(o, v))  BY DEF Edit, Fault, NoEdits
  <1>3. CASE RemoveStaleLock \/ UNCHANGED vars
    <2>1. UNCHANGED <<host, remote, pc, job, mem>>
      BY <1>3 DEF RemoveStaleLock, vars, hostVars, runnerVars
    <2>2. QED  BY <2>1 DEF KeepInv, RunnerKeeps, Prof
  <1>4. QED  BY <1>1, <1>2, <1>3 DEF Next

LEMMA KeepInit == Init => KeepInv
  <1> SUFFICES ASSUME Init PROVE KeepInv
    OBVIOUS
  <1>1. HostKeeps(host)  BY DEF Init, HostKeeps
  <1>2. StoredKeep(remote, host)  BY DEF Init, StoredKeep
  <1>3. \A r \in Runners : RunnerKeeps(r)  BY DEF Init, RunnerKeeps, Journalled, Unloaded
  <1>4. QED  BY <1>1, <1>2, <1>3 DEF KeepInv

(* What a rollback that resumes finds in conflict is no file: each is as   *)
(* the run left it or as it found it, whatever the first attempt got to.   *)
LEMMA NoFileConflicts ==
    ASSUME FromHostOnly, Invariants, KeepInv, NEW r \in Runners, pc[r] = "preflight"
    PROVE  RollbackConflicts(Prof(r), mem[r].steps, host, TRUE) \subseteq Services
  <1> DEFINE p == Prof(r)
  <1>1. p \in Profiles /\ Fits(p, mem[r]) /\ pc[r] \in Journalled
    BY RunnerFacts
    DEF Invariants, Journalled, Unloaded, PCs, LockedPCs, RollbackPCs
  <1>2. Keeps(p, mem[r], host)  BY <1>1 DEF KeepInv, RunnerKeeps
  <1>3. SUFFICES ASSUME NEW i \in DOMAIN mem[r].steps,
                        NEW o \in ConflictsAt(p, mem[r].steps, i, host, TRUE),
                        o \notin Services
                 PROVE  FALSE
    BY DEF RollbackConflicts
  <1>4. /\ i \in 1..Len(mem[r].steps) /\ i \in 1..Len(StepsOf[p])
    <2>1. Len(mem[r].steps) \in Nat /\ Len(StepsOf[p]) \in Nat
          /\ DOMAIN mem[r].steps = 1..Len(mem[r].steps)
      BY <1>1, RulesAssumption DEF Fits, Journals, RulesAssumption
    <2>2. QED  BY <1>1, <1>3, <2>1 DEF Fits
  <1>5. /\ o \in Files(p, i) /\ mem[r].steps[i].after # Uncaptured
        /\ host[o] # mem[r].steps[i].after[o] /\ host[o] # mem[r].steps[i].before[o]
    BY <1>3 DEF ConflictsAt, Files
  <1>6. /\ mem[r].steps[i].before[o] \in {InitHost[o], Full(p, i, o)}
        /\ mem[r].steps[i].after[o] = Full(p, i, o)
        /\ mem[r].steps[i].before[o] = Full(p, i, o) => host[o] = Full(p, i, o)
    BY <1>2, <1>4, <1>5 DEF Keeps
  <1>7. host[o] \in {InitHost[o], Full(p, i, o)}
    BY <1>1, <1>4, <1>5 DEF KeepInv, HostKeeps
  <1>8. QED  BY <1>5, <1>6, <1>7

(* Where nobody edits the host, no file ever stops a rollback that         *)
(* resumes, of profiles with services, too: whatever failed, was           *)
(* interrupted or killed, a file is as the run left it or as it found it.  *)
THEOREM NoFileStopsAResume ==
    ASSUME NoEdits, ClocksAgree, FromHostOnly, RootsFiles, OwnedOnce
    PROVE  Spec => [](\A r \in Runners : pc[r] = "preflight" =>
                        RollbackConflicts(Prof(r), mem[r].steps, host, TRUE) \subseteq Services)
  <1> DEFINE P == \A r \in Runners : pc[r] = "preflight" =>
                    RollbackConflicts(Prof(r), mem[r].steps, host, TRUE) \subseteq Services
  <1>1. Invariants /\ KeepInv => P  BY NoFileConflicts
  <1>2. Init => KeepInv  BY KeepInit
  <1>3. Invariants /\ KeepInv /\ [Next]_vars => KeepInv'  BY KeepKept
  <1> HIDE DEF P
  <1>4. Spec => []P  BY <1>1, <1>2, <1>3, InvariantsHold, PTL DEF Spec
  <1>5. QED  BY <1>4 DEF P

(* No step manages a service.                                              *)
FilesOnly == \A p \in Profiles : \A i \in 1..Len(StepsOf[p]) : ~HasServiceObjects(p, i)

(* "The next hardline rollback resumes it rather than refusing a host that *)
(* is half reverted": where nobody edits the host, whatever failed, was    *)
(* interrupted or killed and at whichever restoration, the next rollback   *)
(* of a half-reverted run finds no conflict.  For profiles of files that   *)
(* are root's and that one step each manages.                              *)
THEOREM ResumesBegin ==
    ASSUME NoEdits, ClocksAgree, FromHostOnly, RootsFiles, OwnedOnce, FilesOnly
    PROVE  Spec => []ResumeAccepted
  <1>1. Invariants /\ KeepInv => ResumeAccepted
    <2> SUFFICES ASSUME Invariants, KeepInv, NEW r \in Runners, pc[r] = "preflight",
                        mem[r].status = "rolling_back"
                 PROVE  ~Conflicted(r)
      BY DEF ResumeAccepted
    <2> DEFINE C == RollbackConflicts(Prof(r), mem[r].steps, host, TRUE)
    <2>1. C \subseteq Services  BY NoFileConflicts
    <2>2. C \cap Services = {}
      <3>1. Prof(r) \in Profiles /\ Fits(Prof(r), mem[r])
        BY RunnerFacts
        DEF Invariants, Journalled, Unloaded, PCs, LockedPCs, RollbackPCs
      <3>2. DOMAIN mem[r].steps \subseteq 1..Len(StepsOf[Prof(r)])
        <4>1. Len(mem[r].steps) \in Nat /\ Len(StepsOf[Prof(r)]) \in Nat
              /\ DOMAIN mem[r].steps = 1..Len(mem[r].steps)
          BY <3>1, RulesAssumption DEF Fits, Journals, RulesAssumption
        <4>2. QED  BY <3>1, <4>1 DEF Fits
      <3>3. QED
        BY <3>1, <3>2 DEF FilesOnly, HasServiceObjects, RollbackConflicts, ConflictsAt
    <2>3. C = {}  BY <2>1, <2>2
    <2>4. (mem[r].status = "rolling_back") = TRUE  OBVIOUS
    <2>5. QED  BY <2>3, <2>4 DEF Conflicted
  <1>2. Init => KeepInv  BY KeepInit
  <1>3. Invariants /\ KeepInv /\ [Next]_vars => KeepInv'  BY KeepKept
  <1>4. QED  BY <1>1, <1>2, <1>3, InvariantsHold, PTL DEF Spec
=============================================================================
