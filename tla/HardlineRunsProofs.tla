-------------------------- MODULE HardlineRunsProofs --------------------------
(***************************************************************************)
(* Proofs about the core protocol of hardline, for any runners, profiles,  *)
(* steps, flags, faults and number of runs.                                *)
(***************************************************************************)
EXTENDS HardlineRunsProps, TLAPS, FiniteSetTheorems, SequenceTheorems, WellFoundedInduction

(* A journal fits a profile when its records are of the profile's first    *)
(* steps and capture exactly the objects of those steps.                   *)
Fits(p, j) ==
    /\ j \in Journals
    /\ Len(j.steps) <= Len(StepsOf[p])
    /\ \A i \in 1..Len(j.steps) :
         /\ j.steps[i].before \in Capture(p, i)
         /\ j.steps[i].after \in Capture(p, i) \cup {Uncaptured}

(* What a runner at `where`, applying or rolling back p, has in memory:    *)
(* the journal j and the restorations `items` still to do.                 *)
Unloaded == {"idle", "lock", "admit", "load"}
Journalled == PCs \ (Unloaded \cup {"release"})

RunnerFits(where, p, j, items) ==
    /\ where \in Unloaded => j = NoJournal
    /\ where \in Journalled => j # NoJournal
    /\ where = "exec" => Len(j.steps) < Len(StepsOf[p])
    /\ where \in {"run", "capture"} => Len(j.steps) > 0
    /\ j # NoJournal => Fits(p, j)
    /\ \A it \in items : /\ j # NoJournal
                          /\ it[1] \in 1..Len(j.steps)
                          /\ it[2] \in DOMAIN StepsOf[p][it[1]].objects

MemoryFits == \A r \in Runners : RunnerFits(pc[r], Prof(r), mem[r], todo[r])

StoredFits ==
    /\ \A r \in Runners, p \in Profiles : local[r][p] # NoJournal => Fits(p, local[r][p])
    /\ \A p \in Profiles, k \in RunIds : remote[p][k] # NoJournal => Fits(p, remote[p][k])

(* TypeOK, strengthened to be inductive.                                   *)
TypeInv == TypeOK /\ MemoryFits /\ StoredFits

-----------------------------------------------------------------------------
(* A finite set of numbers that is not empty has a greatest one: otherwise *)
(* a smallest subset without one loses an element and still has none.      *)
LEMMA FiniteSetHasMax ==
    ASSUME NEW S, S \subseteq Nat, IsFiniteSet(S), S # {}
    PROVE  \E k \in S : \A other \in S : other <= k
  <1> DEFINE Max(U) == \E k \in U : \A other \in U : other <= k
             Bad == {U \in FiniteSubsetsOf(S) : U # {} /\ ~Max(U)}
  <1>1. SUFFICES ASSUME ~Max(S) PROVE FALSE  OBVIOUS
  <1>2. S \in Bad  BY <1>1 DEF FiniteSubsetsOf
  <1>3. Bad \subseteq FiniteSubsetsOf(S) /\ Bad # {}  BY <1>2
  <1>4. IsWellFoundedOn(StrictSubsetOrdering(S), FiniteSubsetsOf(S))
    BY FS_StrictSubsetOrderingWellFounded
  <1> HIDE DEF Bad
  <1>5. PICK U \in Bad : \A T \in Bad : <<T, U>> \notin StrictSubsetOrdering(S)
    BY <1>3, <1>4, WFMin
  <1>6. U \subseteq S /\ IsFiniteSet(U) /\ U # {} /\ ~Max(U)
    BY <1>5 DEF Bad, FiniteSubsetsOf
  <1>7. PICK x \in U : TRUE  BY <1>6
  <1> DEFINE T == U \ {x}
  <1>8. IsFiniteSet(T) /\ T \subseteq S /\ T \subseteq U /\ T # U
    BY <1>6, <1>7, FS_RemoveElement
  <1>9. <<T, U>> \in StrictSubsetOrdering(S)
    BY <1>6, <1>8 DEF StrictSubsetOrdering
  <1>10. T \notin Bad  BY <1>5, <1>9
  <1>11. T = {} \/ Max(T)  BY <1>8, <1>10 DEF Bad, FiniteSubsetsOf
  <1>12. CASE T = {}
    <2>1. x \in Nat /\ U = {x}  BY <1>6, <1>7, <1>12
    <2>2. Max(U)  BY <2>1
    <2>3. QED  BY <1>6, <2>2
  <1>13. CASE Max(T)
    <2>1. PICK m \in T : \A other \in T : other <= m  BY <1>13
    <2>2. m \in Nat /\ x \in Nat /\ U \subseteq Nat /\ m \in U  BY <1>6, <1>7, <2>1
    <2>3. \A other \in U : other = x \/ other <= m  BY <2>1
    <2>4. CASE x <= m  BY <1>6, <2>2, <2>3, <2>4
    <2>5. CASE m <= x
      <3>1. \A other \in U : other <= x  BY <2>2, <2>3, <2>5
      <3>2. QED  BY <1>6, <1>7, <3>1
    <2>6. QED  BY <2>2, <2>4, <2>5
  <1>14. QED  BY <1>11, <1>12, <1>13

(* The i-th step of a profile manages objects of the host.                 *)
LEMMA ObjectsOfType ==
    ASSUME NEW p \in Profiles, NEW i \in 1..Len(StepsOf[p])
    PROVE  /\ StepsOf[p][i] \in Step
           /\ ObjectsOf(p, i) \subseteq Objects
           /\ \A n \in DOMAIN StepsOf[p][i].objects : StepsOf[p][i].objects[n] \in ObjectsOf(p, i)
  <1>1. StepsOf[p] \in Seq(Step)  BY RulesAssumption DEF RulesAssumption
  <1>2. StepsOf[p][i] \in Step  BY <1>1
  <1>3. StepsOf[p][i].objects \in Seq(Objects)  BY <1>2 DEF Step
  <1>4. QED  BY <1>2, <1>3 DEF ObjectsOf

(* A capture of the host by a step.                                        *)
LEMMA SnapshotType ==
    ASSUME NEW p \in Profiles, NEW i \in 1..Len(StepsOf[p]), host \in [Objects -> Value]
    PROVE  Snapshot(p, i) \in Capture(p, i)
  BY ObjectsOfType DEF Snapshot, Capture

LEMMA CaptureType ==
    ASSUME NEW p \in Profiles, NEW i \in 1..Len(StepsOf[p]), NEW c \in Capture(p, i)
    PROVE  c \in Captures /\ c # Uncaptured
  BY ObjectsOfType, RulesAssumption DEF Capture, Captures, RulesAssumption

(* Stamping a journal leaves its run and its steps alone.                  *)
LEMMA StampedFits ==
    ASSUME NEW p \in Profiles, NEW j, Fits(p, j), NEW s \in Statuses
    PROVE  /\ Fits(p, WithStatus(j, s))
           /\ WithStatus(j, s).run = j.run
           /\ WithStatus(j, s).steps = j.steps
           /\ WithStatus(j, s).status = s
           /\ WithStatus(j, s) # NoJournal
  <1>1. j \in [run : RunIds, status : Statuses, steps : Seq(Records)]  BY DEF Fits, Journals
  <1>2. /\ WithStatus(j, s) \in [run : RunIds, status : Statuses, steps : Seq(Records)]
        /\ WithStatus(j, s).run = j.run
        /\ WithStatus(j, s).steps = j.steps
        /\ WithStatus(j, s).status = s
    BY <1>1 DEF WithStatus
  <1>3. QED  BY <1>2, NoJournalAssumption DEF Fits, Journals

(* The record of the next step is appended before the step runs.           *)
LEMMA AppendedFits ==
    ASSUME NEW p \in Profiles, NEW j, Fits(p, j), Len(j.steps) < Len(StepsOf[p]),
           NEW c \in Capture(p, Len(j.steps) + 1)
    PROVE  LET n == Recorded(j, c) IN
           /\ Fits(p, n)
           /\ n # NoJournal
           /\ n.run = j.run
           /\ n.status = j.status
           /\ Len(n.steps) = Len(j.steps) + 1
           /\ \A i \in 1..Len(j.steps) : n.steps[i] = j.steps[i]
           /\ n.steps[Len(j.steps) + 1] = [before |-> c, after |-> Uncaptured]
  <1> DEFINE rec == [before |-> c, after |-> Uncaptured]
             n == Recorded(j, c)
  <1>1. j \in [run : RunIds, status : Statuses, steps : Seq(Records)]  BY DEF Fits, Journals
  <1>2. Len(j.steps) \in Nat /\ Len(StepsOf[p]) \in Nat
    BY <1>1, RulesAssumption DEF RulesAssumption
  <1>3. Len(j.steps) + 1 \in 1..Len(StepsOf[p])  BY <1>2
  <1>4. rec \in Records  BY <1>3, CaptureType DEF Records
  <1>5. /\ Append(j.steps, rec) \in Seq(Records)
        /\ Len(Append(j.steps, rec)) = Len(j.steps) + 1
        /\ \A i \in 1..Len(j.steps) : Append(j.steps, rec)[i] = j.steps[i]
        /\ Append(j.steps, rec)[Len(j.steps) + 1] = rec
    BY <1>1, <1>4
  <1>6. /\ n \in Journals
        /\ n.steps = Append(j.steps, rec)
        /\ n.run = j.run
        /\ n.status = j.status
    <2>1. n = [j EXCEPT !.steps = Append(@, rec)]  BY DEF Recorded
    <2> HIDE DEF rec, n
    <2> QED  BY <2>1, <1>1, <1>5 DEF Journals
  <1>7. \A i \in 1..Len(n.steps) : /\ n.steps[i].before \in Capture(p, i)
                                   /\ n.steps[i].after \in Capture(p, i) \cup {Uncaptured}
    <2> TAKE i \in 1..Len(n.steps)
    <2>1. CASE i \in 1..Len(j.steps)  BY <2>1, <1>5, <1>6 DEF Fits
    <2>2. CASE i = Len(j.steps) + 1  BY <2>2, <1>5, <1>6
    <2>3. QED  BY <2>1, <2>2, <1>2, <1>5, <1>6
  <1>8. Fits(p, n)  BY <1>2, <1>5, <1>6, <1>7 DEF Fits
  <1> HIDE DEF n
  <1>9. n # NoJournal  BY <1>6, NoJournalAssumption
  <1>10. /\ n.run = j.run
         /\ n.status = j.status
         /\ Len(n.steps) = Len(j.steps) + 1
         /\ \A i \in 1..Len(j.steps) : n.steps[i] = j.steps[i]
         /\ n.steps[Len(j.steps) + 1] = rec
    BY <1>5, <1>6
  <1>11. QED  BY <1>8, <1>9, <1>10 DEF n, rec

(* The capture after a step completes its record.                          *)
LEMMA CompletedFits ==
    ASSUME NEW p \in Profiles, NEW j, Fits(p, j), Len(j.steps) > 0,
           NEW c \in Capture(p, Len(j.steps))
    PROVE  LET i == Len(j.steps)
               n == Completed(j, c) IN
           /\ Fits(p, n)
           /\ n # NoJournal
           /\ n.run = j.run
           /\ n.status = j.status
           /\ Len(n.steps) = Len(j.steps)
           /\ \A k \in 1..(i - 1) : n.steps[k] = j.steps[k]
           /\ n.steps[i].before = j.steps[i].before
           /\ n.steps[i].after = c
  <1> DEFINE i == Len(j.steps)
             n == Completed(j, c)
  <1>1. j \in [run : RunIds, status : Statuses, steps : Seq(Records)]  BY DEF Fits, Journals
  <1>2. i \in Nat /\ Len(StepsOf[p]) \in Nat
    BY <1>1, RulesAssumption DEF RulesAssumption
  <1>3. i \in 1..Len(j.steps) /\ i \in 1..Len(StepsOf[p])  BY <1>2 DEF Fits
  <1>4. c \in Captures  BY <1>3, CaptureType
  <1>5. j.steps[i] \in Records  BY <1>1, <1>3
  <1>6. /\ [j.steps[i] EXCEPT !.after = c] \in Records
        /\ [j.steps[i] EXCEPT !.after = c].before = j.steps[i].before
        /\ [j.steps[i] EXCEPT !.after = c].after = c
    BY <1>4, <1>5 DEF Records
  <1> DEFINE rec == [j.steps[i] EXCEPT !.after = c]
             ss == [j.steps EXCEPT ![i] = rec]
  <1>7. /\ ss \in Seq(Records)
        /\ Len(ss) = Len(j.steps)
        /\ \A k \in 1..(i - 1) : ss[k] = j.steps[k]
        /\ ss[i] = rec
    <2> HIDE DEF rec, i
    <2> QED  BY <1>1, <1>3, <1>6 DEF rec
  <1>8. /\ n = [j EXCEPT !.steps = ss]
        /\ n \in Journals
        /\ n.steps = ss
        /\ n.run = j.run
        /\ n.status = j.status
    <2>1. n = [j EXCEPT !.steps = ss]  BY <1>1 DEF Completed
    <2> HIDE DEF ss, n
    <2>2. QED  BY <2>1, <1>1, <1>7 DEF Journals
  <1> HIDE DEF n
  <1>9. \A k \in 1..Len(n.steps) : /\ n.steps[k].before \in Capture(p, k)
                                   /\ n.steps[k].after \in Capture(p, k) \cup {Uncaptured}
    <2> TAKE k \in 1..Len(n.steps)
    <2>1. CASE k \in 1..(i - 1)  BY <2>1, <1>2, <1>7, <1>8 DEF Fits
    <2>2. CASE k = i  BY <2>2, <1>3, <1>6, <1>7, <1>8 DEF Fits
    <2>3. QED  BY <2>1, <2>2, <1>2, <1>7, <1>8
  <1>10. Fits(p, n)  BY <1>7, <1>8, <1>9 DEF Fits
  <1>11. n # NoJournal  BY <1>8, NoJournalAssumption
  <1>12. QED  BY <1>6, <1>7, <1>8, <1>10, <1>11 DEF n

-----------------------------------------------------------------------------
(* No command is a command.                                                *)
LEMMA NoJobType == NoJob \in Jobs
  BY RunsAssumption DEF RunsAssumption, NoJob, Jobs

(* What plugins and rollbacks write is a value.                            *)
LEMMA WrittenType ==
    ASSUME NEW o \in Objects, NEW v \in Value, NEW w \in Value
    PROVE  /\ HalfWritten(o, v, w) \in Value
           /\ Applied(o, v, w) \in Value
           /\ [v EXCEPT !.meta = w.meta] \in Value
  <1>1. /\ v.body \in Bodies /\ v.meta \in Metas
        /\ w.body \in Bodies /\ w.meta \in Metas
        /\ Root \in Metas
    BY RulesAssumption DEF Value, RulesAssumption
  <1>2. HalfWritten(o, v, w) \in Value  BY <1>1 DEF HalfWritten, Value
  <1>3. Applied(o, v, w) \in Value  BY <1>2 DEF Applied
  <1>4. [v EXCEPT !.meta = w.meta] \in Value  BY <1>1 DEF Value
  <1>5. QED  BY <1>2, <1>3, <1>4

LEMMA AfterPluginType ==
    ASSUME NEW p \in Profiles, NEW i \in 1..Len(StepsOf[p]), NEW n, NEW halfway,
           host \in [Objects -> Value]
    PROVE  AfterPlugin(p, i, n, halfway) \in [Objects -> Value]
  <1>1. StepsOf[p][i].want \in [Objects -> Value]  BY ObjectsOfType DEF Step
  <1>2. QED  BY <1>1, WrittenType DEF AfterPlugin

(* The restorations of a journal are of its steps' objects.                *)
LEMMA RevertItemsType ==
    ASSUME NEW p \in Profiles, NEW j, Fits(p, j), NEW it \in RevertItems(p, j.steps)
    PROVE  /\ it \in Nat \X Nat
           /\ it[1] \in 1..Len(j.steps)
           /\ it[2] \in DOMAIN StepsOf[p][it[1]].objects
  <1>1. j.steps \in Seq(Records) /\ Len(j.steps) \in Nat /\ Len(StepsOf[p]) \in Nat
    BY RulesAssumption DEF Fits, Journals, RulesAssumption
  <1>2. PICK i \in 1..Len(j.steps) : it \in {i} \X DOMAIN StepsOf[p][i].objects
    BY <1>1 DEF RevertItems
  <1>3. i \in 1..Len(StepsOf[p])  BY <1>1 DEF Fits
  <1>4. StepsOf[p][i].objects \in Seq(Objects)  BY <1>3, ObjectsOfType DEF Step
  <1>5. QED  BY <1>2, <1>4

(* An object still to be restored, and the value to restore.               *)
LEMMA ItemType ==
    ASSUME NEW p \in Profiles, NEW j, NEW items, NEW where, RunnerFits(where, p, j, items),
           NEW it \in items
    PROVE  /\ StepsOf[p][it[1]].objects[it[2]] \in Objects
           /\ j.steps[it[1]].before[StepsOf[p][it[1]].objects[it[2]]] \in Value
  <1>1. j # NoJournal /\ Fits(p, j) /\ it[1] \in 1..Len(j.steps)
        /\ it[2] \in DOMAIN StepsOf[p][it[1]].objects
    BY DEF RunnerFits
  <1>2. Len(j.steps) \in Nat /\ Len(StepsOf[p]) \in Nat
    BY <1>1, RulesAssumption DEF Fits, Journals, RulesAssumption
  <1>3. it[1] \in 1..Len(StepsOf[p])  BY <1>1, <1>2 DEF Fits
  <1>4. StepsOf[p][it[1]].objects[it[2]] \in ObjectsOf(p, it[1])  BY <1>1, <1>3, ObjectsOfType
  <1>5. j.steps[it[1]].before \in [ObjectsOf(p, it[1]) -> Value]  BY <1>1 DEF Fits, Capture
  <1>6. QED  BY <1>3, <1>4, <1>5, ObjectsOfType

-----------------------------------------------------------------------------
LEMMA FaultType ==
    ASSUME TypeInv
    PROVE  /\ \A kind : Fault(kind) => faults' \in 0..MaxFaults
           /\ NoFault => faults' \in 0..MaxFaults
  BY RunsAssumption DEF TypeInv, TypeOK, HistoryType, Fault, NoFault, RunsAssumption

(* A step of runner r leaves the memory of the others alone.               *)
OnlyRunner(r) ==
    \A s \in Runners \ {r} :
        pc'[s] = pc[s] /\ job'[s] = job[s] /\ mem'[s] = mem[s] /\ todo'[s] = todo[s]

LEMMA MemoryStep ==
    ASSUME MemoryFits, NEW r \in Runners, OnlyRunner(r),
           RunnerFits(pc'[r], job'[r].profile, mem'[r], todo'[r])
    PROVE  MemoryFits'
  BY DEF MemoryFits, OnlyRunner, Prof

(* The command of a runner, and the journal it has in memory.              *)
LEMMA RunnerFacts ==
    ASSUME TypeInv, NEW r \in Runners
    PROVE  /\ Prof(r) \in Profiles
           /\ RunnerFits(pc[r], Prof(r), mem[r], todo[r])
           /\ pc[r] \in Journalled => mem[r] \in Journals /\ Fits(Prof(r), mem[r])
           /\ \A s \in Statuses : pc[r] \in Journalled =>
                /\ Fits(Prof(r), WithStatus(mem[r], s))
                /\ WithStatus(mem[r], s) \in Journals
                /\ WithStatus(mem[r], s) # NoJournal
                /\ WithStatus(mem[r], s).run = mem[r].run
                /\ WithStatus(mem[r], s).steps = mem[r].steps
  <1>1. Prof(r) \in Profiles  BY DEF TypeInv, TypeOK, RunnerType, Jobs, Prof
  <1>2. RunnerFits(pc[r], Prof(r), mem[r], todo[r])  BY DEF TypeInv, MemoryFits
  <1>3. pc[r] \in Journalled => Fits(Prof(r), mem[r])  BY <1>2 DEF RunnerFits
  <1>4. QED  BY <1>1, <1>2, <1>3, StampedFits DEF Fits

(* The runner-side journal of the command is replaced, or nothing is.      *)
LEMMA StoredLocally ==
    ASSUME TypeInv, NEW r \in Runners, NEW j \in Journals \cup {NoJournal},
           j # NoJournal => Fits(Prof(r), j),
           SaveLocal(r, j) \/ UNCHANGED local, UNCHANGED remote
    PROVE  /\ StoredFits'
           /\ local' \in [Runners -> [Profiles -> Journals \cup {NoJournal}]]
           /\ remote' \in [Profiles -> [RunIds -> Journals \cup {NoJournal}]]
  <1>1. /\ local \in [Runners -> [Profiles -> Journals \cup {NoJournal}]]
        /\ remote \in [Profiles -> [RunIds -> Journals \cup {NoJournal}]]
        /\ StoredFits
    BY DEF TypeInv, TypeOK, JournalType
  <1>2. Prof(r) \in Profiles  BY RunnerFacts
  <1>3. CASE UNCHANGED local  BY <1>1, <1>3 DEF StoredFits
  <1>4. CASE SaveLocal(r, j)
    <2>1. /\ local' \in [Runners -> [Profiles -> Journals \cup {NoJournal}]]
          /\ \A s \in Runners, p \in Profiles :
                local'[s][p] = IF s = r /\ p = Prof(r) THEN j ELSE local[s][p]
      BY <1>1, <1>2, <1>4 DEF SaveLocal
    <2>2. QED  BY <1>1, <2>1 DEF StoredFits
  <1>5. QED  BY <1>3, <1>4

(* The journal of a run on the host is replaced, or nothing is.            *)
LEMMA StoredRemotely ==
    ASSUME TypeInv, NEW p \in Profiles, NEW k \in RunIds, NEW j \in Journals \cup {NoJournal},
           j # NoJournal => Fits(p, j),
           remote' \in {remote, [remote EXCEPT ![p][k] = j]}, UNCHANGED local
    PROVE  /\ StoredFits'
           /\ local' \in [Runners -> [Profiles -> Journals \cup {NoJournal}]]
           /\ remote' \in [Profiles -> [RunIds -> Journals \cup {NoJournal}]]
  <1>1. /\ local \in [Runners -> [Profiles -> Journals \cup {NoJournal}]]
        /\ remote \in [Profiles -> [RunIds -> Journals \cup {NoJournal}]]
        /\ StoredFits
    BY DEF TypeInv, TypeOK, JournalType
  <1>2. CASE remote' = remote  BY <1>1, <1>2 DEF StoredFits
  <1>3. CASE remote' = [remote EXCEPT ![p][k] = j]
    <2>1. /\ remote' \in [Profiles -> [RunIds -> Journals \cup {NoJournal}]]
          /\ \A q \in Profiles, x \in RunIds :
                remote'[q][x] = IF q = p /\ x = k THEN j ELSE remote[q][x]
      BY <1>1, <1>3
    <2>2. QED  BY <1>1, <2>1 DEF StoredFits
  <1>4. QED  BY <1>2, <1>3

-----------------------------------------------------------------------------
(* The actions of a runner that leave every stored journal alone, and move *)
(* the runner or end its process.                                          *)
Moves(r) ==
    \/ StartApply(r) \/ StartRollback(r) \/ TakeLock(r) \/ LockRefused(r)
    \/ ReleaseLock(r) \/ AdmitRefused(r) \/ NextStep(r) \/ RevertDone(r)
    \/ LoadRefused(r) \/ Preflight(r) \/ PreflightRefused(r) \/ Signal(r)
    \/ Crash(r)

(* ... keep the types. *)
LEMMA MovesTyped ==
    ASSUME TypeInv, NEW r \in Runners, Moves(r)
    PROVE  TypeInv'
  <1> USE DEF Goto, End, Exit, Fault, NoFault, hostVars, runnerVars, historyVars
  <1>a. late' \in [Runners -> SUBSET Objects]
    BY DEF TypeInv, TypeOK, HistoryType, Moves, StartApply, StartRollback, TakeLock, LockRefused, ReleaseLock, AdmitRefused, NextStep, RevertDone, LoadRefused, Preflight, PreflightRefused, Signal, Crash
  <1>1. CASE StartApply(r)
    <2>1. HostType'  BY <1>1 DEF TypeInv, TypeOK, HostType, StartApply
    <2>2. RunnerType'
      BY <1>1 DEF TypeInv, TypeOK, RunnerType, StartApply, Jobs, PCs, LockedPCs, ApplyPCs, RollbackPCs, RevertPCs, Results
    <2>3. HistoryType'
      BY <1>1, RunsAssumption DEF TypeInv, TypeOK, HistoryType, StartApply, RunsAssumption
    <2>4. JournalType'  BY <1>1 DEF TypeInv, TypeOK, JournalType, StartApply
    <2>5. OnlyRunner(r)
      BY <1>1 DEF TypeInv, TypeOK, RunnerType, JournalType, OnlyRunner, StartApply
    <2>6. RunnerFits(pc'[r], job'[r].profile, mem'[r], todo'[r])
      BY <1>1 DEF TypeInv, TypeOK, RunnerType, JournalType, MemoryFits, RunnerFits, Unloaded,
                  Journalled, Prof, Steps, StartApply, PCs, LockedPCs, ApplyPCs, RollbackPCs, RevertPCs
    <2>7. StoredFits'  BY <1>1 DEF TypeInv, StoredFits, StartApply
    <2>8. QED  BY <2>1, <2>2, <2>3, <2>4, <2>5, <2>6, <2>7, MemoryStep DEF TypeInv, TypeOK
  <1>2. CASE StartRollback(r)
    <2>1. HostType'  BY <1>2 DEF TypeInv, TypeOK, HostType, StartRollback
    <2>2. RunnerType'
      BY <1>2 DEF TypeInv, TypeOK, RunnerType, StartRollback, Jobs, PCs, LockedPCs, ApplyPCs, RollbackPCs, RevertPCs, Results
    <2>3. HistoryType'
      BY <1>2, RunsAssumption DEF TypeInv, TypeOK, HistoryType, StartRollback, RunsAssumption
    <2>4. JournalType'  BY <1>2 DEF TypeInv, TypeOK, JournalType, StartRollback
    <2>5. OnlyRunner(r)
      BY <1>2 DEF TypeInv, TypeOK, RunnerType, JournalType, OnlyRunner, StartRollback
    <2>6. RunnerFits(pc'[r], job'[r].profile, mem'[r], todo'[r])
      BY <1>2 DEF TypeInv, TypeOK, RunnerType, JournalType, MemoryFits, RunnerFits, Unloaded,
                  Journalled, Prof, Steps, StartRollback, PCs, LockedPCs, ApplyPCs, RollbackPCs, RevertPCs
    <2>7. StoredFits'  BY <1>2 DEF TypeInv, StoredFits, StartRollback
    <2>8. QED  BY <2>1, <2>2, <2>3, <2>4, <2>5, <2>6, <2>7, MemoryStep DEF TypeInv, TypeOK
  <1>3. CASE TakeLock(r)
    <2>1. HostType'  BY <1>3 DEF TypeInv, TypeOK, HostType, TakeLock
    <2>2. RunnerType'
      BY <1>3 DEF TypeInv, TypeOK, RunnerType, TakeLock, Jobs, PCs, LockedPCs, ApplyPCs, RollbackPCs, RevertPCs, Results
    <2>3. HistoryType'
      BY <1>3, RunsAssumption DEF TypeInv, TypeOK, HistoryType, TakeLock, RunsAssumption
    <2>4. JournalType'  BY <1>3 DEF TypeInv, TypeOK, JournalType, TakeLock
    <2>5. OnlyRunner(r)
      BY <1>3 DEF TypeInv, TypeOK, RunnerType, JournalType, OnlyRunner, TakeLock
    <2>6. RunnerFits(pc'[r], job'[r].profile, mem'[r], todo'[r])
      BY <1>3 DEF TypeInv, TypeOK, RunnerType, JournalType, MemoryFits, RunnerFits, Unloaded,
                  Journalled, Prof, Steps, TakeLock, PCs, LockedPCs, ApplyPCs, RollbackPCs, RevertPCs
    <2>7. StoredFits'  BY <1>3 DEF TypeInv, StoredFits, TakeLock
    <2>8. QED  BY <2>1, <2>2, <2>3, <2>4, <2>5, <2>6, <2>7, MemoryStep DEF TypeInv, TypeOK
  <1>4. CASE LockRefused(r)
    <2>1. HostType'  BY <1>4 DEF TypeInv, TypeOK, HostType, LockRefused
    <2>2. RunnerType'
      BY <1>4, NoJobType DEF TypeInv, TypeOK, RunnerType, LockRefused, Jobs, PCs, LockedPCs, ApplyPCs, RollbackPCs, RevertPCs, Results
    <2>3. HistoryType'
      BY <1>4, <1>a, FaultType DEF TypeInv, TypeOK, HistoryType, LockRefused
    <2>4. JournalType'  BY <1>4 DEF TypeInv, TypeOK, JournalType, LockRefused
    <2>5. OnlyRunner(r)
      BY <1>4 DEF TypeInv, TypeOK, RunnerType, JournalType, OnlyRunner, LockRefused
    <2>6. RunnerFits(pc'[r], job'[r].profile, mem'[r], todo'[r])
      BY <1>4 DEF TypeInv, TypeOK, RunnerType, JournalType, MemoryFits, RunnerFits, Unloaded,
                  Journalled, Prof, Steps, LockRefused, PCs, LockedPCs, ApplyPCs, RollbackPCs, RevertPCs
    <2>7. StoredFits'  BY <1>4 DEF TypeInv, StoredFits, LockRefused
    <2>8. QED  BY <2>1, <2>2, <2>3, <2>4, <2>5, <2>6, <2>7, MemoryStep DEF TypeInv, TypeOK
  <1>5. CASE ReleaseLock(r)
    <2>1. HostType'  BY <1>5 DEF TypeInv, TypeOK, HostType, ReleaseLock
    <2>2. RunnerType'
      BY <1>5, NoJobType DEF TypeInv, TypeOK, RunnerType, ReleaseLock, Jobs, PCs, LockedPCs, ApplyPCs, RollbackPCs, RevertPCs, Results
    <2>3. HistoryType'
      BY <1>5, <1>a, RunsAssumption DEF TypeInv, TypeOK, HistoryType, ReleaseLock, RunsAssumption
    <2>4. JournalType'  BY <1>5 DEF TypeInv, TypeOK, JournalType, ReleaseLock
    <2>5. OnlyRunner(r)
      BY <1>5 DEF TypeInv, TypeOK, RunnerType, JournalType, OnlyRunner, ReleaseLock
    <2>6. RunnerFits(pc'[r], job'[r].profile, mem'[r], todo'[r])
      BY <1>5 DEF TypeInv, TypeOK, RunnerType, JournalType, MemoryFits, RunnerFits, Unloaded,
                  Journalled, Prof, Steps, ReleaseLock, PCs, LockedPCs, ApplyPCs, RollbackPCs, RevertPCs
    <2>7. StoredFits'  BY <1>5 DEF TypeInv, StoredFits, ReleaseLock
    <2>8. QED  BY <2>1, <2>2, <2>3, <2>4, <2>5, <2>6, <2>7, MemoryStep DEF TypeInv, TypeOK
  <1>6. CASE AdmitRefused(r)
    <2>1. HostType'  BY <1>6 DEF TypeInv, TypeOK, HostType, AdmitRefused
    <2>2. RunnerType'
      BY <1>6 DEF TypeInv, TypeOK, RunnerType, AdmitRefused, Jobs, PCs, LockedPCs, ApplyPCs, RollbackPCs, RevertPCs, Results
    <2>3. HistoryType'
      BY <1>6, RunsAssumption DEF TypeInv, TypeOK, HistoryType, AdmitRefused, RunsAssumption
    <2>4. JournalType'  BY <1>6 DEF TypeInv, TypeOK, JournalType, AdmitRefused
    <2>5. OnlyRunner(r)
      BY <1>6 DEF TypeInv, TypeOK, RunnerType, JournalType, OnlyRunner, AdmitRefused
    <2>6. RunnerFits(pc'[r], job'[r].profile, mem'[r], todo'[r])
      BY <1>6 DEF TypeInv, TypeOK, RunnerType, JournalType, MemoryFits, RunnerFits, Unloaded,
                  Journalled, Prof, Steps, AdmitRefused, PCs, LockedPCs, ApplyPCs, RollbackPCs, RevertPCs
    <2>7. StoredFits'  BY <1>6 DEF TypeInv, StoredFits, AdmitRefused
    <2>8. QED  BY <2>1, <2>2, <2>3, <2>4, <2>5, <2>6, <2>7, MemoryStep DEF TypeInv, TypeOK
  <1>7. CASE NextStep(r)
    <2>1. HostType'  BY <1>7 DEF TypeInv, TypeOK, HostType, NextStep
    <2>2. RunnerType'
      BY <1>7 DEF TypeInv, TypeOK, RunnerType, NextStep, Jobs, PCs, LockedPCs, ApplyPCs, RollbackPCs, RevertPCs, Results
    <2>3. HistoryType'
      BY <1>7, RunsAssumption DEF TypeInv, TypeOK, HistoryType, NextStep, RunsAssumption
    <2>4. JournalType'  BY <1>7 DEF TypeInv, TypeOK, JournalType, NextStep
    <2>5. OnlyRunner(r)
      BY <1>7 DEF TypeInv, TypeOK, RunnerType, JournalType, OnlyRunner, NextStep
    <2>6. RunnerFits(pc'[r], job'[r].profile, mem'[r], todo'[r])
      BY <1>7 DEF TypeInv, TypeOK, RunnerType, JournalType, MemoryFits, RunnerFits, Unloaded,
                  Journalled, Prof, Steps, NextStep, PCs, LockedPCs, ApplyPCs, RollbackPCs, RevertPCs
    <2>7. StoredFits'  BY <1>7 DEF TypeInv, StoredFits, NextStep
    <2>8. QED  BY <2>1, <2>2, <2>3, <2>4, <2>5, <2>6, <2>7, MemoryStep DEF TypeInv, TypeOK
  <1>8. CASE RevertDone(r)
    <2>1. HostType'  BY <1>8 DEF TypeInv, TypeOK, HostType, RevertDone
    <2>2. RunnerType'
      BY <1>8 DEF TypeInv, TypeOK, RunnerType, RevertDone, Jobs, PCs, LockedPCs, ApplyPCs, RollbackPCs, RevertPCs, Results
    <2>3. HistoryType'
      BY <1>8, RunsAssumption DEF TypeInv, TypeOK, HistoryType, RevertDone, RunsAssumption
    <2>4. JournalType'  BY <1>8 DEF TypeInv, TypeOK, JournalType, RevertDone
    <2>5. OnlyRunner(r)
      BY <1>8 DEF TypeInv, TypeOK, RunnerType, JournalType, OnlyRunner, RevertDone
    <2>6. RunnerFits(pc'[r], job'[r].profile, mem'[r], todo'[r])
      BY <1>8 DEF TypeInv, TypeOK, RunnerType, JournalType, MemoryFits, RunnerFits, Unloaded,
                  Journalled, Prof, Steps, RevertDone, PCs, LockedPCs, ApplyPCs, RollbackPCs, RevertPCs
    <2>7. StoredFits'  BY <1>8 DEF TypeInv, StoredFits, RevertDone
    <2>8. QED  BY <2>1, <2>2, <2>3, <2>4, <2>5, <2>6, <2>7, MemoryStep DEF TypeInv, TypeOK
  <1>9. CASE LoadRefused(r)
    <2>1. HostType'  BY <1>9 DEF TypeInv, TypeOK, HostType, LoadRefused
    <2>2. RunnerType'
      BY <1>9 DEF TypeInv, TypeOK, RunnerType, LoadRefused, Jobs, PCs, LockedPCs, ApplyPCs, RollbackPCs, RevertPCs, Results
    <2>3. HistoryType'
      BY <1>9, RunsAssumption DEF TypeInv, TypeOK, HistoryType, LoadRefused, RunsAssumption
    <2>4. JournalType'  BY <1>9 DEF TypeInv, TypeOK, JournalType, LoadRefused
    <2>5. OnlyRunner(r)
      BY <1>9 DEF TypeInv, TypeOK, RunnerType, JournalType, OnlyRunner, LoadRefused
    <2>6. RunnerFits(pc'[r], job'[r].profile, mem'[r], todo'[r])
      BY <1>9 DEF TypeInv, TypeOK, RunnerType, JournalType, MemoryFits, RunnerFits, Unloaded,
                  Journalled, Prof, Steps, LoadRefused, PCs, LockedPCs, ApplyPCs, RollbackPCs, RevertPCs
    <2>7. StoredFits'  BY <1>9 DEF TypeInv, StoredFits, LoadRefused
    <2>8. QED  BY <2>1, <2>2, <2>3, <2>4, <2>5, <2>6, <2>7, MemoryStep DEF TypeInv, TypeOK
  <1>10. CASE Preflight(r)
    <2>1. HostType'  BY <1>10 DEF TypeInv, TypeOK, HostType, Preflight
    <2>2. RunnerType'
      BY <1>10 DEF TypeInv, TypeOK, RunnerType, Preflight, Jobs, PCs, LockedPCs, ApplyPCs, RollbackPCs, RevertPCs, Results
    <2>3. HistoryType'
      BY <1>10, <1>a, RunsAssumption DEF TypeInv, TypeOK, HistoryType, Preflight, RunsAssumption
    <2>4. JournalType'  BY <1>10 DEF TypeInv, TypeOK, JournalType, Preflight
    <2>5. OnlyRunner(r)
      BY <1>10 DEF TypeInv, TypeOK, RunnerType, JournalType, OnlyRunner, Preflight
    <2>6. RunnerFits(pc'[r], job'[r].profile, mem'[r], todo'[r])
      BY <1>10 DEF TypeInv, TypeOK, RunnerType, JournalType, MemoryFits, RunnerFits, Unloaded,
                  Journalled, Prof, Steps, Preflight, PCs, LockedPCs, ApplyPCs, RollbackPCs, RevertPCs
    <2>7. StoredFits'  BY <1>10 DEF TypeInv, StoredFits, Preflight
    <2>8. QED  BY <2>1, <2>2, <2>3, <2>4, <2>5, <2>6, <2>7, MemoryStep DEF TypeInv, TypeOK
  <1>11. CASE PreflightRefused(r)
    <2>1. HostType'  BY <1>11 DEF TypeInv, TypeOK, HostType, PreflightRefused
    <2>2. RunnerType'
      BY <1>11 DEF TypeInv, TypeOK, RunnerType, PreflightRefused, Jobs, PCs, LockedPCs, ApplyPCs, RollbackPCs, RevertPCs, Results
    <2>3. HistoryType'
      BY <1>11, RunsAssumption DEF TypeInv, TypeOK, HistoryType, PreflightRefused, RunsAssumption
    <2>4. JournalType'  BY <1>11 DEF TypeInv, TypeOK, JournalType, PreflightRefused
    <2>5. OnlyRunner(r)
      BY <1>11 DEF TypeInv, TypeOK, RunnerType, JournalType, OnlyRunner, PreflightRefused
    <2>6. RunnerFits(pc'[r], job'[r].profile, mem'[r], todo'[r])
      BY <1>11 DEF TypeInv, TypeOK, RunnerType, JournalType, MemoryFits, RunnerFits, Unloaded,
                  Journalled, Prof, Steps, PreflightRefused, PCs, LockedPCs, ApplyPCs, RollbackPCs, RevertPCs
    <2>7. StoredFits'  BY <1>11 DEF TypeInv, StoredFits, PreflightRefused
    <2>8. QED  BY <2>1, <2>2, <2>3, <2>4, <2>5, <2>6, <2>7, MemoryStep DEF TypeInv, TypeOK
  <1>12. CASE Signal(r)
    <2>1. HostType'  BY <1>12 DEF TypeInv, TypeOK, HostType, Signal
    <2>2. RunnerType'
      BY <1>12 DEF TypeInv, TypeOK, RunnerType, Signal, Jobs, PCs, LockedPCs, ApplyPCs, RollbackPCs, RevertPCs, Results
    <2>3. HistoryType'
      BY <1>12, RunsAssumption DEF TypeInv, TypeOK, HistoryType, Signal, RunsAssumption
    <2>4. JournalType'  BY <1>12 DEF TypeInv, TypeOK, JournalType, Signal
    <2>5. OnlyRunner(r)
      BY <1>12 DEF TypeInv, TypeOK, RunnerType, JournalType, OnlyRunner, Signal
    <2>6. RunnerFits(pc'[r], job'[r].profile, mem'[r], todo'[r])
      BY <1>12 DEF TypeInv, TypeOK, RunnerType, JournalType, MemoryFits, RunnerFits, Unloaded,
                  Journalled, Prof, Steps, Signal, PCs, LockedPCs, ApplyPCs, RollbackPCs, RevertPCs
    <2>7. StoredFits'  BY <1>12 DEF TypeInv, StoredFits, Signal
    <2>8. QED  BY <2>1, <2>2, <2>3, <2>4, <2>5, <2>6, <2>7, MemoryStep DEF TypeInv, TypeOK
  <1>13. CASE Crash(r)
    <2>1. HostType'  BY <1>13 DEF TypeInv, TypeOK, HostType, Crash
    <2>2. RunnerType'
      BY <1>13, NoJobType DEF TypeInv, TypeOK, RunnerType, Crash, Jobs, PCs, LockedPCs, ApplyPCs, RollbackPCs, RevertPCs, Results
    <2>3. HistoryType'
      BY <1>13, <1>a, RunsAssumption DEF TypeInv, TypeOK, HistoryType, Crash, RunsAssumption
    <2>4. JournalType'  BY <1>13 DEF TypeInv, TypeOK, JournalType, Crash
    <2>5. OnlyRunner(r)
      BY <1>13 DEF TypeInv, TypeOK, RunnerType, JournalType, OnlyRunner, Crash
    <2>6. RunnerFits(pc'[r], job'[r].profile, mem'[r], todo'[r])
      BY <1>13 DEF TypeInv, TypeOK, RunnerType, JournalType, MemoryFits, RunnerFits, Unloaded,
                  Journalled, Prof, Steps, Crash, PCs, LockedPCs, ApplyPCs, RollbackPCs, RevertPCs
    <2>7. StoredFits'  BY <1>13 DEF TypeInv, StoredFits, Crash
    <2>8. QED  BY <2>1, <2>2, <2>3, <2>4, <2>5, <2>6, <2>7, MemoryStep DEF TypeInv, TypeOK
  <1>14. QED  BY <1>1, <1>2, <1>3, <1>4, <1>5, <1>6, <1>7, <1>8, <1>9, <1>10, <1>11, <1>12, <1>13 DEF Moves

-----------------------------------------------------------------------------
(* The types of a step of runner r, put together.                          *)
LEMMA StepTyped ==
    ASSUME TypeInv, NEW r \in Runners, OnlyRunner(r),
           HostType', RunnerType', HistoryType', StoredFits',
           mem' = [mem EXCEPT ![r] = mem'[r]],
           todo' = [todo EXCEPT ![r] = todo'[r]],
           todo'[r] \in SUBSET (Nat \X Nat),
           local' \in [Runners -> [Profiles -> Journals \cup {NoJournal}]],
           remote' \in [Profiles -> [RunIds -> Journals \cup {NoJournal}]],
           RunnerFits(pc'[r], job'[r].profile, mem'[r], todo'[r])
    PROVE  TypeInv'
  <1>1. MemoryFits'  BY MemoryStep DEF TypeInv
  <1>2. mem'[r] \in Journals \cup {NoJournal}  BY DEF RunnerFits, Fits
  <1>3. mem' \in [Runners -> Journals \cup {NoJournal}]
    BY <1>2 DEF TypeInv, TypeOK, JournalType
  <1>4. todo' \in [Runners -> SUBSET (Nat \X Nat)]  BY DEF TypeInv, TypeOK, JournalType
  <1>5. QED  BY <1>1, <1>3, <1>4 DEF TypeInv, TypeOK, JournalType

(* A run begins with an empty journal.                                     *)
LEMMA NewRunTyped ==
    ASSUME TypeInv, NEW r \in Runners, NewRun(r)
    PROVE  TypeInv'
  <1> DEFINE J(k) == [run |-> k, status |-> "in_progress", steps |-> <<>>]
  <1>1. PICK k \in RunIds :
          SavedOr(r, J(k),
              /\ Goto(r, "step")
              /\ mem' = [mem EXCEPT ![r] = J(k)]
              /\ born' = [born EXCEPT ![k] = Cardinality({x \in RunIds : born[x] # 0}) + 1]
              /\ origin' = [origin EXCEPT ![k] = host]
              /\ tainted' = (tainted \/ HalfReverted # {})
              /\ UNCHANGED result,
              End(r, "refused") /\ UNCHANGED <<mem, born, origin, tainted>>)
    BY DEF NewRun
  <1>2. /\ pc[r] = "admit" /\ mem[r] = NoJournal
        /\ \A it \in todo[r] : FALSE
    BY RunnerFacts DEF NewRun, RunnerFits, Unloaded
  <1>3. J(k) \in Journals /\ Fits(Prof(r), J(k)) /\ J(k) # NoJournal
    <2>1. <<>> \in Seq(Records) /\ Len(<<>>) = 0  OBVIOUS
    <2>2. J(k) \in Journals  BY <2>1 DEF Journals, Statuses
    <2>3. Len(StepsOf[Prof(r)]) \in Nat  BY RunnerFacts, RulesAssumption DEF RulesAssumption
    <2>4. QED  BY <2>1, <2>2, <2>3, NoJournalAssumption DEF Fits
  <1> DEFINE j == J(k)
  <1>4. j \in Journals /\ Fits(Prof(r), j) /\ j # NoJournal  BY <1>3
  <1> HIDE DEF j
  <1>5. /\ SaveLocal(r, j) \/ UNCHANGED local
        /\ UNCHANGED remote
        /\ mem' \in {mem, [mem EXCEPT ![r] = j]}
        /\ \/ mem' = [mem EXCEPT ![r] = j] /\ Goto(r, "step")
           \/ UNCHANGED mem /\ Goto(r, "release")
    BY <1>1 DEF j, SavedOr, End, NewRun, hostVars
  <1>6. UNCHANGED <<host, lock, job, todo>>  BY DEF NewRun, hostVars
  <1>7. /\ StoredFits'
        /\ local' \in [Runners -> [Profiles -> Journals \cup {NoJournal}]]
        /\ remote' \in [Profiles -> [RunIds -> Journals \cup {NoJournal}]]
    BY <1>4, <1>5, StoredLocally
  <1>8. HostType'  BY <1>6 DEF TypeInv, TypeOK, HostType
  <1>9. RunnerType'
    BY DEF TypeInv, TypeOK, RunnerType, NewRun, SavedOr, End, Goto,
           PCs, LockedPCs, ApplyPCs, RollbackPCs, RevertPCs, Results
  <1>10. HistoryType'
    <2>1. Cardinality({x \in RunIds : born[x] # 0}) \in Nat
      BY RunsAssumption, FS_Subset, FS_CardinalityType DEF RunsAssumption
    <2>2. faults' \in 0..MaxFaults  BY <1>1, FaultType DEF SavedOr
    <2>3. born' \in [RunIds -> Nat]  BY <1>1, <2>1 DEF TypeInv, TypeOK, HistoryType, SavedOr
    <2>4. /\ origin' \in [RunIds -> [Objects -> Value]]
          /\ tainted' \in BOOLEAN
      BY <1>1 DEF TypeInv, TypeOK, HistoryType, HostType, SavedOr
    <2>5. UNCHANGED <<writer, late>>  BY DEF NewRun
    <2>6. QED  BY <2>2, <2>3, <2>4, <2>5 DEF TypeInv, TypeOK, HistoryType
  <1>11. OnlyRunner(r)
    BY <1>5, <1>6 DEF TypeInv, TypeOK, RunnerType, JournalType, OnlyRunner, Goto
  <1>12. /\ mem' = [mem EXCEPT ![r] = mem'[r]]
         /\ todo' = [todo EXCEPT ![r] = todo'[r]]
         /\ todo'[r] \in SUBSET (Nat \X Nat)
    BY <1>5, <1>6 DEF TypeInv, TypeOK, JournalType
  <1>13. RunnerFits(pc'[r], job'[r].profile, mem'[r], todo'[r])
    <2>1. job'[r].profile = Prof(r) /\ todo'[r] = todo[r]  BY <1>6 DEF Prof
    <2>2. CASE mem' = [mem EXCEPT ![r] = j] /\ Goto(r, "step")
      <3>1. mem'[r] = j /\ pc'[r] = "step"
        BY <2>2 DEF TypeInv, TypeOK, RunnerType, JournalType, Goto
      <3>2. QED  BY <1>2, <1>4, <2>1, <3>1 DEF RunnerFits, Unloaded
    <2>3. CASE UNCHANGED mem /\ Goto(r, "release")
      <3>1. mem'[r] = NoJournal /\ pc'[r] = "release"
        BY <1>2, <2>3 DEF TypeInv, TypeOK, RunnerType, Goto
      <3>2. QED  BY <1>2, <2>1, <3>1 DEF RunnerFits, Unloaded, Journalled
    <2>4. QED  BY <1>5, <2>2, <2>3
  <1>14. QED
    BY <1>7, <1>8, <1>9, <1>10, <1>11, <1>12, <1>13, StepTyped

(* Actions that stamp the journal in memory, or leave it, and write it or  *)
(* nothing to the runner's disk.                                           *)
LEMMA StampTyped ==
    ASSUME TypeInv, NEW r \in Runners, Interrupt(r) \/ StampFailed(r)
    PROVE  TypeInv'
  <1> DEFINE s == IF pc[r] = "step" THEN "interrupted" ELSE "failed"
             j == WithStatus(mem[r], s)
  <1>1. /\ pc[r] \in {"step", "stamp"}
        /\ mem' = [mem EXCEPT ![r] = j]
        /\ SaveLocal(r, j) \/ UNCHANGED local
        /\ UNCHANGED <<host, lock, remote, job, todo, degraded, cancelled>>
        /\ pc' \in {[pc EXCEPT ![r] = x] : x \in {"stamp", "undo", "release"}}
        /\ result' \in {result, [result EXCEPT ![r] = "failed"]}
    BY DEF Interrupt, StampFailed, SavedOr, Goto, hostVars
  <1>2. pc[r] \in Journalled /\ s \in Statuses
    BY <1>1 DEF Journalled, Unloaded, PCs, LockedPCs, ApplyPCs, Statuses
  <1>3. /\ Fits(Prof(r), j) /\ j \in Journals /\ j # NoJournal
        /\ j.steps = mem[r].steps
    BY <1>2, RunnerFacts
  <1> HIDE DEF j
  <1>4. /\ StoredFits'
        /\ local' \in [Runners -> [Profiles -> Journals \cup {NoJournal}]]
        /\ remote' \in [Profiles -> [RunIds -> Journals \cup {NoJournal}]]
    BY <1>1, <1>3, StoredLocally
  <1>5. HostType'  BY <1>1 DEF TypeInv, TypeOK, HostType
  <1>6. RunnerType'
    BY <1>1 DEF TypeInv, TypeOK, RunnerType, PCs, LockedPCs, ApplyPCs, Results
  <1>7. HistoryType'
    BY FaultType DEF Interrupt, StampFailed, SavedOr, TypeInv, TypeOK, HistoryType, historyVars
  <1>8. OnlyRunner(r)
    BY <1>1 DEF TypeInv, TypeOK, RunnerType, JournalType, OnlyRunner
  <1>9. /\ mem' = [mem EXCEPT ![r] = mem'[r]]
        /\ todo' = [todo EXCEPT ![r] = todo'[r]]
        /\ todo'[r] \in SUBSET (Nat \X Nat)
    BY <1>1 DEF TypeInv, TypeOK, JournalType
  <1>10. RunnerFits(pc'[r], job'[r].profile, mem'[r], todo'[r])
    <2>1. /\ mem'[r] = j /\ todo'[r] = todo[r] /\ job'[r].profile = Prof(r)
          /\ pc'[r] \in {"stamp", "undo", "release"}
      BY <1>1 DEF TypeInv, TypeOK, RunnerType, JournalType, Prof
    <2>2. QED  BY <1>3, <2>1, RunnerFacts DEF RunnerFits, Unloaded
  <1>11. QED  BY <1>4, <1>5, <1>6, <1>7, <1>8, <1>9, <1>10, StepTyped

(* The capture before a step appends its record to the journal.            *)
LEMMA CaptureBeforeTyped ==
    ASSUME TypeInv, NEW r \in Runners, CaptureBefore(r)
    PROVE  TypeInv'
  <1> DEFINE i == Len(mem[r].steps) + 1
             c == Snapshot(Prof(r), i)
             j == Recorded(mem[r], c)
  <1>1. /\ pc[r] = "exec"
        /\ Prof(r) \in Profiles
        /\ mem[r] \in Journals /\ mem[r] # NoJournal /\ Fits(Prof(r), mem[r])
        /\ Len(mem[r].steps) < Len(StepsOf[Prof(r)])
        /\ RunnerFits(pc[r], Prof(r), mem[r], todo[r])
    BY RunnerFacts
    DEF CaptureBefore, RunnerFits, Journalled, Unloaded, PCs, LockedPCs, ApplyPCs
  <1>2. Len(mem[r].steps) \in Nat /\ Len(StepsOf[Prof(r)]) \in Nat
    BY <1>1, RulesAssumption DEF Journals, RulesAssumption
  <1>3. c \in Capture(Prof(r), i)
    BY <1>1, <1>2, SnapshotType DEF TypeInv, TypeOK, HostType
  <1>4. /\ Fits(Prof(r), j) /\ j # NoJournal /\ j \in Journals
        /\ Len(j.steps) = Len(mem[r].steps) + 1
    <2> DEFINE p == Prof(r)
               k == mem[r]
    <2>1. Fits(p, j) /\ j # NoJournal /\ Len(j.steps) = Len(k.steps) + 1
      <3>1. /\ p \in Profiles /\ Fits(p, k) /\ Len(k.steps) < Len(StepsOf[p])
            /\ c \in Capture(p, Len(k.steps) + 1)
        BY <1>1, <1>3
      <3>2. j = Recorded(k, c)  OBVIOUS
      <3> HIDE DEF c, j, p, k
      <3>3. QED  BY <3>1, <3>2, AppendedFits
    <2> HIDE DEF c, j
    <2>2. QED  BY <2>1 DEF Fits
  <1>5. \/ /\ UNCHANGED <<mem, local>> /\ Goto(r, "undo") /\ Fault("command")
        \/ /\ mem' = [mem EXCEPT ![r] = j]
           /\ SavedOr(r, j, Goto(r, "run"), Goto(r, "undo"))
    BY DEF CaptureBefore
  <1> HIDE DEF j
  <1>6. UNCHANGED <<host, lock, remote, job, todo, degraded, cancelled, result,
                    born, origin, writer, late, tainted>>
    BY DEF CaptureBefore, hostVars, historyVars
  <1>7. /\ SaveLocal(r, j) \/ UNCHANGED local
        /\ mem' \in {mem, [mem EXCEPT ![r] = j]}
        /\ \/ Goto(r, "undo")
           \/ Goto(r, "run") /\ mem' = [mem EXCEPT ![r] = j]
    BY <1>5 DEF SavedOr
  <1>8. faults' \in 0..MaxFaults  BY <1>5, FaultType DEF SavedOr
  <1>9. /\ StoredFits'
        /\ local' \in [Runners -> [Profiles -> Journals \cup {NoJournal}]]
        /\ remote' \in [Profiles -> [RunIds -> Journals \cup {NoJournal}]]
    BY <1>4, <1>6, <1>7, StoredLocally
  <1>10. HostType' /\ HistoryType'
    BY <1>6, <1>8 DEF TypeInv, TypeOK, HostType, HistoryType
  <1>11. RunnerType'
    BY <1>6, <1>7 DEF TypeInv, TypeOK, RunnerType, Goto, PCs, LockedPCs, ApplyPCs
  <1>12. OnlyRunner(r)
    BY <1>6, <1>7 DEF TypeInv, TypeOK, RunnerType, JournalType, OnlyRunner, Goto
  <1>13. /\ mem' = [mem EXCEPT ![r] = mem'[r]]
         /\ todo' = [todo EXCEPT ![r] = todo'[r]]
         /\ todo'[r] \in SUBSET (Nat \X Nat)
    BY <1>6, <1>7 DEF TypeInv, TypeOK, JournalType
  <1>14. RunnerFits(pc'[r], job'[r].profile, mem'[r], todo'[r])
    <2>1. /\ todo'[r] = todo[r] /\ job'[r].profile = Prof(r)
          /\ \/ pc'[r] = "undo" /\ mem'[r] \in {mem[r], j}
             \/ pc'[r] = "run" /\ mem'[r] = j
      BY <1>6, <1>7 DEF TypeInv, TypeOK, RunnerType, JournalType, Prof, Goto
    <2>2. QED  BY <1>1, <1>2, <1>4, <2>1 DEF RunnerFits, Unloaded
  <1>15. QED  BY <1>9, <1>10, <1>11, <1>12, <1>13, <1>14, StepTyped

(* The step runs: the objects it manages get values.                       *)
LEMMA RunStepTyped ==
    ASSUME TypeInv, NEW r \in Runners, RunStep(r)
    PROVE  TypeInv'
  <1> DEFINE i == Len(mem[r].steps)
  <1>1. /\ pc[r] = "run"
        /\ Prof(r) \in Profiles
        /\ mem[r] \in Journals /\ mem[r] # NoJournal /\ Fits(Prof(r), mem[r])
        /\ Len(mem[r].steps) > 0
        /\ RunnerFits(pc[r], Prof(r), mem[r], todo[r])
    BY RunnerFacts DEF RunStep, RunnerFits, Journalled, Unloaded, PCs, LockedPCs, ApplyPCs
  <1>2. i \in 1..Len(StepsOf[Prof(r)])
    BY <1>1, RulesAssumption DEF Fits, Journals, RulesAssumption
  <1>3. /\ \E n, halfway : host' = AfterPlugin(Prof(r), i, n, halfway)
        /\ Fault("command") \/ NoFault
        /\ Goto(r, "capture") \/ Goto(r, "undo")
        /\ WrittenBy(mem[r].run)
        /\ UNCHANGED <<lock, remote, job, mem, todo, degraded, cancelled, result, local,
                       born, origin, late, tainted>>
    BY DEF RunStep
  <1>4. HostType'
    BY <1>1, <1>2, <1>3, AfterPluginType DEF TypeInv, TypeOK, HostType
  <1>5. HistoryType'
    <2>1. faults' \in 0..MaxFaults  BY <1>3, FaultType
    <2>2. mem[r].run \in RunIds  BY <1>1 DEF Journals
    <2>3. writer' \in [Objects -> RunIds \cup {Nobody, Outside}]
      BY <1>3, <2>2 DEF WrittenBy, TypeInv, TypeOK, HistoryType
    <2>4. QED  BY <1>3, <2>1, <2>3 DEF TypeInv, TypeOK, HistoryType
  <1>6. RunnerType'
    BY <1>3 DEF TypeInv, TypeOK, RunnerType, Goto, PCs, LockedPCs, ApplyPCs
  <1>7. OnlyRunner(r)
    BY <1>3 DEF TypeInv, TypeOK, RunnerType, JournalType, OnlyRunner, Goto
  <1>8. JournalType' /\ StoredFits'
    BY <1>3 DEF TypeInv, TypeOK, JournalType, StoredFits
  <1>9. RunnerFits(pc'[r], job'[r].profile, mem'[r], todo'[r])
    BY <1>1, <1>3
    DEF TypeInv, TypeOK, RunnerType, RunnerFits, Prof, Goto, Unloaded
  <1>10. QED  BY <1>4, <1>5, <1>6, <1>7, <1>8, <1>9, MemoryStep DEF TypeInv, TypeOK

(* The capture after a step completes the last record of the journal.      *)
LEMMA CaptureAfterTyped ==
    ASSUME TypeInv, NEW r \in Runners, CaptureAfter(r)
    PROVE  TypeInv'
  <1> DEFINE i == Len(mem[r].steps)
             c == Snapshot(Prof(r), i)
             j == Completed(mem[r], c)
  <1>1. /\ pc[r] = "capture"
        /\ Prof(r) \in Profiles
        /\ mem[r] \in Journals /\ mem[r] # NoJournal /\ Fits(Prof(r), mem[r])
        /\ Len(mem[r].steps) > 0
        /\ RunnerFits(pc[r], Prof(r), mem[r], todo[r])
    BY RunnerFacts DEF CaptureAfter, RunnerFits, Journalled, Unloaded, PCs, LockedPCs, ApplyPCs
  <1>2. i \in 1..Len(StepsOf[Prof(r)])
    BY <1>1, RulesAssumption DEF Fits, Journals, RulesAssumption
  <1>3. c \in Capture(Prof(r), i)
    BY <1>1, <1>2, SnapshotType DEF TypeInv, TypeOK, HostType
  <1>4. /\ Fits(Prof(r), j) /\ j # NoJournal /\ j \in Journals
        /\ Len(j.steps) = Len(mem[r].steps)
    <2> HIDE DEF c
    <2>1. Fits(Prof(r), j) /\ j # NoJournal /\ Len(j.steps) = Len(mem[r].steps)
      BY <1>1, <1>3, CompletedFits
    <2> HIDE DEF j
    <2>2. QED  BY <2>1 DEF Fits
  <1>5. \/ /\ UNCHANGED <<mem, local, writer>> /\ Goto(r, "undo") /\ Fault("command")
        \/ /\ mem' = [mem EXCEPT ![r] = j]
           /\ writer' = [o \in Objects |->
                           IF o \in ObjectsOf(Prof(r), i) /\ writer[o] = Outside
                           THEN mem[r].run ELSE writer[o]]
           /\ SavedOr(r, j, Goto(r, "step"), Goto(r, "undo"))
    BY DEF CaptureAfter
  <1> HIDE DEF j
  <1>6. UNCHANGED <<host, lock, remote, job, todo, degraded, cancelled, result,
                    born, origin, late, tainted>>
    BY DEF CaptureAfter, hostVars
  <1>7. /\ SaveLocal(r, j) \/ UNCHANGED local
        /\ mem' \in {mem, [mem EXCEPT ![r] = j]}
        /\ Goto(r, "undo") \/ Goto(r, "step")
    BY <1>5 DEF SavedOr
  <1>8. faults' \in 0..MaxFaults  BY <1>5, FaultType DEF SavedOr
  <1>9. mem[r].run \in RunIds  BY <1>1 DEF Journals
  <1>10. writer' \in [Objects -> RunIds \cup {Nobody, Outside}]
    BY <1>5, <1>9 DEF TypeInv, TypeOK, HistoryType
  <1>11. /\ StoredFits'
         /\ local' \in [Runners -> [Profiles -> Journals \cup {NoJournal}]]
         /\ remote' \in [Profiles -> [RunIds -> Journals \cup {NoJournal}]]
    BY <1>4, <1>6, <1>7, StoredLocally
  <1>12. HostType' /\ HistoryType'
    BY <1>6, <1>8, <1>10 DEF TypeInv, TypeOK, HostType, HistoryType
  <1>13. RunnerType'
    BY <1>6, <1>7 DEF TypeInv, TypeOK, RunnerType, Goto, PCs, LockedPCs, ApplyPCs
  <1>14. OnlyRunner(r)
    BY <1>6, <1>7 DEF TypeInv, TypeOK, RunnerType, JournalType, OnlyRunner, Goto
  <1>15. /\ mem' = [mem EXCEPT ![r] = mem'[r]]
         /\ todo' = [todo EXCEPT ![r] = todo'[r]]
         /\ todo'[r] \in SUBSET (Nat \X Nat)
    BY <1>6, <1>7 DEF TypeInv, TypeOK, JournalType
  <1>16. RunnerFits(pc'[r], job'[r].profile, mem'[r], todo'[r])
    <2>1. /\ todo'[r] = todo[r] /\ job'[r].profile = Prof(r)
          /\ pc'[r] \in {"undo", "step"} /\ mem'[r] \in {mem[r], j}
      BY <1>6, <1>7 DEF TypeInv, TypeOK, RunnerType, JournalType, Prof, Goto
    <2>2. QED  BY <1>1, <1>4, <2>1 DEF RunnerFits, Unloaded
  <1>17. QED  BY <1>11, <1>12, <1>13, <1>14, <1>15, <1>16, StepTyped

(* The preflight of an automatic rollback gives the runner its work.       *)
LEMMA UndoPreflightTyped ==
    ASSUME TypeInv, NEW r \in Runners, UndoPreflight(r)
    PROVE  TypeInv'
  <1> DEFINE items == RevertItems(Prof(r), mem[r].steps)
  <1>1. /\ pc[r] = "undo"
        /\ Prof(r) \in Profiles
        /\ mem[r] # NoJournal /\ Fits(Prof(r), mem[r])
        /\ RunnerFits(pc[r], Prof(r), mem[r], todo[r])
    BY RunnerFacts
    DEF UndoPreflight, RunnerFits, Journalled, Unloaded, PCs, LockedPCs, ApplyPCs
  <1>2. \A it \in items : /\ it \in Nat \X Nat
                          /\ it[1] \in 1..Len(mem[r].steps)
                          /\ it[2] \in DOMAIN StepsOf[Prof(r)][it[1]].objects
    BY <1>1, RevertItemsType
  <1>3. /\ \/ todo' = [todo EXCEPT ![r] = items] /\ Goto(r, "revert") /\ UNCHANGED result
           \/ UNCHANGED todo /\ Goto(r, "stamp") /\ result' = [result EXCEPT ![r] = "stuck"]
        /\ tainted' \in {tainted, TRUE}
        /\ UNCHANGED <<host, lock, remote, job, mem, degraded, cancelled, local, born,
                       origin, writer, late>>
    BY DEF UndoPreflight, hostVars
  <1>4. faults' \in 0..MaxFaults  BY FaultType DEF UndoPreflight
  <1> HIDE DEF items
  <1>5. HostType' /\ HistoryType'
    BY <1>3, <1>4 DEF TypeInv, TypeOK, HostType, HistoryType
  <1>6. RunnerType'
    BY <1>3 DEF TypeInv, TypeOK, RunnerType, Goto, PCs, LockedPCs, ApplyPCs, RevertPCs, Results
  <1>7. OnlyRunner(r)
    BY <1>3 DEF TypeInv, TypeOK, RunnerType, JournalType, OnlyRunner, Goto
  <1>8. /\ StoredFits'
        /\ local' \in [Runners -> [Profiles -> Journals \cup {NoJournal}]]
        /\ remote' \in [Profiles -> [RunIds -> Journals \cup {NoJournal}]]
    BY <1>3 DEF TypeInv, TypeOK, JournalType, StoredFits
  <1>9. /\ mem' = [mem EXCEPT ![r] = mem'[r]]
        /\ todo' = [todo EXCEPT ![r] = todo'[r]]
        /\ todo'[r] \in {todo[r], items}
        /\ todo'[r] \in SUBSET (Nat \X Nat)
    BY <1>2, <1>3 DEF TypeInv, TypeOK, JournalType
  <1>10. RunnerFits(pc'[r], job'[r].profile, mem'[r], todo'[r])
    <2>1. /\ mem'[r] = mem[r] /\ job'[r].profile = Prof(r) /\ pc'[r] \in {"revert", "stamp"}
      BY <1>3 DEF TypeInv, TypeOK, RunnerType, Prof, Goto
    <2>2. QED  BY <1>1, <1>2, <1>9, <2>1 DEF RunnerFits, Unloaded
  <1>11. QED  BY <1>5, <1>6, <1>7, <1>8, <1>9, <1>10, StepTyped

(* The journal of a run that applied every step goes to the host.          *)
LEMMA CommitTyped ==
    ASSUME TypeInv, NEW r \in Runners, Commit(r)
    PROVE  TypeInv'
  <1> DEFINE j == WithStatus(mem[r], "success")
  <1>1. pc[r] = "commit" /\ pc[r] \in Journalled /\ "success" \in Statuses
    BY DEF Commit, Journalled, Unloaded, PCs, LockedPCs, ApplyPCs, Statuses
  <1>2. /\ Prof(r) \in Profiles
        /\ Fits(Prof(r), j) /\ j \in Journals /\ j # NoJournal /\ j.run \in RunIds
        /\ j.steps = mem[r].steps
        /\ RunnerFits(pc[r], Prof(r), mem[r], todo[r])
    BY <1>1, RunnerFacts DEF Journals
  <1>3. /\ mem' = [mem EXCEPT ![r] = j]
        /\ remote' \in {remote, [remote EXCEPT ![Prof(r)][j.run] = j]}
        /\ Goto(r, "tidy") \/ Goto(r, "fallback")
        /\ tainted' \in {tainted, TRUE}
        /\ UNCHANGED <<host, lock, job, todo, degraded, cancelled, result, local,
                       born, origin, writer, late>>
    BY DEF Commit
  <1>4. faults' \in 0..MaxFaults  BY FaultType DEF Commit
  <1> HIDE DEF j
  <1>5. /\ StoredFits'
        /\ local' \in [Runners -> [Profiles -> Journals \cup {NoJournal}]]
        /\ remote' \in [Profiles -> [RunIds -> Journals \cup {NoJournal}]]
    BY <1>2, <1>3, StoredRemotely
  <1>6. HostType' /\ HistoryType'
    BY <1>3, <1>4 DEF TypeInv, TypeOK, HostType, HistoryType
  <1>7. RunnerType'
    BY <1>3 DEF TypeInv, TypeOK, RunnerType, Goto, PCs, LockedPCs, ApplyPCs
  <1>8. OnlyRunner(r)
    BY <1>3 DEF TypeInv, TypeOK, RunnerType, JournalType, OnlyRunner, Goto
  <1>9. /\ mem' = [mem EXCEPT ![r] = mem'[r]]
        /\ todo' = [todo EXCEPT ![r] = todo'[r]]
        /\ todo'[r] \in SUBSET (Nat \X Nat)
    BY <1>3 DEF TypeInv, TypeOK, JournalType
  <1>10. RunnerFits(pc'[r], job'[r].profile, mem'[r], todo'[r])
    <2>1. /\ mem'[r] = j /\ todo'[r] = todo[r] /\ job'[r].profile = Prof(r)
          /\ pc'[r] \in {"tidy", "fallback"}
      BY <1>3 DEF TypeInv, TypeOK, RunnerType, JournalType, Prof, Goto
    <2>2. QED  BY <1>2, <2>1 DEF RunnerFits, Unloaded
  <1>11. QED  BY <1>5, <1>6, <1>7, <1>8, <1>9, <1>10, StepTyped

(* The end of an apply keeps, writes or removes the runner-side journal.   *)
LEMMA TidyTyped ==
    ASSUME TypeInv, NEW r \in Runners, Tidy(r) \/ Fallback(r)
    PROVE  TypeInv'
  <1>1. /\ pc[r] \in {"tidy", "fallback"}
        /\ \E j \in {mem[r], NoJournal} : SaveLocal(r, j) \/ UNCHANGED local
        /\ Goto(r, "release")
        /\ result' \in {[result EXCEPT ![r] = x] : x \in {"success", "fallback", "lost"}}
        /\ UNCHANGED <<host, lock, remote, job, mem, todo, degraded, cancelled,
                       born, origin, writer, late, tainted>>
    BY DEF Tidy, Fallback, SavedOr, End, hostVars, historyVars
  <1>2. faults' \in 0..MaxFaults  BY FaultType DEF Tidy, Fallback, SavedOr
  <1>3. pc[r] \in Journalled
    BY <1>1 DEF Journalled, Unloaded, PCs, LockedPCs, ApplyPCs
  <1>4. /\ mem[r] \in Journals /\ Fits(Prof(r), mem[r])
        /\ RunnerFits(pc[r], Prof(r), mem[r], todo[r])
    BY <1>3, RunnerFacts
  <1>5. /\ StoredFits'
        /\ local' \in [Runners -> [Profiles -> Journals \cup {NoJournal}]]
        /\ remote' \in [Profiles -> [RunIds -> Journals \cup {NoJournal}]]
    <2>1. PICK j \in {mem[r], NoJournal} : SaveLocal(r, j) \/ UNCHANGED local  BY <1>1
    <2>2. j \in Journals \cup {NoJournal} /\ (j # NoJournal => Fits(Prof(r), j))
      BY <1>4, <2>1
    <2>3. QED  BY <1>1, <2>1, <2>2, StoredLocally
  <1>6. HostType' /\ HistoryType'
    BY <1>1, <1>2 DEF TypeInv, TypeOK, HostType, HistoryType
  <1>7. RunnerType'
    BY <1>1 DEF TypeInv, TypeOK, RunnerType, Goto, PCs, LockedPCs, Results
  <1>8. OnlyRunner(r)
    BY <1>1 DEF TypeInv, TypeOK, RunnerType, OnlyRunner, Goto
  <1>9. /\ mem' = [mem EXCEPT ![r] = mem'[r]]
        /\ todo' = [todo EXCEPT ![r] = todo'[r]]
        /\ todo'[r] \in SUBSET (Nat \X Nat)
    BY <1>1 DEF TypeInv, TypeOK, JournalType
  <1>10. RunnerFits(pc'[r], job'[r].profile, mem'[r], todo'[r])
    BY <1>1, <1>4
    DEF TypeInv, TypeOK, RunnerType, RunnerFits, Prof, Goto, Unloaded, Journalled
  <1>11. QED  BY <1>5, <1>6, <1>7, <1>8, <1>9, <1>10, StepTyped

(* The newest of the stored journals is one of them.                       *)
LEMMA NewestStored ==
    ASSUME NEW p \in Profiles, StoredRuns(p) # {}
    PROVE  /\ Newest(p) \in StoredRuns(p)
           /\ \A k \in StoredRuns(p) : k <= Newest(p)
  <1>1. IsFiniteSet(StoredRuns(p)) /\ StoredRuns(p) \subseteq Nat
    BY RunsAssumption, FS_Subset DEF RunsAssumption, StoredRuns
  <1>2. \E k \in StoredRuns(p) : \A other \in StoredRuns(p) : other <= k
    BY <1>1, FiniteSetHasMax
  <1>3. QED  BY <1>2 DEF Newest

(* One command of a restoration gives an object a value, or fails.         *)
LEMMA RestoreTyped ==
    ASSUME TypeInv, NEW r \in Runners, RevertObject(r) \/ SettleObject(r)
    PROVE  TypeInv'
  <1> DEFINE O(it) == Steps(r)[it[1]].objects[it[2]]
             B(it) == mem[r].steps[it[1]].before[O(it)]
  <1>1. /\ pc[r] \in {"revert", "settle"}
        /\ mem[r] # NoJournal /\ Fits(Prof(r), mem[r])
        /\ RunnerFits(pc[r], Prof(r), mem[r], todo[r])
    <2>1. pc[r] \in Journalled /\ pc[r] \in {"revert", "settle"}
      BY DEF RevertObject, SettleObject, Journalled, Unloaded, PCs, LockedPCs, RevertPCs
    <2>2. QED  BY <2>1, RunnerFacts DEF RunnerFits
  <1>2. PICK it \in todo[r] :
          /\ \/ host' = host
             \/ SetHost(O(it), HalfWritten(O(it), host[O(it)], B(it)))
             \/ SetHost(O(it), [host[O(it)] EXCEPT !.meta = B(it).meta])
          /\ todo' \in {todo, [todo EXCEPT ![r] = @ \ {it}]}
          /\ \/ writer' \in {writer, [writer EXCEPT ![O(it)] = Nobody]}
             \/ Overwritten(O(it))
          /\ \E x \in {"revert", "settle", "stamp", "release"} : Goto(r, x)
          /\ degraded' \in {degraded, [degraded EXCEPT ![r] = TRUE]}
          /\ \/ UNCHANGED result
             \/ \E x \in {"stuck", "unfinished"} : result' = [result EXCEPT ![r] = x]
          /\ tainted' \in {tainted, TRUE}
          /\ NoFault \/ Fault("command")
    BY DEF RevertObject, SettleObject, RestoreFailed, End
  <1>3. UNCHANGED <<lock, remote, job, mem, cancelled, local, born, origin, late>>
    BY DEF RevertObject, SettleObject
  <1>4. O(it) \in Objects /\ B(it) \in Value
    <2>1. Prof(r) \in Profiles  BY RunnerFacts
    <2>2. /\ StepsOf[Prof(r)][it[1]].objects[it[2]] \in Objects
          /\ mem[r].steps[it[1]].before[StepsOf[Prof(r)][it[1]].objects[it[2]]] \in Value
      BY <1>1, <2>1, ItemType
    <2>3. QED  BY <2>2 DEF Steps
  <1>5. faults' \in 0..MaxFaults  BY <1>2, FaultType
  <1>6. HostType'
    <2>1. host \in [Objects -> Value] /\ lock \in BOOLEAN  BY DEF TypeInv, TypeOK, HostType
    <2> HIDE DEF O, B
    <2>2. host[O(it)] \in Value  BY <1>4, <2>1
    <2>3. /\ HalfWritten(O(it), host[O(it)], B(it)) \in Value
          /\ [host[O(it)] EXCEPT !.meta = B(it).meta] \in Value
      BY <1>4, <2>2, WrittenType
    <2> DEFINE v == HalfWritten(O(it), host[O(it)], B(it))
               w == [host[O(it)] EXCEPT !.meta = B(it).meta]
    <2>4. v \in Value /\ w \in Value  BY <2>3
    <2>5. host' = host \/ SetHost(O(it), v) \/ SetHost(O(it), w)  BY <1>2
    <2> HIDE DEF v, w
    <2>6. host' \in [Objects -> Value]  BY <1>4, <2>1, <2>4, <2>5 DEF SetHost
    <2>7. QED  BY <1>3, <2>1, <2>6 DEF HostType
  <1> HIDE DEF O, B
  <1>7. HistoryType'
    BY <1>2, <1>3, <1>4, <1>5 DEF TypeInv, TypeOK, HistoryType, Overwritten
  <1>8. RunnerType'
    <2>1. pc' \in [Runners -> PCs]
      BY <1>2 DEF TypeInv, TypeOK, RunnerType, Goto, PCs, LockedPCs, ApplyPCs, RevertPCs
    <2>2. degraded' \in [Runners -> BOOLEAN]  BY <1>2 DEF TypeInv, TypeOK, RunnerType
    <2>3. result' \in [Runners -> Results]
      BY <1>2 DEF TypeInv, TypeOK, RunnerType, Results
    <2>4. QED  BY <1>3, <2>1, <2>2, <2>3 DEF TypeInv, TypeOK, RunnerType
  <1>9. OnlyRunner(r)
    BY <1>2, <1>3 DEF TypeInv, TypeOK, RunnerType, JournalType, OnlyRunner, Goto
  <1>10. /\ StoredFits'
         /\ local' \in [Runners -> [Profiles -> Journals \cup {NoJournal}]]
         /\ remote' \in [Profiles -> [RunIds -> Journals \cup {NoJournal}]]
    BY <1>3 DEF TypeInv, TypeOK, JournalType, StoredFits
  <1>11. /\ mem' = [mem EXCEPT ![r] = mem'[r]]
         /\ todo' = [todo EXCEPT ![r] = todo'[r]]
         /\ todo'[r] \subseteq todo[r]
         /\ todo'[r] \in SUBSET (Nat \X Nat)
    BY <1>2, <1>3 DEF TypeInv, TypeOK, JournalType
  <1>12. RunnerFits(pc'[r], job'[r].profile, mem'[r], todo'[r])
    <2>1. /\ mem'[r] = mem[r] /\ job'[r].profile = Prof(r)
          /\ pc'[r] \in {"revert", "settle", "stamp", "release"}
      BY <1>2, <1>3 DEF TypeInv, TypeOK, RunnerType, Prof, Goto
    <2>2. QED  BY <1>1, <1>11, <2>1 DEF RunnerFits, Unloaded
  <1>13. QED  BY <1>6, <1>7, <1>8, <1>9, <1>10, <1>11, <1>12, StepTyped

(* A rollback loads a stored journal of its profile.                       *)
LEMMA LoadJournalTyped ==
    ASSUME TypeInv, NEW r \in Runners, LoadJournal(r)
    PROVE  TypeInv'
  <1>1. Prof(r) \in Profiles  BY RunnerFacts
  <1>2. /\ pc[r] = "load" /\ mem[r] = NoJournal /\ \A it \in todo[r] : FALSE
    BY RunnerFacts DEF LoadJournal, RunnerFits, Unloaded
  <1>3. PICK j \in Loadable(r) : Accepted(j) /\ mem' = [mem EXCEPT ![r] = j]
    BY DEF LoadJournal
  <1>4. Fits(Prof(r), j) /\ j # NoJournal /\ j \in Journals
    <2>1. CASE Has(r, "local")
      <3>1. j = local[r][Prof(r)] /\ j # NoJournal  BY <1>3, <2>1 DEF Loadable
      <3>2. QED  BY <1>1, <3>1 DEF TypeInv, StoredFits, Fits
    <2>2. CASE ~Has(r, "local")
      <3>1. \E k \in StoredRuns(Prof(r)) : j = remote[Prof(r)][k]
        <4>1. StoredRuns(Prof(r)) # {} /\ j = remote[Prof(r)][Newest(Prof(r))]
          BY <1>3, <2>2 DEF Loadable
        <4>2. Newest(Prof(r)) \in StoredRuns(Prof(r))
          BY <1>1, <4>1, NewestStored
        <4>3. QED  BY <4>1, <4>2
      <3>2. QED  BY <1>1, <3>1 DEF StoredRuns, TypeInv, StoredFits, Fits
    <2>3. QED  BY <2>1, <2>2
  <1>5. UNCHANGED <<host, lock, remote, job, todo, degraded, cancelled, result, local,
                    born, origin, writer, late, tainted, faults>> /\ Goto(r, "preflight")
    BY DEF LoadJournal, NoFault, hostVars, historyVars
  <1>6. HostType' /\ HistoryType'
    BY <1>5 DEF TypeInv, TypeOK, HostType, HistoryType
  <1>7. RunnerType'
    BY <1>5 DEF TypeInv, TypeOK, RunnerType, Goto, PCs, LockedPCs, RollbackPCs
  <1>8. OnlyRunner(r)
    BY <1>3, <1>5 DEF TypeInv, TypeOK, RunnerType, JournalType, OnlyRunner, Goto
  <1>9. /\ StoredFits'
        /\ local' \in [Runners -> [Profiles -> Journals \cup {NoJournal}]]
        /\ remote' \in [Profiles -> [RunIds -> Journals \cup {NoJournal}]]
    BY <1>5 DEF TypeInv, TypeOK, JournalType, StoredFits
  <1>10. /\ mem' = [mem EXCEPT ![r] = mem'[r]]
         /\ todo' = [todo EXCEPT ![r] = todo'[r]]
         /\ todo'[r] \in SUBSET (Nat \X Nat)
    BY <1>3, <1>5 DEF TypeInv, TypeOK, JournalType
  <1>11. RunnerFits(pc'[r], job'[r].profile, mem'[r], todo'[r])
    <2>1. mem'[r] = j /\ job'[r].profile = Prof(r) /\ pc'[r] = "preflight" /\ todo'[r] = todo[r]
      BY <1>3, <1>5 DEF TypeInv, TypeOK, RunnerType, JournalType, Prof, Goto
    <2>2. QED  BY <1>2, <1>4, <2>1 DEF RunnerFits, Unloaded
  <1>12. QED  BY <1>6, <1>7, <1>8, <1>9, <1>10, <1>11, StepTyped

(* The journal a rollback loaded is claimed where it is stored.            *)
LEMMA ClaimTyped ==
    ASSUME TypeInv, NEW r \in Runners, Claim(r)
    PROVE  TypeInv'
  <1> DEFINE j == WithStatus(mem[r], "rolling_back")
             items == RevertItems(Prof(r), j.steps)
  <1>1. pc[r] = "claim" /\ pc[r] \in Journalled /\ "rolling_back" \in Statuses
    BY DEF Claim, Journalled, Unloaded, PCs, LockedPCs, RollbackPCs, Statuses
  <1>2. /\ Prof(r) \in Profiles
        /\ Fits(Prof(r), j) /\ j \in Journals /\ j # NoJournal /\ j.run \in RunIds
        /\ j.steps = mem[r].steps
        /\ mem[r] # NoJournal
        /\ RunnerFits(pc[r], Prof(r), mem[r], todo[r])
    BY <1>1, RunnerFacts DEF Journals, RunnerFits
  <1>3. \A it \in items : /\ it \in Nat \X Nat
                          /\ it[1] \in 1..Len(j.steps)
                          /\ it[2] \in DOMAIN StepsOf[Prof(r)][it[1]].objects
    BY <1>2, RevertItemsType
  <1>4. /\ \/ SaveLocal(r, j) /\ UNCHANGED remote
           \/ remote' \in {remote, [remote EXCEPT ![Prof(r)][j.run] = j]} /\ UNCHANGED local
        /\ \/ /\ mem' = [mem EXCEPT ![r] = j]
              /\ todo' = [todo EXCEPT ![r] = items]
              /\ Goto(r, "revert") /\ UNCHANGED result
           \/ UNCHANGED <<mem, todo>> /\ End(r, "refused")
        /\ UNCHANGED <<host, lock, job, degraded, cancelled, born, origin, writer,
                       late, tainted>>
    BY DEF Claim, historyVars
  <1>5. faults' \in 0..MaxFaults  BY FaultType DEF Claim
  <1> HIDE DEF items, j
  <1>6. /\ StoredFits'
        /\ local' \in [Runners -> [Profiles -> Journals \cup {NoJournal}]]
        /\ remote' \in [Profiles -> [RunIds -> Journals \cup {NoJournal}]]
    <2>1. CASE SaveLocal(r, j) /\ UNCHANGED remote  BY <1>2, <2>1, StoredLocally
    <2>2. CASE remote' \in {remote, [remote EXCEPT ![Prof(r)][j.run] = j]} /\ UNCHANGED local
      BY <1>2, <2>2, StoredRemotely
    <2>3. QED  BY <1>4, <2>1, <2>2
  <1>7. HostType' /\ HistoryType'
    BY <1>4, <1>5 DEF TypeInv, TypeOK, HostType, HistoryType
  <1>8. RunnerType'
    BY <1>4 DEF TypeInv, TypeOK, RunnerType, Goto, End, PCs, LockedPCs, RevertPCs, Results
  <1>9. OnlyRunner(r)
    BY <1>4 DEF TypeInv, TypeOK, RunnerType, JournalType, OnlyRunner, Goto, End
  <1>10. /\ mem' = [mem EXCEPT ![r] = mem'[r]]
         /\ todo' = [todo EXCEPT ![r] = todo'[r]]
         /\ todo'[r] \in SUBSET (Nat \X Nat)
    BY <1>3, <1>4 DEF TypeInv, TypeOK, JournalType
  <1>11. RunnerFits(pc'[r], job'[r].profile, mem'[r], todo'[r])
    <2>1. /\ job'[r].profile = Prof(r)
          /\ \/ mem'[r] = j /\ todo'[r] = items /\ pc'[r] = "revert"
             \/ mem'[r] = mem[r] /\ todo'[r] = todo[r] /\ pc'[r] = "release"
      BY <1>4 DEF TypeInv, TypeOK, RunnerType, JournalType, Prof, Goto, End
    <2>2. QED  BY <1>2, <1>3, <2>1 DEF RunnerFits, Unloaded, Journalled
  <1>12. QED  BY <1>6, <1>7, <1>8, <1>9, <1>10, <1>11, StepTyped

(* The journal of a finished rollback is deleted where it was stored.      *)
LEMMA ConsumeTyped ==
    ASSUME TypeInv, NEW r \in Runners, Consume(r)
    PROVE  TypeInv'
  <1>1. pc[r] = "consume" /\ pc[r] \in Journalled
    BY DEF Consume, Journalled, Unloaded, PCs, LockedPCs, RollbackPCs
  <1>2. /\ Prof(r) \in Profiles /\ mem[r].run \in RunIds
        /\ RunnerFits(pc[r], Prof(r), mem[r], todo[r])
    BY <1>1, RunnerFacts DEF Journals
  <1>3. /\ \/ SaveLocal(r, NoJournal) /\ UNCHANGED remote
           \/ /\ remote' \in {remote, [remote EXCEPT ![Prof(r)][mem[r].run] = NoJournal]}
              /\ UNCHANGED local
        /\ \E x \in {"partial", "reverted", "unconsumed"} : End(r, x)
        /\ UNCHANGED <<host, lock, job, mem, todo, degraded, cancelled, born, origin,
                       writer, late, tainted>>
    BY DEF Consume, historyVars
  <1>4. faults' \in 0..MaxFaults  BY FaultType DEF Consume
  <1>5. /\ StoredFits'
        /\ local' \in [Runners -> [Profiles -> Journals \cup {NoJournal}]]
        /\ remote' \in [Profiles -> [RunIds -> Journals \cup {NoJournal}]]
    <2>1. CASE SaveLocal(r, NoJournal) /\ UNCHANGED remote  BY <2>1, StoredLocally
    <2>2. CASE /\ remote' \in {remote, [remote EXCEPT ![Prof(r)][mem[r].run] = NoJournal]}
               /\ UNCHANGED local
      BY <1>2, <2>2, StoredRemotely
    <2>3. QED  BY <1>3, <2>1, <2>2
  <1>6. HostType' /\ HistoryType'
    BY <1>3, <1>4 DEF TypeInv, TypeOK, HostType, HistoryType
  <1>7. RunnerType'
    BY <1>3 DEF TypeInv, TypeOK, RunnerType, Goto, End, PCs, LockedPCs, Results
  <1>8. OnlyRunner(r)
    BY <1>3 DEF TypeInv, TypeOK, RunnerType, OnlyRunner, Goto, End
  <1>9. /\ mem' = [mem EXCEPT ![r] = mem'[r]]
        /\ todo' = [todo EXCEPT ![r] = todo'[r]]
        /\ todo'[r] \in SUBSET (Nat \X Nat)
    BY <1>3 DEF TypeInv, TypeOK, JournalType
  <1>10. RunnerFits(pc'[r], job'[r].profile, mem'[r], todo'[r])
    BY <1>1, <1>2, <1>3
    DEF TypeInv, TypeOK, RunnerType, RunnerFits, Prof, Goto, End, Unloaded, Journalled
  <1>11. QED  BY <1>5, <1>6, <1>7, <1>8, <1>9, <1>10, StepTyped

(* Others edit the host, and operators remove stale locks.                 *)
LEMMA EnvironmentTyped ==
    ASSUME TypeInv, (\E o \in Objects, v \in Edits : Edit(o, v)) \/ RemoveStaleLock
    PROVE  TypeInv'
  <1>1. RunnerType' /\ JournalType' /\ MemoryFits' /\ StoredFits'
    BY DEF TypeInv, TypeOK, RunnerType, JournalType, MemoryFits, StoredFits, Prof,
           Edit, RemoveStaleLock, runnerVars
  <1>2. CASE \E o \in Objects, v \in Edits : Edit(o, v)
    <2>1. PICK o \in Objects, v \in Edits : Edit(o, v)  BY <1>2
    <2>2. v \in Value  BY RunsAssumption DEF RunsAssumption
    <2>3. HostType'  BY <2>1, <2>2 DEF TypeInv, TypeOK, HostType, Edit, SetHost
    <2>4. faults' \in 0..MaxFaults  BY <2>1, FaultType DEF Edit
    <2>5. HistoryType'  BY <2>1, <2>4 DEF TypeInv, TypeOK, HistoryType, Edit
    <2>6. QED  BY <1>1, <2>3, <2>5 DEF TypeInv, TypeOK
  <1>3. CASE RemoveStaleLock
    <2>1. HostType' /\ HistoryType'
      BY <1>3 DEF TypeInv, TypeOK, HostType, HistoryType, RemoveStaleLock, historyVars
    <2>2. QED  BY <1>1, <2>1 DEF TypeInv, TypeOK
  <1>4. QED  BY <1>2, <1>3

LEMMA InitTyped == Init => TypeInv
  <1> SUFFICES ASSUME Init PROVE TypeInv  OBVIOUS
  <1>1. HostType  BY RunsAssumption DEF Init, HostType, RunsAssumption
  <1>2. RunnerType  BY NoJobType DEF Init, RunnerType, PCs, Results
  <1>3. JournalType  BY DEF Init, JournalType
  <1>4. HistoryType
    <2>1. faults \in 0..MaxFaults  BY RunsAssumption DEF Init, RunsAssumption
    <2>2. born \in [RunIds -> Nat] /\ origin \in [RunIds -> [Objects -> Value]]
      BY RunsAssumption DEF Init, RunsAssumption
    <2>3. /\ writer \in [Objects -> RunIds \cup {Nobody, Outside}]
          /\ late \in [Runners -> SUBSET Objects]
      BY DEF Init
    <2>4. tainted \in BOOLEAN  BY DEF Init
    <2>5. QED  BY <2>1, <2>2, <2>3, <2>4 DEF HistoryType
  <1>5. MemoryFits  BY DEF Init, MemoryFits, RunnerFits, Unloaded, Journalled
  <1>6. StoredFits  BY DEF Init, StoredFits
  <1>7. QED  BY <1>1, <1>2, <1>3, <1>4, <1>5, <1>6 DEF TypeInv, TypeOK

LEMMA NextTyped == TypeInv /\ [Next]_vars => TypeInv'
  <1> SUFFICES ASSUME TypeInv, [Next]_vars PROVE TypeInv'  OBVIOUS
  <1>1. ASSUME NEW r \in Runners,
               StartApply(r) \/ StartRollback(r) \/ Progress(r) \/ Signal(r) \/ Crash(r)
        PROVE  TypeInv'
    BY <1>1, MovesTyped, NewRunTyped, StampTyped, CaptureBeforeTyped, RunStepTyped,
       CaptureAfterTyped, UndoPreflightTyped, CommitTyped, TidyTyped, RestoreTyped,
       LoadJournalTyped, ClaimTyped, ConsumeTyped
    DEF Progress, ApplyStep, RevertStep, RollbackStep, Moves
  <1>2. CASE UNCHANGED vars
    BY <1>2 DEF TypeInv, TypeOK, HostType, RunnerType, JournalType, HistoryType, MemoryFits,
                StoredFits, Prof, vars, hostVars, runnerVars, historyVars
  <1>3. QED  BY <1>1, <1>2, EnvironmentTyped DEF Next

(* Every reachable state is well typed: every journal in memory, on a      *)
(* runner's disk or on the host records a prefix of the steps of its       *)
(* profile with captures of exactly their objects, and a rollback never    *)
(* looks for an object its journal does not have.                          *)
THEOREM TypeCorrect == Spec => [](TypeOK /\ MemoryFits /\ StoredFits)
  <1>1. Init => TypeInv  BY InitTyped
  <1>2. TypeInv /\ [Next]_vars => TypeInv'  BY NextTyped
  <1>3. TypeInv <=> TypeOK /\ MemoryFits /\ StoredFits  BY DEF TypeInv
  <1>4. QED  BY <1>1, <1>2, <1>3, PTL DEF Spec

-----------------------------------------------------------------------------
(* The mutation lock of the host keeps commands apart, through crashes,    *)
(* lost answers to mkdir and rmdir, and operators who remove stale locks.  *)
(* The directory is there while a command is under way.                    *)
LockIsHeld == \A r \in Runners : Holds(r) => lock

(* MutualExclusion, strengthened to be inductive.                          *)
LockInv == MutualExclusion /\ LockIsHeld

(* A step of runner r that leaves the lock alone: only r moves, and it     *)
(* holds the lock afterwards only if it held it before.                    *)
WithinLock(r) ==
    /\ lock' = lock
    /\ \A s \in Runners \ {r} : pc'[s] = pc[s]
    /\ Holds(r)' => Holds(r)

-----------------------------------------------------------------------------
LEMMA WithinLockKeeps ==
    ASSUME LockInv, NEW r \in Runners, WithinLock(r)
    PROVE  LockInv'
  <1>1. \A s \in Runners : Holds(s)' => Holds(s)  BY DEF WithinLock, Holds
  <1>2. QED  BY <1>1 DEF LockInv, MutualExclusion, LockIsHeld, WithinLock

LEMMA StartsWithinLock ==
    ASSUME pc \in [Runners -> PCs], NEW r \in Runners,
           StartApply(r) \/ StartRollback(r) \/ Signal(r) \/ Crash(r)
    PROVE  WithinLock(r)
  BY DEF StartApply, StartRollback, Signal, Crash, Exit, Goto, hostVars, WithinLock, Holds,
         LockedPCs, ApplyPCs, RollbackPCs, RevertPCs

LEMMA ApplyWithinLock ==
    ASSUME pc \in [Runners -> PCs], NEW r \in Runners, ApplyStep(r)
    PROVE  WithinLock(r)
  <1> USE DEF WithinLock, Holds, LockedPCs, ApplyPCs, RollbackPCs, RevertPCs, Goto, End,
              hostVars
  <1>1. ASSUME AdmitRefused(r) \/ NextStep(r) \/ Interrupt(r) \/ StampFailed(r)
        PROVE  WithinLock(r)
    BY <1>1 DEF AdmitRefused, NextStep, Interrupt, StampFailed
  <1>2. ASSUME NewRun(r) PROVE WithinLock(r)  BY <1>2 DEF NewRun, SavedOr
  <1>3. ASSUME CaptureBefore(r) PROVE WithinLock(r)
    BY <1>3 DEF CaptureBefore, SavedOr
  <1>4. ASSUME RunStep(r) PROVE WithinLock(r)  BY <1>4 DEF RunStep
  <1>5. ASSUME CaptureAfter(r) PROVE WithinLock(r)
    BY <1>5 DEF CaptureAfter, SavedOr
  <1>6. ASSUME UndoPreflight(r) \/ Commit(r) PROVE WithinLock(r)
    BY <1>6 DEF UndoPreflight, Commit
  <1>7. ASSUME Tidy(r) \/ Fallback(r) PROVE WithinLock(r)
    BY <1>7 DEF Tidy, Fallback, SavedOr
  <1>8. QED
    BY <1>1, <1>2, <1>3, <1>4, <1>5, <1>6, <1>7 DEF ApplyStep

LEMMA RevertWithinLock ==
    ASSUME pc \in [Runners -> PCs], NEW r \in Runners, RevertStep(r)
    PROVE  WithinLock(r)
  <1> USE DEF WithinLock, Holds, LockedPCs, ApplyPCs, RollbackPCs, RevertPCs, Goto, End,
              hostVars
  <1>1. ASSUME RevertObject(r) \/ SettleObject(r) PROVE WithinLock(r)
    <2>1. /\ lock' = lock /\ pc[r] \in RevertPCs
          /\ \E where \in PCs : pc' = [pc EXCEPT ![r] = where]
      BY <1>1 DEF RevertObject, SettleObject, RestoreFailed, PCs
    <2>2. QED  BY <2>1
  <1>2. ASSUME RevertDone(r) PROVE WithinLock(r)  BY <1>2 DEF RevertDone
  <1>3. QED  BY <1>1, <1>2 DEF RevertStep

LEMMA RollbackWithinLock ==
    ASSUME pc \in [Runners -> PCs], NEW r \in Runners, RollbackStep(r)
    PROVE  WithinLock(r)
  BY DEF RollbackStep, LoadJournal, LoadRefused, Preflight, PreflightRefused, Claim, Consume,
         WithinLock, Holds, LockedPCs, ApplyPCs, RollbackPCs, RevertPCs, Goto, End, hostVars

-----------------------------------------------------------------------------
(* The lock is taken when no command holds it, and given up, lost or       *)
(* removed only when none is left.                                         *)
LEMMA LockTaken ==
    ASSUME pc \in [Runners -> PCs], LockInv, NEW r \in Runners,
           TakeLock(r) \/ LockRefused(r) \/ ReleaseLock(r)
    PROVE  LockInv'
  <1>1. \A s \in Runners \ {r} : pc'[s] = pc[s]
    BY DEF TakeLock, LockRefused, ReleaseLock, Exit, Goto
  <1>2. CASE TakeLock(r)
    <2>1. \A s \in Runners : ~Holds(s)  BY <1>2 DEF TakeLock, LockInv, LockIsHeld
    <2>2. \A s \in Runners \ {r} : ~Holds(s)'  BY <1>1, <2>1 DEF Holds
    <2>3. lock'  BY <1>2 DEF TakeLock
    <2>4. QED  BY <2>2, <2>3 DEF LockInv, LockIsHeld, MutualExclusion
  <1>3. CASE LockRefused(r) \/ ReleaseLock(r)
    <2>1. pc'[r] = "idle"  BY <1>3 DEF LockRefused, ReleaseLock, Exit, Goto
    <2>2. ~Holds(r)'
      BY <2>1 DEF Holds, LockedPCs, ApplyPCs, RollbackPCs, RevertPCs
    <2>3. \A s \in Runners : Holds(s)' => s # r /\ Holds(s)  BY <1>1, <2>2 DEF Holds
    <2>4. \A s \in Runners : Holds(s)' => lock'
      <3>1. CASE LockRefused(r)
        <4>1. lock => lock'  BY <3>1 DEF LockRefused
        <4>2. QED  BY <2>3, <4>1 DEF LockInv, LockIsHeld
      <3>2. CASE ReleaseLock(r)
        <4>1. Holds(r)
          BY <3>2 DEF ReleaseLock, Holds, LockedPCs
        <4>2. QED  BY <2>3, <4>1 DEF LockInv, MutualExclusion
      <3>3. QED  BY <1>3, <3>1, <3>2
    <2>5. QED  BY <2>3, <2>4 DEF LockInv, LockIsHeld, MutualExclusion
  <1>4. QED  BY <1>2, <1>3

LEMMA LockKept == TypeInv /\ LockInv /\ [Next]_vars => LockInv'
  <1> SUFFICES ASSUME TypeInv, LockInv, [Next]_vars PROVE LockInv'  OBVIOUS
  <1>1. pc \in [Runners -> PCs]  BY DEF TypeInv, TypeOK, RunnerType
  <1>2. ASSUME NEW r \in Runners,
               StartApply(r) \/ StartRollback(r) \/ Progress(r) \/ Signal(r) \/ Crash(r)
        PROVE  LockInv'
    BY <1>1, <1>2, WithinLockKeeps, StartsWithinLock, ApplyWithinLock, RevertWithinLock,
       RollbackWithinLock, LockTaken DEF Progress
  <1>3. CASE RemoveStaleLock
    <2>1. \A s \in Runners : ~Holds(s)'
      BY <1>3 DEF RemoveStaleLock, Holds, runnerVars
    <2>2. QED  BY <2>1 DEF LockInv, MutualExclusion, LockIsHeld
  <1>4. ASSUME NEW o \in Objects, NEW v \in Edits, Edit(o, v) PROVE LockInv'
    BY <1>4 DEF Edit, runnerVars, Holds, LockInv, MutualExclusion, LockIsHeld
  <1>5. CASE UNCHANGED vars
    BY <1>5 DEF vars, hostVars, runnerVars, Holds, LockInv, MutualExclusion, LockIsHeld
  <1>6. QED  BY <1>2, <1>3, <1>4, <1>5 DEF Next

(* At most one apply or rollback is under way on a host, however many      *)
(* runners there are, and whatever fails, is killed or cleaned up.         *)
THEOREM OneCommandAtATime == Spec => []MutualExclusion
  <1>1. Init => LockInv
    BY DEF Init, LockInv, MutualExclusion, LockIsHeld, Holds, LockedPCs, ApplyPCs,
           RollbackPCs, RevertPCs
  <1>2. LockInv => MutualExclusion  BY DEF LockInv
  <1>3. Spec => []TypeInv  BY InitTyped, NextTyped, PTL DEF Spec
  <1>4. QED  BY <1>1, <1>2, <1>3, LockKept, PTL DEF Spec

-----------------------------------------------------------------------------
(* What is stored of a run: the journals on the host are those of complete *)
(* runs, a rollback claims the journal it works from and keeps it claimed, *)
(* it overwrites no edit unless it is forced, and the protocol implements  *)
(* the stacks of journals of JournalStack.                                 *)

AllCaptured(j) == \A i \in 1..Len(j.steps) : j.steps[i].after # Uncaptured

(* The journal of a run that applied every step of p.                      *)
Complete(p, j) == Accepted(j) /\ Len(j.steps) = Len(StepsOf[p]) /\ AllCaptured(j)

StoredInv ==
    \A p \in Profiles, k \in RunIds :
        remote[p][k] # NoJournal =>
            Complete(p, remote[p][k]) /\ remote[p][k].run = k /\ born[k] # 0

(* The command of a runner and the place it is at agree.                   *)
CommandFits(where, kind) ==
    /\ where \in LockedPCs \cup {"lock"} => kind \in {"apply", "rollback"}
    /\ where \in ApplyPCs => kind = "apply"
    /\ where \in RollbackPCs => kind = "rollback"

(* What an apply at `where` has captured.                                  *)
CapturedBy(where, p, j) ==
    /\ where \in {"step", "exec", "commit"} => AllCaptured(j)
    /\ where \in {"run", "capture"} =>
         \A i \in 1..(Len(j.steps) - 1) : j.steps[i].after # Uncaptured
    /\ where = "commit" => Len(j.steps) = Len(StepsOf[p])

(* A run that applies has begun, and is not on the host before it commits. *)
Uncommitted(where) == where \in (ApplyPCs \cup RevertPCs) \ {"admit", "tidy", "fallback"}

UnderWay(r) ==
    job[r].kind = "apply" /\ mem[r] # NoJournal =>
        /\ born[mem[r].run] # 0
        /\ Uncommitted(pc[r]) => remote[Prof(r)][mem[r].run] = NoJournal

(* A rollback from the host works from the newest journal there.           *)
FromHost(r) ==
    /\ job[r].kind = "rollback"
    /\ ~Has(r, "local")
    /\ pc[r] \in {"preflight", "claim", "consume"} \cup RevertPCs

Loaded(r) ==
    FromHost(r) =>
        /\ Complete(Prof(r), mem[r])
        /\ mem[r].run \in StoredRuns(Prof(r))
        /\ \A other \in StoredRuns(Prof(r)) : other <= mem[r].run

Claimed(r) ==
    job[r].kind = "rollback" /\ pc[r] \in RevertPCs \cup {"consume"} =>
        /\ mem[r].status = "rolling_back"
        /\ mem[r] = IF Has(r, "local") THEN local[r][Prof(r)]
                    ELSE remote[Prof(r)][mem[r].run]

RunnerInv(r) ==
    /\ CommandFits(pc[r], job[r].kind)
    /\ CapturedBy(pc[r], Prof(r), mem[r])
    /\ UnderWay(r)
    /\ Loaded(r)
    /\ Claimed(r)

(* ClaimedWhileReverting and StoredJournalsComplete, strengthened to be    *)
(* inductive.                                                              *)
JournalInv == StoredInv /\ \A r \in Runners : RunnerInv(r)

Invariants == TypeInv /\ LockInv /\ JournalInv

-----------------------------------------------------------------------------
(* A step of runner r leaves the other runners alone; it changes the       *)
(* journals on the host only under the lock, and no run is unborn.         *)
Alone(r) ==
    /\ \A s \in Runners \ {r} : /\ pc'[s] = pc[s] /\ job'[s] = job[s] /\ mem'[s] = mem[s]
                                /\ local'[s] = local[s]
    /\ remote' = remote \/ Holds(r)
    /\ \A k \in RunIds : born[k] # 0 => born'[k] # 0

(* A runner without the lock has nothing to do with the journals.          *)
LEMMA Waiting ==
    ASSUME Invariants, NEW s \in Runners, ~Holds(s)
    PROVE  mem[s] = NoJournal /\ pc[s] \in {"idle", "lock"}
  <1>1. pc[s] \in {"idle", "lock"}
    BY DEF Invariants, TypeInv, TypeOK, RunnerType, Holds, PCs
  <1>2. QED  BY <1>1, RunnerFacts DEF Invariants, RunnerFits, Unloaded

LEMMA OthersKept ==
    ASSUME Invariants, NEW r \in Runners, Alone(r), NEW s \in Runners, s # r
    PROVE  RunnerInv(s)'
  <1>1. RunnerInv(s)  BY DEF Invariants, JournalInv
  <1>2. pc'[s] = pc[s] /\ job'[s] = job[s] /\ mem'[s] = mem[s] /\ local'[s] = local[s]
    BY DEF Alone
  <1>3. mem[s] # NoJournal => mem[s].run \in RunIds
    BY DEF Invariants, TypeInv, TypeOK, JournalType, Journals
  <1>4. CASE remote' = remote
    <2>1. CommandFits(pc[s], job[s].kind)' /\ CapturedBy(pc[s], Prof(s), mem[s])'
      BY <1>1, <1>2 DEF RunnerInv, CommandFits, CapturedBy, AllCaptured, Prof
    <2>2. UnderWay(s)'
      BY <1>1, <1>2, <1>3, <1>4 DEF Alone, RunnerInv, UnderWay, Uncommitted, Prof
    <2>3. Loaded(s)' /\ Claimed(s)'
      BY <1>1, <1>2, <1>4 DEF RunnerInv, Loaded, FromHost, Claimed, Complete, AllCaptured,
                              StoredRuns, Has, Prof
    <2>4. QED  BY <2>1, <2>2, <2>3 DEF RunnerInv
  <1>5. CASE Holds(r)
    <2>1. ~Holds(s)  BY <1>5 DEF Invariants, LockInv, MutualExclusion
    <2>2. mem'[s] = NoJournal /\ pc'[s] \in {"idle", "lock"}  BY <1>2, <2>1, Waiting
    <2>3. CommandFits(pc'[s], job'[s].kind)  BY <1>1, <1>2 DEF RunnerInv
    <2>4. QED
      BY <2>2, <2>3
      DEF RunnerInv, CapturedBy, UnderWay, Loaded, FromHost, Claimed, Complete, RevertPCs
  <1>6. QED  BY <1>4, <1>5 DEF Alone

LEMMA JournalStep ==
    ASSUME Invariants, NEW r \in Runners, Alone(r), StoredInv', RunnerInv(r)'
    PROVE  JournalInv'
  BY OthersKept DEF JournalInv

(* Nothing stored on the host changes.                                     *)
LEMMA StoredKept ==
    ASSUME Invariants, remote' = remote, \A k \in RunIds : born[k] # 0 => born'[k] # 0
    PROVE  StoredInv'
  BY DEF Invariants, JournalInv, StoredInv, Complete, AllCaptured

LEMMA RunnerTypes ==
    ASSUME Invariants
    PROVE  /\ pc \in [Runners -> PCs] /\ job \in [Runners -> Jobs]
           /\ mem \in [Runners -> Journals \cup {NoJournal}]
           /\ local \in [Runners -> [Profiles -> Journals \cup {NoJournal}]]
           /\ remote \in [Profiles -> [RunIds -> Journals \cup {NoJournal}]]
           /\ born \in [RunIds -> Nat]
           /\ \A r \in Runners : Prof(r) \in Profiles
  BY RunnerFacts DEF Invariants, TypeInv, TypeOK, RunnerType, JournalType, HistoryType
-----------------------------------------------------------------------------
(* The process ends, and its memory is gone.                               *)
LEMMA ExitKept ==
    ASSUME Invariants, NEW r \in Runners, LockRefused(r) \/ ReleaseLock(r) \/ Crash(r)
    PROVE  JournalInv'
  <1>1. /\ UNCHANGED <<remote, local, born>>
        /\ Exit(r)
    BY DEF LockRefused, ReleaseLock, Crash, hostVars
  <1>2. Alone(r)  BY <1>1, RunnerTypes DEF Alone, Exit, Goto
  <1>3. pc'[r] = "idle" /\ mem'[r] = NoJournal  BY <1>1, RunnerTypes DEF Exit, Goto
  <1>4. RunnerInv(r)'
    BY <1>3 DEF RunnerInv, CommandFits, CapturedBy, UnderWay, Loaded, FromHost, Claimed,
                LockedPCs, ApplyPCs, RollbackPCs, RevertPCs
  <1>5. QED  BY <1>1, <1>2, <1>4, StoredKept, JournalStep

(* A command starts, and takes the lock.                                   *)
LEMMA StartKept ==
    ASSUME Invariants, NEW r \in Runners, StartApply(r) \/ StartRollback(r) \/ TakeLock(r)
    PROVE  JournalInv'
  <1>1. UNCHANGED <<remote, local, born, mem>>
    BY DEF StartApply, StartRollback, TakeLock, hostVars, historyVars
  <1>2. Alone(r)
    BY <1>1, RunnerTypes DEF Alone, StartApply, StartRollback, TakeLock, Goto
  <1>3. mem[r] = NoJournal /\ RunnerInv(r)
    BY RunnerFacts
    DEF Invariants, JournalInv, RunnerFits, Unloaded, StartApply, StartRollback, TakeLock
  <1>4. /\ pc'[r] \in {"lock", "admit", "load"}
        /\ job'[r].kind \in {"apply", "rollback"}
        /\ pc'[r] = "admit" => job'[r].kind = "apply"
        /\ pc'[r] = "load" => job'[r].kind = "rollback"
    <2>1. CASE StartApply(r) \/ StartRollback(r)
      BY <2>1, RunnerTypes DEF StartApply, StartRollback, Goto
    <2>2. CASE TakeLock(r)
      BY <2>2, <1>3, RunnerTypes DEF TakeLock, Goto, RunnerInv, CommandFits
    <2>3. QED  BY <2>1, <2>2
  <1>5. RunnerInv(r)'
    BY <1>1, <1>3, <1>4
    DEF RunnerInv, CommandFits, CapturedBy, UnderWay, Loaded, FromHost, Claimed,
        LockedPCs, ApplyPCs, RollbackPCs, RevertPCs
  <1>6. QED  BY <1>1, <1>2, <1>5, StoredKept, JournalStep

-----------------------------------------------------------------------------
(* Runner r goes from where it is to `where`, with the command and the     *)
(* journal it has.                                                         *)
Reverting == RevertPCs \cup {"consume"}
Working == Reverting \cup {"preflight", "claim"}

Moved(r, where) ==
    /\ UNCHANGED <<job, mem, remote, born>>
    /\ pc' = [pc EXCEPT ![r] = where]
    /\ local' = local \/ (job[r].kind = "apply" /\ \E j : SaveLocal(r, j))
    /\ CommandFits(where, job[r].kind)
    /\ CapturedBy(where, Prof(r), mem[r])
    /\ job[r].kind = "apply" => (Uncommitted(where) => Uncommitted(pc[r]))
    /\ job[r].kind = "rollback" => /\ where \in Reverting => pc[r] \in Reverting
                                   /\ where \in Working => pc[r] \in Working

LEMMA MoveKept ==
    ASSUME Invariants, NEW r \in Runners, NEW where, Moved(r, where)
    PROVE  JournalInv'
  <1>1. /\ pc'[r] = where /\ job'[r] = job[r] /\ mem'[r] = mem[r] /\ Prof(r)' = Prof(r)
        /\ remote' = remote /\ born' = born
        /\ job[r].kind = "rollback" => local' = local
    BY RunnerTypes DEF Moved, Prof
  <1>2. Alone(r)  BY RunnerTypes DEF Moved, Alone, SaveLocal
  <1>3. RunnerInv(r)  BY DEF Invariants, JournalInv
  <1>4. CommandFits(pc[r], job[r].kind)' /\ CapturedBy(pc[r], Prof(r), mem[r])'
    BY <1>1 DEF Moved, CommandFits, CapturedBy, AllCaptured
  <1>5. UnderWay(r)'
    BY <1>1, <1>3 DEF Moved, RunnerInv, UnderWay
  <1>6. Loaded(r)'
    BY <1>1, <1>3
    DEF Moved, RunnerInv, Loaded, FromHost, Has, Complete, AllCaptured, StoredRuns, Working,
        Reverting
  <1>7. Claimed(r)'
    BY <1>1, <1>3 DEF Moved, RunnerInv, Claimed, Has, Reverting
  <1>8. RunnerInv(r)'  BY <1>4, <1>5, <1>6, <1>7 DEF RunnerInv
  <1>9. QED  BY <1>1, <1>2, <1>8, StoredKept, JournalStep

LEMMA ApplyMovesKept ==
    ASSUME Invariants, NEW r \in Runners,
           \/ AdmitRefused(r) \/ NextStep(r) \/ RunStep(r) \/ UndoPreflight(r)
           \/ Tidy(r) \/ Fallback(r)
    PROVE  JournalInv'
  <1>1. CommandFits(pc[r], job[r].kind) /\ CapturedBy(pc[r], Prof(r), mem[r])
    BY DEF Invariants, JournalInv, RunnerInv
  <1>2. RunnerFits(pc[r], Prof(r), mem[r], todo[r])  BY RunnerFacts DEF Invariants
  <1> USE DEF Moved, CommandFits, CapturedBy, Uncommitted, LockedPCs, ApplyPCs, RollbackPCs,
              RevertPCs, Goto, End, hostVars, historyVars
  <1>3. CASE AdmitRefused(r)
    BY <1>1, <1>3, MoveKept DEF AdmitRefused
  <1>4. CASE NextStep(r)
    <2>1. /\ pc[r] = "step" /\ job[r].kind = "apply" /\ AllCaptured(mem[r])
          /\ mem[r] # NoJournal /\ Fits(Prof(r), mem[r])
      BY <1>1, <1>2, <1>4 DEF NextStep, RunnerFits, Journalled, Unloaded, PCs
    <2>2. Len(mem[r].steps) \in Nat /\ Len(StepsOf[Prof(r)]) \in Nat
      BY <2>1, RunnerTypes, RulesAssumption DEF Fits, Journals, RulesAssumption
    <2> DEFINE where == IF Len(mem[r].steps) < Len(Steps(r)) THEN "exec" ELSE "commit"
    <2>3. where = "commit" => Len(mem[r].steps) = Len(StepsOf[Prof(r)])
      BY <2>1, <2>2 DEF Fits, Steps
    <2>4. where \in {"exec", "commit"}  OBVIOUS
    <2>5. pc' = [pc EXCEPT ![r] = where] /\ UNCHANGED <<job, mem, remote, born, local>>
      BY <1>4 DEF NextStep
    <2> HIDE DEF where
    <2>6. Moved(r, where)  BY <2>1, <2>3, <2>4, <2>5
    <2>7. QED  BY <2>6, MoveKept
  <1>5. CASE RunStep(r)
    <2>1. pc[r] = "run" /\ job[r].kind = "apply"  BY <1>1, <1>5 DEF RunStep
    <2>2. Moved(r, "capture") \/ Moved(r, "undo")
      BY <1>1, <1>5, <2>1 DEF RunStep
    <2>3. QED  BY <2>2, MoveKept
  <1>6. CASE UndoPreflight(r)
    <2>1. pc[r] = "undo" /\ job[r].kind = "apply"  BY <1>1, <1>6 DEF UndoPreflight
    <2>2. Moved(r, "revert") \/ Moved(r, "stamp")  BY <1>6, <2>1 DEF UndoPreflight
    <2>3. QED  BY <2>2, MoveKept
  <1>7. CASE Tidy(r) \/ Fallback(r)
    <2>1. job[r].kind = "apply"  BY <1>1, <1>7 DEF Tidy, Fallback
    <2>2. Moved(r, "release")  BY <1>7, <2>1 DEF Tidy, Fallback, SavedOr
    <2>3. QED  BY <2>2, MoveKept
  <1>8. QED  BY <1>3, <1>4, <1>5, <1>6, <1>7

LEMMA RevertMovesKept ==
    ASSUME Invariants, NEW r \in Runners, RevertStep(r)
    PROVE  JournalInv'
  <1>1. CommandFits(pc[r], job[r].kind)  BY DEF Invariants, JournalInv, RunnerInv
  <1> USE DEF Moved, CommandFits, CapturedBy, Uncommitted, LockedPCs, ApplyPCs, RollbackPCs,
              RevertPCs, Working, Reverting, Goto, End, hostVars, historyVars
  <1>2. ASSUME RevertObject(r) \/ SettleObject(r) PROVE JournalInv'
    <2>1. /\ pc[r] \in RevertPCs
          /\ UNCHANGED <<job, mem, remote, born, local>>
      BY <1>2 DEF RevertObject, SettleObject
    <2>2. \/ \E where \in RevertPCs \cup {"release"} : pc' = [pc EXCEPT ![r] = where]
          \/ job[r].kind = "apply" /\ pc' = [pc EXCEPT ![r] = "stamp"]
      BY <1>2 DEF RevertObject, SettleObject, RestoreFailed
    <2>3. job[r].kind \in {"apply", "rollback"}  BY <1>1, <2>1
    <2>4. CASE job[r].kind = "apply" /\ pc' = [pc EXCEPT ![r] = "stamp"]
      <3>1. Moved(r, "stamp")  BY <2>1, <2>4
      <3>2. QED  BY <3>1, MoveKept
    <2>5. ASSUME NEW where \in RevertPCs \cup {"release"}, pc' = [pc EXCEPT ![r] = where]
          PROVE  JournalInv'
      <3>1. Moved(r, where)  BY <2>1, <2>3, <2>5
      <3>2. QED  BY <3>1, MoveKept
    <2>6. QED  BY <2>2, <2>4, <2>5
  <1>3. ASSUME RevertDone(r) PROVE JournalInv'
    <2>1. pc[r] = "revert" /\ job[r].kind \in {"apply", "rollback"}
      BY <1>1, <1>3 DEF RevertDone
    <2>2. Moved(r, "stamp") \/ Moved(r, "consume")  BY <1>3, <2>1 DEF RevertDone
    <2>3. QED  BY <2>2, MoveKept
  <1>4. QED  BY <1>2, <1>3 DEF RevertStep

LEMMA RollbackMovesKept ==
    ASSUME Invariants, NEW r \in Runners,
           LoadRefused(r) \/ Preflight(r) \/ PreflightRefused(r) \/ Signal(r)
    PROVE  JournalInv'
  <1>1. CommandFits(pc[r], job[r].kind) /\ CapturedBy(pc[r], Prof(r), mem[r])
    BY DEF Invariants, JournalInv, RunnerInv
  <1>2. CASE Signal(r)
    <2>1. pc' = [pc EXCEPT ![r] = pc[r]] /\ UNCHANGED <<job, mem, remote, born, local>>
      BY <1>2, RunnerTypes DEF Signal, hostVars, historyVars
    <2>2. Moved(r, pc[r])  BY <1>1, <2>1 DEF Moved
    <2>3. QED  BY <2>2, MoveKept
  <1> USE DEF Moved, CommandFits, CapturedBy, Uncommitted, LockedPCs, ApplyPCs, RollbackPCs,
              RevertPCs, Working, Reverting, Goto, End, hostVars, historyVars
  <1>3. CASE LoadRefused(r) \/ PreflightRefused(r)
    <2>1. job[r].kind = "rollback"  BY <1>1, <1>3 DEF LoadRefused, PreflightRefused
    <2>2. Moved(r, "release")  BY <1>3, <2>1 DEF LoadRefused, PreflightRefused
    <2>3. QED  BY <2>2, MoveKept
  <1>4. CASE Preflight(r)
    <2>1. job[r].kind = "rollback" /\ pc[r] = "preflight"  BY <1>1, <1>4 DEF Preflight
    <2>2. Moved(r, "claim")  BY <1>4, <2>1 DEF Preflight
    <2>3. QED  BY <2>2, MoveKept
  <1>5. QED  BY <1>2, <1>3, <1>4

-----------------------------------------------------------------------------
(* A run under way rewrites the journal it has in memory.                  *)
Rewritten(r, j, where) ==
    /\ UNCHANGED <<job, remote, born>>
    /\ mem' = [mem EXCEPT ![r] = j]
    /\ mem[r] # NoJournal /\ j.run = mem[r].run
    /\ local' = local \/ SaveLocal(r, j)
    /\ pc' = [pc EXCEPT ![r] = where]
    /\ job[r].kind = "apply" /\ Uncommitted(pc[r])
    /\ where \in ApplyPCs \cup {"release"}
    /\ CapturedBy(where, Prof(r), j)

LEMMA RewriteKept ==
    ASSUME Invariants, NEW r \in Runners, NEW j, NEW where, Rewritten(r, j, where)
    PROVE  JournalInv'
  <1>1. /\ pc'[r] = where /\ job'[r] = job[r] /\ mem'[r] = j /\ Prof(r)' = Prof(r)
        /\ remote' = remote /\ born' = born
    BY RunnerTypes DEF Rewritten, Prof
  <1>2. Alone(r)  BY RunnerTypes DEF Rewritten, Alone, SaveLocal
  <1>3. UnderWay(r)  BY DEF Invariants, JournalInv, RunnerInv
  <1>4. CommandFits(pc[r], job[r].kind)'
    BY <1>1
    DEF Rewritten, CommandFits, LockedPCs, ApplyPCs, RollbackPCs, RevertPCs
  <1>5. CapturedBy(pc[r], Prof(r), mem[r])'
    BY <1>1 DEF Rewritten, CapturedBy, AllCaptured
  <1>6. UnderWay(r)'
    BY <1>1, <1>3 DEF Rewritten, UnderWay
  <1>7. Loaded(r)' /\ Claimed(r)'  BY <1>1 DEF Rewritten, Loaded, FromHost, Claimed
  <1>8. RunnerInv(r)'  BY <1>4, <1>5, <1>6, <1>7 DEF RunnerInv
  <1>9. QED  BY <1>1, <1>2, <1>8, StoredKept, JournalStep

LEMMA StampKept ==
    ASSUME Invariants, NEW r \in Runners, Interrupt(r) \/ StampFailed(r)
    PROVE  JournalInv'
  <1>1. /\ pc[r] \in {"step", "stamp"} /\ pc[r] \in Journalled
        /\ CommandFits(pc[r], job[r].kind)
    BY DEF Interrupt, StampFailed, Invariants, JournalInv, RunnerInv, Journalled, Unloaded,
           PCs, LockedPCs, ApplyPCs
  <1>2. job[r].kind = "apply" /\ Uncommitted(pc[r])
    BY <1>1 DEF CommandFits, Uncommitted, ApplyPCs
  <1>3. mem[r] # NoJournal
    BY <1>1, RunnerFacts DEF Invariants, RunnerFits
  <1>4. \A s \in Statuses : WithStatus(mem[r], s).run = mem[r].run
    BY <1>1, RunnerFacts DEF Invariants
  <1>5. PICK s \in {"interrupted", "failed"} :
          /\ mem' = [mem EXCEPT ![r] = WithStatus(mem[r], s)]
          /\ local' = local \/ SaveLocal(r, WithStatus(mem[r], s))
          /\ \E where \in {"stamp", "undo", "release"} : pc' = [pc EXCEPT ![r] = where]
          /\ UNCHANGED <<job, remote, born>>
    BY DEF Interrupt, StampFailed, SavedOr, Goto, hostVars, historyVars
  <1>6. WithStatus(mem[r], s).run = mem[r].run  BY <1>4 DEF Statuses
  <1> DEFINE j == WithStatus(mem[r], s)
  <1> HIDE DEF j
  <1>7. PICK where \in {"stamp", "undo", "release"} : pc' = [pc EXCEPT ![r] = where]
    BY <1>5
  <1>8. Rewritten(r, j, where)
    BY <1>2, <1>3, <1>5, <1>6, <1>7 DEF j, Rewritten, CapturedBy, ApplyPCs
  <1>9. QED  BY <1>8, RewriteKept

LEMMA CaptureBeforeKept ==
    ASSUME Invariants, NEW r \in Runners, CaptureBefore(r)
    PROVE  JournalInv'
  <1> DEFINE c == Snapshot(Prof(r), Len(mem[r].steps) + 1)
             j == Recorded(mem[r], c)
  <1>1. /\ pc[r] = "exec"
        /\ CommandFits(pc[r], job[r].kind) /\ AllCaptured(mem[r])
        /\ Prof(r) \in Profiles
        /\ mem[r] \in Journals /\ mem[r] # NoJournal /\ Fits(Prof(r), mem[r])
        /\ Len(mem[r].steps) < Len(StepsOf[Prof(r)])
    BY RunnerFacts
    DEF CaptureBefore, Invariants, JournalInv, RunnerInv, CapturedBy, RunnerFits, Journalled,
        Unloaded, PCs, LockedPCs, ApplyPCs
  <1>2. job[r].kind = "apply" /\ Uncommitted(pc[r])
    BY <1>1 DEF CommandFits, Uncommitted, ApplyPCs
  <1>3. Len(mem[r].steps) \in Nat /\ Len(StepsOf[Prof(r)]) \in Nat
    BY <1>1, RunnerTypes, RulesAssumption DEF Journals, RulesAssumption
  <1>4. c \in Capture(Prof(r), Len(mem[r].steps) + 1)
    <2>1. Len(mem[r].steps) + 1 \in 1..Len(StepsOf[Prof(r)])  BY <1>1, <1>3
    <2>2. QED  BY <1>1, <2>1, SnapshotType DEF Invariants, TypeInv, TypeOK, HostType
  <1>5. /\ j.run = mem[r].run
        /\ \A i \in 1..(Len(j.steps) - 1) : j.steps[i].after # Uncaptured
    <2> HIDE DEF c
    <2>1. /\ j.run = mem[r].run
          /\ Len(j.steps) = Len(mem[r].steps) + 1
          /\ \A i \in 1..Len(mem[r].steps) : j.steps[i] = mem[r].steps[i]
      BY <1>1, <1>4, AppendedFits
    <2> HIDE DEF j
    <2>2. Len(j.steps) - 1 = Len(mem[r].steps)  BY <1>3, <2>1
    <2>3. QED  BY <1>1, <2>1, <2>2 DEF AllCaptured
  <1>6. UNCHANGED <<job, remote, born>>  BY DEF CaptureBefore, hostVars, historyVars
  <1>7. \/ /\ UNCHANGED <<mem, local>> /\ pc' = [pc EXCEPT ![r] = "undo"]
        \/ /\ mem' = [mem EXCEPT ![r] = j]
           /\ local' = local \/ SaveLocal(r, j)
           /\ \E where \in {"run", "undo"} : pc' = [pc EXCEPT ![r] = where]
    BY DEF CaptureBefore, SavedOr, Goto
  <1> HIDE DEF j
  <1>8. CASE UNCHANGED <<mem, local>> /\ pc' = [pc EXCEPT ![r] = "undo"]
    <2>1. Moved(r, "undo")
      BY <1>2, <1>6, <1>8
      DEF Moved, CommandFits, CapturedBy, LockedPCs, ApplyPCs, RollbackPCs
    <2>2. QED  BY <2>1, MoveKept
  <1>9. ASSUME NEW where \in {"run", "undo"}, pc' = [pc EXCEPT ![r] = where],
               mem' = [mem EXCEPT ![r] = j], local' = local \/ SaveLocal(r, j)
        PROVE  JournalInv'
    <2>1. Rewritten(r, j, where)
      BY <1>1, <1>2, <1>5, <1>6, <1>9 DEF Rewritten, CapturedBy, ApplyPCs
    <2>2. QED  BY <2>1, RewriteKept
  <1>10. QED  BY <1>7, <1>8, <1>9

LEMMA CaptureAfterKept ==
    ASSUME Invariants, NEW r \in Runners, CaptureAfter(r)
    PROVE  JournalInv'
  <1> DEFINE n == Len(mem[r].steps)
             c == Snapshot(Prof(r), n)
             j == Completed(mem[r], c)
  <1>1. /\ pc[r] = "capture"
        /\ CommandFits(pc[r], job[r].kind)
        /\ \A i \in 1..(n - 1) : mem[r].steps[i].after # Uncaptured
        /\ Prof(r) \in Profiles
        /\ mem[r] \in Journals /\ mem[r] # NoJournal /\ Fits(Prof(r), mem[r])
        /\ n > 0
    BY RunnerFacts
    DEF CaptureAfter, Invariants, JournalInv, RunnerInv, CapturedBy, RunnerFits, Journalled,
        Unloaded, PCs, LockedPCs, ApplyPCs
  <1>2. job[r].kind = "apply" /\ Uncommitted(pc[r])
    BY <1>1 DEF CommandFits, Uncommitted, ApplyPCs
  <1>3. n \in Nat /\ Len(StepsOf[Prof(r)]) \in Nat /\ n \in 1..Len(StepsOf[Prof(r)])
    BY <1>1, RunnerTypes, RulesAssumption DEF Journals, RulesAssumption, Fits
  <1>4. c \in Capture(Prof(r), n) /\ c # Uncaptured
    BY <1>3, RunnerTypes, SnapshotType, CaptureType
    DEF Invariants, TypeInv, TypeOK, HostType
  <1>5. /\ j.run = mem[r].run
        /\ AllCaptured(j)
    <2> HIDE DEF c
    <2>1. /\ j.run = mem[r].run
          /\ Len(j.steps) = n
          /\ \A k \in 1..(n - 1) : j.steps[k] = mem[r].steps[k]
          /\ j.steps[n].after = c
      BY <1>1, <1>4, CompletedFits
    <2> HIDE DEF j
    <2>2. \A i \in 1..n : i = n \/ i \in 1..(n - 1)  BY <1>3
    <2>3. QED  BY <1>1, <1>4, <2>1, <2>2 DEF AllCaptured
  <1>6. UNCHANGED <<job, remote, born>>  BY DEF CaptureAfter, hostVars
  <1>7. \/ /\ UNCHANGED <<mem, local>> /\ pc' = [pc EXCEPT ![r] = "undo"]
        \/ /\ mem' = [mem EXCEPT ![r] = j]
           /\ local' = local \/ SaveLocal(r, j)
           /\ \E where \in {"step", "undo"} : pc' = [pc EXCEPT ![r] = where]
    BY DEF CaptureAfter, SavedOr, Goto
  <1> HIDE DEF j, n
  <1>8. CASE UNCHANGED <<mem, local>> /\ pc' = [pc EXCEPT ![r] = "undo"]
    <2>1. Moved(r, "undo")
      BY <1>2, <1>6, <1>8
      DEF Moved, CommandFits, CapturedBy, LockedPCs, ApplyPCs, RollbackPCs
    <2>2. QED  BY <2>1, MoveKept
  <1>9. ASSUME NEW where \in {"step", "undo"}, pc' = [pc EXCEPT ![r] = where],
               mem' = [mem EXCEPT ![r] = j], local' = local \/ SaveLocal(r, j)
        PROVE  JournalInv'
    <2>1. Rewritten(r, j, where)
      BY <1>1, <1>2, <1>5, <1>6, <1>9 DEF Rewritten, CapturedBy, ApplyPCs
    <2>2. QED  BY <2>1, RewriteKept
  <1>10. QED  BY <1>7, <1>8, <1>9

-----------------------------------------------------------------------------
LEMMA NewRunKept ==
    ASSUME Invariants, NEW r \in Runners, NewRun(r)
    PROVE  JournalInv'
  <1>1. /\ pc[r] = "admit" /\ CommandFits(pc[r], job[r].kind)
        /\ mem[r] = NoJournal
        /\ UNCHANGED <<job, remote>>
    BY RunnerFacts
    DEF NewRun, Invariants, JournalInv, RunnerInv, RunnerFits, Unloaded, hostVars
  <1>2. job[r].kind = "apply"  BY <1>1 DEF CommandFits, ApplyPCs
  <1>3. PICK k \in RunIds :
          LET j == [run |-> k, status |-> "in_progress", steps |-> <<>>] IN
          /\ FreshRun(k)
          /\ \/ /\ SaveLocal(r, j)
                /\ Goto(r, "step")
                /\ mem' = [mem EXCEPT ![r] = j]
                /\ born' = [born EXCEPT ![k] = Cardinality({x \in RunIds : born[x] # 0}) + 1]
             \/ UNCHANGED <<mem, born, local>> /\ Goto(r, "release")
    BY DEF NewRun, SavedOr, End
  <1> DEFINE j == [run |-> k, status |-> "in_progress", steps |-> <<>>]
  <1>4. CASE UNCHANGED <<mem, born, local>> /\ Goto(r, "release")
    <2>1. Moved(r, "release")
      BY <1>1, <1>2, <1>4
      DEF Moved, CommandFits, CapturedBy, Uncommitted, Goto, LockedPCs, ApplyPCs,
          RollbackPCs, RevertPCs
    <2>2. QED  BY <2>1, MoveKept
  <1>5. CASE /\ SaveLocal(r, j)
             /\ Goto(r, "step")
             /\ mem' = [mem EXCEPT ![r] = j]
             /\ born' = [born EXCEPT ![k] = Cardinality({x \in RunIds : born[x] # 0}) + 1]
    <2> DEFINE n == Cardinality({x \in RunIds : born[x] # 0})
    <2>1. n \in Nat
      BY RunsAssumption, FS_Subset, FS_CardinalityType DEF RunsAssumption
    <2> HIDE DEF n
    <2>2. born' = [born EXCEPT ![k] = n + 1]  BY <1>5 DEF n
    <2>3. born'[k] # 0 /\ \A x \in RunIds : born[x] # 0 => born'[x] # 0
      BY <2>1, <2>2, RunnerTypes
    <2>4. /\ pc'[r] = "step" /\ job'[r] = job[r] /\ mem'[r] = j /\ Prof(r)' = Prof(r)
          /\ remote' = remote
      BY <1>1, <1>5, RunnerTypes DEF Goto, Prof
    <2>5. Alone(r)  BY <1>1, <1>5, <2>3, RunnerTypes DEF Alone, Goto, SaveLocal
    <2>6. StoredInv'  BY <2>3, <2>4, StoredKept
    <2>7. remote[Prof(r)][k] = NoJournal
      BY <1>3, RunnerTypes DEF FreshRun, Invariants, JournalInv, StoredInv
    <2>8. AllCaptured(j) /\ j.run = k  BY DEF AllCaptured
    <2> HIDE DEF j
    <2>9. RunnerInv(r)'
      <3>1. CommandFits(pc[r], job[r].kind)'
        BY <1>2, <2>4 DEF CommandFits, LockedPCs, ApplyPCs, RollbackPCs, RevertPCs
      <3>2. CapturedBy(pc[r], Prof(r), mem[r])'
        BY <2>4, <2>8 DEF CapturedBy, AllCaptured
      <3>3. UnderWay(r)'  BY <2>3, <2>4, <2>7, <2>8 DEF UnderWay
      <3>4. Loaded(r)' /\ Claimed(r)'  BY <1>2, <2>4 DEF Loaded, FromHost, Claimed
      <3>5. QED  BY <3>1, <3>2, <3>3, <3>4 DEF RunnerInv
    <2>10. QED  BY <2>5, <2>6, <2>9, JournalStep
  <1>6. QED  BY <1>3, <1>4, <1>5

(* The journal of run k on the host is written or deleted.                 *)
LEMMA StoredChanged ==
    ASSUME Invariants, NEW p \in Profiles, NEW k \in RunIds,
           NEW j, remote' \in {remote, [remote EXCEPT ![p][k] = j]}, born' = born,
           j # NoJournal => Complete(p, j) /\ j.run = k /\ born[k] # 0
    PROVE  StoredInv'
  <1>1. CASE remote' = remote  BY <1>1, StoredKept
  <1>2. CASE remote' = [remote EXCEPT ![p][k] = j]
    <2>1. \A q \in Profiles, x \in RunIds :
            remote'[q][x] = IF q = p /\ x = k THEN j ELSE remote[q][x]
      BY <1>2, RunnerTypes
    <2>2. QED
      BY <2>1 DEF Invariants, JournalInv, StoredInv, Complete, AllCaptured
  <1>3. QED  BY <1>1, <1>2

LEMMA CommitKept ==
    ASSUME Invariants, NEW r \in Runners, Commit(r)
    PROVE  JournalInv'
  <1> DEFINE j == WithStatus(mem[r], "success")
             p == Prof(r)
  <1>1. /\ pc[r] = "commit" /\ pc[r] \in Journalled /\ Holds(r)
        /\ CommandFits(pc[r], job[r].kind) /\ UnderWay(r)
        /\ AllCaptured(mem[r]) /\ Len(mem[r].steps) = Len(StepsOf[p])
    BY DEF Commit, Invariants, JournalInv, RunnerInv, CapturedBy, Journalled, Unloaded,
           PCs, LockedPCs, ApplyPCs, Holds
  <1>2. job[r].kind = "apply"  BY <1>1 DEF CommandFits, ApplyPCs
  <1>3. /\ mem[r] \in Journals /\ mem[r] # NoJournal /\ Fits(p, mem[r]) /\ p \in Profiles
        /\ RunnerFits(pc[r], p, mem[r], todo[r])
    BY <1>1, RunnerFacts DEF Invariants, RunnerFits
  <1>4. j.run = mem[r].run /\ j.steps = mem[r].steps /\ j.status = "success" /\ j # NoJournal
    BY <1>3, StampedFits DEF Statuses
  <1>5. mem[r].run \in RunIds /\ born[mem[r].run] # 0
    BY <1>1, <1>2, <1>3 DEF Journals, UnderWay
  <1>6. /\ mem' = [mem EXCEPT ![r] = j]
        /\ remote' \in {remote, [remote EXCEPT ![p][j.run] = j]}
        /\ \E where \in {"tidy", "fallback"} : pc' = [pc EXCEPT ![r] = where]
        /\ UNCHANGED <<job, local, born>>
    BY DEF Commit, Goto
  <1> HIDE DEF j
  <1>7. Complete(p, j)  BY <1>1, <1>4 DEF Complete, AllCaptured, Accepted
  <1>8. StoredInv'  BY <1>3, <1>4, <1>5, <1>6, <1>7, StoredChanged
  <1>9. Alone(r)  BY <1>1, <1>6, RunnerTypes DEF Alone
  <1>10. /\ pc'[r] \in {"tidy", "fallback"} /\ job'[r] = job[r] /\ mem'[r] = j
         /\ born' = born
    BY <1>6, RunnerTypes
  <1>11. RunnerInv(r)'
    BY <1>2, <1>4, <1>5, <1>10
    DEF RunnerInv, CommandFits, CapturedBy, UnderWay, Uncommitted, Loaded, FromHost, Claimed,
        LockedPCs, ApplyPCs, RollbackPCs, RevertPCs
  <1>12. QED  BY <1>8, <1>9, <1>11, JournalStep

LEMMA LoadKept ==
    ASSUME Invariants, NEW r \in Runners, LoadJournal(r)
    PROVE  JournalInv'
  <1> DEFINE p == Prof(r)
  <1>1. /\ pc[r] = "load" /\ CommandFits(pc[r], job[r].kind) /\ p \in Profiles
    BY RunnerTypes DEF LoadJournal, Invariants, JournalInv, RunnerInv
  <1>2. job[r].kind = "rollback"  BY <1>1 DEF CommandFits, RollbackPCs
  <1>3. PICK j \in Loadable(r) : Accepted(j) /\ mem' = [mem EXCEPT ![r] = j]
    BY DEF LoadJournal
  <1>4. UNCHANGED <<job, remote, local, born>> /\ pc' = [pc EXCEPT ![r] = "preflight"]
    BY DEF LoadJournal, Goto, hostVars, historyVars
  <1>5. /\ pc'[r] = "preflight" /\ job'[r] = job[r] /\ mem'[r] = j /\ Prof(r)' = p
        /\ remote' = remote /\ born' = born
    BY <1>3, <1>4, RunnerTypes DEF Prof
  <1>6. Alone(r)  BY <1>3, <1>4, RunnerTypes DEF Alone
  <1>7. ASSUME ~Has(r, "local")
        PROVE  /\ Complete(p, j)
               /\ j.run \in StoredRuns(p)
               /\ \A other \in StoredRuns(p) : other <= j.run
    <2>1. StoredRuns(p) # {} /\ j = remote[p][Newest(p)]
      BY <1>3, <1>7 DEF Loadable
    <2>2. Newest(p) \in StoredRuns(p) /\ \A other \in StoredRuns(p) : other <= Newest(p)
      BY <1>1, <2>1, NewestStored
    <2>3. Complete(p, j) /\ j.run = Newest(p)
      BY <1>1, <2>1, <2>2 DEF Invariants, JournalInv, StoredInv, StoredRuns
    <2>4. QED  BY <2>2, <2>3
  <1>8. RunnerInv(r)'
    <2>1. CommandFits(pc[r], job[r].kind)'
      BY <1>2, <1>5 DEF CommandFits, LockedPCs, ApplyPCs, RollbackPCs, RevertPCs
    <2>2. CapturedBy(pc[r], Prof(r), mem[r])' /\ UnderWay(r)' /\ Claimed(r)'
      BY <1>2, <1>5 DEF CapturedBy, UnderWay, Claimed, RevertPCs
    <2>3. Loaded(r)'
      BY <1>5, <1>7 DEF Loaded, FromHost, Has, Complete, AllCaptured, StoredRuns
    <2>4. QED  BY <2>1, <2>2, <2>3 DEF RunnerInv
  <1>9. QED  BY <1>5, <1>6, <1>8, StoredKept, JournalStep

LEMMA ClaimKept ==
    ASSUME Invariants, NEW r \in Runners, Claim(r)
    PROVE  JournalInv'
  <1> DEFINE j == WithStatus(mem[r], "rolling_back")
             p == Prof(r)
  <1>1. /\ pc[r] = "claim" /\ pc[r] \in Journalled /\ Holds(r)
        /\ CommandFits(pc[r], job[r].kind) /\ Loaded(r)
    BY DEF Claim, Invariants, JournalInv, RunnerInv, Journalled, Unloaded,
           PCs, LockedPCs, RollbackPCs, Holds
  <1>2. job[r].kind = "rollback"  BY <1>1 DEF CommandFits, RollbackPCs
  <1>3. mem[r] \in Journals /\ Fits(p, mem[r]) /\ p \in Profiles /\ mem[r].run \in RunIds
    BY <1>1, RunnerFacts DEF Invariants, Journals
  <1>4. /\ j.run = mem[r].run /\ j.steps = mem[r].steps /\ j.status = "rolling_back"
        /\ j # NoJournal
    BY <1>3, StampedFits DEF Statuses
  <1>5. /\ \/ /\ mem' = [mem EXCEPT ![r] = j]
              /\ pc' = [pc EXCEPT ![r] = "revert"]
              /\ \/ Has(r, "local") /\ SaveLocal(r, j) /\ UNCHANGED remote
                 \/ /\ ~Has(r, "local") /\ UNCHANGED local
                    /\ remote' = [remote EXCEPT ![p][j.run] = j]
           \/ /\ UNCHANGED <<mem, local>>
              /\ pc' = [pc EXCEPT ![r] = "release"]
              /\ \/ UNCHANGED remote
                 \/ ~Has(r, "local") /\ remote' = [remote EXCEPT ![p][j.run] = j]
        /\ UNCHANGED <<job, born>>
    BY DEF Claim, Goto, End, historyVars
  <1> HIDE DEF j
  <1>6. ASSUME ~Has(r, "local")
        PROVE  /\ Complete(p, j)
               /\ mem[r].run \in StoredRuns(p) /\ born[mem[r].run] # 0
               /\ \A other \in StoredRuns(p) : other <= mem[r].run
    <2>1. FromHost(r)  BY <1>1, <1>2, <1>6 DEF FromHost
    <2>2. /\ Complete(p, mem[r])
          /\ mem[r].run \in StoredRuns(p)
          /\ \A other \in StoredRuns(p) : other <= mem[r].run
      BY <1>1, <2>1 DEF Loaded
    <2>3. Complete(p, j)  BY <1>4, <2>2 DEF Complete, AllCaptured, Accepted
    <2>4. born[mem[r].run] # 0
      BY <1>3, <2>2 DEF StoredRuns, Invariants, JournalInv, StoredInv
    <2>5. QED  BY <2>2, <2>3, <2>4
  <1>7. StoredInv'
    <2>1. CASE UNCHANGED remote  BY <1>5, <2>1, StoredKept
    <2>2. CASE ~Has(r, "local") /\ remote' = [remote EXCEPT ![p][j.run] = j]
      <3>1. j.run \in RunIds /\ Complete(p, j) /\ born[j.run] # 0
        BY <1>3, <1>4, <1>6, <2>2
      <3>2. born' = born /\ p \in Profiles  BY <1>3, <1>5
      <3>3. remote' \in {remote, [remote EXCEPT ![p][j.run] = j]}  BY <2>2
      <3> HIDE DEF p
      <3>4. QED  BY <3>1, <3>2, <3>3, StoredChanged
    <2>3. QED  BY <1>5, <2>1, <2>2
  <1>8. Alone(r)
    <2>1. \A s \in Runners \ {r} : pc'[s] = pc[s] /\ job'[s] = job[s] /\ mem'[s] = mem[s]
      BY <1>5, RunnerTypes
    <2>2. \A s \in Runners \ {r} : local'[s] = local[s]
      BY <1>5, RunnerTypes DEF SaveLocal
    <2>3. QED  BY <1>1, <1>5, <2>1, <2>2 DEF Alone
  <1>9. job'[r] = job[r] /\ Prof(r)' = p /\ born' = born  BY <1>5 DEF Prof
  <1>10. CASE pc' = [pc EXCEPT ![r] = "release"]
    <2>1. pc'[r] = "release"  BY <1>10, RunnerTypes
    <2>2. RunnerInv(r)'
      BY <1>2, <1>9, <2>1
      DEF RunnerInv, CommandFits, CapturedBy, UnderWay, Uncommitted, Loaded, FromHost,
          Claimed, LockedPCs, ApplyPCs, RollbackPCs, RevertPCs
    <2>3. QED  BY <1>7, <1>8, <2>2, JournalStep
  <1>11. CASE /\ mem' = [mem EXCEPT ![r] = j]
              /\ pc' = [pc EXCEPT ![r] = "revert"]
              /\ \/ Has(r, "local") /\ SaveLocal(r, j) /\ UNCHANGED remote
                 \/ /\ ~Has(r, "local") /\ UNCHANGED local
                    /\ remote' = [remote EXCEPT ![p][j.run] = j]
    <2>1. pc'[r] = "revert" /\ mem'[r] = j  BY <1>11, RunnerTypes
    <2>2. CommandFits(pc[r], job[r].kind)'
      BY <1>2, <1>9, <2>1 DEF CommandFits, LockedPCs, ApplyPCs, RollbackPCs, RevertPCs
    <2>3. CapturedBy(pc[r], Prof(r), mem[r])' /\ UnderWay(r)'
      BY <1>2, <1>9, <2>1 DEF CapturedBy, UnderWay
    <2>4. Has(r, "local")' = Has(r, "local")  BY <1>9 DEF Has
    <2>5. Loaded(r)'
      <3>1. CASE Has(r, "local")  BY <2>4, <3>1 DEF Loaded, FromHost
      <3>2. CASE ~Has(r, "local")
        <4>1. remote' = [remote EXCEPT ![p][j.run] = j]  BY <1>11, <3>2
        <4>2. \A k \in RunIds : remote'[p][k] = IF k = j.run THEN j ELSE remote[p][k]
          BY <1>3, <4>1, RunnerTypes
        <4>3. \A k \in RunIds : remote'[p][k] # NoJournal <=> remote[p][k] # NoJournal
          BY <1>4, <1>6, <3>2, <4>2 DEF StoredRuns
        <4>4. {k \in RunIds : remote'[p][k] # NoJournal} = StoredRuns(p)
          BY <4>3 DEF StoredRuns
        <4>5. StoredRuns(Prof(r))' = StoredRuns(p)  BY <1>9, <4>4 DEF StoredRuns
        <4>6. QED
          BY <1>4, <1>6, <1>9, <2>1, <3>2, <4>5 DEF Loaded, Complete, AllCaptured
      <3>3. QED  BY <3>1, <3>2
    <2>6. Claimed(r)'
      <3>1. CASE Has(r, "local")
        <4>1. local'[r][p] = j  BY <1>3, <1>11, <3>1, RunnerTypes DEF SaveLocal
        <4>2. QED  BY <1>4, <1>9, <2>1, <2>4, <3>1, <4>1 DEF Claimed
      <3>2. CASE ~Has(r, "local")
        <4>1. remote'[p][j.run] = j  BY <1>3, <1>4, <1>11, <3>2, RunnerTypes
        <4>2. QED  BY <1>4, <1>9, <2>1, <2>4, <3>2, <4>1 DEF Claimed
      <3>3. QED  BY <3>1, <3>2
    <2>7. RunnerInv(r)'  BY <2>2, <2>3, <2>5, <2>6 DEF RunnerInv
    <2>8. QED  BY <1>7, <1>8, <2>7, JournalStep
  <1>12. QED  BY <1>5, <1>10, <1>11

LEMMA ConsumeKept ==
    ASSUME Invariants, NEW r \in Runners, Consume(r)
    PROVE  JournalInv'
  <1> DEFINE p == Prof(r)
  <1>1. /\ pc[r] = "consume" /\ pc[r] \in Journalled /\ Holds(r)
        /\ CommandFits(pc[r], job[r].kind)
    BY DEF Consume, Invariants, JournalInv, RunnerInv, Journalled, Unloaded,
           PCs, LockedPCs, RollbackPCs, Holds
  <1>2. job[r].kind = "rollback"  BY <1>1 DEF CommandFits, RollbackPCs
  <1>3. p \in Profiles /\ mem[r].run \in RunIds
    BY <1>1, RunnerFacts DEF Invariants, Journals
  <1>4. /\ \/ SaveLocal(r, NoJournal)
           \/ UNCHANGED local
        /\ remote' \in {remote, [remote EXCEPT ![p][mem[r].run] = NoJournal]}
        /\ pc' = [pc EXCEPT ![r] = "release"]
        /\ UNCHANGED <<job, mem, born>>
    BY DEF Consume, End, Goto, historyVars
  <1>5. StoredInv'  BY <1>3, <1>4, StoredChanged
  <1>6. Alone(r)
    <2>1. \A s \in Runners \ {r} : pc'[s] = pc[s] /\ job'[s] = job[s] /\ mem'[s] = mem[s]
      BY <1>4, RunnerTypes
    <2>2. \A s \in Runners \ {r} : local'[s] = local[s]
      BY <1>4, RunnerTypes DEF SaveLocal
    <2>3. QED  BY <1>1, <1>4, <2>1, <2>2 DEF Alone
  <1>7. pc'[r] = "release" /\ job'[r] = job[r]  BY <1>4, RunnerTypes
  <1>8. RunnerInv(r)'
    BY <1>2, <1>7
    DEF RunnerInv, CommandFits, CapturedBy, UnderWay, Uncommitted, Loaded, FromHost,
        Claimed, LockedPCs, ApplyPCs, RollbackPCs, RevertPCs
  <1>9. QED  BY <1>5, <1>6, <1>8, JournalStep

-----------------------------------------------------------------------------
LEMMA EnvironmentKept ==
    ASSUME Invariants,
           \/ \E o \in Objects, v \in Edits : Edit(o, v)
           \/ RemoveStaleLock
           \/ UNCHANGED vars
    PROVE  JournalInv'
  <1>1. UNCHANGED <<pc, job, mem, local, remote, born>>
    BY DEF Edit, RemoveStaleLock, vars, hostVars, runnerVars, historyVars
  <1>2. StoredInv'  BY <1>1, StoredKept
  <1>3. ASSUME NEW r \in Runners PROVE RunnerInv(r)'
    BY <1>1
    DEF Invariants, JournalInv, RunnerInv, CommandFits, CapturedBy, UnderWay, Loaded,
        FromHost, Claimed, Complete, AllCaptured, StoredRuns, Has, Prof
  <1>4. QED  BY <1>2, <1>3 DEF JournalInv

LEMMA JournalKept == Invariants /\ [Next]_vars => JournalInv'
  <1> SUFFICES ASSUME Invariants, [Next]_vars PROVE JournalInv'  OBVIOUS
  <1>1. ASSUME NEW r \in Runners,
               StartApply(r) \/ StartRollback(r) \/ Progress(r) \/ Signal(r) \/ Crash(r)
        PROVE  JournalInv'
    BY <1>1, StartKept, ExitKept, ApplyMovesKept, RevertMovesKept, RollbackMovesKept,
       StampKept, CaptureBeforeKept, CaptureAfterKept, NewRunKept, CommitKept, LoadKept,
       ClaimKept, ConsumeKept
    DEF Progress, ApplyStep, RollbackStep
  <1>2. QED  BY <1>1, EnvironmentKept DEF Next

LEMMA InvariantsInit == Init => Invariants
  <1> SUFFICES ASSUME Init PROVE Invariants  OBVIOUS
  <1>1. LockInv
    BY DEF Init, LockInv, MutualExclusion, LockIsHeld, Holds, LockedPCs, ApplyPCs,
           RollbackPCs, RevertPCs
  <1>2. StoredInv  BY DEF Init, StoredInv
  <1>3. ASSUME NEW r \in Runners PROVE RunnerInv(r)
    BY DEF Init, RunnerInv, CommandFits, CapturedBy, UnderWay, Loaded, FromHost, Claimed,
           LockedPCs, ApplyPCs, RollbackPCs, RevertPCs
  <1>4. QED  BY <1>1, <1>2, <1>3, InitTyped DEF Invariants, JournalInv

(* All of them are inductive together.                                     *)
THEOREM InvariantsHold == Spec => []Invariants
  <1>1. Init => Invariants  BY InvariantsInit
  <1>2. Invariants /\ [Next]_vars => Invariants'
    BY NextTyped, LockKept, JournalKept DEF Invariants
  <1>3. QED  BY <1>1, <1>2, PTL DEF Spec

(* A manual rollback reverts nothing before the journal it works from is   *)
(* stored as rolling_back, and it stays so until the rollback is done.     *)
THEOREM RollbacksAreClaimed == Spec => []ClaimedWhileReverting
  <1>1. Invariants => ClaimedWhileReverting
    BY DEF Invariants, JournalInv, RunnerInv, Claimed, ClaimedWhileReverting
  <1>2. QED  BY <1>1, InvariantsHold, PTL

(* The journals on the host are those of complete runs.                    *)
THEOREM StoredRunsAreComplete == Spec => []StoredJournalsComplete
  <1>1. Invariants => StoredJournalsComplete
    <2> SUFFICES ASSUME Invariants, NEW p \in Profiles, NEW k \in RunIds,
                        remote[p][k] # NoJournal
                 PROVE  /\ Accepted(remote[p][k])
                        /\ Len(remote[p][k].steps) = Len(StepsOf[p])
                        /\ \A i \in DOMAIN remote[p][k].steps :
                             remote[p][k].steps[i].after # Uncaptured
      BY DEF StoredJournalsComplete
    <2>1. Complete(p, remote[p][k])  BY DEF Invariants, JournalInv, StoredInv
    <2>2. remote[p][k].steps \in Seq(Records)  BY RunnerTypes DEF Journals
    <2>3. QED  BY <2>1, <2>2 DEF Complete, AllCaptured
  <1>2. QED  BY <1>1, InvariantsHold, PTL

-----------------------------------------------------------------------------
(* A journal that says that its run went well, or is being reverted, has a *)
(* capture to compare every object with, wherever it is.                   *)
Whole(j) == j # NoJournal /\ Accepted(j) => AllCaptured(j)

Early == {"step", "exec", "run", "capture"}
LocalWhole == \A r \in Runners, p \in Profiles : Whole(local[r][p])

RunnerSpares(r) ==
    /\ Whole(mem[r])
    /\ pc[r] \in Early => ~Accepted(mem[r])
    /\ pc[r] \in {"preflight", "claim"} => AllCaptured(mem[r])

SpareInv == LocalWhole /\ \A r \in Runners : RunnerSpares(r)

(* A step of runner r that leaves what the other runners have alone.       *)
LEMMA SpareStep ==
    ASSUME Invariants, SpareInv, NEW r \in Runners,
           \A s \in Runners \ {r} :
              pc'[s] = pc[s] /\ job'[s] = job[s] /\ mem'[s] = mem[s],
           LocalWhole', RunnerSpares(r)'
    PROVE  SpareInv'
  <1>1. ASSUME NEW s \in Runners, s # r PROVE RunnerSpares(s)'
    BY <1>1 DEF SpareInv, RunnerSpares, Whole, AllCaptured, Accepted, Has
  <1>2. QED  BY <1>1 DEF SpareInv

LEMMA LocalSaved ==
    ASSUME Invariants, SpareInv, NEW r \in Runners, NEW j, Whole(j),
           local' = local \/ SaveLocal(r, j)
    PROVE  LocalWhole'
  <1>1. SUFFICES ASSUME NEW s \in Runners, NEW p \in Profiles PROVE Whole(local'[s][p])
    BY DEF LocalWhole, Whole, Accepted, AllCaptured
  <1>2. Whole(local[s][p])  BY DEF SpareInv, LocalWhole
  <1>3. CASE local' = local  BY <1>2, <1>3
  <1>4. CASE SaveLocal(r, j)
    <2> DEFINE q == Prof(r)
    <2>1. local' = [local EXCEPT ![r][q] = j]  BY <1>4 DEF SaveLocal
    <2>2. local \in [Runners -> [Profiles -> Journals \cup {NoJournal}]]
      BY DEF Invariants, TypeInv, TypeOK, JournalType
    <2> HIDE DEF q
    <2>3. local'[s][p] \in {j, local[s][p]}  BY <2>1, <2>2
    <2>4. QED  BY <1>2, <2>3
  <1>5. QED  BY <1>3, <1>4

LEMMA NothingToCompare == Whole(NoJournal)
  BY DEF Whole

(* The runner goes on to `where`, and keeps its journal on disk at most.   *)
Goes(r, where) ==
    /\ UNCHANGED <<job, mem>>
    /\ pc' = [pc EXCEPT ![r] = where]
    /\ local' = local \/ SaveLocal(r, mem[r]) \/ SaveLocal(r, NoJournal)
    /\ where \in Early => pc[r] \in Early
    /\ where \in {"preflight", "claim"} => pc[r] = where
    /\ where \in RevertPCs => pc[r] \in RevertPCs

LEMMA GoesSpares ==
    ASSUME Invariants, SpareInv, NEW r \in Runners, NEW where, Goes(r, where)
    PROVE  SpareInv'
  <1>1. pc'[r] = where /\ mem'[r] = mem[r] /\ job'[r] = job[r]
    BY RunnerTypes DEF Goes
  <1>2. RunnerSpares(r)  BY DEF SpareInv
  <1>3. LocalWhole'  BY <1>2, LocalSaved, NothingToCompare DEF Goes, RunnerSpares
  <1>4. RunnerSpares(r)'
    BY <1>1, <1>2
    DEF RunnerSpares, Goes, Whole, Accepted, AllCaptured, Has, RevertPCs
  <1>5. QED  BY <1>1, <1>3, <1>4, SpareStep, RunnerTypes DEF Goes

(* The run under way changes its journal, which does not say success yet.  *)
LEMMA RewriteSpares ==
    ASSUME Invariants, SpareInv, NEW r \in Runners, NEW j, ~Accepted(j),
           mem' = [mem EXCEPT ![r] = j], local' = local \/ SaveLocal(r, j),
           NEW where \in ApplyPCs \cup {"release"}, pc' = [pc EXCEPT ![r] = where],
           UNCHANGED job, job[r].kind = "apply"
    PROVE  SpareInv'
  <1>1. mem'[r] = j /\ pc'[r] = where /\ job'[r].kind = "apply"  BY RunnerTypes
  <1>2. LocalWhole'  BY LocalSaved DEF Whole
  <1>3. RunnerSpares(r)'
    BY <1>1 DEF RunnerSpares, Whole, Accepted, ApplyPCs, Early
  <1>4. QED  BY <1>2, <1>3, SpareStep, RunnerTypes

LEMMA ExitSpares ==
    ASSUME Invariants, SpareInv, NEW r \in Runners, LockRefused(r) \/ ReleaseLock(r) \/ Crash(r)
    PROVE  SpareInv'
  <1>1. Exit(r) /\ UNCHANGED local
    BY DEF LockRefused, ReleaseLock, Crash
  <1>2. pc'[r] = "idle" /\ mem'[r] = NoJournal  BY <1>1, RunnerTypes DEF Exit, Goto
  <1>3. RunnerSpares(r)'  BY <1>2 DEF RunnerSpares, Whole, Early, RevertPCs
  <1>4. LocalWhole'  BY <1>1, NothingToCompare, LocalSaved
  <1>5. QED  BY <1>1, <1>3, <1>4, SpareStep, RunnerTypes DEF Exit, Goto

LEMMA StartSpares ==
    ASSUME Invariants, SpareInv, NEW r \in Runners,
           StartApply(r) \/ StartRollback(r) \/ TakeLock(r)
    PROVE  SpareInv'
  <1>1. UNCHANGED <<mem, local>>
    BY DEF StartApply, StartRollback, TakeLock, historyVars
  <1>2. /\ pc'[r] \in {"lock", "admit", "load"}
        /\ \A s \in Runners \ {r} : pc'[s] = pc[s] /\ job'[s] = job[s]
    BY RunnerTypes DEF StartApply, StartRollback, TakeLock, Goto
  <1>3. RunnerSpares(r)'
    BY <1>1, <1>2
    DEF SpareInv, RunnerSpares, Whole, Accepted, AllCaptured, Early, RevertPCs
  <1>4. LocalWhole'  BY <1>1, NothingToCompare, LocalSaved
  <1>5. QED  BY <1>1, <1>2, <1>3, <1>4, SpareStep

LEMMA MoveSpares ==
    ASSUME Invariants, SpareInv, NEW r \in Runners,
           \/ AdmitRefused(r) \/ NextStep(r) \/ RunStep(r) \/ Tidy(r) \/ Fallback(r)
           \/ RevertStep(r) \/ LoadRefused(r) \/ PreflightRefused(r) \/ Signal(r)
    PROVE  SpareInv'
  <1> USE DEF Goes, Goto, End, hostVars, historyVars, Early, RevertPCs
  <1>1. CASE Signal(r)
    <2>1. Goes(r, pc[r])  BY <1>1, RunnerTypes DEF Signal
    <2>2. QED  BY <2>1, GoesSpares
  <1>2. CASE AdmitRefused(r) \/ LoadRefused(r) \/ PreflightRefused(r) \/ Tidy(r) \/ Fallback(r)
    <2>1. Goes(r, "release")
      BY <1>2 DEF AdmitRefused, LoadRefused, PreflightRefused, Tidy, Fallback, SavedOr
    <2>2. QED  BY <2>1, GoesSpares
  <1>3. CASE NextStep(r)
    <2>1. Goes(r, "exec") \/ Goes(r, "commit")  BY <1>3 DEF NextStep
    <2>2. QED  BY <2>1, GoesSpares
  <1>4. CASE RunStep(r)
    <2>1. Goes(r, "capture") \/ Goes(r, "undo")  BY <1>4 DEF RunStep
    <2>2. QED  BY <2>1, GoesSpares
  <1>5. CASE RevertObject(r) \/ SettleObject(r)
    <2>1. pc[r] \in RevertPCs /\ UNCHANGED <<job, mem, local>>
      BY <1>5 DEF RevertObject, SettleObject
    <2>2. \E where \in RevertPCs \cup {"release", "stamp"} : pc' = [pc EXCEPT ![r] = where]
      BY <1>5 DEF RevertObject, SettleObject, RestoreFailed
    <2>3. \E where : Goes(r, where)  BY <2>1, <2>2
    <2>4. QED  BY <2>3, GoesSpares
  <1>6. CASE RevertDone(r)
    <2>1. Goes(r, "stamp") \/ Goes(r, "consume")  BY <1>6 DEF RevertDone
    <2>2. QED  BY <2>1, GoesSpares
  <1>7. QED  BY <1>1, <1>2, <1>3, <1>4, <1>5, <1>6 DEF RevertStep

LEMMA ApplySpares ==
    ASSUME Invariants, SpareInv, NEW r \in Runners,
           NewRun(r) \/ Interrupt(r) \/ StampFailed(r) \/ CaptureBefore(r) \/ CaptureAfter(r)
    PROVE  SpareInv'
  <1>1. CommandFits(pc[r], job[r].kind) /\ RunnerSpares(r)
    BY DEF Invariants, JournalInv, RunnerInv, SpareInv
  <1>2. job[r].kind = "apply"
    BY <1>1 DEF CommandFits, ApplyPCs, NewRun, Interrupt, StampFailed, CaptureBefore, CaptureAfter
  <1>3. pc[r] \in Journalled => mem[r] \in Journals  BY RunnerFacts DEF Invariants
  <1> USE DEF Goto, End, hostVars, historyVars, SavedOr
  <1>4. CASE NewRun(r)
    <2>1. PICK k \in RunIds :
            LET j == [run |-> k, status |-> "in_progress", steps |-> <<>>] IN
            \/ SaveLocal(r, j) /\ pc' = [pc EXCEPT ![r] = "step"] /\ mem' = [mem EXCEPT ![r] = j]
            \/ UNCHANGED <<local, mem>> /\ pc' = [pc EXCEPT ![r] = "release"]
      BY <1>4 DEF NewRun
    <2>2. UNCHANGED job  BY <1>4 DEF NewRun
    <2> DEFINE j == [run |-> k, status |-> "in_progress", steps |-> <<>>]
    <2>3. ~Accepted(j)  BY DEF Accepted
    <2> HIDE DEF j
    <2>4. CASE UNCHANGED <<local, mem>> /\ pc' = [pc EXCEPT ![r] = "release"]
      <3>1. Goes(r, "release")  BY <2>2, <2>4 DEF Goes, Early, RevertPCs
      <3>2. QED  BY <3>1, GoesSpares
    <2>5. CASE SaveLocal(r, j) /\ pc' = [pc EXCEPT ![r] = "step"] /\ mem' = [mem EXCEPT ![r] = j]
      BY <1>2, <2>2, <2>3, <2>5, RewriteSpares DEF ApplyPCs
    <2>6. QED  BY <2>1, <2>4, <2>5 DEF j
  <1>5. CASE Interrupt(r) \/ StampFailed(r)
    <2>1. pc[r] \in Journalled
      BY <1>5 DEF Interrupt, StampFailed, Journalled, Unloaded, PCs, LockedPCs, ApplyPCs
    <2>2. PICK s \in {"interrupted", "failed"} :
            /\ mem' = [mem EXCEPT ![r] = WithStatus(mem[r], s)]
            /\ local' = local \/ SaveLocal(r, WithStatus(mem[r], s))
      BY <1>5 DEF Interrupt, StampFailed
    <2>3. ~Accepted(WithStatus(mem[r], s))
      BY <1>3, <2>1 DEF WithStatus, Accepted, Journals
    <2>4. UNCHANGED job  BY <1>5 DEF Interrupt, StampFailed
    <2>5. \E where \in ApplyPCs \cup {"release"} : pc' = [pc EXCEPT ![r] = where]
      BY <1>5 DEF Interrupt, StampFailed, ApplyPCs
    <2>6. QED  BY <1>2, <2>2, <2>3, <2>4, <2>5, RewriteSpares
  <1>6. CASE CaptureBefore(r) \/ CaptureAfter(r)
    <2>1. /\ pc[r] \in Early /\ pc[r] \in Journalled
          /\ UNCHANGED job
          /\ \E where \in ApplyPCs : pc' = [pc EXCEPT ![r] = where]
      BY <1>6 DEF CaptureBefore, CaptureAfter, Early, Journalled, Unloaded, PCs, LockedPCs, ApplyPCs
    <2>2. ~Accepted(mem[r])  BY <1>1, <2>1 DEF RunnerSpares
    <2>3. CASE UNCHANGED <<mem, local>>
      <3>1. pc' = [pc EXCEPT ![r] = "undo"] \/ pc' = [pc EXCEPT ![r] = "run"]
            \/ pc' = [pc EXCEPT ![r] = "step"]
        BY <1>6 DEF CaptureBefore, CaptureAfter
      <3>2. Goes(r, "undo") \/ Goes(r, "run") \/ Goes(r, "step")
        BY <2>1, <2>3, <3>1 DEF Goes, Early, RevertPCs
      <3>3. QED  BY <3>2, GoesSpares
    <2>4. ASSUME NEW before,
                 \/ mem' = [mem EXCEPT ![r] = Recorded(mem[r], before)]
                    /\ (local' = local \/ SaveLocal(r, Recorded(mem[r], before)))
                 \/ mem' = [mem EXCEPT ![r] = Completed(mem[r], before)]
                    /\ (local' = local \/ SaveLocal(r, Completed(mem[r], before)))
          PROVE  SpareInv'
      <3>1. ~Accepted(Recorded(mem[r], before)) /\ ~Accepted(Completed(mem[r], before))
        BY <1>3, <2>1, <2>2 DEF Recorded, Completed, Accepted, Journals
      <3>2. QED  BY <1>2, <2>1, <2>4, <3>1, RewriteSpares
    <2>5. \/ UNCHANGED <<mem, local>>
          \/ \E before :
                \/ mem' = [mem EXCEPT ![r] = Recorded(mem[r], before)]
                   /\ (local' = local \/ SaveLocal(r, Recorded(mem[r], before)))
                \/ mem' = [mem EXCEPT ![r] = Completed(mem[r], before)]
                   /\ (local' = local \/ SaveLocal(r, Completed(mem[r], before)))
      BY <1>6 DEF CaptureBefore, CaptureAfter
    <2>6. QED  BY <2>3, <2>4, <2>5
  <1>7. QED  BY <1>4, <1>5, <1>6

(* The last capture is there when a run is committed.                      *)
LEMMA CommitSpares ==
    ASSUME Invariants, SpareInv, NEW r \in Runners, Commit(r)
    PROVE  SpareInv'
  <1> DEFINE j == WithStatus(mem[r], "success")
  <1>1. pc[r] \in Journalled /\ AllCaptured(mem[r]) /\ job[r].kind = "apply"
    BY DEF Commit, Invariants, JournalInv, RunnerInv, CapturedBy, CommandFits, ApplyPCs,
           Journalled, Unloaded, PCs, LockedPCs
  <1>2. j.steps = mem[r].steps  BY <1>1, RunnerFacts DEF Invariants, WithStatus, Journals
  <1>3. Whole(j)  BY <1>1, <1>2 DEF Whole, AllCaptured
  <1>4. /\ mem' = [mem EXCEPT ![r] = j] /\ UNCHANGED <<job, local>>
        /\ \E where \in {"tidy", "fallback"} : pc' = [pc EXCEPT ![r] = where]
    BY DEF Commit, Goto
  <1> HIDE DEF j
  <1>5. mem'[r] = j /\ pc'[r] \in {"tidy", "fallback"}  BY <1>4, RunnerTypes
  <1>6. RunnerSpares(r)'
    BY <1>3, <1>4, <1>5, <1>1
    DEF RunnerSpares, Whole, Accepted, AllCaptured, Early, RevertPCs
  <1>7. LocalWhole'  BY <1>3, <1>4, LocalSaved
  <1>8. QED  BY <1>4, <1>6, <1>7, SpareStep, RunnerTypes

LEMMA UndoSpares ==
    ASSUME Invariants, SpareInv, NEW r \in Runners, UndoPreflight(r)
    PROVE  SpareInv'
  <1>1. job[r].kind = "apply"
    BY DEF UndoPreflight, Invariants, JournalInv, RunnerInv, CommandFits, ApplyPCs
  <1>2. /\ UNCHANGED <<job, mem, local>>
        /\ pc'[r] \in {"revert", "stamp"}
        /\ \A s \in Runners \ {r} : pc'[s] = pc[s]
    BY RunnerTypes DEF UndoPreflight, Goto, Invariants, TypeInv, TypeOK, HistoryType
  <1>3. RunnerSpares(r)'
    BY <1>1, <1>2 DEF SpareInv, RunnerSpares, Whole, Accepted, AllCaptured, Early
  <1>4. LocalWhole'  BY <1>2, NothingToCompare, LocalSaved
  <1>5. QED  BY <1>2, <1>3, <1>4, SpareStep

(* A journal that is loaded is whole, wherever it was.                     *)
LEMMA LoadSpares ==
    ASSUME Invariants, SpareInv, NEW r \in Runners, LoadJournal(r)
    PROVE  SpareInv'
  <1>1. PICK j \in Loadable(r) : Accepted(j) /\ mem' = [mem EXCEPT ![r] = j]
    BY DEF LoadJournal
  <1>2. Prof(r) \in Profiles  BY RunnerTypes
  <1>3. AllCaptured(j)
    <2>1. CASE Has(r, "local")
      BY <1>1, <1>2, <2>1 DEF Loadable, SpareInv, LocalWhole, Whole
    <2>2. CASE ~Has(r, "local")
      <3>1. StoredRuns(Prof(r)) # {} /\ j = remote[Prof(r)][Newest(Prof(r))]
        BY <1>1, <2>2 DEF Loadable
      <3>2. Newest(Prof(r)) \in RunIds /\ remote[Prof(r)][Newest(Prof(r))] # NoJournal
        BY <1>2, <3>1, NewestStored DEF Invariants, TypeInv, StoredRuns
      <3>3. QED  BY <1>2, <3>1, <3>2 DEF Invariants, JournalInv, StoredInv, Complete
    <2>3. QED  BY <2>1, <2>2
  <1>4. /\ UNCHANGED <<job, local>> /\ pc' = [pc EXCEPT ![r] = "preflight"]
    BY DEF LoadJournal, Goto, historyVars
  <1>5. RunnerSpares(r)'
    BY <1>1, <1>3, <1>4, RunnerTypes
    DEF RunnerSpares, Whole, AllCaptured, Early, RevertPCs
  <1>6. LocalWhole'  BY <1>4, NothingToCompare, LocalSaved
  <1>7. QED  BY <1>1, <1>4, <1>5, <1>6, SpareStep, RunnerTypes

(* Without a conflict every object that is about to be reverted holds what *)
(* the run left, or what it is reverted to.                                *)
LEMMA NoConflictNoRisk ==
    ASSUME NEW r \in Runners, AllCaptured(mem[r]), mem[r] \in Journals, ~Conflicted(r)
    PROVE  EditsAtRisk(r, RevertItems(Prof(r), mem[r].steps)) = {}
  <1> DEFINE js == mem[r].steps
  <1>1. SUFFICES ASSUME NEW o \in Objects, NEW it \in RevertItems(Prof(r), js),
                        Steps(r)[it[1]].objects[it[2]] = o,
                        js[it[1]].before[o] # host[o],
                        js[it[1]].after = Uncaptured \/ js[it[1]].after[o] # host[o]
                 PROVE  FALSE
    BY DEF EditsAtRisk
  <1>2. /\ it[1] \in DOMAIN js /\ it[2] \in DOMAIN StepsOf[Prof(r)][it[1]].objects
        /\ StepApplies(Prof(r), js, it[1])
    BY DEF RevertItems
  <1>3. o \in ObjectsOf(Prof(r), it[1])  BY <1>1, <1>2 DEF ObjectsOf, Steps
  <1>4. js[it[1]].after # Uncaptured
    <2>1. DOMAIN js = 1..Len(js)  BY DEF Journals
    <2>2. QED  BY <1>2, <2>1 DEF AllCaptured
  <1>5. o \in ConflictsAt(Prof(r), js, it[1], host, mem[r].status = "rolling_back")
    BY <1>1, <1>3, <1>4 DEF ConflictsAt
  <1>6. QED  BY <1>2, <1>5 DEF Conflicted, RollbackConflicts

LEMMA PreflightSpares ==
    ASSUME Invariants, SpareInv, NEW r \in Runners, Preflight(r)
    PROVE  SpareInv'
  <1>1. AllCaptured(mem[r]) /\ mem[r] \in Journals
    BY RunnerFacts
    DEF Preflight, SpareInv, RunnerSpares, Invariants, Journalled, Unloaded, PCs, LockedPCs,
        RollbackPCs
  <1>2. /\ UNCHANGED <<job, mem, local>> /\ pc' = [pc EXCEPT ![r] = "claim"]
    BY DEF Preflight, Goto
  <1>3. RunnerSpares(r)'
    BY <1>1, <1>2, RunnerTypes
    DEF SpareInv, RunnerSpares, Whole, Accepted, AllCaptured, Early
  <1>4. LocalWhole'  BY <1>2, NothingToCompare, LocalSaved
  <1>5. QED  BY <1>2, <1>3, <1>4, SpareStep, RunnerTypes

(* A claim keeps the captures, and a journal that is consumed is gone.     *)
LEMMA ClaimSpares ==
    ASSUME Invariants, SpareInv, NEW r \in Runners, Claim(r) \/ Consume(r)
    PROVE  SpareInv'
  <1>1. CASE Consume(r)
    <2>1. local' = local \/ SaveLocal(r, NoJournal)  BY <1>1 DEF Consume
    <2>2. pc' = [pc EXCEPT ![r] = "release"] /\ UNCHANGED <<job, mem>>
      BY <1>1 DEF Consume, End, Goto, historyVars
    <2>3. Goes(r, "release")  BY <2>1, <2>2 DEF Goes, Early, RevertPCs
    <2>4. QED  BY <2>3, GoesSpares
  <1>2. CASE Claim(r)
    <2> DEFINE j == WithStatus(mem[r], "rolling_back")
    <2>1. AllCaptured(mem[r]) /\ mem[r] \in Journals /\ pc[r] = "claim"
      BY <1>2, RunnerFacts
      DEF Claim, SpareInv, RunnerSpares, Invariants, Journalled, Unloaded, PCs, LockedPCs,
          RollbackPCs
    <2>2. Whole(j)  BY <2>1 DEF Whole, AllCaptured, WithStatus, Journals
    <2>3. /\ UNCHANGED job
          /\ \/ /\ mem' = [mem EXCEPT ![r] = j] /\ pc' = [pc EXCEPT ![r] = "revert"]
                /\ local' = local \/ SaveLocal(r, j)
             \/ UNCHANGED <<mem, local>> /\ pc' = [pc EXCEPT ![r] = "release"]
      BY <1>2 DEF Claim, End, Goto, historyVars
    <2> HIDE DEF j
    <2>4. CASE UNCHANGED <<mem, local>> /\ pc' = [pc EXCEPT ![r] = "release"]
      <3>1. Goes(r, "release")  BY <2>3, <2>4 DEF Goes, Early, RevertPCs
      <3>2. QED  BY <3>1, GoesSpares
    <2>5. CASE /\ mem' = [mem EXCEPT ![r] = j] /\ pc' = [pc EXCEPT ![r] = "revert"]
               /\ local' = local \/ SaveLocal(r, j)
      <3>1. LocalWhole'  BY <2>2, <2>5, LocalSaved
      <3>2. mem'[r] = j /\ pc'[r] = "revert" /\ job' = job
        BY <2>3, <2>5, RunnerTypes
      <3>3. RunnerSpares(r)'
        BY <2>1, <2>2, <3>2
        DEF SpareInv, RunnerSpares, Whole, Accepted, AllCaptured, Early, Has
      <3>4. QED  BY <2>3, <2>5, <3>1, <3>3, SpareStep, RunnerTypes
    <2>6. QED  BY <2>3, <2>4, <2>5
  <1>3. QED  BY <1>1, <1>2

LEMMA SpareKept == Invariants /\ SpareInv /\ [Next]_vars => SpareInv'
  <1> SUFFICES ASSUME Invariants, SpareInv, [Next]_vars PROVE SpareInv'  OBVIOUS
  <1>1. ASSUME NEW r \in Runners,
               StartApply(r) \/ StartRollback(r) \/ Progress(r) \/ Signal(r) \/ Crash(r)
        PROVE  SpareInv'
    BY <1>1, StartSpares, ExitSpares, MoveSpares, ApplySpares, CommitSpares, UndoSpares,
       LoadSpares, PreflightSpares, ClaimSpares
    DEF Progress, ApplyStep, RollbackStep
  <1>2. ASSUME \/ \E o \in Objects, v \in Edits : Edit(o, v)
               \/ RemoveStaleLock
               \/ UNCHANGED vars
        PROVE  SpareInv'
    <2>1. UNCHANGED <<pc, job, mem, local>>
      BY <1>2 DEF Edit, RemoveStaleLock, vars, runnerVars, historyVars
    <2>2. QED
      BY <2>1 DEF SpareInv, LocalWhole, RunnerSpares, Whole, Accepted, AllCaptured, Has
  <1>3. QED  BY <1>1, <1>2 DEF Next

LEMMA SpareInit == Init => SpareInv
  BY DEF Init, SpareInv, LocalWhole, RunnerSpares, Whole, Early

-----------------------------------------------------------------------------
(* The protocol implements the stacks of journals of JournalStack.         *)
(* Runner r has begun a run that is not on the host.                       *)
IsActive(r) ==
    /\ job[r].kind = "apply" /\ mem[r] # NoJournal
    /\ remote[Prof(r)][mem[r].run] = NoJournal

Run(r) == <<Prof(r), mem[r].run>>

Stored == [p \in Profiles |-> StoredRuns(p)]
BeingReverted ==
    [p \in Profiles |-> {k \in StoredRuns(p) : remote[p][k].status = "rolling_back"}]
Begun == {k \in RunIds : born[k] # 0}

-----------------------------------------------------------------------------
(* A step of the runner that holds the lock: it alone has a run under way, *)
(* before and after.                                                       *)
LEMMA ActiveAlone ==
    ASSUME Invariants, NEW r \in Runners, Holds(r), Alone(r)
    PROVE  /\ Active = IF IsActive(r) THEN {Run(r)} ELSE {}
           /\ Active' = IF IsActive(r)' THEN {Run(r)'} ELSE {}
  <1>1. \A s \in Runners \ {r} : ~Holds(s)  BY DEF Invariants, LockInv, MutualExclusion
  <1>2. \A s \in Runners \ {r} : mem[s] = NoJournal /\ mem'[s] = NoJournal
    BY <1>1, Waiting DEF Alone
  <1>3. \A s \in Runners \ {r} : ~IsActive(s) /\ ~IsActive(s)'  BY <1>2 DEF IsActive
  <1>4. Active = {Run(s) : s \in {x \in Runners : IsActive(x)}}
    BY DEF Active, Run, IsActive
  <1>5. Active' = {Run(s)' : s \in {x \in Runners : IsActive(x)'}}
    BY DEF Active, Run, IsActive
  <1>6. {x \in Runners : IsActive(x)} = IF IsActive(r) THEN {r} ELSE {}  BY <1>3
  <1>7. {x \in Runners : IsActive(x)'} = IF IsActive(r)' THEN {r} ELSE {}  BY <1>3
  <1>8. QED  BY <1>4, <1>5, <1>6, <1>7

(* A step of a runner that has no run under way, before or after.          *)
LEMMA ActiveKept ==
    ASSUME Invariants, NEW r \in Runners, Alone(r), remote' = remote,
           mem[r] = NoJournal, mem'[r] = NoJournal
    PROVE  Active' = Active
  <1>1. ~IsActive(r) /\ ~IsActive(r)'  BY DEF IsActive
  <1>2. \A s \in Runners \ {r} : Run(s)' = Run(s) /\ IsActive(s)' = IsActive(s)
    BY DEF Alone, Run, IsActive, Prof
  <1>3. Active = {Run(s) : s \in {x \in Runners : IsActive(x)}}
    BY DEF Active, Run, IsActive
  <1>4. Active' = {Run(s)' : s \in {x \in Runners : IsActive(x)'}}
    BY DEF Active, Run, IsActive
  <1>5. {x \in Runners : IsActive(x)'} = {x \in Runners : IsActive(x)}  BY <1>1, <1>2
  <1>6. \A s \in {x \in Runners : IsActive(x)} : Run(s)' = Run(s)  BY <1>1, <1>2
  <1>7. QED  BY <1>3, <1>4, <1>5, <1>6

(* Nothing seen from outside changes.                                      *)
LEMMA StackUnchanged ==
    ASSUME remote' = remote, born' = born, Active' = Active
    PROVE  UNCHANGED Stack!vars
  BY DEF Stack!vars, StoredRuns

(* A runner goes on with the run it has.                                   *)
LEMMA RunGoesOn ==
    ASSUME Invariants, NEW r \in Runners, Holds(r), Alone(r),
           remote' = remote, born' = born, job' = job,
           mem[r] = NoJournal <=> mem'[r] = NoJournal,
           mem[r] # NoJournal => mem'[r].run = mem[r].run
    PROVE  UNCHANGED Stack!vars
  <1>1. IsActive(r)' = IsActive(r) /\ (IsActive(r) => Run(r)' = Run(r))
    BY DEF IsActive, Run, Prof
  <1>2. Active' = Active  BY <1>1, ActiveAlone
  <1>3. QED  BY <1>2, StackUnchanged

-----------------------------------------------------------------------------
LEMMA Unseen ==
    ASSUME UNCHANGED <<job, mem, remote, born>>
    PROVE  UNCHANGED Stack!vars
  <1>1. Active' = Active  BY DEF Active, Prof
  <1>2. QED  BY <1>1, StackUnchanged

LEMMA UnseenSteps ==
    ASSUME NEW r \in Runners,
           \/ TakeLock(r) \/ AdmitRefused(r) \/ NextStep(r) \/ RunStep(r)
           \/ UndoPreflight(r) \/ Tidy(r) \/ Fallback(r) \/ RevertStep(r)
           \/ LoadRefused(r) \/ Preflight(r) \/ PreflightRefused(r) \/ Signal(r)
    PROVE  UNCHANGED Stack!vars
  <1>1. UNCHANGED <<job, mem, remote, born>>
    BY DEF TakeLock, AdmitRefused, NextStep, RunStep, UndoPreflight, Tidy, Fallback,
           RevertStep, RevertObject, SettleObject, RevertDone, LoadRefused, Preflight,
           PreflightRefused, Signal, hostVars, historyVars
  <1>2. QED  BY <1>1, Unseen

LEMMA StartUnseen ==
    ASSUME Invariants, NEW r \in Runners, StartApply(r) \/ StartRollback(r)
    PROVE  UNCHANGED Stack!vars
  <1>1. UNCHANGED <<remote, local, born, mem>>
    BY DEF StartApply, StartRollback, hostVars, historyVars
  <1>2. Alone(r)
    BY <1>1, RunnerTypes DEF Alone, StartApply, StartRollback, Goto
  <1>3. mem[r] = NoJournal
    BY RunnerFacts DEF Invariants, RunnerFits, Unloaded, StartApply, StartRollback
  <1>4. QED  BY <1>1, <1>2, <1>3, ActiveKept, StackUnchanged

(* A process that ends abandons its run, if it had one.                    *)
LEMMA ExitAbandons ==
    ASSUME Invariants, NEW r \in Runners, LockRefused(r) \/ ReleaseLock(r) \/ Crash(r)
    PROVE  Stack!Abandon \/ UNCHANGED Stack!vars
  <1>1. UNCHANGED <<remote, local, born>> /\ Exit(r)
    BY DEF LockRefused, ReleaseLock, Crash, hostVars
  <1>2. Alone(r)  BY <1>1, RunnerTypes DEF Alone, Exit, Goto
  <1>3. mem'[r] = NoJournal  BY <1>1, RunnerTypes DEF Exit
  <1>4. CASE ~Holds(r)
    <2>1. mem[r] = NoJournal  BY <1>4, Waiting
    <2>2. QED  BY <1>1, <1>2, <1>3, <2>1, ActiveKept, StackUnchanged
  <1>5. CASE Holds(r)
    <2>1. Active' = {}  BY <1>2, <1>3, <1>5, ActiveAlone DEF IsActive
    <2>2. CASE Active = {}  BY <1>1, <2>1, <2>2, StackUnchanged
    <2>3. CASE Active # {}  BY <1>1, <2>1, <2>3 DEF Stack!Abandon, StoredRuns
    <2>4. QED  BY <2>2, <2>3
  <1>6. QED  BY <1>4, <1>5

(* The journal of a run under way is stamped or gets a record.             *)
LEMMA RecordsUnseen ==
    ASSUME Invariants, NEW r \in Runners,
           Interrupt(r) \/ StampFailed(r) \/ CaptureBefore(r) \/ CaptureAfter(r)
    PROVE  UNCHANGED Stack!vars
  <1>1. pc[r] \in {"step", "stamp", "exec", "capture"} /\ pc[r] \in Journalled /\ Holds(r)
    BY DEF Interrupt, StampFailed, CaptureBefore, CaptureAfter, Journalled, Unloaded, PCs,
           LockedPCs, ApplyPCs, Holds
  <1>2. /\ Prof(r) \in Profiles /\ mem[r] \in Journals /\ mem[r] # NoJournal
        /\ Fits(Prof(r), mem[r])
        /\ RunnerFits(pc[r], Prof(r), mem[r], todo[r])
    BY <1>1, RunnerFacts DEF Invariants, RunnerFits
  <1>3. \A j : SaveLocal(r, j) => \A s \in Runners \ {r} : local'[s] = local[s]
    BY RunnerTypes DEF SaveLocal
  <1>4. /\ UNCHANGED <<job, remote, born>>
        /\ \A s \in Runners \ {r} : pc'[s] = pc[s] /\ local'[s] = local[s]
    BY <1>3, RunnerTypes
    DEF Interrupt, StampFailed, CaptureBefore, CaptureAfter, SavedOr, Goto, hostVars,
        historyVars
  <1>5. mem' = mem \/ \E j : /\ mem' = [mem EXCEPT ![r] = j]
                             /\ j # NoJournal /\ j.run = mem[r].run
    <2>1. CASE Interrupt(r) \/ StampFailed(r)
      <3>1. \E s \in Statuses : mem' = [mem EXCEPT ![r] = WithStatus(mem[r], s)]
        BY <2>1 DEF Interrupt, StampFailed, Statuses
      <3>2. \A s \in Statuses : /\ WithStatus(mem[r], s) # NoJournal
                                 /\ WithStatus(mem[r], s).run = mem[r].run
        BY <1>1, RunnerFacts DEF Invariants
      <3>3. PICK s \in Statuses : mem' = [mem EXCEPT ![r] = WithStatus(mem[r], s)]
        BY <3>1
      <3>4. QED  BY <3>2, <3>3
    <2>2. CASE CaptureBefore(r)
      <3> DEFINE c == Snapshot(Prof(r), Len(mem[r].steps) + 1)
      <3>1. mem' = mem \/ mem' = [mem EXCEPT ![r] = Recorded(mem[r], c)]
        BY <2>2 DEF CaptureBefore
      <3>2. Len(mem[r].steps) \in Nat /\ Len(StepsOf[Prof(r)]) \in Nat
        BY <1>2, RulesAssumption DEF Journals, RulesAssumption
      <3>3. Len(mem[r].steps) < Len(StepsOf[Prof(r)])
        BY <1>2, <2>2 DEF CaptureBefore, RunnerFits
      <3>4. Len(mem[r].steps) + 1 \in 1..Len(StepsOf[Prof(r)])  BY <3>2, <3>3
      <3>5. c \in Capture(Prof(r), Len(mem[r].steps) + 1)
        BY <1>2, <3>4, SnapshotType DEF Invariants, TypeInv, TypeOK, HostType
      <3> HIDE DEF c
      <3>6. /\ Recorded(mem[r], c) # NoJournal
            /\ Recorded(mem[r], c).run = mem[r].run
        BY <1>2, <3>3, <3>5, AppendedFits
      <3>7. QED  BY <3>1, <3>6
    <2>3. CASE CaptureAfter(r)
      <3> DEFINE c == Snapshot(Prof(r), Len(mem[r].steps))
      <3>1. mem' = mem \/ mem' = [mem EXCEPT ![r] = Completed(mem[r], c)]
        BY <2>3 DEF CaptureAfter
      <3>2. Len(mem[r].steps) \in Nat /\ Len(StepsOf[Prof(r)]) \in Nat
        BY <1>2, RulesAssumption DEF Journals, RulesAssumption
      <3>3. Len(mem[r].steps) > 0  BY <1>2, <2>3 DEF CaptureAfter, RunnerFits
      <3>4. Len(mem[r].steps) \in 1..Len(StepsOf[Prof(r)])  BY <1>2, <3>2, <3>3 DEF Fits
      <3>5. c \in Capture(Prof(r), Len(mem[r].steps))
        BY <1>2, <3>4, SnapshotType DEF Invariants, TypeInv, TypeOK, HostType
      <3> HIDE DEF c
      <3>6. /\ Completed(mem[r], c) # NoJournal
            /\ Completed(mem[r], c).run = mem[r].run
        BY <1>2, <3>3, <3>5, CompletedFits
      <3>7. QED  BY <3>1, <3>6
    <2>4. QED  BY <2>1, <2>2, <2>3
  <1>6. /\ \A s \in Runners \ {r} : mem'[s] = mem[s]
        /\ mem'[r] # NoJournal /\ mem'[r].run = mem[r].run
    BY <1>2, <1>5, RunnerTypes
  <1>7. Alone(r)  BY <1>1, <1>4, <1>6 DEF Alone
  <1>8. QED  BY <1>1, <1>2, <1>4, <1>6, <1>7, RunGoesOn

LEMMA LoadUnseen ==
    ASSUME Invariants, NEW r \in Runners, LoadJournal(r)
    PROVE  UNCHANGED Stack!vars
  <1>1. /\ pc[r] = "load" /\ Holds(r) /\ CommandFits(pc[r], job[r].kind)
    BY DEF LoadJournal, Holds, LockedPCs, RollbackPCs, Invariants, JournalInv, RunnerInv
  <1>2. job[r].kind = "rollback"  BY <1>1 DEF CommandFits, RollbackPCs
  <1>3. /\ UNCHANGED <<job, remote, local, born>>
        /\ pc' = [pc EXCEPT ![r] = "preflight"]
        /\ \E j : mem' = [mem EXCEPT ![r] = j]
    BY DEF LoadJournal, Goto, hostVars, historyVars
  <1>4. Alone(r)  BY <1>3, RunnerTypes DEF Alone
  <1>5. ~IsActive(r) /\ ~IsActive(r)'  BY <1>2, <1>3 DEF IsActive
  <1>6. QED  BY <1>1, <1>3, <1>4, <1>5, ActiveAlone, StackUnchanged

-----------------------------------------------------------------------------
LEMMA NewRunBegins ==
    ASSUME Invariants, NEW r \in Runners, NewRun(r)
    PROVE  Stack!Next \/ UNCHANGED Stack!vars
  <1>1. /\ pc[r] = "admit" /\ Holds(r) /\ CommandFits(pc[r], job[r].kind)
        /\ mem[r] = NoJournal /\ Prof(r) \in Profiles
        /\ UNCHANGED <<job, remote>>
    BY RunnerFacts
    DEF NewRun, Invariants, JournalInv, RunnerInv, RunnerFits, Unloaded, hostVars, Holds,
        LockedPCs, ApplyPCs
  <1>2. job[r].kind = "apply"  BY <1>1 DEF CommandFits, ApplyPCs
  <1>3. PICK k \in RunIds :
          LET j == [run |-> k, status |-> "in_progress", steps |-> <<>>] IN
          /\ FreshRun(k)
          /\ \/ /\ SaveLocal(r, j)
                /\ Goto(r, "step")
                /\ mem' = [mem EXCEPT ![r] = j]
                /\ born' = [born EXCEPT ![k] = Cardinality({x \in RunIds : born[x] # 0}) + 1]
             \/ UNCHANGED <<mem, born, local>> /\ Goto(r, "release")
    BY DEF NewRun, SavedOr, End
  <1> DEFINE j == [run |-> k, status |-> "in_progress", steps |-> <<>>]
  <1>4. CASE UNCHANGED <<mem, born, local>>  BY <1>1, <1>4, Unseen
  <1>5. CASE /\ SaveLocal(r, j)
             /\ Goto(r, "step")
             /\ mem' = [mem EXCEPT ![r] = j]
             /\ born' = [born EXCEPT ![k] = Cardinality({x \in RunIds : born[x] # 0}) + 1]
    <2> DEFINE n == Cardinality({x \in RunIds : born[x] # 0})
    <2>1. n \in Nat
      BY RunsAssumption, FS_Subset, FS_CardinalityType DEF RunsAssumption
    <2> HIDE DEF n
    <2>2. born' = [born EXCEPT ![k] = n + 1]  BY <1>5 DEF n
    <2>3. /\ born[k] = 0 /\ \A x \in RunIds : born'[x] # 0 <=> x = k \/ born[x] # 0
      BY <1>3, <2>1, <2>2, RunnerTypes DEF FreshRun
    <2>4. j \in Journals /\ j # NoJournal
      <3>1. <<>> \in Seq(Records)  OBVIOUS
      <3>2. j \in Journals  BY <3>1 DEF Journals, Statuses
      <3>3. QED  BY <3>2, NoJournalAssumption
    <2>5. Alone(r)
      BY <1>1, <1>5, <2>3, RunnerTypes DEF Alone, Goto, SaveLocal
    <2>6. remote[Prof(r)][k] = NoJournal
      BY <1>1, <2>3 DEF Invariants, JournalInv, StoredInv
    <2>7. mem'[r] = j /\ j.run = k /\ job'[r] = job[r] /\ Prof(r)' = Prof(r)
      BY <1>1, <1>5, RunnerTypes DEF Prof
    <2> HIDE DEF j
    <2>8. Active = {}  BY <1>1, <2>5, ActiveAlone DEF IsActive
    <2>9. Active' = {<<Prof(r), k>>}
      <3>1. IsActive(r)' /\ Run(r)' = <<Prof(r), k>>
        BY <1>1, <1>2, <2>4, <2>6, <2>7 DEF IsActive, Run
      <3>2. QED  BY <1>1, <2>5, <3>1, ActiveAlone
    <2>10. Begun' = Begun \cup {k} /\ k \notin Begun  BY <2>3 DEF Begun
    <2>11. Stack!Begin(Prof(r), k)
      BY <1>1, <2>8, <2>9, <2>10 DEF Stack!Begin, Begun, StoredRuns
    <2>12. QED  BY <1>1, <2>11 DEF Stack!Next
  <1>6. QED  BY <1>3, <1>4, <1>5

LEMMA CommitPushes ==
    ASSUME Invariants, NEW r \in Runners, Commit(r)
    PROVE  Stack!Next \/ UNCHANGED Stack!vars
  <1> DEFINE j == WithStatus(mem[r], "success")
             p == Prof(r)
             k == mem[r].run
  <1>1. /\ pc[r] = "commit" /\ pc[r] \in Journalled /\ Holds(r)
        /\ CommandFits(pc[r], job[r].kind) /\ UnderWay(r) /\ Uncommitted(pc[r])
    BY DEF Commit, Invariants, JournalInv, RunnerInv, Journalled, Unloaded, PCs, LockedPCs,
           ApplyPCs, Holds, Uncommitted
  <1>2. job[r].kind = "apply"  BY <1>1 DEF CommandFits, ApplyPCs
  <1>3. /\ mem[r] \in Journals /\ mem[r] # NoJournal /\ Fits(p, mem[r]) /\ p \in Profiles
        /\ k \in RunIds
    BY <1>1, RunnerFacts DEF Invariants, RunnerFits, Journals
  <1>4. j.run = k /\ j.status = "success" /\ j # NoJournal
    BY <1>3, StampedFits DEF Statuses
  <1>5. /\ mem' = [mem EXCEPT ![r] = j]
        /\ remote' \in {remote, [remote EXCEPT ![p][j.run] = j]}
        /\ \E where \in {"tidy", "fallback"} : pc' = [pc EXCEPT ![r] = where]
        /\ UNCHANGED <<job, local, born>>
    BY DEF Commit, Goto
  <1> HIDE DEF j, k
  <1>6. Alone(r)  BY <1>1, <1>5, RunnerTypes DEF Alone
  <1>7. mem'[r] = j /\ job'[r] = job[r] /\ Prof(r)' = p  BY <1>5, RunnerTypes DEF Prof
  <1>8. remote[p][k] = NoJournal  BY <1>1, <1>2, <1>3 DEF UnderWay, k
  <1>9. CASE remote' = remote
    <2>1. mem'[r] # NoJournal /\ mem'[r].run = mem[r].run  BY <1>4, <1>7 DEF k
    <2>2. QED  BY <1>1, <1>3, <1>5, <1>6, <1>9, <2>1, RunGoesOn
  <1>10. CASE remote' = [remote EXCEPT ![p][k] = j]
    <2>1. \A q \in Profiles, x \in RunIds :
            remote'[q][x] = IF q = p /\ x = k THEN j ELSE remote[q][x]
      BY <1>10, RunnerTypes
    <2>2. IsActive(r) /\ Run(r) = <<p, k>>  BY <1>2, <1>3, <1>8 DEF IsActive, Run, k
    <2>3. Active = {<<p, k>>}  BY <1>1, <1>6, <2>2, ActiveAlone
    <2>4. ~IsActive(r)'  BY <1>3, <1>4, <1>7, <2>1 DEF IsActive
    <2>5. Active' = {}  BY <1>1, <1>6, <2>4, ActiveAlone
    <2>6. \A q \in Profiles :
            StoredRuns(q)' = IF q = p THEN StoredRuns(q) \cup {k} ELSE StoredRuns(q)
      BY <1>3, <1>4, <2>1 DEF StoredRuns
    <2>7. Stored' = [Stored EXCEPT ![p] = @ \cup {k}]  BY <1>3, <2>6 DEF Stored
    <2>8. \A q \in Profiles :
            {x \in StoredRuns(q) : remote[q][x].status = "rolling_back"}'
            = {x \in StoredRuns(q) : remote[q][x].status = "rolling_back"}
      BY <1>3, <1>4, <1>8, <2>1 DEF StoredRuns
    <2>9. BeingReverted' = BeingReverted  BY <2>8 DEF BeingReverted
    <2>10. Stack!Push(p, k)
      BY <1>5, <2>3, <2>5, <2>7, <2>9 DEF Stack!Push, Stored, BeingReverted
    <2>11. QED  BY <1>3, <2>10 DEF Stack!Next
  <1>11. QED  BY <1>4, <1>5, <1>9, <1>10

(* A rollback that works from the host, at claim or consume, is about the  *)
(* top of the stack, and no run is under way.                              *)
LEMMA AtTop ==
    ASSUME Invariants, NEW r \in Runners, Alone(r), UNCHANGED job, pc[r] \in {"claim", "consume"}
    PROVE  /\ Prof(r) \in Profiles /\ mem[r].run \in RunIds /\ Fits(Prof(r), mem[r])
           /\ Active = {} /\ Active' = {}
           /\ ~Has(r, "local") => Stack!IsTop(Prof(r), mem[r].run)
           /\ ~Has(r, "local") /\ pc[r] = "consume" =>
                remote[Prof(r)][mem[r].run].status = "rolling_back"
  <1>1. /\ pc[r] \in Journalled /\ Holds(r)
        /\ CommandFits(pc[r], job[r].kind) /\ Loaded(r) /\ Claimed(r)
    BY DEF Invariants, JournalInv, RunnerInv, Journalled, Unloaded, PCs, LockedPCs,
           RollbackPCs, Holds
  <1>2. job[r].kind = "rollback"  BY <1>1 DEF CommandFits, RollbackPCs
  <1>3. Prof(r) \in Profiles /\ mem[r].run \in RunIds /\ Fits(Prof(r), mem[r])
    BY <1>1, RunnerFacts DEF Invariants, Journals
  <1>4. ~IsActive(r) /\ ~IsActive(r)'  BY <1>2 DEF IsActive
  <1>5. Active = {} /\ Active' = {}  BY <1>1, <1>4, ActiveAlone
  <1>6. ~Has(r, "local") => Stack!IsTop(Prof(r), mem[r].run)
    BY <1>1, <1>2, <1>3 DEF Loaded, FromHost, Stack!IsTop
  <1>7. ~Has(r, "local") /\ pc[r] = "consume" =>
          remote[Prof(r)][mem[r].run].status = "rolling_back"
    BY <1>1, <1>2 DEF Claimed
  <1>8. QED  BY <1>3, <1>5, <1>6, <1>7

LEMMA ClaimClaims ==
    ASSUME Invariants, NEW r \in Runners, Claim(r)
    PROVE  Stack!Next \/ UNCHANGED Stack!vars
  <1> DEFINE j == WithStatus(mem[r], "rolling_back")
             p == Prof(r)
             k == mem[r].run
  <1>1. /\ pc[r] = "claim" /\ Holds(r)
        /\ UNCHANGED <<job, born>>
        /\ \/ UNCHANGED remote
           \/ ~Has(r, "local") /\ remote' = [remote EXCEPT ![p][j.run] = j]
        /\ \A s \in Runners \ {r} : pc'[s] = pc[s] /\ mem'[s] = mem[s]
    BY RunnerTypes
    DEF Claim, Goto, End, historyVars, Holds, LockedPCs, RollbackPCs
  <1>2. \A s \in Runners \ {r} : local'[s] = local[s]
    BY RunnerTypes DEF Claim, SaveLocal
  <1>3. Alone(r)  BY <1>1, <1>2 DEF Alone
  <1>4. /\ p \in Profiles /\ k \in RunIds /\ Fits(p, mem[r])
        /\ Active = {} /\ Active' = {}
        /\ ~Has(r, "local") => Stack!IsTop(p, k)
    BY <1>1, <1>3, AtTop
  <1>5. j.run = k /\ j.status = "rolling_back" /\ j # NoJournal
    BY <1>4, StampedFits DEF Statuses
  <1> HIDE DEF j, k
  <1>6. CASE UNCHANGED remote  BY <1>1, <1>4, <1>6, StackUnchanged
  <1>7. CASE ~Has(r, "local") /\ remote' = [remote EXCEPT ![p][j.run] = j]
    <2>1. \A q \in Profiles, x \in RunIds :
            remote'[q][x] = IF q = p /\ x = k THEN j ELSE remote[q][x]
      BY <1>5, <1>7, RunnerTypes
    <2>2. Stack!IsTop(p, k)  BY <1>4, <1>7
    <2>3. k \in StoredRuns(p)  BY <1>4, <2>2 DEF Stack!IsTop
    <2>4. \A q \in Profiles : StoredRuns(q)' = StoredRuns(q)
      BY <1>4, <1>5, <2>1, <2>3 DEF StoredRuns
    <2>5. Stored' = Stored  BY <2>4 DEF Stored
    <2> DEFINE C(q) == {x \in StoredRuns(q) : remote[q][x].status = "rolling_back"}
    <2>6. \A q \in Profiles : C(q)' = IF q = p THEN C(q) \cup {k} ELSE C(q)
      BY <1>4, <1>5, <2>1, <2>3 DEF StoredRuns
    <2>7. BeingReverted' = [BeingReverted EXCEPT ![p] = @ \cup {k}]
      BY <1>4, <2>6 DEF BeingReverted
    <2>8. Stack!Claim(p, k)
      BY <1>1, <1>4, <2>2, <2>5, <2>7 DEF Stack!Claim, Stored, BeingReverted
    <2>9. QED  BY <1>4, <2>8 DEF Stack!Next, Stack!Claim
  <1>8. QED  BY <1>1, <1>6, <1>7

LEMMA ConsumePops ==
    ASSUME Invariants, NEW r \in Runners, Consume(r)
    PROVE  Stack!Next \/ UNCHANGED Stack!vars
  <1> DEFINE p == Prof(r)
             k == mem[r].run
  <1>1. /\ pc[r] = "consume" /\ Holds(r)
        /\ UNCHANGED <<job, born, mem>>
        /\ \/ UNCHANGED remote
           \/ ~Has(r, "local") /\ remote' = [remote EXCEPT ![p][k] = NoJournal]
        /\ \A s \in Runners \ {r} : pc'[s] = pc[s]
    BY RunnerTypes
    DEF Consume, Goto, End, historyVars, Holds, LockedPCs, RollbackPCs
  <1>2. \A s \in Runners \ {r} : local'[s] = local[s]
    BY RunnerTypes DEF Consume, SaveLocal
  <1>3. Alone(r)  BY <1>1, <1>2 DEF Alone
  <1>4. /\ p \in Profiles /\ k \in RunIds
        /\ Active = {} /\ Active' = {}
        /\ ~Has(r, "local") => Stack!IsTop(p, k) /\ remote[p][k].status = "rolling_back"
    BY <1>1, <1>3, AtTop
  <1> HIDE DEF k
  <1>5. CASE UNCHANGED remote  BY <1>1, <1>4, <1>5, StackUnchanged
  <1>6. CASE ~Has(r, "local") /\ remote' = [remote EXCEPT ![p][k] = NoJournal]
    <2>1. \A q \in Profiles, x \in RunIds :
            remote'[q][x] = IF q = p /\ x = k THEN NoJournal ELSE remote[q][x]
      BY <1>6, RunnerTypes
    <2>2. Stack!IsTop(p, k) /\ remote[p][k].status = "rolling_back"  BY <1>4, <1>6
    <2>3. k \in StoredRuns(p)  BY <1>4, <2>2 DEF Stack!IsTop
    <2> DEFINE C(q) == {x \in StoredRuns(q) : remote[q][x].status = "rolling_back"}
    <2>4. \A q \in Profiles :
            /\ StoredRuns(q)' = IF q = p THEN StoredRuns(q) \ {k} ELSE StoredRuns(q)
            /\ C(q)' = IF q = p THEN C(q) \ {k} ELSE C(q)
      BY <1>4, <2>1 DEF StoredRuns
    <2>5. Stored' = [Stored EXCEPT ![p] = @ \ {k}]  BY <1>4, <2>4 DEF Stored
    <2>6. BeingReverted' = [BeingReverted EXCEPT ![p] = @ \ {k}]
      BY <1>4, <2>4 DEF BeingReverted
    <2>7. k \in BeingReverted[p]  BY <1>4, <2>2, <2>3 DEF BeingReverted
    <2>8. Stack!Pop(p, k)
      BY <1>1, <1>4, <2>2, <2>5, <2>6, <2>7 DEF Stack!Pop, Stored, BeingReverted
    <2>9. QED  BY <1>4, <2>8 DEF Stack!Next, Stack!Pop
  <1>7. QED  BY <1>1, <1>5, <1>6

-----------------------------------------------------------------------------
LEMMA StepsAreStacked == Invariants /\ [Next]_vars => [Stack!Next]_(Stack!vars)
  <1> SUFFICES ASSUME Invariants, [Next]_vars PROVE Stack!Next \/ UNCHANGED Stack!vars
    OBVIOUS
  <1>1. ASSUME NEW r \in Runners,
               StartApply(r) \/ StartRollback(r) \/ Progress(r) \/ Signal(r) \/ Crash(r)
        PROVE  Stack!Next \/ UNCHANGED Stack!vars
    BY <1>1, UnseenSteps, StartUnseen, ExitAbandons, RecordsUnseen, LoadUnseen,
       NewRunBegins, CommitPushes, ClaimClaims, ConsumePops
    DEF Progress, ApplyStep, RollbackStep, Stack!Next
  <1>2. CASE \/ \E o \in Objects, v \in Edits : Edit(o, v)
             \/ RemoveStaleLock
             \/ UNCHANGED vars
    <2>1. UNCHANGED <<job, mem, remote, born>>
      BY <1>2 DEF Edit, RemoveStaleLock, vars, hostVars, runnerVars, historyVars
    <2>2. QED  BY <2>1, Unseen
  <1>3. QED  BY <1>1, <1>2 DEF Next

LEMMA InitIsStacked == Init => Stack!Init
  <1> SUFFICES ASSUME Init PROVE Stack!Init  OBVIOUS
  <1>1. Active = {}  BY DEF Init, Active
  <1>2. \A p \in Profiles : StoredRuns(p) = {}  BY DEF Init, StoredRuns
  <1>3. {k \in RunIds : born[k] # 0} = {}  BY DEF Init
  <1>4. QED  BY <1>1, <1>2, <1>3 DEF Stack!Init

(* Whatever is killed, lost, refused or interleaved, the journals on a     *)
(* host are the stacks of JournalStack: no run is pushed that did not      *)
(* apply every step, none is popped but the top and claimed one, and no    *)
(* stack changes while another run is under way.                           *)
THEOREM ImplementsJournalStack == Spec => JournalsAreStacked
  <1>1. Spec => []Invariants  BY InvariantsHold
  <1>2. QED
    BY <1>1, InitIsStacked, StepsAreStacked, PTL DEF Spec, JournalsAreStacked, Stack!Spec

-----------------------------------------------------------------------------
(* What rollbacks make of the host: an apply undone and a rollback done    *)
(* leave every object as the run found it, for any runners, profiles and   *)
(* faults but edits by others while a run is under way.                    *)
(* The hypotheses of this part.  Nobody edits the host behind hardline's   *)
(* back (what a run would capture then is not its own); no step without a  *)
(* rollback has objects (no plugin declares the mode); a service step      *)
(* captures its unit and nothing else (service/execution.go); and a file   *)
(* that is not there has no owner of its own.                              *)
NoEdits == "edit" \notin FaultKinds

NoopsManageNothing ==
    \A p \in Profiles : \A i \in 1..Len(StepsOf[p]) :
        StepsOf[p][i].mode = "noop" => ObjectsOf(p, i) = {}

ServicesApart ==
    \A p \in Profiles : \A i \in 1..Len(StepsOf[p]) :
        HasServiceObjects(p, i) => ObjectsOf(p, i) \subseteq Services

Plain(now) == \A o \in Objects \ Services : now[o].body = Absent => now[o].meta = Root

-----------------------------------------------------------------------------
Changed(j, i) == j.steps[i].before # j.steps[i].after

(* The first change of an object that journal j records starts from what   *)
(* its run found.                                                          *)
Honest(p, j, births, found) ==
    /\ births[j.run] # 0
    /\ \A i \in 1..Len(j.steps) : \A o \in ObjectsOf(p, i) :
         j.steps[i].before[o] # found[j.run][o] =>
             \E x \in 1..(i - 1) : o \in ObjectsOf(p, x) /\ Changed(j, x)

HonestInv ==
    /\ \A r \in Runners : mem[r] # NoJournal => Honest(Prof(r), mem[r], born, origin)
    /\ \A r \in Runners, p \in Profiles :
         local[r][p] # NoJournal => Honest(p, local[r][p], born, origin)
    /\ \A p \in Profiles, k \in RunIds :
         remote[p][k] # NoJournal => Honest(p, remote[p][k], born, origin)

(* The restorations of one object.                                         *)
ItemsOn(p, j, o) == {it \in RevertItems(p, j.steps) : StepsOf[p][it[1]].objects[it[2]] = o}

(* A run that applies has a changing step for all that is not as found.    *)
RunPCs == {"step", "exec", "run", "capture", "undo"}

Accounts(p, j, now, found) ==
    \A o \in Objects :
        now[o] # found[j.run][o] =>
            \E i \in 1..Len(j.steps) : o \in ObjectsOf(p, i) /\ Changed(j, i)

Running(where, p, j, now, found) ==
    where \in RunPCs =>
        /\ where \in {"run", "capture"} => j.steps[Len(j.steps)].after = Uncaptured
        /\ Accounts(p, j, now, found)

(* A rollback that lost nothing has put back every object it is done with; *)
(* what it has still to do comes after what it has done.                   *)
RestoredSoFar(p, j, items, kind, now, found) ==
    \A o \in Objects :
        /\ ItemsOn(p, j, o) \cap items = {}
        /\ ItemsOn(p, j, o) # {} \/ kind = "apply"
        => now[o] = found[j.run][o]

HalfRestored(p, j, items, now) ==
    \A it \in items :
        IsNextToRevert(p, items, it) =>
            LET o == StepsOf[p][it[1]].objects[it[2]]
                before == j.steps[it[1]].before[o] IN
            now[o].body = before.body /\ ~RestoredInOne(o, before)

Behind(p, j, items) ==
    /\ items \subseteq RevertItems(p, j.steps)
    /\ \A x \in items, y \in RevertItems(p, j.steps) : RevertedBefore(p, x, y) => y \in items

Reverts(where, p, j, items, lossy, kind, now, found) ==
    where \in Reverting =>
        /\ Behind(p, j, items)
        /\ where = "consume" => items = {}
        /\ where = "settle" => HalfRestored(p, j, items, now)
        /\ ~lossy => RestoredSoFar(p, j, items, kind, now, found)

(* What the end of a command says of the host.                             *)
Outcome(where, p, j, what, now, found) ==
    /\ where \notin {"idle", "stamp", "release"} => what = "none"
    /\ where = "stamp" => what # "reverted"
    /\ where \in {"stamp", "release"} /\ what = "undone" =>
         j # NoJournal /\ \A o \in Objects : now[o] = found[j.run][o]
    /\ where = "release" /\ what = "reverted" =>
         /\ j # NoJournal
         /\ \A o \in Objects : ItemsOn(p, j, o) # {} => now[o] = found[j.run][o]

RunnerHost(r) ==
    /\ Running(pc[r], Prof(r), mem[r], host, origin)
    /\ Reverts(pc[r], Prof(r), mem[r], todo[r], degraded[r], job[r].kind, host, origin)
    /\ Outcome(pc[r], Prof(r), mem[r], result[r], host, origin)

(* UndoneMeansRestored and RevertedMeansRestored, strengthened to be       *)
(* inductive.                                                              *)
HostInv ==
    /\ Plain(host)
    /\ \A k \in RunIds : Plain(origin[k])
    /\ HonestInv
    /\ \A r \in Runners : RunnerHost(r)

-----------------------------------------------------------------------------
(* The order of restorations is strict and total.                          *)
LEMMA RevertOrder ==
    ASSUME NEW p, NEW x \in Nat \X Nat, NEW y \in Nat \X Nat
    PROVE  /\ ~(RevertedBefore(p, x, y) /\ RevertedBefore(p, y, x))
           /\ x # y => RevertedBefore(p, x, y) \/ RevertedBefore(p, y, x)
  <1>1. x[1] \in Nat /\ x[2] \in Nat /\ y[1] \in Nat /\ y[2] \in Nat  OBVIOUS
  <1>2. x # y => x[1] # y[1] \/ x[2] # y[2]  OBVIOUS
  <1> DEFINE X == HasServiceObjects(p, x[1])
             Y == HasServiceObjects(p, y[1])
  <1>3. X \in BOOLEAN /\ Y \in BOOLEAN  BY DEF HasServiceObjects
  <1>4. /\ RevertedBefore(p, x, y) <=>
              (~X /\ Y) \/ (X = Y /\ (x[1] > y[1] \/ (x[1] = y[1] /\ x[2] > y[2])))
        /\ RevertedBefore(p, y, x) <=>
              (~Y /\ X) \/ (Y = X /\ (y[1] > x[1] \/ (y[1] = x[1] /\ y[2] > x[2])))
    BY DEF RevertedBefore
  <1> HIDE DEF X, Y
  <1>5. QED  BY <1>1, <1>2, <1>3, <1>4

(* A changing step has a restoration for every object it manages.          *)
LEMMA ChangedHasItem ==
    ASSUME NoopsManageNothing, NEW p \in Profiles, NEW j, Fits(p, j),
           NEW i \in 1..Len(j.steps), NEW o \in ObjectsOf(p, i), Changed(j, i)
    PROVE  \E n \in Nat : <<i, n>> \in ItemsOn(p, j, o)
  <1>1. j.steps \in Seq(Records) /\ Len(StepsOf[p]) \in Nat
    BY RulesAssumption DEF Fits, Journals, RulesAssumption
  <1>2. i \in 1..Len(StepsOf[p]) /\ i \in DOMAIN j.steps  BY <1>1 DEF Fits
  <1>3. PICK n \in DOMAIN StepsOf[p][i].objects : StepsOf[p][i].objects[n] = o
    BY DEF ObjectsOf
  <1>4. n \in Nat
    <2>1. StepsOf[p][i].objects \in Seq(Objects)  BY <1>2, ObjectsOfType DEF Step
    <2>2. QED  BY <2>1
  <1>5. StepApplies(p, j.steps, i)
    BY DEF Changed, StepApplies, StepActuallyChanged
  <1>6. StepsOf[p][i].mode # "noop"  BY <1>2 DEF NoopsManageNothing
  <1>7. <<i, n>> \in RevertItems(p, j.steps)
    BY <1>2, <1>3, <1>5, <1>6 DEF RevertItems
  <1>8. <<i, n>> \in ItemsOn(p, j, o)  BY <1>3, <1>7 DEF ItemsOn
  <1>9. QED  BY <1>4, <1>8

(* The restoration of an object that comes last puts back what the run     *)
(* found: an earlier changing step would have been restored later.         *)
LEMMA LastRestoration ==
    ASSUME NoopsManageNothing, ServicesApart, NEW p \in Profiles, NEW j, Fits(p, j),
           NEW births, NEW found, Honest(p, j, births, found),
           NEW o, NEW it \in ItemsOn(p, j, o),
           \A y \in ItemsOn(p, j, o) \ {it} : RevertedBefore(p, y, it)
    PROVE  j.steps[it[1]].before[o] = found[j.run][o]
  <1>1. /\ it \in RevertItems(p, j.steps) /\ StepsOf[p][it[1]].objects[it[2]] = o
        /\ it \in Nat \X Nat /\ it[1] \in 1..Len(j.steps)
        /\ it[2] \in DOMAIN StepsOf[p][it[1]].objects
    BY RevertItemsType DEF ItemsOn
  <1>2. /\ Len(j.steps) \in Nat /\ Len(StepsOf[p]) \in Nat
        /\ it[1] \in 1..Len(StepsOf[p]) /\ it[1] \in Nat
    BY <1>1, RulesAssumption DEF Fits, Journals, RulesAssumption
  <1>3. o \in ObjectsOf(p, it[1])  BY <1>1 DEF ObjectsOf
  <1>4. SUFFICES ASSUME j.steps[it[1]].before[o] # found[j.run][o] PROVE FALSE  OBVIOUS
  <1>5. PICK x \in 1..(it[1] - 1) : o \in ObjectsOf(p, x) /\ Changed(j, x)
    BY <1>1, <1>3, <1>4 DEF Honest
  <1>6. x \in Nat /\ x < it[1] /\ x \in 1..Len(j.steps) /\ x \in 1..Len(StepsOf[p])
    BY <1>1, <1>2, <1>5
  <1>7. PICK n \in Nat : <<x, n>> \in ItemsOn(p, j, o)  BY <1>5, <1>6, ChangedHasItem
  <1>8. <<x, n>> # it  BY <1>6
  <1>9. RevertedBefore(p, <<x, n>>, it)  BY <1>7, <1>8
  <1>10. ~HasServiceObjects(p, x) /\ HasServiceObjects(p, it[1])
    <2>1. ~(x > it[1] \/ x = it[1])  BY <1>2, <1>6
    <2>2. QED  BY <1>9, <2>1 DEF RevertedBefore
  <1>11. o \in Services  BY <1>2, <1>3, <1>10 DEF ServicesApart
  <1>12. QED  BY <1>5, <1>10, <1>11 DEF HasServiceObjects

(* Objects a restoration does not touch stay as they are.                  *)
LEMMA NextIsOne ==
    ASSUME NEW p, NEW items, items \subseteq Nat \X Nat, NEW x \in items, NEW y \in items,
           IsNextToRevert(p, items, x), IsNextToRevert(p, items, y)
    PROVE  x = y
  <1>1. x # y => RevertedBefore(p, x, y) /\ RevertedBefore(p, y, x)  BY DEF IsNextToRevert
  <1>2. x \in Nat \X Nat /\ y \in Nat \X Nat  OBVIOUS
  <1>3. QED  BY <1>1, <1>2, RevertOrder

LEMMA BehindNext ==
    ASSUME NEW p \in Profiles, NEW j, Fits(p, j), NEW items, Behind(p, j, items),
           NEW it \in items, IsNextToRevert(p, items, it)
    PROVE  Behind(p, j, items \ {it})
  <1>1. SUFFICES ASSUME NEW x \in items \ {it}, NEW y \in RevertItems(p, j.steps),
                        RevertedBefore(p, x, y)
                 PROVE  y \in items \ {it}
    BY DEF Behind
  <1>2. y \in items  BY <1>1 DEF Behind
  <1>3. RevertedBefore(p, it, x)  BY DEF IsNextToRevert
  <1>4. x \in Nat \X Nat /\ it \in Nat \X Nat  BY RevertItemsType DEF Behind
  <1>5. y # it  BY <1>1, <1>3, <1>4, RevertOrder
  <1>6. QED  BY <1>2, <1>5

(* Object o goes from `now` to v, its value from before a step or, if it   *)
(* is not what the run found, another.                                     *)
PutBack(j, it, o, v, now, then, found) ==
    /\ j.steps[it[1]].before[o] = found[j.run][o] => v = found[j.run][o]
    /\ \A x \in Objects : then[x] = IF x = o THEN v ELSE now[x]

(* The next object is restored: if no other restoration of it is left, its *)
(* value from before the step, which it gets, is what the run found.       *)
LEMMA RestoredOne ==
    ASSUME NoopsManageNothing, ServicesApart, NEW p \in Profiles, NEW j, Fits(p, j),
           NEW births, NEW found, Honest(p, j, births, found),
           NEW items, Behind(p, j, items), NEW it \in items, IsNextToRevert(p, items, it),
           NEW kind, NEW now, RestoredSoFar(p, j, items, kind, now, found),
           NEW then, NEW o, it \in ItemsOn(p, j, o), NEW v,
           PutBack(j, it, o, v, now, then, found)
    PROVE  RestoredSoFar(p, j, items \ {it}, kind, then, found)
  <1>1. SUFFICES ASSUME NEW x \in Objects,
                        ItemsOn(p, j, x) \cap (items \ {it}) = {},
                        ItemsOn(p, j, x) # {} \/ kind = "apply"
                 PROVE  then[x] = found[j.run][x]
    BY DEF RestoredSoFar
  <1>2. it \in RevertItems(p, j.steps)  BY DEF Behind
  <1>3. CASE x = o
    <2>1. ASSUME NEW y \in ItemsOn(p, j, o) \ {it} PROVE RevertedBefore(p, y, it)
      <3>1. y \in RevertItems(p, j.steps) /\ y \notin items  BY <1>1, <1>3 DEF ItemsOn
      <3>2. ~RevertedBefore(p, it, y)  BY <3>1 DEF Behind
      <3>3. y \in Nat \X Nat /\ it \in Nat \X Nat  BY <1>2, <3>1, RevertItemsType
      <3>4. QED  BY <3>2, <3>3, RevertOrder
    <2>2. j.steps[it[1]].before[o] = found[j.run][o]  BY <1>2, <2>1, LastRestoration
    <2>3. QED  BY <1>3, <2>2 DEF PutBack
  <1>4. CASE x # o
    <2>1. it \notin ItemsOn(p, j, x)  BY <1>4 DEF ItemsOn
    <2>2. ItemsOn(p, j, x) \cap items = {}  BY <1>1, <2>1
    <2>3. QED  BY <1>1, <1>4, <2>2 DEF RestoredSoFar, PutBack
  <1>5. QED  BY <1>3, <1>4

(* What a run may have changed is among what its rollback restores.        *)
LEMMA AllToRestore ==
    ASSUME NoopsManageNothing, NEW p \in Profiles, NEW j, Fits(p, j), NEW now, NEW found,
           NEW kind,
           kind = "apply" => Accounts(p, j, now, found)
    PROVE  /\ Behind(p, j, RevertItems(p, j.steps))
           /\ RestoredSoFar(p, j, RevertItems(p, j.steps), kind, now, found)
  <1>1. Behind(p, j, RevertItems(p, j.steps))  BY DEF Behind
  <1>2. ASSUME NEW o \in Objects,
               ItemsOn(p, j, o) \cap RevertItems(p, j.steps) = {},
               ItemsOn(p, j, o) # {} \/ kind = "apply"
        PROVE  now[o] = found[j.run][o]
    <2>1. ItemsOn(p, j, o) = {}  BY <1>2 DEF ItemsOn
    <2>2. kind = "apply"  BY <1>2, <2>1
    <2>3. \A i \in 1..Len(j.steps) : ~(o \in ObjectsOf(p, i) /\ Changed(j, i))
      BY <2>1, ChangedHasItem
    <2>4. QED  BY <2>2, <2>3 DEF Accounts
  <1>3. QED  BY <1>1, <1>2 DEF RestoredSoFar

(* A journal says the same whatever its status.                            *)
LEMMA RestampedSame ==
    ASSUME NEW p \in Profiles, NEW j, Fits(p, j), NEW s \in Statuses,
           NEW births, NEW found
    PROVE  Honest(p, WithStatus(j, s), births, found) <=> Honest(p, j, births, found)
  <1>1. WithStatus(j, s).run = j.run /\ WithStatus(j, s).steps = j.steps  BY StampedFits
  <1>2. QED  BY <1>1 DEF Honest, Changed

(* The births and findings of runs that have begun do not change.          *)
LEMMA HonestStill ==
    ASSUME NEW p \in Profiles, NEW j, j.run \in RunIds,
           NEW births, NEW found, Honest(p, j, births, found), NEW births2, NEW found2,
           \A k \in RunIds : births[k] # 0 => births2[k] # 0 /\ found2[k] = found[k]
    PROVE  Honest(p, j, births2, found2)
  BY DEF Honest

(* The record of the next step, captured before it runs.                   *)
LEMMA RecordedHonest ==
    ASSUME NEW p \in Profiles, NEW j, Fits(p, j), Len(j.steps) < Len(StepsOf[p]),
           NEW c \in Capture(p, Len(j.steps) + 1),
           NEW births, NEW found, Honest(p, j, births, found),
           NEW now, Accounts(p, j, now, found),
           \A o \in ObjectsOf(p, Len(j.steps) + 1) : o \in Objects /\ c[o] = now[o]
    PROVE  LET n == Recorded(j, c) IN
           /\ Honest(p, n, births, found)
           /\ Accounts(p, n, now, found)
           /\ Len(n.steps) > 0
           /\ n.steps[Len(n.steps)].after = Uncaptured
  <1> DEFINE n == Recorded(j, c)
             m == Len(j.steps)
  <1>1. m \in Nat  BY DEF Fits, Journals
  <1>2. /\ n.run = j.run
        /\ Len(n.steps) = m + 1
        /\ \A i \in 1..m : n.steps[i] = j.steps[i]
        /\ n.steps[m + 1] = [before |-> c, after |-> Uncaptured]
    BY AppendedFits
  <1> HIDE DEF n, m
  <1>3. \A i \in 1..m : i \in 1..(m + 1) /\ (Changed(j, i) => Changed(n, i))
    BY <1>1, <1>2 DEF Changed
  <1>4. ASSUME NEW i \in 1..(m + 1), NEW o \in ObjectsOf(p, i),
               n.steps[i].before[o] # found[n.run][o]
        PROVE  \E x \in 1..(i - 1) : o \in ObjectsOf(p, x) /\ Changed(n, x)
    <2>1. CASE i \in 1..m
      <3>1. PICK x \in 1..(i - 1) : o \in ObjectsOf(p, x) /\ Changed(j, x)
        BY <1>2, <1>4, <2>1 DEF Honest, m
      <3>2. x \in 1..m  BY <1>1, <2>1, <3>1
      <3>3. QED  BY <1>3, <3>1, <3>2
    <2>2. CASE i = m + 1
      <3>1. o \in Objects /\ now[o] # found[j.run][o]  BY <1>2, <1>4, <2>2 DEF m
      <3>2. PICK x \in 1..m : o \in ObjectsOf(p, x) /\ Changed(j, x)
        BY <3>1 DEF Accounts, m
      <3>3. x \in 1..(i - 1)  BY <1>1, <2>2
      <3>4. QED  BY <1>3, <3>2, <3>3
    <2>3. QED  BY <1>1, <2>1, <2>2
  <1>5. Honest(p, n, births, found)  BY <1>2, <1>4 DEF Honest
  <1>6. Accounts(p, n, now, found)
    <2>1. SUFFICES ASSUME NEW o \in Objects, now[o] # found[j.run][o]
                   PROVE  \E i \in 1..(m + 1) : o \in ObjectsOf(p, i) /\ Changed(n, i)
      BY <1>2 DEF Accounts
    <2>2. PICK i \in 1..m : o \in ObjectsOf(p, i) /\ Changed(j, i)
      BY <2>1 DEF Accounts, m
    <2>3. QED  BY <1>3, <2>2
  <1>7. Len(n.steps) > 0 /\ n.steps[Len(n.steps)].after = Uncaptured  BY <1>1, <1>2
  <1>8. QED  BY <1>5, <1>6, <1>7 DEF n

(* The capture after a step: an object it left as it was is as found, or   *)
(* an earlier step changed it.                                             *)
LEMMA CompletedHonest ==
    ASSUME NEW p \in Profiles, NEW j, Fits(p, j), Len(j.steps) > 0,
           NEW c \in Capture(p, Len(j.steps)),
           NEW births, NEW found, Honest(p, j, births, found),
           NEW now, Accounts(p, j, now, found),
           \A o \in ObjectsOf(p, Len(j.steps)) : c[o] = now[o]
    PROVE  /\ Honest(p, Completed(j, c), births, found)
           /\ Accounts(p, Completed(j, c), now, found)
  <1> DEFINE n == Completed(j, c)
             m == Len(j.steps)
  <1>1. m \in Nat /\ m > 0  BY DEF Fits, Journals
  <1>2. /\ n.run = j.run
        /\ Len(n.steps) = m
        /\ \A i \in 1..(m - 1) : n.steps[i] = j.steps[i]
        /\ n.steps[m].before = j.steps[m].before
        /\ n.steps[m].after = c
    BY CompletedFits
  <1> HIDE DEF n, m
  <1>3. \A i \in 1..(m - 1) : Changed(n, i) <=> Changed(j, i)  BY <1>2 DEF Changed
  <1>4. \A i \in 1..m : i = m \/ i \in 1..(m - 1)  BY <1>1
  <1>5. ASSUME NEW i \in 1..m, NEW o \in ObjectsOf(p, i),
               n.steps[i].before[o] # found[n.run][o]
        PROVE  \E x \in 1..(i - 1) : o \in ObjectsOf(p, x) /\ Changed(n, x)
    <2>1. n.steps[i].before = j.steps[i].before  BY <1>2, <1>4
    <2>2. PICK x \in 1..(i - 1) : o \in ObjectsOf(p, x) /\ Changed(j, x)
      BY <1>2, <1>5, <2>1 DEF Honest, m
    <2>3. x \in 1..(m - 1)  BY <1>1, <2>2
    <2>4. QED  BY <1>3, <2>2, <2>3
  <1>6. Honest(p, n, births, found)  BY <1>2, <1>5 DEF Honest
  <1>7. ASSUME NEW o \in Objects, now[o] # found[j.run][o]
        PROVE  \E i \in 1..m : o \in ObjectsOf(p, i) /\ Changed(n, i)
    <2>1. PICK i \in 1..m : o \in ObjectsOf(p, i) /\ Changed(j, i)
      BY <1>7 DEF Accounts, m
    <2>2. CASE i \in 1..(m - 1)  BY <1>3, <2>1, <2>2
    <2>3. CASE i = m /\ Changed(n, m)  BY <2>1, <2>3
    <2>4. CASE i = m /\ ~Changed(n, m)
      <3>1. j.steps[m].before[o] = now[o]  BY <1>2, <2>1, <2>4 DEF Changed, m
      <3>2. PICK x \in 1..(m - 1) : o \in ObjectsOf(p, x) /\ Changed(j, x)
        BY <1>7, <2>1, <2>4, <3>1 DEF Honest, m
      <3>3. x \in 1..m  BY <1>1
      <3>4. QED  BY <1>3, <3>2, <3>3
    <2>5. QED  BY <1>4, <2>2, <2>3, <2>4
  <1>8. Accounts(p, n, now, found)  BY <1>2, <1>7 DEF Accounts
  <1>9. QED  BY <1>6, <1>8 DEF n

-----------------------------------------------------------------------------
(* A step of runner r leaves what the others have alone.                   *)
OthersStill(r) ==
    \A s \in Runners \ {r} :
        /\ pc'[s] = pc[s] /\ job'[s] = job[s] /\ mem'[s] = mem[s] /\ todo'[s] = todo[s]
        /\ degraded'[s] = degraded[s] /\ result'[s] = result[s]

LEMMA HostTypes ==
    ASSUME Invariants
    PROVE  /\ host \in [Objects -> Value]
           /\ todo \in [Runners -> SUBSET (Nat \X Nat)]
           /\ degraded \in [Runners -> BOOLEAN]
           /\ result \in [Runners -> Results]
           /\ origin \in [RunIds -> [Objects -> Value]]
           /\ born \in [RunIds -> Nat]
  BY DEF Invariants, TypeInv, TypeOK, HostType, RunnerType, JournalType, HistoryType

LEMMA OneRunnerMoves ==
    ASSUME Invariants, NEW r \in Runners,
           StartApply(r) \/ StartRollback(r) \/ Progress(r) \/ Signal(r) \/ Crash(r)
    PROVE  OthersStill(r)
  <1> USE RunnerTypes, HostTypes DEF OthersStill, Goto, End, Exit
  <1>1. CASE StartApply(r) \/ StartRollback(r) \/ Signal(r) \/ Crash(r)
    BY <1>1 DEF StartApply, StartRollback, Signal, Crash
  <1>2. CASE TakeLock(r) \/ LockRefused(r) \/ ReleaseLock(r)
    BY <1>2 DEF TakeLock, LockRefused, ReleaseLock
  <1>3. CASE AdmitRefused(r) \/ NextStep(r) \/ Interrupt(r) \/ RunStep(r) \/ StampFailed(r)
    BY <1>3 DEF AdmitRefused, NextStep, Interrupt, RunStep, StampFailed
  <1>4. CASE NewRun(r) \/ CaptureBefore(r) \/ CaptureAfter(r)
    BY <1>4 DEF NewRun, CaptureBefore, CaptureAfter, SavedOr
  <1>5. CASE UndoPreflight(r) \/ Commit(r) \/ Tidy(r) \/ Fallback(r)
    BY <1>5 DEF UndoPreflight, Commit, Tidy, Fallback, SavedOr
  <1>6. CASE RevertObject(r) \/ SettleObject(r)
    <2>1. PICK it \in todo[r] :
            /\ \E x \in PCs : pc' = [pc EXCEPT ![r] = x]
            /\ UNCHANGED <<job, mem>>
            /\ todo' \in {todo, [todo EXCEPT ![r] = @ \ {it}]}
            /\ degraded' \in {degraded, [degraded EXCEPT ![r] = TRUE]}
            /\ UNCHANGED result \/ \E x : result' = [result EXCEPT ![r] = x]
      BY <1>6
      DEF RevertObject, SettleObject, RestoreFailed, PCs, LockedPCs, RevertPCs, ApplyPCs
    <2>2. QED  BY <2>1
  <1>7. CASE RevertDone(r)  BY <1>7 DEF RevertDone
  <1>8. CASE LoadJournal(r) \/ LoadRefused(r) \/ Preflight(r) \/ PreflightRefused(r)
    BY <1>8 DEF LoadJournal, LoadRefused, Preflight, PreflightRefused
  <1>9. CASE Claim(r) \/ Consume(r)  BY <1>9 DEF Claim, Consume
  <1>10. QED
    BY <1>1, <1>2, <1>3, <1>4, <1>5, <1>6, <1>7, <1>8, <1>9
    DEF Progress, ApplyStep, RevertStep, RollbackStep

(* The host and the findings of runs change under the lock only, so what   *)
(* holds of another runner stays so.                                       *)
LEMMA HostStep ==
    ASSUME Invariants, HostInv, NEW r \in Runners, OthersStill(r),
           UNCHANGED <<host, origin>> \/ Holds(r),
           Plain(host'), \A k \in RunIds : Plain(origin'[k]),
           HonestInv', RunnerHost(r)'
    PROVE  HostInv'
  <1>1. ASSUME NEW s \in Runners, s # r PROVE RunnerHost(s)'
    <2>1. /\ pc'[s] = pc[s] /\ mem'[s] = mem[s] /\ todo'[s] = todo[s] /\ job'[s] = job[s]
          /\ degraded'[s] = degraded[s] /\ result'[s] = result[s] /\ Prof(s)' = Prof(s)
      BY <1>1 DEF OthersStill, Prof
    <2>2. RunnerHost(s)  BY DEF HostInv
    <2>3. CASE UNCHANGED <<host, origin>>  BY <2>1, <2>2, <2>3 DEF RunnerHost
    <2>4. CASE Holds(r)
      <3>1. ~Holds(s)  BY <1>1, <2>4 DEF Invariants, LockInv, MutualExclusion
      <3>2. pc[s] \in {"idle", "lock"}  BY <3>1, Waiting
      <3>3. QED
        BY <2>1, <2>2, <3>2
        DEF RunnerHost, Running, RunPCs, Reverts, Reverting, RevertPCs, Outcome
    <2>5. QED  BY <2>3, <2>4
  <1>2. Plain(host)' /\ \A k \in RunIds : Plain(origin[k])'  OBVIOUS
  <1>3. QED  BY <1>1, <1>2 DEF HostInv

(* Journal j is written, or one is dropped, and no run that has begun gets *)
(* other findings: every journal there is stays honest.                    *)
LEMMA HonestAfter ==
    ASSUME Invariants, HonestInv, NEW r \in Runners, NEW j,
           j # NoJournal => j.run \in RunIds /\ Honest(Prof(r), j, born', origin'),
           \A k \in RunIds : born[k] # 0 => born'[k] # 0 /\ origin'[k] = origin[k],
           OthersStill(r),
           mem'[r] \in {NoJournal, mem[r], j},
           mem'[r] # NoJournal => job'[r] = job[r],
           local' = local \/ SaveLocal(r, j) \/ SaveLocal(r, NoJournal),
           \/ remote' = remote
           \/ \E k \in RunIds : remote' = [remote EXCEPT ![Prof(r)][k] = j]
           \/ \E k \in RunIds : remote' = [remote EXCEPT ![Prof(r)][k] = NoJournal]
    PROVE  HonestInv'
  <1> DEFINE p == Prof(r)
  <1>1. p \in Profiles  BY RunnerTypes
  <1>2. ASSUME NEW q \in Profiles, NEW x, x \in Journals, Honest(q, x, born, origin)
        PROVE  Honest(q, x, born', origin')
    <2>1. x.run \in RunIds  BY <1>2 DEF Journals
    <2>2. QED  BY <1>2, <2>1, HonestStill
  <1>3. ASSUME NEW s \in Runners, mem'[s] # NoJournal
        PROVE  Honest(Prof(s)', mem'[s], born', origin')
    <2>1. ASSUME mem'[s] = mem[s], job'[s] = job[s] PROVE Honest(Prof(s)', mem'[s], born', origin')
      <3>1. Honest(Prof(s), mem[s], born, origin) /\ mem[s] \in Journals
        BY <1>3, <2>1, RunnerTypes DEF HonestInv
      <3>2. Honest(Prof(s), mem[s], born', origin')  BY <1>2, <3>1, RunnerTypes
      <3>3. QED  BY <2>1, <3>2 DEF Prof
    <2>2. CASE s # r  BY <2>1, <2>2 DEF OthersStill
    <2>3. CASE s = r /\ mem'[r] = mem[r]  BY <1>3, <2>1, <2>3
    <2>4. CASE s = r /\ mem'[r] = j
      <3>1. job'[r] = job[r] /\ j # NoJournal  BY <1>3, <2>4
      <3>2. QED  BY <2>4, <3>1 DEF Prof
    <2>5. QED  BY <1>3, <2>2, <2>3, <2>4
  <1>4. ASSUME NEW s \in Runners, NEW q \in Profiles, local'[s][q] # NoJournal
        PROVE  Honest(q, local'[s][q], born', origin')
    <2>1. local'[s][q] = local[s][q] \/ (q = p /\ local'[s][q] = j)
      <3> HIDE DEF p
      <3>1. \A x : SaveLocal(r, x) => local'[s][q] \in {local[s][q], x}
                                      /\ (q # p => local'[s][q] = local[s][q])
        BY <1>1, RunnerTypes DEF SaveLocal, p
      <3>2. QED  BY <1>4, <3>1
    <2>2. ASSUME local'[s][q] = local[s][q] PROVE Honest(q, local'[s][q], born', origin')
      <3>1. Honest(q, local[s][q], born, origin) /\ local[s][q] \in Journals
        BY <1>4, <2>2, RunnerTypes DEF HonestInv
      <3>2. QED  BY <1>2, <2>2, <3>1
    <2>3. QED  BY <1>4, <2>1, <2>2
  <1>5. ASSUME NEW q \in Profiles, NEW k \in RunIds, remote'[q][k] # NoJournal
        PROVE  Honest(q, remote'[q][k], born', origin')
    <2>1. remote'[q][k] = remote[q][k] \/ (q = p /\ remote'[q][k] = j)
      <3> HIDE DEF p
      <3>1. \A x, y : y \in RunIds /\ remote' = [remote EXCEPT ![p][y] = x]
                => remote'[q][k] \in {remote[q][k], x}
                   /\ (q # p => remote'[q][k] = remote[q][k])
        BY <1>1, RunnerTypes
      <3>2. QED  BY <1>5, <3>1 DEF p
    <2>2. ASSUME remote'[q][k] = remote[q][k] PROVE Honest(q, remote'[q][k], born', origin')
      <3>1. Honest(q, remote[q][k], born, origin) /\ remote[q][k] \in Journals
        BY <1>5, <2>2, RunnerTypes DEF HonestInv
      <3>2. QED  BY <1>2, <2>2, <3>1
    <2>3. QED  BY <1>5, <2>1, <2>2
  <1>6. QED  BY <1>3, <1>4, <1>5 DEF HonestInv

-----------------------------------------------------------------------------
(* A command that is not applying, reverting or done says nothing.         *)
LEMMA Elsewhere ==
    ASSUME NEW r \in Runners, pc'[r] \in PCs \ (RunPCs \cup Reverting),
           \/ pc'[r] = "idle"
           \/ result'[r] = "none"
           \/ pc'[r] \in {"stamp", "release"} /\ result'[r] \notin {"undone", "reverted"}
    PROVE  RunnerHost(r)'
  BY DEF RunnerHost, Running, Reverts, Outcome, Reverting, RevertPCs, RunPCs

LEMMA StillHost ==
    ASSUME Invariants, HostInv, NEW r \in Runners, OthersStill(r),
           UNCHANGED <<host, origin>>, HonestInv', RunnerHost(r)'
    PROVE  HostInv'
  BY HostStep DEF HostInv

(* The journals stay where they are, or are dropped.                       *)
LEMMA HonestKept ==
    ASSUME Invariants, HonestInv, NEW r \in Runners, UNCHANGED <<born, origin, remote>>,
           OthersStill(r), mem'[r] \in {NoJournal, mem[r]},
           mem'[r] # NoJournal => job'[r] = job[r],
           local' = local \/ SaveLocal(r, mem[r]) \/ SaveLocal(r, NoJournal)
    PROVE  HonestInv'
  <1>1. mem[r] # NoJournal => mem[r].run \in RunIds /\ Honest(Prof(r), mem[r], born, origin)
    BY RunnerTypes DEF HonestInv, Journals
  <1>2. QED  BY <1>1, HonestAfter

(* The command starts or ends.                                             *)
LEMMA StartHost ==
    ASSUME Invariants, HostInv, NEW r \in Runners, OthersStill(r),
           \/ StartApply(r) \/ StartRollback(r) \/ TakeLock(r)
           \/ LockRefused(r) \/ ReleaseLock(r) \/ Crash(r)
    PROVE  HostInv'
  <1>1. UNCHANGED <<host, origin, born, remote, local>>
    BY DEF StartApply, StartRollback, TakeLock, LockRefused, ReleaseLock, Crash, hostVars,
           historyVars
  <1>2. CASE StartApply(r) \/ StartRollback(r) \/ TakeLock(r)
    <2>1. pc[r] \in {"idle", "lock"} /\ mem' = mem
      BY <1>2 DEF StartApply, StartRollback, TakeLock
    <2>2. mem'[r] = NoJournal
      BY <2>1, Waiting DEF Holds, LockedPCs, ApplyPCs, RollbackPCs, RevertPCs
    <2>3. pc'[r] \in {"lock", "admit", "load"} /\ result'[r] = "none"
      <3>1. CASE StartApply(r) \/ StartRollback(r)
        BY <3>1, RunnerTypes, HostTypes DEF StartApply, StartRollback, Goto
      <3>2. CASE TakeLock(r)
        <4>1. pc[r] = "lock" /\ RunnerHost(r)  BY <3>2 DEF TakeLock, HostInv
        <4>2. result[r] = "none"  BY <4>1 DEF RunnerHost, Outcome
        <4>3. QED  BY <3>2, <4>2, RunnerTypes DEF TakeLock, Goto
      <3>3. QED  BY <1>2, <3>1, <3>2
    <2>4. RunnerHost(r)'
      BY <2>3, Elsewhere
      DEF PCs, LockedPCs, ApplyPCs, RollbackPCs, RunPCs, Reverting, RevertPCs
    <2>5. HonestInv'  BY <1>1, <2>2, HonestKept DEF HostInv
    <2>6. QED  BY <1>1, <2>4, <2>5, StillHost
  <1>3. CASE LockRefused(r) \/ ReleaseLock(r) \/ Crash(r)
    <2>1. pc'[r] = "idle" /\ mem'[r] = NoJournal
      BY <1>3, RunnerTypes DEF LockRefused, ReleaseLock, Crash, Exit, Goto
    <2>2. RunnerHost(r)'  BY <2>1, Elsewhere DEF PCs, RunPCs, Reverting, RevertPCs
    <2>3. HonestInv'  BY <1>1, <2>1, HonestKept DEF HostInv
    <2>4. QED  BY <1>1, <2>2, <2>3, StillHost
  <1>4. QED  BY <1>2, <1>3

(* The command gives up, or ends with its journals where they were.        *)
LEMMA EndHost ==
    ASSUME Invariants, HostInv, NEW r \in Runners, OthersStill(r),
           \/ AdmitRefused(r) \/ LoadRefused(r) \/ PreflightRefused(r) \/ Tidy(r)
           \/ Fallback(r)
    PROVE  HostInv'
  <1>1. /\ UNCHANGED <<host, origin, born, remote, mem, job>>
        /\ local' = local \/ SaveLocal(r, mem[r]) \/ SaveLocal(r, NoJournal)
    BY DEF AdmitRefused, LoadRefused, PreflightRefused, Tidy, Fallback, SavedOr, hostVars,
           historyVars
  <1>2. pc'[r] = "release" /\ result'[r] \notin {"undone", "reverted"}
    BY RunnerTypes, HostTypes
    DEF AdmitRefused, LoadRefused, PreflightRefused, Tidy, Fallback, SavedOr, End, Goto
  <1>3. RunnerHost(r)'
    BY <1>2, Elsewhere DEF PCs, LockedPCs, RunPCs, Reverting, RevertPCs
  <1>4. HonestInv'  BY <1>1, HonestKept DEF HostInv
  <1>5. QED  BY <1>1, <1>3, <1>4, StillHost

(* A rollback loads its journal and checks the host; a signal arrives.     *)
LEMMA LoadHost ==
    ASSUME Invariants, HostInv, NEW r \in Runners, OthersStill(r),
           LoadJournal(r) \/ Preflight(r) \/ Signal(r)
    PROVE  HostInv'
  <1>1. UNCHANGED <<host, origin, born, remote, local, job, todo, degraded, result>>
    BY DEF LoadJournal, Preflight, Signal, hostVars, historyVars
  <1>2. RunnerHost(r)  BY DEF HostInv
  <1>3. CASE Signal(r)
    <2>1. mem' = mem /\ pc' = pc  BY <1>3 DEF Signal
    <2>2. RunnerHost(r)'  BY <1>1, <1>2, <2>1 DEF RunnerHost, Prof
    <2>3. HonestInv'  BY <1>1, <2>1, HonestKept DEF HostInv
    <2>4. QED  BY <1>1, <2>2, <2>3, StillHost
  <1>4. CASE LoadJournal(r) \/ Preflight(r)
    <2>1. pc[r] \in {"load", "preflight"}  BY <1>4 DEF LoadJournal, Preflight
    <2>2. result'[r] = "none"  BY <1>1, <1>2, <2>1 DEF RunnerHost, Outcome
    <2>3. pc'[r] \in {"preflight", "claim"}
      BY <1>4, RunnerTypes DEF LoadJournal, Preflight, Goto
    <2>4. RunnerHost(r)'
      BY <2>2, <2>3, Elsewhere
      DEF PCs, LockedPCs, RollbackPCs, RunPCs, Reverting, RevertPCs
    <2>5. HonestInv'
      <3>1. CASE Preflight(r)
        <4>1. mem' = mem  BY <3>1 DEF Preflight
        <4>2. QED  BY <1>1, <4>1, HonestKept DEF HostInv
      <3>2. CASE LoadJournal(r)
        <4>1. PICK j \in Loadable(r) : mem' = [mem EXCEPT ![r] = j]
          BY <3>2 DEF LoadJournal
        <4>2. j \in Journals /\ Honest(Prof(r), j, born, origin)
          <5>1. CASE Has(r, "local")
            BY <4>1, <5>1, RunnerTypes DEF Loadable, HostInv, HonestInv
          <5>2. CASE ~Has(r, "local")
            <6>1. StoredRuns(Prof(r)) # {} /\ j = remote[Prof(r)][Newest(Prof(r))]
              BY <4>1, <5>2 DEF Loadable
            <6>2. Newest(Prof(r)) \in RunIds /\ remote[Prof(r)][Newest(Prof(r))] # NoJournal
              BY <6>1, NewestStored, RunnerTypes DEF Invariants, TypeInv, StoredRuns
            <6>3. QED  BY <6>1, <6>2, RunnerTypes DEF HostInv, HonestInv
          <5>3. QED  BY <5>1, <5>2
        <4>3. j.run \in RunIds /\ mem'[r] = j  BY <4>1, <4>2, RunnerTypes DEF Journals
        <4>4. QED  BY <1>1, <4>2, <4>3, HonestAfter DEF HostInv
      <3>3. QED  BY <1>4, <3>1, <3>2
    <2>6. QED  BY <1>1, <2>4, <2>5, StillHost
  <1>5. QED  BY <1>3, <1>4

-----------------------------------------------------------------------------
(* Apply.                                                                  *)
LEMMA StampHost ==
    ASSUME Invariants, HostInv, NEW r \in Runners, OthersStill(r),
           NextStep(r) \/ Interrupt(r) \/ StampFailed(r)
    PROVE  HostInv'
  <1>1. UNCHANGED <<host, origin, born, remote, job, todo>>
    BY DEF NextStep, Interrupt, StampFailed, hostVars, historyVars
  <1>2. RunnerHost(r) /\ Prof(r) \in Profiles  BY RunnerTypes DEF HostInv
  <1>3. pc[r] \in {"step", "stamp"} /\ pc[r] \in Journalled
    BY DEF NextStep, Interrupt, StampFailed, Journalled, Unloaded, PCs, LockedPCs, ApplyPCs
  <1>4. /\ mem[r] \in Journals /\ Fits(Prof(r), mem[r]) /\ mem[r] # NoJournal
        /\ mem[r].run \in RunIds /\ Honest(Prof(r), mem[r], born, origin)
    BY <1>3, RunnerFacts, NoJournalAssumption DEF Invariants, HostInv, HonestInv, Journals
  <1>5. PICK j \in {mem[r]} \cup {WithStatus(mem[r], s) : s \in {"interrupted", "failed"}} :
          mem' = [mem EXCEPT ![r] = j] /\ (local' = local \/ SaveLocal(r, j))
    <2>1. CASE NextStep(r)
      <3>1. mem' = [mem EXCEPT ![r] = mem[r]] /\ local' = local
        BY <2>1, RunnerTypes DEF NextStep
      <3>2. QED  BY <3>1
    <2>2. CASE Interrupt(r)  BY <2>2 DEF Interrupt, SavedOr
    <2>3. CASE StampFailed(r)  BY <2>3 DEF StampFailed, SavedOr
    <2>4. QED  BY <2>1, <2>2, <2>3
  <1>6. /\ j.run = mem[r].run /\ j.steps = mem[r].steps /\ j # NoJournal
        /\ Honest(Prof(r), j, born, origin)
    <2>1. CASE j = mem[r]  BY <1>4, <2>1
    <2>2. ASSUME NEW s \in {"interrupted", "failed"}, j = WithStatus(mem[r], s)
          PROVE  /\ j.run = mem[r].run /\ j.steps = mem[r].steps /\ j # NoJournal
                 /\ Honest(Prof(r), j, born, origin)
      <3>1. s \in Statuses  BY DEF Statuses
      <3>2. QED  BY <1>2, <1>4, <2>2, <3>1, StampedFits, RestampedSame
    <2>3. QED  BY <1>5, <2>1, <2>2
  <1>7. mem'[r] = j /\ job'[r] = job[r] /\ Prof(r)' = Prof(r)
    BY <1>1, <1>5, RunnerTypes DEF Prof
  <1>8. HonestInv'  BY <1>1, <1>4, <1>5, <1>6, <1>7, HonestAfter DEF HostInv
  <1>9. RunnerHost(r)'
    <2>1. CASE NextStep(r)
      <3>1. pc'[r] \in {"exec", "commit"} /\ result' = result /\ pc[r] = "step"
        BY <2>1, RunnerTypes DEF NextStep, Goto
      <3>2. Accounts(Prof(r), mem[r], host, origin) /\ result[r] = "none"
        BY <1>2, <3>1 DEF RunnerHost, Running, RunPCs, Outcome
      <3>3. Accounts(Prof(r), j, host, origin)
        BY <1>6, <3>2 DEF Accounts, Changed
      <3>4. QED
        BY <1>1, <1>7, <3>1, <3>2, <3>3
        DEF RunnerHost, Running, Reverts, Reverting, RevertPCs, Outcome
    <2>2. CASE Interrupt(r)
      <3>1. /\ pc[r] = "step"
            /\ \/ pc'[r] = "stamp" /\ result'[r] = "failed"
               \/ pc'[r] = "undo" /\ result' = result
        BY <2>2, RunnerTypes, HostTypes DEF Interrupt, Goto
      <3>2. Accounts(Prof(r), mem[r], host, origin) /\ result[r] = "none"
        BY <1>2, <3>1 DEF RunnerHost, Running, RunPCs, Outcome
      <3>3. Accounts(Prof(r), j, host, origin)
        BY <1>6, <3>2 DEF Accounts, Changed
      <3>4. QED
        BY <1>1, <1>7, <3>1, <3>2, <3>3
        DEF RunnerHost, Running, RunPCs, Reverts, Reverting, RevertPCs, Outcome
    <2>3. CASE StampFailed(r)
      <3>1. pc[r] = "stamp" /\ pc'[r] = "release" /\ result' = result
        BY <2>3, RunnerTypes DEF StampFailed, Goto
      <3>2. result[r] # "reverted"
        BY <1>2, <3>1 DEF RunnerHost, Outcome
      <3>3. QED
        BY <1>1, <1>2, <1>6, <1>7, <3>1, <3>2
        DEF RunnerHost, Running, RunPCs, Reverts, Reverting, RevertPCs, Outcome
    <2>4. QED  BY <2>1, <2>2, <2>3
  <1>10. QED  BY <1>1, <1>8, <1>9, StillHost

LEMMA NewRunHost ==
    ASSUME Invariants, HostInv, NEW r \in Runners, OthersStill(r), NewRun(r)
    PROVE  HostInv'
  <1>1. pc[r] = "admit" /\ RunnerHost(r) /\ Prof(r) \in Profiles /\ mem[r] = NoJournal
    BY RunnerTypes, RunnerFacts
    DEF NewRun, HostInv, Invariants, RunnerFits, Unloaded
  <1>2. result[r] = "none" /\ Holds(r)
    BY <1>1 DEF RunnerHost, Outcome, Holds, LockedPCs, ApplyPCs
  <1>3. UNCHANGED <<host, remote, job>>  BY DEF NewRun, hostVars
  <1>4. PICK k \in RunIds :
          LET j == [run |-> k, status |-> "in_progress", steps |-> <<>>] IN
          /\ FreshRun(k)
          /\ \/ /\ SaveLocal(r, j)
                /\ Goto(r, "step")
                /\ mem' = [mem EXCEPT ![r] = j]
                /\ born' = [born EXCEPT ![k] = Cardinality({x \in RunIds : born[x] # 0}) + 1]
                /\ origin' = [origin EXCEPT ![k] = host]
                /\ UNCHANGED result
             \/ UNCHANGED <<mem, born, origin, local>> /\ End(r, "refused")
    BY DEF NewRun, SavedOr
  <1> DEFINE j == [run |-> k, status |-> "in_progress", steps |-> <<>>]
             n == Cardinality({x \in RunIds : born[x] # 0})
  <1>5. CASE UNCHANGED <<mem, born, origin, local>> /\ End(r, "refused")
    <2>1. pc'[r] = "release" /\ result'[r] = "refused"
      BY <1>5, RunnerTypes, HostTypes DEF End, Goto
    <2>2. RunnerHost(r)'
      BY <2>1, Elsewhere DEF PCs, LockedPCs, RunPCs, Reverting, RevertPCs
    <2>3. HonestInv'  BY <1>3, <1>5, HonestKept DEF HostInv
    <2>4. QED  BY <1>3, <1>5, <2>2, <2>3, StillHost
  <1>6. CASE /\ SaveLocal(r, j)
             /\ Goto(r, "step")
             /\ mem' = [mem EXCEPT ![r] = j]
             /\ born' = [born EXCEPT ![k] = n + 1]
             /\ origin' = [origin EXCEPT ![k] = host]
             /\ UNCHANGED result
    <2>1. n \in Nat  BY RunsAssumption, FS_Subset, FS_CardinalityType DEF RunsAssumption
    <2>2. j.run = k /\ j.steps = <<>> /\ Len(j.steps) = 0  OBVIOUS
    <2> HIDE DEF n, j
    <2>3. /\ born'[k] # 0 /\ origin'[k] = host
          /\ \A x \in RunIds \ {k} : born'[x] = born[x] /\ origin'[x] = origin[x]
      BY <1>6, <2>1, HostTypes
    <2>4. \A x \in RunIds : born[x] # 0 => born'[x] # 0 /\ origin'[x] = origin[x]
      BY <1>4, <2>3 DEF FreshRun
    <2>5. pc'[r] = "step" /\ mem'[r] = j /\ job'[r] = job[r] /\ Prof(r)' = Prof(r)
          /\ result'[r] = "none"
      BY <1>2, <1>3, <1>6, RunnerTypes DEF Goto, Prof
    <2>6. Honest(Prof(r), j, born', origin')  BY <2>2, <2>3 DEF Honest
    <2>7. HonestInv'  BY <1>3, <1>6, <2>2, <2>4, <2>5, <2>6, HonestAfter DEF HostInv
    <2>8. Accounts(Prof(r), j, host', origin')  BY <1>3, <2>2, <2>3 DEF Accounts
    <2>9. RunnerHost(r)'
      BY <2>5, <2>8 DEF RunnerHost, Running, Reverts, Reverting, RevertPCs, Outcome
    <2>10. Plain(host') /\ \A x \in RunIds : Plain(origin'[x])
      BY <1>3, <2>3 DEF HostInv
    <2>11. QED  BY <1>2, <2>7, <2>9, <2>10, HostStep
  <1>7. QED  BY <1>4, <1>5, <1>6

(* A capture records what the host is; before a step, all that is not as   *)
(* found is the work of an earlier step.                                   *)
LEMMA CaptureHost ==
    ASSUME Invariants, HostInv, NEW r \in Runners, OthersStill(r),
           CaptureBefore(r) \/ CaptureAfter(r)
    PROVE  HostInv'
  <1> DEFINE p == Prof(r)
             m == Len(mem[r].steps)
  <1>1. /\ p \in Profiles /\ RunnerHost(r)
        /\ pc[r] \in {"exec", "capture"} /\ pc[r] \in Journalled
        /\ RunnerFits(pc[r], p, mem[r], todo[r])
    BY RunnerFacts
    DEF HostInv, Invariants, CaptureBefore, CaptureAfter, Journalled, Unloaded, PCs,
        LockedPCs, ApplyPCs
  <1>2. /\ mem[r] \in Journals /\ Fits(p, mem[r]) /\ mem[r] # NoJournal
        /\ mem[r].run \in RunIds /\ Honest(p, mem[r], born, origin)
        /\ m \in Nat /\ Len(StepsOf[p]) \in Nat
    BY <1>1, RunnerFacts, NoJournalAssumption, RulesAssumption
    DEF Invariants, HostInv, HonestInv, Journals, RulesAssumption
  <1>3. Accounts(p, mem[r], host, origin) /\ result[r] = "none"
    BY <1>1 DEF RunnerHost, Running, RunPCs, Outcome
  <1>4. UNCHANGED <<host, origin, born, remote, job, todo, degraded, result>>
    BY DEF CaptureBefore, CaptureAfter, hostVars, historyVars
  <1>5. \A i \in 1..Len(StepsOf[p]) :
          /\ Snapshot(p, i) \in Capture(p, i)
          /\ \A o \in ObjectsOf(p, i) : o \in Objects /\ Snapshot(p, i)[o] = host[o]
    BY <1>1, HostTypes, SnapshotType, ObjectsOfType DEF Snapshot
  <1>6. ASSUME UNCHANGED <<mem, local>>, pc'[r] = "undo"
        PROVE  HostInv'
    <2>1. HonestInv'  BY <1>4, <1>6, HonestKept DEF HostInv
    <2>2. RunnerHost(r)'
      BY <1>3, <1>4, <1>6
      DEF RunnerHost, Running, Reverts, Reverting, RevertPCs, Outcome, Prof
    <2>3. QED  BY <1>4, <2>1, <2>2, StillHost
  <1>7. ASSUME NEW j, Fits(p, j), j # NoJournal, Honest(p, j, born, origin),
               Accounts(p, j, host, origin),
               mem' = [mem EXCEPT ![r] = j], local' = local \/ SaveLocal(r, j),
               \/ pc'[r] \in {"step", "undo"}
               \/ pc'[r] = "run" /\ j.steps[Len(j.steps)].after = Uncaptured
        PROVE  HostInv'
    <2>1. mem'[r] = j /\ Prof(r)' = p /\ j.run \in RunIds
      BY <1>4, <1>7, RunnerTypes DEF Prof, Fits, Journals
    <2>2. HonestInv'  BY <1>4, <1>7, <2>1, HonestAfter DEF HostInv
    <2>3. RunnerHost(r)'
      BY <1>3, <1>4, <1>7, <2>1
      DEF RunnerHost, Running, Reverts, Reverting, RevertPCs, Outcome
    <2>4. QED  BY <1>4, <2>2, <2>3, StillHost
  <1>8. CASE CaptureBefore(r)
    <2> DEFINE c == Snapshot(p, m + 1)
               j == Recorded(mem[r], c)
    <2>1. pc[r] = "exec" /\ m < Len(StepsOf[p]) /\ m + 1 \in 1..Len(StepsOf[p])
      BY <1>1, <1>2, <1>8 DEF CaptureBefore, RunnerFits
    <2>2. /\ c \in Capture(p, m + 1)
          /\ \A o \in ObjectsOf(p, m + 1) : o \in Objects /\ c[o] = host[o]
      BY <1>5, <2>1
    <2> HIDE DEF c
    <2>3. /\ Fits(p, j) /\ j # NoJournal
          /\ Honest(p, j, born, origin) /\ Accounts(p, j, host, origin)
          /\ j.steps[Len(j.steps)].after = Uncaptured
      <3>0. p \in Profiles /\ Fits(p, mem[r]) /\ m < Len(StepsOf[p]) /\ c \in Capture(p, m + 1)
        BY <1>1, <1>2, <2>1, <2>2
      <3>1. Fits(p, j) /\ j # NoJournal  BY <3>0, AppendedFits
      <3>2. /\ Honest(p, j, born, origin) /\ Accounts(p, j, host, origin)
            /\ j.steps[Len(j.steps)].after = Uncaptured
        BY <1>1, <1>2, <1>3, <2>1, <2>2, RecordedHonest
      <3>3. QED  BY <3>1, <3>2
    <2>4. \/ UNCHANGED <<mem, local>> /\ pc'[r] = "undo"
          \/ /\ mem' = [mem EXCEPT ![r] = j]
             /\ local' = local \/ SaveLocal(r, j)
             /\ pc'[r] \in {"run", "undo"}
      BY <1>8, RunnerTypes DEF CaptureBefore, SavedOr, Goto, c
    <2> HIDE DEF j
    <2>5. QED  BY <1>6, <1>7, <2>3, <2>4
  <1>9. CASE CaptureAfter(r)
    <2> DEFINE c == Snapshot(p, m)
               j == Completed(mem[r], c)
    <2>1. pc[r] = "capture" /\ m > 0 /\ m \in 1..Len(StepsOf[p])
      BY <1>1, <1>2, <1>9 DEF CaptureAfter, RunnerFits, Fits
    <2>2. c \in Capture(p, m) /\ \A o \in ObjectsOf(p, m) : c[o] = host[o]
      BY <1>5, <2>1
    <2> HIDE DEF c
    <2>3. /\ Fits(p, j) /\ j # NoJournal
          /\ Honest(p, j, born, origin) /\ Accounts(p, j, host, origin)
      BY <1>1, <1>2, <1>3, <2>1, <2>2, CompletedFits, CompletedHonest
    <2>4. \/ UNCHANGED <<mem, local>> /\ pc'[r] = "undo"
          \/ /\ mem' = [mem EXCEPT ![r] = j]
             /\ local' = local \/ SaveLocal(r, j)
             /\ pc'[r] \in {"step", "undo"}
      BY <1>9, RunnerTypes DEF CaptureAfter, SavedOr, Goto, c
    <2> HIDE DEF j
    <2>5. QED  BY <1>6, <1>7, <2>3, <2>4
  <1>10. QED  BY <1>8, <1>9

(* A plugin changes objects of the step that is recorded, and no others.   *)
LEMMA PluginsStay ==
    ASSUME Invariants, NEW r \in Runners, RunStep(r)
    PROVE  LET p == Prof(r)
               m == Len(mem[r].steps) IN
           /\ p \in Profiles /\ Fits(p, mem[r]) /\ mem[r] # NoJournal /\ Holds(r)
           /\ m \in 1..Len(mem[r].steps) /\ m \in 1..Len(StepsOf[p])
           /\ \E n \in Nat, halfway \in BOOLEAN : host' = AfterPlugin(p, m, n, halfway)
           /\ \A o \in Objects : o \notin ObjectsOf(p, m) => host'[o] = host[o]
  <1> DEFINE p == Prof(r)
             m == Len(mem[r].steps)
             count == Len(StepsOf[p][m].objects)
  <1>1. /\ p \in Profiles /\ Holds(r) /\ pc[r] = "run" /\ pc[r] \in Journalled
        /\ RunnerFits(pc[r], p, mem[r], todo[r])
    BY RunnerFacts
    DEF Invariants, RunStep, Journalled, Unloaded, PCs, LockedPCs, ApplyPCs, Holds
  <1>2. /\ Fits(p, mem[r]) /\ mem[r] # NoJournal /\ m > 0
        /\ m \in Nat /\ Len(StepsOf[p]) \in Nat
    BY <1>1, RunnerFacts, NoJournalAssumption, RulesAssumption
    DEF Invariants, Journals, RulesAssumption, RunnerFits
  <1>3. m \in 1..Len(mem[r].steps) /\ m \in 1..Len(StepsOf[p])  BY <1>2 DEF Fits
  <1>4. StepsOf[p][m].objects \in Seq(Objects) /\ count \in Nat
    <2>1. StepsOf[p][m] \in Step  BY <1>1, <1>3, ObjectsOfType
    <2>2. StepsOf[p][m].objects \in Seq(Objects)  BY <2>1 DEF Step
    <2>3. QED  BY <2>2, LenProperties
  <1>5. PICK n \in Nat, halfway \in BOOLEAN : host' = AfterPlugin(p, m, n, halfway) /\ n <= count
    <2>1. \/ host' = AfterPlugin(p, m, count, FALSE)
          \/ \E n \in 0..count, halfway \in BOOLEAN : host' = AfterPlugin(p, m, n, halfway)
      BY DEF RunStep, Steps
    <2> HIDE DEF p, m, count
    <2>2. count <= count /\ \A n \in 0..count : n \in Nat /\ n <= count  BY <1>4
    <2>3. QED  BY <1>4, <2>1, <2>2
  <1>6. ASSUME NEW o \in Objects, o \notin ObjectsOf(p, m) PROVE host'[o] = host[o]
    <2> DEFINE objs == StepsOf[p][m].objects
    <2>1. \A k \in 1..Len(objs) : o # objs[k]  BY <1>4, <1>6 DEF ObjectsOf
    <2>2. o \notin {objs[k] : k \in 1..n}  BY <1>4, <1>5, <2>1
    <2>3. n < Len(objs) => o # objs[n + 1]  BY <1>4, <1>5, <2>1
    <2>4. QED  BY <1>5, <1>6, <2>2, <2>3 DEF AfterPlugin
  <1>7. QED  BY <1>1, <1>2, <1>3, <1>5, <1>6

LEMMA RunStepHost ==
    ASSUME Invariants, HostInv, NEW r \in Runners, OthersStill(r), RunStep(r)
    PROVE  HostInv'
  <1> DEFINE p == Prof(r)
             m == Len(mem[r].steps)
  <1>1. /\ p \in Profiles /\ Fits(p, mem[r]) /\ mem[r] # NoJournal /\ Holds(r)
        /\ m \in 1..Len(mem[r].steps) /\ m \in 1..Len(StepsOf[p])
        /\ \E n \in Nat, halfway \in BOOLEAN : host' = AfterPlugin(p, m, n, halfway)
        /\ \A o \in Objects : o \notin ObjectsOf(p, m) => host'[o] = host[o]
    BY PluginsStay
  <1>2. RunnerHost(r) /\ pc[r] = "run"  BY DEF HostInv, RunStep
  <1>3. /\ Accounts(p, mem[r], host, origin) /\ result[r] = "none"
        /\ mem[r].steps[m].after = Uncaptured
    BY <1>2 DEF RunnerHost, Running, RunPCs, Outcome
  <1>4. Changed(mem[r], m)
    <2>1. mem[r].steps[m].before \in Capture(p, m)  BY <1>1 DEF Fits
    <2>2. QED  BY <1>1, <1>3, <2>1, CaptureType DEF Changed
  <1>5. UNCHANGED <<origin, born, remote, local, mem, job, todo, degraded, result>>
    BY DEF RunStep
  <1>6. Plain(host')
    <2>1. PICK n \in Nat, halfway \in BOOLEAN : host' = AfterPlugin(p, m, n, halfway)
      BY <1>1
    <2>2. ASSUME NEW o \in Objects \ Services, host'[o].body = Absent
          PROVE  host'[o].meta = Root
      <3>1. host'[o] \in {host[o], Applied(o, host[o], StepsOf[p][m].want[o]),
                          HalfWritten(o, host[o], StepsOf[p][m].want[o])}
        BY <2>1 DEF AfterPlugin
      <3>2. host[o].body = Absent => host[o].meta = Root  BY DEF HostInv, Plain
      <3>3. QED  BY <2>2, <3>1, <3>2 DEF Applied, HalfWritten
    <2>3. QED  BY <2>2 DEF Plain
  <1>7. Accounts(p, mem[r], host', origin)
    <2>1. SUFFICES ASSUME NEW o \in Objects, host'[o] # origin[mem[r].run][o]
                   PROVE  \E i \in 1..Len(mem[r].steps) :
                            o \in ObjectsOf(p, i) /\ Changed(mem[r], i)
      BY DEF Accounts
    <2>2. CASE o \in ObjectsOf(p, m)  BY <1>1, <1>4, <2>2
    <2>3. CASE o \notin ObjectsOf(p, m)
      <3>1. host'[o] = host[o]  BY <1>1, <2>3
      <3>2. QED  BY <1>3, <2>1, <3>1 DEF Accounts
    <2>4. QED  BY <2>2, <2>3
  <1>8. pc'[r] \in {"capture", "undo"}  BY RunnerTypes DEF RunStep, Goto
  <1>9. RunnerHost(r)'
    <2>1. mem'[r] = mem[r] /\ Prof(r)' = p /\ result'[r] = "none" /\ origin' = origin
      BY <1>3, <1>5 DEF Prof
    <2>2. Accounts(Prof(r)', mem'[r], host', origin')  BY <1>7, <2>1
    <2> HIDE DEF p
    <2>3. QED
      BY <1>3, <1>8, <2>1, <2>2
      DEF RunnerHost, Running, Reverts, Reverting, RevertPCs, Outcome
  <1>10. HonestInv'  BY <1>5, HonestKept DEF HostInv
  <1>11. \A k \in RunIds : Plain(origin'[k])  BY <1>5 DEF HostInv
  <1>12. QED  BY <1>1, <1>6, <1>9, <1>10, <1>11, HostStep

(* The automatic rollback has all to restore, or does not begin.           *)
LEMMA UndoHost ==
    ASSUME NoopsManageNothing, Invariants, HostInv, NEW r \in Runners, OthersStill(r),
           UndoPreflight(r)
    PROVE  HostInv'
  <1> DEFINE p == Prof(r)
  <1>1. /\ p \in Profiles /\ RunnerHost(r) /\ pc[r] = "undo" /\ pc[r] \in Journalled
    BY RunnerFacts
    DEF HostInv, Invariants, UndoPreflight, Journalled, Unloaded, PCs, LockedPCs, ApplyPCs
  <1>2. Fits(p, mem[r])  BY <1>1, RunnerFacts DEF Invariants
  <1>3. Accounts(p, mem[r], host, origin) /\ result[r] = "none"
    BY <1>1 DEF RunnerHost, Running, RunPCs, Outcome
  <1>4. UNCHANGED <<host, origin, born, remote, local, mem, job, degraded>>
    BY DEF UndoPreflight, hostVars
  <1>5. Prof(r)' = p /\ mem'[r] = mem[r]  BY <1>4 DEF Prof
  <1>6. HonestInv'  BY <1>4, HonestKept DEF HostInv
  <1>7. \/ /\ pc'[r] = "revert" /\ result' = result
           /\ todo'[r] = RevertItems(p, mem[r].steps)
        \/ pc'[r] = "stamp" /\ result'[r] = "stuck"
    BY RunnerTypes, HostTypes DEF UndoPreflight, Goto
  <1> HIDE DEF p
  <1>8. CASE pc'[r] = "stamp" /\ result'[r] = "stuck"
    <2>1. RunnerHost(r)'
      BY <1>8, Elsewhere DEF PCs, LockedPCs, ApplyPCs, RunPCs, Reverting, RevertPCs
    <2>2. QED  BY <1>4, <1>6, <2>1, StillHost
  <1>9. CASE /\ pc'[r] = "revert" /\ result' = result
             /\ todo'[r] = RevertItems(p, mem[r].steps)
    <2>1. \A kind : /\ Behind(p, mem[r], todo'[r])
                    /\ RestoredSoFar(p, mem[r], todo'[r], kind, host, origin)
      BY <1>1, <1>2, <1>3, <1>9, AllToRestore
    <2>2. RunnerHost(r)'
      BY <1>3, <1>4, <1>5, <1>9, <2>1
      DEF RunnerHost, Running, RunPCs, Reverts, Outcome
    <2>3. QED  BY <1>4, <1>6, <2>2, StillHost
  <1>10. QED  BY <1>7, <1>8, <1>9

(* The journal goes to the host.                                           *)
LEMMA CommitHost ==
    ASSUME Invariants, HostInv, NEW r \in Runners, OthersStill(r), Commit(r)
    PROVE  HostInv'
  <1> DEFINE j == WithStatus(mem[r], "success")
  <1>1. /\ Prof(r) \in Profiles /\ RunnerHost(r) /\ pc[r] = "commit" /\ pc[r] \in Journalled
    BY RunnerFacts
    DEF HostInv, Invariants, Commit, Journalled, Unloaded, PCs, LockedPCs, ApplyPCs
  <1>2. Fits(Prof(r), mem[r]) /\ Honest(Prof(r), mem[r], born, origin)
    BY <1>1, RunnerFacts, NoJournalAssumption
    DEF Invariants, HostInv, HonestInv, Journals
  <1>3. j.run \in RunIds /\ Honest(Prof(r), j, born, origin)
    BY <1>1, <1>2, StampedFits, RestampedSame DEF Statuses, Fits, Journals
  <1>4. /\ UNCHANGED <<host, origin, born, local, job>>
        /\ mem' = [mem EXCEPT ![r] = j]
        /\ remote' \in {remote, [remote EXCEPT ![Prof(r)][j.run] = j]}
        /\ \E x \in {"tidy", "fallback"} : pc' = [pc EXCEPT ![r] = x]
        /\ result' = result
    BY DEF Commit, Goto
  <1> HIDE DEF j
  <1>5. mem'[r] = j /\ pc'[r] \in {"tidy", "fallback"}  BY <1>4, RunnerTypes
  <1>6. HonestInv'  BY <1>3, <1>4, <1>5, HonestAfter DEF HostInv
  <1>7. result'[r] = "none"  BY <1>1, <1>4 DEF RunnerHost, Outcome
  <1>8. RunnerHost(r)'
    BY <1>5, <1>7, Elsewhere
    DEF PCs, LockedPCs, ApplyPCs, RunPCs, Reverting, RevertPCs
  <1>9. QED  BY <1>4, <1>6, <1>8, StillHost

-----------------------------------------------------------------------------
(* Reverting.  The value a restoration writes first, and the one it ends   *)
(* with.                                                                   *)
Writes(where, o, current, before) ==
    IF where = "revert" THEN HalfWritten(o, current, before)
    ELSE [current EXCEPT !.meta = before.meta]

Before(j, it, o) == j.steps[it[1]].before[o]

(* What a runner does to the restoration it is at: it is done or half      *)
(* done, or it failed, and was tolerated or ended the rollback.            *)
Restores(r, it, o) ==
    LET v == Writes(pc[r], o, host[o], Before(mem[r], it, o)) IN
    /\ IsNextToRevert(Prof(r), todo[r], it)
    /\ it \in ItemsOn(Prof(r), mem[r], o)
    /\ UNCHANGED <<origin, born, remote, local, mem, job>>
    /\ \/ /\ host' = [host EXCEPT ![o] = v]
          /\ pc[r] = "revert" => RestoredInOne(o, Before(mem[r], it, o))
          /\ pc'[r] = "revert" /\ todo'[r] = todo[r] \ {it}
          /\ degraded'[r] = degraded[r] /\ result'[r] = result[r]
       \/ /\ host' = [host EXCEPT ![o] = v]
          /\ pc[r] = "revert" /\ ~RestoredInOne(o, Before(mem[r], it, o))
          /\ pc'[r] = "settle" /\ todo'[r] = todo[r]
          /\ degraded'[r] = degraded[r] /\ result'[r] = result[r]
       \/ /\ host' = host \/ host' = [host EXCEPT ![o] = v]
          /\ pc'[r] = "revert" /\ todo'[r] = todo[r] \ {it}
          /\ degraded'[r] = TRUE /\ result'[r] = result[r]
       \/ /\ host' = host \/ host' = [host EXCEPT ![o] = v]
          /\ pc'[r] \in {"stamp", "release"} /\ result'[r] \in {"stuck", "unfinished"}

LEMMA FailedRestores ==
    ASSUME Invariants, NEW r \in Runners, NEW it \in todo[r], RestoreFailed(r, it)
    PROVE  \/ /\ pc'[r] = "revert" /\ todo'[r] = todo[r] \ {it}
              /\ degraded'[r] = TRUE /\ result'[r] = result[r]
           \/ pc'[r] \in {"stamp", "release"} /\ result'[r] \in {"stuck", "unfinished"}
  BY RunnerTypes, HostTypes DEF RestoreFailed, Goto, End

(* What holds of a runner that reverts.                                    *)
LEMMA RevertFacts ==
    ASSUME Invariants, HostInv, NEW r \in Runners, pc[r] \in Reverting
    PROVE  /\ Prof(r) \in Profiles /\ RunnerHost(r) /\ Holds(r)
           /\ mem[r] # NoJournal /\ Fits(Prof(r), mem[r]) /\ mem[r].run \in RunIds
           /\ Honest(Prof(r), mem[r], born, origin)
           /\ Behind(Prof(r), mem[r], todo[r])
           /\ todo[r] \subseteq Nat \X Nat
           /\ result[r] = "none"
  <1>1. /\ Prof(r) \in Profiles /\ RunnerHost(r) /\ Holds(r)
        /\ pc[r] \in Journalled /\ RunnerFits(pc[r], Prof(r), mem[r], todo[r])
    BY RunnerFacts
    DEF HostInv, Invariants, Reverting, Journalled, Unloaded, PCs, LockedPCs, RevertPCs,
        ApplyPCs, RollbackPCs, Holds
  <1>2. mem[r] # NoJournal /\ Fits(Prof(r), mem[r]) /\ mem[r].run \in RunIds
    <2>1. mem[r] # NoJournal /\ Fits(Prof(r), mem[r])  BY <1>1 DEF RunnerFits
    <2>2. QED  BY <2>1 DEF Fits, Journals
  <1>3. Honest(Prof(r), mem[r], born, origin)  BY <1>2 DEF HostInv, HonestInv
  <1>4. Behind(Prof(r), mem[r], todo[r])  BY <1>1 DEF RunnerHost, Reverts
  <1>5. todo[r] \subseteq Nat \X Nat  BY HostTypes
  <1>6. result[r] = "none"
    BY <1>1 DEF RunnerHost, Outcome, Reverting, RevertPCs
  <1>7. QED  BY <1>1, <1>2, <1>3, <1>4, <1>5, <1>6

LEMMA RestoreCases ==
    ASSUME Invariants, HostInv, NEW r \in Runners, RevertObject(r) \/ SettleObject(r)
    PROVE  \E it \in todo[r], o \in Objects :
             /\ Before(mem[r], it, o) \in Value
             /\ Restores(r, it, o)
  <1>1. pc[r] \in {"revert", "settle"}  BY DEF RevertObject, SettleObject
  <1>2. pc[r] \in Reverting /\ pc[r] \in Journalled
    BY <1>1 DEF Reverting, RevertPCs, Journalled, Unloaded, PCs, LockedPCs
  <1>3. /\ Prof(r) \in Profiles /\ RunnerFits(pc[r], Prof(r), mem[r], todo[r])
        /\ todo[r] \subseteq RevertItems(Prof(r), mem[r].steps)
    BY <1>2, RevertFacts, RunnerFacts DEF Invariants, Behind
  <1> DEFINE O(it) == StepsOf[Prof(r)][it[1]].objects[it[2]]
             B(it) == Before(mem[r], it, O(it))
             V(it) == Writes(pc[r], O(it), host[O(it)], B(it))
  <1>4. PICK it \in todo[r] :
          /\ IsNextToRevert(Prof(r), todo[r], it)
          /\ \/ /\ host' = [host EXCEPT ![O(it)] = V(it)]
                /\ IF pc[r] = "revert" /\ ~RestoredInOne(O(it), B(it))
                   THEN pc' = [pc EXCEPT ![r] = "settle"] /\ todo' = todo
                   ELSE /\ pc' = [pc EXCEPT ![r] = "revert"]
                        /\ todo' = [todo EXCEPT ![r] = @ \ {it}]
                /\ UNCHANGED <<degraded, result>>
             \/ /\ host' = host \/ host' = [host EXCEPT ![O(it)] = V(it)]
                /\ RestoreFailed(r, it)
    <2>1. CASE RevertObject(r)
      BY <2>1 DEF RevertObject, SetHost, Goto, Steps, Writes, Before
    <2>2. CASE SettleObject(r)
      BY <2>2 DEF SettleObject, SetHost, Goto, Steps, Writes, Before
    <2>3. QED  BY <2>1, <2>2
  <1>5. O(it) \in Objects /\ B(it) \in Value  BY <1>3, ItemType DEF Before
  <1>6. it \in ItemsOn(Prof(r), mem[r], O(it))  BY <1>3 DEF ItemsOn
  <1>7. UNCHANGED <<origin, born, remote, local, mem, job>>
    BY DEF RevertObject, SettleObject
  <1>8. Restores(r, it, O(it))
    <2> DEFINE o == O(it)
               b == B(it)
               v == V(it)
    <2>1. CASE RestoreFailed(r, it) /\ (host' = host \/ host' = [host EXCEPT ![o] = v])
      BY <1>4, <1>6, <1>7, <2>1, FailedRestores DEF Restores
    <2>2. CASE /\ host' = [host EXCEPT ![o] = v]
               /\ IF pc[r] = "revert" /\ ~RestoredInOne(o, b)
                  THEN pc' = [pc EXCEPT ![r] = "settle"] /\ todo' = todo
                  ELSE /\ pc' = [pc EXCEPT ![r] = "revert"]
                       /\ todo' = [todo EXCEPT ![r] = @ \ {it}]
               /\ UNCHANGED <<degraded, result>>
      BY <1>4, <1>6, <1>7, <2>2, RunnerTypes, HostTypes DEF Restores
    <2>3. QED  BY <1>4, <2>1, <2>2
  <1>9. QED  BY <1>5, <1>8

(* What a restoration writes is not an absent file with an owner, and what *)
(* it ends with is the value before the step.                              *)
LEMMA WrittenBack ==
    ASSUME Invariants, HostInv, NEW r \in Runners, pc[r] \in {"revert", "settle"},
           NEW it \in todo[r], NEW o \in Objects, Before(mem[r], it, o) \in Value,
           Restores(r, it, o)
    PROVE  LET b == Before(mem[r], it, o)
               v == Writes(pc[r], o, host[o], b) IN
           /\ Plain(host')
           /\ host' # host => \A x \in Objects : host'[x] = IF x = o THEN v ELSE host[x]
           /\ pc[r] = "revert" => v.body = b.body
           /\ pc[r] = "revert" /\ RestoredInOne(o, b) /\ b.meta = Root => v = b
           /\ pc[r] = "settle" => v = b
  <1> DEFINE b == Before(mem[r], it, o)
             v == Writes(pc[r], o, host[o], b)
  <1>1. host \in [Objects -> Value] /\ host[o] \in Value  BY HostTypes
  <1>2. host' = host \/ host' = [host EXCEPT ![o] = v]  BY DEF Restores
  <1>3. b \in Value /\ host[o] \in [body : Bodies, meta : Metas]  BY <1>1 DEF Value
  <1>4. ASSUME pc[r] = "settle" PROVE host[o].body = b.body /\ ~RestoredInOne(o, b)
    <2>1. pc[r] \in Reverting  BY <1>4 DEF Reverting, RevertPCs
    <2>2. HalfRestored(Prof(r), mem[r], todo[r], host)
      BY <1>4, <2>1, RevertFacts DEF RunnerHost, Reverts
    <2>3. StepsOf[Prof(r)][it[1]].objects[it[2]] = o  BY DEF Restores, ItemsOn
    <2>4. IsNextToRevert(Prof(r), todo[r], it)  BY DEF Restores
    <2>5. QED  BY <2>2, <2>3, <2>4 DEF HalfRestored, Before
  <1>5. /\ pc[r] = "revert" => v = HalfWritten(o, host[o], b)
        /\ pc[r] = "settle" => v = [host[o] EXCEPT !.meta = b.meta]
    BY DEF Writes
  <1>6. pc[r] = "settle" => v = b  BY <1>3, <1>4, <1>5 DEF Value
  <1>7. pc[r] = "revert" => v.body = b.body /\ (o \notin Services => v.meta = Root)
    BY <1>5 DEF HalfWritten
  <1>8. pc[r] = "revert" /\ RestoredInOne(o, b) /\ b.meta = Root => v = b
    <2>1. SUFFICES ASSUME pc[r] = "revert", RestoredInOne(o, b), b.meta = Root
                   PROVE  v = b
      OBVIOUS
    <2>2. v = [body |-> b.body, meta |-> Root]  BY <1>5, <2>1 DEF HalfWritten, RestoredInOne
    <2> HIDE DEF v, b
    <2>3. b = [body |-> b.body, meta |-> b.meta]  BY <1>3 DEF Value
    <2>4. QED  BY <2>1, <2>2, <2>3
  <1>9. o \notin Services /\ v.body = Absent => v.meta = Root
    BY <1>4, <1>6, <1>7 DEF RestoredInOne
  <1> HIDE DEF b, v
  <1>10. host' # host => \A x \in Objects : host'[x] = IF x = o THEN v ELSE host[x]
    BY <1>1, <1>2
  <1>11. Plain(host')
    <2>1. Plain(host)  BY DEF HostInv
    <2>2. CASE host' = host  BY <2>1, <2>2
    <2>3. CASE host' # host  BY <1>9, <1>10, <2>1, <2>3 DEF Plain
    <2>4. QED  BY <2>2, <2>3
  <1>12. QED  BY <1>6, <1>7, <1>8, <1>10, <1>11 DEF b, v

LEMMA RestoreHost ==
    ASSUME NoopsManageNothing, ServicesApart, Invariants, HostInv, NEW r \in Runners,
           OthersStill(r), RevertObject(r) \/ SettleObject(r)
    PROVE  HostInv'
  <1>1. pc[r] \in {"revert", "settle"}  BY DEF RevertObject, SettleObject
  <1>2. PICK it \in todo[r], o \in Objects :
          Before(mem[r], it, o) \in Value /\ Restores(r, it, o)
    BY RestoreCases
  <1> DEFINE p == Prof(r)
             b == Before(mem[r], it, o)
             v == Writes(pc[r], o, host[o], b)
  <1>3. /\ p \in Profiles /\ RunnerHost(r) /\ Holds(r)
        /\ mem[r] # NoJournal /\ Fits(p, mem[r]) /\ mem[r].run \in RunIds
        /\ Honest(p, mem[r], born, origin)
        /\ Behind(p, mem[r], todo[r])
        /\ todo[r] \subseteq Nat \X Nat
        /\ result[r] = "none"
    BY <1>1, RevertFacts DEF Reverting, RevertPCs
  <1>4. /\ Plain(host')
        /\ host' # host => \A x \in Objects : host'[x] = IF x = o THEN v ELSE host[x]
        /\ pc[r] = "revert" => v.body = b.body
        /\ pc[r] = "revert" /\ RestoredInOne(o, b) /\ b.meta = Root => v = b
        /\ pc[r] = "settle" => v = b
    BY <1>1, <1>2, WrittenBack
  <1>5. /\ UNCHANGED <<origin, born, remote, local, mem, job>>
        /\ IsNextToRevert(p, todo[r], it) /\ it \in ItemsOn(p, mem[r], o)
    BY <1>2 DEF Restores
  <1>6. HonestInv'  BY <1>5, HonestKept DEF HostInv
  <1>7. Behind(p, mem[r], todo[r] \ {it})  BY <1>3, <1>5, BehindNext
  <1>8. mem'[r] = mem[r] /\ Prof(r)' = p /\ job'[r].kind = job[r].kind  BY <1>5 DEF Prof
  <1>9. ~degraded[r] => RestoredSoFar(p, mem[r], todo[r], job[r].kind, host, origin)
    BY <1>1, <1>3 DEF RunnerHost, Reverts, Reverting, RevertPCs
  <1> HIDE DEF p, v
  <1>10. \/ /\ host' = [host EXCEPT ![o] = v]
            /\ pc[r] = "revert" => RestoredInOne(o, b)
            /\ pc'[r] = "revert" /\ todo'[r] = todo[r] \ {it}
            /\ degraded'[r] = degraded[r] /\ result'[r] = result[r]
         \/ /\ host' = [host EXCEPT ![o] = v]
            /\ pc[r] = "revert" /\ ~RestoredInOne(o, b)
            /\ pc'[r] = "settle" /\ todo'[r] = todo[r]
            /\ degraded'[r] = degraded[r] /\ result'[r] = result[r]
         \/ /\ pc'[r] = "revert" /\ todo'[r] = todo[r] \ {it}
            /\ degraded'[r] = TRUE /\ result'[r] = result[r]
         \/ pc'[r] \in {"stamp", "release"} /\ result'[r] \in {"stuck", "unfinished"}
    BY <1>2 DEF Restores, v
  <1>11. host \in [Objects -> Value]  BY HostTypes
  <1>12. \A k \in RunIds : Plain(origin'[k])  BY <1>5 DEF HostInv
  <1>13. CASE /\ host' = [host EXCEPT ![o] = v]
              /\ pc[r] = "revert" => RestoredInOne(o, b)
              /\ pc'[r] = "revert" /\ todo'[r] = todo[r] \ {it}
              /\ degraded'[r] = degraded[r] /\ result'[r] = result[r]
    <2>1. b = origin[mem[r].run][o] => v = origin[mem[r].run][o]
      <3>1. Plain(origin[mem[r].run])  BY <1>3 DEF HostInv
      <3>2. QED  BY <1>1, <1>4, <1>13, <3>1 DEF Plain, RestoredInOne
    <2>2. \A x \in Objects : host'[x] = IF x = o THEN v ELSE host[x]  BY <1>11, <1>13
    <2>3. ASSUME ~degraded[r]
          PROVE  RestoredSoFar(p, mem[r], todo[r] \ {it}, job[r].kind, host', origin)
      <3>1. RestoredSoFar(p, mem[r], todo[r], job[r].kind, host, origin)  BY <1>9, <2>3
      <3>2. mem[r].steps[it[1]].before[o] = origin[mem[r].run][o] => v = origin[mem[r].run][o]
        BY <2>1 DEF Before
      <3>3. /\ p \in Profiles /\ Fits(p, mem[r]) /\ Honest(p, mem[r], born, origin)
            /\ Behind(p, mem[r], todo[r]) /\ it \in todo[r]
            /\ IsNextToRevert(p, todo[r], it) /\ it \in ItemsOn(p, mem[r], o)
        BY <1>3, <1>5
      <3>4. PutBack(mem[r], it, o, v, host, host', origin)  BY <2>2, <3>2 DEF PutBack
      <3>5. QED  BY <3>1, <3>3, <3>4, RestoredOne
    <2>4. RunnerHost(r)'
      BY <1>3, <1>5, <1>7, <1>8, <1>13, <2>3
      DEF RunnerHost, Running, RunPCs, Reverts, Outcome
    <2>5. QED  BY <1>3, <1>4, <1>6, <1>12, <2>4, HostStep
  <1>14. CASE /\ host' = [host EXCEPT ![o] = v]
              /\ pc[r] = "revert" /\ ~RestoredInOne(o, b)
              /\ pc'[r] = "settle" /\ todo'[r] = todo[r]
              /\ degraded'[r] = degraded[r] /\ result'[r] = result[r]
    <2>1. host'[o].body = b.body /\ \A x \in Objects : x # o => host'[x] = host[x]
      BY <1>4, <1>11, <1>14
    <2>2. HalfRestored(p, mem[r], todo[r], host')
      <3>1. ASSUME NEW y \in todo[r], IsNextToRevert(p, todo[r], y) PROVE y = it
        BY <1>3, <1>5, <3>1, NextIsOne
      <3>2. StepsOf[p][it[1]].objects[it[2]] = o  BY <1>5 DEF ItemsOn
      <3>3. QED  BY <1>14, <2>1, <3>1, <3>2 DEF HalfRestored, Before
    <2>3. ASSUME ~degraded[r]
          PROVE  RestoredSoFar(p, mem[r], todo[r], job[r].kind, host', origin)
      <3>1. RestoredSoFar(p, mem[r], todo[r], job[r].kind, host, origin)  BY <1>9, <2>3
      <3>2. it \in ItemsOn(p, mem[r], o) \cap todo[r]  BY <1>5
      <3>3. QED  BY <2>1, <3>1, <3>2 DEF RestoredSoFar
    <2>4. RunnerHost(r)'
      BY <1>3, <1>5, <1>8, <1>14, <2>2, <2>3
      DEF RunnerHost, Running, RunPCs, Reverts, Outcome
    <2>5. QED  BY <1>3, <1>4, <1>6, <1>12, <2>4, HostStep
  <1>15. CASE /\ pc'[r] = "revert" /\ todo'[r] = todo[r] \ {it}
              /\ degraded'[r] = TRUE /\ result'[r] = result[r]
    <2>1. RunnerHost(r)'
      BY <1>3, <1>7, <1>8, <1>15 DEF RunnerHost, Running, RunPCs, Reverts, Outcome
    <2>2. QED  BY <1>3, <1>4, <1>6, <1>12, <2>1, HostStep
  <1>16. CASE pc'[r] \in {"stamp", "release"} /\ result'[r] \in {"stuck", "unfinished"}
    <2>1. RunnerHost(r)'
      BY <1>16, Elsewhere DEF PCs, LockedPCs, ApplyPCs, RunPCs, Reverting, RevertPCs
    <2>2. QED  BY <1>3, <1>4, <1>6, <1>12, <2>1, HostStep
  <1>17. QED  BY <1>10, <1>13, <1>14, <1>15, <1>16

(* Nothing is left to restore.                                             *)
LEMMA RevertDoneHost ==
    ASSUME Invariants, HostInv, NEW r \in Runners, OthersStill(r), RevertDone(r)
    PROVE  HostInv'
  <1> DEFINE p == Prof(r)
  <1>1. pc[r] = "revert" /\ pc[r] \in Reverting  BY DEF RevertDone, Reverting, RevertPCs
  <1>2. /\ RunnerHost(r) /\ mem[r] # NoJournal /\ result[r] = "none"
        /\ Behind(p, mem[r], todo[r])
    BY <1>1, RevertFacts
  <1>3. ~degraded[r] => RestoredSoFar(p, mem[r], {}, job[r].kind, host, origin)
    BY <1>1, <1>2 DEF RunnerHost, Reverts, RevertDone
  <1>4. UNCHANGED <<host, origin, born, remote, local, mem, job, todo, degraded>>
    BY DEF RevertDone, hostVars, historyVars
  <1>5. /\ todo'[r] = {} /\ mem'[r] = mem[r] /\ Prof(r)' = p
        /\ job'[r] = job[r] /\ degraded'[r] = degraded[r]
    BY <1>4 DEF RevertDone, Prof
  <1>6. HonestInv'  BY <1>4, HonestKept DEF HostInv
  <1>7. \/ /\ job[r].kind = "apply" /\ pc'[r] = "stamp"
           /\ result'[r] = IF degraded[r] THEN "stuck" ELSE "undone"
        \/ pc'[r] = "consume" /\ result'[r] = "none"
    BY <1>2, RunnerTypes, HostTypes DEF RevertDone, Goto
  <1> HIDE DEF p
  <1>8. CASE pc'[r] = "consume" /\ result'[r] = "none"
    <2>1. RunnerHost(r)'
      BY <1>2, <1>3, <1>4, <1>5, <1>8 DEF RunnerHost, Running, RunPCs, Reverts, Outcome, RevertDone
    <2>2. QED  BY <1>4, <1>6, <2>1, StillHost
  <1>9. CASE /\ job[r].kind = "apply" /\ pc'[r] = "stamp"
             /\ result'[r] = IF degraded[r] THEN "stuck" ELSE "undone"
    <2>1. ~degraded[r] => \A o \in Objects : host[o] = origin[mem[r].run][o]
      BY <1>3, <1>9 DEF RestoredSoFar
    <2>2. RunnerHost(r)'
      BY <1>2, <1>4, <1>5, <1>9, <2>1
      DEF RunnerHost, Running, RunPCs, Reverts, Reverting, RevertPCs, Outcome
    <2>3. QED  BY <1>4, <1>6, <2>2, StillHost
  <1>10. QED  BY <1>7, <1>8, <1>9

-----------------------------------------------------------------------------
(* A claimed journal has all to restore.                                   *)
LEMMA ClaimHost ==
    ASSUME NoopsManageNothing, Invariants, HostInv, NEW r \in Runners, OthersStill(r), Claim(r)
    PROVE  HostInv'
  <1> DEFINE p == Prof(r)
             j == WithStatus(mem[r], "rolling_back")
  <1>1. p \in Profiles /\ RunnerHost(r) /\ pc[r] = "claim" /\ pc[r] \in Journalled
    BY RunnerFacts
    DEF HostInv, Invariants, Claim, Journalled, Unloaded, PCs, LockedPCs, RollbackPCs
  <1>2. /\ Fits(p, mem[r]) /\ Honest(p, mem[r], born, origin) /\ result[r] = "none"
        /\ job[r].kind = "rollback"
    <2>1. mem[r] # NoJournal /\ Fits(p, mem[r])
      BY <1>1, RunnerFacts DEF Invariants, RunnerFits
    <2>2. Honest(p, mem[r], born, origin)  BY <2>1 DEF HostInv, HonestInv
    <2>3. result[r] = "none"  BY <1>1 DEF RunnerHost, Outcome
    <2>4. job[r].kind = "rollback"
      BY <1>1 DEF Invariants, JournalInv, RunnerInv, CommandFits, RollbackPCs
    <2>5. QED  BY <2>1, <2>2, <2>3, <2>4
  <1>3. j.run \in RunIds /\ Honest(p, j, born, origin) /\ Fits(p, j) /\ j # NoJournal
    BY <1>1, <1>2, StampedFits, RestampedSame DEF Statuses, Fits, Journals
  <1>4. /\ UNCHANGED <<host, origin, born, job, degraded>>
        /\ \/ local' = local /\ remote' \in {remote, [remote EXCEPT ![p][j.run] = j]}
           \/ SaveLocal(r, j) /\ remote' = remote
        /\ \/ /\ mem' = [mem EXCEPT ![r] = j]
              /\ todo' = [todo EXCEPT ![r] = RevertItems(p, j.steps)]
              /\ pc' = [pc EXCEPT ![r] = "revert"]
              /\ result' = result
           \/ /\ mem' = mem
              /\ pc' = [pc EXCEPT ![r] = "release"]
              /\ result' = [result EXCEPT ![r] = "refused"]
    BY DEF Claim, historyVars, Goto, End
  <1> HIDE DEF j
  <1>5. HonestInv'
    <2>1. mem'[r] \in {NoJournal, mem[r], j}  BY <1>4, RunnerTypes
    <2>2. /\ local' = local \/ SaveLocal(r, j) \/ SaveLocal(r, NoJournal)
          /\ remote' = remote \/ \E k \in RunIds : remote' = [remote EXCEPT ![Prof(r)][k] = j]
      BY <1>3, <1>4
    <2>3. \A k \in RunIds : born[k] # 0 => born'[k] # 0 /\ origin'[k] = origin[k]  BY <1>4
    <2>4. Honest(Prof(r), j, born', origin')  BY <1>3, <1>4
    <2>5. job' = job  BY <1>4
    <2>6. QED  BY <1>3, <2>1, <2>2, <2>3, <2>4, <2>5, HonestAfter DEF HostInv
  <1>6. CASE /\ mem' = mem
             /\ pc' = [pc EXCEPT ![r] = "release"]
             /\ result' = [result EXCEPT ![r] = "refused"]
    <2>1. pc'[r] = "release" /\ result'[r] = "refused"  BY <1>6, RunnerTypes, HostTypes
    <2>2. RunnerHost(r)'
      BY <2>1, Elsewhere DEF PCs, LockedPCs, RunPCs, Reverting, RevertPCs
    <2>3. QED  BY <1>4, <1>5, <2>2, StillHost
  <1>7. CASE /\ mem' = [mem EXCEPT ![r] = j]
             /\ todo' = [todo EXCEPT ![r] = RevertItems(p, j.steps)]
             /\ pc' = [pc EXCEPT ![r] = "revert"]
             /\ result' = result
    <2>1. /\ mem'[r] = j /\ todo'[r] = RevertItems(p, j.steps) /\ pc'[r] = "revert"
          /\ result'[r] = "none" /\ Prof(r)' = p /\ job'[r].kind = "rollback"
      BY <1>2, <1>4, <1>7, RunnerTypes, HostTypes DEF Prof
    <2>2. /\ Behind(p, j, todo'[r])
          /\ RestoredSoFar(p, j, todo'[r], "rollback", host, origin)
      BY <1>1, <1>3, <2>1, AllToRestore
    <2> HIDE DEF p
    <2>3. RunnerHost(r)'
      BY <1>4, <2>1, <2>2 DEF RunnerHost, Running, RunPCs, Reverts, Outcome
    <2>4. QED  BY <1>4, <1>5, <2>3, StillHost
  <1>8. QED  BY <1>4, <1>6, <1>7

(* A rollback that ends well has restored all that its journal changed.    *)
LEMMA ConsumeHost ==
    ASSUME Invariants, HostInv, NEW r \in Runners, OthersStill(r), Consume(r)
    PROVE  HostInv'
  <1> DEFINE p == Prof(r)
  <1>1. pc[r] = "consume" /\ pc[r] \in Reverting  BY DEF Consume, Reverting
  <1>2. RunnerHost(r) /\ mem[r] # NoJournal /\ mem[r].run \in RunIds
    BY <1>1, RevertFacts
  <1>3. ~degraded[r] => RestoredSoFar(p, mem[r], {}, job[r].kind, host, origin)
    BY <1>1, <1>2 DEF RunnerHost, Reverts
  <1>4. /\ UNCHANGED <<host, origin, born, job, mem, degraded>>
        /\ local' = local \/ SaveLocal(r, NoJournal)
        /\ remote' \in {remote, [remote EXCEPT ![p][mem[r].run] = NoJournal]}
    BY DEF Consume, historyVars
  <1>5. pc'[r] = "release" /\ (result'[r] = "reverted" => ~degraded[r]) /\ result'[r] # "undone"
    BY RunnerTypes, HostTypes DEF Consume, End, Goto
  <1>6. HonestInv'
    <2>1. /\ remote' = remote
             \/ \E k \in RunIds : remote' = [remote EXCEPT ![Prof(r)][k] = NoJournal]
          /\ local' = local \/ SaveLocal(r, NoJournal)
      BY <1>2, <1>4
    <2>2. \A k \in RunIds : born[k] # 0 => born'[k] # 0 /\ origin'[k] = origin[k]  BY <1>4
    <2>3. mem'[r] = mem[r] /\ job'[r] = job[r]  BY <1>4
    <2>4. QED  BY <2>1, <2>2, <2>3, HonestAfter DEF HostInv
  <1>7. mem'[r] = mem[r] /\ Prof(r)' = p /\ job'[r] = job[r]  BY <1>4 DEF Prof
  <1>8. result'[r] = "reverted" =>
          \A o \in Objects : ItemsOn(p, mem[r], o) # {} => host[o] = origin[mem[r].run][o]
    BY <1>3, <1>5 DEF RestoredSoFar
  <1> HIDE DEF p
  <1>9. RunnerHost(r)'
    BY <1>2, <1>4, <1>5, <1>7, <1>8
    DEF RunnerHost, Running, RunPCs, Reverts, Reverting, RevertPCs, Outcome
  <1>10. QED  BY <1>4, <1>6, <1>9, StillHost

LEMMA HostKept ==
    ASSUME NoEdits, NoopsManageNothing, ServicesApart
    PROVE  Invariants /\ HostInv /\ [Next]_vars => HostInv'
  <1> SUFFICES ASSUME Invariants, HostInv, [Next]_vars PROVE HostInv'  OBVIOUS
  <1>1. ASSUME NEW r \in Runners,
               StartApply(r) \/ StartRollback(r) \/ Progress(r) \/ Signal(r) \/ Crash(r)
        PROVE  HostInv'
    <2>1. OthersStill(r)  BY <1>1, OneRunnerMoves
    <2>2. QED
      BY <1>1, <2>1, StartHost, EndHost, LoadHost, StampHost, NewRunHost, CaptureHost,
         RunStepHost, UndoHost, CommitHost, RestoreHost, RevertDoneHost, ClaimHost, ConsumeHost
      DEF Progress, ApplyStep, RevertStep, RollbackStep
  <1>2. ASSUME NEW o \in Objects, NEW v \in Edits, Edit(o, v) PROVE FALSE
    BY <1>2 DEF Edit, Fault, NoEdits
  <1>3. CASE RemoveStaleLock \/ UNCHANGED vars
    <2>1. UNCHANGED <<host, remote, pc, job, mem, todo, degraded, result, local, born, origin>>
      BY <1>3 DEF RemoveStaleLock, vars, hostVars, runnerVars, historyVars
    <2>2. QED  BY <2>1 DEF HostInv, HonestInv, RunnerHost, Prof
  <1>4. QED  BY <1>1, <1>2, <1>3 DEF Next

LEMMA HostInit ==
    ASSUME Plain(InitHost)
    PROVE  Init => HostInv
  <1> SUFFICES ASSUME Init PROVE HostInv  OBVIOUS
  <1>1. Plain(host) /\ \A k \in RunIds : Plain(origin[k])  BY DEF Init
  <1>2. HonestInv  BY DEF Init, HonestInv
  <1>3. \A r \in Runners : RunnerHost(r)
    BY DEF Init, RunnerHost, Running, RunPCs, Reverts, Reverting, RevertPCs, Outcome
  <1>4. QED  BY <1>1, <1>2, <1>3 DEF HostInv

-----------------------------------------------------------------------------
(* A finite set of numbers that is not empty has a least one.              *)
LEMMA LeastStep ==
    ASSUME NEW n \in Nat, NEW S, S \subseteq 1..n, S # {}
    PROVE  FirstOf(S) \in S /\ \A x \in S : FirstOf(S) <= x
  <1> DEFINE T == {n - i : i \in S}
  <1>1. S \subseteq Nat /\ \A i \in S : i <= n /\ n - i \in 0..n  OBVIOUS
  <1>2. T \subseteq 0..n /\ T # {}  BY <1>1
  <1> HIDE DEF T
  <1>3. T \subseteq Nat /\ IsFiniteSet(T)
    <2>1. IsFiniteSet(0..n)  BY FS_Interval
    <2>2. IsFiniteSet(T)  BY <1>2, <2>1, FS_Subset
    <2>3. QED  BY <1>2, <2>2
  <1> USE DEF T
  <1>4. PICK t \in T : \A y \in T : y <= t  BY <1>2, <1>3, FiniteSetHasMax
  <1>5. PICK i \in S : t = n - i  BY <1>4
  <1>6. \A x \in S : n - x <= n - i  BY <1>4, <1>5
  <1>7. \A x \in S : i <= x  BY <1>1, <1>6
  <1>8. QED  BY <1>7 DEF FirstOf

LEMMA LastStep ==
    ASSUME NEW n \in Nat, NEW S, S \subseteq 1..n, S # {}
    PROVE  LastOf(S) \in S /\ \A x \in S : x <= LastOf(S)
  <1>1. IsFiniteSet(S) /\ S \subseteq Nat
    <2>1. IsFiniteSet(1..n)  BY FS_Interval
    <2>2. IsFiniteSet(S)  BY <2>1, FS_Subset
    <2>3. QED  BY <2>2
  <1>2. \E k \in S : \A x \in S : x <= k  BY <1>1, FiniteSetHasMax
  <1>3. QED  BY <1>2 DEF LastOf

(* The steps of a journal that capture an object are those that manage it. *)
LEMMA CoveringSteps ==
    ASSUME NEW p \in Profiles, NEW j, Fits(p, j), NEW o
    PROVE  /\ Len(j.steps) \in Nat
           /\ Covering(j, o) = {i \in 1..Len(j.steps) : o \in ObjectsOf(p, i)}
  <1>1. j.steps \in Seq(Records)  BY DEF Fits, Journals
  <1>2. DOMAIN j.steps = 1..Len(j.steps) /\ Len(j.steps) \in Nat  BY <1>1
  <1>3. \A i \in 1..Len(j.steps) : DOMAIN j.steps[i].before = ObjectsOf(p, i)
    BY DEF Fits, Capture
  <1>4. QED  BY <1>2, <1>3 DEF Covering

(* What a journal says its run found of an object is what it found, and an *)
(* object the run changed has a restoration.                               *)
LEMMA HonestBefore ==
    ASSUME NoopsManageNothing, NEW p \in Profiles, NEW j, Fits(p, j),
           NEW births, NEW found, Honest(p, j, births, found),
           NEW o, Covering(j, o) # {}
    PROVE  /\ RunBefore(j, o) = found[j.run][o]
           /\ RunBefore(j, o) # RunAfter(j, o) => ItemsOn(p, j, o) # {}
  <1> DEFINE C == Covering(j, o)
             first == FirstOf(C)
             last == LastOf(C)
  <1>1. Len(j.steps) \in Nat /\ C = {i \in 1..Len(j.steps) : o \in ObjectsOf(p, i)}
    BY CoveringSteps
  <1>2. C \subseteq 1..Len(j.steps) /\ \A i \in C : o \in ObjectsOf(p, i)  BY <1>1
  <1>3. first \in C /\ \A x \in C : first <= x  BY <1>1, <1>2, LeastStep
  <1>4. last \in C /\ \A x \in C : x <= last  BY <1>1, <1>2, LastStep
  <1>5. \A i \in C : \A x \in 1..(i - 1) : o \in ObjectsOf(p, x) => x \in C /\ x < i
    BY <1>1, <1>2
  <1> HIDE DEF C, first, last
  <1>6. j.steps[first].before[o] = found[j.run][o]
    <2>1. SUFFICES ASSUME j.steps[first].before[o] # found[j.run][o] PROVE FALSE  OBVIOUS
    <2>2. PICK x \in 1..(first - 1) : o \in ObjectsOf(p, x)
      BY <1>2, <1>3, <2>1 DEF Honest
    <2>3. x \in C /\ x < first  BY <1>3, <1>5, <2>2
    <2>4. x \in Nat /\ first \in Nat  BY <1>1, <1>2, <1>3, <2>3
    <2>5. QED  BY <1>3, <2>3, <2>4
  <1>7. ASSUME ItemsOn(p, j, o) = {}
        PROVE  j.steps[last].after[o] = found[j.run][o]
    <2>1. \A i \in C : ~Changed(j, i)
      BY <1>2, <1>7, ChangedHasItem
    <2>2. j.steps[last].before = j.steps[last].after  BY <1>4, <2>1 DEF Changed
    <2>3. ASSUME j.steps[last].before[o] # found[j.run][o] PROVE FALSE
      <3>1. PICK x \in 1..(last - 1) : o \in ObjectsOf(p, x) /\ Changed(j, x)
        BY <1>2, <1>4, <2>3 DEF Honest
      <3>2. x \in C  BY <1>4, <1>5, <3>1
      <3>3. QED  BY <2>1, <3>1, <3>2
    <2>4. QED  BY <2>2, <2>3
  <1>8. RunBefore(j, o) = j.steps[first].before[o] /\ RunAfter(j, o) = j.steps[last].after[o]
    BY DEF RunBefore, RunAfter, C, first, last
  <1>9. QED  BY <1>6, <1>7, <1>8

-----------------------------------------------------------------------------
(* "automatic rollback completed": after a failed or interrupted apply the *)
(* rollback of which lost nothing, the host is as the run found it.        *)
THEOREM UndoneApplies ==
    ASSUME NoEdits, NoopsManageNothing, ServicesApart, Plain(InitHost)
    PROVE  Spec => []UndoneMeansRestored
  <1>1. HostInv => UndoneMeansRestored
    BY DEF HostInv, RunnerHost, Outcome, UndoneMeansRestored
  <1>2. Init => HostInv  BY HostInit
  <1>3. Invariants /\ HostInv /\ [Next]_vars => HostInv'  BY HostKept
  <1>4. QED  BY <1>1, <1>2, <1>3, InvariantsHold, PTL DEF Spec

(* A rollback that reports success, resumed or not, has put every object   *)
(* its run changed back to what the run found, whatever order its steps    *)
(* and services were reverted in.                                          *)
THEOREM RevertedRollbacks ==
    ASSUME NoEdits, NoopsManageNothing, ServicesApart, Plain(InitHost)
    PROVE  Spec => []RevertedMeansRestored
  <1>1. Invariants /\ HostInv => RevertedMeansRestored
    <2>1. SUFFICES ASSUME Invariants, HostInv, NEW r \in Runners,
                          pc[r] = "release", result[r] = "reverted",
                          NEW o \in Objects, Covering(mem[r], o) # {},
                          RunBefore(mem[r], o) # RunAfter(mem[r], o)
                   PROVE  host[o] = RunBefore(mem[r], o)
      BY DEF RevertedMeansRestored
    <2>2. /\ mem[r] # NoJournal
          /\ ItemsOn(Prof(r), mem[r], o) # {} => host[o] = origin[mem[r].run][o]
      BY <2>1 DEF HostInv, RunnerHost, Outcome
    <2>3. Prof(r) \in Profiles /\ Fits(Prof(r), mem[r])
      BY <2>1, <2>2, RunnerFacts DEF Invariants, RunnerFits
    <2>4. Honest(Prof(r), mem[r], born, origin)  BY <2>1, <2>2 DEF HostInv, HonestInv
    <2>5. QED  BY <2>1, <2>2, <2>3, <2>4, HonestBefore
  <1>2. Init => HostInv  BY HostInit
  <1>3. Invariants /\ HostInv /\ [Next]_vars => HostInv'  BY HostKept
  <1>4. QED  BY <1>1, <1>2, <1>3, InvariantsHold, PTL DEF Spec

(* Only a step under the lock changes the host.                            *)
LEMMA HostChanges ==
    ASSUME NoEdits, [Next]_vars, host' # host
    PROVE  \E r \in Runners : RunStep(r) \/ RevertObject(r) \/ SettleObject(r)
  <1>1. ASSUME NEW r \in Runners,
               StartApply(r) \/ StartRollback(r) \/ Progress(r) \/ Signal(r) \/ Crash(r)
        PROVE  RunStep(r) \/ RevertObject(r) \/ SettleObject(r)
    <2>1. ~(StartApply(r) \/ StartRollback(r) \/ Signal(r) \/ Crash(r)
             \/ TakeLock(r) \/ LockRefused(r) \/ ReleaseLock(r))
      BY DEF StartApply, StartRollback, Signal, Crash, TakeLock, LockRefused, ReleaseLock,
             hostVars
    <2>2. ~(AdmitRefused(r) \/ NewRun(r) \/ NextStep(r) \/ Interrupt(r) \/ CaptureBefore(r)
             \/ CaptureAfter(r) \/ UndoPreflight(r) \/ StampFailed(r) \/ Commit(r)
             \/ Tidy(r) \/ Fallback(r))
      BY DEF AdmitRefused, NewRun, NextStep, Interrupt, CaptureBefore, CaptureAfter,
             UndoPreflight, StampFailed, Commit, Tidy, Fallback, hostVars
    <2>3. ~(RevertDone(r) \/ RollbackStep(r))
      BY DEF RevertDone, RollbackStep, LoadJournal, LoadRefused, Preflight,
             PreflightRefused, Claim, Consume, hostVars
    <2>4. QED  BY <1>1, <2>1, <2>2, <2>3 DEF Progress, ApplyStep, RevertStep
  <1>2. ~(\E o \in Objects, v \in Edits : Edit(o, v))  BY DEF Edit, Fault, NoEdits
  <1>3. ~RemoveStaleLock /\ ~UNCHANGED vars  BY DEF RemoveStaleLock, vars, hostVars
  <1>4. QED  BY <1>1, <1>2, <1>3 DEF Next

(* Once a service's turn has come, every file is restored: the steps with  *)
(* a service are held back behind all the others.                          *)
LEMMA ServiceTurn ==
    ASSUME ServicesApart, NEW p \in Profiles, NEW j, Fits(p, j), NEW items, Behind(p, j, items),
           NEW it \in items, IsNextToRevert(p, items, it),
           NEW u \in Services, it \in ItemsOn(p, j, u), NEW o \in Objects \ Services
    PROVE  ItemsOn(p, j, o) \cap items = {}
  <1>1. SUFFICES ASSUME NEW y \in items, y \in ItemsOn(p, j, o) PROVE FALSE  OBVIOUS
  <1>2. \A x, q : x \in ItemsOn(p, j, q) =>
          x[1] \in 1..Len(StepsOf[p]) /\ q \in ObjectsOf(p, x[1])
    <2>1. SUFFICES ASSUME NEW x, NEW q, x \in ItemsOn(p, j, q)
                   PROVE  x[1] \in 1..Len(StepsOf[p]) /\ q \in ObjectsOf(p, x[1])
      OBVIOUS
    <2>2. /\ x[1] \in 1..Len(j.steps) /\ x[2] \in DOMAIN StepsOf[p][x[1]].objects
          /\ StepsOf[p][x[1]].objects[x[2]] = q
      BY <2>1, RevertItemsType DEF ItemsOn
    <2>3. Len(j.steps) \in Nat /\ Len(StepsOf[p]) \in Nat
      BY RulesAssumption DEF Fits, Journals, RulesAssumption
    <2>4. QED  BY <2>2, <2>3 DEF Fits, ObjectsOf
  <1>3. HasServiceObjects(p, it[1])  BY <1>2 DEF HasServiceObjects
  <1>4. ~HasServiceObjects(p, y[1])  BY <1>1, <1>2 DEF ServicesApart
  <1>5. y # it  BY <1>3, <1>4
  <1>6. RevertedBefore(p, it, y)  BY <1>1, <1>5 DEF IsNextToRevert
  <1>7. HasServiceObjects(p, it[1]) \in BOOLEAN /\ HasServiceObjects(p, y[1]) \in BOOLEAN
    BY DEF HasServiceObjects
  <1>8. QED  BY <1>3, <1>4, <1>6, <1>7 DEF RevertedBefore

(* "A service is not restarted before the config it depends on has been    *)
(* restored": while a rollback that lost nothing changes a service, every  *)
(* file its run changed is back to what the run found.                     *)
THEOREM FilesBeforeServices ==
    ASSUME NoEdits, NoopsManageNothing, ServicesApart, Plain(InitHost)
    PROVE  Spec => ServicesRevertedLast
  <1> DEFINE Last == \A r \in Runners :
                /\ pc[r] \in RevertPCs /\ ~degraded[r]
                /\ \E u \in Services : host'[u] # host[u]
                => \A o \in Objects \ Services :
                      Covering(mem[r], o) # {} /\ RunBefore(mem[r], o) # RunAfter(mem[r], o)
                          => host[o] = RunBefore(mem[r], o)
  <1>1. Invariants /\ HostInv /\ [Next]_vars => [Last]_vars
    <2>1. SUFFICES ASSUME Invariants, HostInv, [Next]_vars, NEW r \in Runners,
                          pc[r] \in RevertPCs, ~degraded[r],
                          NEW u \in Services, host'[u] # host[u],
                          NEW o \in Objects \ Services, Covering(mem[r], o) # {},
                          RunBefore(mem[r], o) # RunAfter(mem[r], o)
                   PROVE  host[o] = RunBefore(mem[r], o)
      OBVIOUS
    <2>2. pc[r] \in Reverting  BY <2>1 DEF Reverting
    <2>3. /\ Prof(r) \in Profiles /\ RunnerHost(r) /\ Holds(r)
          /\ Fits(Prof(r), mem[r]) /\ Honest(Prof(r), mem[r], born, origin)
          /\ Behind(Prof(r), mem[r], todo[r])
      BY <2>1, <2>2, RevertFacts
    <2>4. RevertObject(r) \/ SettleObject(r)
      <3>1. PICK s \in Runners : RunStep(s) \/ RevertObject(s) \/ SettleObject(s)
        BY <2>1, HostChanges
      <3>2. Holds(s)
        BY <3>1 DEF RunStep, RevertObject, SettleObject, Holds, LockedPCs, ApplyPCs, RevertPCs
      <3>3. s = r  BY <2>1, <2>3, <3>2 DEF Invariants, LockInv, MutualExclusion
      <3>4. QED  BY <2>1, <3>1, <3>3 DEF RunStep, RevertPCs
    <2>5. PICK it \in todo[r], q \in Objects : Restores(r, it, q)
      BY <2>1, <2>4, RestoreCases
    <2>6. q = u
      <3>1. host \in [Objects -> Value] /\ u \in Objects
        BY <2>1, HostTypes, RulesAssumption DEF RulesAssumption
      <3>2. host' = host \/ \E v : host' = [host EXCEPT ![q] = v]  BY <2>5 DEF Restores
      <3>3. QED  BY <2>1, <3>1, <3>2
    <2>7. IsNextToRevert(Prof(r), todo[r], it) /\ it \in ItemsOn(Prof(r), mem[r], u)
      BY <2>5, <2>6 DEF Restores
    <2>8. ItemsOn(Prof(r), mem[r], o) \cap todo[r] = {}
      BY <2>1, <2>3, <2>7, ServiceTurn
    <2>9. /\ RunBefore(mem[r], o) = origin[mem[r].run][o]
          /\ ItemsOn(Prof(r), mem[r], o) # {}
      BY <2>1, <2>3, HonestBefore
    <2>10. RestoredSoFar(Prof(r), mem[r], todo[r], job[r].kind, host, origin)
      BY <2>1, <2>2, <2>3 DEF RunnerHost, Reverts
    <2>11. QED  BY <2>1, <2>8, <2>9, <2>10 DEF RestoredSoFar
  <1>2. Init => HostInv  BY HostInit
  <1>3. Invariants /\ HostInv /\ [Next]_vars => HostInv'  BY HostKept
  <1>4. Spec => [][Last]_vars  BY <1>1, <1>2, <1>3, InvariantsHold, PTL DEF Spec
  <1>5. QED  BY <1>4 DEF ServicesRevertedLast

-----------------------------------------------------------------------------
(* The steps of a profile manage different objects.  (Where two write the  *)
(* same file the automatic rollback refuses what the run itself did.)      *)
StepsApart ==
    \A p \in Profiles : \A i, k \in 1..Len(StepsOf[p]) :
        i # k => ObjectsOf(p, i) \cap ObjectsOf(p, k) = {}

(* The host is as the steps that are captured left it.                     *)
LeftAs(p, j, now) ==
    \A i \in 1..Len(j.steps) :
        j.steps[i].after # Uncaptured =>
            \A o \in ObjectsOf(p, i) : now[o] = j.steps[i].after[o]

RunnerLeft(r) ==
    pc[r] \in RunPCs =>
        /\ pc[r] \in {"run", "capture"} => mem[r].steps[Len(mem[r].steps)].after = Uncaptured
        /\ LeftAs(Prof(r), mem[r], host)

(* UndoAccepted, strengthened to be inductive.                             *)
LeftInv == \A r \in Runners : RunnerLeft(r)

LEMMA LeftStep ==
    ASSUME Invariants, LeftInv, NEW r \in Runners, OthersStill(r),
           host' = host \/ Holds(r), RunnerLeft(r)'
    PROVE  LeftInv'
  <1>1. ASSUME NEW s \in Runners, s # r PROVE RunnerLeft(s)'
    <2>1. pc'[s] = pc[s] /\ mem'[s] = mem[s] /\ Prof(s)' = Prof(s)
      BY <1>1 DEF OthersStill, Prof
    <2>2. RunnerLeft(s)  BY DEF LeftInv
    <2>3. CASE host' = host  BY <2>1, <2>2, <2>3 DEF RunnerLeft
    <2>4. CASE Holds(r)
      <3>1. ~Holds(s)  BY <1>1, <2>4 DEF Invariants, LockInv, MutualExclusion
      <3>2. pc[s] \in {"idle", "lock"}  BY <3>1, Waiting
      <3>3. QED  BY <2>1, <3>2 DEF RunnerLeft, RunPCs
    <2>5. QED  BY <2>3, <2>4
  <1>2. QED  BY <1>1 DEF LeftInv

(* Outside of the steps of a run there is nothing to keep.                 *)
LEMMA LeavesLeft ==
    ASSUME Invariants, LeftInv, NEW r \in Runners, OthersStill(r),
           \/ StartApply(r) \/ StartRollback(r) \/ Crash(r)
           \/ TakeLock(r) \/ LockRefused(r) \/ ReleaseLock(r)
           \/ AdmitRefused(r) \/ UndoPreflight(r) \/ StampFailed(r) \/ Commit(r)
           \/ Tidy(r) \/ Fallback(r) \/ RevertStep(r) \/ RollbackStep(r)
    PROVE  LeftInv'
  <1>1. pc'[r] \notin RunPCs
    <2> USE RunnerTypes DEF RunPCs, Goto, End, Exit
    <2>1. CASE \/ StartApply(r) \/ StartRollback(r) \/ Crash(r)
               \/ TakeLock(r) \/ LockRefused(r) \/ ReleaseLock(r)
      BY <2>1 DEF StartApply, StartRollback, Crash, TakeLock, LockRefused, ReleaseLock
    <2>2. CASE AdmitRefused(r) \/ UndoPreflight(r) \/ StampFailed(r) \/ Commit(r)
      BY <2>2 DEF AdmitRefused, UndoPreflight, StampFailed, Commit
    <2>3. CASE Tidy(r) \/ Fallback(r)  BY <2>3 DEF Tidy, Fallback, SavedOr
    <2>4. CASE RevertObject(r) \/ SettleObject(r)
      BY <2>4 DEF RevertObject, SettleObject, RestoreFailed
    <2>5. CASE RevertDone(r)  BY <2>5 DEF RevertDone
    <2>6. CASE RollbackStep(r)
      BY <2>6 DEF RollbackStep, LoadJournal, LoadRefused, Preflight, PreflightRefused, Claim,
                  Consume
    <2>7. QED  BY <2>1, <2>2, <2>3, <2>4, <2>5, <2>6 DEF RevertStep
  <1>2. host' = host \/ Holds(r)
    <2>1. CASE RevertObject(r) \/ SettleObject(r)
      BY <2>1 DEF RevertObject, SettleObject, Holds, LockedPCs, RevertPCs
    <2>2. CASE ~(RevertObject(r) \/ SettleObject(r))
      BY <2>2
      DEF StartApply, StartRollback, Crash, TakeLock, LockRefused, ReleaseLock, AdmitRefused,
          UndoPreflight, StampFailed, Commit, Tidy, Fallback, RevertStep, RevertDone,
          RollbackStep, LoadJournal, LoadRefused, Preflight, PreflightRefused, Claim, Consume,
          hostVars
    <2>3. QED  BY <2>1, <2>2
  <1>3. QED  BY <1>1, <1>2, LeftStep DEF RunnerLeft

(* A run begins, goes on or is stamped.                                    *)
LEMMA MovesLeft ==
    ASSUME Invariants, LeftInv, NEW r \in Runners, OthersStill(r),
           NewRun(r) \/ NextStep(r) \/ Interrupt(r) \/ Signal(r)
    PROVE  LeftInv'
  <1>1. host' = host /\ job' = job  BY DEF NewRun, NextStep, Interrupt, Signal, hostVars
  <1>2. RunnerLeft(r) /\ Prof(r)' = Prof(r)  BY <1>1 DEF LeftInv, Prof
  <1>3. CASE NewRun(r)
    <2>1. PICK k : \/ pc' = [pc EXCEPT ![r] = "release"]
                   \/ /\ pc' = [pc EXCEPT ![r] = "step"]
                      /\ mem' = [mem EXCEPT ![r] = [run |-> k, status |-> "in_progress",
                                                    steps |-> <<>>]]
      BY <1>3 DEF NewRun, SavedOr, Goto, End
    <2>2. pc'[r] \in RunPCs => pc'[r] = "step" /\ Len(mem'[r].steps) = 0
      <3>1. CASE pc' = [pc EXCEPT ![r] = "release"]  BY <3>1, RunnerTypes DEF RunPCs
      <3>2. CASE /\ pc' = [pc EXCEPT ![r] = "step"]
                 /\ mem' = [mem EXCEPT ![r] = [run |-> k, status |-> "in_progress",
                                               steps |-> <<>>]]
        <4>1. mem'[r].steps = <<>> /\ pc'[r] = "step"  BY <3>2, RunnerTypes
        <4>2. QED  BY <4>1
      <3>3. QED  BY <2>1, <3>1, <3>2
    <2>3. RunnerLeft(r)'  BY <2>2 DEF RunnerLeft, LeftAs
    <2>4. QED  BY <1>1, <2>3, LeftStep
  <1>4. CASE NextStep(r) \/ Interrupt(r) \/ Signal(r)
    <2>1. \/ pc'[r] = pc[r]
          \/ pc[r] = "step" /\ pc'[r] \in {"exec", "commit", "undo", "stamp"}
      BY <1>4, RunnerTypes DEF NextStep, Interrupt, Signal, Goto
    <2>2. mem[r] # NoJournal /\ pc[r] = "step" => mem[r] \in Journals
      BY RunnerTypes
    <2>3. pc[r] = "step" => mem[r] # NoJournal /\ Prof(r) \in Profiles /\ Fits(Prof(r), mem[r])
      BY RunnerFacts
      DEF Invariants, RunnerFits, Journalled, Unloaded, PCs, LockedPCs, ApplyPCs
    <2>4. mem'[r] = mem[r] \/ (pc[r] = "step" /\ mem'[r].steps = mem[r].steps)
      <3>1. CASE NextStep(r) \/ Signal(r)  BY <3>1 DEF NextStep, Signal
      <3>2. CASE Interrupt(r)
        <4>1. pc[r] = "step" /\ mem'[r] = WithStatus(mem[r], "interrupted")
          BY <3>2, RunnerTypes DEF Interrupt
        <4>2. QED  BY <2>3, <4>1, StampedFits DEF Statuses
      <3>3. QED  BY <1>4, <3>1, <3>2
    <2>5. LeftAs(Prof(r), mem[r], host) /\ mem'[r].steps = mem[r].steps
             => LeftAs(Prof(r)', mem'[r], host')
      BY <1>1, <1>2 DEF LeftAs
    <2>6. RunnerLeft(r)'  BY <1>2, <2>1, <2>4, <2>5 DEF RunnerLeft, RunPCs
    <2>7. QED  BY <1>1, <2>6, LeftStep
  <1>5. QED  BY <1>3, <1>4

(* The record of a step says what the host is, and what is recorded of     *)
(* other steps is of other objects.                                        *)
LEMMA CapturesLeft ==
    ASSUME Invariants, LeftInv, NEW r \in Runners, OthersStill(r),
           CaptureBefore(r) \/ CaptureAfter(r)
    PROVE  LeftInv'
  <1> DEFINE p == Prof(r)
             m == Len(mem[r].steps)
  <1>1. /\ p \in Profiles /\ RunnerLeft(r)
        /\ pc[r] \in {"exec", "capture"} /\ pc[r] \in Journalled
        /\ RunnerFits(pc[r], p, mem[r], todo[r])
    BY RunnerFacts
    DEF LeftInv, Invariants, CaptureBefore, CaptureAfter, Journalled, Unloaded, PCs,
        LockedPCs, ApplyPCs
  <1>2. /\ mem[r] \in Journals /\ Fits(p, mem[r]) /\ mem[r] # NoJournal
        /\ m \in Nat /\ Len(StepsOf[p]) \in Nat
    BY <1>1, RunnerFacts, NoJournalAssumption, RulesAssumption
    DEF Invariants, Journals, RulesAssumption
  <1>3. LeftAs(p, mem[r], host)  BY <1>1 DEF RunnerLeft, RunPCs
  <1>4. host' = host /\ job' = job  BY DEF CaptureBefore, CaptureAfter, hostVars
  <1>5. \A i \in 1..Len(StepsOf[p]) :
          /\ Snapshot(p, i) \in Capture(p, i)
          /\ \A o \in ObjectsOf(p, i) : o \in Objects /\ Snapshot(p, i)[o] = host[o]
    BY <1>1, HostTypes, SnapshotType, ObjectsOfType DEF Snapshot
  <1>6. ASSUME mem'[r] = mem[r], pc'[r] = "undo"
        PROVE  LeftInv'
    <2>1. RunnerLeft(r)'  BY <1>3, <1>4, <1>6 DEF RunnerLeft, Prof
    <2>2. QED  BY <1>4, <2>1, LeftStep
  <1>7. CASE CaptureBefore(r)
    <2> DEFINE c == Snapshot(p, m + 1)
               j == Recorded(mem[r], c)
    <2>1. pc[r] = "exec" /\ m < Len(StepsOf[p]) /\ m + 1 \in 1..Len(StepsOf[p])
      BY <1>1, <1>2, <1>7 DEF CaptureBefore, RunnerFits
    <2>2. c \in Capture(p, m + 1)  BY <1>5, <2>1
    <2> HIDE DEF c
    <2>3. p \in Profiles /\ Fits(p, mem[r]) /\ m < Len(StepsOf[p]) /\ c \in Capture(p, m + 1)
      BY <1>1, <1>2, <2>1, <2>2
    <2>4. /\ Len(j.steps) = m + 1
          /\ \A i \in 1..m : j.steps[i] = mem[r].steps[i]
          /\ j.steps[m + 1] = [before |-> c, after |-> Uncaptured]
      BY <2>3, AppendedFits
    <2>5. \/ mem'[r] = mem[r] /\ pc'[r] = "undo"
          \/ mem'[r] = j /\ pc'[r] \in {"run", "undo"}
      BY <1>7, RunnerTypes DEF CaptureBefore, SavedOr, Goto, c
    <2> HIDE DEF j
    <2>6. ASSUME mem'[r] = j, pc'[r] \in {"run", "undo"} PROVE LeftInv'
      <3>1. LeftAs(p, j, host)
        <4>1. \A i \in 1..(m + 1) : i = m + 1 \/ i \in 1..m  BY <1>2
        <4>2. j.steps[m + 1].after = Uncaptured  BY <2>4
        <4>3. QED  BY <1>3, <2>4, <4>1, <4>2 DEF LeftAs
      <3>2. Prof(r)' = p  BY <1>4 DEF Prof
      <3>3. j.steps[Len(j.steps)].after = Uncaptured  BY <2>4
      <3>4. RunnerLeft(r)'  BY <1>4, <2>6, <3>1, <3>2, <3>3 DEF RunnerLeft
      <3>5. QED  BY <1>4, <3>4, LeftStep
    <2>7. QED  BY <1>6, <2>5, <2>6
  <1>8. CASE CaptureAfter(r)
    <2> DEFINE c == Snapshot(p, m)
               j == Completed(mem[r], c)
    <2>1. pc[r] = "capture" /\ m > 0 /\ m \in 1..Len(StepsOf[p])
      BY <1>1, <1>2, <1>8 DEF CaptureAfter, RunnerFits, Fits
    <2>2. c \in Capture(p, m) /\ \A o \in ObjectsOf(p, m) : c[o] = host[o]
      BY <1>5, <2>1
    <2> HIDE DEF c
    <2>3. /\ Len(j.steps) = m
          /\ \A i \in 1..(m - 1) : j.steps[i] = mem[r].steps[i]
          /\ j.steps[m].after = c
      BY <1>1, <1>2, <2>1, <2>2, CompletedFits
    <2>4. \/ mem'[r] = mem[r] /\ pc'[r] = "undo"
          \/ mem'[r] = j /\ pc'[r] \in {"step", "undo"}
      BY <1>8, RunnerTypes DEF CaptureAfter, SavedOr, Goto, c
    <2> HIDE DEF j
    <2>5. ASSUME mem'[r] = j, pc'[r] \in {"step", "undo"} PROVE LeftInv'
      <3>1. LeftAs(p, j, host)
        <4>1. \A i \in 1..m : i = m \/ i \in 1..(m - 1)  BY <1>2
        <4>2. \A i \in 1..(m - 1) : i \in 1..m  BY <1>2
        <4>3. QED  BY <1>3, <2>2, <2>3, <4>1, <4>2 DEF LeftAs
      <3>2. Prof(r)' = p  BY <1>4 DEF Prof
      <3>3. RunnerLeft(r)'  BY <1>4, <2>5, <3>1, <3>2 DEF RunnerLeft
      <3>4. QED  BY <1>4, <3>3, LeftStep
    <2>6. QED  BY <1>6, <2>4, <2>5
  <1>9. QED  BY <1>7, <1>8

(* A plugin changes nothing another step has captured.                     *)
LEMMA PluginsLeft ==
    ASSUME StepsApart, Invariants, LeftInv, NEW r \in Runners, OthersStill(r), RunStep(r)
    PROVE  LeftInv'
  <1> DEFINE p == Prof(r)
             m == Len(mem[r].steps)
  <1>1. /\ p \in Profiles /\ Fits(p, mem[r]) /\ mem[r] # NoJournal /\ Holds(r)
        /\ m \in 1..Len(mem[r].steps) /\ m \in 1..Len(StepsOf[p])
        /\ \A o \in Objects : o \notin ObjectsOf(p, m) => host'[o] = host[o]
    BY PluginsStay
  <1>2. mem[r].steps[m].after = Uncaptured /\ LeftAs(p, mem[r], host)
    BY DEF RunStep, LeftInv, RunnerLeft, RunPCs
  <1>3. mem' = mem /\ Prof(r)' = p  BY DEF RunStep, Prof
  <1>4. LeftAs(p, mem[r], host')
    <2>1. SUFFICES ASSUME NEW i \in 1..Len(mem[r].steps), mem[r].steps[i].after # Uncaptured,
                          NEW o \in ObjectsOf(p, i)
                   PROVE  host'[o] = mem[r].steps[i].after[o]
      BY DEF LeftAs
    <2>2. i # m /\ i \in 1..Len(StepsOf[p])
      <3>1. Len(mem[r].steps) \in Nat /\ Len(StepsOf[p]) \in Nat
        BY <1>1, RulesAssumption DEF Fits, Journals, RulesAssumption
      <3>2. QED  BY <1>1, <1>2, <2>1, <3>1 DEF Fits
    <2>3. o \in Objects /\ o \notin ObjectsOf(p, m)
      BY <1>1, <2>1, <2>2, ObjectsOfType DEF StepsApart
    <2>4. QED  BY <1>1, <1>2, <2>1, <2>3 DEF LeftAs
  <1>5. RunnerLeft(r)'  BY <1>2, <1>3, <1>4 DEF RunnerLeft
  <1>6. QED  BY <1>1, <1>5, LeftStep

LEMMA LeftKept ==
    ASSUME NoEdits, StepsApart
    PROVE  Invariants /\ LeftInv /\ [Next]_vars => LeftInv'
  <1> SUFFICES ASSUME Invariants, LeftInv, [Next]_vars PROVE LeftInv'  OBVIOUS
  <1>1. ASSUME NEW r \in Runners,
               StartApply(r) \/ StartRollback(r) \/ Progress(r) \/ Signal(r) \/ Crash(r)
        PROVE  LeftInv'
    <2>1. OthersStill(r)  BY <1>1, OneRunnerMoves
    <2>2. QED
      BY <1>1, <2>1, LeavesLeft, MovesLeft, CapturesLeft, PluginsLeft DEF Progress, ApplyStep
  <1>2. ASSUME NEW o \in Objects, NEW v \in Edits, Edit(o, v) PROVE FALSE
    BY <1>2 DEF Edit, Fault, NoEdits
  <1>3. CASE RemoveStaleLock \/ UNCHANGED vars
    <2>1. UNCHANGED <<host, pc, job, mem>>
      BY <1>3 DEF RemoveStaleLock, vars, hostVars, runnerVars
    <2>2. QED  BY <2>1 DEF LeftInv, RunnerLeft, Prof
  <1>4. QED  BY <1>1, <1>2, <1>3 DEF Next

(* A failed or interrupted apply whose steps manage different objects, on  *)
(* a host nobody edits, finds no conflict when it goes to roll back what   *)
(* it did: the automatic rollback is not refused by its own preflight.     *)
THEOREM UndosBegin ==
    ASSUME NoEdits, StepsApart
    PROVE  Spec => []UndoAccepted
  <1>1. Invariants /\ LeftInv => UndoAccepted
    <2>1. SUFFICES ASSUME Invariants, LeftInv, NEW r \in Runners, pc[r] = "undo",
                          NEW o \in RollbackConflicts(Prof(r), mem[r].steps, host, FALSE)
                   PROVE  FALSE
      BY DEF UndoAccepted
    <2>2. PICK i \in DOMAIN mem[r].steps : o \in ConflictsAt(Prof(r), mem[r].steps, i, host, FALSE)
      BY <2>1 DEF RollbackConflicts
    <2>3. mem[r] \in Journals
      BY <2>1, RunnerFacts DEF Invariants, Journalled, Unloaded, PCs, LockedPCs, ApplyPCs
    <2>4. i \in 1..Len(mem[r].steps)  BY <2>2, <2>3 DEF Journals
    <2>5. LeftAs(Prof(r), mem[r], host)  BY <2>1 DEF LeftInv, RunnerLeft, RunPCs
    <2>6. QED  BY <2>2, <2>4, <2>5 DEF LeftAs, ConflictsAt
  <1>2. Init => LeftInv  BY DEF Init, LeftInv, RunnerLeft, RunPCs
  <1>3. Invariants /\ LeftInv /\ [Next]_vars => LeftInv'  BY LeftKept
  <1>4. QED  BY <1>1, <1>2, <1>3, InvariantsHold, PTL DEF Spec
-----------------------------------------------------------------------------
(* Edits are spared.  Once a manual rollback without --force-rollback is   *)
(* allowed, what it is to overwrite of others is only what they edited     *)
(* since: at the check there is nothing, a restoration takes its object    *)
(* off the others' work, and nobody else moves the host under the lock     *)
(* but by an edit, which is noted.                                         *)
Allowed == {"claim"} \cup RevertPCs

RunnerRisks(r) ==
    Unforced(r) =>
        /\ pc[r] = "claim" =>
              EditsAtRisk(r, RevertItems(Prof(r), mem[r].steps)) \subseteq late[r]
        /\ pc[r] \in RevertPCs => EditsAtRisk(r, todo[r]) \subseteq late[r]

RiskInv == \A r \in Runners : RunnerRisks(r)

LEMMA RiskTypes ==
    ASSUME Invariants
    PROVE  /\ host \in [Objects -> Value]
           /\ writer \in [Objects -> RunIds \cup {Nobody, Outside}]
           /\ late \in [Runners -> SUBSET Objects]
           /\ todo \in [Runners -> SUBSET (Nat \X Nat)]
  BY DEF Invariants, TypeInv, TypeOK, HostType, JournalType, HistoryType

(* What a runner risks depends on its command, its journal and the host.   *)
LEMMA RisksSame ==
    ASSUME NEW r \in Runners, RunnerRisks(r),
           pc'[r] = pc[r], job'[r] = job[r], mem'[r] = mem[r], todo'[r] = todo[r],
           late[r] \subseteq late'[r],
           \A o \in Objects : \/ o \in late'[r]
                              \/ host'[o] = host[o] /\ writer'[o] = writer[o]
    PROVE  RunnerRisks(r)'
  <1> SUFFICES ASSUME Unforced(r)', pc'[r] \in Allowed PROVE RunnerRisks(r)'
    BY DEF RunnerRisks, Allowed
  <1>1. Unforced(r) /\ Prof(r)' = Prof(r) /\ Steps(r)' = Steps(r)
    BY DEF Unforced, Has, Prof, Steps
  <1>2. ASSUME NEW items, EditsAtRisk(r, items) \subseteq late[r]
        PROVE  EditsAtRisk(r, items)' \subseteq late'[r]
    <2>1. SUFFICES ASSUME NEW o \in EditsAtRisk(r, items)', o \notin late'[r] PROVE FALSE
      OBVIOUS
    <2>2. o \in Objects  BY <2>1 DEF EditsAtRisk
    <2>3. host'[o] = host[o] /\ writer'[o] = writer[o]  BY <2>1, <2>2
    <2>4. o \in EditsAtRisk(r, items)  BY <1>1, <2>1, <2>3 DEF EditsAtRisk
    <2>5. QED  BY <1>2, <2>1, <2>4
  <1>3. pc[r] = "claim" =>
          EditsAtRisk(r, RevertItems(Prof(r), mem[r].steps)) \subseteq late[r]
    BY <1>1 DEF RunnerRisks
  <1>4. pc[r] \in RevertPCs => EditsAtRisk(r, todo[r]) \subseteq late[r]
    BY <1>1 DEF RunnerRisks
  <1>5. pc'[r] = "claim" =>
          EditsAtRisk(r, RevertItems(Prof(r), mem[r].steps))' \subseteq late'[r]
    <2> DEFINE items == RevertItems(Prof(r), mem[r].steps)
    <2>1. items' = items  BY <1>1
    <2>2. pc[r] = "claim" => EditsAtRisk(r, items)' \subseteq late'[r]
      BY <1>2, <1>3, <2>1
    <2>3. QED  BY <2>2
  <1>6. pc'[r] \in RevertPCs => EditsAtRisk(r, todo[r])' \subseteq late'[r]
    BY <1>2, <1>4
  <1>7. QED  BY <1>5, <1>6 DEF RunnerRisks

(* A runner without the lock changes neither the host nor what others risk.*)
LEMMA WaitingLeaves ==
    ASSUME Invariants, NEW s \in Runners, ~Holds(s),
           StartApply(s) \/ StartRollback(s) \/ Progress(s) \/ Signal(s) \/ Crash(s)
    PROVE  /\ UNCHANGED <<host, writer>>
           /\ \A r \in Runners \ {s} : late'[r] = late[r]
  <1>1. pc[s] \in {"idle", "lock"}  BY Waiting
  <1>2. \/ StartApply(s) \/ StartRollback(s) \/ Signal(s) \/ Crash(s)
        \/ TakeLock(s) \/ LockRefused(s)
    <2>1. ~ReleaseLock(s) /\ ~ApplyStep(s) /\ ~RevertStep(s) /\ ~RollbackStep(s)
      BY <1>1
      DEF ReleaseLock, ApplyStep, AdmitRefused, NewRun, NextStep, Interrupt, CaptureBefore,
          RunStep, CaptureAfter, UndoPreflight, StampFailed, Commit, Tidy, Fallback,
          RevertStep, RevertObject, SettleObject, RevertDone, RollbackStep, LoadJournal,
          LoadRefused, Preflight, PreflightRefused, Claim, Consume
    <2>2. QED  BY <2>1 DEF Progress
  <1>3. UNCHANGED <<host, writer>>
    BY <1>2 DEF StartApply, StartRollback, Signal, Crash, TakeLock, LockRefused,
                hostVars, historyVars
  <1>4. late' = late \/ late' = [late EXCEPT ![s] = {}]
    BY <1>2 DEF StartApply, StartRollback, Signal, Crash, TakeLock, LockRefused, Exit,
                historyVars
  <1>5. QED  BY <1>3, <1>4, RiskTypes

(* A step of runner s leaves what another runner risks alone.              *)
LEMMA OthersRisk ==
    ASSUME Invariants, RiskInv, NEW s \in Runners,
           StartApply(s) \/ StartRollback(s) \/ Progress(s) \/ Signal(s) \/ Crash(s),
           NEW r \in Runners, r # s
    PROVE  RunnerRisks(r)'
  <1>1. pc'[r] = pc[r] /\ job'[r] = job[r] /\ mem'[r] = mem[r] /\ todo'[r] = todo[r]
    BY OneRunnerMoves DEF OthersStill
  <1>2. CASE pc[r] \notin Allowed
    BY <1>1, <1>2 DEF RunnerRisks, Allowed, RevertPCs
  <1>3. CASE pc[r] \in Allowed
    <2>1. Holds(r)  BY <1>3 DEF Allowed, Holds, LockedPCs, RollbackPCs
    <2>2. ~Holds(s)  BY <2>1 DEF Invariants, LockInv, MutualExclusion
    <2>3. UNCHANGED <<host, writer>> /\ late'[r] = late[r]  BY <2>2, WaitingLeaves
    <2>4. QED  BY <1>1, <2>3, RisksSame DEF RiskInv
  <1>4. QED  BY <1>2, <1>3

(* A runner that goes where nothing is overwritten risks nothing.          *)
LEMMA ElsewhereNoRisk ==
    ASSUME NEW r \in Runners, pc'[r] \notin Allowed
    PROVE  RunnerRisks(r)'
  BY DEF RunnerRisks, Allowed, RevertPCs

(* The check: a rollback that finds no conflict has nothing to spare.      *)
LEMMA PreflightRisk ==
    ASSUME Invariants, SpareInv, NEW r \in Runners, Preflight(r)
    PROVE  RunnerRisks(r)'
  <1>1. AllCaptured(mem[r]) /\ mem[r] \in Journals
    BY RunnerFacts
    DEF Preflight, SpareInv, RunnerSpares, Invariants, Journalled, Unloaded, PCs, LockedPCs,
        RollbackPCs
  <1>2. /\ UNCHANGED <<job, mem, host, writer>> /\ pc'[r] = "claim"
        /\ Conflicted(r) => Has(r, "force")
    BY RunnerTypes DEF Preflight, Goto, hostVars
  <1> DEFINE items == RevertItems(Prof(r), mem[r].steps)
  <1>3. Unforced(r)' => EditsAtRisk(r, items) = {}
    BY <1>1, <1>2, NoConflictNoRisk DEF Unforced, Has
  <1>4. items' = items /\ EditsAtRisk(r, items)' = EditsAtRisk(r, items)
    BY <1>2 DEF EditsAtRisk, Prof, Steps
  <1> HIDE DEF items
  <1>5. Unforced(r)' => EditsAtRisk(r, items)' = {}  BY <1>3, <1>4
  <1>6. QED  BY <1>2, <1>5 DEF RunnerRisks, RevertPCs, items

(* The claim: the restorations to do are those that were checked.          *)
LEMMA ClaimRisk ==
    ASSUME Invariants, RiskInv, NEW r \in Runners, Claim(r)
    PROVE  RunnerRisks(r)'
  <1> DEFINE j == WithStatus(mem[r], "rolling_back")
             items == RevertItems(Prof(r), mem[r].steps)
  <1>1. pc[r] = "claim" /\ mem[r] \in Journals
    BY RunnerFacts
    DEF Claim, Invariants, Journalled, Unloaded, PCs, LockedPCs, RollbackPCs
  <1>2. j.steps = mem[r].steps  BY <1>1 DEF WithStatus, Journals
  <1>3. /\ UNCHANGED <<job, host, writer, late>>
        /\ \/ /\ mem' = [mem EXCEPT ![r] = j] /\ pc' = [pc EXCEPT ![r] = "revert"]
              /\ todo' = [todo EXCEPT ![r] = RevertItems(Prof(r), j.steps)]
           \/ pc' = [pc EXCEPT ![r] = "release"]
    BY DEF Claim, End, Goto, historyVars
  <1> HIDE DEF j
  <1>4. CASE pc' = [pc EXCEPT ![r] = "release"]
    BY <1>4, ElsewhereNoRisk, RunnerTypes DEF Allowed, RevertPCs
  <1>5. CASE /\ mem' = [mem EXCEPT ![r] = j] /\ pc' = [pc EXCEPT ![r] = "revert"]
             /\ todo' = [todo EXCEPT ![r] = RevertItems(Prof(r), j.steps)]
    <2>1. pc'[r] = "revert" /\ mem'[r].steps = mem[r].steps /\ todo'[r] = items
      BY <1>2, <1>5, RunnerTypes, RiskTypes
    <2> HIDE DEF items
    <2>2. Steps(r)' = Steps(r) /\ Unforced(r)' = Unforced(r)
      BY <1>3 DEF Steps, Prof, Unforced, Has
    <2>3. Unforced(r) => EditsAtRisk(r, items) \subseteq late[r]
      BY <1>1 DEF RiskInv, RunnerRisks, items
    <2>4. EditsAtRisk(r, todo[r])' = EditsAtRisk(r, items)
      BY <1>3, <2>1, <2>2 DEF EditsAtRisk
    <2>5. QED  BY <1>3, <2>1, <2>2, <2>3, <2>4 DEF RunnerRisks
  <1>6. QED  BY <1>3, <1>4, <1>5

(* A restoration: what it writes is nobody's edit any more, and the other  *)
(* objects are as they were.                                               *)
LEMMA RestoreRisk ==
    ASSUME Invariants, RiskInv, NEW r \in Runners, RevertObject(r) \/ SettleObject(r)
    PROVE  RunnerRisks(r)'
  <1> DEFINE O(it) == Steps(r)[it[1]].objects[it[2]]
  <1>1. pc[r] \in RevertPCs  BY DEF RevertObject, SettleObject, RevertPCs
  <1>2. CASE pc'[r] \notin RevertPCs
    <2>1. pc'[r] \notin Allowed
      <3>1. \E x \in {"revert", "settle", "stamp", "release"} : pc' = [pc EXCEPT ![r] = x]
        BY DEF RevertObject, SettleObject, RestoreFailed, Goto, End
      <3>2. QED  BY <1>2, <3>1, RunnerTypes DEF Allowed
    <2>2. QED  BY <2>1, ElsewhereNoRisk
  <1>3. CASE pc'[r] \in RevertPCs
    <2>1. PICK it \in todo[r] :
            /\ host' = host \/ \E v : SetHost(O(it), v)
            /\ todo' \in {todo, [todo EXCEPT ![r] = @ \ {it}]}
            /\ \/ writer' = [writer EXCEPT ![O(it)] = Nobody]
               \/ Overwritten(O(it))
               \/ \E x \in {"stamp", "release"} : pc' = [pc EXCEPT ![r] = x]
      BY DEF RevertObject, SettleObject, RestoreFailed, Goto, End
    <2>2. UNCHANGED <<job, mem, late>>  BY DEF RevertObject, SettleObject
    <2>3. O(it) \in Objects
      <3>1. RunnerFits(pc[r], Prof(r), mem[r], todo[r])  BY RunnerFacts DEF Invariants
      <3>2. Prof(r) \in Profiles  BY RunnerTypes
      <3>3. StepsOf[Prof(r)][it[1]].objects[it[2]] \in Objects  BY <3>1, <3>2, ItemType
      <3>4. QED  BY <3>3 DEF Steps
    <2> HIDE DEF O
    <2>4. writer' = [writer EXCEPT ![O(it)] = Nobody] \/ Overwritten(O(it))
      <3>1. ~ \E x \in {"stamp", "release"} : pc' = [pc EXCEPT ![r] = x]
        BY <1>3, RunnerTypes DEF RevertPCs
      <3>2. QED  BY <2>1, <3>1
    <2>5. Nobody # Outside  BY RunsAssumption DEF RunsAssumption
    <2>6. writer'[O(it)] # Outside
      BY <2>3, <2>4, <2>5, RiskTypes DEF Overwritten
    <2>7. \A o \in Objects \ {O(it)} : host'[o] = host[o] /\ writer'[o] = writer[o]
      BY <2>1, <2>4, RiskTypes DEF SetHost, Overwritten
    <2>8. todo'[r] \subseteq todo[r]  BY <2>1, RiskTypes
    <2>9. Steps(r)' = Steps(r) /\ Unforced(r)' = Unforced(r)
      BY <2>2 DEF Steps, Prof, Unforced, Has
    <2>10. EditsAtRisk(r, todo[r])' \subseteq EditsAtRisk(r, todo[r])
      <3>1. SUFFICES ASSUME NEW o \in EditsAtRisk(r, todo[r])' PROVE o \in EditsAtRisk(r, todo[r])
        OBVIOUS
      <3>2. o \in Objects /\ writer'[o] = Outside  BY <3>1 DEF EditsAtRisk
      <3>3. host'[o] = host[o] /\ writer'[o] = writer[o]  BY <2>6, <2>7, <3>2
      <3>4. QED  BY <2>2, <2>8, <2>9, <3>1, <3>3 DEF EditsAtRisk
    <2>11. Unforced(r) => EditsAtRisk(r, todo[r]) \subseteq late[r]
      BY <1>1 DEF RiskInv, RunnerRisks
    <2>12. QED  BY <1>3, <2>2, <2>9, <2>10, <2>11 DEF RunnerRisks, RevertPCs
  <1>4. QED  BY <1>2, <1>3

(* The other steps of a runner, which end what it was allowed, or are none *)
(* of a rollback.                                                          *)
LEMMA ItsRisk ==
    ASSUME Invariants, SpareInv, RiskInv, NEW r \in Runners,
           StartApply(r) \/ StartRollback(r) \/ Progress(r) \/ Signal(r) \/ Crash(r)
    PROVE  RunnerRisks(r)'
  <1>1. CASE Signal(r) \/ ApplyStep(r)
    <2>1. job[r].kind = "apply"
      <3>1. CommandFits(pc[r], job[r].kind)  BY DEF Invariants, JournalInv, RunnerInv
      <3>2. CASE Signal(r)  BY <3>2 DEF Signal
      <3>3. CASE ApplyStep(r)
        <4>1. pc[r] \in ApplyPCs
          BY <3>3
          DEF ApplyStep, AdmitRefused, NewRun, NextStep, Interrupt, CaptureBefore, RunStep,
              CaptureAfter, UndoPreflight, StampFailed, Commit, Tidy, Fallback, ApplyPCs
        <4>2. QED  BY <3>1, <4>1 DEF CommandFits
      <3>4. QED  BY <1>1, <3>2, <3>3
    <2>2. job' = job
      BY <1>1
      DEF Signal, ApplyStep, AdmitRefused, NewRun, NextStep, Interrupt, CaptureBefore,
          RunStep, CaptureAfter, UndoPreflight, StampFailed, Commit, Tidy, Fallback
    <2>3. QED  BY <2>1, <2>2 DEF RunnerRisks, Unforced
  <1>2. CASE \/ StartApply(r) \/ StartRollback(r) \/ Crash(r) \/ TakeLock(r)
             \/ LockRefused(r) \/ ReleaseLock(r) \/ RevertDone(r) \/ LoadJournal(r)
             \/ LoadRefused(r) \/ PreflightRefused(r) \/ Consume(r)
    <2>1. \E x \in PCs \ Allowed : pc' = [pc EXCEPT ![r] = x]
      BY <1>2
      DEF StartApply, StartRollback, Crash, TakeLock, LockRefused, ReleaseLock, RevertDone,
          LoadJournal, LoadRefused, PreflightRefused, Consume, Exit, End, Goto, Allowed,
          PCs, LockedPCs, ApplyPCs, RollbackPCs, RevertPCs
    <2>2. QED  BY <2>1, ElsewhereNoRisk, RunnerTypes
  <1>3. CASE Preflight(r)  BY <1>3, PreflightRisk
  <1>4. CASE Claim(r)  BY <1>4, ClaimRisk
  <1>5. CASE RevertObject(r) \/ SettleObject(r)  BY <1>5, RestoreRisk
  <1>6. QED
    BY <1>1, <1>2, <1>3, <1>4, <1>5 DEF Progress, RevertStep, RollbackStep

(* An edit of what a rollback is about to overwrite is a late one.         *)
LEMMA EditRisk ==
    ASSUME Invariants, RiskInv, NEW o \in Objects, NEW v \in Edits, Edit(o, v)
    PROVE  RiskInv'
  <1>1. SUFFICES ASSUME NEW r \in Runners PROVE RunnerRisks(r)'
    BY DEF RiskInv
  <1>2. /\ UNCHANGED <<pc, job, mem, todo>>
        /\ host' = [host EXCEPT ![o] = v] /\ writer' = [writer EXCEPT ![o] = Outside]
        /\ late' = [s \in Runners |-> IF pc[s] \in RevertPCs \cup {"claim"}
                                      THEN late[s] \cup {o} ELSE late[s]]
    BY DEF Edit, SetHost, runnerVars
  <1>3. CASE pc[r] \notin Allowed  BY <1>2, <1>3, ElsewhereNoRisk
  <1>4. CASE pc[r] \in Allowed
    <2>1. late'[r] = late[r] \cup {o}  BY <1>2, <1>4 DEF Allowed
    <2>2. \A x \in Objects \ {o} : host'[x] = host[x] /\ writer'[x] = writer[x]
      BY <1>2, RiskTypes
    <2>3. RunnerRisks(r)  BY DEF RiskInv
    <2>4. QED  BY <1>2, <2>1, <2>2, <2>3, RisksSame
  <1>5. QED  BY <1>3, <1>4

LEMMA RiskKept == Invariants /\ SpareInv /\ RiskInv /\ [Next]_vars => RiskInv'
  <1> SUFFICES ASSUME Invariants, SpareInv, RiskInv, [Next]_vars PROVE RiskInv'  OBVIOUS
  <1>1. ASSUME NEW s \in Runners,
               StartApply(s) \/ StartRollback(s) \/ Progress(s) \/ Signal(s) \/ Crash(s)
        PROVE  RiskInv'
    <2>1. RunnerRisks(s)'  BY <1>1, ItsRisk
    <2>2. \A r \in Runners : r # s => RunnerRisks(r)'  BY <1>1, OthersRisk
    <2>3. QED  BY <2>1, <2>2 DEF RiskInv
  <1>2. CASE \E o \in Objects, v \in Edits : Edit(o, v)  BY <1>2, EditRisk
  <1>3. CASE RemoveStaleLock \/ UNCHANGED vars
    <2>1. UNCHANGED <<pc, job, mem, todo, late, host, writer>>
      BY <1>3 DEF RemoveStaleLock, vars, hostVars, runnerVars, historyVars
    <2>2. ASSUME NEW r \in Runners PROVE RunnerRisks(r)'
      BY <2>1, RisksSame DEF RiskInv
    <2>3. QED  BY <2>2 DEF RiskInv
  <1>4. QED  BY <1>1, <1>2, <1>3 DEF Next

(* Without --force-rollback, no restoration of a manual rollback overwrites *)
(* what others edited before the rollback was allowed                       *)
(* (preflightRollbackConflicts, claimJournal, executeRollbackSteps).        *)
THEOREM EditsAreSpared == Spec => []ManualRollbackSparesEdits
  <1>1. Init => RiskInv
    BY DEF Init, RiskInv, RunnerRisks, RevertPCs
  <1>2. RiskInv => ManualRollbackSparesEdits
    BY DEF RiskInv, RunnerRisks, ManualRollbackSparesEdits
  <1>3. QED  BY <1>1, <1>2, SpareInit, SpareKept, RiskKept, InvariantsHold, PTL DEF Spec
=============================================================================
