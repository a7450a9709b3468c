--------------------------- MODULE HardlineRunsProps ---------------------------
(***************************************************************************)
(* What the core protocol promises: the properties of HardlineRuns.        *)
(***************************************************************************)
EXTENDS HardlineRuns

HostType ==
    /\ host \in [Objects -> Value]
    /\ lock \in BOOLEAN

RunnerType ==
    /\ pc \in [Runners -> PCs]
    /\ job \in [Runners -> Jobs]
    /\ degraded \in [Runners -> BOOLEAN]
    /\ cancelled \in [Runners -> BOOLEAN]
    /\ result \in [Runners -> Results]

JournalType ==
    /\ mem \in [Runners -> Journals \cup {NoJournal}]
    /\ todo \in [Runners -> SUBSET (Nat \X Nat)]
    /\ local \in [Runners -> [Profiles -> Journals \cup {NoJournal}]]
    /\ remote \in [Profiles -> [RunIds -> Journals \cup {NoJournal}]]

HistoryType ==
    /\ faults \in 0..MaxFaults
    /\ born \in [RunIds -> Nat]
    /\ origin \in [RunIds -> [Objects -> Value]]
    /\ writer \in [Objects -> RunIds \cup {Nobody, Outside}]
    /\ late \in [Runners -> SUBSET Objects]
    /\ tainted \in BOOLEAN

(* The type of every variable: above all, every journal in memory, on a
   runner and on the host is a journal, and every object has a value. *)
TypeOK == HostType /\ RunnerType /\ JournalType /\ HistoryType

-----------------------------------------------------------------------------
(* At most one apply or rollback is under way on the host, through crashes,
   lost answers to mkdir and rmdir, and operators who remove stale locks. *)
MutualExclusion ==
    \A r, s \in Runners : Holds(r) /\ Holds(s) => r = s

(* A manual rollback reverts nothing before the journal it works from says
   rolling_back where it is stored, and that journal stays as claimed until
   the rollback is done: whenever the runner dies, the next one resumes. *)
ClaimedWhileReverting ==
    \A r \in Runners :
        job[r].kind = "rollback" /\ pc[r] \in RevertPCs \cup {"consume"} =>
            /\ mem[r].status = "rolling_back"
            /\ mem[r] = IF Has(r, "local") THEN local[r][Prof(r)]
                        ELSE remote[Prof(r)][mem[r].run]

(* The journals on the host are those of runs that applied every step and
   captured what each left behind; a later rollback compares the host with
   those captures, and a missing one would be a check not made. *)
StoredJournalsComplete ==
    \A p \in Profiles, k \in RunIds :
        remote[p][k] # NoJournal =>
            /\ Accepted(remote[p][k])
            /\ Len(remote[p][k].steps) = Len(StepsOf[p])
            /\ \A i \in DOMAIN remote[p][k].steps : remote[p][k].steps[i].after # Uncaptured

-----------------------------------------------------------------------------
StoredJournals(k) ==
    { j \in {local[r][p] : r \in Runners, p \in Profiles} \cup {remote[p][k] : p \in Profiles} :
        j # NoJournal /\ j.run = k }

Covering(j, o) == {i \in DOMAIN j.steps : o \in DOMAIN j.steps[i].before}
FirstOf(S) == CHOOSE i \in S : \A x \in S : i <= x
LastOf(S) == CHOOSE i \in S : \A x \in S : x <= i

(* The value run j found object o with, and the one it left it with.       *)
RunBefore(j, o) == j.steps[FirstOf(Covering(j, o))].before[o]
RunAfter(j, o) == j.steps[LastOf(Covering(j, o))].after[o]

(* Write-ahead: every object that still holds what the latest run wrote is
   recorded, with the value the run found it with, in a journal on a disk:
   whatever was killed, lost or refused since the run began. *)
ChangesRecorded ==
    \A o \in Objects :
        LET k == writer[o] IN
        /\ k \in RunIds
        /\ \A other \in RunIds : born[other] <= born[k]
        => \E j \in StoredJournals(k) :
               Covering(j, o) # {} /\ RunBefore(j, o) = origin[k][o]

(* "automatic rollback completed": the host is as the run found it. *)
UndoneMeansRestored ==
    \A r \in Runners :
        pc[r] \in {"stamp", "release"} /\ result[r] = "undone" =>
            \A o \in Objects : host[o] = origin[mem[r].run][o]

(* A manual rollback that ends well, resumed or not, has put every object
   its run changed back to what that run found. *)
RevertedMeansRestored ==
    \A r \in Runners :
        pc[r] = "release" /\ result[r] = "reverted" =>
            \A o \in Objects :
                Covering(mem[r], o) # {} /\ RunBefore(mem[r], o) # RunAfter(mem[r], o)
                    => host[o] = RunBefore(mem[r], o)

(* "A service is not restarted before the config it depends on has been
   restored": while a rollback that has lost nothing touches a service,
   every file its run changed is already back. *)
ServicesRevertedLast ==
    [][ \A r \in Runners :
          /\ pc[r] \in RevertPCs /\ ~degraded[r]
          /\ \E u \in Services : host'[u] # host[u]
          => \A o \in Objects \ Services :
                Covering(mem[r], o) # {} /\ RunBefore(mem[r], o) # RunAfter(mem[r], o)
                    => host[o] = RunBefore(mem[r], o) ]_vars

-----------------------------------------------------------------------------
Quiet ==
    /\ ~tainted
    /\ \A r \in Runners : ~Holds(r)
    /\ HalfReverted = {}

(* The journals on the host that record a change of object o.              *)
Changing(o) ==
    { j \in UNION {{remote[p][k] : k \in StoredRuns(p)} : p \in Profiles} :
        Covering(j, o) # {} /\ RunBefore(j, o) # RunAfter(j, o) }

(* The journals on the host are a stack: between commands, each object's
   journals lead from the value it had before hardline to the one it has
   now, each run starting from what the one before it left.  So rolling
   back every run restores the host, and no failed, interrupted, refused or
   resumed command breaks the chain. *)
JournalsChain ==
    Quiet =>
        \A o \in Objects :
            LET js == Changing(o)
                Earlier(j) == {x \in js : born[x.run] < born[j.run]}
                Latest(S) == CHOOSE j \in S : \A x \in S : born[x.run] <= born[j.run] IN
            /\ host[o] = IF js = {} THEN InitHost[o] ELSE RunAfter(Latest(js), o)
            /\ \A j \in js :
                 RunBefore(j, o) = IF Earlier(j) = {} THEN InitHost[o]
                                   ELSE RunAfter(Latest(Earlier(j)), o)

(* The runs that apply and have not committed, and the stacks of journals.  *)
Active ==
    { <<Prof(r), mem[r].run>> : r \in {s \in Runners :
        /\ job[s].kind = "apply" /\ mem[s] # NoJournal
        /\ remote[Prof(s)][mem[s].run] = NoJournal} }

Stack == INSTANCE JournalStack WITH
    begun <- {k \in RunIds : born[k] # 0},
    active <- Active,
    stack <- [p \in Profiles |-> StoredRuns(p)],
    claimed <- [p \in Profiles |-> {k \in StoredRuns(p) : remote[p][k].status = "rolling_back"}]

(* The protocol implements that abstract stack: no crash, lost answer,
   refused or resumed command, and no interleaving of runners, pushes a run
   that did not finish, pops one that is not the top or was not claimed, or
   touches the stacks while another run is under way. *)
JournalsAreStacked == Stack!Spec

(* The objects that others gave the value they have and that the restorations
   `items` overwrite: neither what the run left there nor what the
   restoration puts back. *)
EditsAtRisk(r, items) ==
    { o \in Objects :
        /\ writer[o] = Outside
        /\ \E it \in items :
             LET record == mem[r].steps[it[1]] IN
             /\ Steps(r)[it[1]].objects[it[2]] = o
             /\ record.before[o] # host[o]
             /\ record.after = Uncaptured \/ record.after[o] # host[o] }

Unforced(r) == job[r].kind = "rollback" /\ ~Has(r, "force")

(* Without --force-rollback, every restoration that a manual rollback makes,
   first attempt or resumed, overwrites no value that others gave an object
   before the rollback was allowed: what is overwritten is the run's own
   work.  What is edited after that (late) is overwritten unseen: the check is
   made once, for all steps, before the claim. *)
ManualRollbackSparesEdits ==
    \A r \in Runners :
        Unforced(r) /\ pc[r] \in RevertPCs => EditsAtRisk(r, todo[r]) \subseteq late[r]

(* The same of the automatic rollback of a failed or interrupted apply:
   "it will not silently force" what was edited before it began. *)
AutomaticRollbackSparesEdits ==
    \A r \in Runners :
        job[r].kind = "apply" /\ pc[r] \in RevertPCs => EditsAtRisk(r, todo[r]) \subseteq late[r]

(* "The next hardline rollback resumes it rather than refusing a host that
   is half reverted": where nobody edits the host, no resumed rollback
   finds a conflict. *)
ResumeAccepted ==
    \A r \in Runners :
        pc[r] = "preflight" /\ mem[r].status = "rolling_back" => ~Conflicted(r)

(* A failed step's earlier steps are rolled back in turn: where nobody
   edits the host, no automatic rollback finds a conflict. *)
UndoAccepted ==
    \A r \in Runners :
        pc[r] = "undo" => RollbackConflicts(Prof(r), mem[r].steps, host, FALSE) = {}

-----------------------------------------------------------------------------
(* Every command ends, killed or not; and one that holds the lock ends with
   the lock given up, whatever it ends with and whatever failed before,
   unless something fails from here on (the rmdir itself, or the runner). *)
CommandsEnd ==
    \A r \in Runners :
        /\ pc[r] # "idle" ~> pc[r] = "idle"
        /\ \A f \in 0..MaxFaults :
             (Holds(r) /\ faults = f) ~> (pc[r] = "idle" /\ ~lock) \/ faults > f

(* A signal that arrives while a step is under way undoes the run, unless
   something fails. *)
InterruptedRunsEndUndone ==
    \A r \in Runners :
        (pc[r] \in {"exec", "run", "capture"} /\ cancelled[r]) ~>
            (pc[r] = "idle" /\ result[r] = "undone") \/ faults > 0
=============================================================================
