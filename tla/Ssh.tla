-------------------------------- MODULE Ssh --------------------------------
(***************************************************************************)
(* The ssh plugin (internals/plugins/ssh): it writes a drop-in that sshd   *)
(* includes, has sshd parse and report the result, and reloads the daemon; *)
(* when anything after the write fails it puts the previous drop-in back.  *)
(* The engine then rolls the failed step back, too, and may roll back one  *)
(* that succeeded.                                                         *)
(*                                                                         *)
(* A policy gives some keywords a value; sshd keeps the first value it     *)
(* reads.  Everything sshd reads but the drop-in is the rest: what comes   *)
(* first, what a Match block of the verify context says, and the drop-ins  *)
(* it does not parse with.  Remote commands fail with or without effect.   *)
(* Bound of the model: MaxFaults.                                          *)
(***************************************************************************)
EXTENDS Naturals

CONSTANTS
    Keys, Values,
    KeyAuth, Yes,      \* PubkeyAuthentication, and the value that keeps it
    Unset,
    Wants,             \* the policies profiles declare
    Rejected,          \* those sshd refuses by themselves
    Rests,             \* what else sshd may read
    FaultKinds,        \* subset of {"command", "crash", "edit", "reload"}
    MaxFaults

Policies == [Keys -> Values \cup {Unset}]
NoDropIn == [k \in Keys |-> Unset]
Disks == [drop : Wants \cup {NoDropIn}, rest : Rests]

ASSUME SshAssumption ==
    /\ KeyAuth \in Keys /\ Yes \in Values /\ Unset \notin Values
    /\ Wants \subseteq Policies \ {NoDropIn} /\ Rejected \subseteq Wants
    /\ Rests \subseteq [first : Policies, match : Policies, clash : SUBSET Wants]
    /\ MaxFaults \in Nat

VARIABLES
    disk,      \* what sshd would read now
    daemon,    \* what the running sshd has read
    pc, want,
    saved,     \* the drop-in the engine captured
    before,    \* the drop-in the plugin found
    reloaded,  \* whether the plugin has tried to reload
    undoing,   \* whether the engine is rolling the step back
    unread,    \* history: an edit, or a run that was killed or could not be
               \* undone, may have left on disk what no run has vetted
    behind,    \* history: on disk is what the daemon has not read, and it is
               \* not this step that put it there
    faults

vars == <<disk, daemon, pc, want, saved, before, reloaded, undoing, unread, behind, faults>>
run == <<want, saved, before, reloaded, undoing>>
history == <<unread, behind>>

-----------------------------------------------------------------------------
(* sshd.                                                                   *)
Parses(d) == d.drop \notin Rejected \cup d.rest.clash

Effective(d, matched) ==
    [k \in Keys |->
        IF matched /\ d.rest.match[k] # Unset THEN d.rest.match[k]
        ELSE IF d.rest.first[k] # Unset THEN d.rest.first[k]
        ELSE IF d.drop[k] # Unset THEN d.drop[k] ELSE Yes]

(* assertKeyAuthSurvives.                                                  *)
KeyAuthSurvives(d) == Effective(d, FALSE)[KeyAuth] = Yes

(* DivergentSettings finds nothing, globally and in the verify context.    *)
Carries(d, w) ==
    \A matched \in BOOLEAN, k \in Keys :
        w[k] # Unset => Effective(d, matched)[k] = w[k]

(* verifyEffective: sshd -T reads the disk.                                *)
Verifies(d, w) == Parses(d) /\ Carries(d, w)

Fault(kind) == kind \in FaultKinds /\ faults < MaxFaults /\ faults' = faults + 1

(* A command that only looks goes well if the host allows, or fails.       *)
Looks(holds, good, bad) ==
    \/ holds /\ pc' = good /\ UNCHANGED faults
    \/ ~holds /\ pc' = bad /\ UNCHANGED faults
    \/ Fault("command") /\ pc' = bad

(* A command that writes the drop-in.                                      *)
Writes(drop, good, bad) ==
    \/ disk' = [disk EXCEPT !.drop = drop] /\ pc' = good /\ UNCHANGED faults
    \/ Fault("command") /\ pc' = bad /\ disk' \in {disk, [disk EXCEPT !.drop = drop]}

(* systemctl reload: sshd refuses to reload what it does not parse.        *)
Loads(good, bad) ==
    \/ Parses(disk) /\ daemon' = disk /\ pc' = good /\ UNCHANGED faults
    \/ ~Parses(disk) /\ pc' = bad /\ UNCHANGED <<daemon, faults>>
    \/ /\ Fault("command") /\ pc' = bad
       /\ daemon' \in {daemon} \cup {d \in {disk} : Parses(d)}

Reads == behind' = (behind /\ daemon' # disk)

Init ==
    /\ disk \in { d \in Disks : Parses(d) /\ KeyAuthSurvives(d) }
    /\ daemon = disk
    /\ pc = "ready" /\ want = NoDropIn
    /\ saved = NoDropIn /\ before = NoDropIn
    /\ reloaded = FALSE /\ undoing = FALSE
    /\ unread = FALSE /\ behind = FALSE /\ faults = 0

-----------------------------------------------------------------------------
(* The engine captures the drop-in.                                        *)
Capture ==
    /\ pc = "ready" /\ pc' = "captured"
    /\ want' \in Wants
    /\ saved' = disk.drop
    /\ behind' = (daemon # disk)
    /\ UNCHANGED <<disk, daemon, before, reloaded, undoing, unread, faults>>

(* Mutant: a drop-in that matches is enough.                               *)
MatchIsEnough ==
    /\ pc = "captured"
    /\ before' = disk.drop
    /\ IF disk.drop = want THEN pc' = "done" /\ UNCHANGED faults
       ELSE Looks(TRUE, "stage", "failed")
    /\ UNCHANGED <<disk, daemon, want, saved, reloaded, undoing, history>>

(* Apply: a drop-in that matches and is in effect needs nothing.           *)
Look ==
    /\ pc = "captured"
    /\ before' = disk.drop
    /\ IF disk.drop = want THEN Looks(Verifies(disk, want), "done", "check")
       ELSE Looks(TRUE, "stage", "failed")
    /\ UNCHANGED <<disk, daemon, want, saved, reloaded, undoing, history>>

(* install: the candidate is written beside the drop-in and parsed alone,  *)
Stage ==
    /\ pc = "stage"
    /\ Looks(want \notin Rejected, "move", "failed")
    /\ UNCHANGED <<disk, daemon, run, history>>

(* and then moved over it.                                                 *)
Move ==
    /\ pc = "move"
    /\ Writes(want, "check", "failed")
    /\ UNCHANGED <<daemon, run, history>>

(* activate: sshd -t of everything,                                        *)
Check ==
    /\ pc = "check"
    /\ Looks(Parses(disk), "guard", "put back")
    /\ UNCHANGED <<disk, daemon, run, history>>

(* Mutant: what sshd reports is not judged.                                *)
NoGuard ==
    /\ pc = "guard"
    /\ Looks(Parses(disk), "reload", "put back")
    /\ UNCHANGED <<disk, daemon, run, history>>

(* sshd -T, and the key-authentication guard on what it reports,           *)
Guard ==
    /\ pc = "guard"
    /\ Looks(Parses(disk) /\ KeyAuthSurvives(disk), "reload", "put back")
    /\ UNCHANGED <<disk, daemon, run, history>>

(* the reload,                                                             *)
Reload ==
    /\ pc = "reload"
    /\ Loads("verify", "put back") /\ Reads
    /\ reloaded' = TRUE
    /\ UNCHANGED <<disk, want, saved, before, undoing, unread>>

(* and sshd -T again.                                                      *)
Verify ==
    /\ pc = "verify"
    /\ Looks(Verifies(disk, want), "done", "put back")
    /\ UNCHANGED <<disk, daemon, run, history>>

-----------------------------------------------------------------------------
(* restorePrevious of the plugin and, undoing, Restore for the engine,     *)
(* which always reloads.                                                   *)
Over == IF undoing THEN "undone" ELSE "failed"
Broken == IF undoing THEN "stuck" ELSE "failed"

(* Mutant: the daemon is reloaded only if this run reloaded it.            *)
PutBackQuietly ==
    /\ pc = "put back"
    /\ Writes(IF undoing THEN saved ELSE before,
              IF reloaded THEN "check back" ELSE Over, Broken)
    /\ UNCHANGED <<daemon, run, history>>

PutBack ==
    /\ pc = "put back"
    /\ Writes(IF undoing THEN saved ELSE before,
              IF undoing \/ reloaded THEN "check back" ELSE Over, Broken)
    /\ UNCHANGED <<daemon, run, history>>

CheckBack ==
    /\ pc = "check back"
    /\ Looks(Parses(disk), "reload back", Broken)
    /\ UNCHANGED <<disk, daemon, run, history>>

ReloadBack ==
    /\ pc = "reload back"
    /\ Loads(Over, Broken) /\ Reads
    /\ UNCHANGED <<disk, run, unread>>

(* The automatic rollback of a failed step, or the manual one of a         *)
(* finished step, which the engine skips when it changed nothing.          *)
Rollback ==
    /\ pc = "failed" \/ (pc = "done" /\ disk.drop = want /\ want # saved)
    /\ pc' = "put back"
    /\ undoing' = TRUE
    /\ UNCHANGED <<disk, daemon, want, saved, before, reloaded, history, faults>>

(* The next run, after this one ended, or gave up, or the runner died.     *)
StartOver ==
    /\ \/ pc \in {"done", "undone"} /\ UNCHANGED <<unread, faults>>
       \/ pc = "stuck" /\ unread' = TRUE /\ UNCHANGED faults
       \/ pc \notin {"ready", "done", "undone", "stuck"} /\ Fault("crash") /\ unread' = TRUE
    /\ pc' = "ready"
    /\ reloaded' = FALSE /\ undoing' = FALSE
    /\ UNCHANGED <<disk, daemon, want, saved, before, behind>>

(* Others edit what sshd reads, and others reload it.                      *)
Others ==
    /\ \/ /\ Fault("edit") /\ disk' \in { [disk EXCEPT !.rest = r] : r \in Rests }
          /\ unread' = TRUE /\ behind' = TRUE /\ UNCHANGED daemon
       \/ /\ Fault("reload") /\ Parses(disk) /\ daemon' = disk /\ behind' = FALSE
          /\ UNCHANGED <<disk, unread>>
    /\ UNCHANGED <<pc, run>>

Next == \/ Capture \/ Look \/ Stage \/ Move \/ Check \/ Guard \/ Reload \/ Verify
        \/ PutBack \/ CheckBack \/ ReloadBack \/ Rollback \/ StartOver \/ Others

Spec == Init /\ [][Next]_vars

-----------------------------------------------------------------------------
(* A step ends well only when the running daemon, not just the disk that   *)
(* sshd -T reads, serves what the profile declares, in the verify context  *)
(* too: whatever runs failed, were killed or stuck before (Apply).  Unless *)
(* the daemon is behind the disk for another reason than this step: others *)
(* edit it meanwhile, or what a killed run moved there was not read yet    *)
(* when this step began, which Apply takes for active when it matches.     *)
DoneMeansServed ==
    [][(pc' = "done" /\ pc # "done" /\ ~behind) => Carries(daemon', want)]_vars

(* No reload of a step or of its rollback makes the daemon read a policy   *)
(* that turns key authentication off, whatever fails on the way: the guard *)
(* judges what the reload is about to activate (assertKeyAuthSurvives).    *)
(* Unless something unvetted was on disk: restorations reload without the  *)
(* guard.                                                                  *)
KeyAuthKept ==
    [][(daemon' # daemon /\ pc' # pc /\ ~unread) => KeyAuthSurvives(daemon')]_vars

(* An undone step has its drop-in back on disk and in the daemon, whatever *)
(* failed before and whoever reloaded sshd meanwhile (Restore).            *)
UndoneMeansBefore ==
    [][(pc' = "undone" /\ pc # "undone")
         => disk'.drop = saved /\ daemon'.drop = saved]_vars
=============================================================================
