----------------------------- MODULE SshProofs -----------------------------
(***************************************************************************)
(* What runs of the ssh plugin may make sshd read: a proof for any         *)
(* keywords, policies and configurations of hosts, any number of runs, and *)
(* any number of commands that fail with or without effect, of runners     *)
(* that die and of others who edit what sshd reads or reload it.           *)
(***************************************************************************)
EXTENDS Ssh, TLAPS

Drops == Wants \cup {NoDropIn}

Typed == disk \in Disks /\ want \in Drops /\ saved \in Drops /\ before \in Drops

(* What sshd would read with the drop-in that the engine captured.         *)
Old == [disk EXCEPT !.drop = saved]

(* Where the step has written nothing yet, where it has read what was      *)
(* there, and where the daemon has read what is on disk.                   *)
Unwritten == {"captured", "stage", "move"}
Fresh == {"ready", "captured", "stage", "move", "verify", "done", "undone"}

(* Where the guard, or a guard before, has judged what is on disk.         *)
Vetted == Fresh \cup {"reload"}

(* Where only others can have put on disk what the daemon has not read.    *)
Read == {"captured", "stage", "move", "verify"}

(* Both what is on disk, once the guard has passed, and what the drop-in   *)
(* will be put back to, keep key authentication: so every reload does.     *)
ServedInv ==
    /\ Typed
    /\ pc \in {"check back", "reload back", "undone"} =>
         disk.drop = IF undoing \/ pc = "undone" THEN saved ELSE before
    /\ pc = "undone" => undoing
    /\ pc \in Read /\ ~behind => daemon = disk
    /\ ~unread =>
         /\ pc \in Fresh => daemon = disk
         /\ pc \in Vetted => KeyAuthSurvives(disk)
         /\ pc # "ready" => KeyAuthSurvives(Old)
         /\ pc \in Unwritten => saved = disk.drop
         /\ pc \notin {"ready", "captured"} => before = saved

-----------------------------------------------------------------------------
LEMMA NoEdit == UNCHANGED <<disk, saved>> => Old' = Old
  BY DEF Old

LEMMA OldOfUnwritten ==
    ASSUME disk \in Disks, saved = disk.drop
    PROVE  Old = disk
  BY DEF Old, Disks

LEMMA WrittenKeepsRest ==
    ASSUME disk \in Disks, NEW drop \in Drops, disk' \in {disk, [disk EXCEPT !.drop = drop]},
           saved' = saved
    PROVE  disk' \in Disks /\ Old' = Old
  BY DEF Old, Disks, Drops

LEMMA NextTyped == Typed /\ [Next]_vars => Typed'
  <1> SUFFICES ASSUME Typed, [Next]_vars PROVE Typed'  OBVIOUS
  <1> USE DEF Typed, Drops, run, history
  <1>1. CASE Capture \/ Look \/ Rollback \/ StartOver
    BY <1>1 DEF Capture, Look, Rollback, StartOver, Disks
  <1>2. CASE Stage \/ Check \/ Guard \/ Reload \/ Verify \/ CheckBack \/ ReloadBack
    BY <1>2 DEF Stage, Check, Guard, Reload, Verify, CheckBack, ReloadBack
  <1>3. CASE Move \/ PutBack
    <2>1. PICK drop \in Drops : disk' \in {disk, [disk EXCEPT !.drop = drop]}
      BY <1>3 DEF Move, PutBack, Writes
    <2>2. disk' \in Disks  BY <2>1 DEF Disks
    <2>3. QED  BY <1>3, <2>2 DEF Move, PutBack
  <1>4. CASE Others
    <2>1. \A r \in Rests : [disk EXCEPT !.rest = r] \in Disks  BY DEF Disks
    <2>2. disk' \in Disks  BY <1>4, <2>1 DEF Others
    <2>3. QED  BY <1>4, <2>2 DEF Others
  <1>5. CASE UNCHANGED vars  BY <1>5 DEF vars
  <1>6. QED  BY <1>1, <1>2, <1>3, <1>4, <1>5 DEF Next

LEMMA InitServed == Init => ServedInv
  BY DEF Init, ServedInv, Typed, Drops, Fresh, Vetted, Unwritten, Read

LEMMA NextServed == ServedInv /\ [Next]_vars => ServedInv'
  <1> SUFFICES ASSUME ServedInv, [Next]_vars PROVE ServedInv'  OBVIOUS
  <1>0. Typed'  BY NextTyped DEF ServedInv
  <1> USE <1>0 DEF ServedInv, Fresh, Vetted, Unwritten, Read, run, history
  <1>1. CASE Capture
    <2>1. ~unread => Old' = disk /\ saved' = disk'.drop
      BY <1>1, OldOfUnwritten DEF Capture, Old, Typed, Disks
    <2>2. QED  BY <1>1, <2>1 DEF Capture, KeyAuthSurvives
  <1>2. CASE Look
    <2>1. pc' \in {"done", "check", "stage", "failed"}  BY <1>2 DEF Look, Looks
    <2>2. QED  BY <1>2, <2>1, NoEdit DEF Look, KeyAuthSurvives
  <1>3. CASE Stage
    <2>1. pc' \in {"move", "failed"}  BY <1>3 DEF Stage, Looks
    <2>2. QED  BY <1>3, <2>1, NoEdit DEF Stage, KeyAuthSurvives
  <1>4. CASE Move
    <2>1. Old' = Old /\ pc' \in {"check", "failed"}
      BY <1>4, WrittenKeepsRest DEF Move, Writes, Typed
    <2>2. QED  BY <1>4, <2>1 DEF Move, KeyAuthSurvives
  <1>5. CASE Check
    <2>1. pc' \in {"guard", "put back"}  BY <1>5 DEF Check, Looks
    <2>2. QED  BY <1>5, <2>1, NoEdit DEF Check, KeyAuthSurvives
  <1>6. CASE Guard
    <2>1. pc' = "put back" \/ (pc' = "reload" /\ KeyAuthSurvives(disk))
      BY <1>6 DEF Guard, Looks
    <2>2. QED  BY <1>6, <2>1, NoEdit DEF Guard, KeyAuthSurvives
  <1>7. CASE Reload
    <2>1. pc' = "put back" \/ (pc' = "verify" /\ daemon' = disk)
      BY <1>7 DEF Reload, Loads
    <2>2. QED  BY <1>7, <2>1, NoEdit DEF Reload, KeyAuthSurvives
  <1>8. CASE Verify
    <2>1. pc' \in {"done", "put back"}  BY <1>8 DEF Verify, Looks
    <2>2. QED  BY <1>8, <2>1, NoEdit DEF Verify, KeyAuthSurvives
  <1>9. CASE PutBack
    <2>1. Old' = Old
      BY <1>9, WrittenKeepsRest DEF PutBack, Writes, Typed
    <2>2. \/ pc' \in {"failed", "stuck"}
          \/ pc' = "check back" /\ disk'.drop = IF undoing THEN saved ELSE before
      BY <1>9 DEF PutBack, Writes, Over, Broken, Typed, Disks
    <2>3. QED  BY <1>9, <2>1, <2>2 DEF PutBack, KeyAuthSurvives
  <1>10. CASE CheckBack
    <2>1. pc' \in {"reload back", "failed", "stuck"}  BY <1>10 DEF CheckBack, Looks, Broken
    <2>2. QED  BY <1>10, <2>1, NoEdit DEF CheckBack, KeyAuthSurvives
  <1>11. CASE ReloadBack
    <2>1. \/ pc' \in {"failed", "stuck"}
          \/ pc' = "undone" /\ undoing /\ daemon' = disk
      BY <1>11 DEF ReloadBack, Loads, Over, Broken
    <2>2. undoing => Old = disk
      BY <1>11, OldOfUnwritten DEF ReloadBack, Typed
    <2>3. QED  BY <1>11, <2>1, <2>2, NoEdit DEF ReloadBack, KeyAuthSurvives
  <1>12. CASE Rollback  BY <1>12, NoEdit DEF Rollback, KeyAuthSurvives
  <1>13. CASE StartOver  BY <1>13, NoEdit DEF StartOver, KeyAuthSurvives
  <1>14. CASE Others
    <2>1. CASE UNCHANGED <<disk, unread>> /\ daemon' = disk
      BY <1>14, <2>1, NoEdit DEF Others, KeyAuthSurvives
    <2>2. CASE unread' = TRUE /\ disk' \in {[disk EXCEPT !.rest = r] : r \in Rests}
      <3>1. disk'.drop = disk.drop  BY <2>2 DEF Typed, Disks
      <3>2. QED  BY <1>14, <2>2, <3>1 DEF Others
    <2>3. QED  BY <1>14, <2>1, <2>2 DEF Others
  <1>15. CASE UNCHANGED vars  BY <1>15, NoEdit DEF vars, KeyAuthSurvives
  <1>16. QED
    BY <1>1, <1>2, <1>3, <1>4, <1>5, <1>6, <1>7, <1>8, <1>9, <1>10, <1>11, <1>12, <1>13, <1>14,
       <1>15 DEF Next

LEMMA ServedAlways == Spec => []ServedInv
  BY InitServed, NextServed, PTL DEF Spec

-----------------------------------------------------------------------------
(* No reload of a step or of its rollback makes the daemon read a policy   *)
(* that turns key authentication off.                                      *)
THEOREM KeyAuthSurvivesRuns == Spec => KeyAuthKept
  <1>1. ASSUME ServedInv, [Next]_vars, daemon' # daemon, pc' # pc, ~unread
        PROVE  KeyAuthSurvives(daemon')
    <2> USE <1>1 DEF ServedInv, Vetted, Fresh, Unwritten
    <2>1. CASE Reload
      <3>1. daemon' = disk /\ pc = "reload"  BY <2>1 DEF Reload, Loads
      <3>2. QED  BY <3>1
    <2>2. CASE ReloadBack
      <3>1. daemon' = disk /\ pc = "reload back"  BY <2>2 DEF ReloadBack, Loads
      <3>2. disk.drop = saved  BY <3>1
      <3>3. Old = disk  BY <3>2, OldOfUnwritten DEF Typed
      <3>4. QED  BY <3>1, <3>3
    <2>3. CASE Others  BY <2>3 DEF Others
    <2>4. QED
      BY <2>1, <2>2, <2>3 DEF Next, vars, run, history, Capture, Look, Stage, Move, Check, Guard, Verify,
         PutBack, CheckBack, Rollback, StartOver
  <1>2. ServedInv /\ [Next]_vars =>
          [(daemon' # daemon /\ pc' # pc /\ ~unread) => KeyAuthSurvives(daemon')]_vars
    BY <1>1
  <1>3. QED  BY <1>2, ServedAlways, PTL DEF Spec, KeyAuthKept

(* A step that ends well leaves a daemon that serves what the profile      *)
(* declares, whatever runs failed, were killed or stuck before: unless the *)
(* daemon was behind the disk when the step began, or others edit it.      *)
THEOREM DoneIsServed == Spec => DoneMeansServed
  <1>1. ASSUME ServedInv, [Next]_vars, pc' = "done", pc # "done", ~behind
        PROVE  Carries(daemon', want)
    <2> USE <1>1 DEF ServedInv, Read
    <2>1. CASE Look  BY <2>1 DEF Look, Looks, Verifies
    <2>2. CASE Verify  BY <2>2 DEF Verify, Looks, Verifies
    <2>3. CASE Others  BY <2>3 DEF Others, run, history
    <2>4. QED
      BY <2>1, <2>2, <2>3 DEF Next, vars, Capture, Stage, Move, Check, Guard, Reload, PutBack,
         CheckBack, ReloadBack, Rollback, StartOver, Looks, Writes, Loads, Over, Broken
  <1>2. ServedInv /\ [Next]_vars =>
          [(pc' = "done" /\ pc # "done" /\ ~behind) => Carries(daemon', want)]_vars
    BY <1>1
  <1>3. QED  BY <1>2, ServedAlways, PTL DEF Spec, DoneMeansServed

(* An undone step has its drop-in back on disk and in the daemon, with no  *)
(* exemption for edits, crashes or reloads of others.                      *)
THEOREM UndoneIsBefore == Spec => UndoneMeansBefore
  <1>1. ASSUME ServedInv, [Next]_vars, pc' = "undone", pc # "undone"
        PROVE  disk'.drop = saved /\ daemon'.drop = saved
    <2> USE <1>1 DEF ServedInv
    <2>1. CASE ReloadBack  BY <2>1 DEF ReloadBack, Loads, Over, Broken
    <2>2. CASE Others  BY <2>2 DEF Others, run, history
    <2>3. QED
      BY <2>1, <2>2 DEF Next, vars, Capture, Look, Stage, Move, Check, Guard, Reload, Verify,
         PutBack, CheckBack, Rollback, StartOver, Looks, Writes, Loads, Over, Broken
  <1>2. ServedInv /\ [Next]_vars =>
          [(pc' = "undone" /\ pc # "undone")
             => disk'.drop = saved /\ daemon'.drop = saved]_vars
    BY <1>1
  <1>3. QED  BY <1>2, ServedAlways, PTL DEF Spec, UndoneMeansBefore
=============================================================================
