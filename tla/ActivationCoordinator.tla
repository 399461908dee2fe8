----------------------- MODULE ActivationCoordinator -----------------------
(***************************************************************************)
(* .github/workflows/activate-top20k-repair.yml: one run activates a       *)
(* release on both hosts over SSH, and rolls back those it began with when *)
(* a step fails.  Runs are serialized by their concurrency group.          *)
(*                                                                         *)
(* On a host, top20k_release_control.sh is what ReleaseControl shows it to *)
(* be: one command at a time, and an activation that succeeds, is undone,  *)
(* or leaves a marker by which a rollback undoes it.  A command outlives   *)
(* the connection that started it.                                         *)
(***************************************************************************)
EXTENDS Naturals, Sequences

CONSTANTS ReleaseId,
          CandidateOf,  \* the repair candidate that a release carries
          Failures,     \* what may happen: a connection is lost, a run is
                        \* cancelled, the rollback of a host fails
          Repeats       \* whether a release that was tried is dispatched again

ASSUME CoordinatorConstants ==
    Failures \subseteq {"lost", "cancelled", "rollback"} /\ Repeats \in BOOLEAN

VARIABLES host,   \* per shard: releases active, newest first; those with a
                  \* backup; the timer; the command that holds the lock
          run     \* the coordinator

coordinatorVars == <<host, run>>

Host == 1 .. 2
Free == [cmd |-> "none", release |-> "none", attached |-> FALSE]
Remote(cmd) == [cmd |-> cmd, release |-> run.release, attached |-> TRUE]

\* `begun` is the array `activated`; `before` remembers what the hosts served,
\* `adrift` the hosts where a command went on unheard or a rollback failed, or
\* that had tried the release before, and `unreached` those whose timer the last
\* step could not start.
CoordinatorInit ==
    /\ host = [h \in Host |-> [active |-> <<>>, tried |-> {}, timer |-> TRUE, busy |-> Free]]
    /\ run \in [pc : {"ended"}, release : ReleaseId, at : {1}, begun : {<<>>},
                before : {[h \in Host |-> <<>>]}, adrift : {{}}, unreached : {{}},
                result : {"none"}]

\* Faulty: the release is anywhere in the history.
ServesOnce(h, r) == \E i \in DOMAIN host[h].active : host[h].active[i] = r

Serves(h, r) == host[h].active # <<>> /\ Head(host[h].active) = r
RunAt(pc) == run.pc = pc
Here == run.at

-----------------------------------------------------------------------------
Dispatch(r) ==
    /\ RunAt("ended")
    /\ Repeats \/ \A h \in Host : r \notin host[h].tried
    /\ run' = [pc |-> "pause", release |-> r, at |-> 1, begun |-> <<>>,
               before |-> [h \in Host |-> host[h].active], unreached |-> {},
               result |-> "failed", adrift |-> {h \in Host : r \in host[h].tried \/ host[h].busy # Free}]
    /\ UNCHANGED host

\* Faulty: the timer steps of a failed run are skipped.
LeaveHostsAsTheyAre(result) == [run EXCEPT !.pc = "ended", !.result = result]

\* The step "Restore scheduled repair timers" runs `always()`.
Leave(result) == [run EXCEPT !.pc = "timers", !.at = 1, !.result = result]

\* The timer is stopped.  A repair that runs fails the step then, and a host out
\* of reach fails it before.
PauseTimer ==
    /\ RunAt("pause")
    /\ LET stopped == [host EXCEPT ![Here].timer = FALSE]
       IN \/ host' \in {host, stopped} /\ run' = Leave("failed")
          \/ /\ host' = stopped
             /\ run' = IF Here = 1 THEN [run EXCEPT !.at = 2]
                       ELSE [run EXCEPT !.pc = "verify", !.at = 1]

Verify ==
    /\ RunAt("verify")
    /\ run' \in {Leave("failed"), [run EXCEPT !.pc = "activate"]}
    /\ UNCHANGED host

\* Faulty: no trap.
OnErrorLeaves == Leave("failed")

\* The ERR trap: the hosts begun with are rolled back, the last first.
OnError == [run EXCEPT !.pc = "undo", !.at = Len(run.begun)]

\* The host is recorded before the SSH.  The remote command waits ten seconds
\* for the lock.
StartActivation ==
    /\ RunAt("activate")
    /\ host[Here].busy = Free
    /\ host' = [host EXCEPT ![Here].busy = Remote("activate")]
    /\ run' = [run EXCEPT !.pc = "await", !.begun = Append(@, Here)]

\* The host cannot be reached, or its lock is held.
ActivationRefused ==
    /\ RunAt("activate")
    /\ run' = [run EXCEPT !.begun = Append(@, Here), !.pc = "undo",
                          !.at = Len(run.begun) + 1]
    /\ UNCHANGED host

AfterActivation(h, ok) ==
    IF ~host[h].busy.attached THEN run
    ELSE IF ~ok THEN OnError
    ELSE IF Here = 1 THEN [run EXCEPT !.pc = "activate", !.at = 2]
    ELSE [run EXCEPT !.pc = "check", !.at = 1]

\* A release that has a backup is confirmed if it is active and ready, or
\* refused, and nothing changes.
RemoteConfirms(h) ==
    /\ host[h].busy.cmd = "activate" /\ host[h].busy.release \in host[h].tried
    /\ \E ok \in {FALSE, Serves(h, host[h].busy.release)} : run' = AfterActivation(h, ok)
    /\ host' = [host EXCEPT ![h].busy = Free]

\* It succeeds, is undone, or its undoing fails.  The timer was stopped before
\* and is stopped again by the undoing.
RemoteActivates(h) ==
    /\ host[h].busy.cmd = "activate" /\ host[h].busy.release \notin host[h].tried
    /\ \E result \in {"ok", "undone"} \cup (IF "rollback" \in Failures THEN {"stuck"} ELSE {}) :
         /\ host' = [host EXCEPT ![h] =
                       [active |-> IF result = "undone" THEN @.active
                                   ELSE <<@.busy.release>> \o @.active,
                        tried |-> @.tried \cup {@.busy.release},
                        timer |-> result # "undone", busy |-> Free]]
         /\ run' = AfterActivation(h, result = "ok")

\* The SSH client gives up; what it started goes on.
LoseConnection ==
    /\ "lost" \in Failures /\ run.pc \in {"await", "awaitUndo"}
    /\ \E h \in Host :
         /\ host[h].busy.attached
         /\ host' = [host EXCEPT ![h].busy.attached = FALSE]
         /\ run' = [IF RunAt("await") THEN OnError ELSE [run EXCEPT !.pc = "undo", !.at = @ - 1]
                    EXCEPT !.adrift = @ \cup {h}]

\* The candidate that a host serves is that of the release.
ServesCandidate(h) ==
    host[h].active # <<>> /\ CandidateOf[Head(host[h].active)] = CandidateOf[run.release]

\* One host after the other; a lost connection is an error as well.
Check ==
    /\ RunAt("check")
    /\ \/ /\ "lost" \in Failures \/ ~ServesCandidate(Here)
          /\ run' = OnError
       \/ /\ ServesCandidate(Here)
          /\ run' = IF Here = 1 THEN [run EXCEPT !.at = 2] ELSE Leave("succeeded")
    /\ UNCHANGED host

-----------------------------------------------------------------------------
(* rollback_activated                                                      *)

StartRollback ==
    /\ RunAt("undo") /\ Here > 0
    /\ host[run.begun[Here]].busy = Free
    /\ host' = [host EXCEPT ![run.begun[Here]].busy = Remote("rollback")]
    /\ run' = [run EXCEPT !.pc = "awaitUndo"]

\* A lock that is held, or a host out of reach: `|| true`.
RollbackRefused ==
    /\ RunAt("undo") /\ Here > 0
    /\ "rollback" \in Failures \/ host[run.begun[Here]].busy # Free
    /\ run' = [run EXCEPT !.at = @ - 1, !.adrift = @ \cup {run.begun[Here]}]
    /\ UNCHANGED host

\* A release that does not serve is left alone.
RemoteRollsBack(h) ==
    /\ host[h].busy.cmd = "rollback"
    /\ \E done \in {TRUE} \cup (IF "rollback" \in Failures THEN {FALSE} ELSE {}) :
         /\ host' = [host EXCEPT ![h] =
                       IF done /\ Serves(h, @.busy.release)
                       THEN [host[h] EXCEPT !.active = Tail(@), !.timer = FALSE, !.busy = Free]
                       ELSE [host[h] EXCEPT !.busy = Free]]
         /\ run' = IF ~host[h].busy.attached THEN run
                   ELSE [run EXCEPT !.pc = "undo", !.at = @ - 1,
                                    !.adrift = IF done THEN @ ELSE @ \cup {h}]

RolledBack ==
    /\ RunAt("undo") /\ Here = 0
    /\ run' = Leave("failed")
    /\ UNCHANGED host

-----------------------------------------------------------------------------
\* The last step goes on to the next host, or the run is over.
Proceed(unreached) ==
    run' = [run EXCEPT !.unreached = unreached, !.at = 2,
                       !.pc = IF Here = 1 THEN "timers" ELSE "ended"]

\* Hosts had the units of the repair before the first release.  A connection that
\* is lost before the timer starts is ignored: `|| true`.
ResumeTimer ==
    /\ RunAt("timers")
    /\ \/ host' = [host EXCEPT ![Here].timer = TRUE] /\ Proceed(run.unreached)
       \/ "lost" \in Failures /\ UNCHANGED host /\ Proceed(run.unreached \cup {Here})

\* By a user or the time limit of the job: no trap, but the last step.
Cancel ==
    /\ "cancelled" \in Failures /\ run.pc \notin {"timers", "ended"}
    /\ host' = [h \in Host |-> [host[h] EXCEPT !.busy.attached = FALSE]]
    /\ run' = [Leave("cancelled") EXCEPT !.adrift = @ \cup {h \in Host : host[h].busy.attached}]

CoordinatorNext ==
    \/ \E r \in ReleaseId : Dispatch(r)
    \/ PauseTimer \/ Verify \/ StartActivation \/ ActivationRefused \/ Check
    \/ StartRollback \/ RollbackRefused \/ RolledBack \/ ResumeTimer
    \/ \E h \in Host : RemoteConfirms(h) \/ RemoteActivates(h) \/ RemoteRollsBack(h)
    \/ LoseConnection \/ Cancel

CoordinatorSpec == CoordinatorInit /\ [][CoordinatorNext]_coordinatorVars

-----------------------------------------------------------------------------
(* Properties.                                                             *)

Results == {"none", "failed", "succeeded", "cancelled"}

(* Types; only a command of this run is attached, and it is what the
   coordinator waits for. *)
CoordinatorTypeOK ==
    /\ \A h \in Host :
         /\ host[h].active \in Seq(ReleaseId) /\ host[h].tried \subseteq ReleaseId
         /\ host[h].timer \in BOOLEAN
         /\ host[h].busy.attached =>
              /\ host[h].busy.release = run.release
              /\ run.pc = (IF host[h].busy.cmd = "activate" THEN "await" ELSE "awaitUndo")
    /\ run.release \in ReleaseId /\ run.begun \in Seq(Host) /\ run.result \in Results

Settled == RunAt("ended") /\ \A h \in Host : host[h].busy = Free

Restored(h) == host[h].active = run.before[h]

(* When a run is over and nothing of it runs on, the daily repair is scheduled on
   every host that the last step reached ("repair activation and recovery keep
   daily timer active", tests/test_deployment_workflows.py:187; the failure to
   reach a host is ignored, 215-217, and may leave its timer stopped), and a run
   that failed leaves no host on its release (the trap, 164-185): each serves
   what it served before. Either but for a host where a command outlived its
   connection, the rollback failed, or the release had been tried before. *)
SettledRunRestores ==
    Settled => \A h \in Host \ run.adrift :
                   /\ h \notin run.unreached => host[h].timer
                   /\ run.result = "failed" => Restored(h)

(* "If either host fails, the coordinator calls the saved rollback transaction
   on every host already activated. ... the prior release link ... restored"
   (README-SAFE-TOP20K-DEPLOYMENT.md:39-42). *)
EveryHostRestored ==
    (Settled /\ run.result = "failed") => \A h \in Host : Restored(h)

(* A run that succeeds has both hosts serving its release, whatever earlier runs
   left behind: the activation of the first host, or its confirmation, holds
   until the second is done (188-198), as the check compares only candidates,
   which releases share (199-204). *)
SuccessServesBoth ==
    (RunAt("ended") /\ run.result = "succeeded") =>
        \A h \in Host : host[h].active # <<>> /\ Head(host[h].active) = run.release

=============================================================================
