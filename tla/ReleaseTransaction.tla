------------------------- MODULE ReleaseTransaction -------------------------
(***************************************************************************)
(* deploy/deployment_transaction.py, one track: activate and rollback of   *)
(* sealed releases over the `current` symlink, activation-state.json (the  *)
(* journal) and last-rollback.json, all entries of one directory.          *)
(*                                                                         *)
(* The commands run one at a time under the flock of the track, so the     *)
(* only concurrency is with failure: a command is killed, loses power or   *)
(* sees an I/O error between any two directory operations.  A directory    *)
(* operation (rename, unlink, symlink) is visible at once and durable only *)
(* at the next fsync of the directory; the file system keeps them in order *)
(* and a power loss drops a suffix, so what may be found afterwards is one *)
(* of `survivors`.                                                         *)
(***************************************************************************)
EXTENDS Naturals, Sequences

CONSTANTS Release,     \* sealed releases of the track
          None,        \* no release
          MaxHistory   \* bound: activations nested in the journal

ASSUME ConstantsOK == None \notin Release /\ MaxHistory \in Nat

VARIABLES disk,        \* the directory as programs see it
          survivors,   \* the directories a power loss may leave
          proc         \* the command holding the lock, with its locals

vars == <<disk, survivors, proc>>

Target == Release \cup {None}

\* activation-state.json nests the journal it replaced as previousState; the
\* nesting is the sequence of its levels, the file itself first.
Entry == [release : Release, previous : Target, phase : {"prepared", "active"}]
Directory == [current : Target, journal : Seq(Entry), lastRollback : Target]

Ended == {"idle", "done", "alreadyActive", "restored"}
Trying == {"prepare", "prepareSync", "swap", "swapSync", "commit", "commitSync"}
Other == {"reconcile", "finishSync", "revertSync", "check", "recoverLink",
          "recoverJournal", "recoverSync", "unlink", "unlinkSync", "pop",
          "popSync", "report", "reportSync"}

Process == [pc : Ended \cup Trying \cup Other, op : {"activate", "rollback"},
            release : Target, saved : Directory]

TypeOK ==
    /\ disk \in Directory
    /\ survivors \in SUBSET Directory
    /\ disk \in survivors
    /\ proc \in Process

Empty == [current |-> None, journal |-> <<>>, lastRollback |-> None]
NoProcess == [pc |-> "idle", op |-> "activate", release |-> None, saved |-> Empty]

Init == disk = Empty /\ survivors = {Empty} /\ proc = NoProcess

-----------------------------------------------------------------------------
Top == Head(disk.journal)
Prepared(d) == d.journal # <<>> /\ Head(d.journal).phase = "prepared"
Activated(e) == [e EXCEPT !.phase = "active"]

\* A recorded previousState is put back only if it is an active journal.
Restorable(j) == j = <<>> \/ Head(j).phase = "active"

\* The journal names the release that the link serves, or neither exists.
Agrees(d) ==
    IF d.current = None
    THEN d.journal = <<>>
    ELSE d.journal # <<>> /\ Head(d.journal).phase = "active"
                          /\ Head(d.journal).release = d.current

\* One directory operation: visible now, durable at the next Sync.
Put(d) == disk' = d /\ survivors' = survivors \cup {d}
At(label) == proc.pc = label
Goto(label) == proc' = [proc EXCEPT !.pc = label]
Quit == proc' = NoProcess
Reading == UNCHANGED <<disk, survivors>>

-----------------------------------------------------------------------------
(* Both commands first reconcile a journal left in phase "prepared".       *)

\* verify_release has accepted r (a refusal changes nothing); MaxHistory
\* bounds the nesting.
BeginActivate(r) ==
    /\ proc.pc \in Ended
    /\ Len(disk.journal) < MaxHistory
    /\ proc' = [pc |-> "reconcile", op |-> "activate", release |-> r, saved |-> disk]
    /\ Reading

BeginRollback(r) ==
    /\ proc.pc \in Ended
    /\ proc' = [pc |-> "reconcile", op |-> "rollback", release |-> r, saved |-> disk]
    /\ Reading

ReconcileNothing ==
    /\ At("reconcile") /\ ~Prepared(disk)
    /\ Goto("check") /\ Reading

\* The swap happened: finish it by writing phase "active".
ReconcileFinish ==
    /\ At("reconcile") /\ Prepared(disk) /\ disk.current = Top.release
    /\ Put([disk EXCEPT !.journal = <<Activated(Top)>> \o Tail(disk.journal)])
    /\ Goto("finishSync")

\* The swap did not happen: put the journal before it back.  A link that is
\* neither target, and a nested journal that is not active, are refused.
ReconcileRevert ==
    /\ At("reconcile") /\ Prepared(disk) /\ disk.current # Top.release
    /\ IF disk.current = Top.previous /\ Restorable(Tail(disk.journal))
       THEN Put([disk EXCEPT !.journal = Tail(disk.journal)]) /\ Goto("revertSync")
       ELSE Reading /\ Quit

-----------------------------------------------------------------------------
(* activate_release                                                        *)

\* The target is already served: success if the journal says so too.
CheckAlreadyActive ==
    /\ At("check") /\ proc.op = "activate" /\ disk.current = proc.release
    /\ IF Agrees(disk) THEN Goto("alreadyActive") ELSE Quit
    /\ Reading

\* Faulty: the journal of the served release is not looked at.
CheckActivateUnguarded ==
    /\ At("check") /\ proc.op = "activate" /\ disk.current # proc.release
    /\ proc' = [proc EXCEPT !.pc = "prepare", !.saved = disk]
    /\ Reading

CheckActivate ==
    /\ At("check") /\ proc.op = "activate" /\ disk.current # proc.release
    /\ IF Agrees(disk)
       THEN proc' = [proc EXCEPT !.pc = "prepare", !.saved = disk]
       ELSE Quit
    /\ Reading

PrepareJournal ==
    /\ At("prepare")
    /\ Put([disk EXCEPT !.journal =
              <<[release |-> proc.release, previous |-> proc.saved.current,
                 phase |-> "prepared"]>> \o proc.saved.journal])
    /\ Goto("prepareSync")

SwapLink ==
    /\ At("swap")
    /\ Put([disk EXCEPT !.current = proc.release])
    /\ Goto("swapSync")

CommitJournal ==
    /\ At("commit")
    /\ Put([disk EXCEPT !.journal =
              <<[release |-> proc.release, previous |-> proc.saved.current,
                 phase |-> "active"]>> \o proc.saved.journal])
    /\ Goto("commitSync")

\* The exception handler: the old link first, then the old journal.
RecoverLink ==
    /\ At("recoverLink")
    /\ IF proc.saved.current = None /\ disk.current # proc.release
       THEN Reading
       ELSE Put([disk EXCEPT !.current = proc.saved.current])
    /\ Goto("recoverJournal")

\* Faulty: the handler removes the journal instead of restoring it.
RecoverJournalRemoves ==
    /\ At("recoverJournal")
    /\ Put([disk EXCEPT !.journal = <<>>])
    /\ Goto("recoverSync")

RecoverJournal ==
    /\ At("recoverJournal")
    /\ Put([disk EXCEPT !.journal = proc.saved.journal])
    /\ Goto("recoverSync")

-----------------------------------------------------------------------------
(* rollback_release                                                        *)

\* The journal must be active and belong to the release.  The link may have
\* been moved back already, by a rollback that did not finish.
CheckRollback ==
    /\ At("check") /\ proc.op = "rollback"
    /\ LET owner == /\ disk.journal # <<>> /\ Top.phase = "active"
                    /\ Top.release = proc.release
       IN IF owner /\ disk.current = Top.release
          THEN proc' = [proc EXCEPT !.pc = "unlink", !.saved = disk]
          ELSE IF owner /\ disk.current = Top.previous
               THEN proc' = [proc EXCEPT !.pc = "pop", !.saved = disk]
               ELSE Quit
    /\ Reading

\* Faulty: the link is removed although there was a release before.
RestoreLinkDrops ==
    /\ At("unlink")
    /\ Put([disk EXCEPT !.current = None])
    /\ Goto("unlinkSync")

RestoreLink ==
    /\ At("unlink")
    /\ Put([disk EXCEPT !.current = Head(proc.saved.journal).previous])
    /\ Goto("unlinkSync")

PopJournal ==
    /\ At("pop")
    /\ IF Restorable(Tail(proc.saved.journal))
       THEN Put([disk EXCEPT !.journal = Tail(proc.saved.journal)]) /\ Goto("popSync")
       ELSE Reading /\ Quit

WriteReport ==
    /\ At("report")
    /\ Put([disk EXCEPT !.lastRollback = proc.release])
    /\ Goto("reportSync")

-----------------------------------------------------------------------------
(* fsync of the directory, and what goes on after each.                    *)

AfterSync ==
    CASE proc.pc = "finishSync"  -> "check"
      [] proc.pc = "prepareSync" -> "swap"
      [] proc.pc = "swapSync"    -> "commit"
      [] proc.pc = "commitSync"  -> "done"
      [] proc.pc = "recoverSync" -> "restored"
      [] proc.pc = "unlinkSync"  -> "pop"
      [] proc.pc = "popSync"     -> "report"
      [] proc.pc = "reportSync"  -> "done"

\* Faulty: no fsync of the directory.
SyncSkipped ==
    /\ proc.pc \in {"finishSync", "prepareSync", "swapSync", "commitSync",
                    "recoverSync", "unlinkSync", "popSync", "reportSync"}
    /\ Goto(AfterSync)
    /\ UNCHANGED <<disk, survivors>>

Sync ==
    /\ proc.pc \in {"finishSync", "prepareSync", "swapSync", "commitSync",
                    "recoverSync", "unlinkSync", "popSync", "reportSync"}
    /\ Goto(AfterSync)
    /\ survivors' = {disk} /\ UNCHANGED disk

\* A reverted journal: an activation goes on, a rollback is complete, but
\* only if the journal was that of its own release.
SyncReverted ==
    /\ At("revertSync")
    /\ IF proc.op = "activate" THEN Goto("check")
       ELSE IF Head(proc.saved.journal).release = proc.release THEN Goto("report")
       ELSE Quit
    /\ survivors' = {disk} /\ UNCHANGED disk

-----------------------------------------------------------------------------
(* Failure.                                                                *)

\* An I/O error of the operation or of the fsync that is next.
Raise ==
    /\ proc.pc \notin Ended
    /\ IF proc.pc \in Trying THEN Goto("recoverLink") ELSE Quit
    /\ Reading

\* SIGKILL: the kernel keeps the directory as it is.
Kill == proc.pc \notin Ended /\ Quit /\ Reading

PowerLoss ==
    /\ Quit
    /\ \E d \in survivors : disk' = d /\ survivors' = {d}

-----------------------------------------------------------------------------
Command ==
    \/ ReconcileNothing \/ ReconcileFinish \/ ReconcileRevert
    \/ CheckAlreadyActive \/ CheckActivate
    \/ PrepareJournal \/ SwapLink \/ CommitJournal
    \/ RecoverLink \/ RecoverJournal
    \/ CheckRollback \/ RestoreLink \/ PopJournal \/ WriteReport
    \/ Sync \/ SyncReverted

Next ==
    \/ \E r \in Release : BeginActivate(r) \/ BeginRollback(r)
    \/ Command \/ Raise \/ Kill \/ PowerLoss

Spec == Init /\ [][Next]_vars

-----------------------------------------------------------------------------
(* Properties.                                                             *)

\* The levels of a journal link up: each records the release it replaced as
\* its rollback target, and only the file itself can be unfinished.
Linked(j) ==
    \A i \in DOMAIN j :
        /\ j[i].release # j[i].previous
        /\ j[i].previous = IF i < Len(j) THEN j[i+1].release ELSE None
        /\ i > 1 => j[i].phase = "active"

Coherent(d) ==
    /\ Linked(d.journal)
    /\ d.current \in IF d.journal = <<>> THEN {None}
                     ELSE {Head(d.journal).release, Head(d.journal).previous}

(* Wherever a command is cut, by a kill, an error or a power loss, the link
   and the journal that remain are ones the next command can resolve: the
   link is the journal's release or its rollback target, never a third, and
   every nested rollback target is the release that was really replaced
   (_reconcile_prepared_activation and rollback_release never meet the
   "disagree" errors). *)
Resolvable == \A d \in survivors : Coherent(d)

(* When activate_release or rollback_release returns its success, the result
   is on the disk: no power loss takes it back.  An activation serves the
   release with an active journal; a rollback has removed it. *)
AcknowledgedIsDurable ==
    proc.pc = "done" =>
        /\ survivors = {disk}
        /\ Agrees(disk)
        /\ proc.op = "activate" => disk.current = proc.release
        /\ proc.op = "rollback" => /\ disk.current # proc.release
                                   /\ disk.lastRollback = proc.release

(* The exception handler of activate_release leaves the link and the journal
   it found, whichever write failed, and leaves them durably. *)
FailedActivationRestores ==
    proc.pc = "restored" => disk = proc.saved /\ survivors = {disk}

(* A release that is in service and settled on the disk leaves service only
   through its own rollback or another release's activation; no recovery,
   kill or power loss drops it. *)
SettledReleaseStays ==
    [][(survivors = {disk} /\ Agrees(disk) /\ disk'.current # disk.current)
         => \/ proc.op = "rollback" /\ proc.release = disk.current
            \/ proc.op = "activate" /\ proc.release = disk'.current]_vars

-----------------------------------------------------------------------------
(* The track implements the abstract history.                              *)

History(j) == [i \in 1 .. Len(j) |-> j[i].release]

\* Where a directory can still go: an unfinished activation either way, and
\* likewise a rollback that has moved the link and not yet the journal.
OutcomesOf(d) ==
    LET h == History(d.journal)
    IN IF Agrees(d) THEN {h} ELSE {h, Tail(h)}

Outcomes == UNION {OutcomesOf(d) : d \in survivors}

Abstract == INSTANCE ReleaseHistory WITH outcomes <- Outcomes, serving <- disk.current

(* The whole track refines ReleaseHistory: histories change by one push or
   one pop, and the link serves the newest release of a possible history. *)
RefinesHistory == Abstract!Spec
=============================================================================
