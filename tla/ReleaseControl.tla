--------------------------- MODULE ReleaseControl ---------------------------
(***************************************************************************)
(* deploy/top20k_release_control.sh on one host: activate and rollback     *)
(* change a track, the unit files of the repair service and the state of   *)
(* its units one after the other, and may fail, be killed or be cut by a   *)
(* reboot between any two of them.                                         *)
(*                                                                         *)
(* The track is what deployment_transaction.py makes of it: the journal    *)
(* (the releases that are active, newest first, and one that is prepared)  *)
(* and the link.  The control lock serializes commands.                    *)
(***************************************************************************)
EXTENDS Naturals, Sequences, Functions

CONSTANTS Release, None,
          Collector,   \* the two ordinary collectors
          Conflicts,   \* those the repair service conflicts with
          Overlap      \* whether a release is activated while the activation
                       \* or rollback of another is unfinished

ASSUME ControlConstants ==
    None \notin Release /\ Conflicts \subseteq Collector /\ Overlap \in BOOLEAN

VARIABLES track,     \* journal and link
          files,     \* the release each unit file comes from
          sys,       \* the units
          backup,    \* systemd-backups/<release>
          control    \* the command that runs

vars == <<track, files, sys, backup, control>>

\* In the order they are installed and restored.
UnitFiles == <<"main.service", "main.timer", "current.conf">>
UnitFile == Range(UnitFiles)

Idle == [cmd |-> "none", release |-> None, pc |-> "idle", phase |-> "none",
         todo |-> <<>>, ok |-> TRUE]
NoBackup == [dir |-> FALSE, saved |-> None, started |-> FALSE, rolling |-> FALSE,
             complete |-> FALSE]

\* The first release meets a host with older unit files, of no release.
Init ==
    /\ track = [active |-> <<>>, prepared |-> None, current |-> None]
    /\ files = [f \in UnitFile |-> None]
    /\ sys \in [repair : {None}, captured : {{}}, ready : {None}, clean : {FALSE},
                timer : {FALSE}, enabled : {FALSE}, writers : SUBSET Collector]
    /\ backup = [r \in Release |-> NoBackup]
    /\ control = Idle

-----------------------------------------------------------------------------
(* deployment_transaction.py.                                              *)

Newest(active) == IF active = <<>> THEN None ELSE Head(active)

\* A prepared activation is finished or reverted.
Reconciled ==
    IF track.prepared # None /\ track.current = track.prepared
    THEN [track EXCEPT !.active = <<track.prepared>> \o @, !.prepared = None]
    ELSE [track EXCEPT !.prepared = None]

\* Outcomes of `activate`: the new track, and whether the command succeeds.
\* The handler of an error restores link and journal, or fails at one of them.
TxActivate(r) ==
    LET t == Reconciled IN
    IF t.current # Newest(t.active) THEN {<<t, FALSE>>}
    ELSE IF t.current = r THEN {<<t, TRUE>>}
    ELSE {<<[t EXCEPT !.active = <<r>> \o @, !.current = r], TRUE>>, <<t, FALSE>>}
           \cup {<<[t EXCEPT !.prepared = r, !.current = link], FALSE>> :
                    link \in {t.current, r}}
           \cup {<<[t EXCEPT !.active = <<r>> \o @], FALSE>>}

\* Outcomes of `rollback`: an error may leave what was done until then.
TxRollback(r) ==
    LET t == Reconciled
        older == Tail(t.active)
    IN IF track.prepared # None /\ track.current # track.prepared
       THEN {<<t, track.prepared = r>>, <<track, FALSE>>}
       ELSE IF Newest(t.active) # r THEN {<<t, FALSE>>}
       ELSE {<<[t EXCEPT !.active = older, !.current = Newest(older)], good>> :
                good \in BOOLEAN}
              \cup {<<[t EXCEPT !.current = link], FALSE>> :
                       link \in {t.current, Newest(older)}}

\* release_activation_phase
Phase(r) ==
    IF track.prepared = r \/ (track.prepared = None /\ Newest(track.active) = r)
    THEN "requested"
    ELSE IF track.prepared = None /\ track.active = <<>> THEN "missing" ELSE "other"

-----------------------------------------------------------------------------
(* The repair service and the collectors, see RepairCollectorState.        *)

\* No release is linked before the first activation: the start then fails.
StartedRepair(s) ==
    IF s.repair # None \/ track.current = None THEN s
    ELSE [s EXCEPT !.repair = track.current, !.ready = None,
                   !.captured = s.writers \ Conflicts, !.writers = {}]

StoppedRepair(s) ==
    IF s.repair = None THEN s
    ELSE [s EXCEPT !.repair = None, !.captured = {}, !.clean = FALSE,
                   !.writers = @ \cup s.captured]

\* restore_writer_snapshot.  A collector that starts stops a repair that
\* conflicts with it.
RestoredWriters(s, before) ==
    LET t == IF before \cap Conflicts # {} THEN StoppedRepair(s) ELSE s
    IN [t EXCEPT !.writers = before]

\* The daily elapse, or one missed while the timer was stopped (Persistent=).
TimerElapses ==
    /\ sys.timer /\ sys.repair = None /\ track.current # None
    /\ sys' = StartedRepair(sys)
    /\ UNCHANGED <<track, files, backup, control>>

\* The preflight is over: the runtime marker is written.
RepairReady ==
    /\ sys.repair # None /\ sys.ready = None
    /\ sys' = [sys EXCEPT !.ready = sys.repair]
    /\ UNCHANGED <<track, files, backup, control>>

RepairEnds ==
    /\ sys.repair # None
    /\ \E clean \in {FALSE, sys.ready = sys.repair} :
         sys' = [StoppedRepair(sys) EXCEPT !.clean = clean]
    /\ UNCHANGED <<track, files, backup, control>>

\* service_ready_once: the marker belongs to the process that runs, or to one
\* that ended well.
ServiceReady(r) == sys.ready = r /\ (sys.repair = r \/ (sys.repair = None /\ sys.clean))

-----------------------------------------------------------------------------
At(pc) == control.pc = pc
Goto(pc) == control' = [control EXCEPT !.pc = pc]
\* A step that fails is noted in `ok`.
Advance(pc, good) == control' = [control EXCEPT !.pc = pc, !.ok = @ /\ good]
FileDone(next, good) ==
    control' = [control EXCEPT !.todo = Tail(@), !.ok = @ /\ good,
                               !.pc = IF Len(control.todo) = 1 THEN next ELSE @]
Ended == {"idle", "done"}
Mine == backup[control.release]
Mark(field, value) == backup' = [backup EXCEPT ![control.release][field] = value]
Unfinished(r) == backup[r].started \/ backup[r].rolling
MayBegin(r) == control.pc \in Ended /\ (Overlap \/ \A s \in Release \ {r} : ~Unfinished(s))

(* rollback_impl: a release that never began is left alone, one without saved *)
(* state is refused.                                                          *)
RollbackEntry(cmd, r) ==
    LET entry == [Idle EXCEPT !.cmd = cmd, !.release = r, !.phase = Phase(r)]
    IN IF ~Unfinished(r) /\ Phase(r) # "requested"
       THEN [entry EXCEPT !.cmd = "noop", !.pc = "done"]
       ELSE IF backup[r].saved = None THEN [entry EXCEPT !.pc = "done", !.ok = FALSE]
       ELSE [entry EXCEPT !.pc = "announce"]

-----------------------------------------------------------------------------
(* activate                                                                *)

BeginActivate(r) ==
    /\ MayBegin(r) /\ ~backup[r].dir
    /\ backup' = [backup EXCEPT ![r].dir = TRUE]
    /\ control' = [Idle EXCEPT !.cmd = "activate", !.release = r, !.pc = "save"]
    /\ UNCHANGED <<track, files, sys>>

\* A release activated before is only confirmed, or refused.
ConfirmActive(r) ==
    /\ MayBegin(r) /\ backup[r].dir
    /\ \E ok \in {FALSE, backup[r].complete /\ track.current = r /\ ServiceReady(r)} :
         control' = [Idle EXCEPT !.cmd = "confirm", !.release = r, !.pc = "done", !.ok = ok]
    /\ UNCHANGED <<track, files, sys, backup>>

SaveState ==
    /\ At("save")
    /\ Mark("saved", [files |-> files, timer |-> sys.timer, enabled |-> sys.enabled,
                      repair |-> sys.repair # None, writers |-> sys.writers])
    /\ Goto("mark")
    /\ UNCHANGED <<track, files, sys>>

\* Faulty: nothing records that the activation began.
MarkStartedNot ==
    /\ At("mark")
    /\ Goto("stop")
    /\ UNCHANGED <<track, files, sys, backup>>

MarkStarted ==
    /\ At("mark")
    /\ Mark("started", TRUE)
    /\ Goto("stop")
    /\ UNCHANGED <<track, files, sys>>

StopOldRepair ==
    /\ At("stop")
    /\ sys' = StoppedRepair(sys)
    /\ Goto("switch")
    /\ UNCHANGED <<track, files, backup>>

\* Faulty: a failed transaction does not end the subshell.
SwitchUnchecked ==
    /\ At("switch")
    /\ \E outcome \in TxActivate(control.release) : track' = outcome[1]
    /\ control' = [control EXCEPT !.pc = "install", !.todo = UnitFiles]
    /\ UNCHANGED <<files, sys, backup>>

\* A failed command of the subshell ends it and rolls back.
Switch ==
    /\ At("switch")
    /\ \E outcome \in TxActivate(control.release) :
         /\ track' = outcome[1]
         /\ control' = IF outcome[2]
                       THEN [control EXCEPT !.pc = "install", !.todo = UnitFiles]
                       ELSE [control EXCEPT !.pc = "failed"]
    /\ UNCHANGED <<files, sys, backup>>

InstallFile ==
    /\ At("install")
    /\ files' = [files EXCEPT ![Head(control.todo)] = control.release]
    /\ FileDone("enable", TRUE)
    /\ UNCHANGED <<track, sys, backup>>

EnableTimer ==
    /\ At("enable")
    /\ sys' = [sys EXCEPT !.timer = TRUE, !.enabled = TRUE]
    /\ Goto("writers")
    /\ UNCHANGED <<track, files, backup>>

ResetWriters ==
    /\ At("writers")
    /\ sys' = RestoredWriters(sys, Mine.saved.writers)
    /\ Goto("start")
    /\ UNCHANGED <<track, files, backup>>

StartNewRepair ==
    /\ At("start")
    /\ sys' = StartedRepair([sys EXCEPT !.ready = None])
    /\ Goto("wait")
    /\ UNCHANGED <<track, files, backup>>

AwaitReady ==
    /\ At("wait") /\ ServiceReady(control.release)
    /\ Goto("complete")
    /\ UNCHANGED <<track, files, sys, backup>>

\* An install or a systemctl call fails, or the service is not ready in time.
SubshellFails ==
    /\ control.pc \in {"install", "enable", "writers", "start", "wait"}
    /\ Goto("failed")
    /\ UNCHANGED <<track, files, sys, backup>>

ActivationFailed ==
    /\ At("failed")
    /\ control' = RollbackEntry("undo", control.release)
    /\ UNCHANGED <<track, files, sys, backup>>

Complete ==
    /\ At("complete")
    /\ Mark("complete", TRUE)
    /\ Goto("unmark")
    /\ UNCHANGED <<track, files, sys>>

UnmarkStarted ==
    /\ At("unmark")
    /\ Mark("started", FALSE)
    /\ Goto("done")
    /\ UNCHANGED <<track, files, sys>>

-----------------------------------------------------------------------------
(* rollback                                                                *)

BeginRollback(r) ==
    /\ MayBegin(r)
    /\ control' = RollbackEntry("rollback", r)
    /\ UNCHANGED <<track, files, sys, backup>>

\* The rollback marker.  An error ends the command, but not the rollback of an
\* activation, which runs with errexit off.
Announce ==
    /\ At("announce")
    /\ \/ Mark("rolling", TRUE) /\ Goto("halt")
       \/ ~Mine.rolling /\ UNCHANGED backup
           /\ IF control.cmd = "undo" THEN Goto("halt")
              ELSE control' = [control EXCEPT !.pc = "done", !.ok = FALSE]
    /\ UNCHANGED <<track, files, sys>>

\* From here a step may fail; the next one is tried all the same.
Halt ==
    /\ At("halt")
    /\ \/ sys' = StoppedRepair(sys) /\ Advance("revert", TRUE)
       \/ UNCHANGED sys /\ Advance("revert", FALSE)
    /\ UNCHANGED <<track, files, backup>>

Revert ==
    /\ At("revert")
    /\ \E outcome \in IF control.phase = "requested" THEN TxRollback(control.release)
                       ELSE {<<track, TRUE>>} :
         /\ track' = outcome[1]
         /\ control' = [control EXCEPT !.pc = "restore", !.todo = UnitFiles,
                                       !.ok = @ /\ outcome[2]]
    /\ UNCHANGED <<files, sys, backup>>

\* Faulty: a file that cannot be restored is not counted.
RestoreFileUnchecked ==
    /\ At("restore")
    /\ \E good \in BOOLEAN :
         /\ files' = IF good THEN [files EXCEPT ![Head(control.todo)] =
                                      Mine.saved.files[Head(control.todo)]]
                     ELSE files
         /\ FileDone("units", TRUE)
    /\ UNCHANGED <<track, sys, backup>>

RestoreFile ==
    /\ At("restore")
    /\ \E good \in BOOLEAN :
         /\ files' = IF good THEN [files EXCEPT ![Head(control.todo)] =
                                      Mine.saved.files[Head(control.todo)]]
                     ELSE files
         /\ FileDone("units", good)
    /\ UNCHANGED <<track, sys, backup>>

RestoreTimer ==
    /\ At("units")
    /\ \E enable, start \in BOOLEAN :
         /\ sys' = [sys EXCEPT !.enabled = IF enable THEN Mine.saved.enabled ELSE @,
                               !.timer = IF start THEN Mine.saved.timer ELSE @]
         /\ Advance("resume", enable /\ start)
    /\ UNCHANGED <<track, files, backup>>

ResumeRepair ==
    /\ At("resume")
    /\ \/ /\ Advance("rewrite", TRUE)
          /\ sys' = IF Mine.saved.repair THEN StartedRepair(sys) ELSE sys
       \/ Mine.saved.repair /\ UNCHANGED sys /\ Advance("rewrite", FALSE)
    /\ UNCHANGED <<track, files, backup>>

RestoreWriters ==
    /\ At("rewrite")
    /\ \/ sys' = RestoredWriters(sys, Mine.saved.writers) /\ Advance("forget", TRUE)
       \/ UNCHANGED sys /\ Advance("forget", FALSE)
    /\ UNCHANGED <<track, files, backup>>

ForgetMarkers ==
    /\ At("forget")
    /\ IF control.ok
       THEN /\ backup' = [backup EXCEPT ![control.release].started = FALSE,
                                        ![control.release].rolling = FALSE]
            /\ sys' = [sys EXCEPT !.ready = IF @ = control.release THEN None ELSE @]
       ELSE UNCHANGED <<backup, sys>>
    /\ Goto("done")
    /\ UNCHANGED <<track, files>>

-----------------------------------------------------------------------------
\* The connection of the coordinator, an operator or a signal ends the script.
Kill ==
    /\ control.pc \notin Ended
    /\ control' = Idle
    /\ UNCHANGED <<track, files, sys, backup>>

\* Units that are enabled start: both collectors, and the timer if it is.
Reboot ==
    /\ control' = Idle
    /\ sys' = [sys EXCEPT !.repair = None, !.captured = {}, !.clean = FALSE,
                          !.timer = sys.enabled, !.writers = Collector]
    /\ UNCHANGED <<track, files, backup>>

Activate ==
    \/ SaveState \/ MarkStarted \/ StopOldRepair \/ Switch \/ InstallFile \/ EnableTimer
    \/ ResetWriters \/ StartNewRepair \/ AwaitReady \/ SubshellFails
    \/ ActivationFailed \/ Complete \/ UnmarkStarted

Rollback ==
    \/ Announce \/ Halt \/ Revert \/ RestoreFile \/ RestoreTimer \/ ResumeRepair
    \/ RestoreWriters \/ ForgetMarkers

Next ==
    \/ \E r \in Release : BeginActivate(r) \/ ConfirmActive(r) \/ BeginRollback(r)
    \/ Activate \/ Rollback
    \/ TimerElapses \/ RepairReady \/ RepairEnds \/ Kill \/ Reboot

Spec == Init /\ [][Next]_vars

-----------------------------------------------------------------------------
(* Properties.                                                             *)

Target == Release \cup {None}
Saved == [files : [UnitFile -> Target], timer : BOOLEAN, enabled : BOOLEAN,
          repair : BOOLEAN, writers : SUBSET Collector]

\* The absence of a saved state is none.
ASSUME NotSaved == None \notin Saved

(* Types; the repair runs, and a backup is marked, only in ways the scripts
   can bring about: what is marked has been saved, what is saved has a
   directory (top20k_release_control.sh, 351-373). *)
TypeOK ==
    /\ track.active \in Seq(Release) /\ track.prepared \in Target
    /\ track.current \in Target /\ files \in [UnitFile -> Target]
    /\ sys \in [repair : Target, captured : SUBSET Collector, ready : Target,
                clean : BOOLEAN, timer : BOOLEAN, enabled : BOOLEAN,
                writers : SUBSET Collector]
    /\ \A r \in Release : LET b == backup[r] IN
         /\ b.saved \in Saved \cup {None}
         /\ b.saved # None => b.dir
         /\ (b.started \/ b.rolling \/ b.complete) => b.saved # None

\* Link, journal and unit files are those of one release.
Consistent ==
    /\ track.prepared = None /\ track.current = Newest(track.active)
    /\ \A f \in UnitFile : files[f] = track.current

(* "Code, candidate and service drop-ins therefore change together"
   (README-SAFE-TOP20K-DEPLOYMENT.md:38): wherever a command was cut, either
   link, journal and unit files belong to one release, or a marker and the
   saved state let a rollback go on. *)
ChangeTogether == (\A r \in Release : ~Unfinished(r)) => Consistent

(* A rollback that reports success has undone the release, whatever the
   command before it had done and wherever that was cut: the unit files and
   the timer are as saved, the link is the predecessor's. *)
RollbackRestores ==
    (At("done") /\ control.cmd \in {"rollback", "undo"} /\ control.ok) =>
        /\ Consistent
        /\ track.current # control.release
        /\ files = Mine.saved.files
        /\ sys.enabled = Mine.saved.enabled
        /\ sys.timer = Mine.saved.timer
        /\ ~Unfinished(control.release)

(* An activation that reports success serves the release: link, journal and
   all unit files are its own, and the timer runs.  Success reported for a
   release activated before can only be wrong about the unit files, and only
   while a rollback of it is unfinished. *)
ActivatedServes ==
    (At("done") /\ control.ok) =>
        /\ control.cmd = "activate" =>
             Consistent /\ track.current = control.release /\ sys.timer
        /\ control.cmd = "confirm" =>
             /\ track.current = control.release
             /\ Consistent \/ Mine.rolling

=============================================================================
