------------------------ MODULE RepairCollectorState ------------------------
(***************************************************************************)
(* How the repair service of one shard takes the database over from the    *)
(* ordinary collectors and gives it back: repair_collector_state.sh        *)
(* capture (ExecStartPre) and restore (ExecStopPost), while timers fire,   *)
(* watchdogs find a collector stalled, recovery services restart it, and   *)
(* the repair is stopped or the host reboots at any point.                 *)
(*                                                                         *)
(* Each systemctl call of the script is one action.  systemd itself is     *)
(* modelled by what the units ask of it.                                   *)
(***************************************************************************)
EXTENDS Naturals, Sequences

CONSTANTS Enabled,        \* units that start at boot
          ConflictsWith   \* units the repair service conflicts with: the micro
                          \* collector.  The empty Conflicts= of the drop-in of
                          \* a release does not reset it: "Dependencies (After=,
                          \* etc.) cannot be reset to an empty list"
                          \* (systemd.unit(5)).

CollectorName == {"micro", "full"}
Kind == {"collector", "watch", "timer", "recover"}
Unit == Kind \X CollectorName
CollectorUnit == {"collector"} \X CollectorName

ASSUME UnitConstants == Enabled \subseteq Unit /\ ConflictsWith \subseteq CollectorUnit

VARIABLES unit,     \* state of each unit, as `systemctl is-active` prints it
          repair,   \* the repair service: where it is, and what capture has read
          marker,   \* the snapshot in /run, "none" if there is none
          owed      \* history: units that the repair stopped and nobody started

takeoverVars == <<unit, repair, marker, owed>>

NoState == "none"
Up(state) == state \in {"active", "activating"}

\* The orders of the script.
ReadOrder ==
    << <<"collector", "micro">>, <<"collector", "full">>,
       <<"watch", "micro">>, <<"timer", "micro">>, <<"recover", "micro">>,
       <<"watch", "full">>, <<"timer", "full">>, <<"recover", "full">> >>

\* Faulty: the collectors are stopped before what restarts them.
QuiesceCollectorsFirst ==
    << <<"collector", "micro">>, <<"collector", "full">>,
       <<"timer", "micro">>, <<"timer", "full">>, <<"watch", "micro">>,
       <<"watch", "full">>, <<"recover", "micro">>, <<"recover", "full">> >>

QuiesceOrder ==
    << <<"timer", "micro">>, <<"timer", "full">>, <<"watch", "micro">>,
       <<"watch", "full">>, <<"recover", "micro">>, <<"recover", "full">>,
       <<"collector", "micro">>, <<"collector", "full">> >>

RestoreOrder ==
    << <<"collector", "micro">>, <<"collector", "full">>,
       <<"recover", "micro">>, <<"recover", "full">>, <<"watch", "micro">>,
       <<"watch", "full">>, <<"timer", "micro">>, <<"timer", "full">> >>

Nothing == [u \in Unit |-> NoState]
RepairOff == [pc |-> "off", k |-> 1, read |-> Nothing]

TakeoverInit ==
    /\ unit = [u \in Unit |-> IF u \in Enabled THEN "active" ELSE "inactive"]
    /\ repair = RepairOff /\ marker = Nothing /\ owed = {}

-----------------------------------------------------------------------------
(* systemd.                                                                *)

Running == {"capture", "read", "publish", "quiesce", "check", "main"}

\* A start job of a unit stops the services it conflicts with: the repair ends
\* with its ExecStopPost.
StopsRepair(u) == u \in ConflictsWith /\ repair.pc \in Running
AfterStart(u) == IF StopsRepair(u) THEN [repair EXCEPT !.pc = "restore", !.k = 1]
                 ELSE repair

\* A stop job.  A watchdog that is killed has failed, and its OnFailure starts
\* the recovery service.
Stopped(u, after) ==
    \/ after = [unit EXCEPT ![u] = "inactive"]
    \/ /\ u[1] = "watch" /\ Up(unit[u])
       /\ after = [unit EXCEPT ![u] = "inactive", ![<<"recover", u[2]>>] = "activating"]

\* What the repair stops is owed until it is started again.
Owe(stopped) == owed' = {u \in owed \cup stopped : unit'[u] = "inactive"}

\* A collector exits: without an error for good, with one until Restart=.
Exit(c) ==
    /\ unit[<<"collector", c>>] = "active"
    /\ \E state \in {"inactive", "activating"} : unit' = [unit EXCEPT ![<<"collector", c>>] = state]
    /\ Owe({}) /\ UNCHANGED <<repair, marker>>

\* Restart= is due; or a restart starts the collector, which ends the recovery
\* service that waits for it.
Start(c) ==
    LET u == <<"collector", c>> IN
    /\ unit[u] \in {"activating", "deactivating"}
    /\ unit' = [unit EXCEPT ![u] = "active",
                 ![<<"recover", c>>] = IF unit[u] = "deactivating" THEN "inactive" ELSE @]
    /\ repair' = AfterStart(u)
    /\ Owe({}) /\ UNCHANGED marker

\* The timer of a watchdog elapses.
Elapse(c) ==
    /\ unit[<<"timer", c>>] = "active" /\ unit[<<"watch", c>>] = "inactive"
    /\ unit' = [unit EXCEPT ![<<"watch", c>>] = "activating"]
    /\ Owe({}) /\ UNCHANGED <<repair, marker>>

\* watch_enrichment.py: fails if the collector is active and its newest row is
\* old; ExecCondition ends it without an error if the collector is not active.
Watch(c) ==
    /\ unit[<<"watch", c>>] = "activating"
    /\ \E stale \in BOOLEAN :
         unit' = [unit EXCEPT ![<<"watch", c>>] = "inactive",
                    ![<<"recover", c>>] = IF stale /\ unit[<<"collector", c>>] = "active"
                                          THEN "activating" ELSE @]
    /\ Owe({}) /\ UNCHANGED <<repair, marker>>

\* `systemctl restart` of the recovery service: a collector that runs is stopped
\* and then started, whatever becomes of the service meanwhile.
Recover(c) ==
    LET u == <<"collector", c>> IN
    /\ unit[<<"recover", c>>] = "activating" /\ unit[u] # "deactivating"
    /\ unit' = IF unit[u] = "active" THEN [unit EXCEPT ![u] = "deactivating"]
               ELSE [unit EXCEPT ![u] = "active", ![<<"recover", c>>] = "inactive"]
    /\ repair' = AfterStart(u)
    /\ Owe({}) /\ UNCHANGED marker

\* Kernel or power: /run is lost, enabled units start.
RebootHost ==
    /\ unit' = [u \in Unit |-> IF u \in Enabled THEN "active" ELSE "inactive"]
    /\ repair' = RepairOff /\ marker' = Nothing /\ owed' = {}

-----------------------------------------------------------------------------
(* The repair service.                                                     *)

\* Its timer, or the release control.  The conflicting units stop first.
BeginRepair ==
    /\ repair.pc = "off"
    /\ repair' = [RepairOff EXCEPT !.pc = "capture"]
    /\ unit' = [u \in Unit |-> IF u \in ConflictsWith THEN "inactive" ELSE unit[u]]
    /\ Owe({u \in ConflictsWith : unit[u] # "inactive"})
    /\ UNCHANGED marker

GoTo(pc) == repair' = [repair EXCEPT !.pc = pc, !.k = 1]

\* Faulty: the snapshot of an older run is left in place.
CaptureKeepsMarker ==
    /\ repair.pc = "capture"
    /\ GoTo("read") \/ GoTo("restore")
    /\ UNCHANGED <<unit, marker, owed>>

\* The snapshot of an older run goes first; then the candidate digest must be
\* there.
Capture ==
    /\ repair.pc = "capture"
    /\ marker' = Nothing
    /\ GoTo("read") \/ GoTo("restore")
    /\ UNCHANGED <<unit, owed>>

\* One `systemctl is-active`; a unit whose state is unavailable ends capture.
Read ==
    /\ repair.pc = "read"
    /\ LET u == ReadOrder[repair.k]
       IN repair' = [repair EXCEPT !.read[u] = unit[u],
                                   !.pc = IF repair.k = Len(ReadOrder) THEN "publish" ELSE @,
                                   !.k = IF repair.k = Len(ReadOrder) THEN 1 ELSE @ + 1]
    /\ UNCHANGED <<unit, marker, owed>>

\* mv of the complete snapshot.
Publish ==
    /\ repair.pc = "publish"
    /\ marker' = repair.read
    /\ GoTo("quiesce")
    /\ UNCHANGED <<unit, owed>>

Quiesce ==
    /\ repair.pc = "quiesce"
    /\ LET u == QuiesceOrder[repair.k]
       IN /\ Stopped(u, unit')
          /\ Owe(IF unit[u] = "inactive" THEN {} ELSE {u})
    /\ IF repair.k = Len(QuiesceOrder) THEN GoTo("check")
       ELSE repair' = [repair EXCEPT !.k = @ + 1]
    /\ UNCHANGED marker

\* `systemctl is-active --quiet` of both collectors.
CheckQuiet ==
    /\ repair.pc = "check"
    /\ GoTo(IF \E u \in CollectorUnit : unit[u] = "active" THEN "restore" ELSE "main")
    /\ UNCHANGED <<unit, marker, owed>>

\* The repair ends, or anything before it fails or is stopped.
End ==
    /\ repair.pc \in Running
    /\ GoTo("restore")
    /\ UNCHANGED <<unit, marker, owed>>

\* Faulty: a collector that waits for its restart is not started.
RestoredActiveOnly(u) == marker[u] = "active"

\* restore_unit_state starts what was up, and stops what was not.
RestoredUnits(u) == Up(marker[u])

\* ExecStopPost: without a snapshot there is nothing to restore.
Restore ==
    /\ repair.pc = "restore" /\ marker # Nothing /\ repair.k <= Len(RestoreOrder)
    /\ LET u == RestoreOrder[repair.k]
       IN IF RestoredUnits(u)
          THEN unit' = [unit EXCEPT ![u] = IF u[1] \in {"watch", "recover"}
                                           THEN "activating" ELSE "active"]
          ELSE Stopped(u, unit')
    /\ Owe({})
    /\ repair' = [repair EXCEPT !.k = @ + 1]
    /\ UNCHANGED marker

\* All is restored, or there was nothing to restore.
Finish ==
    /\ repair.pc = "restore" /\ (marker = Nothing \/ repair.k > Len(RestoreOrder))
    /\ marker' = Nothing
    /\ repair' = [repair EXCEPT !.pc = "off", !.k = 1]
    /\ UNCHANGED <<unit, owed>>

\* A start fails: the snapshot stays for nobody to read.
RestoreFails ==
    /\ repair.pc = "restore" /\ marker # Nothing /\ repair.k <= Len(RestoreOrder)
    /\ RestoredUnits(RestoreOrder[repair.k])
    /\ GoTo("off")
    /\ UNCHANGED <<unit, marker, owed>>

-----------------------------------------------------------------------------
Systemd == \E c \in CollectorName : Exit(c) \/ Start(c) \/ Elapse(c) \/ Watch(c) \/ Recover(c)
Repair == \/ BeginRepair \/ Capture \/ Read \/ Publish \/ Quiesce \/ CheckQuiet
          \/ End \/ Restore \/ Finish \/ RestoreFails

TakeoverNext == Systemd \/ Repair \/ RebootHost

TakeoverSpec == TakeoverInit /\ [][TakeoverNext]_takeoverVars

-----------------------------------------------------------------------------
(* Properties.                                                             *)

State == {"active", "activating", "deactivating", "inactive"}

TakeoverTypeOK ==
    /\ unit \in [Unit -> State]
    /\ repair \in [pc : Running \cup {"off", "restore"}, k : 1 .. Len(RestoreOrder) + 1,
                   read : [Unit -> State \cup {NoState}]]
    /\ marker \in [Unit -> State \cup {NoState}]
    /\ owed \subseteq Unit

(* While the repair writes, no ordinary collector runs or is about to, though
   watchdogs fire while it takes over ("Timers and watchdogs are stopped first
   so they cannot race the collector stop"). *)
OneWriter ==
    repair.pc = "main" => \A u \in CollectorUnit : unit[u] = "inactive"

(* Wherever the repair is cut: once it is over, every unit that was up when
   capture read it, and that the repair stopped since, has been started; and
   whatever restore replays is what this run has read ("A failed capture must
   never leave an older run's snapshot for ExecStopPost to replay"). *)
CapturedResume ==
    /\ repair.pc = "off" /\ marker = Nothing => \A u \in owed : ~Up(repair.read[u])
    /\ repair.pc = "restore" /\ repair.read # Nothing /\ marker # Nothing => marker = repair.read

(* "then restores exactly the units that were active before the repair"
   (deploy/README-SAFE-TOP20K-DEPLOYMENT.md): after a run no collector is down
   because of it. *)
RestoresWhatRan ==
    repair.pc = "off" /\ marker = Nothing => owed \cap CollectorUnit = {}
=============================================================================
