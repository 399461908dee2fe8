----------------------- MODULE ReleaseTransactionProofs -----------------------
(***************************************************************************)
(* A release on its way from the replicas into service, for every value of *)
(* the constants.                                                          *)
(*                                                                         *)
(*   1. ReleaseTransaction: the journal protocol is safe for every set of  *)
(*      releases and every nesting depth, and implements ReleaseHistory.   *)
(*      What a command writes next depends on the directory it read at its *)
(*      start, so the invariant carries, for every point a command can be  *)
(*      cut, how the directory relates to that reading (Locals).           *)
(*   2. ReleaseStaging: what is sealed is whole and durable.               *)
(*   3. CandidateSelection: refreshed candidates and packages agree with   *)
(*      what a replica was at one moment, and a selection is the best of   *)
(*      it: what the pool of a scan holds once it has been over some rows  *)
(*      (PoolFits) decides what can be missing from it at the end.         *)
(***************************************************************************)
EXTENDS ReleaseTransaction, ReleaseStaging, CandidateSelection, FoldTheorems,
        FiniteSetTheorems, SequenceTheorems, TLAPS

Level(phase) == [release |-> proc.release, previous |-> proc.saved.current,
                 phase |-> phase]
Pushed(phase) == <<Level(phase)>> \o proc.saved.journal

\* An activation between its check and its end, recovery included.
Activating ==
    proc.pc \in Trying \cup {"recoverLink", "recoverJournal", "recoverSync"} =>
        /\ proc.op = "activate"
        /\ proc.release \in Release
        /\ Coherent(proc.saved)
        /\ Agrees(proc.saved)
        /\ proc.saved.current # proc.release
        /\ disk.lastRollback = proc.saved.lastRollback

ActivationDisk ==
    /\ At("prepare") => disk = proc.saved
    /\ proc.pc \in {"prepareSync", "swap"} =>
         disk.current = proc.saved.current /\ disk.journal = Pushed("prepared")
    /\ proc.pc \in {"swapSync", "commit"} =>
         disk.current = proc.release /\ disk.journal = Pushed("prepared")
    /\ At("commitSync") =>
         disk.current = proc.release /\ disk.journal = Pushed("active")

RecoveryDisk ==
    /\ At("recoverLink") =>
         \/ disk.current = proc.saved.current /\ disk.journal = proc.saved.journal
         \/ /\ disk.current \in {proc.saved.current, proc.release}
            /\ disk.journal \in {Pushed("prepared"), Pushed("active")}
    /\ At("recoverJournal") =>
         /\ disk.current = proc.saved.current
         /\ disk.journal \in {proc.saved.journal, Pushed("prepared"), Pushed("active")}
    /\ proc.pc \in {"recoverSync", "restored"} => disk = proc.saved

RollingBack ==
    proc.pc \in {"unlink", "unlinkSync", "pop"} =>
        /\ proc.op = "rollback"
        /\ Coherent(proc.saved)
        /\ proc.saved.journal # <<>>
        /\ Head(proc.saved.journal).phase = "active"
        /\ Head(proc.saved.journal).release = proc.release
        /\ disk.journal = proc.saved.journal
        /\ ~At("unlink") => disk.current = Head(proc.saved.journal).previous

RolledBack ==
    /\ At("reconcile") => disk = proc.saved
    /\ At("revertSync") =>
         /\ proc.saved.journal # <<>>
         /\ Agrees(disk)
         /\ disk.current # Head(proc.saved.journal).release
    /\ proc.pc \in {"popSync", "report", "reportSync"} =>
         proc.op = "rollback" /\ Agrees(disk) /\ disk.current # proc.release
    /\ At("reportSync") => disk.lastRollback = proc.release

Running == proc.pc \notin Ended => proc.release \in Release

Locals == Running /\ Activating /\ ActivationDisk /\ RecoveryDisk
                  /\ RollingBack /\ RolledBack

IInv == TypeOK /\ Resolvable /\ Locals /\ AcknowledgedIsDurable
               /\ FailedActivationRestores

-----------------------------------------------------------------------------
(* Journals as sequences: pushing, popping and finishing a level.          *)

\* The shape of a journal with a level pushed in front.
LEMMA PushShape ==
    ASSUME NEW j \in Seq(Entry), NEW e \in Entry
    PROVE  /\ <<e>> \o j \in Seq(Entry)
           /\ Len(<<e>> \o j) = Len(j) + 1
           /\ (<<e>> \o j)[1] = e
           /\ \A i \in 1 .. Len(j) : (<<e>> \o j)[i+1] = j[i]
           /\ <<e>> \o j # <<>>
           /\ Head(<<e>> \o j) = e
           /\ Tail(<<e>> \o j) = j
  OBVIOUS

\* Linked journals stay linked when an activation pushes its level: the new
\* level records the release below it, and the level below is finished.
LEMMA PushLinked ==
    ASSUME NEW j \in Seq(Entry), NEW e \in Entry, Linked(j),
           e.release # e.previous,
           e.previous = IF j = <<>> THEN None ELSE Head(j).release,
           j # <<>> => Head(j).phase = "active"
    PROVE  Linked(<<e>> \o j)
  <1> DEFINE k == <<e>> \o j
  <1>1. SUFFICES ASSUME NEW i \in 1 .. Len(j) + 1
                 PROVE  /\ k[i].release # k[i].previous
                        /\ k[i].previous = IF i < Len(k) THEN k[i+1].release ELSE None
                        /\ i > 1 => k[i].phase = "active"
    BY PushShape DEF Linked
  <1>2. CASE i = 1
    BY <1>2, PushShape
  <1>3. CASE i > 1
    <2>1. i - 1 \in 1 .. Len(j) /\ k[i] = j[i-1]
      BY <1>3, PushShape
    <2>2. i < Len(k) => k[i+1] = j[(i-1)+1]
      BY <1>3, PushShape
    <2>3. j[i-1].phase = "active"
      BY <1>3, <2>1 DEF Linked
    <2>4. QED
      BY <1>3, <2>1, <2>2, <2>3, PushShape DEF Linked
  <1>4. QED
    BY <1>2, <1>3

\* A popped journal stays linked, and its new top is the rollback target.
LEMMA PopLinked ==
    ASSUME NEW j \in Seq(Entry), j # <<>>, Linked(j)
    PROVE  /\ Tail(j) \in Seq(Entry)
           /\ Linked(Tail(j))
           /\ Head(j) \in Entry
           /\ Tail(j) = <<>> => Head(j).previous = None
           /\ Tail(j) # <<>> => /\ Head(Tail(j)).release = Head(j).previous
                                /\ Head(Tail(j)).phase = "active"
           /\ Head(j).release # Head(j).previous
  <1>1. /\ Tail(j) \in Seq(Entry) /\ Len(Tail(j)) = Len(j) - 1 /\ Len(j) \in Nat \ {0}
        /\ \A i \in 1 .. Len(j) - 1 : Tail(j)[i] = j[i+1]
    OBVIOUS
  <1>2. Linked(Tail(j))
    BY <1>1 DEF Linked
  <1>3. Tail(j) = <<>> => Head(j).previous = None
    BY <1>1 DEF Linked
  <1>4. Tail(j) # <<>> => /\ Head(Tail(j)).release = Head(j).previous
                         /\ Head(Tail(j)).phase = "active"
    <2>1. SUFFICES ASSUME Tail(j) # <<>>
                   PROVE  /\ Head(Tail(j)).release = Head(j).previous
                          /\ Head(Tail(j)).phase = "active"
      OBVIOUS
    <2>2. Len(j) > 1 /\ Head(Tail(j)) = j[2] /\ Head(j) = j[1]
      BY <1>1, <2>1
    <2>3. QED
      BY <2>2 DEF Linked
  <1>5. QED
    BY <1>1, <1>2, <1>3, <1>4 DEF Linked

\* Finishing the top level of a journal changes its phase and nothing else.
LEMMA FinishLinked ==
    ASSUME NEW j \in Seq(Entry), j # <<>>, Linked(j)
    PROVE  /\ Activated(Head(j)) \in Entry
           /\ Activated(Head(j)).release = Head(j).release
           /\ Activated(Head(j)).previous = Head(j).previous
           /\ Activated(Head(j)).phase = "active"
           /\ Linked(<<Activated(Head(j))>> \o Tail(j))
  <1>1. /\ Activated(Head(j)) \in Entry
        /\ Activated(Head(j)).release = Head(j).release
        /\ Activated(Head(j)).previous = Head(j).previous
        /\ Activated(Head(j)).phase = "active"
    BY PopLinked DEF Activated, Entry
  <1>2. QED
    BY <1>1, PopLinked, PushLinked

-----------------------------------------------------------------------------
(* Steps of the invariant.                                                 *)

\* A directory operation that leaves a coherent directory keeps them all so.
LEMMA PutKeeps ==
    ASSUME TypeOK, Resolvable, NEW d \in Directory, Put(d), Coherent(d)
    PROVE  /\ disk' = d /\ disk' \in Directory
           /\ survivors' \in SUBSET Directory /\ disk' \in survivors'
           /\ Resolvable'
  BY DEF TypeOK, Resolvable, Put

\* Without a command nothing is asked of the directory but coherence.
LEMMA IdleLocals ==
    ASSUME At("idle")
    PROVE  Locals /\ AcknowledgedIsDurable /\ FailedActivationRestores
  BY DEF Locals, Running, Ended, Activating, ActivationDisk, RecoveryDisk, RollingBack, RolledBack, At,
         Trying, AcknowledgedIsDurable, FailedActivationRestores

\* Ending a command with an error, or losing it, only forgets its locals.
LEMMA QuitKeeps ==
    ASSUME Quit
    PROVE  /\ proc' \in Process
           /\ Locals' /\ AcknowledgedIsDurable' /\ FailedActivationRestores'
  <1>1. Empty \in Directory
    BY DEF Empty, Directory, Target
  <1>2. proc'.pc = "idle" /\ proc' \in Process
    BY <1>1 DEF Quit, NoProcess, Process, Ended, Target
  <1>3. QED
    BY <1>2 DEF Locals, Running, Ended, Activating, ActivationDisk, RecoveryDisk, RollingBack,
                RolledBack, At, Trying, AcknowledgedIsDurable, FailedActivationRestores

LEMMA InitInv == Init => IInv
  <1> SUFFICES ASSUME Init PROVE IInv
    OBVIOUS
  <1>2. Empty \in Directory /\ Coherent(Empty)
    BY DEF Empty, Directory, Target, Coherent, Linked
  <1>3. TypeOK /\ Resolvable
    BY <1>2, ConstantsOK DEF Init, TypeOK, Resolvable, NoProcess, Process, Ended, Target
  <1>4. At("idle")
    BY DEF Init, NoProcess, At
  <1>5. QED
    BY <1>3, <1>4, IdleLocals DEF IInv

LEMMA BeginInv ==
    ASSUME IInv, NEW r \in Release, BeginActivate(r) \/ BeginRollback(r)
    PROVE  IInv'
  <1>1. /\ disk' = disk /\ survivors' = survivors
        /\ proc' \in Process /\ proc'.pc = "reconcile" /\ proc'.saved = disk
        /\ proc'.release \in Release
    BY DEF IInv, TypeOK, BeginActivate, BeginRollback, Reading, Process, Other, Target
  <1>2. QED
    BY <1>1 DEF IInv, TypeOK, Resolvable, Locals, Running, Ended, Activating, ActivationDisk, RecoveryDisk,
         RollingBack, RolledBack, At, Trying, AcknowledgedIsDurable, FailedActivationRestores

LEMMA ReconcileInv ==
    ASSUME IInv, ReconcileNothing \/ ReconcileFinish \/ ReconcileRevert
    PROVE  IInv'
  <1> USE DEF IInv, At
  <1>1. CASE ReconcileNothing
    <2>1. /\ disk' = disk /\ survivors' = survivors
          /\ proc' \in Process /\ proc'.pc = "check" /\ proc'.release = proc.release
          /\ proc.pc = "reconcile"
      BY <1>1 DEF ReconcileNothing, Goto, Reading, TypeOK, Process, Other
    <2>2. QED
      BY <2>1 DEF TypeOK, Resolvable, Locals, Running, Ended, Activating, ActivationDisk, RecoveryDisk,
         RollingBack, RolledBack, Trying, AcknowledgedIsDurable, FailedActivationRestores
  <1>2. CASE ReconcileFinish
    <2> DEFINE d == [disk EXCEPT !.journal = <<Activated(Top)>> \o Tail(disk.journal)]
    <2>1. /\ disk.journal \in Seq(Entry) /\ disk.journal # <<>>
          /\ Linked(disk.journal) /\ disk.current = Top.release
          /\ disk \in Directory
      BY <1>2 DEF ReconcileFinish, Prepared, TypeOK, Resolvable, Coherent, Directory
    <2>2. d \in Directory
      BY <2>1, FinishLinked, PopLinked, PushShape DEF Directory, Top
    <2>3. /\ d.journal = <<Activated(Top)>> \o Tail(disk.journal)
          /\ d.current = disk.current
      BY <2>1 DEF Directory
    <2> HIDE DEF d
    <2>linked. /\ Linked(d.journal) /\ d.journal # <<>>
          /\ Head(d.journal) = Activated(Top)
      BY <2>1, <2>3, FinishLinked, PopLinked, PushShape DEF Top
    <2>4. Coherent(d)
      BY <2>1, <2>3, <2>linked, FinishLinked DEF Coherent, Top
    <2>5. /\ Put(d) /\ proc' \in Process /\ proc'.pc = "finishSync"
          /\ proc'.release = proc.release /\ proc.pc = "reconcile"
      BY <1>2 DEF d, ReconcileFinish, Goto, TypeOK, Process, Other
    <2>6. QED
      BY <2>2, <2>4, <2>5, PutKeeps DEF TypeOK, Locals, Running, Ended, Activating, ActivationDisk,
         RecoveryDisk, RollingBack, RolledBack, Trying, AcknowledgedIsDurable,
         FailedActivationRestores
  <1>3. CASE ReconcileRevert
    <2>1. CASE Reading /\ Quit
      BY <2>1, QuitKeeps DEF Reading, TypeOK, Resolvable
    <2> DEFINE d == [disk EXCEPT !.journal = Tail(disk.journal)]
    <2>2. CASE Put(d) /\ Goto("revertSync") /\ disk.current = Top.previous
      <3>1. /\ disk.journal \in Seq(Entry) /\ disk.journal # <<>>
            /\ Linked(disk.journal) /\ disk \in Directory /\ proc.saved = disk
        BY <1>3 DEF ReconcileRevert, Prepared, TypeOK, Resolvable, Coherent, Directory,
             Locals, RolledBack
      <3>2. d \in Directory /\ d.journal = Tail(disk.journal) /\ d.current = Top.previous
        BY <2>2, <3>1, PopLinked DEF Directory, Top
      <3> HIDE DEF d
      <3>linked. Linked(d.journal) /\ d.current # Head(disk.journal).release
        BY <3>1, <3>2, PopLinked DEF Top
      <3>target. IF d.journal = <<>> THEN d.current = None
            ELSE /\ d.current = Head(d.journal).release
                 /\ Head(d.journal).phase = "active" /\ d.current \in Release
        <4>1. Tail(disk.journal) # <<>> => Head(Tail(disk.journal)) \in Entry
          BY <3>1, PopLinked
        <4>2. QED
          BY <4>1, <3>1, <3>2, PopLinked DEF Top, Entry
      <3>3. Coherent(d) /\ Agrees(d) /\ d.current # Head(disk.journal).release
        BY <3>linked, <3>target, ConstantsOK DEF Coherent, Agrees
      <3>4. /\ proc' \in Process /\ proc'.pc = "revertSync" /\ proc'.saved = proc.saved
            /\ proc'.release = proc.release /\ proc.pc = "reconcile"
        BY <1>3, <2>2 DEF ReconcileRevert, Goto, TypeOK, Process, Other
      <3>5. disk' = d /\ TypeOK' /\ Resolvable'
        <4>1. Put(d)
          BY <2>2 DEF d
        <4>2. QED
        BY <4>1, <3>2, <3>3, <3>4, PutKeeps DEF TypeOK
      <3>6. Locals'
        BY <3>1, <3>3, <3>4, <3>5 DEF Locals, Running, Ended, Activating, ActivationDisk, RecoveryDisk,
             RollingBack, RolledBack, Trying
      <3>7. QED
        BY <3>4, <3>5, <3>6 DEF AcknowledgedIsDurable, FailedActivationRestores
    <2>3. QED
      BY <1>3, <2>1, <2>2 DEF ReconcileRevert
  <1>4. QED
    BY <1>1, <1>2, <1>3

\* What an activation has pushed: a linked journal over the one it read.
LEMMA PushedLevel ==
    ASSUME TypeOK, Activating,
           proc.pc \in Trying \cup {"recoverLink", "recoverJournal", "recoverSync"},
           NEW phase \in {"prepared", "active"}
    PROVE  /\ proc.saved \in Directory /\ Level(phase) \in Entry
           /\ Pushed(phase) \in Seq(Entry) /\ Pushed(phase) # <<>>
           /\ Linked(Pushed(phase))
           /\ Head(Pushed(phase)) = Level(phase)
           /\ Tail(Pushed(phase)) = proc.saved.journal
  <1> DEFINE e == Level(phase)
             j == proc.saved.journal
  <1>1. proc.saved \in Directory /\ e \in Entry /\ j \in Seq(Entry)
    BY DEF TypeOK, Activating, Process, Directory, Level, Entry
  <1>2. /\ e.release # e.previous
        /\ e.previous = IF j = <<>> THEN None ELSE Head(j).release
        /\ j # <<>> => Head(j).phase = "active"
        /\ Linked(j)
    BY DEF Activating, Level, Agrees, Coherent
  <1>3. QED
    BY <1>1, <1>2, PushShape, PushLinked DEF Pushed

\* Both unfinished and finished, the pushed journal goes with either link.
LEMMA PushedCoherent ==
    ASSUME NEW d \in Directory, TypeOK, Activating,
           proc.pc \in Trying \cup {"recoverLink", "recoverJournal", "recoverSync"},
           d.journal \in {Pushed("prepared"), Pushed("active")},
           d.current \in {proc.saved.current, proc.release}
    PROVE  Coherent(d)
  BY PushedLevel DEF Coherent, Level

LEMMA CheckActivateInv ==
    ASSUME IInv, CheckAlreadyActive \/ CheckActivate
    PROVE  IInv'
  <1> USE DEF IInv, At
  <1>1. disk' = disk /\ survivors' = survivors
    BY DEF CheckAlreadyActive, CheckActivate, Reading
  <1>2. CASE Quit
    BY <1>1, <1>2, QuitKeeps DEF TypeOK, Resolvable
  <1>3. CASE Goto("alreadyActive")
    <2>1. proc' \in Process /\ proc'.pc = "alreadyActive"
      BY <1>3 DEF Goto, TypeOK, Process, Ended
    <2>2. QED
      BY <1>1, <2>1 DEF TypeOK, Resolvable, Locals, Running, Ended, Activating, ActivationDisk, RecoveryDisk,
         RollingBack, RolledBack, Trying, AcknowledgedIsDurable, FailedActivationRestores
  <1>4. CASE CheckActivate /\ Agrees(disk)
    <2>1. /\ proc' \in Process /\ proc'.pc = "prepare" /\ proc'.saved = disk
          /\ proc'.op = "activate" /\ proc'.release = proc.release
      BY <1>4 DEF CheckActivate, TypeOK, Process, Trying
    <2>2. disk.current # proc.release /\ Coherent(disk)
      BY <1>4 DEF CheckActivate, TypeOK, Resolvable
    <2>3. proc.release \in Release
      BY <1>4 DEF CheckActivate, Locals, Running, Ended
    <2>4. QED
      BY <1>1, <1>4, <2>1, <2>2, <2>3 DEF TypeOK, Resolvable, Locals, Running, Ended, Activating,
         ActivationDisk, RecoveryDisk, RollingBack, RolledBack, Trying,
         AcknowledgedIsDurable, FailedActivationRestores, Agrees
  <1>5. QED
    BY <1>2, <1>3, <1>4 DEF CheckAlreadyActive, CheckActivate

\* The writes of an activation: journal, link, journal.
LEMMA ActivateInv ==
    ASSUME IInv, PrepareJournal \/ SwapLink \/ CommitJournal
    PROVE  IInv'
  <1> USE DEF IInv, At
  <1> DEFINE prepared == [disk EXCEPT !.journal = Pushed("prepared")]
             swapped == [disk EXCEPT !.current = proc.release]
             committed == [disk EXCEPT !.journal = Pushed("active")]
  <1>1. /\ proc.pc \in {"prepare", "swap", "commit"}
        /\ proc.pc \in Trying
        /\ TypeOK /\ Activating /\ ActivationDisk /\ disk \in Directory
        /\ proc.release \in Release
    BY DEF PrepareJournal, SwapLink, CommitJournal, Trying, Locals, Activating, TypeOK
  <1>2. /\ prepared \in Directory /\ prepared.journal = Pushed("prepared")
        /\ prepared.current = disk.current /\ prepared.lastRollback = disk.lastRollback
        /\ swapped \in Directory /\ swapped.journal = disk.journal
        /\ swapped.current = proc.release /\ swapped.lastRollback = disk.lastRollback
        /\ committed \in Directory /\ committed.journal = Pushed("active")
        /\ committed.current = disk.current /\ committed.lastRollback = disk.lastRollback
    BY <1>1, PushedLevel DEF Directory, Target
  <1> HIDE DEF prepared, swapped, committed
  <1>3. ASSUME NEW d \in Directory, Put(d), Coherent(d),
               NEW label \in Trying, Goto(label), d.lastRollback = disk.lastRollback,
               \/ label = "prepareSync" /\ d.current = proc.saved.current
                                        /\ d.journal = Pushed("prepared")
               \/ label = "swapSync" /\ d.current = proc.release
                                     /\ d.journal = Pushed("prepared")
               \/ label = "commitSync" /\ d.current = proc.release
                                       /\ d.journal = Pushed("active")
        PROVE  IInv'
    <2>1. /\ disk' = d /\ disk' \in survivors' /\ survivors' \in SUBSET Directory
          /\ Resolvable'
      BY <1>3, PutKeeps
    <2>2. /\ proc' \in Process /\ proc'.pc = label /\ proc'.op = proc.op
          /\ proc'.release = proc.release /\ proc'.saved = proc.saved
      BY <1>3 DEF Goto, TypeOK, Process
    <2>3. Pushed("prepared")' = Pushed("prepared") /\ Pushed("active")' = Pushed("active")
      BY <2>2 DEF Pushed, Level
    <2>4. Activating' /\ Running'
      BY <1>1, <1>3, <2>1, <2>2 DEF Activating, Running
    <2>5. ActivationDisk' /\ RecoveryDisk' /\ RollingBack' /\ RolledBack'
      BY <1>3, <2>1, <2>2, <2>3 DEF ActivationDisk, RecoveryDisk, RollingBack, RolledBack, Trying
    <2>6. AcknowledgedIsDurable' /\ FailedActivationRestores'
      BY <2>2 DEF AcknowledgedIsDurable, FailedActivationRestores, Trying
    <2>7. QED
      BY <2>1, <2>2, <2>4, <2>5, <2>6 DEF TypeOK, Locals
  <1>4. CASE PrepareJournal
    <2>1. Put(prepared) /\ Goto("prepareSync") /\ disk = proc.saved
      BY <1>1, <1>4 DEF PrepareJournal, ActivationDisk, prepared, Pushed, Level
    <2>2. Coherent(prepared)
      BY <1>1, <1>2, <2>1, PushedCoherent
    <2>3. QED
      BY <1>2, <1>3, <2>1, <2>2 DEF Trying
  <1>5. CASE SwapLink
    <2>1. /\ Put(swapped) /\ Goto("swapSync") /\ disk.journal = Pushed("prepared")
          /\ disk.current = proc.saved.current
      BY <1>1, <1>5 DEF SwapLink, ActivationDisk, swapped
    <2>2. Coherent(swapped)
      BY <1>1, <1>2, <2>1, PushedCoherent
    <2>3. QED
      BY <1>2, <1>3, <2>1, <2>2 DEF Trying
  <1>6. CASE CommitJournal
    <2>1. /\ Put(committed) /\ Goto("commitSync") /\ disk.current = proc.release
      BY <1>1, <1>6 DEF CommitJournal, ActivationDisk, committed, Pushed, Level
    <2>2. Coherent(committed)
      BY <1>1, <1>2, <2>1, PushedCoherent
    <2>3. QED
      BY <1>2, <1>3, <2>1, <2>2 DEF Trying
  <1>7. QED
    BY <1>4, <1>5, <1>6

\* The exception handler of an activation.
LEMMA RecoverInv ==
    ASSUME IInv, RecoverLink \/ RecoverJournal
    PROVE  IInv'
  <1> USE DEF IInv, At
  <1> DEFINE S == proc.saved
  <1>1. /\ TypeOK /\ Activating /\ RecoveryDisk /\ Resolvable /\ disk \in Directory
        /\ S \in Directory /\ proc.release \in Release /\ Coherent(disk)
        /\ proc.pc \in {"recoverLink", "recoverJournal"}
        /\ Coherent(S) /\ Agrees(S) /\ disk.lastRollback = S.lastRollback
    BY DEF RecoverLink, RecoverJournal, Locals, Activating, TypeOK, Process, Resolvable
  <1>2. CASE RecoverLink
    <2> DEFINE d == [disk EXCEPT !.current = S.current]
    <2>1. /\ d \in Directory /\ d.current = S.current /\ d.journal = disk.journal
          /\ d.lastRollback = disk.lastRollback
      BY <1>1 DEF Directory
    <2>2. /\ proc.pc = "recoverLink"
          /\ \/ disk.current = S.current /\ disk.journal = S.journal
             \/ /\ disk.current \in {S.current, proc.release}
                /\ disk.journal \in {Pushed("prepared"), Pushed("active")}
      BY <1>1, <1>2 DEF RecoverLink, RecoveryDisk
    <2>3. /\ proc' \in Process /\ proc'.pc = "recoverJournal" /\ proc'.op = proc.op
          /\ proc'.release = proc.release /\ proc'.saved = S
          /\ Pushed("prepared")' = Pushed("prepared") /\ Pushed("active")' = Pushed("active")
      BY <1>2 DEF RecoverLink, Goto, TypeOK, Process, Other, Pushed, Level
    <2>4. Activating' /\ Running' /\ RollingBack' /\ RolledBack' /\ ActivationDisk'
          /\ AcknowledgedIsDurable' /\ FailedActivationRestores'
      <3>1. disk'.lastRollback = disk.lastRollback
        BY <1>2, <2>1 DEF RecoverLink, Reading, Put
      <3>2. QED
        BY <1>1, <2>2, <2>3, <3>1 DEF Activating, Running, RollingBack, RolledBack,
           ActivationDisk, Trying, AcknowledgedIsDurable, FailedActivationRestores
    <2>5. CASE Reading
      <3>1. disk.current = S.current
        BY <1>2, <2>1, <2>2, <2>5 DEF RecoverLink, Reading, Put
      <3>2. QED
        BY <2>2, <2>3, <2>4, <2>5, <3>1 DEF Reading, TypeOK, Resolvable, Locals, RecoveryDisk
    <2>6. CASE Put(d)
      <3>1. Coherent(d)
        <4>1. CASE disk.current = S.current /\ disk.journal = S.journal
          BY <4>1, <1>1, <2>1 DEF Coherent
        <4>2. CASE disk.journal \in {Pushed("prepared"), Pushed("active")}
          <5>1. d.journal \in {Pushed("prepared"), Pushed("active")}
            BY <4>2, <2>1
          <5>2. d.current \in {S.current, proc.release}
            BY <2>1
          <5>3. QED
            BY <1>1, <2>1, <5>1, <5>2, PushedCoherent
        <4>3. QED
          BY <2>2, <4>1, <4>2
      <3> HIDE DEF d
      <3>2. /\ disk' = d /\ disk' \in survivors' /\ survivors' \in SUBSET Directory
            /\ Resolvable'
        BY <2>1, <2>6, <3>1, PutKeeps
      <3>3. QED
        BY <2>1, <2>2, <2>3, <2>4, <3>2 DEF TypeOK, Locals, RecoveryDisk
    <2>7. QED
      BY <1>2, <2>5, <2>6 DEF RecoverLink
  <1>3. CASE RecoverJournal
    <2> DEFINE d == [disk EXCEPT !.journal = S.journal]
    <2>1. /\ d \in Directory /\ d.current = disk.current /\ d.journal = S.journal
          /\ d.lastRollback = disk.lastRollback /\ disk.current = S.current
      BY <1>1, <1>3 DEF Directory, RecoverJournal, RecoveryDisk
    <2>2. d = S
      BY <1>1, <2>1 DEF Directory
    <2>3. Put(d) /\ Coherent(d) /\ proc.pc = "recoverJournal"
      BY <1>1, <1>3, <2>2 DEF RecoverJournal
    <2> HIDE DEF d
    <2>4. /\ disk' = S /\ disk' \in survivors' /\ survivors' \in SUBSET Directory
          /\ Resolvable'
      BY <2>1, <2>2, <2>3, PutKeeps
    <2>5. /\ proc' \in Process /\ proc'.pc = "recoverSync" /\ proc'.op = proc.op
          /\ proc'.release = proc.release /\ proc'.saved = S
      BY <1>3 DEF RecoverJournal, Goto, TypeOK, Process, Other
    <2>6. Activating' /\ Running' /\ RollingBack' /\ RolledBack' /\ ActivationDisk'
          /\ RecoveryDisk' /\ AcknowledgedIsDurable' /\ FailedActivationRestores'
      BY <1>1, <2>3, <2>4, <2>5 DEF Activating, Running, RollingBack, RolledBack,
         ActivationDisk, RecoveryDisk, Trying, AcknowledgedIsDurable, FailedActivationRestores
    <2>7. QED
      BY <2>4, <2>5, <2>6 DEF TypeOK, Locals
  <1>4. QED
    BY <1>2, <1>3

LEMMA CheckRollbackInv ==
    ASSUME IInv, CheckRollback
    PROVE  IInv'
  <1> USE DEF IInv, At
  <1>1. /\ disk' = disk /\ survivors' = survivors /\ proc.op = "rollback"
        /\ proc.pc = "check" /\ proc.release \in Release
        /\ disk \in Directory /\ Coherent(disk)
    BY DEF CheckRollback, Reading, Locals, Running, Ended, TypeOK, Resolvable
  <1>2. CASE Quit
    BY <1>1, <1>2, QuitKeeps DEF TypeOK, Resolvable
  <1>3. CASE /\ disk.journal # <<>> /\ Top.phase = "active" /\ Top.release = proc.release
             /\ \/ /\ proc' = [proc EXCEPT !.pc = "unlink", !.saved = disk]
                \/ /\ proc' = [proc EXCEPT !.pc = "pop", !.saved = disk]
                   /\ disk.current = Top.previous
    <2>1. /\ proc' \in Process /\ proc'.saved = disk /\ proc'.op = "rollback"
          /\ proc'.release = proc.release
          /\ \/ proc'.pc = "unlink"
             \/ proc'.pc = "pop" /\ disk.current = Top.previous
      BY <1>1, <1>3 DEF TypeOK, Process, Other
    <2>2. QED
      BY <1>1, <1>3, <2>1 DEF TypeOK, Resolvable, Locals, Running, Activating,
         ActivationDisk, RecoveryDisk, RollingBack, RolledBack, Trying, Top,
         AcknowledgedIsDurable, FailedActivationRestores
  <1>4. QED
    BY <1>2, <1>3 DEF CheckRollback

\* The writes of a rollback: link, journal, report.
LEMMA RollbackInv ==
    ASSUME IInv, RestoreLink \/ PopJournal \/ WriteReport
    PROVE  IInv'
  <1> USE DEF IInv, At
  <1> DEFINE S == proc.saved
             j == proc.saved.journal
  <1>1. /\ TypeOK /\ Resolvable /\ disk \in Directory /\ Coherent(disk)
        /\ proc.release \in Release /\ S \in Directory /\ j \in Seq(Entry)
        /\ proc.pc \in {"unlink", "pop", "report"}
    BY DEF RestoreLink, PopJournal, WriteReport, TypeOK, Resolvable, Locals, Running,
       Ended, Process, Directory
  <1>2. proc.pc \in {"unlink", "pop"} =>
          /\ Coherent(S) /\ Linked(j) /\ j # <<>> /\ Head(j).phase = "active"
          /\ Head(j).release = proc.release /\ disk.journal = j /\ proc.op = "rollback"
          /\ Head(j) \in Entry
    BY <1>1, PopLinked DEF Locals, RollingBack, Coherent
  <1>3. ASSUME NEW label \in Other, Goto(label)
        PROVE  /\ proc' \in Process /\ proc'.pc = label /\ proc'.op = proc.op
               /\ proc'.release = proc.release /\ proc'.saved = S
    BY <1>3 DEF Goto, TypeOK, Process
  <1>4. CASE RestoreLink
    <2> DEFINE d == [disk EXCEPT !.current = Head(j).previous]
    <2>1. d \in Directory /\ d.current = Head(j).previous /\ d.journal = j
      BY <1>1, <1>2, <1>4 DEF RestoreLink, Directory, Entry
    <2>2. Coherent(d)
      BY <1>1, <1>2, <1>4, <2>1 DEF RestoreLink, Coherent
    <2>3. Put(d) /\ Goto("unlinkSync") /\ proc.pc = "unlink"
      BY <1>4 DEF RestoreLink
    <2> HIDE DEF d
    <2>4. /\ disk' = d /\ disk' \in survivors' /\ survivors' \in SUBSET Directory
          /\ Resolvable'
      BY <2>1, <2>2, <2>3, PutKeeps
    <2>5. /\ proc' \in Process /\ proc'.pc = "unlinkSync" /\ proc'.op = proc.op
          /\ proc'.release = proc.release /\ proc'.saved = S
      BY <1>3, <2>3 DEF Other
    <2>6. QED
      BY <1>1, <1>2, <2>1, <2>3, <2>4, <2>5 DEF TypeOK, Locals, Running, Activating,
         ActivationDisk, RecoveryDisk, RollingBack, RolledBack, Trying,
         AcknowledgedIsDurable, FailedActivationRestores
  <1>5. CASE PopJournal
    <2> DEFINE d == [disk EXCEPT !.journal = Tail(j)]
    <2>1. CASE Reading /\ Quit
      BY <2>1, QuitKeeps DEF Reading, TypeOK, Resolvable
    <2>2. CASE Put(d) /\ Goto("popSync")
      <3>1. /\ proc.pc = "pop" /\ disk.current = Head(j).previous
        BY <1>5 DEF PopJournal, Locals, RollingBack
      <3>2. d \in Directory /\ d.journal = Tail(j) /\ d.current = Head(j).previous
        BY <1>1, <1>2, <3>1, PopLinked DEF Directory
      <3>3. Put(d) /\ Goto("popSync")
        BY <2>2
      <3> HIDE DEF d
      <3>4. Linked(d.journal) /\ d.current # proc.release
        BY <1>1, <1>2, <3>1, <3>2, PopLinked
      <3>5. IF d.journal = <<>> THEN d.current = None
            ELSE /\ d.current = Head(d.journal).release
                 /\ Head(d.journal).phase = "active" /\ d.current \in Release
        <4>1. Tail(j) # <<>> => Head(Tail(j)) \in Entry
          BY <1>1, <1>2, <3>1, PopLinked
        <4>2. QED
          BY <4>1, <1>1, <1>2, <3>1, <3>2, PopLinked DEF Entry
      <3>6. Coherent(d) /\ Agrees(d)
        BY <3>4, <3>5, ConstantsOK DEF Coherent, Agrees
      <3>7. /\ disk' = d /\ disk' \in survivors' /\ survivors' \in SUBSET Directory
            /\ Resolvable'
        BY <1>1, <3>2, <3>3, <3>6, PutKeeps
      <3>8. /\ proc' \in Process /\ proc'.pc = "popSync" /\ proc'.op = "rollback"
            /\ proc'.release = proc.release /\ proc'.saved = S
        BY <1>2, <1>3, <3>1, <3>3 DEF Other
      <3>9. QED
        BY <1>1, <3>4, <3>6, <3>7, <3>8 DEF TypeOK, Locals, Running, Activating,
           ActivationDisk, RecoveryDisk, RollingBack, RolledBack, Trying,
           AcknowledgedIsDurable, FailedActivationRestores
    <2>3. QED
      BY <1>5, <2>1, <2>2 DEF PopJournal
  <1>6. CASE WriteReport
    <2> DEFINE d == [disk EXCEPT !.lastRollback = proc.release]
    <2>1. /\ d \in Directory /\ d.lastRollback = proc.release
          /\ d.journal = disk.journal /\ d.current = disk.current
      BY <1>1 DEF Directory, Target
    <2>2. /\ Put(d) /\ Goto("reportSync") /\ proc.pc = "report"
          /\ proc.op = "rollback" /\ Agrees(disk) /\ disk.current # proc.release
      BY <1>6 DEF WriteReport, Locals, RolledBack
    <2> HIDE DEF d
    <2>3. Coherent(d) /\ Agrees(d)
      BY <1>1, <2>1, <2>2 DEF Coherent, Agrees
    <2>4. /\ disk' = d /\ disk' \in survivors' /\ survivors' \in SUBSET Directory
          /\ Resolvable'
      BY <1>1, <2>1, <2>2, <2>3, PutKeeps
    <2>5. /\ proc' \in Process /\ proc'.pc = "reportSync" /\ proc'.op = proc.op
          /\ proc'.release = proc.release /\ proc'.saved = S
      BY <1>3, <2>2 DEF Other
    <2>6. QED
      BY <1>1, <2>1, <2>2, <2>3, <2>4, <2>5 DEF TypeOK, Locals, Running, Activating,
         ActivationDisk, RecoveryDisk, RollingBack, RolledBack, Trying,
         AcknowledgedIsDurable, FailedActivationRestores
  <1>7. QED
    BY <1>4, <1>5, <1>6

\* fsync changes no directory; it drops the older survivors.
LEMMA SyncInv ==
    ASSUME IInv, Sync \/ SyncReverted
    PROVE  IInv'
  <1> USE DEF IInv, At
  <1>1. /\ disk' = disk /\ survivors' = {disk} /\ disk \in Directory /\ Coherent(disk)
        /\ Resolvable' /\ proc.release \in Release
    BY DEF Sync, SyncReverted, TypeOK, Resolvable, Locals, Running, Ended
  <1>2. CASE Quit
    BY <1>1, <1>2, QuitKeeps DEF TypeOK
  <1>3. ASSUME NEW label, Goto(label), label \in Ended \cup Trying \cup Other
        PROVE  /\ proc' \in Process /\ proc'.pc = label /\ proc'.op = proc.op
               /\ proc'.release = proc.release /\ proc'.saved = proc.saved
    BY <1>3 DEF Goto, TypeOK, Process
  <1>4. CASE Sync
    <2>1. \/ proc.pc = "finishSync" /\ Goto("check")
          \/ proc.pc = "prepareSync" /\ Goto("swap")
          \/ proc.pc = "swapSync" /\ Goto("commit")
          \/ proc.pc = "commitSync" /\ Goto("done")
          \/ proc.pc = "recoverSync" /\ Goto("restored")
          \/ proc.pc = "unlinkSync" /\ Goto("pop")
          \/ proc.pc = "popSync" /\ Goto("report")
          \/ proc.pc = "reportSync" /\ Goto("done")
      BY <1>4 DEF Sync, AfterSync
    <2>2. ASSUME NEW label, Goto(label),
                 \/ proc.pc = "finishSync" /\ label = "check"
                 \/ proc.pc = "prepareSync" /\ label = "swap"
                 \/ proc.pc = "swapSync" /\ label = "commit"
                 \/ proc.pc = "recoverSync" /\ label = "restored"
                 \/ proc.pc = "unlinkSync" /\ label = "pop"
                 \/ proc.pc = "popSync" /\ label = "report"
          PROVE  IInv'
      <3>1. /\ proc' \in Process /\ proc'.pc = label /\ proc'.op = proc.op
            /\ proc'.release = proc.release /\ proc'.saved = proc.saved
        BY <1>3, <2>2 DEF Ended, Trying, Other
      <3>2. Pushed("prepared")' = Pushed("prepared") /\ Pushed("active")' = Pushed("active")
        BY <3>1 DEF Pushed, Level
      <3>3. Activating' /\ Running' /\ AcknowledgedIsDurable'
        BY <1>1, <2>2, <3>1 DEF Locals, Activating, Running, Trying, AcknowledgedIsDurable
      <3>4. ActivationDisk' /\ RecoveryDisk' /\ FailedActivationRestores'
        BY <1>1, <2>2, <3>1, <3>2 DEF Locals, ActivationDisk, RecoveryDisk,
           FailedActivationRestores, Trying
      <3>5. RollingBack' /\ RolledBack'
        BY <1>1, <2>2, <3>1 DEF Locals, RollingBack, RolledBack
      <3>6. QED
        BY <1>1, <3>1, <3>3, <3>4, <3>5 DEF TypeOK, Locals
    <2>3. ASSUME Goto("done"), proc.pc = "commitSync" \/ proc.pc = "reportSync"
          PROVE  IInv'
      <3>1. /\ proc' \in Process /\ proc'.pc = "done" /\ proc'.op = proc.op
            /\ proc'.release = proc.release
        BY <1>3, <2>3 DEF Ended
      <3>2. CASE proc.pc = "commitSync"
        <4>1. /\ Activating /\ ActivationDisk /\ proc.pc \in Trying /\ proc.op = "activate"
          BY <3>2 DEF Locals, Activating, Trying
        <4>2. disk.current = proc.release /\ disk.journal = Pushed("active")
          BY <3>2, <4>1 DEF ActivationDisk
        <4>3. Agrees(disk)
          BY <1>1, <4>1, <4>2, PushedLevel, ConstantsOK DEF Agrees, Level
        <4>4. AcknowledgedIsDurable'
          BY <1>1, <3>1, <4>1, <4>2, <4>3 DEF AcknowledgedIsDurable, Agrees
        <4>5. QED
          BY <1>1, <3>1, <4>4 DEF TypeOK, Locals, Running, Ended, Activating, ActivationDisk,
             RecoveryDisk, RollingBack, RolledBack, Trying, FailedActivationRestores
      <3>3. CASE proc.pc = "reportSync"
        <4>1. /\ proc.op = "rollback" /\ Agrees(disk) /\ disk.current # proc.release
              /\ disk.lastRollback = proc.release
          BY <3>3 DEF Locals, RolledBack
        <4>2. AcknowledgedIsDurable'
          BY <1>1, <3>1, <4>1 DEF AcknowledgedIsDurable, Agrees
        <4>3. QED
          BY <1>1, <3>1, <4>2 DEF TypeOK, Locals, Running, Ended, Activating, ActivationDisk,
             RecoveryDisk, RollingBack, RolledBack, Trying, FailedActivationRestores
      <3>4. QED
        BY <2>3, <3>2, <3>3
    <2>4. QED
      BY <2>1, <2>2, <2>3
  <1>5. CASE SyncReverted
    <2>1. CASE Goto("check")
      <3>1. /\ proc' \in Process /\ proc'.pc = "check" /\ proc'.release = proc.release
        BY <1>3, <2>1 DEF Other
      <3>2. QED
        BY <1>1, <3>1 DEF TypeOK, Locals, Running, Activating, ActivationDisk, RecoveryDisk,
           RollingBack, RolledBack, Trying, AcknowledgedIsDurable, FailedActivationRestores
    <2>2. CASE Goto("report") /\ proc.op # "activate"
               /\ Head(proc.saved.journal).release = proc.release
      <3>1. /\ proc' \in Process /\ proc'.pc = "report" /\ proc'.release = proc.release
            /\ proc'.op = proc.op /\ proc.op = "rollback"
        BY <1>3, <2>2 DEF Other, TypeOK, Process
      <3>2. Agrees(disk) /\ disk.current # proc.release
        BY <1>5, <2>2 DEF SyncReverted, Locals, RolledBack
      <3>3. QED
        BY <1>1, <3>1, <3>2 DEF TypeOK, Locals, Running, Activating, ActivationDisk,
           RecoveryDisk, RollingBack, RolledBack, Trying, AcknowledgedIsDurable,
           FailedActivationRestores, Agrees
    <2>3. QED
      BY <1>2, <1>5, <2>1, <2>2 DEF SyncReverted
  <1>6. QED
    BY <1>4, <1>5

\* Errors, kills and power losses.
LEMMA FailureInv ==
    ASSUME IInv, Raise \/ Kill \/ PowerLoss
    PROVE  IInv'
  <1> USE DEF IInv, At
  <1>1. CASE Quit /\ Reading
    BY <1>1, QuitKeeps DEF Reading, TypeOK, Resolvable
  <1>2. CASE PowerLoss
    <2>1. PICK d \in survivors : Quit /\ disk' = d /\ survivors' = {d}
      BY <1>2 DEF PowerLoss
    <2>2. d \in Directory /\ Coherent(d)
      BY DEF TypeOK, Resolvable
    <2>3. QED
      BY <2>1, <2>2, QuitKeeps DEF TypeOK, Resolvable
  <1>3. CASE Goto("recoverLink") /\ proc.pc \in Trying /\ Reading
    <2>1. /\ proc' \in Process /\ proc'.pc = "recoverLink" /\ proc'.op = proc.op
          /\ proc'.release = proc.release /\ proc'.saved = proc.saved
          /\ disk' = disk /\ survivors' = survivors
      BY <1>3 DEF Goto, TypeOK, Process, Other, Reading
    <2>2. Pushed("prepared")' = Pushed("prepared") /\ Pushed("active")' = Pushed("active")
      BY <2>1 DEF Pushed, Level
    <2>3. \/ disk.current = proc.saved.current /\ disk.journal = proc.saved.journal
          \/ /\ disk.current \in {proc.saved.current, proc.release}
             /\ disk.journal \in {Pushed("prepared"), Pushed("active")}
      BY <1>3 DEF Locals, ActivationDisk, Trying
    <2>4. Activating' /\ Running' /\ RecoveryDisk'
      BY <1>3, <2>1, <2>2, <2>3 DEF Locals, Activating, Running, RecoveryDisk, Trying, Ended
    <2>5. QED
      BY <2>1, <2>4 DEF TypeOK, Resolvable, Locals, ActivationDisk, RollingBack, RolledBack,
         Trying, AcknowledgedIsDurable, FailedActivationRestores
  <1>4. QED
    BY <1>1, <1>2, <1>3 DEF Raise, Kill

LEMMA NextInv == IInv /\ [Next]_vars => IInv'
  <1> SUFFICES ASSUME IInv, [Next]_vars PROVE IInv'
    OBVIOUS
  <1>1. CASE UNCHANGED vars
    BY <1>1 DEF vars, IInv, TypeOK, Resolvable, Locals, Running, Activating, ActivationDisk,
       RecoveryDisk, RollingBack, RolledBack, AcknowledgedIsDurable,
       FailedActivationRestores, At, Pushed, Level
  <1>2. CASE Command
    BY <1>2, ReconcileInv, CheckActivateInv, ActivateInv, RecoverInv, CheckRollbackInv,
       RollbackInv, SyncInv DEF Command
  <1>3. QED
    BY <1>1, <1>2, BeginInv, FailureInv DEF Next

-----------------------------------------------------------------------------
(* Results.                                                                *)

(* The invariant of the journal protocol: every directory a kill, an error
   or a power loss can leave of activate_release and rollback_release is
   typed and coherent, and every acknowledged or recovered command durable. *)
THEOREM JournalInvariant == Spec => []IInv
  BY InitInv, NextInv, PTL DEF Spec

(* Type correctness of the lock holder and of every surviving directory of
   deployment_transaction.py. *)
THEOREM TypeCorrect == Spec => []TypeOK
  <1>1. IInv => TypeOK
    BY DEF IInv
  <1>2. QED
    BY <1>1, JournalInvariant, PTL

(* Each surviving directory pairs the active link with a journal that the
   next activate or rollback of deployment_transaction.py can resolve. *)
THEOREM AlwaysResolvable == Spec => []Resolvable
  <1>1. IInv => Resolvable
    BY DEF IInv
  <1>2. QED
    BY <1>1, JournalInvariant, PTL

(* A success reported by activate_release or rollback_release is on disk. *)
THEOREM SuccessIsDurable == Spec => []AcknowledgedIsDurable
  <1>1. IInv => AcknowledgedIsDurable
    BY DEF IInv
  <1>2. QED
    BY <1>1, JournalInvariant, PTL

(* The exception handler of activate_release restores what it found. *)
THEOREM FailureRestores == Spec => []FailedActivationRestores
  <1>1. IInv => FailedActivationRestores
    BY DEF IInv
  <1>2. QED
    BY <1>1, JournalInvariant, PTL

-----------------------------------------------------------------------------
(* A settled release leaves service only by a command.  The one write that *)
(* takes a link back, RecoverLink, runs only while the activation's own    *)
(* commit has not reached the disk.                                        *)

Uncommitted ==
    proc.pc \in {"commitSync", "recoverLink"} /\ disk.journal = Pushed("active")
        => survivors # {disk}

LEMMA UncommittedStep == IInv /\ IInv' /\ Uncommitted /\ [Next]_vars => Uncommitted'
  <1> SUFFICES ASSUME IInv, IInv', Uncommitted, [Next]_vars,
                      proc'.pc \in {"commitSync", "recoverLink"},
                      disk'.journal = Pushed("active")'
               PROVE  survivors' # {disk'}
    BY DEF Uncommitted
  <1> USE DEF At
  <1>1. CASE CommitJournal
    <2>1. /\ TypeOK /\ Activating /\ ActivationDisk /\ proc.pc = "commit"
          /\ proc.pc \in Trying /\ disk \in survivors
      BY <1>1 DEF CommitJournal, IInv, Locals, Trying, TypeOK
    <2>2. Head(disk.journal).phase = "prepared"
      BY <2>1, PushedLevel DEF ActivationDisk, Level
    <2>3. proc' = [proc EXCEPT !.pc = "commitSync"] /\ proc \in Process
      BY <1>1 DEF CommitJournal, Goto, TypeOK, IInv
    <2>4. Pushed("active")' = Pushed("active")
      BY <2>3 DEF Pushed, Level, Process
    <2>5. disk'.journal # disk.journal
      BY <2>1, <2>2, <2>4, PushedLevel DEF Level
    <2>6. disk \in survivors'
      BY <1>1, <2>1 DEF CommitJournal, Put
    <2>7. QED
      BY <2>5, <2>6
  <1>2. CASE Raise
    <2>1. /\ TypeOK /\ Activating /\ ActivationDisk /\ proc.pc \in Trying
          /\ proc' = [proc EXCEPT !.pc = "recoverLink"] /\ proc \in Process
          /\ disk' = disk /\ survivors' = survivors
      BY <1>2 DEF Raise, Goto, Quit, NoProcess, Reading, IInv, Locals, TypeOK
    <2>2. Pushed("active")' = Pushed("active")
      BY <2>1 DEF Pushed, Level, Process
    <2>3. Pushed("active") # proc.saved.journal /\ Pushed("active") # Pushed("prepared")
      <3>1. Head(Pushed("active")) # Head(Pushed("prepared"))
        BY <2>1, PushedLevel DEF Level
      <3>2. Head(Pushed("active")).release = proc.release
        BY <2>1, PushedLevel DEF Level
      <3>3. /\ proc.saved.journal # <<>> =>
                 Head(proc.saved.journal).release = proc.saved.current
            /\ proc.saved.current # proc.release
        BY <2>1 DEF Activating, Agrees
      <3>4. QED
        BY <2>1, <3>1, <3>2, <3>3, PushedLevel
    <2>4. proc.pc = "commitSync"
      BY <2>1, <2>2, <2>3 DEF ActivationDisk, Trying
    <2>5. QED
      BY <2>1, <2>2, <2>4 DEF Uncommitted
  <1>3. CASE UNCHANGED vars
    BY <1>3 DEF vars, Uncommitted, Pushed, Level
  <1>4. CASE \/ \E r \in Release : BeginActivate(r) \/ BeginRollback(r)
             \/ (Command /\ ~CommitJournal) \/ Kill \/ PowerLoss
    <2>1. proc'.pc \notin {"commitSync", "recoverLink"}
      <3>1. proc \in Process
        BY DEF IInv, TypeOK
      <3>2. CASE \E r \in Release : BeginActivate(r) \/ BeginRollback(r)
        BY <3>2 DEF BeginActivate, BeginRollback
      <3>3. CASE Quit
        BY <3>3 DEF Quit, NoProcess
      <3>4. CASE Sync
        BY <3>1, <3>4 DEF Sync, AfterSync, Goto, Process
      <3>5. ASSUME NEW label, Goto(label), label \notin {"commitSync", "recoverLink"}
            PROVE  proc'.pc \notin {"commitSync", "recoverLink"}
        BY <3>1, <3>5 DEF Goto, Process
      <3>6. CASE ReconcileNothing \/ ReconcileFinish \/ ReconcileRevert
                 \/ CheckAlreadyActive \/ PopJournal \/ SyncReverted
        BY <3>3, <3>5, <3>6 DEF ReconcileNothing, ReconcileFinish, ReconcileRevert,
           CheckAlreadyActive, PopJournal, SyncReverted
      <3>7. CASE PrepareJournal \/ SwapLink \/ RecoverLink \/ RecoverJournal
                 \/ RestoreLink \/ WriteReport
        BY <3>5, <3>7 DEF PrepareJournal, SwapLink, RecoverLink, RecoverJournal,
           RestoreLink, WriteReport
      <3>8. CASE CheckActivate \/ CheckRollback
        BY <3>1, <3>3, <3>8 DEF CheckActivate, CheckRollback, Process
      <3>9. QED
        BY <1>4, <3>2, <3>3, <3>4, <3>6, <3>7, <3>8 DEF Command, Kill, PowerLoss
    <2>2. QED
      BY <2>1
  <1>5. QED
    BY <1>1, <1>2, <1>3, <1>4 DEF Next

\* What a step may do to the link of a settled directory.
SettledStep ==
    (survivors = {disk} /\ Agrees(disk) /\ disk'.current # disk.current)
      => \/ proc.op = "rollback" /\ proc.release = disk.current
         \/ proc.op = "activate" /\ proc.release = disk'.current

LEMMA SettledLemma == IInv /\ Uncommitted /\ [Next]_vars => SettledStep
  <1> SUFFICES ASSUME IInv, Uncommitted, [Next]_vars, survivors = {disk}, Agrees(disk),
                      disk'.current # disk.current
               PROVE  \/ proc.op = "rollback" /\ proc.release = disk.current
                      \/ proc.op = "activate" /\ proc.release = disk'.current
    BY DEF SettledStep
  <1> USE DEF At
  <1>1. TypeOK /\ disk \in Directory /\ Locals
    BY DEF IInv, TypeOK
  <1>2. CASE SwapLink
    BY <1>1, <1>2 DEF SwapLink, Put, Locals, Activating, Trying, Directory
  <1>3. CASE RecoverLink
    <2>1. /\ Activating /\ RecoveryDisk /\ proc.pc = "recoverLink"
          /\ disk' = [disk EXCEPT !.current = proc.saved.current]
      BY <1>1, <1>3 DEF RecoverLink, Locals, Put, Reading
    <2>2. disk.current # proc.saved.current
      BY <1>1, <2>1 DEF Directory
    <2>3. disk.journal = Pushed("prepared") /\ disk.current = proc.release
      BY <2>1, <2>2 DEF RecoveryDisk, Uncommitted
    <2>4. Head(disk.journal).phase = "prepared" /\ disk.journal # <<>>
      BY <1>1, <2>1, <2>3, PushedLevel DEF Level
    <2>5. QED
      BY <2>4 DEF Agrees
  <1>4. CASE RestoreLink
    BY <1>1, <1>4, ConstantsOK DEF RestoreLink, Locals, RollingBack, Agrees
  <1>5. CASE PowerLoss
    BY <1>5 DEF PowerLoss
  <1>6. ASSUME NEW d, Put(d), d.current = disk.current
        PROVE  FALSE
    BY <1>6 DEF Put
  <1>7. CASE \/ ReconcileFinish \/ ReconcileRevert \/ PrepareJournal \/ CommitJournal
             \/ RecoverJournal \/ PopJournal \/ WriteReport
    BY <1>1, <1>6, <1>7 DEF ReconcileFinish, ReconcileRevert, PrepareJournal, CommitJournal,
       RecoverJournal, PopJournal, WriteReport, Directory, Reading
  <1>8. CASE disk' = disk
    BY <1>8
  <1>9. QED
    BY <1>2, <1>3, <1>4, <1>5, <1>7, <1>8 DEF Next, Command, vars, BeginActivate,
       BeginRollback, Reading, ReconcileNothing, CheckAlreadyActive, CheckActivate,
       CheckRollback, Sync, SyncReverted, Raise, Kill

(* A release in service and settled on the disk leaves service only by its
   own rollback_release or another release's activate_release. *)
THEOREM SettledStaysInService == Spec => SettledReleaseStays
  <1>1. Init => Uncommitted
    BY DEF Init, NoProcess, Uncommitted
  <1>2. Spec => []Uncommitted
    BY <1>1, UncommittedStep, JournalInvariant, PTL DEF Spec
  <1>3. IInv /\ Uncommitted /\ [Next]_vars => [SettledStep]_vars
    BY SettledLemma
  <1>4. Spec => [][SettledStep]_vars
    BY <1>2, <1>3, JournalInvariant, PTL DEF Spec
  <1>5. QED
    BY <1>4 DEF SettledReleaseStays, SettledStep

-------------------------------------------------------------------------------
(***************************************************************************)
(* ReleaseTransaction implements ReleaseHistory, for every set of releases *)
(* and every depth: each directory operation adds at most one outcome, a   *)
(* push or a pop of one that was possible, and each fsync, reconciliation  *)
(* or power loss only rules outcomes out.                                  *)
(***************************************************************************)

Newest(h) == IF h = <<>> THEN None ELSE Head(h)

\* The history of a journal has its length and its releases.
LEMMA HistoryType ==
    ASSUME NEW j \in Seq(Entry)
    PROVE  /\ History(j) \in Seq(Release) /\ Len(History(j)) = Len(j)
           /\ \A i \in 1 .. Len(j) : History(j)[i] = j[i].release
  <1>1. \A i \in 1 .. Len(j) : j[i].release \in Release
    <2>1. \A i \in 1 .. Len(j) : j[i] \in Entry
      BY ElementOfSeq
    <2>2. QED
      BY <2>1 DEF Entry
  <1>2. History(j) \in [1 .. Len(j) -> Release] /\ Len(j) \in Nat
    BY <1>1 DEF History
  <1>3. History(j) \in Seq(Release)
    BY <1>2, SeqDef
  <1>4. 1 .. Len(History(j)) = 1 .. Len(j) /\ Len(History(j)) \in Nat
    BY <1>2, <1>3, LenProperties
  <1>5. Len(History(j)) = Len(j)
    BY <1>2, <1>4
  <1>6. QED
    BY <1>3, <1>5 DEF History

\* It follows the journal's push and pop.
LEMMA HistoryShape ==
    ASSUME NEW j \in Seq(Entry)
    PROVE  /\ History(j) \in Seq(Release)
           /\ History(j) = <<>> <=> j = <<>>
           /\ j # <<>> => /\ Head(History(j)) = Head(j).release
                          /\ Tail(History(j)) = History(Tail(j))
  <1>1. ASSUME j # <<>>
        PROVE  Tail(History(j)) = History(Tail(j))
    <2>1. /\ Tail(j) \in Seq(Entry) /\ Len(Tail(j)) = Len(j) - 1 /\ Len(j) > 0
          /\ \A i \in 1 .. Len(j) - 1 : Tail(j)[i] = j[i+1]
      BY <1>1
    <2>2. /\ Tail(History(j)) \in Seq(Release) /\ Len(Tail(History(j))) = Len(j) - 1
          /\ \A i \in 1 .. Len(j) - 1 : Tail(History(j))[i] = j[i+1].release
      BY <1>1, HistoryType
    <2>3. /\ History(Tail(j)) \in Seq(Release) /\ Len(History(Tail(j))) = Len(j) - 1
          /\ \A i \in 1 .. Len(j) - 1 : History(Tail(j))[i] = j[i+1].release
      BY <2>1, HistoryType
    <2>4. QED
      BY <2>2, <2>3, SeqEqual
  <1>2. QED
    BY <1>1, HistoryType

\* A pushed journal's history is the pushed release over the old history.
LEMMA HistoryPush ==
    ASSUME NEW j \in Seq(Entry), NEW e \in Entry
    PROVE  History(<<e>> \o j) = <<e.release>> \o History(j)
  <1> DEFINE k == <<e>> \o j
  <1>1. /\ k \in Seq(Entry) /\ k # <<>> /\ Head(k) = e /\ Tail(k) = j
    BY PushShape
  <1>2. /\ History(k) \in Seq(Release) /\ History(k) # <<>>
        /\ Head(History(k)) = e.release /\ Tail(History(k)) = History(j)
    BY <1>1, HistoryShape
  <1>3. History(k) = <<Head(History(k))>> \o Tail(History(k))
    BY <1>2
  <1>4. QED
    BY <1>2, <1>3

\* The link of a coherent directory serves one of its outcomes.
LEMMA OutcomeServed ==
    ASSUME NEW d \in Directory, Coherent(d)
    PROVE  \E h \in OutcomesOf(d) : d.current = Newest(h)
  <1> DEFINE j == d.journal
             h == History(j)
  <1>1. j \in Seq(Entry) /\ Linked(j)
    BY DEF Directory, Coherent
  <1>2. CASE Agrees(d)
    <2>1. d.current = Newest(h)
      BY <1>1, <1>2, HistoryShape DEF Agrees, Newest, Coherent
    <2>2. QED
      BY <1>2, <2>1 DEF OutcomesOf
  <1>3. CASE ~Agrees(d)
    <2>1. j # <<>>
      BY <1>3 DEF Agrees, Coherent
    <2>2. CASE d.current = Head(j).release
      BY <1>1, <1>3, <2>1, <2>2, HistoryShape DEF OutcomesOf, Newest
    <2>3. CASE d.current = Head(j).previous
      <3>1. Newest(Tail(h)) = d.current
        <4>1. Tail(h) = History(Tail(j)) /\ Tail(j) \in Seq(Entry)
          BY <1>1, <2>1, HistoryShape, PopLinked
        <4>2. QED
          BY <1>1, <2>1, <2>3, <4>1, HistoryShape, PopLinked DEF Newest
      <3>2. QED
        BY <1>3, <3>1 DEF OutcomesOf
    <2>4. QED
      BY <2>1, <2>2, <2>3 DEF Coherent
  <1>4. QED
    BY <1>2, <1>3

\* So the abstract link serves an abstract outcome, before and after a step.
LEMMA ServeHolds ==
    ASSUME IInv
    PROVE  disk.current \in {Newest(h) : h \in Outcomes}
  BY OutcomeServed DEF IInv, TypeOK, Resolvable, Outcomes

\* The same of the next state.
LEMMA ServeHoldsNext ==
    ASSUME IInv'
    PROVE  disk'.current \in {Newest(h) : h \in Outcomes'}
  <1>1. \A d \in survivors' : \E h \in OutcomesOf(d) : d.current = Newest(h)
    BY OutcomeServed DEF IInv, TypeOK, Resolvable
  <1>2. disk' \in survivors'
    BY DEF IInv, TypeOK
  <1>3. QED
    BY <1>1, <1>2 DEF Outcomes

LEMMA NewestSame == \A h : Abstract!Newest(h) = Newest(h)
  BY DEF Abstract!Newest, Newest

\* A directory operation that adds no outcome, or that rules some out, settles.
LEMMA SettleStep ==
    ASSUME IInv', Outcomes' \subseteq Outcomes
    PROVE  Abstract!Next
  <1>1. disk'.current \in {Newest(h) : h \in Outcomes'}
    BY ServeHoldsNext
  <1>2. Outcomes' # {}
    BY <1>1
  <1>3. QED
    BY <1>1, <1>2, NewestSame DEF Abstract!Next, Abstract!Settle, Abstract!Serve

\* The outcomes after a directory operation.
LEMMA PutOutcomes ==
    ASSUME NEW d, Put(d)
    PROVE  Outcomes' = Outcomes \cup OutcomesOf(d)
  BY DEF Put, Outcomes

\* One that adds the pop of a possible history attempts it.
LEMMA PopStep ==
    ASSUME IInv', NEW h \in Outcomes, h # <<>>, Outcomes' = Outcomes \cup {Tail(h)}
    PROVE  Abstract!Next
  BY ServeHoldsNext, NewestSame DEF Abstract!Next, Abstract!Attempt, Abstract!Serve

LEMMA PushStep ==
    ASSUME IInv', NEW h \in Outcomes, NEW r \in Release, Newest(h) # r,
           Outcomes' = Outcomes \cup {<<r>> \o h}
    PROVE  Abstract!Next
  BY ServeHoldsNext, NewestSame DEF Abstract!Next, Abstract!Attempt, Abstract!Serve

\* The outcomes of the directories an activation and a rollback write.
LEMMA PushedOutcomes ==
    ASSUME TypeOK, Activating,
           proc.pc \in Trying \cup {"recoverLink", "recoverJournal", "recoverSync"},
           NEW phase \in {"prepared", "active"}
    PROVE  LET h == History(proc.saved.journal)
               k == History(Pushed(phase))
           IN /\ h \in Seq(Release) /\ k # <<>> /\ Tail(k) = h
              /\ k = <<proc.release>> \o h
              /\ OutcomesOf(proc.saved) = {h}
              /\ Newest(h) = proc.saved.current
  <1>1. /\ proc.saved.journal \in Seq(Entry) /\ Level(phase) \in Entry
        /\ Pushed(phase) \in Seq(Entry) /\ Pushed(phase) # <<>>
        /\ Tail(Pushed(phase)) = proc.saved.journal
        /\ Level(phase).release = proc.release
    BY PushedLevel DEF Directory, Level
  <1>2. OutcomesOf(proc.saved) = {History(proc.saved.journal)}
    BY DEF Activating, OutcomesOf
  <1>3. Newest(History(proc.saved.journal)) = proc.saved.current
    BY <1>1, HistoryShape DEF Newest, Activating, Agrees
  <1>4. QED
    BY <1>1, <1>2, <1>3, HistoryShape, HistoryPush DEF Pushed

\* The writes of activate_release, its handler included.
LEMMA ActivateSimulates ==
    ASSUME IInv, IInv', PrepareJournal \/ SwapLink \/ CommitJournal \/ RecoverLink
                        \/ RecoverJournal
    PROVE  Abstract!Next
  <1> USE DEF At
  <1> DEFINE S == proc.saved
             h == History(S.journal)
             k == <<proc.release>> \o h
  <1>1. /\ TypeOK /\ Activating /\ ActivationDisk /\ RecoveryDisk
        /\ disk \in Directory /\ disk \in survivors /\ S \in Directory
        /\ proc.pc \in Trying \cup {"recoverLink", "recoverJournal", "recoverSync"}
        /\ proc.release \in Release /\ S.current # proc.release
    BY DEF PrepareJournal, SwapLink, CommitJournal, RecoverLink, RecoverJournal, IInv,
       Locals, Activating, Trying, TypeOK, Process
  <1>2. /\ History(Pushed("prepared")) = k /\ History(Pushed("active")) = k
        /\ k # <<>> /\ Tail(k) = h /\ Newest(h) = S.current /\ OutcomesOf(S) = {h}
    BY <1>1, PushedOutcomes
  <1>3. OutcomesOf(disk) \subseteq Outcomes
    BY <1>1 DEF Outcomes
  <1>4. \A d \in Directory : d.journal = Pushed("prepared") => OutcomesOf(d) = {k, h}
    <2>1. /\ Head(Pushed("prepared")).phase = "prepared" /\ Pushed("prepared") # <<>>
      BY <1>1, PushedLevel DEF Level
    <2>2. QED
      BY <1>2, <2>1 DEF OutcomesOf, Agrees
  <1>5. \A d \in Directory : d.journal = Pushed("active") =>
            OutcomesOf(d) = IF d.current = proc.release THEN {k} ELSE {k, h}
    <2>1. /\ Head(Pushed("active")).phase = "active" /\ Pushed("active") # <<>>
          /\ Head(Pushed("active")).release = proc.release
      BY <1>1, PushedLevel DEF Level
    <2>2. QED
      BY <1>1, <1>2, <2>1, ConstantsOK DEF OutcomesOf, Agrees
  <1>6. CASE PrepareJournal
    <2> DEFINE d == [disk EXCEPT !.journal = Pushed("prepared")]
    <2>1. Put(d) /\ disk = S
      BY <1>1, <1>6 DEF PrepareJournal, ActivationDisk, Pushed, Level
    <2>2. d \in Directory /\ d.journal = Pushed("prepared")
      BY <1>1, PushedLevel DEF Directory
    <2>3. Outcomes' = Outcomes \cup {k} /\ h \in Outcomes
      BY <1>2, <1>3, <1>4, <2>1, <2>2, PutOutcomes
    <2>4. QED
      BY <1>1, <1>2, <2>3, PushStep
  <1>7. CASE SwapLink
    <2> DEFINE d == [disk EXCEPT !.current = proc.release]
    <2>1. Put(d) /\ disk.journal = Pushed("prepared")
      BY <1>1, <1>7 DEF SwapLink, ActivationDisk
    <2>2. d \in Directory /\ d.journal = disk.journal
      BY <1>1 DEF Directory, Target
    <2>3. Outcomes' \subseteq Outcomes
      BY <1>1, <1>3, <1>4, <2>1, <2>2, PutOutcomes
    <2>4. QED
      BY <2>3, SettleStep
  <1>8. CASE CommitJournal
    <2> DEFINE d == [disk EXCEPT !.journal = Pushed("active")]
    <2>1. /\ Put(d) /\ disk.journal = Pushed("prepared") /\ disk.current = proc.release
      BY <1>1, <1>8 DEF CommitJournal, ActivationDisk, Pushed, Level
    <2>2. d \in Directory /\ d.journal = Pushed("active") /\ d.current = proc.release
      BY <1>1, <2>1, PushedLevel DEF Directory
    <2>3. Outcomes' \subseteq Outcomes
      BY <1>1, <1>3, <1>4, <1>5, <2>1, <2>2, PutOutcomes
    <2>4. QED
      BY <2>3, SettleStep
  <1>9. CASE RecoverLink
    <2> DEFINE d == [disk EXCEPT !.current = S.current]
    <2>1. CASE Reading
      BY <2>1, SettleStep DEF Reading, Outcomes
    <2>2. CASE Put(d)
      <3>1. d \in Directory /\ d.journal = disk.journal /\ d.current = S.current
        BY <1>1 DEF Directory
      <3>2. Outcomes' = Outcomes \cup OutcomesOf(d)
        BY <2>2, PutOutcomes
      <3>3. CASE disk.current = S.current
        <4>1. d = disk
          BY <1>1, <3>1, <3>3 DEF Directory
        <4>2. QED
          BY <1>3, <3>2, <4>1, SettleStep
      <3>4. CASE disk.journal = Pushed("prepared")
        BY <1>1, <1>3, <1>4, <3>1, <3>2, <3>4, SettleStep
      <3>5. CASE disk.journal = Pushed("active") /\ disk.current = proc.release
        <4>1. OutcomesOf(disk) = {k} /\ OutcomesOf(d) = {k, h}
          BY <1>1, <1>5, <3>1, <3>5
        <4>2. k \in Outcomes /\ Outcomes' = Outcomes \cup {Tail(k)}
          BY <1>2, <1>3, <3>2, <4>1
        <4>3. QED
          BY <1>2, <4>2, PopStep
      <3>6. QED
        BY <1>1, <1>9, <3>3, <3>4, <3>5 DEF RecoverLink, RecoveryDisk
    <2>3. QED
      BY <1>9, <2>1, <2>2 DEF RecoverLink
  <1>10. CASE RecoverJournal
    <2> DEFINE d == [disk EXCEPT !.journal = S.journal]
    <2>1. /\ Put(d) /\ disk.current = S.current /\ disk.lastRollback = S.lastRollback
          /\ disk.journal \in {S.journal, Pushed("prepared"), Pushed("active")}
      BY <1>1, <1>10 DEF RecoverJournal, RecoveryDisk, Activating
    <2>2. d = S
      BY <1>1, <2>1 DEF Directory
    <2>3. h \in OutcomesOf(disk)
      <3>1. CASE disk.journal = S.journal
        <4>1. disk = S
          BY <1>1, <2>1, <3>1 DEF Directory
        <4>2. QED
          BY <1>2, <4>1
      <3>2. CASE disk.journal = Pushed("prepared")
        BY <1>1, <1>4, <3>2
      <3>3. CASE disk.journal = Pushed("active")
        BY <1>1, <1>5, <2>1, <3>3
      <3>4. QED
        BY <2>1, <3>1, <3>2, <3>3
    <2>4. Outcomes' = Outcomes \cup {h}
      BY <1>2, <2>1, <2>2, PutOutcomes
    <2>5. QED
      BY <1>3, <2>3, <2>4, SettleStep
  <1>11. QED
    BY <1>6, <1>7, <1>8, <1>9, <1>10

\* Finishing or reverting an unfinished activation settles it.
LEMMA ReconcileSimulates ==
    ASSUME IInv, IInv', ReconcileFinish \/ ReconcileRevert
    PROVE  Abstract!Next
  <1> DEFINE j == disk.journal
             h == History(j)
  <1>1. /\ disk \in Directory /\ j \in Seq(Entry) /\ j # <<>> /\ Linked(j)
        /\ Head(j).phase = "prepared" /\ disk \in survivors
    BY DEF ReconcileFinish, ReconcileRevert, Prepared, IInv, TypeOK, Resolvable, Coherent,
       Directory
  <1>2. OutcomesOf(disk) = {h, Tail(h)} /\ {h, Tail(h)} \subseteq Outcomes
    BY <1>1 DEF OutcomesOf, Agrees, Outcomes
  <1>3. /\ h # <<>> /\ Tail(h) = History(Tail(j)) /\ Tail(j) \in Seq(Entry)
        /\ Head(j) \in Entry
    BY <1>1, HistoryShape, PopLinked
  <1>4. CASE ReconcileFinish
    <2> DEFINE d == [disk EXCEPT !.journal = <<Activated(Top)>> \o Tail(j)]
    <2>1. /\ Put(d) /\ disk.current = Head(j).release
      BY <1>4 DEF ReconcileFinish, Top
    <2>2. /\ Activated(Top) \in Entry /\ Activated(Top).release = Head(j).release
          /\ Activated(Top).phase = "active"
      BY <1>1, FinishLinked DEF Top
    <2>3. /\ d.current = disk.current /\ d.journal = <<Activated(Top)>> \o Tail(j)
      BY <1>1 DEF Directory
    <2> HIDE DEF d
    <2>4. Head(d.journal) = Activated(Top) /\ d.journal # <<>>
      BY <1>3, <2>2, <2>3, PushShape
    <2>5. Agrees(d)
      BY <1>3, <2>1, <2>2, <2>3, <2>4, ConstantsOK DEF Agrees, Entry
    <2>6. History(d.journal) = <<Head(j).release>> \o History(Tail(j))
      BY <1>3, <2>2, <2>3, HistoryPush
    <2>7. History(d.journal) = h
      <3>1. /\ h \in Seq(Release) /\ Head(h) = Head(j).release
        BY <1>1, HistoryShape
      <3>2. h = <<Head(h)>> \o Tail(h)
        BY <1>3, <3>1
      <3>3. QED
        BY <1>3, <2>6, <3>1, <3>2
    <2>8. Outcomes' \subseteq Outcomes
      BY <1>2, <2>1, <2>5, <2>7, PutOutcomes DEF OutcomesOf
    <2>9. QED
      BY <2>8, SettleStep
  <1>5. CASE ReconcileRevert
    <2> DEFINE d == [disk EXCEPT !.journal = Tail(j)]
    <2>1. CASE Reading
      BY <2>1, SettleStep DEF Reading, Outcomes
    <2>2. CASE Put(d) /\ disk.current = Top.previous
      <3>1. d.journal = Tail(j) /\ d.current = Head(j).previous
        BY <1>1, <2>2 DEF Directory, Top
      <3>2. Put(d)
        BY <2>2
      <3> HIDE DEF d
      <3>3. Agrees(d)
        <4>1. Tail(j) # <<>> => Head(Tail(j)) \in Entry
          BY <1>1, PopLinked
        <4>2. QED
          BY <4>1, <1>1, <3>1, PopLinked, ConstantsOK DEF Agrees, Entry
      <3>4. OutcomesOf(d) = {Tail(h)}
        BY <1>3, <3>1, <3>3 DEF OutcomesOf
      <3>5. QED
        BY <1>2, <3>2, <3>4, PutOutcomes, SettleStep
    <2>3. QED
      BY <1>5, <2>1, <2>2 DEF ReconcileRevert
  <1>6. QED
    BY <1>4, <1>5

\* The writes of rollback_release.
LEMMA RollbackSimulates ==
    ASSUME IInv, IInv', RestoreLink \/ PopJournal \/ WriteReport
    PROVE  Abstract!Next
  <1> USE DEF At
  <1> DEFINE j == disk.journal
             h == History(j)
  <1>1. /\ disk \in Directory /\ disk \in survivors /\ j \in Seq(Entry) /\ Coherent(disk)
        /\ OutcomesOf(disk) \subseteq Outcomes
    BY DEF IInv, TypeOK, Resolvable, Directory, Outcomes
  <1>2. CASE WriteReport
    <2> DEFINE d == [disk EXCEPT !.lastRollback = proc.release]
    <2>1. Put(d) /\ d.journal = disk.journal /\ d.current = disk.current
      BY <1>1, <1>2 DEF WriteReport, Directory
    <2>2. OutcomesOf(d) = OutcomesOf(disk)
      BY <2>1 DEF OutcomesOf, Agrees
    <2>3. QED
      BY <1>1, <2>1, <2>2, PutOutcomes, SettleStep
  <1>3. ASSUME RestoreLink \/ PopJournal
        PROVE  /\ j # <<>> /\ Linked(j) /\ j = proc.saved.journal /\ h # <<>>
               /\ Tail(h) = History(Tail(j)) /\ Tail(j) \in Seq(Entry)
               /\ h \in Outcomes /\ Head(j) \in Entry
               /\ proc.pc # "unlink" => disk.current = Head(j).previous
    <2>1. RollingBack /\ proc.pc \in {"unlink", "unlinkSync", "pop"}
      BY <1>3 DEF RestoreLink, PopJournal, IInv, Locals
    <2>2. /\ j # <<>> /\ Linked(j) /\ j = proc.saved.journal
          /\ proc.pc # "unlink" => disk.current = Head(j).previous
      BY <1>1, <2>1 DEF RollingBack, Coherent
    <2>3. h \in OutcomesOf(disk)
      BY DEF OutcomesOf
    <2>4. QED
      BY <1>1, <2>2, <2>3, HistoryShape, PopLinked
  <1>4. CASE RestoreLink
    <2> DEFINE d == [disk EXCEPT !.current = Head(j).previous]
    <2>1. Put(d) /\ d.journal = j /\ d.current = Head(j).previous
      BY <1>1, <1>3, <1>4 DEF RestoreLink, Directory
    <2> HIDE DEF d
    <2>2. ~Agrees(d)
      BY <1>1, <1>3, <1>4, <2>1, PopLinked DEF Agrees
    <2>3. OutcomesOf(d) = {h, Tail(h)}
      BY <2>1, <2>2 DEF OutcomesOf
    <2>4. Outcomes' = Outcomes \cup {Tail(h)}
      BY <1>3, <1>4, <2>1, <2>3, PutOutcomes
    <2>5. QED
      BY <1>3, <1>4, <2>4, PopStep
  <1>5. CASE PopJournal
    <2> DEFINE d == [disk EXCEPT !.journal = Tail(j)]
    <2>1. CASE Reading
      BY <2>1, SettleStep DEF Reading, Outcomes
    <2>2. CASE Put(d)
      <3>1. d.journal = Tail(j) /\ d.current = Head(j).previous /\ disk.current = Head(j).previous
        BY <1>1, <1>3, <1>5 DEF Directory, PopJournal
      <3>2. Put(d)
        BY <2>2
      <3> HIDE DEF d
      <3>3. Agrees(d)
        BY <1>1, <1>3, <1>5, <3>1, PopLinked, ConstantsOK DEF Agrees, Entry
      <3>4. OutcomesOf(d) = {Tail(h)}
        BY <1>3, <1>5, <3>1, <3>3 DEF OutcomesOf
      <3>5. ~Agrees(disk)
        BY <1>1, <1>3, <1>5, <3>1, PopLinked DEF Agrees
      <3>6. Tail(h) \in Outcomes
        BY <1>1, <3>5 DEF OutcomesOf
      <3>7. QED
        BY <3>2, <3>4, <3>6, PutOutcomes, SettleStep
    <2>3. QED
      BY <1>3, <1>5, <2>1, <2>2 DEF PopJournal
  <1>6. QED
    BY <1>2, <1>4, <1>5

LEMMA StepSimulates == IInv /\ IInv' /\ [Next]_vars => [Abstract!Next]_(Abstract!hvars)
  <1> SUFFICES ASSUME IInv, IInv', [Next]_vars PROVE [Abstract!Next]_(Abstract!hvars)
    OBVIOUS
  <1>1. CASE Reading \/ UNCHANGED vars
    BY <1>1 DEF Reading, vars, Abstract!hvars, Outcomes
  <1>2. CASE Sync \/ SyncReverted \/ PowerLoss
    <2>1. survivors' \subseteq survivors
      BY <1>2 DEF Sync, SyncReverted, PowerLoss, IInv, TypeOK
    <2>2. Outcomes' \subseteq Outcomes
      BY <2>1 DEF Outcomes
    <2>3. QED
      BY <2>2, SettleStep
  <1>3. CASE ReconcileFinish \/ ReconcileRevert
    BY <1>3, ReconcileSimulates
  <1>4. CASE PrepareJournal \/ SwapLink \/ CommitJournal \/ RecoverLink \/ RecoverJournal
    BY <1>4, ActivateSimulates
  <1>5. CASE RestoreLink \/ PopJournal \/ WriteReport
    BY <1>5, RollbackSimulates
  <1>6. QED
    BY <1>1, <1>2, <1>3, <1>4, <1>5 DEF Next, Command, BeginActivate, BeginRollback,
       ReconcileNothing, CheckAlreadyActive, CheckActivate, CheckRollback, Raise, Kill

LEMMA InitSimulates == Init => Abstract!Init
  <1> SUFFICES ASSUME Init PROVE Abstract!Init
    OBVIOUS
  <1>1. OutcomesOf(Empty) = {<<>>}
    <2>1. Empty.journal = <<>> /\ Empty.current = None
      BY DEF Empty
    <2>2. <<>> \in Seq(Entry)
      BY EmptySeq
    <2>3. History(<<>>) = <<>>
      BY <2>2, HistoryShape
    <2>4. QED
      BY <2>1, <2>3 DEF OutcomesOf, Agrees
  <1>2. Outcomes = {<<>>} /\ disk.current = None
    BY <1>1 DEF Init, Outcomes, Empty
  <1>3. QED
    BY <1>2 DEF Abstract!Init

(* The journal and the symlink of deployment_transaction.py, cut anywhere by
   kills, I/O errors and power losses, implement the abstract history of a
   track: histories move by one push or one pop, and the link serves the
   newest release of a history that is still possible. *)
THEOREM TrackRefinesHistory == Spec => RefinesHistory
  <1>1. Spec => [][Abstract!Next]_(Abstract!hvars)
    BY StepSimulates, JournalInvariant, PTL DEF Spec
  <1>2. Spec => Abstract!Init
    BY InitSimulates DEF Spec
  <1>3. QED
    BY <1>1, <1>2, PTL DEF RefinesHistory, Abstract!Spec

-------------------------------------------------------------------------------
(***************************************************************************)
(* What is staged is whole and durable, for every set of ids and contents  *)
(* and any number of replaced uploads.                                     *)
(***************************************************************************)

IsTrack(s) ==
    /\ DOMAIN s = {"preparations", "releases"}
    /\ DOMAIN s.preparations = Id /\ DOMAIN s.releases = Id

RecordFields == {"state", "tree", "files", "candidate"}

\* A preparation is as prepare-code left it, has been written to, or is sealed.
IsPreparation(p) ==
    p # Absent => /\ DOMAIN p = RecordFields /\ p.state \in {"preparing", "sealed"}
                  /\ p.state = "preparing" => p.files = Tree(Code)

TracksOK ==
    /\ staged \in kept
    /\ \A s \in kept : IsTrack(s) /\ \A i \in Id : IsPreparation(s.preparations[i])

PromisedOK ==
    /\ DOMAIN promised = Id
    /\ \A i \in Id : DOMAIN promised[i] = {"stage", "candidate"}

\* A release stays, so that no power loss brings back a directory whose id is free.
ReleasesStay ==
    \A s \in kept : \A i \in Id :
        s.releases[i] # Absent => staged.releases[i] = s.releases[i]

PrepareSteps == {"extract", "prepareSync"}
AttachSteps == {"copy", "attach", "compare", "env"}
SealSteps == {"validate", "manifest", "publish"} \cup AttachSteps

CarriesWanted(tree) ==
    IF command.want = NoCandidate THEN "candidate" \notin DOMAIN tree
    ELSE "candidate" \in DOMAIN tree /\ tree["candidate"] = command.want

\* What a command relies on after each of its steps.
CommandOK ==
    /\ command.pc \in {"idle", "sealSync"} \cup PrepareSteps \cup SealSteps
    /\ command.pc \in PrepareSteps => DOMAIN command = {"pc", "id"} /\ command.id \in Id
    /\ command.pc \in SealSteps \cup {"sealSync"} =>
          DOMAIN command = {"pc", "id", "want", "receipt"} /\ command.id \in Id
    /\ command.pc = "idle" => command = NoCommand
    /\ command.pc = "prepareSync" => Preparation # Absent
    /\ command.pc = "sealSync" => staged.releases[command.id] # Absent
    /\ command.pc \in SealSteps =>
          /\ staged.releases[command.id] = Absent /\ Preparation # Absent
          /\ promised[command.id].candidate = command.want
          /\ Preparation.state = IF command.pc = "publish" THEN "sealed" ELSE "preparing"
    /\ command.pc = "validate" => Preparation.tree = Tree(Code)
    /\ command.pc \in AttachSteps => command.want \in Valid
    /\ command.pc = "compare" => "candidate" \in DOMAIN Preparation.tree
    /\ command.pc \in {"env", "manifest", "publish"} => CarriesWanted(Preparation.tree)
    /\ command.pc \in {"manifest", "publish"} => command.want \in Valid \cup {NoCandidate}
    /\ command.pc = "publish" =>
          Matches(Preparation, "sealed") /\ Preparation.candidate = command.want

SInv ==
    /\ TracksOK /\ PromisedOK /\ ReleasesStay /\ CommandOK
    /\ SealedIsWhole /\ StagedIsDurable

-----------------------------------------------------------------------------
LEMMA StagingInitInv == SInit => SInv
  <1> SUFFICES ASSUME SInit PROVE SInv
    OBVIOUS
  <1>1. TracksOK
    BY DEF SInit, TracksOK, IsTrack, IsPreparation
  <1>2. PromisedOK /\ StagedIsDurable
    BY DEF SInit, PromisedOK, StagedIsDurable
  <1>3. ReleasesStay /\ SealedIsWhole
    BY DEF SInit, ReleasesStay, SealedIsWhole
  <1>4. CommandOK
    BY DEF SInit, CommandOK, NoCommand, PrepareSteps, SealSteps, AttachSteps
  <1>5. QED
    BY <1>1, <1>2, <1>3, <1>4 DEF SInv

\* A change of the preparation of the command disturbs no release.
LEMMA RewriteKeeps ==
    ASSUME SInv, command.id \in Id, NEW r, Rewrite(r), IsPreparation(r), r # Absent,
           promised' = promised
    PROVE  /\ TracksOK' /\ PromisedOK' /\ ReleasesStay'
           /\ SealedIsWhole' /\ StagedIsDurable'
           /\ staged'.releases = staged.releases
           /\ staged'.preparations[command.id] = r
  <1>1. /\ IsTrack(staged) /\ staged \in kept
        /\ \A i \in Id : IsPreparation(staged.preparations[i])
    BY DEF SInv, TracksOK
  <1>2. staged' = [staged EXCEPT !.preparations[command.id] = r]
    BY DEF Rewrite, Write
  <1>8. \A s \in kept' : s \in kept \/ s = staged'
    BY DEF Rewrite, Write
  <1>9. staged' \in kept'
    BY DEF Rewrite, Write
  <1>3. /\ IsTrack(staged') /\ staged'.releases = staged.releases
        /\ staged'.preparations[command.id] = r
        /\ \A i \in Id \ {command.id} : staged'.preparations[i] = staged.preparations[i]
    BY <1>1, <1>2 DEF IsTrack
  <1>4. TracksOK'
    BY <1>1, <1>3, <1>8, <1>9 DEF SInv, TracksOK
  <1>5. ReleasesStay' /\ SealedIsWhole'
    BY <1>1, <1>3, <1>8 DEF SInv, ReleasesStay, SealedIsWhole
  <1>6. StagedIsDurable'
    BY <1>1, <1>3, <1>8 DEF SInv, StagedIsDurable
  <1>7. QED
    BY <1>3, <1>4, <1>5, <1>6 DEF SInv, PromisedOK

\* Fewer survivors leave less to be true of.
LEMMA FsyncKeeps ==
    ASSUME SInv, Fsync, promised' = promised
    PROVE  TracksOK' /\ PromisedOK' /\ ReleasesStay' /\ SealedIsWhole' /\ StagedIsDurable'
  BY DEF SInv, Fsync, TracksOK, PromisedOK, ReleasesStay, SealedIsWhole, StagedIsDurable

LEMMA LooksKeeps ==
    ASSUME SInv, UNCHANGED <<staged, kept, promised>>
    PROVE  TracksOK' /\ PromisedOK' /\ ReleasesStay' /\ SealedIsWhole' /\ StagedIsDurable'
  BY DEF SInv, TracksOK, PromisedOK, ReleasesStay, SealedIsWhole, StagedIsDurable

LEMMA ExitInv ==
    ASSUME Exit PROVE CommandOK'
  BY DEF Exit, CommandOK, NoCommand, PrepareSteps, SealSteps, AttachSteps

-----------------------------------------------------------------------------
LEMMA PrepareInv ==
    ASSUME SInv,
           (\E i \in Id : BeginPrepare(i)) \/ PublishPreparation \/ SyncPreparation
    PROVE  SInv'
  <1>1. CASE \E i \in Id : BeginPrepare(i)
    <2>1. CommandOK'
      BY <1>1 DEF BeginPrepare, Looks, CommandOK, PrepareSteps, SealSteps, AttachSteps
    <2>2. QED
      BY <1>1, <2>1, LooksKeeps DEF BeginPrepare, Looks, SInv
  <1>2. CASE PublishPreparation
    <2> DEFINE r == Preparing(Tree(Code))
    <2>1. IsPreparation(r) /\ r # Absent
      BY DEF IsPreparation, RecordFields, Preparing, Absent
    <2>2. /\ command.id \in Id /\ DOMAIN command = {"pc", "id"} /\ Rewrite(r)
          /\ promised' = promised /\ command' = [command EXCEPT !.pc = "prepareSync"]
      BY <1>2 DEF PublishPreparation, Enter, SInv, CommandOK, PrepareSteps
    <2>3. /\ TracksOK' /\ PromisedOK' /\ ReleasesStay' /\ SealedIsWhole' /\ StagedIsDurable'
          /\ staged'.preparations[command.id] = r
      BY <2>1, <2>2, RewriteKeeps
    <2>4. CommandOK'
      BY <2>1, <2>2, <2>3 DEF CommandOK, Preparation, PrepareSteps, SealSteps, AttachSteps
    <2>5. QED
      BY <2>3, <2>4 DEF SInv
  <1>3. CASE SyncPreparation
    <2>1. /\ kept' = {staged} /\ staged' = staged /\ command.id \in Id
          /\ promised' = [promised EXCEPT ![command.id].stage = "prepared"]
          /\ staged.preparations[command.id] # Absent
      BY <1>3 DEF SyncPreparation, Fsync, SInv, CommandOK, PrepareSteps, Preparation
    <2>2. /\ DOMAIN promised' = Id
          /\ \A i \in Id : /\ DOMAIN promised'[i] = {"stage", "candidate"}
                            /\ promised'[i].candidate = promised[i].candidate
                            /\ promised'[i].stage = IF i = command.id THEN "prepared"
                                                    ELSE promised[i].stage
      BY <2>1 DEF SInv, PromisedOK
    <2>3. TracksOK' /\ PromisedOK' /\ ReleasesStay'
      BY <2>1, <2>2 DEF SInv, TracksOK, PromisedOK, ReleasesStay
    <2>4. SealedIsWhole' /\ StagedIsDurable'
      BY <2>1, <2>2 DEF SInv, TracksOK, SealedIsWhole, StagedIsDurable
    <2>5. QED
      BY <1>3, <2>3, <2>4, ExitInv DEF SyncPreparation, SInv
  <1>4. QED
    BY <1>1, <1>2, <1>3

\* The release of an id is asked for again only while none can come back.
LEMMA BeginSealInv ==
    ASSUME SInv, NEW i \in Id, NEW want \in Content \cup {NoCandidate}, NEW receipt,
           BeginSeal(i, want, receipt)
    PROVE  SInv'
  <1>1. /\ staged.releases[i] = Absent /\ Matches(staged.preparations[i], "preparing")
        /\ command' = [pc |-> "validate", id |-> i, want |-> want, receipt |-> receipt]
        /\ promised' = [promised EXCEPT ![i].candidate = want]
        /\ UNCHANGED <<staged, kept>>
    BY DEF BeginSeal
  <1>2. /\ DOMAIN promised' = Id /\ promised'[i].candidate = want
        /\ \A j \in Id : /\ DOMAIN promised'[j] = {"stage", "candidate"}
                          /\ promised'[j].stage = promised[j].stage
                          /\ j # i => promised'[j].candidate = promised[j].candidate
    BY <1>1 DEF SInv, PromisedOK
  <1>3. \A s \in kept : s.releases[i] = Absent
    BY <1>1 DEF SInv, ReleasesStay
  <1>4. TracksOK' /\ PromisedOK' /\ ReleasesStay' /\ StagedIsDurable'
    BY <1>1, <1>2 DEF SInv, TracksOK, PromisedOK, ReleasesStay, StagedIsDurable
  <1>5. SealedIsWhole'
    BY <1>1, <1>2, <1>3 DEF SInv, SealedIsWhole
  <1>6. CommandOK'
    <2>1. /\ staged.preparations[i].state = "preparing" /\ staged.preparations[i] # Absent
          /\ staged.preparations[i].tree = Tree(Code)
      BY <1>1 DEF Matches, Absent, SInv, TracksOK, IsPreparation
    <2>2. QED
      BY <1>1, <1>2, <2>1 DEF CommandOK, PrepareSteps, SealSteps, AttachSteps, Preparation
  <1>7. QED
    BY <1>4, <1>5, <1>6 DEF SInv

\* The steps of a seal that write to its preparation.
LEMMA SealWritesInv ==
    ASSUME SInv, Copy \/ Attach \/ WriteEnv \/ WriteManifest
    PROVE  SInv'
  <1>1. CASE Copy
    <2> DEFINE r == [Preparation EXCEPT !.tree = With(@, "tmp", upload.content)]
    <2>1. /\ command.pc = "copy" /\ Rewrite(r) /\ promised' = promised
          /\ command' = [command EXCEPT !.pc = "attach"]
      BY <1>1 DEF Copy, Enter
    <2>2. command.id \in Id /\ DOMAIN command = {"pc", "id", "want", "receipt"}
      BY <2>1 DEF SInv, CommandOK, SealSteps, AttachSteps
    <2>3. DOMAIN Preparation = RecordFields /\ IsPreparation(Preparation)
      BY <2>1, <2>2 DEF SInv, CommandOK, TracksOK, IsPreparation, Preparation, SealSteps, AttachSteps
    <2>4. IsPreparation(r) /\ r # Absent /\ r.state = "preparing"
      BY <2>1, <2>3 DEF IsPreparation, RecordFields, Absent, SInv, CommandOK, SealSteps, AttachSteps
    <2>5. /\ TracksOK' /\ PromisedOK' /\ ReleasesStay' /\ SealedIsWhole' /\ StagedIsDurable'
          /\ staged'.releases = staged.releases /\ staged'.preparations[command.id] = r
      BY <2>1, <2>2, <2>4, RewriteKeeps
    <2>6. /\ command'.pc = "attach" /\ command'.id = command.id /\ command'.want = command.want
          /\ DOMAIN command' = DOMAIN command /\ Preparation' = r
      BY <2>1, <2>2, <2>5 DEF Preparation
    <2>7. CommandOK'
      BY <2>1, <2>2, <2>4, <2>5, <2>6 DEF SInv, CommandOK, PrepareSteps, SealSteps, AttachSteps
    <2>8. QED
      BY <2>5, <2>7 DEF SInv
  <1>2. CASE Attach
    <2> DEFINE r == [Preparation EXCEPT !.tree =
                       Without(With(@, "candidate", Preparation.tree["tmp"]), "tmp")]
    <2>1. /\ command.pc = "attach" /\ Rewrite(r) /\ promised' = promised
          /\ command' = [command EXCEPT !.pc = "compare"]
      BY <1>2 DEF Attach, Enter
    <2>2. command.id \in Id /\ DOMAIN command = {"pc", "id", "want", "receipt"}
      BY <2>1 DEF SInv, CommandOK, SealSteps, AttachSteps
    <2>3. DOMAIN Preparation = RecordFields /\ IsPreparation(Preparation)
      BY <2>1, <2>2 DEF SInv, CommandOK, TracksOK, IsPreparation, Preparation, SealSteps, AttachSteps
    <2>4. IsPreparation(r) /\ r # Absent /\ r.state = "preparing"
          /\ "candidate" \in DOMAIN r.tree
      BY <2>1, <2>3 DEF IsPreparation, RecordFields, Absent, SInv, CommandOK, SealSteps, AttachSteps, With, Without
    <2>5. /\ TracksOK' /\ PromisedOK' /\ ReleasesStay' /\ SealedIsWhole' /\ StagedIsDurable'
          /\ staged'.releases = staged.releases /\ staged'.preparations[command.id] = r
      BY <2>1, <2>2, <2>4, RewriteKeeps
    <2>6. /\ command'.pc = "compare" /\ command'.id = command.id /\ command'.want = command.want
          /\ DOMAIN command' = DOMAIN command /\ Preparation' = r
      BY <2>1, <2>2, <2>5 DEF Preparation
    <2>7. CommandOK'
      BY <2>1, <2>2, <2>4, <2>5, <2>6 DEF SInv, CommandOK, PrepareSteps, SealSteps, AttachSteps
    <2>8. QED
      BY <2>5, <2>7 DEF SInv
  <1>3. CASE WriteEnv
    <2> DEFINE r == [Preparation EXCEPT !.tree = With(@, "env", command.want)]
    <2>1. /\ command.pc = "env" /\ Rewrite(r) /\ promised' = promised
          /\ command' = [command EXCEPT !.pc = "manifest"]
      BY <1>3 DEF WriteEnv, Enter
    <2>2. command.id \in Id /\ DOMAIN command = {"pc", "id", "want", "receipt"}
      BY <2>1 DEF SInv, CommandOK, SealSteps, AttachSteps
    <2>3. DOMAIN Preparation = RecordFields /\ IsPreparation(Preparation)
      BY <2>1, <2>2 DEF SInv, CommandOK, TracksOK, IsPreparation, Preparation, SealSteps, AttachSteps
    <2>4. IsPreparation(r) /\ r # Absent /\ r.state = "preparing"
          /\ CarriesWanted(r.tree)
      BY <2>1, <2>3 DEF IsPreparation, RecordFields, Absent, SInv, CommandOK, SealSteps, AttachSteps, CarriesWanted, With
    <2>5. /\ TracksOK' /\ PromisedOK' /\ ReleasesStay' /\ SealedIsWhole' /\ StagedIsDurable'
          /\ staged'.releases = staged.releases /\ staged'.preparations[command.id] = r
      BY <2>1, <2>2, <2>4, RewriteKeeps
    <2>6. /\ command'.pc = "manifest" /\ command'.id = command.id /\ command'.want = command.want
          /\ DOMAIN command' = DOMAIN command /\ Preparation' = r
      BY <2>1, <2>2, <2>5 DEF Preparation
    <2>7. CommandOK'
      BY <2>1, <2>2, <2>4, <2>5, <2>6 DEF SInv, CommandOK, PrepareSteps, SealSteps, AttachSteps, CarriesWanted
    <2>8. QED
      BY <2>5, <2>7 DEF SInv
  <1>4. CASE WriteManifest
    <2> DEFINE r == [Preparation EXCEPT !.state = "sealed", !.candidate = command.want,
                                       !.files = Preparation.tree]
    <2>1. /\ command.pc = "manifest" /\ Rewrite(r) /\ promised' = promised
          /\ command' = [command EXCEPT !.pc = "publish"]
      BY <1>4 DEF WriteManifest, Enter
    <2>2. command.id \in Id /\ DOMAIN command = {"pc", "id", "want", "receipt"}
      BY <2>1 DEF SInv, CommandOK, SealSteps, AttachSteps
    <2>3. DOMAIN Preparation = RecordFields /\ IsPreparation(Preparation)
      BY <2>1, <2>2 DEF SInv, CommandOK, TracksOK, IsPreparation, Preparation, SealSteps, AttachSteps
    <2>4. IsPreparation(r) /\ r # Absent /\ Matches(r, "sealed")
          /\ r.candidate = command.want /\ CarriesWanted(r.tree)
      BY <2>1, <2>3 DEF IsPreparation, RecordFields, Absent, SInv, CommandOK, SealSteps, AttachSteps, Matches
    <2>5. /\ TracksOK' /\ PromisedOK' /\ ReleasesStay' /\ SealedIsWhole' /\ StagedIsDurable'
          /\ staged'.releases = staged.releases /\ staged'.preparations[command.id] = r
      BY <2>1, <2>2, <2>4, RewriteKeeps
    <2>6. /\ command'.pc = "publish" /\ command'.id = command.id /\ command'.want = command.want
          /\ DOMAIN command' = DOMAIN command /\ Preparation' = r
      BY <2>1, <2>2, <2>5 DEF Preparation
    <2>7. CommandOK'
      BY <2>1, <2>2, <2>4, <2>5, <2>6 DEF SInv, CommandOK, PrepareSteps, SealSteps, AttachSteps, CarriesWanted, Matches
    <2>8. QED
      BY <2>5, <2>7 DEF SInv
  <1>5. QED
    BY <1>1, <1>2, <1>3, <1>4

\* What is moved to releases/ is what the manifest says, with what was wanted.
LEMMA PublishInv ==
    ASSUME SInv, PublishRelease
    PROVE  SInv'
  <1> DEFINE i == command.id
             s == [preparations |-> [staged.preparations EXCEPT ![i] = Absent],
                   releases |-> [staged.releases EXCEPT ![i] = Preparation]]
  <1>1. /\ command.pc = "publish" /\ staged' = s /\ kept' = kept \cup {s}
        /\ promised' = promised /\ command' = [command EXCEPT !.pc = "sealSync"]
    BY DEF PublishRelease, Write, Enter
  <1>2. /\ i \in Id /\ DOMAIN command = {"pc", "id", "want", "receipt"}
        /\ staged.releases[i] = Absent /\ Preparation # Absent
        /\ promised[i].candidate = command.want /\ Matches(Preparation, "sealed")
        /\ Preparation.candidate = command.want /\ CarriesWanted(Preparation.tree)
        /\ command.want \in Valid \cup {NoCandidate}
    BY <1>1 DEF SInv, CommandOK, SealSteps
  <1>3. Verifies(Preparation)
    BY <1>2 DEF Verifies, CarriesWanted, Reports
  <1>4. IsTrack(staged)
    BY DEF SInv, TracksOK
  <1>5. /\ IsTrack(s) /\ s.releases[i] = Preparation /\ s.preparations[i] = Absent
        /\ \A j \in Id \ {i} : /\ s.releases[j] = staged.releases[j]
                              /\ s.preparations[j] = staged.preparations[j]
    BY <1>2, <1>4 DEF IsTrack
  <1> HIDE DEF s
  <1>6. \A u \in kept' : u \in kept \/ u = s
    BY <1>1
  <1>7. TracksOK' /\ PromisedOK'
    BY <1>1, <1>2, <1>5, <1>6 DEF SInv, TracksOK, PromisedOK, IsPreparation
  <1>8. \A u \in kept : u.releases[i] = Absent
    BY <1>2 DEF SInv, ReleasesStay
  <1>9. ReleasesStay' /\ SealedIsWhole'
    <2>1. staged' = s /\ promised' = promised
      BY <1>1
    <2>2. \A u \in kept' : \A j \in Id :
             u.releases[j] # Absent => IF j = i THEN u = s ELSE u \in kept \/ u = s
      BY <1>6, <1>8
    <2>3. ReleasesStay'
      BY <1>4, <1>5, <2>1, <2>2 DEF SInv, TracksOK, ReleasesStay
    <2>4. \A u \in kept' : \A j \in Id :
             u.releases[j] # Absent =>
                Verifies(u.releases[j]) /\ u.releases[j].candidate = promised[j].candidate
      BY <1>2, <1>3, <1>5, <2>2 DEF SInv, TracksOK, SealedIsWhole
    <2>5. QED
      BY <2>1, <2>3, <2>4 DEF SealedIsWhole
  <1>10. StagedIsDurable'
    BY <1>1, <1>2, <1>5, <1>6, <1>8, staged \in kept DEF SInv, TracksOK, StagedIsDurable
  <1>11. CommandOK'
    BY <1>1, <1>2, <1>5 DEF CommandOK, PrepareSteps, SealSteps, AttachSteps
  <1>12. QED
    BY <1>7, <1>9, <1>10, <1>11 DEF SInv

LEMMA OtherSealStepsInv ==
    ASSUME SInv, Validate \/ Compare \/ SyncRelease
    PROVE  SInv'
  <1>1. CASE Validate
    <2>1. /\ UNCHANGED <<staged, kept, promised>>
          /\ \/ Exit
             \/ command.want = NoCandidate /\ Enter("manifest")
             \/ command.want \in Valid /\ command.want # NoCandidate /\ Enter("copy")
      BY <1>1 DEF Validate, Looks, Reports
    <2>2. CommandOK'
      <3>1. /\ command.pc = "validate" /\ DOMAIN command = {"pc", "id", "want", "receipt"}
            /\ Preparation' = Preparation \/ Exit
        BY <1>1, <2>1 DEF Validate, SInv, CommandOK, SealSteps, Enter, Preparation
      <3>2. "candidate" \notin DOMAIN Tree(Code)
        BY DEF Tree
      <3>3. QED
        BY <2>1, <3>1, <3>2, ExitInv
           DEF Enter, SInv, CommandOK, PrepareSteps, SealSteps, AttachSteps, CarriesWanted, Preparation
    <2>3. QED
      BY <2>1, <2>2, LooksKeeps DEF SInv
  <1>2. CASE Compare
    <2>1. /\ command.pc = "compare" /\ Fsync /\ promised' = promised
          /\ \/ Exit
             \/ Preparation.tree["candidate"] = command.want /\ Enter("env")
      BY <1>2 DEF Compare
    <2>2. CommandOK'
      <3>1. /\ DOMAIN command = {"pc", "id", "want", "receipt"} /\ staged' = staged
            /\ command.want # NoCandidate
        BY <2>1, StagingConstants DEF SInv, CommandOK, SealSteps, AttachSteps, Fsync
      <3>2. QED
        BY <2>1, <3>1, ExitInv
           DEF Enter, SInv, CommandOK, PrepareSteps, SealSteps, AttachSteps, CarriesWanted, Preparation
    <2>3. QED
      BY <2>1, <2>2, FsyncKeeps DEF SInv
  <1>3. CASE SyncRelease
    <2>1. /\ kept' = {staged} /\ staged' = staged /\ command.id \in Id
          /\ promised' = [promised EXCEPT ![command.id].stage = "sealed"]
          /\ staged.releases[command.id] # Absent
      BY <1>3 DEF SyncRelease, Fsync, SInv, CommandOK
    <2>2. /\ DOMAIN promised' = Id
          /\ \A i \in Id : /\ DOMAIN promised'[i] = {"stage", "candidate"}
                            /\ promised'[i].candidate = promised[i].candidate
                            /\ promised'[i].stage = IF i = command.id THEN "sealed"
                                                    ELSE promised[i].stage
      BY <2>1 DEF SInv, PromisedOK
    <2>3. TracksOK' /\ PromisedOK' /\ ReleasesStay'
      BY <2>1, <2>2 DEF SInv, TracksOK, PromisedOK, ReleasesStay
    <2>4. SealedIsWhole' /\ StagedIsDurable'
      BY <2>1, <2>2 DEF SInv, TracksOK, SealedIsWhole, StagedIsDurable
    <2>5. QED
      BY <1>3, <2>3, <2>4, ExitInv DEF SyncRelease, SInv
  <1>4. QED
    BY <1>1, <1>2, <1>3

LEMMA FaultsInv ==
    ASSUME SInv, Abort \/ LosePower \/ \E content \in Content : ReplaceUpload(content)
    PROVE  SInv'
  <1>1. CASE Abort
    BY <1>1, LooksKeeps, ExitInv DEF Abort, Looks, SInv
  <1>2. CASE LosePower
    <2>1. staged' \in kept /\ kept' = {staged'} /\ promised' = promised
      BY <1>2 DEF LosePower
    <2>2. TracksOK' /\ PromisedOK' /\ ReleasesStay'
      BY <2>1 DEF SInv, TracksOK, PromisedOK, ReleasesStay
    <2>3. SealedIsWhole' /\ StagedIsDurable'
      BY <2>1 DEF SInv, SealedIsWhole, StagedIsDurable
    <2>4. QED
      BY <1>2, <2>2, <2>3, ExitInv DEF LosePower, SInv
  <1>3. CASE \E content \in Content : ReplaceUpload(content)
    <2>1. UNCHANGED <<staged, kept, command, promised>>
      BY <1>3 DEF ReplaceUpload
    <2>2. CommandOK'
      BY <2>1 DEF SInv, CommandOK, Preparation, CarriesWanted
    <2>3. QED
      BY <2>1, <2>2, LooksKeeps DEF SInv
  <1>4. QED
    BY <1>1, <1>2, <1>3

(* The invariant: at every point of a seal the directories are such that what
   comes next, or a cut here, leaves only whole releases. *)
THEOREM StagingInvariant == SSpec => []SInv
  <1>1. SInv /\ [SNext]_svars => SInv'
    <2> SUFFICES ASSUME SInv, [SNext]_svars PROVE SInv'
      OBVIOUS
    <2>1. CASE UNCHANGED svars
      <3>1. CommandOK'
        BY <2>1 DEF svars, SInv, CommandOK, Preparation, CarriesWanted
      <3>2. QED
        BY <2>1, <3>1, LooksKeeps DEF svars, SInv
    <2>2. QED
      BY <2>1, PrepareInv, BeginSealInv, SealWritesInv, PublishInv, OtherSealStepsInv, FaultsInv
         DEF SNext, Seal
  <1>2. QED
    BY <1>1, StagingInitInv, PTL DEF SSpec

(* What is under releases/ verifies and holds the candidate its seal was asked
   for (seal_release), whatever replaced the upload or cut the command. *)
THEOREM SealsAreWhole == SSpec => []SealedIsWhole
  BY StagingInvariant, PTL DEF SInv

(* What prepare-code and seal report as done survives a power loss. *)
THEOREM StagesAreDurable == SSpec => []StagedIsDurable
  BY StagingInvariant, PTL DEF SInv

-----------------------------------------------------------------------------
\* Selecting, refreshing and packaging a candidate.
\* A job that makes a candidate, and one that packages it.
CandidateFields ==
    {"pc", "by", "host", "dest", "replace", "after", "snapshot", "pool", "items",
     "from", "queue"}
Making == {"scan", "open", "copy", "gate", "publish"}
Writing == {"link", "undo"}

\* What a refresh takes is its replica's of one moment, the rest its template's.
Retakes(by, host, items, from) ==
    by # "select" =>
        /\ DOMAIN items = DOMAIN from
        /\ \A n \in DOMAIN items :
              /\ items[n].id = from[n].id /\ items[n].key = from[n].key
              /\ items[n].rank = from[n].rank /\ items[n].kind = from[n].kind
        /\ \E rows \in moments[host] : \A n \in DOMAIN items :
              IF by = "refresh" \/ OwnedBy(host, items[n].id)
              THEN items[n].row = rows[items[n].id] /\ rows[items[n].id].rank = items[n].rank
              ELSE items[n] = from[n]

OfOneMoment(items) ==
    \E h \in Host : \E rows \in moments[h] : \A n \in DOMAIN items :
        items[n].row = rows[items[n].id] /\ items[n].row.gaps = {}

OfItsKind(items) == \A n \in DOMAIN items : items[n].row.kind = items[n].kind

JobOK(j) ==
    /\ j.pc \in {"idle", "stage", "release"} \cup Making \cup Writing
    /\ j.pc \in Making =>
          /\ DOMAIN j = CandidateFields /\ j.by \in {"select", "refresh", "owner"}
          /\ j.host \in Host
    /\ j.pc \in {"open", "copy"} /\ j.by # "select" => j.items = j.from
    /\ j.pc = "copy" => j.snapshot \in moments[j.host]
    /\ j.pc = "scan" => j.by = "select" /\ j.snapshot \in moments[j.host]
    /\ j.pc \in {"gate", "publish"} =>
          j.queue = QueueOf(j.items) /\ Retakes(j.by, j.host, j.items, j.from)
    /\ j.pc = "publish" => OfItsKind(j.items)
    /\ j.pc = "stage" => \E h \in Host : j.canonical \in moments[h]
    /\ j.pc \in {"release"} \cup Writing =>
          DOMAIN j = {"pc", "canonical", "input", "candidate"}
    /\ j.pc = "release" => OfOneMoment(j.candidate.items)

\* The parts of a release directory, linked in this order.
Stages == {{}, {"database"}, {"database", "archive"}, Part}
PackageOK ==
    /\ package.holds \in Stages
    /\ package.made \in BOOLEAN
    /\ package.holds # {} => package.made
    /\ package.made => /\ DOMAIN package = {"holds", "made", "items", "canonical"}
                       /\ OfOneMoment(package.items)
    /\ \A w \in Slots : job[w].pc \in Writing =>
          package.made /\ \A v \in Slots : job[v].pc \in Writing => v = w

CandInv ==
    /\ DOMAIN moments = Host /\ DOMAIN job = Slots /\ DOMAIN file = File
    /\ \A h \in Host : replica[h] \in moments[h]
    /\ \A w \in Slots : JobOK(job[w])
    /\ \A f \in File : file[f] # Vacant =>
          /\ file[f].host \in Host
          /\ file[f].queue = QueueOf(file[f].items) /\ OfItsKind(file[f].items)
          /\ Retakes(file[f].by, file[f].host, file[f].items, file[f].from)
    /\ PackageOK


LEMMA PartsOfRelease ==
    /\ Part = {"database", "archive", "manifest"}
    /\ Cardinality({}) = 0 /\ Cardinality({"database"}) = 1
    /\ Cardinality({"database", "archive"}) = 2 /\ Cardinality(Part) = 3
  <1>1. DOMAIN LinkOrder = 1 .. 3 /\ LinkOrder[1] = "database" /\ LinkOrder[2] = "archive"
        /\ LinkOrder[3] = "manifest"
    BY DEF LinkOrder
  <1>2. Part = {"database", "archive", "manifest"}
    BY <1>1 DEF Part, ToSet
  <1>3. /\ IsFiniteSet({}) /\ Cardinality({}) = 0
        /\ IsFiniteSet({"database"}) /\ Cardinality({"database"}) = 1
    BY FS_EmptySet, FS_Singleton
  <1>4. /\ IsFiniteSet({"database"} \cup {"archive"})
        /\ Cardinality({"database"} \cup {"archive"}) = 2
    <2> "archive" \notin {"database"}
      OBVIOUS
    <2> QED
      BY <1>3, FS_AddElement
  <1>5. Cardinality({"database", "archive"} \cup {"manifest"}) = 3
    <2>1. {"database", "archive"} = {"database"} \cup {"archive"}
      OBVIOUS
    <2>2. "manifest" \notin {"database", "archive"}
      OBVIOUS
    <2> QED
      BY <1>4, <2>1, <2>2, FS_AddElement
  <1>6. {"database", "archive"} = {"database"} \cup {"archive"}
        /\ {"database", "archive", "manifest"} = {"database", "archive"} \cup {"manifest"}
    OBVIOUS
  <1> QED
    BY <1>2, <1>3, <1>4, <1>5, <1>6

\* A job takes a step of its own that does not concern the release directory.
LEMMA JobStep ==
    ASSUME CandInv, NEW w \in Slots, NEW s, Turn(w, s),
           UNCHANGED <<replica, moments, file, package>>, JobOK(s),
           s.pc \notin Writing
    PROVE  CandInv'
  <1>1. DOMAIN job' = Slots /\ job'[w] = s /\ \A v \in Slots \ {w} : job'[v] = job[v]
    BY DEF Turn, CandInv
  <1>2. \A v \in Slots : JobOK(job'[v])
    BY <1>1 DEF CandInv
  <1>3. \A v \in Slots : JobOK(job[v])'
    BY <1>2 DEF JobOK, Retakes, OfOneMoment, OfItsKind
  <1>4. PackageOK'
    <2>1. \A v \in Slots : job'[v].pc \in Writing => job[v].pc \in Writing /\ v # w
      BY <1>1
    <2>2. package' = package /\ moments' = moments
      OBVIOUS
    <2>3. PackageOK
      BY DEF CandInv
    <2> QED
      BY <2>1, <2>2, <2>3 DEF PackageOK, OfOneMoment
  <1>5. QED
    BY <1>1, <1>3, <1>4 DEF CandInv, Retakes

LEMMA CandidateStart == CandidateInit => CandInv
  <1>1. SUFFICES ASSUME CandidateInit PROVE CandInv
    OBVIOUS
  <1>2. \A w \in Slots : job[w] = NoJob /\ JobOK(job[w])
    BY <1>1 DEF CandidateInit, JobOK, NoJob, Making, Writing
  <1>3. PackageOK
    BY <1>1, <1>2 DEF CandidateInit, PackageOK, NoPackage, NoJob, Stages, Writing
  <1>4. QED
    BY <1>1, <1>2, <1>3 DEF CandidateInit, CandInv

LEMMA StopStep ==
    ASSUME CandInv, NEW w \in Slots, Turn(w, NoJob), Quiet PROVE CandInv'
  <1>1. JobOK(NoJob) /\ NoJob.pc \notin Writing
    BY DEF JobOK, NoJob, Making, Writing
  <1> QED
    BY <1>1, JobStep DEF Quiet

LEMMA LaunchStep ==
    ASSUME CandInv, NEW w \in Slots, StartSelect(w) \/ StartRefresh(w) \/ StartPackage(w)
    PROVE  CandInv'
  <1>1. CASE StartSelect(w)
    <2>1. PICK r \in Requests : r.by = "select" /\ Launch(w, NewJob(r, <<>>))
      BY <1>1 DEF StartSelect
    <2>2. r.host \in Host
      BY CandidateConstants DEF Host
    <2>3. replica[r.host] \in moments[r.host]
      BY <2>2 DEF CandInv
    <2>4. JobOK(NewJob(r, <<>>)) /\ NewJob(r, <<>>).pc \notin Writing
      BY <2>1, <2>2, <2>3 DEF JobOK, NewJob, Making, Writing, CandidateFields
    <2> QED
      BY <2>1, <2>4, JobStep DEF Launch
  <1>2. CASE StartRefresh(w)
    <2>1. PICK r \in Requests :
            /\ r.by \in {"refresh", "owner"}
            /\ Launch(w, NewJob(r, file[r.template].items))
      BY <1>2 DEF StartRefresh
    <2>2. r.host \in Host
      BY CandidateConstants DEF Host
    <2> DEFINE items == file[r.template].items
    <2> HIDE DEF items
    <2>4. JobOK(NewJob(r, items)) /\ NewJob(r, items).pc \notin Writing
      BY <2>1, <2>2 DEF JobOK, NewJob, Making, Writing, CandidateFields
    <2> QED
      BY <2>1, <2>4, JobStep DEF Launch, items
  <1>3. CASE StartPackage(w)
    <2>1. PICK r \in Requests :
            Launch(w, [pc |-> "stage", canonical |-> replica[r.host], input |-> r.template])
      BY <1>3 DEF StartPackage
    <2>2. r.host \in Host
      BY CandidateConstants DEF Host
    <2> DEFINE s == [pc |-> "stage", canonical |-> replica[r.host], input |-> r.template]
    <2>3. s.canonical \in moments[r.host]
      BY <2>2 DEF CandInv
    <2>4. JobOK(s) /\ s.pc \notin Writing
      BY <2>2, <2>3 DEF JobOK, Making, Writing
    <2> QED
      BY <2>1, <2>4, JobStep DEF Launch
  <1> QED
    BY <1>1, <1>2, <1>3

LEMMA OpenStep ==
    ASSUME CandInv, NEW w \in Slots, OpenReplica(w) \/ ScanPage(w) PROVE CandInv'
  <1> DEFINE j == job[w]
  <1>1. JobOK(j)
    BY DEF CandInv
  <1>2. CASE OpenReplica(w)
    <2> DEFINE s == [j EXCEPT !.pc = "copy", !.snapshot = replica[j.host]]
    <2>1. j.pc = "open"
      BY <1>2 DEF OpenReplica, At20k
    <2>2. /\ DOMAIN j = CandidateFields /\ j.by \in {"select", "refresh", "owner"}
          /\ j.host \in Host /\ (j.by # "select" => j.items = j.from)
      BY <1>1, <2>1 DEF JobOK, Making
    <2>3. replica[j.host] \in moments[j.host]
      BY <2>2 DEF CandInv
    <2> HIDE DEF j
    <2>4. JobOK(s) /\ s.pc \notin Writing
      BY <2>2, <2>3 DEF JobOK, Making, Writing, CandidateFields
    <2> QED
      BY <1>2, <2>4, JobStep DEF OpenReplica, Quiet, j
  <1>3. CASE ScanPage(w)
    <2>1. PICK pool, after :
            /\ Turn(w, [j EXCEPT !.pool = pool, !.after = after])
            /\ Quiet /\ j.pc = "scan"
      BY <1>3 DEF ScanPage, At20k
    <2> DEFINE s == [j EXCEPT !.pool = pool, !.after = after]
    <2>2. /\ DOMAIN j = CandidateFields /\ j.by = "select" /\ j.host \in Host
          /\ j.snapshot \in moments[j.host]
      BY <1>1, <2>1 DEF JobOK, Making
    <2>3. j.pc = "scan"
      BY <2>1
    <2> HIDE DEF j
    <2>4. JobOK(s) /\ s.pc \notin Writing
      BY <2>2, <2>3 DEF JobOK, Making, Writing, CandidateFields
    <2> QED
      BY <2>1, <2>4, JobStep DEF Quiet, j
  <1> QED
    BY <1>2, <1>3

LEMMA ChooseStep == ASSUME CandInv, NEW w \in Slots, Choose20k(w) PROVE CandInv'
  <1> DEFINE j == job[w]
  <1>1. JobOK(j) /\ j.pc = "scan" /\ Quiet
    BY DEF CandInv, Choose20k, At20k
  <1>2. /\ DOMAIN j = CandidateFields /\ j.by = "select" /\ j.host \in Host
        /\ j.snapshot \in moments[j.host]
    BY <1>1 DEF JobOK, Making
  <1>3. PICK items : Turn(w, NoJob) \/ Turn(w, [j EXCEPT !.pc = "copy", !.items = items, !.pool = NoPool])
    BY DEF Choose20k
  <1> DEFINE s == [j EXCEPT !.pc = "copy", !.items = items, !.pool = NoPool]
  <1> HIDE DEF j
  <1>4. JobOK(s) /\ s.pc \notin Writing
    BY <1>1, <1>2 DEF JobOK, Making, Writing, CandidateFields
  <1> QED
    BY <1>1, <1>3, <1>4, JobStep, StopStep DEF Quiet, j

\* What a job takes from its snapshot, if the rows fit.
LEMMA RowsTaken ==
    ASSUME NEW j, JobOK(j), j.pc = "copy",
           NEW items, items = IF j.by = "owner" THEN OwnerCopyOf(j.items, j.snapshot, j.host)
                              ELSE CopyOf(j.items, j.snapshot),
           IF j.by = "owner" THEN OwnerAllowed(j.items, j.snapshot, j.host)
           ELSE CopyAllowed(j.items, j.snapshot, j.by)
    PROVE  Retakes(j.by, j.host, items, j.from)
  <1>1. SUFFICES ASSUME j.by # "select" PROVE Retakes(j.by, j.host, items, j.from)
    BY DEF Retakes
  <1>2. /\ j.by \in {"refresh", "owner"} /\ j.items = j.from
        /\ j.snapshot \in moments[j.host]
    BY <1>1 DEF JobOK, Making
  <1>3. CASE j.by = "owner"
    <2>1. /\ items = [n \in DOMAIN j.from |->
                IF OwnedBy(j.host, j.from[n].id)
                THEN Retaken(j.from[n], j.snapshot[j.from[n].id], j.snapshot[j.from[n].id].evidence)
                ELSE j.from[n]]
          /\ OwnerAllowed(j.from, j.snapshot, j.host)
      BY <1>2, <1>3 DEF OwnerCopyOf
    <2>2. ASSUME NEW n \in DOMAIN j.from
          PROVE  /\ items[n].id = j.from[n].id /\ items[n].key = j.from[n].key
                 /\ items[n].rank = j.from[n].rank /\ items[n].kind = j.from[n].kind
                 /\ IF OwnedBy(j.host, items[n].id)
                    THEN /\ items[n].row = j.snapshot[items[n].id]
                         /\ j.snapshot[items[n].id].rank = items[n].rank
                    ELSE items[n] = j.from[n]
      <3>1. CASE OwnedBy(j.host, j.from[n].id)
        <4>1. items[n] = Retaken(j.from[n], j.snapshot[j.from[n].id],
                                 j.snapshot[j.from[n].id].evidence)
          BY <2>1, <3>1
        <4>2. j.snapshot[j.from[n].id].rank = j.from[n].rank
          BY <2>1, <3>1 DEF OwnerAllowed
        <4> QED
          BY <3>1, <4>1, <4>2 DEF Retaken
      <3>2. CASE ~OwnedBy(j.host, j.from[n].id)
        <4>1. items[n] = j.from[n]
          BY <2>1, <3>2
        <4> QED
          BY <3>2, <4>1
      <3> QED
        BY <3>1, <3>2
    <2>3. DOMAIN items = DOMAIN j.from
      BY <2>1
    <2> QED
      BY <1>2, <1>3, <2>2, <2>3 DEF Retakes
  <1>4. CASE j.by = "refresh"
    <2>1. /\ items = [n \in DOMAIN j.from |->
                Retaken(j.from[n], j.snapshot[j.from[n].id], j.from[n].evidence)]
          /\ CopyAllowed(j.from, j.snapshot, j.by)
      BY <1>2, <1>4 DEF CopyOf
    <2>2. ASSUME NEW n \in DOMAIN j.from
          PROVE  /\ items[n].id = j.from[n].id /\ items[n].key = j.from[n].key
                 /\ items[n].rank = j.from[n].rank /\ items[n].kind = j.from[n].kind
                 /\ items[n].row = j.snapshot[items[n].id]
                 /\ j.snapshot[items[n].id].rank = items[n].rank
      <3>1. items[n] = Retaken(j.from[n], j.snapshot[j.from[n].id], j.from[n].evidence)
        BY <2>1
      <3>2. j.snapshot[j.from[n].id].rank = j.from[n].rank
        BY <2>1 DEF CopyAllowed
      <3> QED
        BY <3>1, <3>2 DEF Retaken
    <2>3. DOMAIN items = DOMAIN j.from
      BY <2>1
    <2> QED
      BY <1>2, <1>4, <2>2, <2>3 DEF Retakes
  <1> QED
    BY <1>2, <1>3, <1>4

LEMMA CopyStep == ASSUME CandInv, NEW w \in Slots, CopyRows(w) PROVE CandInv'
  <1> DEFINE j == job[w]
             taken == IF j.by = "owner" THEN OwnerCopyOf(j.items, j.snapshot, j.host)
                      ELSE CopyOf(j.items, j.snapshot)
             fits == IF j.by = "owner" THEN OwnerAllowed(j.items, j.snapshot, j.host)
                     ELSE CopyAllowed(j.items, j.snapshot, j.by)
  <1>1. JobOK(j) /\ j.pc = "copy" /\ Quiet
    BY DEF CandInv, CopyRows, At20k
  <1>2. Turn(w, IF fits THEN [j EXCEPT !.pc = "gate", !.items = taken, !.queue = QueueOf(taken),
                                       !.snapshot = <<>>, !.after = <<>>]
                ELSE NoJob)
    BY DEF CopyRows, Source
  <1>3. CASE ~fits
    BY <1>1, <1>2, <1>3, StopStep
  <1>4. CASE fits
    <2> DEFINE s == [j EXCEPT !.pc = "gate", !.items = taken, !.queue = QueueOf(taken),
                              !.snapshot = <<>>, !.after = <<>>]
    <2>1. Retakes(j.by, j.host, taken, j.from)
      BY <1>1, <1>4, RowsTaken
    <2>2. DOMAIN j = CandidateFields /\ j.by \in {"select", "refresh", "owner"} /\ j.host \in Host
      BY <1>1 DEF JobOK, Making
    <2>3. Turn(w, s)
      BY <1>2, <1>4
    <2> HIDE DEF j, taken, fits
    <2>4. JobOK(s) /\ s.pc \notin Writing
      BY <2>1, <2>2 DEF JobOK, Making, Writing, CandidateFields
    <2> QED
      BY <1>1, <2>3, <2>4, JobStep DEF Quiet
  <1> QED
    BY <1>3, <1>4

LEMMA GateStep == ASSUME CandInv, NEW w \in Slots, Gate(w) PROVE CandInv'
  <1> DEFINE j == job[w]
             ready == StructuralReady(j, replica[j.host], Compared(j))
  <1>1. JobOK(j) /\ j.pc = "gate" /\ Quiet
    BY DEF CandInv, Gate, At20k
  <1>2. Turn(w, IF ready THEN [j EXCEPT !.pc = "publish"] ELSE NoJob)
    BY DEF Gate
  <1>3. CASE ~ready
    BY <1>1, <1>2, <1>3, StopStep
  <1>4. CASE ready
    <2> DEFINE s == [j EXCEPT !.pc = "publish"]
    <2>1. OfItsKind(j.items)
      BY <1>4 DEF StructuralReady, OfItsKind
    <2>2. /\ DOMAIN j = CandidateFields /\ j.by \in {"select", "refresh", "owner"}
          /\ j.host \in Host
          /\ j.queue = QueueOf(j.items) /\ Retakes(j.by, j.host, j.items, j.from)
      BY <1>1 DEF JobOK, Making
    <2>3. Turn(w, s)
      BY <1>2, <1>4
    <2> HIDE DEF j, ready
    <2>4. JobOK(s) /\ s.pc \notin Writing
      BY <2>1, <2>2 DEF JobOK, Making, Writing, CandidateFields
    <2> QED
      BY <1>1, <2>3, <2>4, JobStep DEF Quiet
  <1> QED
    BY <1>3, <1>4

LEMMA FileStep == ASSUME CandInv, NEW w \in Slots, PublishFile(w) PROVE CandInv'
  <1> DEFINE j == job[w]
             made == [items |-> j.items, queue |-> j.queue, by |-> j.by,
                      host |-> j.host, from |-> j.from]
  <1>1. JobOK(j) /\ j.pc = "publish" /\ Turn(w, NoJob) /\ UNCHANGED <<replica, moments, package>>
    BY DEF CandInv, PublishFile, At20k
  <1>2. file' = file \/ file' = [file EXCEPT ![j.dest] = made]
    BY DEF PublishFile
  <1>3. /\ j.queue = QueueOf(j.items) /\ Retakes(j.by, j.host, j.items, j.from)
        /\ OfItsKind(j.items) /\ j.host \in Host
    BY <1>1 DEF JobOK, Making
  <1>4. DOMAIN file' = File /\ \A f \in File : file'[f] = file[f] \/ file'[f] = made
    BY <1>2 DEF CandInv
  <1>5. /\ made.queue = QueueOf(made.items) /\ OfItsKind(made.items) /\ made.host \in Host
        /\ Retakes(made.by, made.host, made.items, made.from)
    BY <1>3
  <1> HIDE DEF made, j
  <1>6. \A f \in File : file'[f] # Vacant =>
          /\ file'[f].host \in Host
          /\ file'[f].queue = QueueOf(file'[f].items) /\ OfItsKind(file'[f].items)
          /\ Retakes(file'[f].by, file'[f].host, file'[f].items, file'[f].from)
    BY <1>4, <1>5 DEF CandInv
  <1>7. DOMAIN job' = Slots /\ job'[w] = NoJob /\ \A v \in Slots \ {w} : job'[v] = job[v]
    BY <1>1 DEF Turn, CandInv
  <1>8. JobOK(NoJob)
    BY DEF JobOK, NoJob, Making, Writing
  <1>9. \A v \in Slots : JobOK(job'[v])
    BY <1>7, <1>8 DEF CandInv
  <1>10. \A v \in Slots : JobOK(job[v])'
    BY <1>1, <1>9 DEF JobOK, Retakes, OfOneMoment, OfItsKind
  <1>11. PackageOK'
    <2>1. \A v \in Slots : job'[v].pc \in Writing => job[v].pc \in Writing /\ v # w
      BY <1>7 DEF NoJob, Writing
    <2> QED
      BY <1>1, <2>1 DEF CandInv, PackageOK, OfOneMoment
  <1> QED
    BY <1>1, <1>4, <1>6, <1>7, <1>10, <1>11 DEF CandInv, Retakes, OfItsKind

LEMMA GateStagedStep == ASSUME CandInv, NEW w \in Slots, GateStaged(w) PROVE CandInv'
  <1> DEFINE j == job[w]
             candidate == file[j.input]
             ready == Ready(candidate, j.canonical)
             s == [pc |-> "release", canonical |-> j.canonical, input |-> j.input,
                   candidate |-> candidate]
  <1>1. JobOK(j) /\ j.pc = "stage" /\ Quiet
    BY DEF CandInv, GateStaged, At20k
  <1>2. Turn(w, IF ready THEN s ELSE NoJob)
    BY DEF GateStaged
  <1>3. CASE ~ready
    BY <1>1, <1>2, <1>3, StopStep
  <1>4. CASE ready
    <2>1. PICK h \in Host : j.canonical \in moments[h]
      BY <1>1 DEF JobOK
    <2>2. \A n \in DOMAIN candidate.items :
             /\ j.canonical[candidate.items[n].id] = candidate.items[n].row
             /\ candidate.items[n].row.gaps = {}
      BY <1>4 DEF Ready, StructuralReady
    <2>3. OfOneMoment(candidate.items)
      BY <2>1, <2>2 DEF OfOneMoment
    <2>4. Turn(w, s)
      BY <1>2, <1>4
    <2>5. JobOK(s) /\ s.pc \notin Writing
      <3> HIDE DEF j, candidate
      <3> QED
        BY <2>3 DEF JobOK, Making, Writing
    <2> HIDE DEF s
    <2> QED
      BY <1>1, <2>4, <2>5, JobStep DEF Quiet
  <1> QED
    BY <1>3, <1>4

\* A packaging job takes a step with the release directory.
LEMMA ReleaseStep ==
    ASSUME CandInv, NEW w \in Slots, NEW s, Turn(w, s),
           UNCHANGED <<replica, moments, file>>, JobOK(s), PackageOK'
    PROVE  CandInv'
  <1>1. DOMAIN job' = Slots /\ job'[w] = s /\ \A v \in Slots \ {w} : job'[v] = job[v]
    BY DEF Turn, CandInv
  <1>2. \A v \in Slots : JobOK(job'[v])
    BY <1>1 DEF CandInv
  <1>3. \A v \in Slots : JobOK(job[v])'
    BY <1>2 DEF JobOK, Retakes, OfOneMoment, OfItsKind
  <1>4. QED
    BY <1>1, <1>3 DEF CandInv, Retakes

LEMMA RenameStep ==
    ASSUME CandInv, NEW w \in Slots, RenameRelease(w) \/ ReserveRelease(w) PROVE CandInv'
  <1> DEFINE j == job[w]
  <1>1. JobOK(j) /\ j.pc = "release" /\ UNCHANGED <<replica, moments, file>>
    BY DEF CandInv, RenameRelease, ReserveRelease, At20k
  <1>2. DOMAIN j = {"pc", "canonical", "input", "candidate"} /\ OfOneMoment(j.candidate.items)
    BY <1>1 DEF JobOK
  <1>3. JobOK(NoJob) /\ NoJob.pc \notin Writing
    BY DEF JobOK, NoJob, Making, Writing
  <1>4. CASE package' = package /\ Turn(w, NoJob)
    BY <1>1, <1>3, <1>4, JobStep
  <1>5. ASSUME ~package.made, NEW holds \in Stages, package' = Packaged(j, holds),
               NEW s, Turn(w, s), JobOK(s)
        PROVE  CandInv'
    <2>1. /\ package'.holds = holds /\ package'.made = TRUE
          /\ package'.items = j.candidate.items
          /\ DOMAIN package' = {"holds", "made", "items", "canonical"}
      <3> HIDE DEF j
      <3> QED
        BY <1>5 DEF Packaged
    <2>2. OfOneMoment(package.items)'
      BY <1>1, <1>2, <2>1 DEF OfOneMoment
    <2>3. \A v \in Slots : job[v].pc \notin Writing
      BY <1>5 DEF CandInv, PackageOK
    <2>4. \A v \in Slots : job'[v].pc \in Writing => v = w
      BY <1>5, <2>3 DEF Turn, CandInv
    <2>5. PackageOK'
      BY <1>5, <2>1, <2>2, <2>4 DEF PackageOK
    <2> QED
      BY <1>1, <1>5, <2>5, ReleaseStep
  <1>6. CASE ~package.made /\ RenameRelease(w)
    <2>1. package' = Packaged(j, Part) /\ Turn(w, NoJob) /\ Part \in Stages
      BY <1>6 DEF RenameRelease, Stages
    <2> QED
      BY <1>3, <1>5, <1>6, <2>1
  <1>7. CASE ~package.made /\ ReserveRelease(w)
    <2> DEFINE s == [j EXCEPT !.pc = "link"]
    <2>1. package' = Packaged(j, {}) /\ Turn(w, s) /\ {} \in Stages
      BY <1>7 DEF ReserveRelease, Stages
    <2>2. JobOK(s)
      <3> HIDE DEF j
      <3> QED
        BY <1>2 DEF JobOK, Making, Writing
    <2> HIDE DEF s
    <2> QED
      BY <1>5, <1>7, <2>1, <2>2
  <1>8. CASE package.made
    BY <1>4, <1>8 DEF RenameRelease, ReserveRelease
  <1> QED
    BY <1>6, <1>7, <1>8

\* A link made or removed by the job that owns the directory.
LEMMA HoldsStep ==
    ASSUME CandInv, NEW w \in Slots, job[w].pc \in Writing,
           NEW holds \in Stages, NEW pc \in Writing, Linking(w, holds, pc)
    PROVE  CandInv'
  <1> DEFINE j == job[w]
             s == [j EXCEPT !.pc = pc]
  <1>1. /\ JobOK(j) /\ UNCHANGED <<replica, moments, file>> /\ Turn(w, s)
        /\ package' = [package EXCEPT !.holds = holds]
    BY DEF CandInv, Linking
  <1>2. DOMAIN j = {"pc", "canonical", "input", "candidate"}
    BY <1>1 DEF JobOK
  <1>3. JobOK(s)
    <2> HIDE DEF j
    <2> QED
      BY <1>2 DEF JobOK, Making, Writing
  <1>4. /\ package.made /\ DOMAIN package = {"holds", "made", "items", "canonical"}
        /\ OfOneMoment(package.items) /\ package.made \in BOOLEAN
        /\ \A v \in Slots : job[v].pc \in Writing => v = w
    BY DEF CandInv, PackageOK
  <1>5. /\ package'.holds = holds /\ package'.made = package.made
        /\ package'.items = package.items
        /\ DOMAIN package' = {"holds", "made", "items", "canonical"}
    BY <1>1, <1>4
  <1>6. \A v \in Slots : job'[v].pc \in Writing => v = w
    BY <1>1, <1>4 DEF Turn, CandInv
  <1>7. PackageOK'
    <2>1. OfOneMoment(package.items)'
      BY <1>1, <1>4, <1>5 DEF OfOneMoment
    <2> HIDE DEF s, j
    <2> QED
      BY <1>4, <1>5, <1>6, <2>1 DEF PackageOK
  <1> HIDE DEF s
  <1> QED
    BY <1>1, <1>3, <1>7, ReleaseStep

LEMMA LinkStep ==
    ASSUME CandInv, NEW w \in Slots, LinkPart(w) \/ SyncPackage(w) PROVE CandInv'
  <1>1. CASE LinkPart(w)
    <2>1. /\ package.holds \in Stages /\ package.holds # Part /\ job[w].pc = "link"
          /\ Linking(w, package.holds \cup {LinkOrder[Cardinality(package.holds) + 1]}, "link")
      BY <1>1 DEF LinkPart, At20k, CandInv, PackageOK
    <2>2. LinkOrder[1] = "database" /\ LinkOrder[2] = "archive" /\ LinkOrder[3] = "manifest"
      BY DEF LinkOrder
    <2> DEFINE next == LinkOrder[Cardinality(package.holds) + 1]
    <2>3. package.holds \cup {next} \in Stages
      <3>1. CASE package.holds = {}
        <4>1. next = "database"
          BY <3>1, <2>2, PartsOfRelease
        <4> HIDE DEF next
        <4> QED
          BY <3>1, <4>1 DEF Stages
      <3>2. CASE package.holds = {"database"}
        <4>1. next = "archive"
          BY <3>2, <2>2, PartsOfRelease
        <4> HIDE DEF next
        <4>2. package.holds \cup {next} = {"database", "archive"}
          BY <3>2, <4>1
        <4> QED
          BY <4>2 DEF Stages
      <3>3. CASE package.holds = {"database", "archive"}
        <4>1. next = "manifest"
          BY <3>3, <2>2, PartsOfRelease
        <4> HIDE DEF next
        <4>2. package.holds \cup {next} = Part
          BY <3>3, <4>1, PartsOfRelease
        <4> QED
          BY <4>2 DEF Stages
      <3> QED
        BY <2>1, <3>1, <3>2, <3>3 DEF Stages
    <2> QED
      BY <2>1, <2>3, HoldsStep DEF Writing
  <1>2. CASE SyncPackage(w)
    BY <1>2, StopStep DEF SyncPackage
  <1> QED
    BY <1>1, <1>2

LEMMA UndoStep == ASSUME CandInv, NEW w \in Slots, UndoRelease(w) PROVE CandInv'
  <1>1. job[w].pc \in Writing /\ package.holds \in Stages
    BY DEF UndoRelease, At20k, Writing, CandInv, PackageOK
  <1>2. CASE package.holds = {}
    <2>1. package' = NoPackage /\ Turn(w, NoJob) /\ UNCHANGED <<replica, moments, file>>
      BY <1>2 DEF UndoRelease
    <2>2. JobOK(NoJob) /\ NoJob.pc \notin Writing
      BY DEF JobOK, NoJob, Making, Writing
    <2>3. \A v \in Slots : job[v].pc \in Writing => v = w
      BY <1>1 DEF CandInv, PackageOK
    <2>4. \A v \in Slots : job'[v].pc \notin Writing
      BY <2>1, <2>2, <2>3 DEF Turn, CandInv
    <2>5. PackageOK'
      BY <2>1, <2>4 DEF PackageOK, NoPackage, Stages
    <2> QED
      BY <2>1, <2>2, <2>5, ReleaseStep
  <1>3. CASE package.holds # {}
    <2>1. Linking(w, package.holds \ {LinkOrder[Cardinality(package.holds)]}, "undo")
      BY <1>3 DEF UndoRelease
    <2>2. LinkOrder[1] = "database" /\ LinkOrder[2] = "archive" /\ LinkOrder[3] = "manifest"
      BY DEF LinkOrder
    <2> DEFINE last == LinkOrder[Cardinality(package.holds)]
    <2>3. package.holds \ {last} \in Stages
      <3>1. CASE package.holds = {"database"}
        <4>1. last = "database"
          BY <3>1, <2>2, PartsOfRelease
        <4> HIDE DEF last
        <4>2. package.holds \ {last} = {}
          BY <3>1, <4>1
        <4> QED
          BY <4>2 DEF Stages
      <3>2. CASE package.holds = {"database", "archive"}
        <4>1. last = "archive"
          BY <3>2, <2>2, PartsOfRelease
        <4> HIDE DEF last
        <4>2. package.holds \ {last} = {"database"}
          BY <3>2, <4>1
        <4> QED
          BY <4>2 DEF Stages
      <3>3. CASE package.holds = Part
        <4>1. last = "manifest"
          BY <3>3, <2>2, PartsOfRelease
        <4> HIDE DEF last
        <4>2. package.holds \ {last} = {"database", "archive"}
          BY <3>3, <4>1, PartsOfRelease
        <4> QED
          BY <4>2 DEF Stages
      <3> QED
        BY <1>1, <1>3, <3>1, <3>2, <3>3 DEF Stages
    <2> QED
      BY <1>1, <2>1, <2>3, HoldsStep DEF Writing
  <1> QED
    BY <1>2, <1>3

\* What was of one moment still is when enrichment adds another.
LEMMA EnrichStep == ASSUME CandInv, Enrich PROVE CandInv'
  <1>1. UNCHANGED <<file, job, package>> /\ moments' = [h \in Host |-> moments[h] \cup {replica'[h]}]
    BY DEF Enrich
  <1>2. DOMAIN moments' = Host /\ \A h \in Host : moments[h] \subseteq moments'[h] /\ replica'[h] \in moments'[h]
    BY <1>1
  <1>3. ASSUME NEW items, OfOneMoment(items) PROVE OfOneMoment(items)'
    BY <1>2, <1>3 DEF OfOneMoment
  <1>4. ASSUME NEW by, NEW h \in Host, NEW items, NEW from, Retakes(by, h, items, from)
        PROVE  Retakes(by, h, items, from)'
    BY <1>2, <1>4 DEF Retakes
  <1>5. ASSUME NEW j, JobOK(j) PROVE JobOK(j)'
    <2>1. j.pc \in Making => j.host \in Host /\ moments[j.host] \subseteq moments'[j.host]
      BY <1>2, <1>5 DEF JobOK
    <2>2. j.pc \in {"scan", "copy", "gate", "publish"} => j.pc \in Making
      BY DEF Making
    <2>3. j.pc \in {"gate", "publish"} => Retakes(j.by, j.host, j.items, j.from)'
      BY <1>4, <1>5, <2>1, <2>2 DEF JobOK
    <2>4. j.pc = "release" => OfOneMoment(j.candidate.items)'
      BY <1>3, <1>5 DEF JobOK
    <2>5. j.pc = "stage" => \E h \in Host : j.canonical \in moments'[h]
      BY <1>2, <1>5 DEF JobOK
    <2>6. /\ j.pc = "copy" => j.snapshot \in moments'[j.host]
          /\ j.pc = "scan" => j.by = "select" /\ j.snapshot \in moments'[j.host]
      BY <1>5, <2>1, <2>2 DEF JobOK
    <2> QED
      BY <1>5, <2>3, <2>4, <2>5, <2>6 DEF JobOK
  <1>6. ASSUME NEW w \in Slots PROVE JobOK(job[w])'
    <2>1. PICK j : j = job[w]
      OBVIOUS
    <2>2. JobOK(j)' /\ j = job'[w]
      BY <1>1, <1>5, <2>1 DEF CandInv
    <2> QED
      BY <2>2
  <1>8. ASSUME NEW f \in File, file'[f] # Vacant
        PROVE  Retakes(file[f].by, file[f].host, file[f].items, file[f].from)'
    <2>1. PICK c : c = file[f]
      OBVIOUS
    <2>2. c # Vacant /\ c.host \in Host /\ Retakes(c.by, c.host, c.items, c.from) /\ c = file'[f]
      BY <1>1, <1>8, <2>1 DEF CandInv
    <2>3. Retakes(c.by, c.host, c.items, c.from)'
      BY <1>4, <2>2
    <2> QED
      BY <2>2, <2>3 DEF Retakes
  <1>9. PackageOK'
    BY <1>1, <1>3 DEF CandInv, PackageOK
  <1> QED
    BY <1>1, <1>2, <1>6, <1>8, <1>9 DEF CandInv

(* CandInv holds in every state. *)
THEOREM CandidateInvariant == CandidateSpec => []CandInv
  <1>1. CandInv /\ [CandidateNext]_candidateVars => CandInv'
    <2>1. SUFFICES ASSUME CandInv, [CandidateNext]_candidateVars PROVE CandInv'
      OBVIOUS
    <2>2. CASE UNCHANGED candidateVars
      BY <2>1, <2>2 DEF candidateVars, CandInv, JobOK, Retakes, OfOneMoment, OfItsKind, PackageOK
    <2>3. CASE Enrich
      BY <2>1, <2>3, EnrichStep
    <2>4. ASSUME NEW w \in Slots, KillJob(w) PROVE CandInv'
      BY <2>1, <2>4, StopStep DEF KillJob
    <2> QED
      BY <2>1, <2>2, <2>3, <2>4, LaunchStep, OpenStep, ChooseStep, CopyStep, GateStep, FileStep,
         GateStagedStep, RenameStep, LinkStep, UndoStep DEF CandidateNext
  <1> QED
    BY <1>1, CandidateStart, PTL DEF CandidateSpec

(* A refreshed candidate keeps the selection of its template, whatever enrichment
   writes between the reading of the template, the rows and the gate, and however
   many jobs publish over each other. *)
THEOREM RefreshesKeepSelection == CandidateSpec => []RefreshKeepsSelection
  <1>1. CandInv => RefreshKeepsSelection
    <2>1. SUFFICES ASSUME CandInv, NEW c \in Candidates
          PROVE  /\ c.queue = QueueOf(c.items) /\ OfItsKind(c.items)
                 /\ Retakes(c.by, c.host, c.items, c.from)
      BY DEF RefreshKeepsSelection, OfItsKind, Retakes
    <2>2. PICK f \in File : file[f] # Vacant /\ c = file[f]
      BY DEF Candidates
    <2> QED
      BY <2>1, <2>2 DEF CandInv
  <1> QED
    BY <1>1, CandidateInvariant, PTL

(* A release directory with a manifest is whole and ready, wherever packaging jobs
   were cut and whatever replaced their inputs. *)
THEOREM PackagesAreReady == CandidateSpec => []PackageIsReady
  <1>1. CandInv => PackageIsReady
    <2>1. SUFFICES ASSUME CandInv, "manifest" \in package.holds
          PROVE  package.holds = Part /\ OfOneMoment(package.items)
      BY DEF PackageIsReady, OfOneMoment
    <2> QED
      BY <2>1 DEF CandInv, PackageOK, Stages
  <1> QED
    BY <1>1, CandidateInvariant, PTL

-----------------------------------------------------------------------------
\* How many words and phrases a selection takes.
LEMMA MinOf ==
    ASSUME NEW a \in Int, NEW b \in Int
    PROVE  Min({a, b}) = IF a <= b THEN a ELSE b
  <1> DEFINE m == IF a <= b THEN a ELSE b
  <1>1. m \in {a, b} /\ \A y \in {a, b} : m <= y
    OBVIOUS
  <1>2. \A x \in {a, b} : (\A y \in {a, b} : x <= y) => x = m
    OBVIOUS
  <1> HIDE DEF m
  <1>3. Min({a, b}) = m
    BY <1>1, <1>2 DEF Min
  <1> QED
    BY <1>3 DEF m

LEMMA MinOfThree ==
    ASSUME NEW a \in Int, NEW b \in Int, NEW c \in Int
    PROVE  /\ Min({a, b, c}) \in {a, b, c}
           /\ Min({a, b, c}) <= a /\ Min({a, b, c}) <= b /\ Min({a, b, c}) <= c
  <1>1. \E x \in {a, b, c} : \A y \in {a, b, c} : x <= y
    <2>1. CASE a <= b /\ a <= c
      BY <2>1
    <2>2. CASE ~(a <= b) /\ b <= c
      BY <2>2
    <2>3. CASE ~(a <= b /\ a <= c) /\ ~(~(a <= b) /\ b <= c)
      BY <2>3
    <2> QED
      BY <2>1, <2>2, <2>3
  <1> QED
    BY <1>1 DEF Min

\* How many of the selected are phrases, and that both kinds last for it.
LEMMA Counts ==
    ASSUME NEW words \in Nat, NEW phrases \in Nat, CanChoose(words, phrases),
           NEW count, count = PhraseCount(words, phrases)
    PROVE  /\ count \in 0 .. Limit /\ count <= phrases /\ Limit - count <= words
           /\ count < PhraseTarget => count = phrases
           /\ count > PhraseTarget => Limit - count = words
           /\ count > PhraseTarget => words < Limit - PhraseTarget
  <1>1. PICK first : first = Min({PhraseTarget, phrases, Limit})
    OBVIOUS
  <1>2. /\ PhraseTarget \in Nat /\ PhraseTarget <= Limit /\ Limit \in Nat
        /\ first \in {PhraseTarget, phrases, Limit}
        /\ first <= PhraseTarget /\ first <= phrases /\ first <= Limit /\ first \in Nat
    <2>1. PhraseTarget \in Nat /\ PhraseTarget <= Limit /\ Limit \in Nat
      BY CandidateConstants
    <2>2. PhraseTarget \in Int /\ phrases \in Int /\ Limit \in Int
      BY <2>1
    <2>3. /\ first \in {PhraseTarget, phrases, Limit}
          /\ first <= PhraseTarget /\ first <= phrases /\ first <= Limit
      BY <1>1, <2>2, MinOfThree
    <2> QED
      BY <2>1, <2>3
  <1>3. PICK taken : taken = (IF words <= Limit - first THEN words ELSE Limit - first)
    OBVIOUS
  <1>4. taken = Min({words, Limit - first})
    BY <1>2, <1>3, MinOf
  <1>5. PICK more : more = IF phrases - first <= Limit - first - taken THEN phrases - first
                           ELSE Limit - first - taken
    OBVIOUS
  <1>6. count = first + more
    <2>1. Min({phrases - first, Limit - first - taken}) = more
      BY <1>2, <1>3, <1>5, MinOf
    <2> QED
      BY <1>1, <1>4, <2>1 DEF PhraseCount
  <1>7. words + phrases >= Limit
    BY DEF CanChoose
  <1> QED
    BY <1>2, <1>3, <1>5, <1>6, <1>7

LEMMA Products ==
    ASSUME NEW a \in Int, NEW b \in Int, NEW c \in Nat \ {0}, a * c < b * c
    PROVE  a < b
  OBVIOUS

LEMMA Quotient ==
    ASSUME NEW x \in Nat, NEW c \in Nat \ {0}
    PROVE  /\ x \div c \in Nat
           /\ (x \div c) * c <= x /\ x < (x \div c) * c + c
  OBVIOUS


\* The phrases due among the first n of a selection.
Due(n, count) == (n * count) \div Limit

LEMMA Shares ==
    ASSUME NEW m \in 0 .. Limit, NEW n \in 0 .. Limit, m <= n, NEW count \in 0 .. Limit
    PROVE  /\ Due(m, count) \in Nat /\ Due(n, count) \in Nat
           /\ Due(m, count) <= Due(n, count)
           /\ Due(n, count) <= Due(m, count) + (n - m)
  <1>1. Limit \in Nat \ {0} /\ n \in Nat /\ m \in Nat /\ count \in Nat /\ n - m \in Nat
    BY CandidateConstants
  <1>2. PICK a : a = Due(m, count)
    OBVIOUS
  <1>3. PICK b : b = Due(n, count)
    OBVIOUS
  <1>4. PICK x : x = m * count
    OBVIOUS
  <1>5. PICK d : d = (n - m) * count
    OBVIOUS
  <1>6. x \in Nat /\ d \in Nat /\ n * count = x + d
    BY <1>1, <1>4, <1>5
  <1>7. d <= (n - m) * Limit
    BY <1>1, <1>5
  <1>8. a \in Nat /\ a * Limit <= x /\ x < a * Limit + Limit
    BY <1>1, <1>2, <1>4, <1>6, Quotient DEF Due
  <1>9. b \in Nat /\ b * Limit <= x + d /\ x + d < b * Limit + Limit
    BY <1>1, <1>3, <1>6, Quotient DEF Due
  <1>10. a <= b
    <2>1. a * Limit < (b + 1) * Limit
      BY <1>1, <1>6, <1>8, <1>9
    <2> QED
      BY <1>1, <1>8, <1>9, <2>1, Products
  <1>11. b <= a + (n - m)
    <2>1. (a + (n - m) + 1) * Limit = a * Limit + (n - m) * Limit + Limit
      BY <1>1, <1>8
    <2>2. b * Limit < (a + (n - m) + 1) * Limit
      BY <1>1, <1>6, <1>7, <1>8, <1>9, <2>1
    <2> QED
      BY <1>1, <1>8, <1>9, <2>2, Products
  <1> QED
    BY <1>2, <1>3, <1>8, <1>9, <1>10, <1>11

LEMMA SharesEnd ==
    ASSUME NEW count \in 0 .. Limit
    PROVE  Due(0, count) = 0 /\ Due(Limit, count) = count
  <1>1. Limit \in Nat \ {0} /\ count \in Nat
    BY CandidateConstants
  <1>2. \A c \in Nat \ {0} : 0 \div c = 0
    OBVIOUS
  <1>3. Due(0, count) = 0
    BY <1>1, <1>2 DEF Due
  <1>4. PICK x : x = Limit * count
    OBVIOUS
  <1>5. x \in Nat
    BY <1>1, <1>4
  <1>6. PICK b : b = Due(Limit, count)
    OBVIOUS
  <1>7. b \in Nat /\ b * Limit <= x /\ x < b * Limit + Limit
    BY <1>1, <1>4, <1>5, <1>6, Quotient DEF Due
  <1>8. b < count + 1 /\ count < b + 1
    <2>1. b * Limit < (count + 1) * Limit
      BY <1>1, <1>4, <1>7
    <2>2. count * Limit < (b + 1) * Limit
      BY <1>1, <1>4, <1>7
    <2> QED
      BY <1>1, <1>7, <2>1, <2>2, Products
  <1> QED
    BY <1>1, <1>3, <1>6, <1>7, <1>8

-----------------------------------------------------------------------------
\* The order of the scan.
RowsOK(rows) ==
    DOMAIN rows \subseteq DOMAIN Variants /\ \A id \in DOMAIN rows : IsRow(rows[id])

LEMMA RowTypes ==
    ASSUME NEW rows, RowsOK(rows)
    PROVE  \A id \in DOMAIN rows :
              id \in Nat /\ rows[id].rank \in Nat /\ rows[id].kind \in {"word", "phrase", "unfit"}
  BY CandidateTypes DEF RowsOK, IsRow

LEMMA InOrder ==
    ASSUME NEW rows, RowsOK(rows), NEW a \in DOMAIN rows, NEW b \in DOMAIN rows
    PROVE  /\ a = b \/ Before(rows, a, b) \/ Before(rows, b, a)
           /\ Before(rows, a, b) => a # b /\ ~Before(rows, b, a)
           /\ \A c \in DOMAIN rows : Before(rows, a, b) /\ Before(rows, b, c) => Before(rows, a, c)
  BY RowTypes DEF Before

LEMMA FirstInOrder ==
    ASSUME NEW rows, RowsOK(rows), NEW S, S \subseteq DOMAIN rows, S # {}
    PROVE  \E a \in S : \A b \in S : b = a \/ Before(rows, a, b)
  <1>1. \A id \in S : id \in Nat /\ rows[id].rank \in Nat
    BY RowTypes
  <1> DEFINE Ranks == {rows[id].rank : id \in S}
  <1>2. PICK r \in Ranks : \A q \in Ranks : r <= q
    <2>1. Ranks \subseteq Nat /\ Ranks # {}
      BY <1>1
    <2> HIDE DEF Ranks
    <2> QED
      BY <2>1, LeastNumber
  <1> DEFINE Those == {id \in S : rows[id].rank = r}
  <1>3. PICK a \in Those : \A b \in Those : a <= b
    <2>1. Those \subseteq Nat /\ Those # {}
      BY <1>1, <1>2
    <2> HIDE DEF Those
    <2> QED
      BY <2>1, LeastNumber
  <1>4. ASSUME NEW b \in S PROVE b = a \/ Before(rows, a, b)
    <2>1. rows[b].rank \in Nat /\ rows[a].rank = r /\ r <= rows[b].rank /\ r \in Nat
          /\ a \in Nat /\ b \in Nat
      BY <1>1, <1>2, <1>3
    <2>2. CASE rows[b].rank = r
      <3>1. a <= b
        BY <1>3, <2>2
      <3> QED
        BY <2>1, <2>2, <3>1 DEF Before
    <2>3. CASE rows[b].rank # r
      BY <2>1, <2>3 DEF Before
    <2> QED
      BY <2>2, <2>3
  <1> QED
    BY <1>3, <1>4

\* A page is in order and leaves out only what comes after it.
IsPage(page, rest, rows, k) ==
    /\ page \in [1 .. k -> rest]
    /\ \A n \in 1 .. k : \A b \in rest :
          Before(rows, b, page[n]) <=> \E m \in 1 .. n - 1 : page[m] = b

LEMMA PageExists ==
    ASSUME NEW rows, RowsOK(rows), NEW rest, rest \subseteq DOMAIN rows
    PROVE  \E k \in 0 .. PageRows : \E page :
              IsPage(page, rest, rows, k) /\ (k < PageRows => \A b \in rest : \E n \in 1 .. k : page[n] = b)
  <1>0. PageRows \in Nat
    BY CandidateConstants
  <1> DEFINE Bad == {k \in Nat : k <= PageRows /\ ~\E page : IsPage(page, rest, rows, k)}
  <1>1. CASE Bad = {}
    <2>1. PICK page : IsPage(page, rest, rows, PageRows)
      BY <1>0, <1>1
    <2> QED
      BY <1>0, <2>1
  <1>2. CASE Bad # {}
    <2>1. PICK k \in Bad : \A m \in Bad : k <= m
      <3>1. Bad \subseteq Nat
        OBVIOUS
      <3> HIDE DEF Bad
      <3> QED
        BY <1>2, <3>1, LeastNumber
    <2>2. k \in Nat /\ k <= PageRows /\ ~\E page : IsPage(page, rest, rows, k)
      BY <2>1
    <2>3. k # 0
      <3>1. IsPage([i \in 1 .. 0 |-> 0], rest, rows, 0)
        BY DEF IsPage
      <3> QED
        BY <2>2, <3>1
    <2>4. k - 1 \in Nat /\ k - 1 <= PageRows /\ k - 1 < PageRows /\ k - 1 \in 0 .. PageRows
      BY <1>0, <2>2, <2>3
    <2>5. PICK page : IsPage(page, rest, rows, k - 1)
      <3>1. k - 1 \notin Bad
        <4> HIDE DEF Bad
        <4> QED
          BY <2>1, <2>2, <2>4
      <3> QED
        BY <2>4, <3>1
    <2> HIDE DEF Bad
    <2> DEFINE Left == {b \in rest : ~\E n \in 1 .. k - 1 : page[n] = b}
    <2>6. Left = {}
      <3>1. SUFFICES ASSUME Left # {} PROVE FALSE
        OBVIOUS
      <3>2. PICK a \in Left : \A b \in Left : b = a \/ Before(rows, a, b)
        <4>1. Left \subseteq DOMAIN rows
          OBVIOUS
        <4> HIDE DEF Left
        <4> QED
          BY <3>1, <4>1, FirstInOrder
      <3> DEFINE longer == [n \in 1 .. k |-> IF n = k THEN a ELSE page[n]]
      <3>3. longer \in [1 .. k -> rest] /\ longer[k] = a
            /\ \A n \in 1 .. k - 1 : longer[n] = page[n] /\ page[n] \in rest
        BY <2>2, <2>3, <2>4, <2>5, <3>2 DEF IsPage
      <3> HIDE DEF longer
      <3>4. ASSUME NEW b \in rest
            PROVE  Before(rows, b, a) <=> \E m \in 1 .. k - 1 : page[m] = b
        <4>1. b \in DOMAIN rows /\ a \in DOMAIN rows /\ a \in rest
          BY <3>2
        <4>2. CASE b \in Left
          <5>1. b = a \/ Before(rows, a, b)
            BY <3>2, <4>2
          <5>2. ~Before(rows, b, a)
            BY <4>1, <5>1, InOrder
          <5> QED
            BY <4>2, <5>2
        <4>3. CASE b \notin Left
          <5>1. PICK m \in 1 .. k - 1 : page[m] = b
            BY <4>3
          <5>2. ~Before(rows, a, b)
            <6>1. Before(rows, a, page[m]) <=> \E i \in 1 .. m - 1 : page[i] = a
              BY <2>5, <4>1 DEF IsPage
            <6>2. \A i \in 1 .. m - 1 : i \in 1 .. k - 1
              BY <2>4
            <6> QED
              BY <3>2, <5>1, <6>1, <6>2
          <5>3. a # b
            BY <3>2, <5>1
          <5> QED
            BY <4>1, <5>1, <5>2, <5>3, InOrder
        <4> QED
          BY <4>2, <4>3
      <3>5. ASSUME NEW n \in 1 .. k, NEW b \in rest
            PROVE  Before(rows, b, longer[n]) <=> \E m \in 1 .. n - 1 : longer[m] = b
        <4>1. \A m \in 1 .. n - 1 : m \in 1 .. k - 1 /\ longer[m] = page[m]
          BY <2>2, <3>3
        <4>2. CASE n = k
          BY <3>3, <3>4, <4>1, <4>2
        <4>3. CASE n # k
          <5>1. n \in 1 .. k - 1
            BY <2>2, <4>3
          <5>2. Before(rows, b, page[n]) <=> \E m \in 1 .. n - 1 : page[m] = b
            BY <2>5, <5>1 DEF IsPage
          <5> QED
            BY <3>3, <4>1, <5>1, <5>2
        <4> QED
          BY <4>2, <4>3
      <3>6. IsPage(longer, rest, rows, k)
        BY <3>3, <3>5 DEF IsPage
      <3> QED
        BY <2>2, <3>6
    <2>7. \A b \in rest : \E n \in 1 .. k - 1 : page[n] = b
      BY <2>6
    <2> QED
      BY <2>4, <2>5, <2>7
  <1> QED
    BY <1>1, <1>2

LEMMA PageFacts ==
    ASSUME NEW rows, RowsOK(rows), NEW after, NEW page, page = Page(rows, after)
    PROVE  \E k \in 0 .. PageRows :
              /\ IsPage(page, Rest(rows, after), rows, k) /\ DOMAIN page = 1 .. k /\ Len(page) = k
              /\ k < PageRows => \A b \in Rest(rows, after) : \E n \in 1 .. k : page[n] = b
  <1>1. PICK rest : rest = Rest(rows, after)
    OBVIOUS
  <1>2. rest \subseteq DOMAIN rows
    BY <1>1 DEF Rest
  <1>3. PageRows \in Nat
    BY CandidateConstants
  <1> DEFINE Fits(p) == /\ \A n \in DOMAIN p : \A b \in rest :
                               Before(rows, b, p[n]) <=> \E m \in 1 .. n - 1 : p[m] = b
                        /\ Len(p) < PageRows => rest = ToSet(p)
             Pages == UNION {[1 .. n -> rest] : n \in 0 .. PageRows}
  <1>4. page = CHOOSE p \in Pages : Fits(p)
    BY <1>1 DEF Page
  <1>5. \E p \in Pages : Fits(p)
    <2>5. PICK k \in 0 .. PageRows : \E p :
              IsPage(p, rest, rows, k) /\ (k < PageRows => \A b \in rest : \E n \in 1 .. k : p[n] = b)
      BY <1>2, PageExists
    <2>6. PICK p : IsPage(p, rest, rows, k) /\ (k < PageRows => \A b \in rest : \E n \in 1 .. k : p[n] = b)
      BY <2>5
    <2>1. /\ k \in 0 .. PageRows /\ p \in [1 .. k -> rest] /\ IsPage(p, rest, rows, k)
          /\ k < PageRows => \A b \in rest : \E n \in 1 .. k : p[n] = b
      BY <2>5, <2>6 DEF IsPage
    <2>2. DOMAIN p = 1 .. k /\ Len(p) = k /\ k \in Nat
      BY <1>3, <2>1
    <2>3. ToSet(p) = {p[n] : n \in 1 .. k}
      BY <2>2 DEF ToSet
    <2>4. Fits(p)
      BY <2>1, <2>2, <2>3 DEF IsPage
    <2> QED
      BY <2>1, <2>4
  <1>6. page \in Pages /\ Fits(page)
    <2> HIDE DEF Pages, Fits
    <2> QED
      BY <1>4, <1>5
  <1>7. PICK k \in 0 .. PageRows : page \in [1 .. k -> rest]
    BY <1>6
  <1>8. DOMAIN page = 1 .. k /\ Len(page) = k /\ k \in Nat
    BY <1>3, <1>7
  <1>9. IsPage(page, rest, rows, k)
    BY <1>6, <1>7, <1>8 DEF IsPage
  <1>10. k < PageRows => \A b \in rest : \E n \in 1 .. k : page[n] = b
    BY <1>6, <1>8 DEF ToSet
  <1> QED
    BY <1>1, <1>8, <1>9, <1>10

-----------------------------------------------------------------------------
\* The pool after the rows `seen`: of each kind in order, terms distinct, and a fit
\* row is there unless a row before it has its term or its kind is full.
PoolKind == {"word", "phrase"}
ItemsOf(rows, S) == {ItemOf(id, rows[id]) : id \in S}

Settled(pool, rows, id) ==
    LET stream == pool[rows[id].kind]
    IN \/ \E n \in DOMAIN stream : stream[n].id = id
       \/ \E k \in PoolKind : \E n \in DOMAIN pool[k] :
             pool[k][n].key = rows[id].key /\ Before(rows, pool[k][n].id, id)
       \/ Len(stream) = Limit /\ \A n \in DOMAIN stream : Before(rows, stream[n].id, id)

Ordered(pool, rows) ==
    /\ \A k \in PoolKind : \A n \in DOMAIN pool[k] : pool[k][n].kind = k
    /\ \A k \in PoolKind : \A m, n \in DOMAIN pool[k] :
          m < n => Before(rows, pool[k][m].id, pool[k][n].id)
    /\ \A k, l \in PoolKind : \A m \in DOMAIN pool[k] : \A n \in DOMAIN pool[l] :
          pool[k][m].key = pool[l][n].key => k = l /\ m = n
    /\ \A k \in PoolKind : Len(pool[k]) <= Limit

PoolFits(pool, rows, seen) ==
    /\ pool \in [PoolKind -> Seq(ItemsOf(rows, seen))]
    /\ Ordered(pool, rows)
    /\ \A id \in seen : rows[id].kind # "unfit" => Settled(pool, rows, id)

LEMMA ItemFields ==
    ASSUME NEW id, NEW row
    PROVE  /\ ItemOf(id, row).id = id /\ ItemOf(id, row).key = row.key
           /\ ItemOf(id, row).rank = row.rank /\ ItemOf(id, row).kind = row.kind
           /\ ItemOf(id, row).evidence = row.evidence /\ ItemOf(id, row).row = row
  BY DEF ItemOf

LEMMA ItemsFields ==
    ASSUME NEW rows, NEW S, NEW it \in ItemsOf(rows, S)
    PROVE  /\ it.id \in S /\ it = ItemOf(it.id, rows[it.id])
           /\ it.key = rows[it.id].key /\ it.kind = rows[it.id].kind
           /\ it.rank = rows[it.id].rank
  <1>1. PICK id \in S : it = ItemOf(id, rows[id])
    BY DEF ItemsOf
  <1> QED
    BY <1>1, ItemFields

LEMMA StreamItems ==
    ASSUME NEW rows, NEW S, NEW pool \in [PoolKind -> Seq(ItemsOf(rows, S))], NEW k \in PoolKind
    PROVE  /\ Len(pool[k]) \in Nat /\ DOMAIN pool[k] = 1 .. Len(pool[k])
           /\ pool[k] \in Seq(ItemsOf(rows, S))
           /\ \A n \in DOMAIN pool[k] : pool[k][n] \in ItemsOf(rows, S)
  <1>1. PICK stream \in Seq(ItemsOf(rows, S)) : stream = pool[k]
    OBVIOUS
  <1> QED
    BY <1>1, LenProperties, ElementOfSeq

LEMMA AddRowFits ==
    ASSUME NEW rows, RowsOK(rows), NEW seen, seen \subseteq DOMAIN rows,
           NEW x \in DOMAIN rows, \A b \in seen : Before(rows, b, x),
           NEW pool, PoolFits(pool, rows, seen)
    PROVE  PoolFits(AddRow(pool, ItemOf(x, rows[x])), rows, seen \cup {x})
  <1>1. PICK it : it = ItemOf(x, rows[x])
    OBVIOUS
  <1>2. it.id = x /\ it.key = rows[x].key /\ it.kind = rows[x].kind
    BY <1>1, ItemFields
  <1>3. Limit \in Nat /\ rows[x].kind \in {"word", "phrase", "unfit"}
    BY RowTypes, CandidateConstants
  <1> DEFINE T == ItemsOf(rows, seen)
             U == ItemsOf(rows, seen \cup {x})
             Taken == \E k \in PoolKind : \E n \in DOMAIN pool[k] : pool[k][n].key = it.key
  <1>4. T \subseteq U /\ it \in U
    BY <1>1 DEF ItemsOf
  <1>5. pool \in [PoolKind -> Seq(T)] /\ Ordered(pool, rows)
    BY DEF PoolFits
  <1>6. \A k \in PoolKind :
           /\ Len(pool[k]) \in Nat /\ DOMAIN pool[k] = 1 .. Len(pool[k]) /\ pool[k] \in Seq(T)
           /\ \A n \in DOMAIN pool[k] :
                 pool[k][n] \in T /\ pool[k][n].id \in seen /\ Before(rows, pool[k][n].id, x)
    <2>1. ASSUME NEW k \in PoolKind
          PROVE  /\ Len(pool[k]) \in Nat /\ DOMAIN pool[k] = 1 .. Len(pool[k]) /\ pool[k] \in Seq(T)
                 /\ \A n \in DOMAIN pool[k] : pool[k][n] \in T
      BY <1>5, StreamItems
    <2> QED
      BY <2>1, ItemsFields
  <1>7. \A k \in PoolKind : pool[k] \in Seq(U)
    <2> HIDE DEF T, U
    <2>1. Seq(T) \subseteq Seq(U)
      BY <1>4
    <2> QED
      BY <1>6, <2>1
  <1>8. Pooled20k(pool) = {pool[k][n] : k \in {"word"}, n \in DOMAIN pool.word}
                             \cup {pool[k][n] : k \in {"phrase"}, n \in DOMAIN pool.phrase}
    BY DEF Pooled20k, ToSet
  <1>9. (\E other \in Pooled20k(pool) : other.key = it.key) <=> Taken
    BY <1>8 DEF PoolKind
  <1> DEFINE Skipped == \/ it.kind = "unfit" \/ Len(pool[it.kind]) >= Limit \/ Taken
  <1>10. CASE Skipped
    <2>1. AddRow(pool, it) = pool
      BY <1>9, <1>10 DEF AddRow
    <2>2. pool \in [PoolKind -> Seq(U)]
      BY <1>5, <1>7
    <2>3. rows[x].kind # "unfit" => Settled(pool, rows, x)
      <3>1. SUFFICES ASSUME rows[x].kind # "unfit" PROVE Settled(pool, rows, x)
        OBVIOUS
      <3>2. rows[x].kind \in PoolKind
        BY <1>3, <3>1 DEF PoolKind
      <3>3. CASE Len(pool[it.kind]) >= Limit
        <4>1. Len(pool[rows[x].kind]) = Limit
          <5>1. Len(pool[rows[x].kind]) <= Limit /\ Len(pool[rows[x].kind]) \in Nat
            BY <1>5, <1>6, <3>2 DEF Ordered
          <5> QED
            BY <1>2, <1>3, <3>3, <5>1
        <4> QED
          BY <1>6, <3>2, <4>1 DEF Settled
      <3>4. CASE Taken
        BY <1>2, <1>6, <3>4 DEF Settled
      <3> QED
        BY <1>2, <1>10, <3>1, <3>3, <3>4
    <2>4. \A id \in seen \cup {x} : rows[id].kind # "unfit" => Settled(pool, rows, id)
      BY <2>3 DEF PoolFits
    <2> QED
      BY <1>1, <1>5, <2>1, <2>2, <2>4 DEF PoolFits
  <1>11. CASE ~Skipped
    <2>1. PICK kind \in PoolKind : kind = it.kind
      BY <1>2, <1>3, <1>11 DEF PoolKind
    <2>2. PICK q : q = AddRow(pool, it)
      OBVIOUS
    <2>3. q = [pool EXCEPT ![kind] = Append(pool[kind], it)]
      BY <1>9, <1>11, <2>1, <2>2 DEF AddRow
    <2>4. PICK c \in Nat : c = Len(pool[kind])
      BY <1>6
    <2>5. PICK long : long = Append(pool[kind], it)
      OBVIOUS
    <2>6. /\ long \in Seq(U) /\ Len(long) = c + 1 /\ DOMAIN long = 1 .. (c + 1)
          /\ long[c + 1] = it /\ \A n \in 1 .. c : long[n] = pool[kind][n]
      <3>1. PICK old \in Seq(U) : old = pool[kind]
        BY <1>7
      <3> QED
        BY <1>4, <2>4, <2>5, <3>1, AppendProperties, LenProperties
    <2>7. q[kind] = long /\ DOMAIN q = PoolKind /\ \A k \in PoolKind : k # kind => q[k] = pool[k]
      BY <1>5, <2>3, <2>5
    <2>8. q \in [PoolKind -> Seq(U)]
      BY <1>5, <1>7, <2>3, <2>5, <2>6
    <2>9. DOMAIN pool[kind] = 1 .. c
      BY <1>6, <2>4
    <2>10. \A k \in PoolKind : \A n \in DOMAIN pool[k] : n \in DOMAIN q[k] /\ q[k][n] = pool[k][n]
      BY <2>6, <2>7, <2>9
    <2>11. \A k \in PoolKind : \A n \in DOMAIN q[k] :
              \/ n \in DOMAIN pool[k] /\ q[k][n] = pool[k][n]
              \/ k = kind /\ n = c + 1 /\ q[k][n] = it
      <3>1. \A n \in 1 .. (c + 1) : n \in 1 .. c \/ n = c + 1
        OBVIOUS
      <3> QED
        BY <2>6, <2>7, <2>9, <3>1
    <2>12. \A k \in PoolKind : \A n \in DOMAIN q[k] : q[k][n].kind = k
      BY <1>5, <2>1, <2>11 DEF Ordered
    <2>13. ASSUME NEW k \in PoolKind, NEW m \in DOMAIN q[k], NEW n \in DOMAIN q[k], m < n
           PROVE  Before(rows, q[k][m].id, q[k][n].id)
      <3>1. CASE n \in DOMAIN pool[k] /\ q[k][n] = pool[k][n]
        <4>1. m \in DOMAIN pool[k] /\ q[k][m] = pool[k][m]
          <5>1. CASE k = kind
            <6>1. m \in 1 .. (c + 1) /\ n \in 1 .. c
              BY <2>6, <2>7, <2>9, <2>13, <3>1, <5>1
            <6>2. m \in 1 .. c
              BY <2>13, <6>1
            <6> QED
              BY <2>9, <2>10, <5>1, <6>2
          <5>2. CASE k # kind
            BY <2>7, <2>13, <5>2
          <5> QED
            BY <5>1, <5>2
        <4> QED
          BY <1>5, <2>13, <3>1, <4>1 DEF Ordered
      <3>2. CASE k = kind /\ n = c + 1 /\ q[k][n] = it
        <4>1. m \in 1 .. (c + 1)
          BY <2>6, <2>7, <3>2
        <4>2. m \in DOMAIN pool[k] /\ q[k][m] = pool[k][m]
          BY <2>9, <2>10, <2>13, <3>2, <4>1
        <4> QED
          BY <1>2, <1>6, <3>2, <4>2
      <3> QED
        BY <2>11, <3>1, <3>2
    <2>14. ASSUME NEW k \in PoolKind, NEW l \in PoolKind, NEW m \in DOMAIN q[k], NEW n \in DOMAIN q[l],
                  q[k][m].key = q[l][n].key
           PROVE  k = l /\ m = n
      <3>1. \A i \in PoolKind : \A j \in DOMAIN pool[i] : pool[i][j].key # it.key
        BY <1>11
      <3>2. CASE m \in DOMAIN pool[k] /\ q[k][m] = pool[k][m]
        <4>1. q[l][n].key # it.key
          BY <2>14, <3>1, <3>2
        <4>2. n \in DOMAIN pool[l] /\ q[l][n] = pool[l][n]
          BY <2>11, <4>1
        <4> QED
          BY <1>5, <2>14, <3>2, <4>2 DEF Ordered
      <3>3. CASE k = kind /\ m = c + 1 /\ q[k][m] = it
        <4>1. q[l][n].key = it.key
          BY <2>14, <3>3
        <4>2. l = kind /\ n = c + 1
          BY <2>11, <3>1, <4>1
        <4> QED
          BY <3>3, <4>2
      <3> QED
        BY <2>11, <3>2, <3>3
    <2>15. \A k \in PoolKind : Len(q[k]) <= Limit
      <3>1. c < Limit
        BY <1>3, <1>11, <2>1, <2>4
      <3>2. c + 1 <= Limit
        BY <1>3, <3>1
      <3> QED
        BY <1>5, <2>6, <2>7, <3>2 DEF Ordered
    <2>16. Ordered(q, rows)
      BY <2>12, <2>13, <2>14, <2>15 DEF Ordered
    <2>17. ASSUME NEW id \in seen \cup {x}, rows[id].kind # "unfit" PROVE Settled(q, rows, id)
      <3>1. CASE id = x
        <4>1. c + 1 \in DOMAIN q[rows[x].kind] /\ q[rows[x].kind][c + 1].id = x
          BY <1>2, <2>1, <2>6, <2>7
        <4> QED
          BY <3>1, <4>1 DEF Settled
      <3>2. CASE id # x
        <4>1. id \in seen /\ Settled(pool, rows, id)
          BY <2>17, <3>2 DEF PoolFits
        <4>2. PICK k \in PoolKind : k = rows[id].kind
          BY <2>17, RowTypes DEF PoolKind
        <4>3. CASE \E n \in DOMAIN pool[k] : pool[k][n].id = id
          BY <2>10, <4>2, <4>3 DEF Settled
        <4>4. CASE \E l \in PoolKind : \E n \in DOMAIN pool[l] :
                      pool[l][n].key = rows[id].key /\ Before(rows, pool[l][n].id, id)
          <5>3. PICK l \in PoolKind : \E n \in DOMAIN pool[l] :
                      pool[l][n].key = rows[id].key /\ Before(rows, pool[l][n].id, id)
            BY <4>4
          <5>1. PICK n \in DOMAIN pool[l] :
                      pool[l][n].key = rows[id].key /\ Before(rows, pool[l][n].id, id)
            BY <5>3
          <5>2. n \in DOMAIN q[l] /\ q[l][n].key = rows[id].key /\ Before(rows, q[l][n].id, id)
            BY <2>10, <5>1
          <5> QED
            BY <5>1, <5>2 DEF Settled
        <4>5. CASE Len(pool[k]) = Limit /\ \A n \in DOMAIN pool[k] : Before(rows, pool[k][n].id, id)
          <5>1. k # kind
            BY <1>3, <1>11, <2>1, <4>5
          <5>2. q[k] = pool[k]
            BY <2>7, <5>1
          <5> QED
            BY <4>2, <4>5, <5>2 DEF Settled
        <4> QED
          BY <4>1, <4>2, <4>3, <4>4, <4>5 DEF Settled
      <3> QED
        BY <3>1, <3>2
    <2> QED
      BY <1>1, <2>2, <2>8, <2>16, <2>17 DEF PoolFits
  <1> QED
    BY <1>10, <1>11

-----------------------------------------------------------------------------
\* The rows the scan has been over when it stands at `after`.
Ranked(rows) == {id \in DOMAIN rows : rows[id].rank # NoRank}
Scanned(rows, after) == Ranked(rows) \ Rest(rows, after)
Stands(rows, after) == after = <<>> \/ \E id \in DOMAIN rows : after = <<rows[id].rank, id>>

LEMMA RestAfter ==
    ASSUME NEW rows, RowsOK(rows), NEW last \in DOMAIN rows, NEW id \in Ranked(rows)
    PROVE  id \in Rest(rows, <<rows[last].rank, last>>) <=> Before(rows, last, id)
  <1>1. id \in DOMAIN rows /\ rows[id].rank # NoRank
    BY DEF Ranked
  <1>2. /\ rows[id].rank \in Nat /\ rows[last].rank \in Nat /\ id \in Nat /\ last \in Nat
    BY <1>1, RowTypes
  <1>3. PICK after : after = <<rows[last].rank, last>>
    OBVIOUS
  <1>4. after # <<>> /\ after[1] = rows[last].rank /\ after[2] = last
    BY <1>3
  <1>5. id \in Rest(rows, after) <=>
           rows[id].rank > after[1] \/ (rows[id].rank = after[1] /\ id > after[2])
    BY <1>1, <1>4 DEF Rest
  <1> QED
    BY <1>2, <1>3, <1>4, <1>5 DEF Before

LEMMA RestFollows ==
    ASSUME NEW rows, RowsOK(rows), NEW after, Stands(rows, after),
           NEW id \in Rest(rows, after), NEW b \in Scanned(rows, after)
    PROVE  Before(rows, b, id)
  <1>1. id \in Ranked(rows) /\ b \in Ranked(rows) /\ b \notin Rest(rows, after)
    BY DEF Rest, Scanned, Ranked
  <1>2. after # <<>>
    BY <1>1 DEF Rest, Ranked
  <1>3. PICK last \in DOMAIN rows : after = <<rows[last].rank, last>>
    BY <1>2 DEF Stands
  <1>4. Before(rows, last, id) /\ ~Before(rows, last, b)
    BY <1>1, <1>3, RestAfter
  <1>5. id \in DOMAIN rows /\ b \in DOMAIN rows
    BY <1>1 DEF Ranked
  <1> QED
    BY <1>4, <1>5, InOrder

Pools == INSTANCE LeftFolds WITH Op <- AddRow

LEMMA PoolsSame ==
    \A base, seq : Pools!FoldLeft(AddRow, base, seq) = FoldLeft(AddRow, base, seq)
  BY DEF FoldLeft, Pools!FoldLeft, MapThenFoldSet, Pools!MapThenFoldSet, Max, Pools!Max

LEMMA AddPageFits ==
    ASSUME NEW rows, RowsOK(rows), NEW after, Stands(rows, after),
           NEW pool, PoolFits(pool, rows, Scanned(rows, after)),
           NEW page, page = Page(rows, after), page # <<>>,
           NEW last, last = page[Len(page)], NEW next, next = <<rows[last].rank, last>>
    PROVE  /\ Stands(rows, next)
           /\ PoolFits(AddPage(pool, rows, page), rows, Scanned(rows, next))
  <1>1. PICK rest : rest = Rest(rows, after)
    OBVIOUS
  <1>2. PICK old : old = Scanned(rows, after)
    OBVIOUS
  <1>3. /\ rest \subseteq Ranked(rows) /\ old = Ranked(rows) \ rest
        /\ Ranked(rows) \subseteq DOMAIN rows
        /\ \A id \in rest : \A b \in old : Before(rows, b, id)
    BY <1>1, <1>2, RestFollows DEF Rest, Scanned, Ranked
  <1>4. PICK k \in 0 .. PageRows :
           IsPage(page, rest, rows, k) /\ DOMAIN page = 1 .. k /\ Len(page) = k
    BY <1>1, PageFacts
  <1>5. k \in Nat /\ page \in [1 .. k -> rest]
    BY <1>4, CandidateConstants DEF IsPage
  <1>6. k # 0
    BY <1>5
  <1>7. last = page[k] /\ last \in rest /\ k \in 1 .. k
    BY <1>4, <1>5, <1>6
  <1>8. last \in DOMAIN rows
    BY <1>3, <1>7
  <1>9. \A n \in 1 .. k : \A m \in 1 .. n - 1 : m \in 1 .. k /\ Before(rows, page[m], page[n])
    <2>1. SUFFICES ASSUME NEW n \in 1 .. k, NEW m \in 1 .. n - 1
                   PROVE  m \in 1 .. k /\ Before(rows, page[m], page[n])
      OBVIOUS
    <2>2. m \in 1 .. k
      BY <1>5
    <2>3. page[m] \in rest
      BY <1>5, <2>2
    <2> QED
      BY <1>4, <2>2, <2>3 DEF IsPage
  <1> DEFINE Read(i) == old \cup {page[m] : m \in 1 .. i}
             A == [i \in 0 .. k |-> {p \in [PoolKind -> Seq(ItemsOf(rows, DOMAIN rows))] :
                                        PoolFits(p, rows, Read(i))}]
             list == [n \in DOMAIN page |-> ItemOf(page[n], rows[page[n]])]
  <1>10. \A i \in 0 .. k : Read(i) \subseteq DOMAIN rows
    <2>1. \A i \in 0 .. k : \A m \in 1 .. i : page[m] \in rest
      BY <1>5
    <2> QED
      BY <1>3, <2>1
  <1>11. ASSUME NEW i \in 0 .. k, NEW p, PoolFits(p, rows, Read(i)) PROVE p \in A[i]
    <2>1. PICK S : S = Read(i) /\ S \subseteq DOMAIN rows
      BY <1>10
    <2>2. p \in [PoolKind -> Seq(ItemsOf(rows, S))]
      BY <1>11, <2>1 DEF PoolFits
    <2>3. ItemsOf(rows, S) \subseteq ItemsOf(rows, DOMAIN rows)
      BY <2>1 DEF ItemsOf
    <2>4. Seq(ItemsOf(rows, S)) \subseteq Seq(ItemsOf(rows, DOMAIN rows))
      BY <2>3
    <2>5. p \in [PoolKind -> Seq(ItemsOf(rows, DOMAIN rows))]
      BY <2>2, <2>4
    <2> QED
      BY <1>11, <2>5
  <1>12. pool \in A[0]
    <2>1. Read(0) = old
      OBVIOUS
    <2> HIDE DEF A, Read
    <2> QED
      BY <1>2, <1>5, <1>11, <2>1
  <1>13. ASSUME NEW i \in 1 .. k, NEW a \in A[i - 1] PROVE AddRow(a, list[i]) \in A[i]
    <2>1. i - 1 \in 0 .. k /\ i \in 0 .. k
      BY <1>5
    <2>2. PoolFits(a, rows, Read(i - 1))
      BY <2>1
    <2>3. page[i] \in rest /\ page[i] \in DOMAIN rows /\ list[i] = ItemOf(page[i], rows[page[i]])
      BY <1>3, <1>4, <1>5
    <2>4. \A b \in Read(i - 1) : Before(rows, b, page[i])
      BY <1>3, <1>9, <2>3
    <2>5. Read(i - 1) \cup {page[i]} = Read(i)
      <3>1. 1 .. i = (1 .. (i - 1)) \cup {i}
        BY <1>5
      <3> QED
        BY <3>1
    <2>6. Read(i - 1) \subseteq DOMAIN rows
      BY <1>10, <2>1
    <2> HIDE DEF A, Read, list
    <2>7. PoolFits(AddRow(a, list[i]), rows, Read(i))
      BY <2>2, <2>3, <2>4, <2>5, <2>6, AddRowFits
    <2> QED
      BY <1>11, <2>1, <2>7
  <1>14. DOMAIN list = 1 .. k
    BY <1>4
  <1>15. AddPage(pool, rows, page) \in A[k]
    <2>1. AddPage(pool, rows, page) = FoldLeft(AddRow, pool, list)
      BY DEF AddPage
    <2> HIDE DEF A, list
    <2>2. Pools!Advances(A, list, k)
      BY <1>13 DEF Pools!Advances
    <2> QED
      BY <1>5, <1>12, <1>14, <2>1, <2>2, Pools!FoldAdvances, PoolsSame
  <1>16. PoolFits(AddPage(pool, rows, page), rows, Read(k))
    BY <1>5, <1>15
  <1>17. Scanned(rows, next) = Read(k)
    <2>1. ASSUME NEW b \in Ranked(rows)
          PROVE  b \in Rest(rows, next) <=> b \notin Read(k)
      <3>1. b \in Rest(rows, next) <=> Before(rows, last, b)
        BY <1>8, RestAfter
      <3>2. b \in DOMAIN rows
        BY <1>3
      <3>3. CASE b \in old
        <4>1. Before(rows, b, last)
          BY <1>3, <1>7, <3>3
        <4> QED
          BY <1>8, <3>1, <3>2, <3>3, <4>1, InOrder
      <3>4. CASE b \in rest
        <4>1. Before(rows, b, last) <=> \E m \in 1 .. k - 1 : page[m] = b
          BY <1>4, <1>7, <3>4 DEF IsPage
        <4>2. (\E m \in 1 .. k : page[m] = b) <=> b = last \/ \E m \in 1 .. k - 1 : page[m] = b
          <5>1. 1 .. k = (1 .. k - 1) \cup {k}
            BY <1>5, <1>6
          <5> QED
            BY <1>7, <5>1
        <4>3. b \in Read(k) <=> b = last \/ Before(rows, b, last)
          BY <1>3, <3>4, <4>1, <4>2
        <4> QED
          BY <1>8, <3>1, <3>2, <4>3, InOrder
      <3> QED
        BY <1>3, <3>3, <3>4
    <2>2. Read(k) \subseteq Ranked(rows)
      <3>1. \A m \in 1 .. k : page[m] \in rest
        BY <1>5
      <3> QED
        BY <1>3, <3>1
    <2> HIDE DEF Read
    <2> QED
      BY <2>1, <2>2 DEF Scanned
  <1> QED
    BY <1>8, <1>16, <1>17 DEF Stands

\* Before the first page, and after the last.
LEMMA NothingScanned ==
    ASSUME NEW rows
    PROVE  Stands(rows, <<>>) /\ PoolFits(NoPool, rows, Scanned(rows, <<>>))
  <1>1. Rest(rows, <<>>) = Ranked(rows)
    BY DEF Rest, Ranked
  <1>2. Scanned(rows, <<>>) = {}
    BY <1>1 DEF Scanned
  <1>3. NoPool \in [PoolKind -> Seq(ItemsOf(rows, {}))]
    <2>1. <<>> \in Seq(ItemsOf(rows, {}))
      OBVIOUS
    <2>2. NoPool = [k \in PoolKind |-> <<>>]
      BY DEF NoPool, PoolKind
    <2> QED
      BY <2>1, <2>2
  <1>4. Limit \in Nat
    BY CandidateConstants
  <1>5. \A k \in PoolKind : NoPool[k] = <<>> /\ DOMAIN NoPool[k] = {} /\ Len(NoPool[k]) = 0
    BY DEF NoPool, PoolKind
  <1>6. Ordered(NoPool, rows)
    BY <1>4, <1>5 DEF Ordered
  <1> QED
    BY <1>2, <1>3, <1>6 DEF Stands, PoolFits

LEMMA AllScanned ==
    ASSUME NEW rows, RowsOK(rows), NEW after, Page(rows, after) = <<>>
    PROVE  Scanned(rows, after) = Ranked(rows)
  <1>1. PICK k \in 0 .. PageRows :
           /\ Len(Page(rows, after)) = k
           /\ k < PageRows => \A b \in Rest(rows, after) : \E n \in 1 .. k : Page(rows, after)[n] = b
    BY PageFacts
  <1>2. k = 0 /\ PageRows \in Nat \ {0}
    BY <1>1, CandidateConstants
  <1>3. Rest(rows, after) = {}
    BY <1>1, <1>2
  <1> QED
    BY <1>3 DEF Scanned

-----------------------------------------------------------------------------
\* What stands at rank n of a selection, and what the interleaving makes.
Rises(n, count) == Due(n, count) > Due(n - 1, count)
PlacedAt(words, phrases, count, n) ==
    IF Rises(n, count) THEN phrases[Due(n, count)] ELSE words[n - Due(n, count)]

LEMMA NextShare ==
    ASSUME NEW n \in 1 .. Limit, NEW count \in 0 .. Limit
    PROVE  /\ Due(n, count) \in Nat /\ Due(n - 1, count) \in Nat
           /\ Due(n, count) = Due(n - 1, count) + (IF Rises(n, count) THEN 1 ELSE 0)
           /\ Due(n, count) <= count /\ n - Due(n, count) <= Limit - count
           /\ Due(n, count) <= n
           /\ Rises(n, count) => Due(n, count) \in 1 .. count
           /\ ~Rises(n, count) => n - Due(n, count) \in 1 .. Limit - count
  <1>1. Limit \in Nat /\ n \in Nat /\ count \in Nat
    BY CandidateConstants
  <1>2. PICK b : b = Due(n, count)
    OBVIOUS
  <1>3. PICK a : a = Due(n - 1, count)
    OBVIOUS
  <1>4. n - 1 \in 0 .. Limit /\ n \in 0 .. Limit /\ 0 \in 0 .. Limit /\ Limit \in 0 .. Limit
    BY <1>1
  <1>5. a \in Nat /\ b \in Nat /\ a <= b /\ b <= a + 1
    <2>1. a \in Nat /\ b \in Nat /\ a <= b /\ b <= a + (n - (n - 1))
      BY <1>1, <1>2, <1>3, <1>4, Shares
    <2> QED
      BY <1>1, <2>1
  <1>6. a <= n - 1
    <2>1. a <= Due(0, count) + (n - 1 - 0)
      BY <1>1, <1>3, <1>4, Shares
    <2> QED
      BY <1>1, <1>5, <2>1, SharesEnd
  <1>7. b <= count /\ count <= b + (Limit - n)
    <2>1. b <= Due(Limit, count) /\ Due(Limit, count) <= b + (Limit - n)
      BY <1>1, <1>2, <1>4, Shares
    <2> QED
      BY <2>1, SharesEnd
  <1>8. Rises(n, count) <=> b > a
    BY <1>2, <1>3 DEF Rises
  <1> QED
    BY <1>1, <1>2, <1>3, <1>5, <1>6, <1>7, <1>8

Places == INSTANCE LeftFolds WITH Op <- Place

LEMMA PlacesSame ==
    \A base, seq : Places!FoldLeft(Place, base, seq) = FoldLeft(Place, base, seq)
  BY DEF FoldLeft, Places!FoldLeft, MapThenFoldSet, Places!MapThenFoldSet, Max, Places!Max

LEMMA InterleavedIs ==
    ASSUME NEW count \in 0 .. Limit, NEW V, NEW words \in Seq(V), NEW phrases \in Seq(V),
           Len(words) = Limit - count, Len(phrases) = count
    PROVE  Interleaved(words, phrases) = [n \in 1 .. Limit |-> PlacedAt(words, phrases, count, n)]
  <1>1. Limit \in Nat /\ count \in Nat
    BY CandidateConstants
  <1> DEFINE Part20k(i) == [n \in 1 .. i |-> PlacedAt(words, phrases, count, n)]
             State(i) == [words |-> words, phrases |-> phrases, used |-> Due(i, count),
                          items |-> Part20k(i)]
             A == [i \in 0 .. Limit |-> {State(i)}]
             list == [n \in 1 .. Limit |-> n]
  <1>2. ASSUME NEW i \in 1 .. Limit PROVE Place(State(i - 1), i) = State(i)
    <2>1. PICK a : a = Due(i - 1, count)
      OBVIOUS
    <2>2. PICK b : b = Due(i, count)
      OBVIOUS
    <2>3. /\ a \in Nat /\ b \in Nat /\ b = a + (IF Rises(i, count) THEN 1 ELSE 0)
          /\ b <= count /\ i - b <= Limit - count
      BY <2>1, <2>2, NextShare
    <2>4. PICK v : v = PlacedAt(words, phrases, count, i)
      OBVIOUS
    <2>5. (i * Len(phrases)) \div Limit = b
      BY <2>2 DEF Due
    <2>6. PICK before : before = Part20k(i - 1)
      OBVIOUS
    <2>7. before = [n \in 1 .. (i - 1) |-> PlacedAt(words, phrases, count, n)]
      BY <2>6
    <2>8. before \in Seq({PlacedAt(words, phrases, count, n) : n \in 1 .. i}) /\ Len(before) = i - 1
      <3>1. PICK k \in Nat : k = i - 1 /\ 1 .. k \subseteq 1 .. i
        BY <1>1
      <3>2. PICK P : P = {PlacedAt(words, phrases, count, n) : n \in 1 .. i}
        OBVIOUS
      <3>3. \A n \in 1 .. k : PlacedAt(words, phrases, count, n) \in P
        BY <3>1, <3>2
      <3>4. before = [n \in 1 .. k |-> PlacedAt(words, phrases, count, n)]
        BY <2>7, <3>1
      <3>5. before \in Seq(P) /\ Len(before) = k
        BY <3>3, <3>4
      <3> QED
        BY <3>1, <3>2, <3>5
    <2>9. Append(before, v) = Part20k(i)
      <3>1. PICK long : long = Append(before, v)
        OBVIOUS
      <3>2. v \in {PlacedAt(words, phrases, count, n) : n \in 1 .. i}
        BY <2>4
      <3>3. /\ DOMAIN long = 1 .. i /\ long = [n \in 1 .. i |-> long[n]]
            /\ long[i] = v /\ \A n \in 1 .. (i - 1) : long[n] = before[n]
        <4>1. /\ long \in Seq({PlacedAt(words, phrases, count, n) : n \in 1 .. i})
              /\ Len(long) = (i - 1) + 1 /\ long[(i - 1) + 1] = v
              /\ \A n \in 1 .. (i - 1) : long[n] = before[n]
          BY <2>8, <3>1, <3>2, AppendProperties
        <4>2. DOMAIN long = 1 .. i
          BY <4>1, LenProperties
        <4>3. long = [n \in 1 .. i |-> long[n]]
          BY <4>1, <4>2
        <4>4. (i - 1) + 1 = i
          BY <1>1
        <4>5. long[i] = v
          BY <4>1, <4>4
        <4> QED
          BY <4>1, <4>2, <4>3, <4>5
      <3>4. ASSUME NEW n \in 1 .. i PROVE long[n] = PlacedAt(words, phrases, count, n)
        <4>1. CASE n = i
          BY <2>4, <3>3, <4>1
        <4>2. CASE n # i
          <5>1. n \in 1 .. (i - 1)
            BY <4>2
          <5> QED
            BY <2>7, <3>3, <5>1
        <4> QED
          BY <4>1, <4>2
      <3> HIDE DEF PlacedAt
      <3> QED
        BY <3>1, <3>3, <3>4
    <2>10. PICK s : s = State(i - 1)
      OBVIOUS
    <2>11. s = [words |-> words, phrases |-> phrases, used |-> a, items |-> before]
      BY <2>1, <2>6, <2>10
    <2> HIDE DEF Part20k
    <2>12. CASE Rises(i, count)
      <3>4. v = phrases[b]
        BY <2>2, <2>4, <2>12 DEF PlacedAt
      <3>5. b = a + 1 /\ b > a /\ a < Len(phrases)
        BY <1>1, <2>3, <2>12
      <3>1. b = a + 1 /\ b > a /\ a < Len(phrases) /\ v = phrases[a + 1]
        BY <3>4, <3>5
      <3>2. Place(s, i) = [s EXCEPT !.items = Append(@, s.phrases[s.used + 1]), !.used = @ + 1]
        BY <2>5, <2>11, <3>1 DEF Place
      <3>3. Place(s, i) = [words |-> words, phrases |-> phrases, used |-> a + 1,
                           items |-> Append(before, v)]
        BY <2>11, <3>1, <3>2
      <3> QED
        BY <2>2, <2>9, <2>10, <3>1, <3>3
    <2>13. CASE ~Rises(i, count)
      <3>4. v = words[i - b]
        BY <2>2, <2>4, <2>13 DEF PlacedAt
      <3>5. b = a /\ ~(b > a) /\ ~(i - 1 - a >= Len(words))
        BY <1>1, <2>3, <2>13
      <3>1. b = a /\ ~(b > a) /\ ~(i - 1 - a >= Len(words)) /\ v = words[i - a]
        BY <3>4, <3>5
      <3>2. Place(s, i) = [s EXCEPT !.items = Append(@, s.words[i - s.used])]
        BY <2>5, <2>11, <3>1 DEF Place
      <3>3. Place(s, i) = [words |-> words, phrases |-> phrases, used |-> a,
                           items |-> Append(before, v)]
        BY <2>11, <3>1, <3>2
      <3> QED
        BY <2>2, <2>9, <2>10, <3>1, <3>3
    <2> QED
      BY <2>12, <2>13
  <1>3. State(0) = [words |-> words, phrases |-> phrases, used |-> 0, items |-> <<>>]
    <2>1. Part20k(0) = <<>>
      OBVIOUS
    <2> HIDE DEF Part20k
    <2> QED
      BY <2>1, SharesEnd
  <1>4. FoldLeft(Place, State(0), list) = State(Limit)
    <2>1. DOMAIN list = 1 .. Limit /\ \A i \in 1 .. Limit : list[i] = i
      OBVIOUS
    <2>2. State(0) \in A[0] /\ A[Limit] = {State(Limit)}
      <3> HIDE DEF State
      <3> QED
        BY <1>1
    <2>3. Places!Advances(A, list, Limit)
      <3>1. ASSUME NEW i \in 1 .. Limit, NEW a \in A[i - 1] PROVE Place(a, list[i]) \in A[i]
        <4>1. i - 1 \in 0 .. Limit /\ i \in 0 .. Limit
          BY <1>1
        <4> HIDE DEF State
        <4>2. a = State(i - 1) /\ A[i] = {State(i)}
          BY <4>1
        <4> QED
          BY <1>2, <2>1, <4>2
      <3> HIDE DEF A, list
      <3> QED
        BY <3>1 DEF Places!Advances
    <2> HIDE DEF A, list, State
    <2> QED
      BY <1>1, <2>1, <2>2, <2>3, Places!FoldAdvances, PlacesSame
  <1>5. Interleaved(words, phrases) = FoldLeft(Place, State(0), list).items
    <2> HIDE DEF State
    <2> QED
      BY <1>3 DEF Interleaved
  <1>6. State(Limit).items = Part20k(Limit)
    <2> HIDE DEF Part20k
    <2> QED
      OBVIOUS
  <1> HIDE DEF State
  <1> QED
    BY <1>4, <1>5, <1>6

\* Of its first n entries the due ones are phrases.
LEMMA SharesCounted ==
    ASSUME NEW count \in 0 .. Limit, NEW items,
           \A n \in 1 .. Limit : items[n].kind = "phrase" <=> Rises(n, count)
    PROVE  \A n \in 0 .. Limit : CountOf(items, n, "phrase") = Due(n, count)
  <1>1. Limit \in Nat
    BY CandidateConstants
  <1> DEFINE Those(n) == {m \in 1 .. n : items[m].kind = "phrase"}
             Good(n) == IsFiniteSet(Those(n)) /\ Cardinality(Those(n)) = Due(n, count)
             Bad == {n \in Nat : n <= Limit /\ ~Good(n)}
  <1>2. Bad = {}
    <2>1. SUFFICES ASSUME Bad # {} PROVE FALSE
      OBVIOUS
    <2>2. PICK n \in Bad : \A m \in Bad : n <= m
      <3>1. Bad \subseteq Nat
        OBVIOUS
      <3> HIDE DEF Bad
      <3> QED
        BY <2>1, <3>1, LeastNumber
    <2>3. n \in Nat /\ n <= Limit /\ ~Good(n)
      BY <2>2
    <2>4. n # 0
      <3>1. Those(0) = {}
        OBVIOUS
      <3> HIDE DEF Those
      <3>2. Good(0)
        BY <3>1, FS_EmptySet, SharesEnd
      <3> QED
        BY <2>3, <3>2
    <2>5. n \in 1 .. Limit /\ n - 1 \in Nat /\ n - 1 <= Limit
      BY <1>1, <2>3, <2>4
    <2>6. Good(n - 1)
      <3>1. n - 1 \notin Bad
        <4> HIDE DEF Bad
        <4> QED
          BY <2>2, <2>3, <2>5
      <3> HIDE DEF Good
      <3> QED
        BY <2>5, <3>1
    <2>7. Due(n, count) = Due(n - 1, count) + (IF Rises(n, count) THEN 1 ELSE 0)
          /\ Due(n - 1, count) \in Nat
      BY <2>5, NextShare
    <2>8. CASE Rises(n, count)
      <3>1. Those(n) = Those(n - 1) \cup {n} /\ n \notin Those(n - 1)
        <4>1. 1 .. n = (1 .. n - 1) \cup {n} /\ n \notin 1 .. n - 1
          BY <2>5
        <4>2. items[n].kind = "phrase"
          BY <2>5, <2>8
        <4> QED
          BY <4>1, <4>2
      <3> HIDE DEF Those
      <3>2. IsFiniteSet(Those(n)) /\ Cardinality(Those(n)) = Cardinality(Those(n - 1)) + 1
        BY <2>6, <3>1, FS_AddElement
      <3> QED
        BY <2>3, <2>6, <2>7, <2>8, <3>2
    <2>9. CASE ~Rises(n, count)
      <3>1. Those(n) = Those(n - 1)
        <4>1. 1 .. n = (1 .. n - 1) \cup {n}
          BY <2>5
        <4>2. items[n].kind # "phrase"
          BY <2>5, <2>9
        <4> QED
          BY <4>1, <4>2
      <3> HIDE DEF Those
      <3> QED
        BY <2>3, <2>6, <2>7, <2>9, <3>1
    <2> QED
      BY <2>8, <2>9
  <1> QED
    BY <1>2 DEF CountOf

\* Every phrase and every word has a rank, and no two ranks have the same.
LEMMA PhraseHasRank ==
    ASSUME NEW count \in 0 .. Limit, NEW j \in 1 .. count
    PROVE  \E n \in 1 .. Limit : Rises(n, count) /\ Due(n, count) = j
  <1>1. Limit \in Nat /\ count \in Nat /\ j \in Nat
    BY CandidateConstants
  <1> DEFINE Reached == {n \in Nat : n <= Limit /\ Due(n, count) >= j}
  <1>2. PICK n \in Reached : \A m \in Reached : n <= m
    <2>1. Limit \in Reached
      BY <1>1, SharesEnd
    <2>2. Reached \subseteq Nat
      OBVIOUS
    <2> HIDE DEF Reached
    <2> QED
      BY <2>1, <2>2, LeastNumber
  <1>3. n \in Nat /\ n <= Limit /\ Due(n, count) >= j
    BY <1>2
  <1>4. n # 0
    BY <1>1, <1>3, SharesEnd
  <1>5. n \in 1 .. Limit /\ n - 1 \in Nat /\ n - 1 <= Limit
    BY <1>1, <1>3, <1>4
  <1>6. ~(Due(n - 1, count) >= j)
    <2>1. n - 1 \notin Reached
      <3> HIDE DEF Reached
      <3> QED
        BY <1>2, <1>3
    <2> QED
      BY <1>5, <2>1
  <1>7. /\ Due(n, count) \in Nat /\ Due(n - 1, count) \in Nat
        /\ Due(n, count) = Due(n - 1, count) + (IF Rises(n, count) THEN 1 ELSE 0)
    BY <1>5, NextShare
  <1>8. Rises(n, count) /\ Due(n, count) = j
    BY <1>1, <1>3, <1>6, <1>7
  <1> QED
    BY <1>5, <1>8

LEMMA WordHasRank ==
    ASSUME NEW count \in 0 .. Limit, NEW j \in 1 .. Limit - count
    PROVE  \E n \in 1 .. Limit : ~Rises(n, count) /\ n - Due(n, count) = j
  <1>1. Limit \in Nat /\ count \in Nat /\ j \in Nat /\ 1 <= j /\ j <= Limit - count
    BY CandidateConstants
  <1> DEFINE Reached == {n \in Nat : n <= Limit /\ n - Due(n, count) >= j}
  <1>2. PICK n \in Reached : \A m \in Reached : n <= m
    <2>1. Limit \in Reached
      BY <1>1, SharesEnd
    <2>2. Reached \subseteq Nat
      OBVIOUS
    <2> HIDE DEF Reached
    <2> QED
      BY <2>1, <2>2, LeastNumber
  <1>3. n \in Nat /\ n <= Limit /\ n - Due(n, count) >= j
    BY <1>2
  <1>4. n # 0
    BY <1>1, <1>3, SharesEnd
  <1>5. n \in 1 .. Limit /\ n - 1 \in Nat /\ n - 1 <= Limit
    BY <1>1, <1>3, <1>4
  <1>6. ~(n - 1 - Due(n - 1, count) >= j)
    <2>1. n - 1 \notin Reached
      <3> HIDE DEF Reached
      <3> QED
        BY <1>2, <1>3
    <2> QED
      BY <1>5, <2>1
  <1>7. /\ Due(n, count) \in Nat /\ Due(n - 1, count) \in Nat
        /\ Due(n, count) = Due(n - 1, count) + (IF Rises(n, count) THEN 1 ELSE 0)
    BY <1>5, NextShare
  <1>8. ~Rises(n, count) /\ n - Due(n, count) = j
    BY <1>1, <1>3, <1>6, <1>7
  <1> QED
    BY <1>5, <1>8

LEMMA RanksApart ==
    ASSUME NEW count \in 0 .. Limit, NEW m \in 1 .. Limit, NEW n \in 1 .. Limit, m < n
    PROVE  /\ Rises(n, count) => Due(m, count) < Due(n, count)
           /\ ~Rises(n, count) => m - Due(m, count) < n - Due(n, count)
  <1>1. Limit \in Nat /\ m \in 0 .. Limit /\ n - 1 \in 0 .. Limit /\ m <= n - 1
    BY CandidateConstants
  <1>2. /\ Due(m, count) \in Nat /\ Due(n - 1, count) \in Nat
        /\ Due(m, count) <= Due(n - 1, count)
        /\ Due(n - 1, count) <= Due(m, count) + (n - 1 - m)
    BY <1>1, Shares
  <1>3. /\ Due(n, count) \in Nat
        /\ Due(n, count) = Due(n - 1, count) + (IF Rises(n, count) THEN 1 ELSE 0)
    BY NextShare
  <1> QED
    BY <1>1, <1>2, <1>3

-----------------------------------------------------------------------------
\* What was selected from a pool is the best of the rows it was scanned from.
KindAt(n, count) == IF Rises(n, count) THEN "phrase" ELSE "word"
PlaceAt(n, count) == IF Rises(n, count) THEN Due(n, count) ELSE n - Due(n, count)
Taken(k, count) == IF k = "phrase" THEN count ELSE Limit - count

LEMMA PlacesMatch ==
    ASSUME NEW count \in 0 .. Limit
    PROVE  /\ \A n \in 1 .. Limit :
                 KindAt(n, count) \in PoolKind /\ PlaceAt(n, count) \in 1 .. Taken(KindAt(n, count), count)
           /\ \A m, n \in 1 .. Limit :
                 KindAt(m, count) = KindAt(n, count) /\ PlaceAt(m, count) = PlaceAt(n, count) => m = n
           /\ \A k \in PoolKind : \A j \in 1 .. Taken(k, count) :
                 \E n \in 1 .. Limit : KindAt(n, count) = k /\ PlaceAt(n, count) = j
  <1>1. ASSUME NEW n \in 1 .. Limit
        PROVE  KindAt(n, count) \in PoolKind /\ PlaceAt(n, count) \in 1 .. Taken(KindAt(n, count), count)
    <2>1. /\ Rises(n, count) => Due(n, count) \in 1 .. count
          /\ ~Rises(n, count) => n - Due(n, count) \in 1 .. Limit - count
      BY NextShare
    <2> QED
      BY <2>1 DEF KindAt, PlaceAt, Taken, PoolKind
  <1>2. ASSUME NEW m \in 1 .. Limit, NEW n \in 1 .. Limit, m < n
        PROVE  KindAt(m, count) = KindAt(n, count) => PlaceAt(m, count) # PlaceAt(n, count)
    <2>1. /\ Rises(n, count) => Due(m, count) < Due(n, count)
          /\ ~Rises(n, count) => m - Due(m, count) < n - Due(n, count)
      BY <1>2, RanksApart
    <2>2. Due(m, count) \in Nat /\ Due(n, count) \in Nat
      BY NextShare
    <2> QED
      BY <2>1, <2>2 DEF KindAt, PlaceAt
  <1>3. ASSUME NEW m \in 1 .. Limit, NEW n \in 1 .. Limit,
               KindAt(m, count) = KindAt(n, count), PlaceAt(m, count) = PlaceAt(n, count)
        PROVE  m = n
    <2>1. ~(m < n) /\ ~(n < m)
      BY <1>2, <1>3
    <2> QED
      BY <2>1
  <1>4. ASSUME NEW k \in PoolKind, NEW j \in 1 .. Taken(k, count)
        PROVE  \E n \in 1 .. Limit : KindAt(n, count) = k /\ PlaceAt(n, count) = j
    <2>1. CASE k = "phrase"
      <3>1. PICK n \in 1 .. Limit : Rises(n, count) /\ Due(n, count) = j
        BY <2>1, PhraseHasRank DEF Taken
      <3> QED
        BY <2>1, <3>1 DEF KindAt, PlaceAt
    <2>2. CASE k = "word"
      <3>1. PICK n \in 1 .. Limit : ~Rises(n, count) /\ n - Due(n, count) = j
        BY <2>2, WordHasRank DEF Taken
      <3> QED
        BY <2>2, <3>1 DEF KindAt, PlaceAt
    <2> QED
      BY <2>1, <2>2 DEF PoolKind
  <1> QED
    BY <1>1, <1>3, <1>4

\* A selection of `count` phrases from a pool, as a function.
Picked(pool, count) == [n \in 1 .. Limit |-> pool[KindAt(n, count)][PlaceAt(n, count)]]

LEMMA SelectedIs ==
    ASSUME NEW rows, NEW seen, NEW pool \in [PoolKind -> Seq(ItemsOf(rows, seen))],
           CanChoose(Len(pool.word), Len(pool.phrase)),
           NEW count, count = PhraseCount(Len(pool.word), Len(pool.phrase))
    PROVE  /\ count \in 0 .. Limit
           /\ \A k \in PoolKind : Taken(k, count) \in Nat /\ Taken(k, count) <= Len(pool[k])
           /\ Selected(pool) = Picked(pool, count)
  <1> DEFINE V == ItemsOf(rows, seen)
  <1>1. PICK words \in Seq(V) : words = pool.word
    BY DEF PoolKind
  <1>2. PICK phrases \in Seq(V) : phrases = pool.phrase
    BY DEF PoolKind
  <1> HIDE DEF V
  <1>3. Limit \in Nat /\ Len(words) \in Nat /\ Len(phrases) \in Nat
    BY CandidateConstants
  <1>4. count \in 0 .. Limit /\ count <= Len(phrases) /\ Limit - count <= Len(words)
    BY <1>1, <1>2, <1>3, Counts
  <1>5. count \in Nat /\ Limit - count \in Nat
    BY <1>3, <1>4
  <1>6. PICK first : first = SubSeq(words, 1, Limit - count)
    OBVIOUS
  <1>7. PICK top : top = SubSeq(phrases, 1, count)
    OBVIOUS
  <1>8. /\ first \in Seq(V) /\ Len(first) = Limit - count
        /\ \A j \in 1 .. Limit - count : first[j] = words[j]
    BY <1>3, <1>4, <1>5, <1>6
  <1>9. top \in Seq(V) /\ Len(top) = count /\ \A j \in 1 .. count : top[j] = phrases[j]
    BY <1>3, <1>4, <1>5, <1>7
  <1>10. Selected(pool) = Interleaved(first, top)
    BY <1>1, <1>2, <1>6, <1>7 DEF Selected
  <1>11. Selected(pool) = [n \in 1 .. Limit |-> PlacedAt(first, top, count, n)]
    BY <1>4, <1>8, <1>9, <1>10, InterleavedIs
  <1>12. ASSUME NEW n \in 1 .. Limit
         PROVE  PlacedAt(first, top, count, n) = pool[KindAt(n, count)][PlaceAt(n, count)]
    <2>1. /\ Rises(n, count) => Due(n, count) \in 1 .. count
          /\ ~Rises(n, count) => n - Due(n, count) \in 1 .. Limit - count
      BY <1>4, NextShare
    <2> QED
      BY <1>1, <1>2, <1>8, <1>9, <2>1 DEF PlacedAt, KindAt, PlaceAt
  <1>13. Selected(pool) = Picked(pool, count)
    BY <1>11, <1>12 DEF Picked
  <1>14. \A k \in PoolKind : Taken(k, count) \in Nat /\ Taken(k, count) <= Len(pool[k])
    BY <1>1, <1>2, <1>4, <1>5 DEF PoolKind, Taken
  <1> QED
    BY <1>4, <1>13, <1>14

FitRow(rows, id) == rows[id].rank # NoRank /\ rows[id].kind # "unfit"
OutOf(items, rows) ==
    {id \in DOMAIN rows \ Ids(items) :
        /\ FitRow(rows, id)
        /\ ~ \E b \in DOMAIN rows : FitRow(rows, b) /\ Before(rows, b, id) /\ rows[b].key = rows[id].key}

\* The reasons for which a fit row was left out.
LEMMA LeftOut ==
    ASSUME NEW rows, RowsOK(rows), NEW after, Stands(rows, after),
           NEW pool, PoolFits(pool, rows, Scanned(rows, after)),
           NEW count \in 0 .. Limit,
           \A k \in PoolKind : Taken(k, count) \in Nat /\ Taken(k, count) <= Len(pool[k]),
           NEW items, items = Picked(pool, count),
           NEW id \in OutOf(items, rows), NEW k, k = rows[id].kind
    PROVE  /\ k \in PoolKind
           /\ \/ id \in Rest(rows, after)
              \/ \E j \in DOMAIN pool[k] : j > Taken(k, count) /\ pool[k][j].id = id
              \/ Len(pool[k]) = Limit /\ \A j \in DOMAIN pool[k] : Before(rows, pool[k][j].id, id)
  <1> DEFINE seen == Scanned(rows, after)
  <1>1. id \in DOMAIN rows /\ id \notin Ids(items) /\ FitRow(rows, id)
        /\ ~ \E b \in DOMAIN rows : FitRow(rows, b) /\ Before(rows, b, id) /\ rows[b].key = rows[id].key
    BY DEF OutOf
  <1>2. k \in PoolKind
    BY <1>1, RowTypes DEF FitRow, PoolKind
  <1>3. SUFFICES ASSUME id \notin Rest(rows, after)
                 PROVE  \/ \E j \in DOMAIN pool[k] : j > Taken(k, count) /\ pool[k][j].id = id
                        \/ Len(pool[k]) = Limit /\ \A j \in DOMAIN pool[k] : Before(rows, pool[k][j].id, id)
    BY <1>2
  <1>4. id \in seen
    BY <1>1, <1>3 DEF FitRow, Scanned, Ranked
  <1>5. Settled(pool, rows, id)
    BY <1>1, <1>4 DEF PoolFits, FitRow
  <1>6. \A l \in PoolKind : /\ DOMAIN pool[l] = 1 .. Len(pool[l]) /\ Len(pool[l]) \in Nat
                            /\ \A j \in DOMAIN pool[l] : pool[l][j] \in ItemsOf(rows, seen)
    BY StreamItems DEF PoolFits
  <1>7. CASE \E j \in DOMAIN pool[k] : pool[k][j].id = id
    <2>1. PICK j \in DOMAIN pool[k] : pool[k][j].id = id
      BY <1>7
    <2>2. j \notin 1 .. Taken(k, count)
      <3>1. SUFFICES ASSUME j \in 1 .. Taken(k, count) PROVE FALSE
        OBVIOUS
      <3>2. PICK n \in 1 .. Limit : KindAt(n, count) = k /\ PlaceAt(n, count) = j
        BY <1>2, <3>1, PlacesMatch
      <3>3. items[n].id = id /\ n \in DOMAIN items
        BY <2>1, <3>2 DEF Picked
      <3> QED
        BY <1>1, <3>3 DEF Ids
    <2>3. j \in Nat /\ j >= 1 /\ Taken(k, count) \in Nat
      BY <1>2, <1>6
    <2>4. j > Taken(k, count)
      BY <2>2, <2>3
    <2> QED
      BY <2>1, <2>4
  <1>8. CASE \E l \in PoolKind : \E j \in DOMAIN pool[l] :
                pool[l][j].key = rows[id].key /\ Before(rows, pool[l][j].id, id)
    <2>1. PICK l \in PoolKind : \E j \in DOMAIN pool[l] :
                pool[l][j].key = rows[id].key /\ Before(rows, pool[l][j].id, id)
      BY <1>8
    <2>2. PICK j \in DOMAIN pool[l] :
                pool[l][j].key = rows[id].key /\ Before(rows, pool[l][j].id, id)
      BY <2>1
    <2>3. PICK it \in ItemsOf(rows, seen) : it = pool[l][j]
      BY <1>6, <2>1, <2>2
    <2>4. it.id \in seen /\ it.key = rows[it.id].key /\ it.kind = rows[it.id].kind /\ it.kind = l
      BY <2>1, <2>2, <2>3, ItemsFields DEF PoolFits, Ordered
    <2>5. it.id \in DOMAIN rows /\ FitRow(rows, it.id)
      BY <2>4 DEF Scanned, Ranked, FitRow, PoolKind
    <2> QED
      BY <1>1, <2>2, <2>3, <2>4, <2>5
  <1> QED
    BY <1>5, <1>7, <1>8 DEF Settled

LEMMA SelectedIsBest ==
    ASSUME NEW rows, RowsOK(rows), NEW after, Stands(rows, after),
           NEW pool, PoolFits(pool, rows, Scanned(rows, after)),
           CanChoose(Len(pool.word), Len(pool.phrase)),
           PoolSuffices(pool) \/ Page(rows, after) = <<>>
    PROVE  /\ IsBestOf(Selected(pool), rows)
           /\ Selected(pool) = [n \in 1 .. Limit |-> Selected(pool)[n]]
  <1> DEFINE seen == Scanned(rows, after)
  <1>1. PICK count : count = PhraseCount(Len(pool.word), Len(pool.phrase))
    OBVIOUS
  <1>2. pool \in [PoolKind -> Seq(ItemsOf(rows, seen))] /\ Ordered(pool, rows)
    BY DEF PoolFits
  <1>3. /\ count \in 0 .. Limit
        /\ \A k \in PoolKind : Taken(k, count) \in Nat /\ Taken(k, count) <= Len(pool[k])
        /\ Selected(pool) = Picked(pool, count)
    BY <1>1, <1>2, SelectedIs
  <1>4. PICK items : items = Selected(pool)
    OBVIOUS
  <1>5. items = Picked(pool, count)
    BY <1>3, <1>4
  <1>6. Limit \in Nat /\ PhraseTarget \in Nat /\ PhraseTarget <= Limit /\ count \in Nat
    BY <1>3, CandidateConstants
  <1>7. DOMAIN items = 1 .. Limit /\ Len(items) = Limit /\ items = [n \in 1 .. Limit |-> items[n]]
    BY <1>5, <1>6 DEF Picked
  <1>8. \A l \in PoolKind : /\ DOMAIN pool[l] = 1 .. Len(pool[l]) /\ Len(pool[l]) \in Nat
                            /\ \A j \in DOMAIN pool[l] : pool[l][j] \in ItemsOf(rows, seen)
    BY <1>2, StreamItems
  <1>9. ASSUME NEW n \in 1 .. Limit
        PROVE  /\ KindAt(n, count) \in PoolKind /\ PlaceAt(n, count) \in DOMAIN pool[KindAt(n, count)]
               /\ PlaceAt(n, count) <= Taken(KindAt(n, count), count)
               /\ PlaceAt(n, count) \in Nat
               /\ items[n] = pool[KindAt(n, count)][PlaceAt(n, count)]
               /\ items[n].kind = KindAt(n, count)
               /\ items[n] \in ItemsOf(rows, seen)
    <2>1. PICK k \in PoolKind : k = KindAt(n, count)
      BY <1>3, PlacesMatch
    <2>2. PICK j : j = PlaceAt(n, count) /\ j \in 1 .. Taken(k, count)
      BY <1>3, <2>1, PlacesMatch
    <2>3. j \in 1 .. Len(pool[k]) /\ j <= Taken(k, count) /\ j \in Nat
      BY <1>3, <1>8, <2>2
    <2>4. items[n] = pool[k][j]
      BY <1>5, <2>1, <2>2 DEF Picked
    <2>5. j \in DOMAIN pool[k]
      BY <1>8, <2>3
    <2> QED
      BY <1>2, <1>8, <2>1, <2>2, <2>3, <2>4, <2>5 DEF Ordered
  <1>10. \A m, n \in 1 .. Limit : m # n => items[m].key # items[n].key
    <2>1. SUFFICES ASSUME NEW m \in 1 .. Limit, NEW n \in 1 .. Limit, items[m].key = items[n].key
                   PROVE  m = n
      OBVIOUS
    <2>2. KindAt(m, count) = KindAt(n, count) /\ PlaceAt(m, count) = PlaceAt(n, count)
      <3>1. PICK k \in PoolKind : k = KindAt(m, count)
        BY <1>9
      <3>2. PICK l \in PoolKind : l = KindAt(n, count)
        BY <1>9
      <3>3. PICK i \in DOMAIN pool[k] : i = PlaceAt(m, count) /\ items[m] = pool[k][i]
        BY <1>9, <3>1
      <3>4. PICK j \in DOMAIN pool[l] : j = PlaceAt(n, count) /\ items[n] = pool[l][j]
        BY <1>9, <3>2
      <3>5. pool[k][i].key = pool[l][j].key
        BY <2>1, <3>3, <3>4
      <3> QED
        BY <1>2, <3>1, <3>2, <3>3, <3>4, <3>5 DEF Ordered
    <2> QED
      BY <1>3, <2>2, PlacesMatch
  <1>11. ASSUME NEW n \in 1 .. Limit
         PROVE  items[n] = ItemOf(items[n].id, rows[items[n].id]) /\ FitRow(rows, items[n].id)
    <2>1. /\ items[n].id \in seen /\ items[n] = ItemOf(items[n].id, rows[items[n].id])
          /\ items[n].kind = rows[items[n].id].kind
      BY <1>9, ItemsFields
    <2>2. items[n].kind \in PoolKind
      BY <1>9
    <2> QED
      BY <2>1, <2>2 DEF Scanned, Ranked, FitRow, PoolKind
  <1>12. ASSUME NEW n \in 1 .. Limit, NEW id \in OutOf(items, rows), rows[id].kind = items[n].kind
         PROVE  Before(rows, items[n].id, id)
    <2>1. PICK k \in PoolKind : k = rows[id].kind /\ k = KindAt(n, count) /\ items[n].kind = k
      BY <1>9, <1>12
    <2>2. PICK j \in DOMAIN pool[k] : j = PlaceAt(n, count) /\ items[n] = pool[k][j] /\ j <= Taken(k, count)
                                      /\ j \in Nat
      BY <1>9, <2>1
    <2>3. \/ id \in Rest(rows, after)
          \/ \E i \in DOMAIN pool[k] : i > Taken(k, count) /\ pool[k][i].id = id
          \/ Len(pool[k]) = Limit /\ \A i \in DOMAIN pool[k] : Before(rows, pool[k][i].id, id)
      BY <1>3, <1>5, <2>1, LeftOut
    <2>4. CASE id \in Rest(rows, after)
      <3>1. items[n].id \in seen
        BY <1>9, ItemsFields
      <3> QED
        BY <2>4, <3>1, RestFollows
    <2>5. CASE \E i \in DOMAIN pool[k] : i > Taken(k, count) /\ pool[k][i].id = id
      <3>1. PICK i \in DOMAIN pool[k] : i > Taken(k, count) /\ pool[k][i].id = id
        BY <2>5
      <3>2. i \in Nat /\ Taken(k, count) \in Nat
        BY <1>3, <1>8, <3>1
      <3>3. j < i
        BY <2>2, <3>1, <3>2
      <3> QED
        BY <1>2, <2>2, <3>1, <3>3 DEF Ordered
    <2>6. CASE Len(pool[k]) = Limit /\ \A i \in DOMAIN pool[k] : Before(rows, pool[k][i].id, id)
      BY <2>2, <2>6
    <2> QED
      BY <2>3, <2>4, <2>5, <2>6
  <1>13. \A n \in 1 .. Limit : items[n].kind = "phrase" <=> Rises(n, count)
    BY <1>9 DEF KindAt
  <1>14. \A n \in 0 .. Limit : CountOf(items, n, "phrase") = Due(n, count)
    BY <1>3, <1>13, SharesCounted
  <1>15. CountOf(items, Limit, "phrase") = count
    BY <1>3, <1>6, <1>14, SharesEnd
  <1>16. /\ count < PhraseTarget => count = Len(pool.phrase)
         /\ count > PhraseTarget => Limit - count = Len(pool.word)
         /\ count > PhraseTarget => Len(pool.word) < Limit - PhraseTarget
    <2>1. Len(pool.word) \in Nat /\ Len(pool.phrase) \in Nat
      BY <1>8 DEF PoolKind
    <2> QED
      BY <1>1, <2>1, Counts
  <1>17. ASSUME NEW k \in PoolKind, Taken(k, count) = Len(pool[k]), Len(pool[k]) < Limit,
                ~PoolSuffices(pool), NEW id \in OutOf(items, rows)
         PROVE  rows[id].kind # k
    <2>1. SUFFICES ASSUME k = rows[id].kind PROVE FALSE
      OBVIOUS
    <2>2. \/ id \in Rest(rows, after)
          \/ \E i \in DOMAIN pool[k] : i > Taken(k, count) /\ pool[k][i].id = id
          \/ Len(pool[k]) = Limit
      BY <1>3, <1>5, <2>1, LeftOut
    <2>3. id \notin Rest(rows, after)
      <3>1. seen = Ranked(rows)
        BY <1>17, AllScanned
      <3>2. Rest(rows, after) \subseteq Ranked(rows)
        BY DEF Rest, Ranked
      <3> QED
        BY <3>1, <3>2 DEF Scanned
    <2>4. \A i \in DOMAIN pool[k] : ~(i > Taken(k, count))
      BY <1>8, <1>17
    <2>5. Len(pool[k]) # Limit
      BY <1>6, <1>8, <1>17
    <2> QED
      BY <2>2, <2>3, <2>4, <2>5
  <1>18. ASSUME count < PhraseTarget PROVE {id \in OutOf(items, rows) : rows[id].kind = "phrase"} = {}
    <2>1. "phrase" \in PoolKind /\ Taken("phrase", count) = Len(pool["phrase"])
      BY <1>16, <1>18 DEF PoolKind, Taken
    <2>2. Len(pool["phrase"]) < Limit /\ ~PoolSuffices(pool)
      <3>1. Len(pool.phrase) = count
        BY <1>16, <1>18
      <3> QED
        BY <1>6, <1>18, <3>1 DEF PoolSuffices
    <2> QED
      BY <1>17, <2>1, <2>2
  <1>19. ASSUME count > PhraseTarget PROVE {id \in OutOf(items, rows) : rows[id].kind = "word"} = {}
    <2>1. "word" \in PoolKind /\ Taken("word", count) = Len(pool["word"])
      BY <1>16, <1>19 DEF PoolKind, Taken
    <2>2. Len(pool["word"]) < Limit /\ ~PoolSuffices(pool)
      <3>1. Len(pool.word) \in Nat
        BY <1>8 DEF PoolKind
      <3> QED
        BY <1>6, <1>16, <1>19, <3>1 DEF PoolSuffices
    <2> QED
      BY <1>17, <2>1, <2>2
  <1>20. \A n \in 1 .. Limit :
            CountOf(items, n, "phrase") = (n * CountOf(items, Limit, "phrase")) \div Limit
    <2>1. \A n \in 1 .. Limit : n \in 0 .. Limit
      BY <1>6
    <2> QED
      BY <1>14, <1>15, <2>1 DEF Due
  <1>21. IsBestOf(items, rows)
    <2>1. \A n \in 1 .. Limit : \A id \in {i \in OutOf(items, rows) : rows[i].kind = items[n].kind} :
             Before(rows, items[n].id, id)
      BY <1>12
    <2> QED
      BY <1>7, <1>10, <1>11, <1>15, <1>18, <1>19, <1>20, <2>1 DEF IsBestOf, OutOf, FitRow
  <1> QED
    BY <1>4, <1>7, <1>21

-----------------------------------------------------------------------------
\* The jobs that select.
BestOnce(items, host) == \E rows \in moments[host] : IsBestOf(items, rows)

SelectsBest(j) ==
    /\ j.pc = "open" => j.by # "select"
    /\ j.pc = "scan" => /\ Stands(j.snapshot, j.after)
                        /\ PoolFits(j.pool, j.snapshot, Scanned(j.snapshot, j.after))
    /\ j.pc = "copy" /\ j.by = "select" =>
          IsBestOf(j.items, j.snapshot) /\ j.items = [n \in 1 .. Limit |-> j.items[n]]
    /\ j.pc \in {"gate", "publish"} /\ j.by = "select" => BestOnce(j.items, j.host)

SelectionInv ==
    /\ DOMAIN replica = Host
    /\ \A h \in Host : \A rows \in moments[h] : RowsOK(rows)
    /\ \A w \in Slots : SelectsBest(job[w])
    /\ \A f \in File :
          file[f] # Vacant /\ file[f].by = "select" => BestOnce(file[f].items, file[f].host)

LEMMA SelectionStart == CandidateInit => SelectionInv
  <1>1. SUFFICES ASSUME CandidateInit PROVE SelectionInv
    OBVIOUS
  <1>2. DOMAIN replica = Host /\ \A h \in Host : RowsOK(replica[h])
    BY <1>1, CandidateTypes DEF CandidateInit, RowsOK, Host
  <1>3. \A h \in Host : \A rows \in moments[h] : RowsOK(rows)
    BY <1>1, <1>2 DEF CandidateInit
  <1>4. \A w \in Slots : SelectsBest(job[w])
    BY <1>1 DEF CandidateInit, NoJob, SelectsBest
  <1>5. \A f \in File : file[f] = Vacant
    BY <1>1 DEF CandidateInit
  <1> QED
    BY <1>2, <1>3, <1>4, <1>5 DEF SelectionInv

\* A job takes a step and publishes nothing.
LEMMA SelectionJob ==
    ASSUME CandInv, SelectionInv, NEW w \in Slots, NEW s, Turn(w, s), SelectsBest(s),
           UNCHANGED <<replica, moments, file>>
    PROVE  SelectionInv'
  <1>1. \A v \in Slots : job'[v] = s \/ job'[v] = job[v]
    BY DEF CandInv, Turn
  <1>2. \A v \in Slots : SelectsBest(job'[v])
    BY <1>1 DEF SelectionInv
  <1>3. \A v \in Slots : SelectsBest(job[v])'
    BY <1>2 DEF SelectsBest, BestOnce
  <1> QED
    BY <1>3 DEF SelectionInv, BestOnce

\* A job that is at no step of making a candidate.
LEMMA SelectionElse ==
    ASSUME CandInv, SelectionInv, NEW w \in Slots, NEW s, Turn(w, s), s.pc \notin Making,
           UNCHANGED <<replica, moments, file>>
    PROVE  SelectionInv'
  <1>1. SelectsBest(s)
    BY DEF SelectsBest, Making
  <1> QED
    BY <1>1, SelectionJob

LEMMA SelectionStop ==
    ASSUME CandInv, SelectionInv, NEW w \in Slots, Turn(w, NoJob),
           UNCHANGED <<replica, moments, file>>
    PROVE  SelectionInv'
  <1>1. NoJob.pc \notin Making
    BY DEF NoJob, Making
  <1> QED
    BY <1>1, SelectionElse

LEMMA SelectionLaunch ==
    ASSUME CandInv, SelectionInv, NEW w \in Slots,
           StartSelect(w) \/ StartRefresh(w) \/ StartPackage(w)
    PROVE  SelectionInv'
  <1>1. CASE StartSelect(w)
    <2>1. PICK r \in Requests : r.by = "select" /\ Launch(w, NewJob(r, <<>>))
      BY <1>1 DEF StartSelect
    <2>2. PICK rows : rows = replica[r.host]
      OBVIOUS
    <2>3. Stands(rows, <<>>) /\ PoolFits(NoPool, rows, Scanned(rows, <<>>))
      BY NothingScanned
    <2>4. SelectsBest(NewJob(r, <<>>))
      BY <2>1, <2>2, <2>3 DEF SelectsBest, NewJob
    <2> QED
      BY <2>1, <2>4, SelectionJob DEF Launch
  <1>2. CASE StartRefresh(w)
    <2>1. PICK r \in Requests :
            /\ r.by \in {"refresh", "owner"}
            /\ Launch(w, NewJob(r, file[r.template].items))
      BY <1>2 DEF StartRefresh
    <2> DEFINE items == file[r.template].items
    <2> HIDE DEF items
    <2>2. SelectsBest(NewJob(r, items))
      BY <2>1 DEF SelectsBest, NewJob
    <2> QED
      BY <2>1, <2>2, SelectionJob DEF Launch, items
  <1>3. CASE StartPackage(w)
    <2>1. PICK r \in Requests :
            Launch(w, [pc |-> "stage", canonical |-> replica[r.host], input |-> r.template])
      BY <1>3 DEF StartPackage
    <2> DEFINE s == [pc |-> "stage", canonical |-> replica[r.host], input |-> r.template]
    <2>2. s.pc \notin Making
      BY DEF Making
    <2> QED
      BY <2>1, <2>2, SelectionElse DEF Launch
  <1> QED
    BY <1>1, <1>2, <1>3

LEMMA SelectionOpen ==
    ASSUME CandInv, SelectionInv, NEW w \in Slots, OpenReplica(w)
    PROVE  SelectionInv'
  <1> DEFINE j == job[w]
             s == [j EXCEPT !.pc = "copy", !.snapshot = replica[j.host]]
  <1>1. JobOK(j) /\ SelectsBest(j) /\ j.pc = "open" /\ Turn(w, s) /\ Quiet
    BY DEF CandInv, SelectionInv, OpenReplica, At20k
  <1>2. DOMAIN j = CandidateFields /\ j.by # "select"
    BY <1>1 DEF JobOK, Making, SelectsBest
  <1> HIDE DEF j
  <1>3. SelectsBest(s)
    BY <1>2 DEF SelectsBest, CandidateFields
  <1> QED
    BY <1>1, <1>3, SelectionJob DEF Quiet

LEMMA SelectionScan ==
    ASSUME CandInv, SelectionInv, NEW w \in Slots, ScanPage(w)
    PROVE  SelectionInv'
  <1> DEFINE j == job[w]
  <1>1. JobOK(j) /\ SelectsBest(j) /\ j.pc = "scan" /\ Quiet
    BY DEF CandInv, SelectionInv, ScanPage, At20k
  <1>2. PICK rows : rows = j.snapshot
    OBVIOUS
  <1>3. PICK page : page = Page(rows, j.after)
    OBVIOUS
  <1>4. PICK last : last = page[Len(page)]
    OBVIOUS
  <1>5. PICK next : next = <<rows[last].rank, last>>
    OBVIOUS
  <1>6. PICK pool : pool = AddPage(j.pool, rows, page)
    OBVIOUS
  <1>7. page # <<>> /\ Turn(w, [j EXCEPT !.pool = pool, !.after = next])
    BY <1>2, <1>3, <1>4, <1>5, <1>6 DEF ScanPage, Source
  <1>8. DOMAIN j = CandidateFields /\ j.host \in Host /\ rows \in moments[j.host]
    BY <1>1, <1>2 DEF JobOK, Making
  <1>9. RowsOK(rows)
    BY <1>8 DEF SelectionInv
  <1>10. Stands(rows, j.after) /\ PoolFits(j.pool, rows, Scanned(rows, j.after))
    BY <1>1, <1>2 DEF SelectsBest
  <1>11. Stands(rows, next) /\ PoolFits(pool, rows, Scanned(rows, next))
    BY <1>3, <1>4, <1>5, <1>6, <1>7, <1>9, <1>10, AddPageFits
  <1> DEFINE s == [j EXCEPT !.pool = pool, !.after = next]
  <1> HIDE DEF j
  <1>12. s.pc = "scan" /\ s.snapshot = rows /\ s.pool = pool /\ s.after = next
    BY <1>1, <1>2, <1>8 DEF CandidateFields
  <1> HIDE DEF s
  <1>13. SelectsBest(s)
    BY <1>11, <1>12 DEF SelectsBest
  <1> QED
    BY <1>1, <1>7, <1>13, SelectionJob DEF Quiet, s

LEMMA SelectionChoose ==
    ASSUME CandInv, SelectionInv, NEW w \in Slots, Choose20k(w)
    PROVE  SelectionInv'
  <1> DEFINE j == job[w]
  <1>1. JobOK(j) /\ SelectsBest(j) /\ j.pc = "scan" /\ Quiet
    BY DEF CandInv, SelectionInv, Choose20k, At20k
  <1>2. PICK rows : rows = j.snapshot
    OBVIOUS
  <1>3. PICK pool : pool = j.pool
    OBVIOUS
  <1>4. PICK items : items = Selected(pool)
    OBVIOUS
  <1>5. /\ PoolSuffices(pool) \/ Page(rows, j.after) = <<>>
        /\ Turn(w, IF CanChoose(Len(pool.word), Len(pool.phrase))
                     THEN [j EXCEPT !.pc = "copy", !.items = items, !.pool = NoPool]
                     ELSE NoJob)
    BY <1>2, <1>3, <1>4 DEF Choose20k, Source
  <1>6. CASE ~CanChoose(Len(pool.word), Len(pool.phrase))
    BY <1>1, <1>5, <1>6, SelectionStop DEF Quiet
  <1>7. CASE CanChoose(Len(pool.word), Len(pool.phrase))
    <2>1. DOMAIN j = CandidateFields /\ j.host \in Host /\ rows \in moments[j.host]
      BY <1>1, <1>2 DEF JobOK, Making
    <2>2. RowsOK(rows)
      BY <2>1 DEF SelectionInv
    <2>3. Stands(rows, j.after) /\ PoolFits(pool, rows, Scanned(rows, j.after))
      BY <1>1, <1>2, <1>3 DEF SelectsBest
    <2>4. IsBestOf(items, rows) /\ items = [n \in 1 .. Limit |-> items[n]]
      BY <1>4, <1>5, <1>7, <2>2, <2>3, SelectedIsBest
    <2> DEFINE s == [j EXCEPT !.pc = "copy", !.items = items, !.pool = NoPool]
    <2>5. Turn(w, s)
      BY <1>5, <1>7
    <2> HIDE DEF j
    <2>6. s.pc = "copy" /\ s.items = items /\ s.snapshot = rows
      BY <1>2, <2>1 DEF CandidateFields
    <2> HIDE DEF s
    <2>7. SelectsBest(s)
      BY <2>4, <2>6 DEF SelectsBest
    <2> QED
      BY <1>1, <2>5, <2>7, SelectionJob DEF Quiet
  <1> QED
    BY <1>6, <1>7

\* The rows a selection takes are those it was chosen from.
LEMMA CopyUnchanged ==
    ASSUME NEW items, NEW rows, IsBestOf(items, rows), items = [n \in 1 .. Limit |-> items[n]]
    PROVE  CopyOf(items, rows) = items
  <1>1. DOMAIN items = 1 .. Limit
    OBVIOUS
  <1>2. ASSUME NEW n \in 1 .. Limit
        PROVE  Retaken(items[n], rows[items[n].id], items[n].evidence) = items[n]
    <2>1. PICK it : it = items[n]
      OBVIOUS
    <2>2. it = ItemOf(it.id, rows[it.id])
      BY <1>1, <2>1 DEF IsBestOf
    <2>3. PICK id : id = it.id
      OBVIOUS
    <2>4. PICK row : row = rows[id]
      OBVIOUS
    <2>5. it.key = row.key /\ it.rank = row.rank /\ it.kind = row.kind /\ it.evidence = row.evidence
      BY <2>2, <2>3, <2>4, ItemFields
    <2>6. Retaken(it, row, it.evidence) = ItemOf(id, row)
      BY <2>3, <2>5 DEF Retaken, ItemOf
    <2> QED
      BY <2>1, <2>2, <2>3, <2>4, <2>6
  <1>3. CopyOf(items, rows) = [n \in 1 .. Limit |-> items[n]]
    BY <1>1, <1>2 DEF CopyOf
  <1> QED
    BY <1>3

LEMMA SelectionCopy ==
    ASSUME CandInv, SelectionInv, NEW w \in Slots, CopyRows(w)
    PROVE  SelectionInv'
  <1> DEFINE j == job[w]
             taken == IF j.by = "owner" THEN OwnerCopyOf(j.items, j.snapshot, j.host)
                      ELSE CopyOf(j.items, j.snapshot)
             fits == IF j.by = "owner" THEN OwnerAllowed(j.items, j.snapshot, j.host)
                     ELSE CopyAllowed(j.items, j.snapshot, j.by)
  <1>1. JobOK(j) /\ SelectsBest(j) /\ j.pc = "copy" /\ Quiet
    BY DEF CandInv, SelectionInv, CopyRows, At20k
  <1>2. Turn(w, IF fits THEN [j EXCEPT !.pc = "gate", !.items = taken, !.queue = QueueOf(taken),
                                       !.snapshot = <<>>, !.after = <<>>]
                ELSE NoJob)
    BY DEF CopyRows, Source
  <1>3. CASE ~fits
    BY <1>1, <1>2, <1>3, SelectionStop DEF Quiet
  <1>4. CASE fits
    <2> DEFINE s == [j EXCEPT !.pc = "gate", !.items = taken, !.queue = QueueOf(taken),
                              !.snapshot = <<>>, !.after = <<>>]
    <2>1. j.by = "select" => BestOnce(taken, j.host)
      <3>1. SUFFICES ASSUME j.by = "select" PROVE BestOnce(taken, j.host)
        OBVIOUS
      <3>2. j.snapshot \in moments[j.host]
        BY <1>1 DEF JobOK
      <3>3. IsBestOf(j.items, j.snapshot) /\ j.items = [n \in 1 .. Limit |-> j.items[n]]
        BY <1>1, <3>1 DEF SelectsBest
      <3>4. CopyOf(j.items, j.snapshot) = j.items
        BY <3>3, CopyUnchanged
      <3>5. taken = j.items
        BY <3>1, <3>4
      <3> QED
        BY <3>2, <3>3, <3>5 DEF BestOnce
    <2>2. DOMAIN j = CandidateFields
      BY <1>1 DEF JobOK, Making
    <2>3. Turn(w, s)
      BY <1>2, <1>4
    <2> HIDE DEF j, taken, fits
    <2>4. s.pc = "gate" /\ s.items = taken /\ s.by = j.by /\ s.host = j.host
      BY <2>2 DEF CandidateFields
    <2> HIDE DEF s
    <2>5. SelectsBest(s)
      BY <2>1, <2>4 DEF SelectsBest
    <2> QED
      BY <1>1, <2>3, <2>5, SelectionJob DEF Quiet
  <1> QED
    BY <1>3, <1>4

LEMMA SelectionGate ==
    ASSUME CandInv, SelectionInv, NEW w \in Slots, Gate(w)
    PROVE  SelectionInv'
  <1> DEFINE j == job[w]
             s == [j EXCEPT !.pc = "publish"]
  <1>1. JobOK(j) /\ SelectsBest(j) /\ j.pc = "gate" /\ Quiet
    BY DEF CandInv, SelectionInv, Gate, At20k
  <1>2. Turn(w, NoJob) \/ Turn(w, s)
    BY DEF Gate
  <1>3. DOMAIN j = CandidateFields
    BY <1>1 DEF JobOK, Making
  <1> HIDE DEF j
  <1>4. s.pc = "publish" /\ s.items = j.items /\ s.by = j.by /\ s.host = j.host
    BY <1>3 DEF CandidateFields
  <1> HIDE DEF s
  <1>5. SelectsBest(s)
    BY <1>1, <1>4 DEF SelectsBest
  <1> QED
    BY <1>1, <1>2, <1>5, SelectionJob, SelectionStop DEF Quiet

LEMMA SelectionPublish ==
    ASSUME CandInv, SelectionInv, NEW w \in Slots, PublishFile(w)
    PROVE  SelectionInv'
  <1> DEFINE j == job[w]
             made == [items |-> j.items, queue |-> j.queue, by |-> j.by,
                      host |-> j.host, from |-> j.from]
  <1>1. SelectsBest(j) /\ j.pc = "publish" /\ Turn(w, NoJob) /\ UNCHANGED <<replica, moments>>
    BY DEF SelectionInv, PublishFile, At20k
  <1>2. file' = file \/ file' = [file EXCEPT ![j.dest] = made]
    BY DEF PublishFile
  <1>3. \A f \in File : file'[f] = file[f] \/ file'[f] = made
    BY <1>2 DEF CandInv
  <1>4. made.by = "select" => BestOnce(made.items, made.host)
    BY <1>1 DEF SelectsBest
  <1> HIDE DEF made, j
  <1>5. \A f \in File :
           file'[f] # Vacant /\ file'[f].by = "select" => BestOnce(file'[f].items, file'[f].host)
    BY <1>3, <1>4 DEF SelectionInv
  <1>6. \A v \in Slots : job'[v] = NoJob \/ job'[v] = job[v]
    BY <1>1 DEF CandInv, Turn
  <1>7. SelectsBest(NoJob)
    BY DEF SelectsBest, NoJob
  <1>8. \A v \in Slots : SelectsBest(job'[v])
    BY <1>6, <1>7 DEF SelectionInv
  <1>9. \A v \in Slots : SelectsBest(job[v])'
    BY <1>1, <1>8 DEF SelectsBest, BestOnce
  <1> QED
    BY <1>1, <1>5, <1>9 DEF SelectionInv, BestOnce

LEMMA SelectionEnrich ==
    ASSUME CandInv, SelectionInv, Enrich
    PROVE  SelectionInv'
  <1>1. PICK host \in Host : \E id \in DOMAIN replica[host] :
            \E row \in Variants[id] : replica' = [replica EXCEPT ![host][id] = row]
    BY DEF Enrich
  <1>2. PICK id \in DOMAIN replica[host] :
            \E row \in Variants[id] : replica' = [replica EXCEPT ![host][id] = row]
    BY <1>1
  <1>3. PICK row \in Variants[id] : replica' = [replica EXCEPT ![host][id] = row]
    BY <1>2
  <1>4. DOMAIN replica = Host /\ \A h \in Host : RowsOK(replica[h])
    BY DEF CandInv, SelectionInv
  <1>5. id \in DOMAIN Variants /\ IsRow(row)
    BY <1>3, <1>4, CandidateTypes DEF RowsOK
  <1>6. PICK new : new = [replica[host] EXCEPT ![id] = row]
    OBVIOUS
  <1>7. RowsOK(new)
    BY <1>4, <1>5, <1>6 DEF RowsOK
  <1>8. DOMAIN replica' = Host /\ \A h \in Host : replica'[h] = replica[h] \/ replica'[h] = new
    BY <1>3, <1>4, <1>6
  <1>9. \A h \in Host : moments'[h] = moments[h] \cup {replica'[h]}
    BY DEF Enrich
  <1>10. \A h \in Host : \A rows \in moments'[h] : RowsOK(rows)
    BY <1>4, <1>7, <1>8, <1>9 DEF SelectionInv
  <1>11. job' = job /\ file' = file
    BY DEF Enrich
  <1>12. \A h \in Host : \A items : BestOnce(items, h) => BestOnce(items, h)'
    BY <1>9 DEF BestOnce
  <1>13. \A v \in Slots : SelectsBest(job[v])'
    <2>1. SUFFICES ASSUME NEW v \in Slots PROVE SelectsBest(job[v])'
      OBVIOUS
    <2>2. PICK j : j = job[v] /\ JobOK(j) /\ SelectsBest(j) /\ job'[v] = j
      BY <1>11 DEF CandInv, SelectionInv
    <2>3. j.pc \in {"gate", "publish"} => j.host \in Host
      BY <2>2 DEF JobOK, Making
    <2> QED
      BY <1>12, <2>2, <2>3 DEF SelectsBest
  <1>14. \A f \in File : file[f] # Vacant => file[f].host \in Host
    BY DEF CandInv
  <1>15. \A f \in File : file[f] # Vacant /\ file[f].by = "select" =>
            BestOnce(file[f].items, file[f].host)'
    BY <1>11, <1>12, <1>14 DEF SelectionInv
  <1> QED
    BY <1>8, <1>10, <1>11, <1>13, <1>15 DEF SelectionInv

LEMMA SelectionPackage ==
    ASSUME CandInv, SelectionInv, NEW w \in Slots,
           \/ GateStaged(w) \/ RenameRelease(w) \/ ReserveRelease(w) \/ LinkPart(w)
           \/ SyncPackage(w) \/ UndoRelease(w) \/ KillJob(w)
    PROVE  SelectionInv'
  <1> DEFINE j == job[w]
  <1>1. JobOK(j) /\ UNCHANGED <<replica, moments, file>>
    BY DEF CandInv, GateStaged, RenameRelease, ReserveRelease, LinkPart, SyncPackage, UndoRelease,
           KillJob, Linking, Quiet
  <1>2. CASE Turn(w, NoJob)
    BY <1>1, <1>2, SelectionStop
  <1>3. CASE GateStaged(w) /\ ~Turn(w, NoJob)
    <2>1. PICK candidate : Turn(w, [pc |-> "release", canonical |-> j.canonical,
                                    input |-> j.input, candidate |-> candidate])
      BY <1>3 DEF GateStaged
    <2> DEFINE s == [pc |-> "release", canonical |-> j.canonical,
                     input |-> j.input, candidate |-> candidate]
    <2>2. s.pc \notin Making
      BY DEF Making
    <2> QED
      BY <1>1, <2>1, <2>2, SelectionElse
  <1>4. CASE (ReserveRelease(w) \/ LinkPart(w) \/ UndoRelease(w)) /\ ~Turn(w, NoJob)
    <2>1. PICK pc \in {"link", "undo"} : Turn(w, [j EXCEPT !.pc = pc])
      BY <1>4 DEF ReserveRelease, LinkPart, UndoRelease, Linking
    <2>2. j.pc \in {"release"} \cup Writing
      BY <1>4 DEF ReserveRelease, LinkPart, UndoRelease, At20k, Writing
    <2>3. DOMAIN j = {"pc", "canonical", "input", "candidate"}
      BY <1>1, <2>2 DEF JobOK
    <2> HIDE DEF j
    <2> DEFINE s == [j EXCEPT !.pc = pc]
    <2>4. s.pc \notin Making
      BY <2>1, <2>3 DEF Making
    <2> QED
      BY <1>1, <2>1, <2>4, SelectionElse
  <1>5. (RenameRelease(w) \/ SyncPackage(w) \/ KillJob(w)) => Turn(w, NoJob)
    BY DEF RenameRelease, SyncPackage, KillJob
  <1> QED
    BY <1>2, <1>3, <1>4, <1>5

(* A published selection is the best of what its replica was at one moment: however
   rows become fit or unfit while it is scanned page by page, however the pages fall,
   and for every limit, phrase target and minimum of words. *)
THEOREM SelectionsAreBest == CandidateSpec => []SelectionIsBest
  <1>1. CandInv /\ SelectionInv /\ [CandidateNext]_candidateVars => SelectionInv'
    <2>1. SUFFICES ASSUME CandInv, SelectionInv, [CandidateNext]_candidateVars PROVE SelectionInv'
      OBVIOUS
    <2>2. CASE UNCHANGED candidateVars
      BY <2>1, <2>2 DEF candidateVars, SelectionInv, SelectsBest, BestOnce
    <2>3. CASE Enrich
      BY <2>1, <2>3, SelectionEnrich
    <2> QED
      BY <2>1, <2>2, <2>3, SelectionLaunch, SelectionOpen, SelectionScan, SelectionChoose,
         SelectionCopy, SelectionGate, SelectionPublish, SelectionPackage DEF CandidateNext
  <1>2. SelectionInv => SelectionIsBest
    BY DEF SelectionInv, SelectionIsBest, Candidates, BestOnce
  <1> QED
    BY <1>1, <1>2, SelectionStart, CandidateInvariant, PTL DEF CandidateSpec
=============================================================================
