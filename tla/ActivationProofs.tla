--------------------------- MODULE ActivationProofs ---------------------------
(***************************************************************************)
(* An activation as the workflow sees it and as the control script does it *)
(* on one host, for every value of the constants.                          *)
(*                                                                         *)
(*   1. ActivationCoordinator: a run that ends with its result known has   *)
(*      both hosts in one release, the one of before or the new one, and   *)
(*      owes no timer to a host that its last step reached.                *)
(*   2. ReleaseControl: releases change together, whatever the control     *)
(*      script is cut by, when no release is activated or rolled back      *)
(*      while another is unfinished.                                       *)
(***************************************************************************)
EXTENDS ActivationCoordinator, ReleaseControl, SequenceTheorems, TLAPS

BusySet == {Free} \cup [cmd : {"activate", "rollback"}, release : ReleaseId, attached : BOOLEAN]
HostSet == [active : Seq(ReleaseId), tried : SUBSET ReleaseId, timer : BOOLEAN, busy : BusySet]
RunPc == {"ended", "pause", "verify", "activate", "await", "check", "undo", "awaitUndo", "timers"}
\* The hosts are begun with in their order.
InOrder(b) == Len(b) <= 2 /\ \A i \in 1 .. Len(b) : b[i] = i
RunSet == [pc : RunPc, release : ReleaseId, at : 0 .. 2, begun : Seq(Host),
           before : [Host -> Seq(ReleaseId)], adrift : SUBSET Host, unreached : SUBSET Host,
           result : Results]

CoordinatorTypes ==
    /\ host \in [Host -> HostSet] /\ run \in RunSet /\ InOrder(run.begun)
    /\ \A h \in Host : \A i \in 1 .. Len(host[h].active) : host[h].active[i] \in host[h].tried

\* Where the run is.
Placed ==
    /\ run.pc \in {"pause", "verify", "activate", "await", "check", "timers"} => Here > 0
    /\ run.pc = "verify" => Here = 1
    /\ run.pc \in {"pause", "verify"} => run.begun = <<>>
    /\ run.pc = "activate" => Len(run.begun) = Here - 1
    /\ run.pc = "await" => Len(run.begun) = Here
    /\ run.pc \in {"undo", "awaitUndo"} => Here <= Len(run.begun)
    /\ run.pc = "awaitUndo" => Here > 0

\* The coordinator hears the command that it waits for, and no other.
HearsOne ==
    \A h \in Host : host[h].busy.attached =>
        /\ h = Here /\ host[h].busy.release = run.release
        /\ run.pc = (IF host[h].busy.cmd = "activate" THEN "await" ELSE "awaitUndo")

\* What the run owes to a host that is not adrift.
Tracked(h) ==
    /\ host[h].busy # Free => host[h].busy.attached
    /\ run.before[h] # <<>> => Head(run.before[h]) # run.release
    /\ host[h].active \in {run.before[h], <<run.release>> \o run.before[h]}
    /\ \/ h > Len(run.begun)
       \/ run.pc = "await" /\ h = Here
       => host[h].active = run.before[h] /\ run.release \notin host[h].tried
    /\ run.pc \in {"undo", "awaitUndo"} /\ h > Here => host[h].active = run.before[h]
    /\ run.pc \in {"timers", "ended"} /\ run.result = "failed" => host[h].active = run.before[h]
    /\ run.pc = "ended" \/ (run.pc = "timers" /\ h < Here) =>
          host[h].timer \/ h \in run.unreached

\* A host that has been activated serves the release, and nothing runs on it
\* before the check is over.
Undisturbed ==
    /\ run.pc \in {"activate", "await"} /\ Here = 2 =>
          host[1].busy = Free /\ Serves(1, run.release)
    /\ run.pc = "check" => \A h \in Host : host[h].busy = Free /\ Serves(h, run.release)
    /\ run.pc \in {"timers", "ended"} /\ run.result = "succeeded" =>
          \A h \in Host : host[h].busy = Free /\ Serves(h, run.release)

CoordinatorInv ==
    /\ CoordinatorTypes /\ Placed /\ HearsOne /\ Undisturbed
    /\ \A h \in Host \ run.adrift : Tracked(h)

-----------------------------------------------------------------------------
LEMMA BegunFacts ==
    ASSUME NEW b \in Seq(Host), InOrder(b), NEW c, c = Append(b, Len(b) + 1), Len(b) < 2
    PROVE  c \in Seq(Host) /\ InOrder(c) /\ Len(c) = Len(b) + 1
  <1>0. PICK n \in Nat : n = Len(b)
    OBVIOUS
  <1>1. Len(b) \in 0 .. 1 /\ \A i \in 1 .. Len(b) : b[i] = i
    <2>1. n \in 0 .. 1
      BY <1>0
    <2>2. \A i \in 1 .. Len(b) : b[i] = i
      BY DEF InOrder
    <2>3. QED
      BY <2>1, <2>2, <1>0
  <1>2. Len(b) + 1 \in Host
    BY <1>1 DEF Host
  <1>3. c \in Seq(Host) /\ Len(c) = Len(b) + 1
          /\ \A i \in 1 .. Len(b) + 1 : c[i] = IF i = Len(b) + 1 THEN Len(b) + 1 ELSE b[i]
    BY <1>1, <1>2
  <1>4. \A i \in 1 .. Len(c) : c[i] = i
    BY <1>1, <1>3
  <1>5. QED
    BY <1>1, <1>3, <1>4 DEF InOrder

LEMMA RunFacts ==
    ASSUME run \in RunSet
    PROVE  /\ run.pc \in RunPc /\ run.release \in ReleaseId /\ run.at \in 0 .. 2
           /\ run.begun \in Seq(Host) /\ (InOrder(run.begun) => Len(run.begun) \in 0 .. 2)
           /\ run.before \in [Host -> Seq(ReleaseId)] /\ run.adrift \subseteq Host
           /\ run.unreached \subseteq Host /\ run.result \in Results
           /\ run = [pc |-> run.pc, release |-> run.release, at |-> run.at, begun |-> run.begun,
                     before |-> run.before, adrift |-> run.adrift,
                     unreached |-> run.unreached, result |-> run.result]
  <1>1. /\ run.pc \in RunPc /\ run.release \in ReleaseId /\ run.at \in 0 .. 2
        /\ run.begun \in Seq(Host)
        /\ run.before \in [Host -> Seq(ReleaseId)] /\ run.adrift \subseteq Host
        /\ run.unreached \subseteq Host /\ run.result \in Results
        /\ run = [pc |-> run.pc, release |-> run.release, at |-> run.at, begun |-> run.begun,
                  before |-> run.before, adrift |-> run.adrift,
                  unreached |-> run.unreached, result |-> run.result]
    BY DEF RunSet
  <1>2. PICK n \in Nat : n = Len(run.begun)
    BY <1>1
  <1>3. ASSUME InOrder(run.begun) PROVE n \in 0 .. 2
    <2>1. n <= 2
      BY <1>3, <1>2 DEF InOrder
    <2>2. QED
      BY <2>1
  <1>4. QED
    BY <1>1, <1>2, <1>3

RunFields == {"pc", "release", "at", "begun", "before", "adrift", "unreached", "result"}

LEMMA RunShape ==
    ASSUME run \in RunSet, run'.pc \in RunPc, run'.at \in 0 .. 2, run'.begun \in Seq(Host),
           run'.result \in Results, run'.adrift \in SUBSET Host,
           run'.unreached = run.unreached \/ run'.unreached \in SUBSET Host,
           run'.release = run.release, run'.before = run.before,
           run' = [field \in RunFields |-> run'[field]]
    PROVE  run' \in RunSet
  <1>1. /\ run.release \in ReleaseId /\ run.before \in [Host -> Seq(ReleaseId)]
        /\ run'.unreached \in SUBSET Host
    BY RunFacts
  <1>2. run' = [pc |-> run'.pc, release |-> run'.release, at |-> run'.at, begun |-> run'.begun,
                before |-> run'.before, adrift |-> run'.adrift,
                unreached |-> run'.unreached, result |-> run'.result]
    BY DEF RunFields
  <1>3. QED
    BY <1>1, <1>2 DEF RunSet

\* A step of the coordinator leaves the release and what the hosts served.
RunFrom(p, a, b, result, drift) ==
    /\ run'.pc = p /\ run'.at = a /\ run'.begun = b /\ run'.result = result
    /\ run'.adrift = drift /\ run'.release = run.release /\ run'.before = run.before
    /\ run'.unreached = run.unreached
    /\ run' = [field \in RunFields |-> run'[field]]

LEMMA HostFacts ==
    ASSUME host \in [Host -> HostSet], NEW h \in Host
    PROVE  /\ host[h].active \in Seq(ReleaseId) /\ host[h].tried \subseteq ReleaseId
           /\ host[h].timer \in BOOLEAN /\ host[h].busy \in BusySet
           /\ host[h].busy = Free \/ (/\ host[h].busy # Free
                                      /\ host[h].busy.cmd \in {"activate", "rollback"}
                                      /\ host[h].busy.release \in ReleaseId
                                      /\ host[h].busy.attached \in BOOLEAN)
           /\ host[h] = [active |-> host[h].active, tried |-> host[h].tried,
                         timer |-> host[h].timer, busy |-> host[h].busy]
  BY DEF HostSet, BusySet, Free

LEMMA FreeFacts == ~Free.attached /\ Free.cmd = "none" /\ Free \in BusySet
  BY DEF Free, BusySet

HostFields == {"active", "tried", "timer", "busy"}

LEMMA HostShape ==
    ASSUME NEW new, new.active \in Seq(ReleaseId), new.tried \in SUBSET ReleaseId,
           new.timer \in BOOLEAN, new.busy \in BusySet,
           new = [field \in HostFields |-> new[field]]
    PROVE  new \in HostSet
  <1>1. new = [active |-> new.active, tried |-> new.tried, timer |-> new.timer, busy |-> new.busy]
    BY DEF HostFields
  <1>2. QED
    BY <1>1 DEF HostSet

\* A release put before the others is the head, and what is left is the tail.
LEMMA Doubled ==
    ASSUME NEW s \in Seq(ReleaseId), NEW r \in ReleaseId, NEW x, x = <<r>> \o s
    PROVE  /\ x \in Seq(ReleaseId) /\ x # <<>> /\ Head(x) = r /\ Tail(x) = s
           /\ \A i \in 1 .. Len(x) : x[i] = r \/ \E j \in 1 .. Len(s) : x[i] = s[j]
  <1>1. x \in Seq(ReleaseId) /\ Len(x) = Len(s) + 1 /\ x[1] = r
          /\ \A i \in 1 .. Len(s) : x[i + 1] = s[i]
    OBVIOUS
  <1>2. Len(s) \in Nat
    OBVIOUS
  <1>3. x # <<>> /\ Head(x) = r
    BY <1>1, <1>2
  <1>4. Tail(x) \in Seq(ReleaseId) /\ Len(Tail(x)) = Len(s)
          /\ \A i \in 1 .. Len(s) : Tail(x)[i] = s[i]
    BY <1>1, <1>2, <1>3
  <1>5. Tail(x) = s
    BY <1>4, SeqEqual
  <1>6. ASSUME NEW i \in 1 .. Len(x), i # 1
        PROVE  \E j \in 1 .. Len(s) : x[i] = s[j]
    <2>1. i - 1 \in 1 .. Len(s) /\ i = (i - 1) + 1
      BY <1>1, <1>2, <1>6
    <2>2. x[i] = s[i - 1]
      BY <1>1, <2>1
    <2>3. QED
      BY <2>1, <2>2
  <1>7. QED
    BY <1>1, <1>3, <1>5, <1>6

\* The releases of a host that loses its newest are those it had.
LEMMA Unstacked ==
    ASSUME NEW s \in Seq(ReleaseId), s # <<>>, NEW tried,
           \A i \in 1 .. Len(s) : s[i] \in tried, NEW x, x = Tail(s)
    PROVE  x \in Seq(ReleaseId) /\ \A i \in 1 .. Len(x) : x[i] \in tried
  <1>1. x \in Seq(ReleaseId) /\ Len(x) = Len(s) - 1
          /\ \A i \in 1 .. Len(s) - 1 : x[i] = s[i + 1]
    OBVIOUS
  <1>2. Len(s) \in Nat
    OBVIOUS
  <1>3. ASSUME NEW i \in 1 .. Len(x) PROVE x[i] \in tried
    <2>1. i \in 1 .. Len(s) - 1 /\ i + 1 \in 1 .. Len(s)
      BY <1>1, <1>2
    <2>2. QED
      BY <1>1, <2>1
  <1>4. QED
    BY <1>1, <1>3

\* The newest release of a host is one it tried.
LEMMA HeadTried ==
    ASSUME NEW s \in Seq(ReleaseId), s # <<>>, NEW tried,
           \A i \in 1 .. Len(s) : s[i] \in tried
    PROVE  Head(s) \in tried
  <1>1. Len(s) \in Nat /\ Len(s) # 0
    OBVIOUS
  <1>2. 1 \in 1 .. Len(s) /\ Head(s) = s[1]
    BY <1>1
  <1>3. QED
    BY <1>2

-----------------------------------------------------------------------------
LEMMA InitCoordinator == CoordinatorInit => CoordinatorInv
  <1> SUFFICES ASSUME CoordinatorInit PROVE CoordinatorInv
    OBVIOUS
  <1>1. /\ run.pc = "ended" /\ run.release \in ReleaseId /\ run.at = 1 /\ run.begun = <<>>
        /\ run.before = [h \in Host |-> <<>>] /\ run.adrift = {} /\ run.result = "none"
        /\ run \in RunSet
    <2>1. /\ run = [pc |-> run.pc, release |-> run.release, at |-> run.at, begun |-> run.begun,
                    before |-> run.before, adrift |-> run.adrift,
                    unreached |-> run.unreached, result |-> run.result]
          /\ run.unreached = {}
          /\ run.pc = "ended" /\ run.release \in ReleaseId /\ run.at = 1 /\ run.begun = <<>>
          /\ run.before = [h \in Host |-> <<>>] /\ run.adrift = {} /\ run.result = "none"
      BY DEF CoordinatorInit
    <2>2. /\ run.pc \in RunPc /\ run.at \in 0 .. 2 /\ run.result \in Results
          /\ run.adrift \in SUBSET Host /\ run.unreached \in SUBSET Host
      BY <2>1 DEF RunPc, Results
    <2>3. run.begun \in Seq(Host) /\ run.before \in [Host -> Seq(ReleaseId)]
      BY <2>1
    <2>4. run \in RunSet
      BY <2>1, <2>2, <2>3 DEF RunSet
    <2>5. QED
      BY <2>1, <2>4
  <1>2. \A h \in Host : /\ host[h].active = <<>> /\ host[h].tried = {} /\ host[h].timer = TRUE
                        /\ host[h].busy = Free /\ host[h] \in HostSet
    BY DEF CoordinatorInit, HostSet, BusySet
  <1>3. host \in [Host -> HostSet]
    BY <1>2 DEF CoordinatorInit
  <1>4. CoordinatorTypes
    BY <1>1, <1>2, <1>3 DEF CoordinatorTypes, InOrder
  <1>5. Placed /\ HearsOne /\ Undisturbed
    BY <1>1, <1>2, FreeFacts DEF Placed, HearsOne, Undisturbed, Here
  <1>6. ASSUME NEW h \in Host PROVE Tracked(h)
    BY <1>1, <1>2 DEF Tracked, Host
  <1>7. QED
    BY <1>4, <1>5, <1>6 DEF CoordinatorInv

-----------------------------------------------------------------------------
LEMMA DispatchStep ==
    ASSUME CoordinatorInv, NEW r \in ReleaseId, Dispatch(r)
    PROVE  CoordinatorInv'
  <1>1. /\ host \in [Host -> HostSet] /\ run \in RunSet /\ host' = host /\ run.pc = "ended"
        /\ \A h \in Host : \A i \in 1 .. Len(host[h].active) : host[h].active[i] \in host[h].tried
    BY DEF CoordinatorInv, CoordinatorTypes, Dispatch, RunAt
  <1>2. PICK before, drift : /\ before = [h \in Host |-> host[h].active]
                             /\ drift = {h \in Host : r \in host[h].tried \/ host[h].busy # Free}
    OBVIOUS
  <1>3. run' = [pc |-> "pause", release |-> r, at |-> 1, begun |-> <<>>, before |-> before,
                unreached |-> {}, result |-> "failed", adrift |-> drift]
    BY <1>2 DEF Dispatch
  <1>4. /\ before \in [Host -> Seq(ReleaseId)] /\ drift \in SUBSET Host
        /\ \A h \in Host : before[h] = host[h].active
        /\ \A h \in Host \ drift : r \notin host[h].tried /\ host[h].busy = Free
    BY <1>1, <1>2, HostFacts
  <1>5. run' \in RunSet
    BY <1>3, <1>4 DEF RunSet, RunPc, Results
  <1>6. /\ run'.pc = "pause" /\ run'.release = r /\ run'.at = 1 /\ run'.begun = <<>>
        /\ run'.before = before /\ run'.adrift = drift /\ run'.result = "failed"
    BY <1>3
  <1>7. CoordinatorTypes'
    BY <1>1, <1>5, <1>6 DEF CoordinatorTypes, InOrder
  <1>8. HearsOne'
    BY <1>1, <1>6 DEF CoordinatorInv, HearsOne
  <1>9. Placed' /\ Undisturbed'
    BY <1>6 DEF Placed, Undisturbed, Here
  <1>10. ASSUME NEW h \in Host \ drift PROVE Tracked(h)'
    <2>1. host[h].active \in Seq(ReleaseId)
      BY <1>1, HostFacts
    <2>2. host[h].active # <<>> => Head(host[h].active) # r
      BY <1>1, <1>4, <2>1, HeadTried
    <2>3. QED
      BY <1>1, <1>4, <1>6, <2>2 DEF Tracked, Here
  <1>11. QED
    BY <1>6, <1>7, <1>8, <1>9, <1>10 DEF CoordinatorInv

\* What the invariant says, and a step that leaves it to the hosts as they are.
LEMMA KeepHosts ==
    ASSUME CoordinatorInv, host' = host, run' \in RunSet, InOrder(run'.begun),
           Placed', HearsOne', Undisturbed',
           \A h \in Host \ run'.adrift : Tracked(h)'
    PROVE  CoordinatorInv'
  BY DEF CoordinatorInv, CoordinatorTypes

LEMMA PauseTimerStep ==
    ASSUME CoordinatorInv, PauseTimer
    PROVE  CoordinatorInv'
  <1>1. /\ host \in [Host -> HostSet] /\ run \in RunSet /\ run.pc = "pause" /\ InOrder(run.begun)
        /\ \A h \in Host : \A i \in 1 .. Len(host[h].active) : host[h].active[i] \in host[h].tried
    BY DEF CoordinatorInv, CoordinatorTypes, PauseTimer, RunAt
  <1>2. /\ run.at \in 1 .. 2 /\ run.begun = <<>> /\ run.begun \in Seq(Host)
        /\ run.adrift \in SUBSET Host /\ run.result \in Results
    BY <1>1, RunFacts DEF CoordinatorInv, Placed, Here
  <1>3. PICK p \in RunPc, a \in 0 .. 2, result \in Results :
          /\ run' \in RunSet /\ RunFrom(p, a, run.begun, result, run.adrift)
          /\ a \in 1 .. 2
          /\ \/ p = "timers" /\ a = 1 /\ result = "failed"
             \/ p = "pause"
             \/ p = "verify" /\ a = 1
    <2>0. {"timers", "pause", "verify"} \subseteq RunPc /\ "failed" \in Results
      BY DEF RunPc, Results
    <2>1. CASE run' = Leave("failed")
      <3>1. RunFrom("timers", 1, run.begun, "failed", run.adrift)
        BY <1>1, <2>1, RunFacts DEF Leave, RunFrom, RunFields
      <3>2. run' \in RunSet
        BY <1>1, <1>2, <2>0, <3>1, RunShape DEF RunFrom
      <3>3. QED
        BY <2>0, <3>1, <3>2
    <2>2. CASE run' = [run EXCEPT !.at = 2]
      <3>1. RunFrom("pause", 2, run.begun, run.result, run.adrift)
        BY <1>1, <2>2, RunFacts DEF RunFrom, RunFields
      <3>2. run' \in RunSet
        BY <1>1, <1>2, <2>0, <3>1, RunShape DEF RunFrom
      <3>3. QED
        BY <1>2, <2>0, <3>1, <3>2
    <2>3. CASE run' = [run EXCEPT !.pc = "verify", !.at = 1]
      <3>1. RunFrom("verify", 1, run.begun, run.result, run.adrift)
        BY <1>1, <2>3, RunFacts DEF RunFrom, RunFields
      <3>2. run' \in RunSet
        BY <1>1, <1>2, <2>0, <3>1, RunShape DEF RunFrom
      <3>3. QED
        BY <1>2, <2>0, <3>1, <3>2
    <2>4. QED
      BY <2>1, <2>2, <2>3 DEF PauseTimer
  <1>4. /\ host' \in [Host -> HostSet]
        /\ \A h \in Host : /\ host'[h].active = host[h].active /\ host'[h].tried = host[h].tried
                           /\ host'[h].busy = host[h].busy
    <2>0. run.at \in Host /\ (host' = host \/ host' = [host EXCEPT ![run.at].timer = FALSE])
      BY <1>2 DEF PauseTimer, Here, Host
    <2>1. SUFFICES ASSUME host' = [host EXCEPT ![run.at].timer = FALSE]
                   PROVE  /\ host' \in [Host -> HostSet]
                          /\ \A h \in Host : /\ host'[h].active = host[h].active
                                             /\ host'[h].tried = host[h].tried
                                             /\ host'[h].busy = host[h].busy
      BY <1>1, <2>0
    <2>2. PICK at \in Host, old \in HostSet : at = run.at /\ old = host[at]
      BY <1>1, <2>0
    <2>3. PICK new : new = [old EXCEPT !.timer = FALSE]
      OBVIOUS
    <2>4. /\ new.active = old.active /\ new.tried = old.tried /\ new.timer = FALSE
          /\ new.busy = old.busy /\ new = [field \in HostFields |-> new[field]]
      BY <2>3 DEF HostSet, HostFields
    <2>5. new \in HostSet
      BY <2>4, HostShape DEF HostSet
    <2>6. host' = [host EXCEPT ![at] = new]
      BY <2>1, <2>2, <2>3
    <2>7. host'[at] = new /\ \A g \in Host : g # at => host'[g] = host[g]
      BY <1>1, <2>6
    <2>8. host' \in [Host -> HostSet]
      BY <1>1, <2>5, <2>6
    <2>9. QED
      BY <2>2, <2>4, <2>7, <2>8
  <1>5. CoordinatorTypes'
    BY <1>1, <1>3, <1>4 DEF CoordinatorTypes, RunFrom
  <1>6. Placed'
    BY <1>2, <1>3 DEF Placed, Here, RunFrom
  <1>7. HearsOne'
    BY <1>1, <1>4 DEF CoordinatorInv, HearsOne
  <1>8. Undisturbed'
    BY <1>3 DEF Undisturbed, Here, RunFrom
  <1>9. ASSUME NEW h \in Host \ run.adrift PROVE Tracked(h)'
    <2>1. Tracked(h) /\ h > Len(run.begun)
      BY <1>2, <1>9 DEF CoordinatorInv, Host
    <2>2. h \in 1 .. 2
      BY DEF Host
    <2>3. QED
      BY <1>1, <1>3, <1>4, <2>1, <2>2 DEF Tracked, Here, RunFrom
  <1>10. QED
    BY <1>3, <1>5, <1>6, <1>7, <1>8, <1>9 DEF CoordinatorInv, RunFrom

LEMMA VerifyStep ==
    ASSUME CoordinatorInv, Verify
    PROVE  CoordinatorInv'
  <1>1. /\ run \in RunSet /\ run.pc = "verify" /\ InOrder(run.begun) /\ host' = host
    BY DEF CoordinatorInv, CoordinatorTypes, Verify, RunAt
  <1>2. /\ run.at = 1 /\ run.begun = <<>> /\ run.begun \in Seq(Host)
        /\ run.adrift \in SUBSET Host /\ run.result \in Results
    BY <1>1, RunFacts DEF CoordinatorInv, Placed, Here
  <1>3. /\ run' \in RunSet /\ run'.at = 1 /\ run'.begun = run.begun
        /\ run'.adrift = run.adrift /\ run'.release = run.release /\ run'.before = run.before
        /\ run'.unreached = run.unreached
        /\ run'.pc \in {"timers", "activate"} /\ (run'.pc = "timers" => run'.result = "failed")
    <2>0. {"timers", "activate"} \subseteq RunPc /\ "failed" \in Results
      BY DEF RunPc, Results
    <2>1. CASE run' = Leave("failed")
      <3>1. RunFrom("timers", 1, run.begun, "failed", run.adrift)
        BY <1>1, <2>1, RunFacts DEF Leave, RunFrom, RunFields
      <3>2. run' \in RunSet
        BY <1>1, <1>2, <2>0, <3>1, RunShape DEF RunFrom
      <3>3. QED
        BY <1>2, <3>1, <3>2 DEF RunFrom
    <2>2. CASE run' = [run EXCEPT !.pc = "activate"]
      <3>1. RunFrom("activate", 1, run.begun, run.result, run.adrift)
        BY <1>1, <1>2, <2>2, RunFacts DEF RunFrom, RunFields
      <3>2. run' \in RunSet
        BY <1>1, <1>2, <2>0, <3>1, RunShape DEF RunFrom
      <3>3. QED
        BY <1>2, <3>1, <3>2 DEF RunFrom
    <2>3. QED
      BY <2>1, <2>2 DEF Verify
  <1>4. Placed' /\ Undisturbed'
    BY <1>2, <1>3 DEF Placed, Undisturbed, Here
  <1>5. HearsOne'
    BY <1>1 DEF CoordinatorInv, HearsOne
  <1>6. ASSUME NEW h \in Host \ run.adrift PROVE Tracked(h)'
    <2>1. Tracked(h) /\ h > Len(run.begun) /\ h \in 1 .. 2
      BY <1>2, <1>6 DEF CoordinatorInv, Host
    <2>2. QED
      BY <1>1, <1>2, <1>3, <2>1 DEF Tracked, Here
  <1>7. QED
    BY <1>1, <1>3, <1>4, <1>5, <1>6, KeepHosts

\* The host that is activated next is the one after those begun with.
LEMMA StartActivationStep ==
    ASSUME CoordinatorInv, StartActivation
    PROVE  CoordinatorInv'
  <1>1. /\ host \in [Host -> HostSet] /\ run \in RunSet /\ run.pc = "activate" /\ InOrder(run.begun)
        /\ \A h \in Host : \A i \in 1 .. Len(host[h].active) : host[h].active[i] \in host[h].tried
    BY DEF CoordinatorInv, CoordinatorTypes, StartActivation, RunAt
  <1>2. /\ run.at \in 1 .. 2 /\ Len(run.begun) = run.at - 1 /\ run.begun \in Seq(Host)
        /\ run.adrift \in SUBSET Host /\ run.result \in Results /\ run.release \in ReleaseId
    BY <1>1, RunFacts DEF CoordinatorInv, Placed, Here
  <1>3. PICK at \in Host, old \in HostSet, b \in Seq(Host) :
          /\ at = run.at /\ old = host[at] /\ b = run.begun
    BY <1>1, <1>2 DEF Host
  <1>3a. PICK c : c = Append(b, at)
    OBVIOUS
  <1>4. at \in 1 .. 2 /\ Len(b) = at - 1 /\ Len(b) < 2 /\ at = Len(b) + 1
    BY <1>2, <1>3
  <1>5. c \in Seq(Host) /\ InOrder(c) /\ Len(c) = at
    BY <1>1, <1>3, <1>3a, <1>4, BegunFacts
  <1>6. RunFrom("await", run.at, c, run.result, run.adrift)
    <2>1. run' = [run EXCEPT !.pc = "await", !.begun = c]
      BY <1>3, <1>3a DEF StartActivation, Here
    <2>2. QED
      BY <1>1, <2>1, RunFacts DEF RunFrom, RunFields
  <1>7. run' \in RunSet
    BY <1>1, <1>2, <1>5, <1>6, RunShape DEF RunFrom, RunPc
  <1>8. old.busy = Free
    BY <1>3 DEF StartActivation, Here
  <1>9. PICK busy : busy = [cmd |-> "activate", release |-> run.release, attached |-> TRUE]
    OBVIOUS
  <1>10. busy \in BusySet /\ busy.cmd = "activate" /\ busy.release = run.release /\ busy.attached
    BY <1>2, <1>9 DEF BusySet
  <1>11. PICK new : new = [old EXCEPT !.busy = busy]
    OBVIOUS
  <1>12. /\ new.active = old.active /\ new.tried = old.tried /\ new.timer = old.timer
         /\ new.busy = busy /\ new = [field \in HostFields |-> new[field]]
    BY <1>11 DEF HostSet, HostFields
  <1>13. new \in HostSet
    BY <1>10, <1>12, HostShape DEF HostSet
  <1>14. host' = [host EXCEPT ![at] = new]
    BY <1>3, <1>9, <1>11 DEF StartActivation, Here, Remote
  <1>15. host'[at] = new /\ \A g \in Host : g # at => host'[g] = host[g]
    BY <1>1, <1>14
  <1>16. host' \in [Host -> HostSet]
    BY <1>1, <1>13, <1>14
  <1>17. CoordinatorTypes'
    BY <1>1, <1>3, <1>5, <1>6, <1>7, <1>12, <1>15, <1>16 DEF CoordinatorTypes, RunFrom
  <1>18. Placed'
    BY <1>2, <1>3, <1>5, <1>6 DEF Placed, Here, RunFrom
  <1>19. HearsOne'
    <2>1. ASSUME NEW g \in Host, g # at PROVE ~host'[g].busy.attached
      BY <1>1, <1>15, <2>1 DEF CoordinatorInv, HearsOne
    <2>2. QED
      BY <1>3, <1>6, <1>10, <1>12, <1>15, <2>1 DEF HearsOne, Here, RunFrom
  <1>20. Undisturbed'
    <2>1. at = 2 => host[1].busy = Free /\ Serves(1, run.release)
      BY <1>1, <1>3 DEF CoordinatorInv, Undisturbed, Here
    <2>2. at = 2 => host'[1] = host[1]
      BY <1>15 DEF Host
    <2>3. at = 2 => /\ host'[1].busy = Free /\ host'[1].active # <<>>
                    /\ Head(host'[1].active) = run.release
      BY <2>1, <2>2 DEF Serves
    <2>4. QED
      BY <1>3, <1>6, <2>3 DEF Undisturbed, Here, RunFrom, Serves
  <1>21. ASSUME NEW h \in Host \ run.adrift PROVE Tracked(h)'
    <2>1. Tracked(h) /\ h \in 1 .. 2
      BY DEF CoordinatorInv, Host
    <2>2. /\ host'[h].active = host[h].active /\ host'[h].tried = host[h].tried
          /\ (h # at => host'[h].busy = host[h].busy)
          /\ (h = at => host'[h].busy.attached)
      BY <1>3, <1>10, <1>12, <1>15
    <2>3. h >= at => host[h].active = run.before[h] /\ run.release \notin host[h].tried
      BY <1>3, <1>4, <2>1 DEF Tracked
    <2>4. /\ host[h].active \in {run.before[h], <<run.release>> \o run.before[h]}
          /\ run.before[h] # <<>> => Head(run.before[h]) # run.release
          /\ host[h].busy # Free => host[h].busy.attached
      BY <2>1 DEF Tracked
    <2>5. h > Len(c) => h >= at
      BY <1>4, <1>5, <2>1
    <2>6. /\ run'.pc = "await" /\ run'.at = at /\ run'.begun = c
          /\ run'.before = run.before /\ run'.release = run.release
      BY <1>3, <1>6 DEF RunFrom
    <2>7. h > Len(run'.begun) \/ (run'.pc = "await" /\ h = run'.at) => h >= at
      BY <1>4, <2>1, <2>5, <2>6
    <2>8. host'[h].busy # Free => host'[h].busy.attached
      BY <2>2, <2>4
    <2>9. QED
      BY <2>2, <2>3, <2>4, <2>6, <2>7, <2>8 DEF Tracked, Here
  <1>22. QED
    BY <1>6, <1>17, <1>18, <1>19, <1>20, <1>21 DEF CoordinatorInv, RunFrom

LEMMA ActivationRefusedStep ==
    ASSUME CoordinatorInv, ActivationRefused
    PROVE  CoordinatorInv'
  <1>1. /\ run \in RunSet /\ run.pc = "activate" /\ InOrder(run.begun) /\ host' = host
    BY DEF CoordinatorInv, CoordinatorTypes, ActivationRefused, RunAt
  <1>2. /\ run.at \in 1 .. 2 /\ Len(run.begun) = run.at - 1 /\ run.begun \in Seq(Host)
        /\ run.adrift \in SUBSET Host /\ run.result \in Results
    BY <1>1, RunFacts DEF CoordinatorInv, Placed, Here
  <1>3. PICK at \in Host, b \in Seq(Host) : at = run.at /\ b = run.begun
    BY <1>2 DEF Host
  <1>3a. PICK c : c = Append(b, at)
    OBVIOUS
  <1>4. at \in 1 .. 2 /\ Len(b) = at - 1 /\ Len(b) < 2 /\ at = Len(b) + 1
    BY <1>2, <1>3
  <1>5. c \in Seq(Host) /\ InOrder(c) /\ Len(c) = at
    BY <1>1, <1>3, <1>3a, <1>4, BegunFacts
  <1>6. RunFrom("undo", at, c, run.result, run.adrift)
    <2>1. run' = [run EXCEPT !.begun = c, !.pc = "undo", !.at = at]
      BY <1>3, <1>3a, <1>4 DEF ActivationRefused, Here
    <2>2. QED
      BY <1>1, <2>1, RunFacts DEF RunFrom, RunFields
  <1>7. run' \in RunSet
    <2>1. at \in 0 .. 2 /\ "undo" \in RunPc
      BY <1>4 DEF RunPc
    <2>2. c \in Seq(Host)
      BY <1>5
    <2>3. QED
      BY <1>1, <1>2, <1>6, <2>1, <2>2, RunShape DEF RunFrom
  <1>8. Placed' /\ Undisturbed'
    BY <1>4, <1>5, <1>6 DEF Placed, Undisturbed, Here, RunFrom
  <1>9. HearsOne'
    BY <1>1 DEF CoordinatorInv, HearsOne
  <1>10. ASSUME NEW h \in Host \ run.adrift PROVE Tracked(h)'
    <2>1. Tracked(h) /\ h \in 1 .. 2
      BY DEF CoordinatorInv, Host
    <2>2. h > at => h > Len(run.begun)
      BY <1>3, <1>4, <2>1
    <2>3. QED
      BY <1>1, <1>5, <1>6, <2>1, <2>2 DEF Tracked, Here, RunFrom
  <1>11. QED
    BY <1>1, <1>5, <1>6, <1>7, <1>8, <1>9, <1>10, KeepHosts DEF RunFrom

LEMMA CheckStep ==
    ASSUME CoordinatorInv, Check
    PROVE  CoordinatorInv'
  <1>1. /\ run \in RunSet /\ run.pc = "check" /\ InOrder(run.begun) /\ host' = host
    BY DEF CoordinatorInv, CoordinatorTypes, Check, RunAt
  <1>2. /\ run.at \in 1 .. 2 /\ run.begun \in Seq(Host) /\ Len(run.begun) \in 0 .. 2
        /\ run.adrift \in SUBSET Host /\ run.result \in Results
    BY <1>1, RunFacts DEF CoordinatorInv, Placed, Here
  <1>3. \A h \in Host : host[h].busy = Free /\ Serves(h, run.release)
    BY <1>1 DEF CoordinatorInv, Undisturbed
  <1>4. HearsOne'
    BY <1>1 DEF CoordinatorInv, HearsOne
  <1>5. CASE run' = OnError
    <2>1. RunFrom("undo", Len(run.begun), run.begun, run.result, run.adrift)
      <3>1. run' = [run EXCEPT !.pc = "undo", !.at = Len(run.begun)]
        BY <1>5 DEF OnError
      <3>2. QED
        BY <1>1, <3>1, RunFacts DEF RunFrom, RunFields
    <2>2. run' \in RunSet
      BY <1>1, <1>2, <2>1, RunShape DEF RunFrom, RunPc
    <2>3. Placed' /\ Undisturbed'
      BY <1>2, <2>1 DEF Placed, Undisturbed, Here, RunFrom
    <2>4. ASSUME NEW h \in Host \ run.adrift PROVE Tracked(h)'
      <3>1. Tracked(h)
        BY DEF CoordinatorInv
      <3>2. QED
        BY <1>1, <2>1, <3>1 DEF Tracked, Here, RunFrom
    <2>5. QED
      BY <1>1, <1>4, <2>1, <2>2, <2>3, <2>4, KeepHosts DEF RunFrom
  <1>6. CASE run' = [run EXCEPT !.at = 2]
    <2>1. RunFrom("check", 2, run.begun, run.result, run.adrift)
      BY <1>1, <1>6, RunFacts DEF RunFrom, RunFields
    <2>2. run' \in RunSet
      BY <1>1, <1>2, <2>1, RunShape DEF RunFrom, RunPc
    <2>3. Placed'
      BY <2>1 DEF Placed, Here, RunFrom
    <2>4. Undisturbed'
      BY <1>1, <1>3, <2>1 DEF Undisturbed, Here, RunFrom, Serves
    <2>5. ASSUME NEW h \in Host \ run.adrift PROVE Tracked(h)'
      <3>1. Tracked(h)
        BY DEF CoordinatorInv
      <3>2. QED
        BY <1>1, <2>1, <3>1 DEF Tracked, Here, RunFrom
    <2>6. QED
      BY <1>1, <1>4, <2>1, <2>2, <2>3, <2>4, <2>5, KeepHosts DEF RunFrom
  <1>7. CASE run' = Leave("succeeded")
    <2>1. RunFrom("timers", 1, run.begun, "succeeded", run.adrift)
      <3>1. run' = [run EXCEPT !.pc = "timers", !.at = 1, !.result = "succeeded"]
        BY <1>7 DEF Leave
      <3>2. QED
        BY <1>1, <3>1, RunFacts DEF RunFrom, RunFields
    <2>2. run' \in RunSet
      BY <1>1, <1>2, <2>1, RunShape DEF RunFrom, RunPc, Results
    <2>3. Placed'
      BY <2>1 DEF Placed, Here, RunFrom
    <2>4. Undisturbed'
      BY <1>1, <1>3, <2>1 DEF Undisturbed, Here, RunFrom, Serves
    <2>5. ASSUME NEW h \in Host \ run.adrift PROVE Tracked(h)'
      <3>1. Tracked(h) /\ h \in 1 .. 2
        BY DEF CoordinatorInv, Host
      <3>2. ~(h < 1)
        BY <3>1
      <3>3. QED
        BY <1>1, <2>1, <3>1, <3>2 DEF Tracked, Here, RunFrom
    <2>6. QED
      BY <1>1, <1>4, <2>1, <2>2, <2>3, <2>4, <2>5, KeepHosts DEF RunFrom
  <1>8. QED
    BY <1>5, <1>6, <1>7 DEF Check

-----------------------------------------------------------------------------
\* The end of a command that the coordinator does not hear: its host is adrift.
LEMMA UnheardStep ==
    ASSUME CoordinatorInv, NEW h \in Host, host[h].busy # Free, ~host[h].busy.attached,
           run' = run, host' \in [Host -> HostSet], host'[h].busy = Free,
           \A g \in Host : g # h => host'[g] = host[g],
           \A i \in 1 .. Len(host'[h].active) : host'[h].active[i] \in host'[h].tried
    PROVE  CoordinatorInv'
  <1>1. h \in run.adrift
    BY DEF CoordinatorInv, Tracked
  <1>2. CoordinatorTypes'
    BY DEF CoordinatorInv, CoordinatorTypes
  <1>3. Placed'
    BY DEF CoordinatorInv, Placed, Here
  <1>4. HearsOne'
    <2>1. \A g \in Host : host'[g].busy.attached => g # h /\ host'[g] = host[g]
      BY FreeFacts
    <2>2. QED
      BY <2>1 DEF CoordinatorInv, HearsOne, Here
  <1>5. Undisturbed'
    <2>1. ~\A g \in Host : host[g].busy = Free
      OBVIOUS
    <2>2. ASSUME run.pc \in {"activate", "await"}, run.at = 2
          PROVE  /\ host'[1].busy = Free /\ host'[1].active # <<>>
                 /\ Head(host'[1].active) = run.release
      <3>1. host[1].busy = Free /\ Serves(1, run.release)
        BY <2>2 DEF CoordinatorInv, Undisturbed, Here
      <3>2. host'[1] = host[1]
        BY <3>1 DEF Host
      <3>3. QED
        BY <3>1, <3>2 DEF Serves
    <2>3. QED
      BY <2>1, <2>2 DEF CoordinatorInv, Undisturbed, Here, Serves
  <1>6. ASSUME NEW g \in Host \ run.adrift PROVE Tracked(g)'
    <2>1. Tracked(g) /\ host'[g] = host[g]
      BY <1>1 DEF CoordinatorInv
    <2>2. QED
      BY <2>1 DEF Tracked, Here
  <1>7. QED
    BY <1>2, <1>3, <1>4, <1>5, <1>6 DEF CoordinatorInv

\* The end of an activation, heard or not, whatever it did to its host.
LEMMA ActivationEnds ==
    ASSUME CoordinatorInv, NEW h \in Host, NEW ok, host[h].busy.cmd = "activate",
           run' = AfterActivation(h, ok), host' \in [Host -> HostSet], host'[h].busy = Free,
           \A g \in Host : g # h => host'[g] = host[g],
           \A i \in 1 .. Len(host'[h].active) : host'[h].active[i] \in host'[h].tried,
           h \notin run.adrift =>
               host'[h].active \in {run.before[h], <<run.release>> \o run.before[h]},
           ok /\ host[h].busy.attached =>
               host'[h].active # <<>> /\ Head(host'[h].active) = run.release
    PROVE  CoordinatorInv'
  <1>0. host[h].busy # Free
    BY FreeFacts
  <1>1. CASE ~host[h].busy.attached
    BY <1>0, <1>1, UnheardStep DEF AfterActivation
  <1>2. CASE host[h].busy.attached
    <2>1. /\ run \in RunSet /\ InOrder(run.begun) /\ h = run.at /\ run.pc = "await"
          /\ Len(run.begun) = run.at
      BY <1>2 DEF CoordinatorInv, CoordinatorTypes, HearsOne, Placed, Here
    <2>2. /\ run.begun \in Seq(Host) /\ run.adrift \in SUBSET Host /\ run.result \in Results
          /\ h \in 1 .. 2
      BY <2>1, RunFacts DEF Host
    <2>3. /\ run' \in RunSet /\ run'.begun = run.begun /\ run'.result = run.result
          /\ run'.adrift = run.adrift /\ run'.release = run.release
          /\ run'.before = run.before /\ run'.unreached = run.unreached
          /\ \/ run'.pc = "undo" /\ run'.at = h
             \/ run'.pc = "activate" /\ run'.at = 2 /\ h = 1 /\ ok
             \/ run'.pc = "check" /\ run'.at = 1 /\ h = 2 /\ ok
      <3>1. CASE ~ok
        <4>1. run' = [run EXCEPT !.pc = "undo", !.at = Len(run.begun)]
          BY <1>2, <3>1 DEF AfterActivation, OnError
        <4>2. RunFrom("undo", h, run.begun, run.result, run.adrift)
          BY <2>1, <4>1, RunFacts DEF RunFrom, RunFields
        <4>3. run' \in RunSet
          BY <2>1, <2>2, <4>2, RunShape DEF RunFrom, RunPc
        <4>4. QED
          BY <4>2, <4>3 DEF RunFrom
      <3>2. CASE ok /\ h = 1
        <4>1. run' = [run EXCEPT !.pc = "activate", !.at = 2]
          BY <1>2, <2>1, <3>2 DEF AfterActivation, Here
        <4>2. RunFrom("activate", 2, run.begun, run.result, run.adrift)
          BY <2>1, <4>1, RunFacts DEF RunFrom, RunFields
        <4>3. run' \in RunSet
          BY <2>1, <2>2, <4>2, RunShape DEF RunFrom, RunPc
        <4>4. QED
          BY <3>2, <4>2, <4>3 DEF RunFrom
      <3>3. CASE ok /\ h # 1
        <4>1. run' = [run EXCEPT !.pc = "check", !.at = 1]
          BY <1>2, <2>1, <3>3 DEF AfterActivation, Here
        <4>2. RunFrom("check", 1, run.begun, run.result, run.adrift)
          BY <2>1, <4>1, RunFacts DEF RunFrom, RunFields
        <4>3. run' \in RunSet
          BY <2>1, <2>2, <4>2, RunShape DEF RunFrom, RunPc
        <4>4. h = 2
          BY <2>2, <3>3
        <4>5. QED
          BY <3>3, <4>2, <4>3, <4>4 DEF RunFrom
      <3>4. QED
        BY <3>1, <3>2, <3>3
    <2>4. run'.at \in 1 .. 2 /\ run'.pc \in {"undo", "activate", "check"}
      BY <2>2, <2>3
    <2>5. CoordinatorTypes'
      BY <2>1, <2>3, <2>4 DEF CoordinatorInv, CoordinatorTypes
    <2>6. Placed'
      BY <2>1, <2>2, <2>3, <2>4 DEF Placed, Here
    <2>7. \A g \in Host : ~host'[g].busy.attached
      <3>1. ASSUME NEW g \in Host, g # h PROVE ~host[g].busy.attached
        BY <2>1, <3>1 DEF CoordinatorInv, HearsOne, Here
      <3>2. QED
        BY <3>1, FreeFacts
    <2>8. HearsOne'
      BY <2>7 DEF HearsOne
    <2>9. Undisturbed'
      <3>1. h = 2 => host[1].busy = Free /\ Serves(1, run.release)
        BY <2>1 DEF CoordinatorInv, Undisturbed, Here
      <3>2. ASSUME ok PROVE host'[h].active # <<>> /\ Head(host'[h].active) = run.release
        BY <1>2, <3>2
      <3>3. h = 2 => host'[1] = host[1]
        BY DEF Host
      <3>4. ASSUME h = 2, ok, NEW g \in Host
            PROVE  /\ host'[g].busy = Free /\ host'[g].active # <<>>
                   /\ Head(host'[g].active) = run.release
        <4>1. g = h \/ g = 1
          BY <3>4 DEF Host
        <4>2. CASE g = h
          BY <3>2, <3>4, <4>2
        <4>3. CASE g = 1
          BY <3>1, <3>3, <3>4, <4>3 DEF Serves
        <4>4. QED
          BY <4>1, <4>2, <4>3
      <3>5. CASE run'.pc = "undo"
        BY <3>5 DEF Undisturbed
      <3>6. CASE run'.pc = "activate"
        <4>1. h = 1 /\ ok
          BY <2>3, <3>6
        <4>2. host'[1].busy = Free /\ host'[1].active # <<>> /\ Head(host'[1].active) = run.release
          BY <3>2, <4>1
        <4>3. QED
          BY <2>3, <3>6, <4>2 DEF Undisturbed, Here, Serves
      <3>7. CASE run'.pc = "check"
        <4>1. h = 2 /\ ok
          BY <2>3, <3>7
        <4>2. QED
          BY <2>3, <3>4, <3>7, <4>1 DEF Undisturbed, Here, Serves
      <3>8. QED
        BY <2>4, <3>5, <3>6, <3>7
    <2>10. ASSUME NEW g \in Host \ run.adrift PROVE Tracked(g)'
      <3>1. Tracked(g) /\ g \in 1 .. 2
        BY DEF CoordinatorInv, Host
      <3>2. /\ run.before[g] # <<>> => Head(run.before[g]) # run.release
            /\ host'[g].busy # Free => host'[g].busy.attached
            /\ host'[g].active \in {run.before[g], <<run.release>> \o run.before[g]}
        BY <2>1, <3>1 DEF Tracked, Here
      <3>3. ASSUME g > h
            PROVE  host'[g].active = run.before[g] /\ run.release \notin host'[g].tried
        BY <2>1, <2>2, <3>1, <3>3 DEF Tracked
      <3>4. /\ g > Len(run.begun) \/ (run'.pc = "await" /\ g = run'.at) => g > h
            /\ run'.pc \in {"undo", "awaitUndo"} /\ g > run'.at => g > h
            /\ run'.pc \notin {"timers", "ended"}
        BY <2>1, <2>2, <2>3, <2>4, <3>1
      <3>5. QED
        BY <2>3, <3>2, <3>3, <3>4 DEF Tracked, Here
    <2>11. QED
      BY <2>3, <2>5, <2>6, <2>8, <2>9, <2>10 DEF CoordinatorInv
  <1>3. QED
    BY <1>1, <1>2

LEMMA RemoteConfirmsStep ==
    ASSUME CoordinatorInv, NEW h \in Host, RemoteConfirms(h)
    PROVE  CoordinatorInv'
  <1>1. /\ host \in [Host -> HostSet] /\ run \in RunSet
        /\ \A g \in Host : \A i \in 1 .. Len(host[g].active) : host[g].active[i] \in host[g].tried
        /\ host[h].busy.cmd = "activate" /\ host[h].busy.release \in host[h].tried
        /\ host' = [host EXCEPT ![h].busy = Free]
    BY DEF CoordinatorInv, CoordinatorTypes, RemoteConfirms
  <1>2. PICK ok \in {FALSE, Serves(h, host[h].busy.release)} : run' = AfterActivation(h, ok)
    BY DEF RemoteConfirms
  <1>3. PICK old \in HostSet : old = host[h]
    BY <1>1
  <1>4. PICK new : new = [old EXCEPT !.busy = Free]
    OBVIOUS
  <1>5. /\ new.active = old.active /\ new.tried = old.tried /\ new.timer = old.timer
        /\ new.busy = Free /\ new = [field \in HostFields |-> new[field]]
    BY <1>4 DEF HostSet, HostFields
  <1>6. new \in HostSet
    BY <1>5, FreeFacts, HostShape DEF HostSet
  <1>7. host' = [host EXCEPT ![h] = new]
    BY <1>1, <1>3, <1>4
  <1>8. host' \in [Host -> HostSet] /\ host'[h] = new /\ \A g \in Host : g # h => host'[g] = host[g]
    BY <1>1, <1>6, <1>7
  <1>9. ASSUME h \notin run.adrift
        PROVE  host'[h].active \in {run.before[h], <<run.release>> \o run.before[h]}
    BY <1>3, <1>5, <1>8, <1>9 DEF CoordinatorInv, Tracked
  <1>10. \A i \in 1 .. Len(host'[h].active) : host'[h].active[i] \in host'[h].tried
    BY <1>1, <1>3, <1>5, <1>8
  <1>11. ASSUME ok, host[h].busy.attached
         PROVE  host'[h].active # <<>> /\ Head(host'[h].active) = run.release
    <2>1. host[h].busy.release = run.release
      BY <1>11 DEF CoordinatorInv, HearsOne
    <2>2. Serves(h, run.release)
      BY <1>2, <1>11, <2>1
    <2>3. QED
      BY <1>3, <1>5, <1>8, <2>2 DEF Serves
  <1>12. QED
    BY <1>1, <1>2, <1>5, <1>8, <1>9, <1>10, <1>11, ActivationEnds

LEMMA RemoteActivatesStep ==
    ASSUME CoordinatorInv, NEW h \in Host, RemoteActivates(h)
    PROVE  CoordinatorInv'
  <1>1. /\ host \in [Host -> HostSet] /\ run \in RunSet
        /\ \A g \in Host : \A i \in 1 .. Len(host[g].active) : host[g].active[i] \in host[g].tried
        /\ host[h].busy.cmd = "activate" /\ host[h].busy.release \notin host[h].tried
    BY DEF CoordinatorInv, CoordinatorTypes, RemoteActivates
  <1>2. PICK old \in HostSet : old = host[h]
    BY <1>1
  <1>3. PICK r \in ReleaseId : r = old.busy.release
    BY <1>1, <1>2, HostFacts, FreeFacts
  <1>4. PICK above : above = <<r>> \o old.active
    OBVIOUS
  <1>5. PICK result \in {"ok", "undone", "stuck"} :
          /\ host' = [host EXCEPT ![h] =
                        [active |-> IF result = "undone" THEN old.active ELSE above,
                         tried |-> old.tried \cup {r}, timer |-> result # "undone", busy |-> Free]]
          /\ run' = AfterActivation(h, result = "ok")
    BY <1>1, <1>2, <1>3, <1>4 DEF RemoteActivates
  <1>6. PICK new : new = [active |-> IF result = "undone" THEN old.active ELSE above,
                          tried |-> old.tried \cup {r}, timer |-> result # "undone", busy |-> Free]
    OBVIOUS
  <1>7. /\ old.active \in Seq(ReleaseId) /\ old.tried \in SUBSET ReleaseId
        /\ \A i \in 1 .. Len(old.active) : old.active[i] \in old.tried
    BY <1>1, <1>2 DEF HostSet
  <1>8. /\ above \in Seq(ReleaseId)
        /\ \A i \in 1 .. Len(above) : above[i] = r \/ \E j \in 1 .. Len(old.active) : above[i] = old.active[j]
    BY <1>4, <1>7, Doubled
  <1>9. /\ new.active \in {old.active, above} /\ new.tried = old.tried \cup {r}
        /\ new.timer \in BOOLEAN /\ new.busy = Free
        /\ new = [field \in HostFields |-> new[field]]
    BY <1>6 DEF HostFields
  <1>10. new \in HostSet
    BY <1>7, <1>8, <1>9, FreeFacts, HostShape
  <1>11. host' = [host EXCEPT ![h] = new]
    BY <1>5, <1>6
  <1>12. host' \in [Host -> HostSet] /\ host'[h] = new /\ \A g \in Host : g # h => host'[g] = host[g]
    BY <1>1, <1>10, <1>11
  <1>13. \A i \in 1 .. Len(new.active) : new.active[i] \in new.tried
    BY <1>7, <1>8, <1>9
  <1>14. ASSUME h \notin run.adrift
         PROVE  new.active \in {run.before[h], <<run.release>> \o run.before[h]}
    <2>1. host[h].busy # Free
      BY <1>1, FreeFacts
    <2>2. Tracked(h) /\ host[h].busy.attached
      BY <1>14, <2>1 DEF CoordinatorInv, Tracked
    <2>3. h = run.at /\ run.pc = "await" /\ r = run.release
      BY <1>1, <1>2, <1>3, <2>2 DEF CoordinatorInv, HearsOne, Here
    <2>4. old.active = run.before[h]
      BY <1>2, <2>2, <2>3 DEF Tracked, Here
    <2>5. QED
      BY <1>4, <1>9, <2>3, <2>4
  <1>15. ASSUME result = "ok", host[h].busy.attached
         PROVE  new.active # <<>> /\ Head(new.active) = run.release
    <2>1. new.active = above
      BY <1>6, <1>15
    <2>2. r = run.release
      BY <1>2, <1>3, <1>15 DEF CoordinatorInv, HearsOne
    <2>3. QED
      BY <1>4, <1>7, <2>1, <2>2, Doubled
  <1>16. PICK ok : ok = (result = "ok")
    OBVIOUS
  <1>17. run' = AfterActivation(h, ok)
    BY <1>5, <1>16
  <1>18. ok /\ host[h].busy.attached =>
            host'[h].active # <<>> /\ Head(host'[h].active) = run.release
    BY <1>12, <1>15, <1>16
  <1>19. QED
    BY <1>1, <1>9, <1>12, <1>13, <1>14, <1>17, <1>18, ActivationEnds

\* Undoing a host gives it back what it served, or finds that it serves it.
LEMMA RemoteRollsBackStep ==
    ASSUME CoordinatorInv, NEW h \in Host, RemoteRollsBack(h)
    PROVE  CoordinatorInv'
  <1>1. /\ host \in [Host -> HostSet] /\ run \in RunSet /\ InOrder(run.begun)
        /\ \A g \in Host : \A i \in 1 .. Len(host[g].active) : host[g].active[i] \in host[g].tried
        /\ host[h].busy.cmd = "rollback"
    BY DEF CoordinatorInv, CoordinatorTypes, RemoteRollsBack
  <1>2. PICK old \in HostSet : old = host[h]
    BY <1>1
  <1>3. /\ old.active \in Seq(ReleaseId) /\ old.tried \in SUBSET ReleaseId /\ old.timer \in BOOLEAN
        /\ \A i \in 1 .. Len(old.active) : old.active[i] \in old.tried
    BY <1>1, <1>2 DEF HostSet
  <1>4. PICK rest : rest = Tail(old.active)
    OBVIOUS
  <1>5. PICK done \in {TRUE} \cup (IF "rollback" \in Failures THEN {FALSE} ELSE {}) :
          /\ host' = [host EXCEPT ![h] =
                        IF done /\ Serves(h, @.busy.release)
                        THEN [host[h] EXCEPT !.active = Tail(@), !.timer = FALSE, !.busy = Free]
                        ELSE [host[h] EXCEPT !.busy = Free]]
          /\ run' = IF ~host[h].busy.attached THEN run
                    ELSE [run EXCEPT !.pc = "undo", !.at = @ - 1,
                                     !.adrift = IF done THEN @ ELSE @ \cup {h}]
    BY DEF RemoteRollsBack
  <1>6. PICK undo \in BOOLEAN :
          undo = (done /\ old.active # <<>> /\ Head(old.active) = old.busy.release)
    OBVIOUS
  <1>6a. done \in BOOLEAN
    OBVIOUS
  <1>7. PICK new : new = IF undo THEN [old EXCEPT !.active = rest, !.timer = FALSE, !.busy = Free]
                         ELSE [old EXCEPT !.busy = Free]
    OBVIOUS
  <1>8. /\ new.active = (IF undo THEN rest ELSE old.active) /\ new.tried = old.tried
        /\ new.timer \in BOOLEAN /\ new.busy = Free
        /\ new = [field \in HostFields |-> new[field]]
    <2>1. CASE undo
      BY <1>7, <2>1 DEF HostSet, HostFields
    <2>2. CASE ~undo
      BY <1>7, <2>2 DEF HostSet, HostFields
    <2>3. QED
      BY <2>1, <2>2
  <1>9. undo => rest \in Seq(ReleaseId) /\ \A i \in 1 .. Len(rest) : rest[i] \in old.tried
    BY <1>3, <1>4, <1>6, <1>6a, Unstacked
  <1>10. new \in HostSet /\ \A i \in 1 .. Len(new.active) : new.active[i] \in new.tried
    <2>1. new.active \in Seq(ReleaseId) /\ \A i \in 1 .. Len(new.active) : new.active[i] \in new.tried
      BY <1>3, <1>8, <1>9
    <2>2. QED
      BY <1>3, <1>8, <2>1, FreeFacts, HostShape
  <1>11. host' = [host EXCEPT ![h] = new]
    <2>1. CASE undo
      <3>1. new = [old EXCEPT !.active = Tail(old.active), !.timer = FALSE, !.busy = Free]
        BY <1>4, <1>7, <2>1
      <3>2. done /\ Serves(h, host[h].busy.release)
        BY <1>2, <1>6, <1>6a, <2>1 DEF Serves
      <3>3. host' = [host EXCEPT ![h] = [host[h] EXCEPT !.active = Tail(@), !.timer = FALSE,
                                                        !.busy = Free]]
        BY <1>5, <3>2
      <3>4. QED
        BY <1>2, <3>1, <3>3
    <2>2. CASE ~undo
      <3>1. new = [old EXCEPT !.busy = Free]
        BY <1>7, <2>2
      <3>2. ~(done /\ Serves(h, host[h].busy.release))
        BY <1>2, <1>6, <1>6a, <2>2 DEF Serves
      <3>3. QED
        BY <1>2, <1>5, <3>1, <3>2
    <2>3. QED
      BY <2>1, <2>2
  <1>12. host' \in [Host -> HostSet] /\ host'[h] = new /\ \A g \in Host : g # h => host'[g] = host[g]
    BY <1>1, <1>10, <1>11
  <1>13. host[h].busy # Free
    BY <1>1, FreeFacts
  <1>14. CASE ~host[h].busy.attached
    BY <1>5, <1>8, <1>10, <1>12, <1>13, <1>14, UnheardStep
  <1>15. CASE host[h].busy.attached
    <2>1. /\ h = run.at /\ run.pc = "awaitUndo" /\ old.busy.release = run.release
          /\ run.at <= Len(run.begun)
      BY <1>1, <1>2, <1>15 DEF CoordinatorInv, HearsOne, Placed, Here
    <2>2. /\ run.begun \in Seq(Host) /\ run.adrift \in SUBSET Host /\ run.result \in Results
          /\ h \in 1 .. 2 /\ Len(run.begun) \in 0 .. 2
      BY <1>1, RunFacts DEF Host
    <2>3. PICK drift : drift = IF done THEN run.adrift ELSE run.adrift \cup {h}
      OBVIOUS
    <2>4. drift \in SUBSET Host /\ run.adrift \subseteq drift /\ (~done => h \in drift)
      BY <2>2, <2>3
    <2>5. RunFrom("undo", run.at - 1, run.begun, run.result, drift)
      <3>1. run' = [run EXCEPT !.pc = "undo", !.at = run.at - 1, !.adrift = drift]
        BY <1>5, <1>15, <2>3
      <3>2. QED
        BY <1>1, <3>1, RunFacts DEF RunFrom, RunFields
    <2>6. run' \in RunSet
      <3>1. run.at - 1 \in 0 .. 2 /\ "undo" \in RunPc
        BY <2>1, <2>2 DEF RunPc
      <3>2. QED
        BY <1>1, <2>2, <2>4, <2>5, <3>1, RunShape DEF RunFrom
    <2>7. /\ run'.pc = "undo" /\ run'.at = h - 1 /\ run'.begun = run.begun
          /\ run'.result = run.result /\ run'.adrift = drift
          /\ run'.release = run.release /\ run'.before = run.before
          /\ run'.unreached = run.unreached
      BY <2>1, <2>5 DEF RunFrom
    <2>8. CoordinatorTypes'
      BY <1>1, <1>10, <1>12, <2>6, <2>7 DEF CoordinatorTypes
    <2>9. Placed' /\ Undisturbed'
      BY <2>1, <2>2, <2>7 DEF Placed, Undisturbed, Here
    <2>10. HearsOne'
      <3>1. \A g \in Host : ~host'[g].busy.attached
        <4>1. ASSUME NEW g \in Host, g # h PROVE ~host[g].busy.attached
          BY <2>1, <4>1 DEF CoordinatorInv, HearsOne, Here
        <4>2. QED
          BY <1>8, <1>12, <4>1, FreeFacts
      <3>2. QED
        BY <3>1 DEF HearsOne
    <2>11. ASSUME NEW g \in Host \ drift PROVE Tracked(g)'
      <3>1. Tracked(g) /\ g \in 1 .. 2 /\ (g = h => done)
        BY <2>4 DEF CoordinatorInv, Host
      <3>2. /\ run.before[g] # <<>> => Head(run.before[g]) # run.release
            /\ host[g].active \in {run.before[g], <<run.release>> \o run.before[g]}
            /\ g > h => host[g].active = run.before[g]
            /\ g > Len(run.begun) => run.release \notin host[g].tried
        BY <2>1, <3>1 DEF Tracked, Here
      <3>3. g = h => new.active = run.before[g]
        <4>1. PICK base \in Seq(ReleaseId), r \in ReleaseId : base = run.before[g] /\ r = run.release
          BY <1>1, RunFacts
        <4>2. PICK above : above = <<r>> \o base
          OBVIOUS
        <4>3. above # <<>> /\ Head(above) = r /\ Tail(above) = base
          BY <4>1, <4>2, Doubled
        <4>4. ASSUME g = h PROVE old.active \in {base, above} /\ (base # <<>> => Head(base) # r)
          BY <1>2, <3>2, <4>1, <4>2, <4>4
        <4>5. ASSUME g = h PROVE new.active = base
          <5>1. CASE undo
            <6>1. old.active = above
              BY <1>6, <2>1, <4>1, <4>4, <4>5, <5>1
            <6>2. QED
              BY <1>4, <1>8, <4>3, <5>1, <6>1
          <5>2. CASE ~undo
            <6>1. old.active = base
              BY <1>6, <2>1, <3>1, <4>1, <4>3, <4>4, <4>5, <5>2
            <6>2. QED
              BY <1>8, <5>2, <6>1
          <5>3. QED
            BY <5>1, <5>2
        <4>6. QED
          BY <4>1, <4>5
      <3>4. /\ host'[g].busy # Free => host'[g].busy.attached
            /\ host'[g].active \in {run.before[g], <<run.release>> \o run.before[g]}
            /\ g >= h => host'[g].active = run.before[g]
            /\ host'[g].tried = host[g].tried
        <4>1. CASE g = h
          BY <1>2, <1>8, <1>12, <3>3, <4>1
        <4>2. CASE g # h
          BY <1>12, <2>2, <3>1, <3>2, <4>2 DEF Tracked
        <4>3. QED
          BY <4>1, <4>2
      <3>5. /\ g > Len(run.begun) => g >= h
            /\ g > h - 1 => g >= h
        BY <2>1, <2>2, <3>1
      <3>6. QED
        BY <2>7, <3>2, <3>4, <3>5 DEF Tracked, Here
    <2>12. QED
      BY <2>7, <2>8, <2>9, <2>10, <2>11 DEF CoordinatorInv
  <1>16. QED
    BY <1>14, <1>15

\* The trap undoes the hosts begun with, the last first: its turn is their number.
LEMMA StartRollbackStep ==
    ASSUME CoordinatorInv, StartRollback
    PROVE  CoordinatorInv'
  <1>1. /\ host \in [Host -> HostSet] /\ run \in RunSet /\ run.pc = "undo" /\ InOrder(run.begun)
        /\ run.at > 0 /\ run.at <= Len(run.begun)
        /\ \A h \in Host : \A i \in 1 .. Len(host[h].active) : host[h].active[i] \in host[h].tried
    BY DEF CoordinatorInv, CoordinatorTypes, StartRollback, RunAt, Here, Placed
  <1>2. /\ run.at \in 1 .. 2 /\ run.begun \in Seq(Host) /\ Len(run.begun) \in 0 .. 2
        /\ run.adrift \in SUBSET Host /\ run.result \in Results /\ run.release \in ReleaseId
    BY <1>1, RunFacts
  <1>3. run.begun[run.at] = run.at
    BY <1>1, <1>2 DEF InOrder
  <1>4. PICK at \in Host, old \in HostSet : at = run.at /\ old = host[at]
    BY <1>1, <1>2 DEF Host
  <1>5. RunFrom("awaitUndo", run.at, run.begun, run.result, run.adrift)
    <2>1. run' = [run EXCEPT !.pc = "awaitUndo"]
      BY DEF StartRollback
    <2>2. QED
      BY <1>1, <2>1, RunFacts DEF RunFrom, RunFields
  <1>6. run' \in RunSet
    BY <1>1, <1>2, <1>5, RunShape DEF RunFrom, RunPc
  <1>7. old.busy = Free
    BY <1>3, <1>4 DEF StartRollback, Here
  <1>8. PICK busy : busy = [cmd |-> "rollback", release |-> run.release, attached |-> TRUE]
    OBVIOUS
  <1>9. busy \in BusySet /\ busy.cmd = "rollback" /\ busy.release = run.release /\ busy.attached
    BY <1>2, <1>8 DEF BusySet
  <1>10. PICK new : new = [old EXCEPT !.busy = busy]
    OBVIOUS
  <1>11. /\ new.active = old.active /\ new.tried = old.tried /\ new.timer = old.timer
         /\ new.busy = busy /\ new = [field \in HostFields |-> new[field]]
    BY <1>10 DEF HostSet, HostFields
  <1>12. new \in HostSet
    BY <1>9, <1>11, HostShape DEF HostSet
  <1>13. host' = [host EXCEPT ![at] = new]
    BY <1>3, <1>4, <1>8, <1>10 DEF StartRollback, Here, Remote
  <1>14. host'[at] = new /\ \A g \in Host : g # at => host'[g] = host[g]
    BY <1>1, <1>13
  <1>15. host' \in [Host -> HostSet]
    BY <1>1, <1>12, <1>13
  <1>16. /\ run'.pc = "awaitUndo" /\ run'.at = at /\ run'.begun = run.begun
         /\ run'.result = run.result /\ run'.adrift = run.adrift
         /\ run'.release = run.release /\ run'.before = run.before
         /\ run'.unreached = run.unreached
    BY <1>4, <1>5 DEF RunFrom
  <1>17. CoordinatorTypes'
    BY <1>1, <1>4, <1>6, <1>11, <1>14, <1>15, <1>16 DEF CoordinatorTypes
  <1>18. Placed' /\ Undisturbed'
    BY <1>1, <1>4, <1>16 DEF Placed, Undisturbed, Here
  <1>19. HearsOne'
    <2>1. ASSUME NEW g \in Host, g # at PROVE ~host'[g].busy.attached
      BY <1>1, <1>14, <2>1 DEF CoordinatorInv, HearsOne
    <2>2. QED
      BY <1>9, <1>11, <1>14, <1>16, <2>1 DEF HearsOne, Here
  <1>20. ASSUME NEW h \in Host \ run.adrift PROVE Tracked(h)'
    <2>1. Tracked(h)
      BY DEF CoordinatorInv
    <2>2. /\ host'[h].active = host[h].active /\ host'[h].tried = host[h].tried
          /\ (h # at => host'[h].busy = host[h].busy)
          /\ (h = at => host'[h].busy.attached)
      BY <1>4, <1>9, <1>11, <1>14
    <2>3. /\ run.before[h] # <<>> => Head(run.before[h]) # run.release
          /\ host[h].active \in {run.before[h], <<run.release>> \o run.before[h]}
          /\ h > at => host[h].active = run.before[h]
          /\ h > Len(run.begun) => host[h].active = run.before[h] /\ run.release \notin host[h].tried
          /\ host[h].busy # Free => host[h].busy.attached
      BY <1>1, <1>4, <2>1 DEF Tracked, Here
    <2>4. QED
      BY <1>16, <2>2, <2>3 DEF Tracked, Here
  <1>21. QED
    BY <1>16, <1>17, <1>18, <1>19, <1>20 DEF CoordinatorInv

LEMMA RollbackRefusedStep ==
    ASSUME CoordinatorInv, RollbackRefused
    PROVE  CoordinatorInv'
  <1>1. /\ run \in RunSet /\ run.pc = "undo" /\ InOrder(run.begun) /\ host' = host
        /\ run.at > 0 /\ run.at <= Len(run.begun)
    BY DEF CoordinatorInv, CoordinatorTypes, RollbackRefused, RunAt, Here, Placed
  <1>2. /\ run.at \in 1 .. 2 /\ run.begun \in Seq(Host) /\ Len(run.begun) \in 0 .. 2
        /\ run.adrift \in SUBSET Host /\ run.result \in Results
    BY <1>1, RunFacts
  <1>3. run.begun[run.at] = run.at /\ run.at \in Host
    BY <1>1, <1>2 DEF InOrder, Host
  <1>4. RunFrom("undo", run.at - 1, run.begun, run.result, run.adrift \cup {run.at})
    <2>1. run' = [run EXCEPT !.at = run.at - 1, !.adrift = run.adrift \cup {run.at}]
      BY <1>3 DEF RollbackRefused, Here
    <2>2. QED
      BY <1>1, <2>1, RunFacts DEF RunFrom, RunFields
  <1>5. run' \in RunSet
    <2>1. run.at - 1 \in 0 .. 2 /\ "undo" \in RunPc
      BY <1>2 DEF RunPc
    <2>2. run.adrift \cup {run.at} \in SUBSET Host
      BY <1>2, <1>3
    <2>3. QED
      BY <1>1, <1>2, <1>4, <2>1, <2>2, RunShape DEF RunFrom
  <1>6. Placed' /\ Undisturbed'
    BY <1>1, <1>2, <1>4 DEF Placed, Undisturbed, Here, RunFrom
  <1>7. HearsOne'
    BY <1>1 DEF CoordinatorInv, HearsOne
  <1>8. ASSUME NEW h \in Host \ run'.adrift PROVE Tracked(h)'
    <2>1. Tracked(h) /\ h \in 1 .. 2 /\ h # run.at
      BY <1>4, <1>8 DEF CoordinatorInv, Host, RunFrom
    <2>2. h > run.at - 1 => h > run.at
      BY <1>2, <2>1
    <2>3. QED
      BY <1>1, <1>4, <2>1, <2>2 DEF Tracked, Here, RunFrom
  <1>9. QED
    BY <1>1, <1>4, <1>5, <1>6, <1>7, <1>8, KeepHosts DEF RunFrom

LEMMA RolledBackStep ==
    ASSUME CoordinatorInv, RolledBack
    PROVE  CoordinatorInv'
  <1>1. /\ run \in RunSet /\ run.pc = "undo" /\ InOrder(run.begun) /\ host' = host /\ run.at = 0
    BY DEF CoordinatorInv, CoordinatorTypes, RolledBack, RunAt, Here
  <1>2. /\ run.begun \in Seq(Host) /\ run.adrift \in SUBSET Host /\ run.result \in Results
    BY <1>1, RunFacts
  <1>3. RunFrom("timers", 1, run.begun, "failed", run.adrift)
    <2>1. run' = [run EXCEPT !.pc = "timers", !.at = 1, !.result = "failed"]
      BY DEF RolledBack, Leave
    <2>2. QED
      BY <1>1, <2>1, RunFacts DEF RunFrom, RunFields
  <1>4. run' \in RunSet
    BY <1>1, <1>2, <1>3, RunShape DEF RunFrom, RunPc, Results
  <1>5. Placed' /\ Undisturbed'
    BY <1>1, <1>2, <1>3 DEF Placed, Undisturbed, Here, RunFrom
  <1>6. HearsOne'
    BY <1>1 DEF CoordinatorInv, HearsOne
  <1>7. ASSUME NEW h \in Host \ run.adrift PROVE Tracked(h)'
    <2>1. Tracked(h) /\ h > run.at /\ ~(h < 1)
      BY <1>1 DEF CoordinatorInv, Host
    <2>2. QED
      BY <1>1, <1>3, <2>1 DEF Tracked, Here, RunFrom
  <1>8. QED
    BY <1>1, <1>3, <1>4, <1>5, <1>6, <1>7, KeepHosts DEF RunFrom

LEMMA ResumeTimerStep ==
    ASSUME CoordinatorInv, ResumeTimer
    PROVE  CoordinatorInv'
  <1>1. /\ host \in [Host -> HostSet] /\ run \in RunSet /\ run.pc = "timers" /\ InOrder(run.begun)
        /\ \A h \in Host : \A i \in 1 .. Len(host[h].active) : host[h].active[i] \in host[h].tried
    BY DEF CoordinatorInv, CoordinatorTypes, ResumeTimer, RunAt
  <1>2. /\ run.at \in 1 .. 2 /\ run.begun \in Seq(Host)
        /\ run.adrift \in SUBSET Host /\ run.result \in Results
    BY <1>1, RunFacts DEF CoordinatorInv, Placed, Here
  <1>3. PICK at \in Host, old \in HostSet : at = run.at /\ old = host[at]
    BY <1>1, <1>2 DEF Host
  <1>4. PICK new \in HostSet, unreached \in SUBSET Host :
          /\ new.active = old.active /\ new.tried = old.tried /\ new.busy = old.busy
          /\ host' = [host EXCEPT ![at] = new] /\ Proceed(unreached)
          /\ run.unreached \subseteq unreached /\ (new.timer \/ at \in unreached)
    <2>1. run.unreached \in SUBSET Host /\ run.unreached \cup {at} \in SUBSET Host
      BY <1>1, RunFacts
    <2>2. CASE host' = [host EXCEPT ![at].timer = TRUE] /\ Proceed(run.unreached)
      <3>1. PICK new : new = [old EXCEPT !.timer = TRUE]
        OBVIOUS
      <3>2. /\ new.active = old.active /\ new.tried = old.tried /\ new.timer = TRUE
            /\ new.busy = old.busy /\ new = [field \in HostFields |-> new[field]]
        BY <3>1 DEF HostSet, HostFields
      <3>3. new \in HostSet
        BY <3>2, HostShape DEF HostSet
      <3>4. host' = [host EXCEPT ![at] = new]
        BY <1>3, <2>2, <3>1
      <3>5. QED
        BY <2>1, <2>2, <3>2, <3>3, <3>4
    <2>3. CASE host' = host /\ Proceed(run.unreached \cup {at})
      <3>1. host' = [host EXCEPT ![at] = old]
        BY <1>1, <1>3, <2>3
      <3>2. QED
        BY <2>1, <2>3, <3>1
    <2>4. QED
      BY <1>3, <2>2, <2>3 DEF ResumeTimer, Here
  <1>5. /\ run'.begun = run.begun /\ run'.result = run.result /\ run'.adrift = run.adrift
        /\ run'.release = run.release /\ run'.before = run.before
        /\ run'.unreached = unreached /\ run'.at = 2
        /\ run' = [field \in RunFields |-> run'[field]]
        /\ \/ run'.pc = "timers" /\ at = 1
           \/ run'.pc = "ended" /\ at = 2
    <2>1. run' = [run EXCEPT !.unreached = unreached, !.at = 2,
                             !.pc = IF at = 1 THEN "timers" ELSE "ended"]
      BY <1>3, <1>4 DEF Proceed, Here
    <2>2. at = 1 \/ at = 2
      BY DEF Host
    <2>3. QED
      BY <1>1, <2>1, <2>2, RunFacts DEF RunFields
  <1>6. run' \in RunSet
    <2>1. run'.pc \in RunPc /\ run'.at \in 0 .. 2 /\ run'.unreached \in SUBSET Host
      BY <1>5 DEF RunPc
    <2>2. QED
      BY <1>1, <1>2, <1>5, <2>1, RunShape
  <1>9. host'[at] = new /\ \A g \in Host : g # at => host'[g] = host[g]
    BY <1>1, <1>4
  <1>10. host' \in [Host -> HostSet]
    BY <1>1, <1>4
  <1>11. \A h \in Host : /\ host'[h].active = host[h].active /\ host'[h].tried = host[h].tried
                         /\ host'[h].busy = host[h].busy
    BY <1>3, <1>4, <1>9
  <1>12. CoordinatorTypes'
    BY <1>1, <1>5, <1>6, <1>10, <1>11 DEF CoordinatorTypes
  <1>13. Placed'
    BY <1>5 DEF Placed, Here
  <1>14. HearsOne'
    BY <1>1, <1>11 DEF CoordinatorInv, HearsOne
  <1>15. Undisturbed'
    BY <1>1, <1>5, <1>11 DEF CoordinatorInv, Undisturbed, Here, Serves
  <1>16. ASSUME NEW h \in Host \ run.adrift PROVE Tracked(h)'
    <2>1. Tracked(h) /\ h \in 1 .. 2
      BY DEF CoordinatorInv, Host
    <2>2. host'[h].timer \/ h \in unreached \/ (run'.pc = "timers" /\ h = 2)
      <3>1. CASE h = at
        BY <1>4, <1>9, <3>1
      <3>2. CASE h # at /\ h = 1
        <4>1. host[h].timer \/ h \in run.unreached
          BY <1>1, <1>2, <1>3, <2>1, <3>2 DEF Tracked, Here
        <4>2. QED
          BY <1>4, <1>9, <3>2, <4>1
      <3>3. CASE h # at /\ h = 2
        BY <1>5, <3>3
      <3>4. QED
        BY <2>1, <3>1, <3>2, <3>3
    <2>3. /\ host[h].busy # Free => host[h].busy.attached
          /\ run.before[h] # <<>> => Head(run.before[h]) # run.release
          /\ host[h].active \in {run.before[h], <<run.release>> \o run.before[h]}
          /\ h > Len(run.begun) => host[h].active = run.before[h] /\ run.release \notin host[h].tried
          /\ run.result = "failed" => host[h].active = run.before[h]
      BY <1>1, <2>1 DEF Tracked
    <2>4. run'.pc \in {"timers", "ended"} /\ (run'.pc = "timers" => ~(2 < run'.at))
      BY <1>5
    <2>5. QED
      BY <1>5, <1>11, <2>2, <2>3, <2>4 DEF Tracked, Here
  <1>17. QED
    BY <1>5, <1>12, <1>13, <1>14, <1>15, <1>16 DEF CoordinatorInv

\* A command goes on unheard: its host is adrift and the coordinator undoes.
LEMMA LoseConnectionStep ==
    ASSUME CoordinatorInv, LoseConnection
    PROVE  CoordinatorInv'
  <1>1. /\ host \in [Host -> HostSet] /\ run \in RunSet /\ InOrder(run.begun)
        /\ run.pc \in {"await", "awaitUndo"}
        /\ \A g \in Host : \A i \in 1 .. Len(host[g].active) : host[g].active[i] \in host[g].tried
    BY DEF CoordinatorInv, CoordinatorTypes, LoseConnection
  <1>2. PICK h \in Host :
          /\ host[h].busy.attached
          /\ host' = [host EXCEPT ![h].busy.attached = FALSE]
          /\ run' = [IF RunAt("await") THEN OnError ELSE [run EXCEPT !.pc = "undo", !.at = @ - 1]
                     EXCEPT !.adrift = @ \cup {h}]
    BY DEF LoseConnection
  <1>3. h = run.at /\ h \in 1 .. 2
    BY <1>2 DEF CoordinatorInv, HearsOne, Here, Host
  <1>4. /\ run.begun \in Seq(Host) /\ Len(run.begun) \in 0 .. 2
        /\ run.adrift \in SUBSET Host /\ run.result \in Results
        /\ run.pc = "await" => Len(run.begun) = h
        /\ run.pc = "awaitUndo" => h <= Len(run.begun)
    BY <1>1, <1>3, RunFacts DEF CoordinatorInv, Placed, Here
  <1>5. run.adrift \cup {h} \in SUBSET Host
    BY <1>4
  <1>6. /\ run' \in RunSet /\ run'.pc = "undo" /\ run'.begun = run.begun
        /\ run'.result = run.result /\ run'.adrift = run.adrift \cup {h}
        /\ run'.release = run.release /\ run'.before = run.before
        /\ run'.unreached = run.unreached
        /\ run'.at = IF run.pc = "await" THEN h ELSE h - 1
    <2>1. CASE run.pc = "await"
      <3>1. PICK base : base = [run EXCEPT !.pc = "undo", !.at = Len(run.begun)]
        OBVIOUS
      <3>2. run' = [base EXCEPT !.adrift = base.adrift \cup {h}]
        BY <1>2, <2>1, <3>1 DEF RunAt, OnError
      <3>3. RunFrom("undo", h, run.begun, run.result, run.adrift \cup {h})
        BY <1>1, <1>4, <2>1, <3>1, <3>2, RunFacts DEF RunFrom, RunFields
      <3>4. run' \in RunSet
        BY <1>1, <1>3, <1>4, <1>5, <3>3, RunShape DEF RunFrom, RunPc
      <3>5. QED
        BY <2>1, <3>3, <3>4 DEF RunFrom
    <2>2. CASE run.pc # "await"
      <3>1. PICK base : base = [run EXCEPT !.pc = "undo", !.at = run.at - 1]
        OBVIOUS
      <3>2. run' = [base EXCEPT !.adrift = base.adrift \cup {h}]
        BY <1>2, <2>2, <3>1 DEF RunAt
      <3>3. RunFrom("undo", h - 1, run.begun, run.result, run.adrift \cup {h})
        BY <1>1, <1>3, <3>1, <3>2, RunFacts DEF RunFrom, RunFields
      <3>4. h - 1 \in 0 .. 2 /\ "undo" \in RunPc
        BY <1>3 DEF RunPc
      <3>5. run' \in RunSet
        BY <1>1, <1>4, <1>5, <3>3, <3>4, RunShape DEF RunFrom
      <3>6. QED
        BY <2>2, <3>3, <3>5 DEF RunFrom
    <2>3. QED
      BY <2>1, <2>2
  <1>7. PICK old \in HostSet : old = host[h]
    BY <1>1
  <1>8. PICK busy \in BusySet : busy = old.busy
    BY DEF HostSet
  <1>9. PICK lost : lost = [busy EXCEPT !.attached = FALSE]
    OBVIOUS
  <1>10. /\ busy.cmd \in {"activate", "rollback"} /\ busy.release \in ReleaseId
         /\ busy = [cmd |-> busy.cmd, release |-> busy.release, attached |-> busy.attached]
    BY <1>2, <1>7, <1>8, FreeFacts DEF BusySet
  <1>11. lost \in BusySet /\ lost.attached = FALSE
    <2>1. /\ lost.cmd = busy.cmd /\ lost.release = busy.release /\ lost.attached = FALSE
          /\ lost = [field \in {"cmd", "release", "attached"} |-> lost[field]]
      BY <1>9, <1>10
    <2>2. lost = [cmd |-> lost.cmd, release |-> lost.release, attached |-> lost.attached]
      BY <2>1
    <2>3. QED
      BY <1>10, <2>1, <2>2 DEF BusySet
  <1>12. PICK new : new = [old EXCEPT !.busy = lost]
    OBVIOUS
  <1>13. /\ new.active = old.active /\ new.tried = old.tried /\ new.timer = old.timer
         /\ new.busy = lost /\ new = [field \in HostFields |-> new[field]]
    BY <1>12 DEF HostSet, HostFields
  <1>14. new \in HostSet
    BY <1>11, <1>13, HostShape DEF HostSet
  <1>15. host' = [host EXCEPT ![h] = new]
    BY <1>2, <1>7, <1>8, <1>9, <1>12
  <1>16. host'[h] = new /\ \A g \in Host : g # h => host'[g] = host[g]
    BY <1>1, <1>15
  <1>17. host' \in [Host -> HostSet]
    BY <1>1, <1>14, <1>15
  <1>18. CoordinatorTypes'
    BY <1>1, <1>6, <1>7, <1>13, <1>16, <1>17 DEF CoordinatorTypes
  <1>19. Placed' /\ Undisturbed'
    <2>1. run'.at <= Len(run.begun)
      <3>1. CASE run.pc = "await"
        BY <1>3, <1>4, <1>6, <3>1
      <3>2. CASE run.pc = "awaitUndo"
        BY <1>3, <1>4, <1>6, <3>2
      <3>3. QED
        BY <1>1, <3>1, <3>2
    <2>2. QED
      BY <1>6, <2>1 DEF Placed, Undisturbed, Here
  <1>20. HearsOne'
    <2>1. ASSUME NEW g \in Host PROVE ~host'[g].busy.attached
      <3>1. CASE g = h
        BY <1>11, <1>13, <1>16, <3>1
      <3>2. CASE g # h
        BY <1>3, <1>16, <3>2 DEF CoordinatorInv, HearsOne, Here
      <3>3. QED
        BY <3>1, <3>2
    <2>2. QED
      BY <2>1 DEF HearsOne
  <1>21. ASSUME NEW g \in Host \ run'.adrift PROVE Tracked(g)'
    <2>1. Tracked(g) /\ g \in 1 .. 2 /\ g # h /\ host'[g] = host[g]
      BY <1>6, <1>16, <1>21 DEF CoordinatorInv, Host
    <2>2. /\ host[g].busy # Free => host[g].busy.attached
          /\ run.before[g] # <<>> => Head(run.before[g]) # run.release
          /\ host[g].active \in {run.before[g], <<run.release>> \o run.before[g]}
          /\ g > Len(run.begun) => host[g].active = run.before[g] /\ run.release \notin host[g].tried
      BY <2>1 DEF Tracked
    <2>3. g > h => host[g].active = run.before[g]
      BY <1>1, <1>3, <1>4, <2>1 DEF Tracked, Here
    <2>4. g > run'.at => g > h
      BY <1>3, <1>6, <2>1
    <2>5. QED
      BY <1>6, <2>1, <2>2, <2>3, <2>4 DEF Tracked, Here
  <1>22. QED
    BY <1>6, <1>18, <1>19, <1>20, <1>21 DEF CoordinatorInv

\* A run that is cancelled leaves what it started to itself.
LEMMA CancelStep ==
    ASSUME CoordinatorInv, Cancel
    PROVE  CoordinatorInv'
  <1>1. /\ host \in [Host -> HostSet] /\ run \in RunSet /\ InOrder(run.begun)
        /\ \A g \in Host : \A i \in 1 .. Len(host[g].active) : host[g].active[i] \in host[g].tried
        /\ host' = [h \in Host |-> [host[h] EXCEPT !.busy.attached = FALSE]]
    BY DEF CoordinatorInv, CoordinatorTypes, Cancel
  <1>2. PICK drift : drift = {h \in Host : host[h].busy.attached}
    OBVIOUS
  <1>3. /\ run.begun \in Seq(Host) /\ run.adrift \cup drift \in SUBSET Host
    BY <1>1, <1>2, RunFacts
  <1>4. RunFrom("timers", 1, run.begun, "cancelled", run.adrift \cup drift)
    <2>1. PICK base : base = [run EXCEPT !.pc = "timers", !.at = 1, !.result = "cancelled"]
      OBVIOUS
    <2>2. run' = [base EXCEPT !.adrift = base.adrift \cup drift]
      BY <1>2, <2>1 DEF Cancel, Leave
    <2>3. QED
      BY <1>1, <2>1, <2>2, RunFacts DEF RunFrom, RunFields
  <1>5. run' \in RunSet
    BY <1>1, <1>3, <1>4, RunShape DEF RunFrom, RunPc, Results
  <1>6. ASSUME NEW h \in Host
        PROVE  /\ host'[h] \in HostSet /\ host'[h].active = host[h].active
               /\ host'[h].tried = host[h].tried /\ ~host'[h].busy.attached
               /\ host[h].busy = Free => host'[h].busy = Free
    <2>1. PICK old \in HostSet : old = host[h]
      BY <1>1
    <2>2. PICK busy \in BusySet : busy = old.busy
      BY DEF HostSet
    <2>3. PICK lost : lost = [busy EXCEPT !.attached = FALSE]
      OBVIOUS
    <2>4. PICK new : new = [old EXCEPT !.busy = lost]
      OBVIOUS
    <2>5. host'[h] = new
      BY <1>1, <2>1, <2>2, <2>3, <2>4
    <2>6. /\ lost.cmd = busy.cmd /\ lost.release = busy.release /\ lost.attached = FALSE
          /\ lost = [field \in {"cmd", "release", "attached"} |-> lost[field]]
      BY <2>3 DEF BusySet, Free
    <2>7. lost = [cmd |-> busy.cmd, release |-> busy.release, attached |-> FALSE]
      BY <2>6
    <2>8. busy = Free => lost = Free
      BY <2>7 DEF Free
    <2>9. lost \in BusySet
      BY <2>7, <2>8 DEF BusySet
    <2>10. /\ new.active = old.active /\ new.tried = old.tried /\ new.timer = old.timer
           /\ new.busy = lost /\ new = [field \in HostFields |-> new[field]]
      BY <2>4 DEF HostSet, HostFields
    <2>11. new \in HostSet
      BY <2>9, <2>10, HostShape DEF HostSet
    <2>12. QED
      BY <2>1, <2>2, <2>5, <2>6, <2>8, <2>10, <2>11
  <1>7. host' \in [Host -> HostSet]
    BY <1>1, <1>6
  <1>8. CoordinatorTypes'
    BY <1>1, <1>4, <1>5, <1>6, <1>7 DEF CoordinatorTypes, RunFrom
  <1>9. Placed' /\ Undisturbed'
    BY <1>4 DEF Placed, Undisturbed, Here, RunFrom
  <1>10. HearsOne'
    BY <1>6 DEF HearsOne
  <1>11. ASSUME NEW h \in Host \ run'.adrift PROVE Tracked(h)'
    <2>1. h \in Host \ run.adrift /\ ~host[h].busy.attached
      BY <1>2, <1>4, <1>11 DEF RunFrom
    <2>2. Tracked(h) /\ ~(h < 1)
      BY <2>1 DEF CoordinatorInv, Host
    <2>3. /\ host'[h].busy = Free
          /\ run.before[h] # <<>> => Head(run.before[h]) # run.release
          /\ host[h].active \in {run.before[h], <<run.release>> \o run.before[h]}
          /\ h > Len(run.begun) => host[h].active = run.before[h] /\ run.release \notin host[h].tried
      BY <1>6, <2>1, <2>2 DEF Tracked
    <2>4. QED
      BY <1>4, <1>6, <2>2, <2>3 DEF Tracked, Here, RunFrom
  <1>12. QED
    BY <1>4, <1>8, <1>9, <1>10, <1>11 DEF CoordinatorInv, RunFrom

-----------------------------------------------------------------------------
LEMMA StutterStep ==
    ASSUME CoordinatorInv, UNCHANGED coordinatorVars
    PROVE  CoordinatorInv'
  <1>1. host' = host /\ run' = run
    BY DEF coordinatorVars
  <1>2. CoordinatorTypes' /\ Placed'
    BY <1>1 DEF CoordinatorInv, CoordinatorTypes, Placed, Here
  <1>3. HearsOne' /\ Undisturbed'
    BY <1>1 DEF CoordinatorInv, HearsOne, Undisturbed, Here, Serves
  <1>4. \A h \in Host \ run'.adrift : Tracked(h)'
    BY <1>1 DEF CoordinatorInv, Tracked, Here
  <1>5. QED
    BY <1>2, <1>3, <1>4 DEF CoordinatorInv

(* Whatever the coordinator, its commands and its connections do, what it knows
   of a host that is not adrift stays true (activate-top20k-repair.yml). *)
THEOREM CoordinatorInvariant == CoordinatorSpec => []CoordinatorInv
  <1>1. CoordinatorInit => CoordinatorInv
    BY InitCoordinator
  <1>2. CoordinatorInv /\ [CoordinatorNext]_coordinatorVars => CoordinatorInv'
    <2> SUFFICES ASSUME CoordinatorInv, [CoordinatorNext]_coordinatorVars
                 PROVE  CoordinatorInv'
      OBVIOUS
    <2>1. CASE \E r \in ReleaseId : Dispatch(r)
      BY <2>1, DispatchStep
    <2>2. CASE PauseTimer
      BY <2>2, PauseTimerStep
    <2>3. CASE Verify
      BY <2>3, VerifyStep
    <2>4. CASE StartActivation
      BY <2>4, StartActivationStep
    <2>5. CASE ActivationRefused
      BY <2>5, ActivationRefusedStep
    <2>6. CASE Check
      BY <2>6, CheckStep
    <2>7. CASE StartRollback
      BY <2>7, StartRollbackStep
    <2>8. CASE RollbackRefused
      BY <2>8, RollbackRefusedStep
    <2>9. CASE RolledBack
      BY <2>9, RolledBackStep
    <2>10. CASE ResumeTimer
      BY <2>10, ResumeTimerStep
    <2>11. ASSUME NEW h \in Host, RemoteConfirms(h) PROVE CoordinatorInv'
      BY <2>11, RemoteConfirmsStep
    <2>12. ASSUME NEW h \in Host, RemoteActivates(h) PROVE CoordinatorInv'
      BY <2>12, RemoteActivatesStep
    <2>13. ASSUME NEW h \in Host, RemoteRollsBack(h) PROVE CoordinatorInv'
      BY <2>13, RemoteRollsBackStep
    <2>14. CASE LoseConnection
      BY <2>14, LoseConnectionStep
    <2>15. CASE Cancel
      BY <2>15, CancelStep
    <2>16. CASE UNCHANGED coordinatorVars
      BY <2>16, StutterStep
    <2>17. QED
      BY <2>1, <2>2, <2>3, <2>4, <2>5, <2>6, <2>7, <2>8, <2>9, <2>10, <2>11, <2>12, <2>13,
         <2>14, <2>15, <2>16 DEF CoordinatorNext
  <1>3. QED
    BY <1>1, <1>2, PTL DEF CoordinatorSpec

(* A run that is over has scheduled the daily repair on every host that its last
   step reached, and one that failed has left each host on what it served, but
   for a host that is adrift (the trap and the step that runs always, whose
   failures are ignored, activate-top20k-repair.yml:164-217). *)
THEOREM SettledRunsRestore == CoordinatorSpec => []SettledRunRestores
  <1>1. CoordinatorInv => SettledRunRestores
    <2> SUFFICES ASSUME CoordinatorInv, Settled, NEW h \in Host \ run.adrift
                 PROVE  /\ h \notin run.unreached => host[h].timer
                        /\ run.result = "failed" => Restored(h)
      BY DEF SettledRunRestores
    <2>1. Tracked(h) /\ run.pc = "ended"
      BY DEF CoordinatorInv, Settled, RunAt
    <2>2. QED
      BY <2>1 DEF Tracked, Restored
  <1>2. QED
    BY <1>1, CoordinatorInvariant, PTL

(* A run that succeeds has both hosts serving its release, whatever earlier runs
   left on them: the check compares only candidates, and what each activation
   reported still holds (activate-top20k-repair.yml:188-204). *)
THEOREM SuccessesServeBoth == CoordinatorSpec => []SuccessServesBoth
  <1>1. CoordinatorInv => SuccessServesBoth
    BY DEF CoordinatorInv, Undisturbed, SuccessServesBoth, RunAt, Serves
  <1>2. QED
    BY <1>1, CoordinatorInvariant, PTL

------------------------------------------------------------------------------

Todo == {UnitFiles, <<"main.timer", "current.conf">>, <<"current.conf">>}
Beginning == {"save", "mark", "stop", "switch"}
Timed == {"writers", "start", "wait", "complete", "unmark"}
Serving == Timed \cup {"install", "enable"}
ActivatePc == Beginning \cup Serving \cup {"failed"}
Undoing == {"announce", "halt", "revert"}
Resumed == {"resume", "rewrite", "forget"}
Reverted == Resumed \cup {"restore", "units"}
RollbackPc == Undoing \cup Reverted

TrackSet == [active : Seq(Release), prepared : Target, current : Target]
SysSet == [repair : Target, captured : SUBSET Collector, ready : Target, clean : BOOLEAN,
           timer : BOOLEAN, enabled : BOOLEAN, writers : SUBSET Collector]
BackupSet == [dir : BOOLEAN, saved : Saved \cup {None}, started : BOOLEAN,
              rolling : BOOLEAN, complete : BOOLEAN]
ControlSet == [cmd : {"none", "activate", "confirm", "undo", "rollback", "noop"},
               release : Target, pc : ActivatePc \cup RollbackPc \cup Ended,
               phase : {"none", "requested", "missing", "other"},
               todo : Todo \cup {<<>>}, ok : BOOLEAN]

ControlTypeOK ==
    /\ track \in TrackSet /\ files \in [UnitFile -> Target] /\ sys \in SysSet
    /\ backup \in [Release -> BackupSet] /\ control \in ControlSet

\* What is marked has been saved, what is saved has a directory.
Marked ==
    \A r \in Release :
        /\ backup[r].saved # None => backup[r].dir
        /\ Unfinished(r) \/ backup[r].complete => backup[r].saved # None

OneUnfinished ==
    /\ \A r, s \in Release : Unfinished(r) /\ Unfinished(s) => r = s
    /\ control.pc \notin Ended =>
          /\ control.release \in Release
          /\ \A s \in Release : Unfinished(s) => s = control.release

In(r, history) == \E i \in 1 .. Len(history) : history[i] = r

\* A release occurs once, and saved the unit files of the one before it.
Stacked(history) ==
    /\ \A i, j \in 1 .. Len(history) : history[i] = history[j] => i = j
    /\ \A i \in 1 .. Len(history) :
          /\ backup[history[i]].saved # None
          /\ \A f \in UnitFile : backup[history[i]].saved.files[f] =
                IF i < Len(history) THEN history[i + 1] ELSE None

\* The history without `r`, which can only be its newest.
Base(r) == IF Newest(track.active) = r THEN Tail(track.active) ELSE track.active
Requested(r) == track.prepared = r \/ (track.prepared = None /\ Newest(track.active) = r)

\* Somewhere between the release that `r` found and `r`.
Between(r) ==
    /\ backup[r].saved # None /\ ~In(r, Base(r))
    /\ \A f \in UnitFile : backup[r].saved.files[f] = Newest(Base(r))
    /\ track.prepared \in {None, r} /\ track.current \in {Newest(Base(r)), r}
    /\ track.prepared = r => Newest(track.active) # r
    /\ ~Requested(r) => track.current # r

AnyUnfinished == \A r \in Release : Unfinished(r) => Between(r)

\* Once complete, and until its rollback is announced, a release serves.
CompleteServes ==
    \A r \in Release :
        backup[r].complete /\ backup[r].started /\ ~backup[r].rolling =>
            Consistent /\ track.current = r

Activating(r) ==
    /\ control.cmd = "activate" /\ backup[r].dir
    /\ control.pc # "unmark" => ~backup[r].complete
    /\ IF control.pc \in {"save", "mark"} THEN ~Unfinished(r) ELSE backup[r].started
    /\ control.pc \in Beginning => Consistent /\ ~In(r, track.active)
    /\ control.pc \in Beginning \ {"save"} => backup[r].saved # None /\ backup[r].saved.files = files
    /\ control.pc \in Serving =>
          track.prepared = None /\ track.current = r /\ Newest(track.active) = r
    /\ control.pc = "install" =>
          control.todo \in Todo /\ \A f \in UnitFile \ Range(control.todo) : files[f] = r
    /\ control.pc \in Serving \ {"install"} => \A f \in UnitFile : files[f] = r
    /\ control.pc \in Timed => sys.timer

RollingBack(r) ==
    /\ control.cmd \in {"undo", "rollback"} /\ Between(r)
    /\ control.cmd = "undo" => ~backup[r].complete /\ backup[r].started
    /\ control.pc # "announce" => Unfinished(r) /\ (backup[r].complete => backup[r].rolling)
    /\ control.pc \in Undoing => (control.phase = "requested" <=> Requested(r))
    /\ control.pc = "restore" => control.todo \in Todo
    /\ control.ok =>
          /\ control.pc \in Reverted => ~Requested(r)
          /\ control.pc = "restore" => \A f \in UnitFile \ Range(control.todo) :
                                           files[f] = backup[r].saved.files[f]
          /\ control.pc \in Reverted \ {"restore"} => files = backup[r].saved.files
          /\ control.pc \in Resumed => /\ sys.enabled = backup[r].saved.enabled
                                       /\ sys.timer = backup[r].saved.timer

Commanded ==
    /\ control.pc \in ActivatePc => Activating(control.release)
    /\ control.pc \in RollbackPc => RollingBack(control.release)

ControlInv ==
    /\ ControlTypeOK /\ Marked /\ OneUnfinished /\ Stacked(track.active) /\ AnyUnfinished
    /\ CompleteServes /\ Commanded
    /\ ChangeTogether /\ RollbackRestores /\ ActivatedServes

-----------------------------------------------------------------------------
(* Histories.                                                              *)

LEMMA NewestFacts ==
    ASSUME NEW a \in Seq(Release)
    PROVE  /\ Newest(a) \in Target
           /\ Newest(a) = IF Len(a) = 0 THEN None ELSE a[1]
           /\ Len(a) \in Nat
           /\ \A i \in 1 .. Len(a) : a[i] \in Release
           /\ \A r \in Release : Newest(a) = r => Len(a) > 0 /\ a[1] = r /\ a # <<>> /\ In(r, a)
  BY ControlConstants DEF Newest, Target, In

LEMMA PushFacts ==
    ASSUME NEW a \in Seq(Release), NEW r \in Release
    PROVE  /\ <<r>> \o a \in Seq(Release)
           /\ Len(<<r>> \o a) = Len(a) + 1
           /\ \A i \in 1 .. Len(a) + 1 : (<<r>> \o a)[i] = IF i = 1 THEN r ELSE a[i - 1]
           /\ Newest(<<r>> \o a) = r
           /\ Tail(<<r>> \o a) = a
  BY DEF Newest

LEMMA TailFacts ==
    ASSUME NEW a \in Seq(Release), a # <<>>
    PROVE  /\ Tail(a) \in Seq(Release)
           /\ Len(Tail(a)) = Len(a) - 1 /\ Len(a) > 0
           /\ \A i \in 1 .. Len(a) - 1 : Tail(a)[i] = a[i + 1]
  OBVIOUS

LEMMA PushStacked ==
    ASSUME NEW a \in Seq(Release), NEW r \in Release, Stacked(a), ~In(r, a),
           backup[r].saved # None,
           \A f \in UnitFile : backup[r].saved.files[f] = Newest(a)
    PROVE  Stacked(<<r>> \o a)
  <1> DEFINE b == <<r>> \o a
  <1>1. /\ Len(a) \in Nat /\ Len(b) = Len(a) + 1
        /\ \A i \in 1 .. Len(a) + 1 : b[i] = IF i = 1 THEN r ELSE a[i - 1]
        /\ Newest(a) = IF Len(a) = 0 THEN None ELSE a[1]
    BY PushFacts, NewestFacts
  <1> HIDE DEF b
  <1>2. \A i, j \in 1 .. Len(b) : b[i] = b[j] => i = j
    <2>1. SUFFICES ASSUME NEW i \in 1 .. Len(b), NEW j \in 1 .. Len(b), b[i] = b[j] PROVE i = j
      OBVIOUS
    <2>2. CASE i > 1 /\ j > 1
      <3>1. a[i - 1] = a[j - 1] /\ i - 1 \in 1 .. Len(a) /\ j - 1 \in 1 .. Len(a)
        BY <1>1, <2>1, <2>2
      <3>2. QED
        BY <3>1 DEF Stacked
    <2>3. CASE i = 1 /\ j > 1
      <3>1. r = a[j - 1] /\ j - 1 \in 1 .. Len(a)
        BY <1>1, <2>1, <2>3
      <3>2. QED
        BY <3>1 DEF In
    <2>4. CASE i > 1 /\ j = 1
      <3>1. r = a[i - 1] /\ i - 1 \in 1 .. Len(a)
        BY <1>1, <2>1, <2>4
      <3>2. QED
        BY <3>1 DEF In
    <2>5. QED
      BY <1>1, <2>2, <2>3, <2>4
  <1>3. ASSUME NEW i \in 1 .. Len(b), NEW f \in UnitFile
        PROVE  /\ backup[b[i]].saved # None
               /\ backup[b[i]].saved.files[f] = IF i < Len(b) THEN b[i + 1] ELSE None
    <2>1. CASE i = 1
      BY <1>1, <2>1
    <2>2. CASE i > 1
      <3>1. b[i] = a[i - 1] /\ i - 1 \in 1 .. Len(a)
        BY <1>1, <2>2
      <3>2. backup[a[i - 1]].saved # None
              /\ backup[a[i - 1]].saved.files[f] = IF i - 1 < Len(a) THEN a[(i - 1) + 1] ELSE None
        BY <3>1 DEF Stacked
      <3>3. i < Len(b) => b[i + 1] = a[i]
        BY <1>1, <2>2
      <3>4. QED
        BY <1>1, <2>2, <3>1, <3>2, <3>3
    <2>3. QED
      BY <1>1, <2>1, <2>2
  <1>4. UnitFile # {}
    BY DEF UnitFile, UnitFiles, Range
  <1>5. Stacked(b)
    BY <1>2, <1>3, <1>4 DEF Stacked
  <1>6. QED
    BY <1>5 DEF b

LEMMA PopStacked ==
    ASSUME NEW a \in Seq(Release), NEW r \in Release, Stacked(a), Newest(a) = r
    PROVE  /\ Stacked(Tail(a)) /\ ~In(r, Tail(a)) /\ backup[r].saved # None
           /\ \A f \in UnitFile : backup[r].saved.files[f] = Newest(Tail(a))
  <1> DEFINE b == Tail(a)
  <1>1. /\ Len(a) \in Nat /\ Len(a) > 0 /\ a[1] = r /\ b \in Seq(Release)
        /\ Len(b) = Len(a) - 1 /\ \A i \in 1 .. Len(a) - 1 : b[i] = a[i + 1]
    BY NewestFacts, TailFacts
  <1>2. Newest(b) = IF Len(b) = 0 THEN None ELSE b[1]
    BY <1>1, NewestFacts
  <1> HIDE DEF b
  <1>3. \A i, j \in 1 .. Len(b) : b[i] = b[j] => i = j
    <2>1. SUFFICES ASSUME NEW i \in 1 .. Len(b), NEW j \in 1 .. Len(b), b[i] = b[j] PROVE i = j
      OBVIOUS
    <2>2. a[i + 1] = a[j + 1] /\ i + 1 \in 1 .. Len(a) /\ j + 1 \in 1 .. Len(a)
      BY <1>1, <2>1
    <2>3. i + 1 = j + 1
      BY <2>2 DEF Stacked
    <2>4. QED
      BY <2>3
  <1>4. ASSUME NEW i \in 1 .. Len(b)
        PROVE  /\ backup[b[i]].saved # None
               /\ \A f \in UnitFile :
                     backup[b[i]].saved.files[f] = IF i < Len(b) THEN b[i + 1] ELSE None
    <2>1. b[i] = a[i + 1] /\ i + 1 \in 1 .. Len(a)
      BY <1>1
    <2>2. i < Len(b) => b[i + 1] = a[(i + 1) + 1]
      BY <1>1
    <2>3. (i < Len(b)) <=> (i + 1 < Len(a))
      BY <1>1
    <2>4. /\ backup[a[i + 1]].saved # None
          /\ \A f \in UnitFile : backup[a[i + 1]].saved.files[f] =
                IF i + 1 < Len(a) THEN a[(i + 1) + 1] ELSE None
      BY <2>1 DEF Stacked
    <2>5. QED
      BY <2>1, <2>2, <2>3, <2>4
  <1>5. ~In(r, b)
    <2>1. SUFFICES ASSUME NEW i \in 1 .. Len(b), b[i] = r PROVE FALSE
      BY DEF In
    <2>2. a[i + 1] = a[1] /\ i + 1 \in 1 .. Len(a) /\ 1 \in 1 .. Len(a)
      BY <1>1, <2>1
    <2>3. i + 1 = 1
      BY <2>2 DEF Stacked
    <2>4. QED
      BY <2>3
  <1>6. backup[r].saved # None /\ \A f \in UnitFile : backup[r].saved.files[f] = Newest(b)
    <2>1. 1 \in 1 .. Len(a)
      BY <1>1
    <2>2. /\ backup[a[1]].saved # None
          /\ \A f \in UnitFile : backup[a[1]].saved.files[f] = IF 1 < Len(a) THEN a[1 + 1] ELSE None
      BY <2>1 DEF Stacked
    <2>3. Newest(b) = IF 1 < Len(a) THEN a[1 + 1] ELSE None
      BY <1>1, <1>2
    <2>4. QED
      BY <1>1, <2>2, <2>3
  <1>7. Stacked(b)
    BY <1>3, <1>4 DEF Stacked
  <1>8. QED
    BY <1>5, <1>6, <1>7 DEF b

-----------------------------------------------------------------------------
(* The command that runs, the units, the marks of a release.               *)

LEMMA ControlStep ==
    ASSUME ControlTypeOK, NEW p \in ActivatePc \cup RollbackPc \cup Ended,
           NEW t \in Todo \cup {<<>>}, NEW o \in BOOLEAN,
           \/ control' = [control EXCEPT !.pc = p] /\ t = control.todo /\ o = control.ok
           \/ control' = [control EXCEPT !.pc = p, !.ok = o] /\ t = control.todo
           \/ control' = [control EXCEPT !.pc = p, !.todo = t] /\ o = control.ok
           \/ control' = [control EXCEPT !.pc = p, !.todo = t, !.ok = o]
           \/ control' = [control EXCEPT !.todo = t, !.ok = o, !.pc = p]
    PROVE  /\ control' \in ControlSet
           /\ control'.pc = p /\ control'.todo = t /\ control'.ok = o
           /\ control'.cmd = control.cmd /\ control'.release = control.release
           /\ control'.phase = control.phase
  <1>1. control = [cmd |-> control.cmd, release |-> control.release, pc |-> control.pc,
                   phase |-> control.phase, todo |-> control.todo, ok |-> control.ok]
    BY DEF ControlTypeOK, ControlSet
  <1>2. /\ DOMAIN control' = {"cmd", "release", "pc", "phase", "todo", "ok"}
        /\ control'.pc = p /\ control'.todo = t /\ control'.ok = o
        /\ control'.cmd = control.cmd /\ control'.release = control.release
        /\ control'.phase = control.phase
    BY <1>1
  <1>3. control' = [field \in {"cmd", "release", "pc", "phase", "todo", "ok"} |-> control'[field]]
    BY <1>1
  <1>4. control' = [cmd |-> control.cmd, release |-> control.release, pc |-> p,
                    phase |-> control.phase, todo |-> t, ok |-> o]
    BY <1>2, <1>3
  <1>5. QED
    BY <1>2, <1>4 DEF ControlTypeOK, ControlSet

\* Only the place of the command changes.
LEMMA GotoStep ==
    ASSUME ControlTypeOK, NEW p \in ActivatePc \cup RollbackPc \cup Ended, Goto(p)
    PROVE  /\ control' \in ControlSet
           /\ control'.pc = p /\ control'.todo = control.todo /\ control'.ok = control.ok
           /\ control'.cmd = control.cmd /\ control'.release = control.release
           /\ control'.phase = control.phase
  <1>1. control.todo \in Todo \cup {<<>>} /\ control.ok \in BOOLEAN
    BY DEF ControlTypeOK, ControlSet
  <1>2. QED
    BY <1>1, ControlStep DEF Goto

\* A step that may fail.
LEMMA AdvanceStep ==
    ASSUME ControlTypeOK, NEW p \in ActivatePc \cup RollbackPc \cup Ended, NEW good \in BOOLEAN,
           Advance(p, good)
    PROVE  /\ control' \in ControlSet
           /\ control'.pc = p /\ control'.todo = control.todo
           /\ control'.ok <=> control.ok /\ good
           /\ control'.cmd = control.cmd /\ control'.release = control.release
           /\ control'.phase = control.phase
  <1>1. PICK o \in BOOLEAN : o = (control.ok /\ good)
    OBVIOUS
  <1>2. control' = [control EXCEPT !.pc = p, !.ok = o]
    BY <1>1 DEF Advance
  <1>3. control.todo \in Todo \cup {<<>>}
    BY DEF ControlTypeOK, ControlSet
  <1>4. /\ control' \in ControlSet
        /\ control'.pc = p /\ control'.todo = control.todo /\ control'.ok = o
        /\ control'.cmd = control.cmd /\ control'.release = control.release
        /\ control'.phase = control.phase
    BY <1>2, <1>3, ControlStep
  <1>5. QED
    BY <1>1, <1>4

LEMMA TodoFacts ==
    /\ UnitFile = {"main.service", "main.timer", "current.conf"}
    /\ UnitFiles \in Todo
    /\ Range(UnitFiles) = UnitFile
    /\ \A t \in Todo : /\ Head(t) \in UnitFile /\ Len(t) \in 1 .. 3
                       /\ Tail(t) \in Todo \cup {<<>>}
                       /\ Len(t) # 1 => Tail(t) \in Todo
                       /\ \A f \in UnitFile \ Range(Tail(t)) : f # Head(t) => f \notin Range(t)
                       /\ Len(t) = 1 => \A f \in UnitFile : f # Head(t) => f \notin Range(t)
  <1>1. /\ UnitFile = {"main.service", "main.timer", "current.conf"}
        /\ Range(<<"main.timer", "current.conf">>) = {"main.timer", "current.conf"}
        /\ Range(<<"current.conf">>) = {"current.conf"}
        /\ Range(UnitFiles) = UnitFile
    BY DEF UnitFile, UnitFiles, Range
  <1>2. UnitFiles \in Todo
    BY DEF Todo
  <1>3. ASSUME NEW t \in Todo
        PROVE  /\ Head(t) \in UnitFile /\ Len(t) \in 1 .. 3
               /\ Tail(t) \in Todo \cup {<<>>}
               /\ Len(t) # 1 => Tail(t) \in Todo
               /\ \A f \in UnitFile \ Range(Tail(t)) : f # Head(t) => f \notin Range(t)
               /\ Len(t) = 1 => \A f \in UnitFile : f # Head(t) => f \notin Range(t)
    <2>1. CASE t = UnitFiles
      <3>1. /\ Head(t) = "main.service" /\ Len(t) = 3
            /\ Tail(t) = <<"main.timer", "current.conf">>
        BY <2>1 DEF UnitFiles
      <3>2. Tail(t) \in Todo
        BY <3>1 DEF Todo
      <3>3. Range(Tail(t)) = {"main.timer", "current.conf"} /\ Range(t) = UnitFile
        BY <1>1, <2>1, <3>1
      <3>4. QED
        BY <1>1, <3>1, <3>2, <3>3
    <2>2. CASE t = <<"main.timer", "current.conf">>
      <3>1. Head(t) = "main.timer" /\ Len(t) = 2 /\ Tail(t) = <<"current.conf">>
        BY <2>2
      <3>2. QED
        BY <1>1, <2>2, <3>1 DEF Todo
    <2>3. CASE t = <<"current.conf">>
      <3>1. Head(t) = "current.conf" /\ Len(t) = 1 /\ Tail(t) = <<>>
        BY <2>3
      <3>2. QED
        BY <1>1, <2>3, <3>1 DEF Todo
    <2>4. QED
      BY <2>1, <2>2, <2>3 DEF Todo
  <1>4. QED
    BY <1>1, <1>2, <1>3

\* The next unit file is done.
LEMMA FileStep ==
    ASSUME ControlTypeOK, control.todo \in Todo, NEW good \in BOOLEAN,
           NEW next \in RollbackPc \cup ActivatePc, FileDone(next, good)
    PROVE  /\ control' \in ControlSet
           /\ control'.pc = IF Len(control.todo) = 1 THEN next ELSE control.pc
           /\ control'.todo = Tail(control.todo)
           /\ control'.ok <=> control.ok /\ good
           /\ control'.cmd = control.cmd /\ control'.release = control.release
           /\ control'.phase = control.phase
  <1>1. PICK o \in BOOLEAN : o = (control.ok /\ good)
    OBVIOUS
  <1>2. PICK p \in ActivatePc \cup RollbackPc \cup Ended :
           p = IF Len(control.todo) = 1 THEN next ELSE control.pc
    BY DEF ControlTypeOK, ControlSet
  <1>3. PICK t \in Todo \cup {<<>>} : t = Tail(control.todo)
    BY TodoFacts
  <1>4. control' = [control EXCEPT !.todo = t, !.ok = o, !.pc = p]
    BY <1>1, <1>2, <1>3 DEF FileDone
  <1>5. /\ control' \in ControlSet
        /\ control'.pc = p /\ control'.todo = t /\ control'.ok = o
        /\ control'.cmd = control.cmd /\ control'.release = control.release
        /\ control'.phase = control.phase
    BY <1>4, ControlStep
  <1>6. QED
    BY <1>1, <1>2, <1>3, <1>5

\* The repair and the collectors come and go without the timer.
LEMMA StoppedFacts ==
    ASSUME NEW s \in SysSet
    PROVE  StoppedRepair(s) \in SysSet /\ StoppedRepair(s).timer = s.timer
             /\ StoppedRepair(s).enabled = s.enabled
  BY DEF StoppedRepair, SysSet, Target

LEMMA StartedFacts ==
    ASSUME ControlTypeOK, NEW s \in SysSet
    PROVE  StartedRepair(s) \in SysSet /\ StartedRepair(s).timer = s.timer
             /\ StartedRepair(s).enabled = s.enabled
  BY DEF StartedRepair, SysSet, Target, ControlTypeOK, TrackSet

LEMMA RestoredFacts ==
    ASSUME NEW s \in SysSet, NEW before \in SUBSET Collector
    PROVE  RestoredWriters(s, before) \in SysSet /\ RestoredWriters(s, before).timer = s.timer
             /\ RestoredWriters(s, before).enabled = s.enabled
  BY StoppedFacts DEF RestoredWriters, SysSet

-----------------------------------------------------------------------------
(* Steps that leave track, files and backups alone.                        *)

LEMMA KeptFacts ==
    ASSUME track' = track, files' = files, backup' = backup
    PROVE  /\ \A r \in Release : (Unfinished(r)' <=> Unfinished(r)) /\ (Between(r)' <=> Between(r))
           /\ \A r \in Release : Requested(r)' <=> Requested(r)
           /\ Consistent' <=> Consistent
  <1>1. \A r \in Release : Unfinished(r)' <=> Unfinished(r)
    BY DEF Unfinished
  <1>2. \A r \in Release : Requested(r)' <=> Requested(r)
    BY DEF Requested
  <1>3. \A r \in Release : Between(r)' <=> Between(r)
    BY DEF Between, Base, Requested
  <1>4. QED
    BY <1>1, <1>2, <1>3 DEF Consistent

LEMMA KeptInv ==
    ASSUME ControlInv, track' = track, files' = files, backup' = backup,
           sys' \in SysSet, control' \in ControlSet,
           OneUnfinished', Commanded', RollbackRestores', ActivatedServes'
    PROVE  ControlInv'
  <1>1. ControlTypeOK'
    BY DEF ControlInv, ControlTypeOK
  <1>2. Marked' /\ AnyUnfinished' /\ CompleteServes' /\ ChangeTogether'
    BY KeptFacts DEF ControlInv, Marked, AnyUnfinished, CompleteServes, ChangeTogether
  <1>3. Stacked(track.active)'
    BY DEF ControlInv, Stacked
  <1>4. QED
    BY <1>1, <1>2, <1>3 DEF ControlInv

LEMMA SideStepInv ==
    ASSUME ControlInv, track' = track, files' = files, backup' = backup, control' = control,
           sys' \in SysSet, sys'.timer = sys.timer, sys'.enabled = sys.enabled
    PROVE  ControlInv'
  <1>1. OneUnfinished'
    BY KeptFacts DEF ControlInv, OneUnfinished
  <1>2. ASSUME control.pc \in ActivatePc PROVE Activating(control.release)'
    <2>1. Activating(control.release)
      BY <1>2 DEF ControlInv, Commanded
    <2>2. QED
      BY <2>1, KeptFacts DEF Activating, Unfinished, Consistent
  <1>3. ASSUME control.pc \in RollbackPc PROVE RollingBack(control.release)'
    <2>1. RollingBack(control.release) /\ control.release \in Release /\ control.pc \notin Ended
      BY <1>3 DEF ControlInv, Commanded, OneUnfinished, RollbackPc, Undoing, Reverted, Resumed, Ended
    <2>2. /\ Between(control.release)' /\ (Unfinished(control.release)' <=> Unfinished(control.release))
          /\ Requested(control.release)' <=> Requested(control.release)
      BY <2>1, KeptFacts DEF RollingBack
    <2>3. QED
      BY <2>1, <2>2 DEF RollingBack
  <1>4. Commanded'
    BY <1>2, <1>3 DEF Commanded
  <1>5. RollbackRestores' /\ ActivatedServes'
    BY KeptFacts DEF ControlInv, RollbackRestores, ActivatedServes, At, Mine, Unfinished, Consistent
  <1>6. QED
    BY <1>1, <1>4, <1>5, KeptInv DEF ControlInv, ControlTypeOK

LEMMA RepairStepInv ==
    ASSUME ControlInv, TimerElapses \/ RepairReady \/ RepairEnds PROVE ControlInv'
  <1>1. sys \in SysSet /\ ControlTypeOK
    BY DEF ControlInv, ControlTypeOK
  <1>2. sys' \in SysSet /\ sys'.timer = sys.timer /\ sys'.enabled = sys.enabled
    <2>1. CASE TimerElapses
      BY <1>1, <2>1, StartedFacts DEF TimerElapses
    <2>2. CASE RepairReady
      BY <1>1, <2>2 DEF RepairReady, SysSet
    <2>3. CASE RepairEnds
      <3>1. PICK clean \in BOOLEAN : sys' = [StoppedRepair(sys) EXCEPT !.clean = clean]
        BY <2>3 DEF RepairEnds
      <3>2. PICK stopped : stopped = StoppedRepair(sys)
        OBVIOUS
      <3>3. stopped \in SysSet /\ stopped.timer = sys.timer /\ stopped.enabled = sys.enabled
        BY <1>1, <3>2, StoppedFacts
      <3>4. sys' = [stopped EXCEPT !.clean = clean]
        BY <3>1, <3>2
      <3>5. QED
        BY <3>3, <3>4 DEF SysSet
    <2>4. QED
      BY <2>1, <2>2, <2>3
  <1>3. track' = track /\ files' = files /\ backup' = backup /\ control' = control
    BY DEF TimerElapses, RepairReady, RepairEnds
  <1>4. QED
    BY <1>2, <1>3, SideStepInv

\* The script is gone.
LEMMA IdleInv ==
    ASSUME ControlInv, Kill \/ Reboot PROVE ControlInv'
  <1>1. /\ track' = track /\ files' = files /\ backup' = backup
        /\ control' = [cmd |-> "none", release |-> None, pc |-> "idle", phase |-> "none",
                       todo |-> <<>>, ok |-> TRUE]
    BY DEF Kill, Reboot, Idle
  <1>2. sys' \in SysSet
    <2>1. CASE Kill
      BY <2>1 DEF Kill, ControlInv, ControlTypeOK
    <2>2. CASE Reboot
      <3>1. sys \in SysSet
        BY DEF ControlInv, ControlTypeOK
      <3>2. sys' = [sys EXCEPT !.repair = None, !.captured = {}, !.clean = FALSE,
                               !.timer = sys.enabled, !.writers = Collector]
        BY <2>2 DEF Reboot
      <3>3. QED
        BY <3>1, <3>2 DEF SysSet, Target
    <2>3. QED
      BY <2>1, <2>2
  <1>3. control' \in ControlSet
    BY <1>1 DEF ControlSet, Target, Ended
  <1>4. OneUnfinished'
    BY <1>1, KeptFacts DEF ControlInv, OneUnfinished, Ended
  <1>5. Commanded' /\ RollbackRestores' /\ ActivatedServes'
    BY <1>1 DEF Commanded, RollbackRestores, ActivatedServes, At, ActivatePc, RollbackPc, Beginning,
                Serving, Timed, Undoing, Reverted, Resumed
  <1>6. QED
    BY <1>1, <1>2, <1>3, <1>4, <1>5, KeptInv

LEMMA ConfirmInv ==
    ASSUME ControlInv, NEW r \in Release, ConfirmActive(r), Overlap = FALSE PROVE ControlInv'
  <1>1. PICK ok \in {FALSE, backup[r].complete /\ track.current = r /\ ServiceReady(r)} :
           control' = [Idle EXCEPT !.cmd = "confirm", !.release = r, !.pc = "done", !.ok = ok]
    BY DEF ConfirmActive
  <1>2. /\ control' = [cmd |-> "confirm", release |-> r, pc |-> "done", phase |-> "none",
                       todo |-> <<>>, ok |-> ok]
        /\ ok \in BOOLEAN
    <2>1. backup[r].complete \in BOOLEAN
      BY DEF ControlInv, ControlTypeOK, BackupSet
    <2>2. QED
      BY <1>1, <2>1 DEF Idle
  <1>3. track' = track /\ files' = files /\ backup' = backup /\ sys' = sys
    BY DEF ConfirmActive
  <1>4. control' \in ControlSet
    BY <1>2 DEF ControlSet, Target, Ended
  <1>5. ok => backup[r].complete /\ track.current = r /\ (Consistent \/ backup[r].rolling)
    <2>1. SUFFICES ASSUME ok, ~backup[r].rolling
                   PROVE  backup[r].complete /\ track.current = r /\ Consistent
      BY <1>1
    <2>2. backup[r].complete /\ track.current = r
      BY <1>1, <2>1
    <2>3. CASE backup[r].started
      BY <2>1, <2>2, <2>3 DEF ControlInv, CompleteServes
    <2>4. CASE ~backup[r].started
      <3>1. \A s \in Release : ~Unfinished(s)
        BY <2>1, <2>4 DEF ConfirmActive, MayBegin, Unfinished
      <3>2. QED
        BY <2>2, <3>1 DEF ControlInv, ChangeTogether
    <2>5. QED
      BY <2>3, <2>4
  <1>6. OneUnfinished'
    BY <1>2, <1>3, KeptFacts DEF ControlInv, OneUnfinished, Ended
  <1>7. Commanded' /\ RollbackRestores'
    BY <1>2 DEF Commanded, RollbackRestores, At, ActivatePc, RollbackPc, Beginning,
                Serving, Timed, Undoing, Reverted, Resumed
  <1>8. ActivatedServes'
    BY <1>2, <1>3, <1>5, KeptFacts DEF ActivatedServes, At, Mine
  <1>9. QED
    BY <1>3, <1>4, <1>6, <1>7, <1>8, KeptInv DEF ControlInv, ControlTypeOK

LEMMA PhaseFacts ==
    ASSUME NEW r \in Release
    PROVE  Phase(r) \in {"none", "requested", "missing", "other"}
             /\ (Phase(r) = "requested" <=> Requested(r))
  BY DEF Phase, Requested

\* A release that serves can be rolled back.
LEMMA ServingBetween ==
    ASSUME ControlInv, NEW r \in Release, Consistent, Newest(track.active) = r
    PROVE  Between(r)
  <1>1. track.active \in Seq(Release) /\ Stacked(track.active)
    BY DEF ControlInv, ControlTypeOK, TrackSet
  <1>2. /\ ~In(r, Tail(track.active)) /\ backup[r].saved # None
        /\ \A f \in UnitFile : backup[r].saved.files[f] = Newest(Tail(track.active))
    BY <1>1, PopStacked
  <1>3. QED
    BY <1>2, ControlConstants DEF Between, Base, Requested, Consistent

LEMMA EntryFields ==
    ASSUME NEW c0, NEW r, NEW ph, NEW e, NEW d, NEW c, NEW p, NEW o,
           e = [cmd |-> c0, release |-> r, pc |-> "idle", phase |-> ph, todo |-> <<>>, ok |-> TRUE],
           \/ d = [e EXCEPT !.cmd = c, !.pc = p] /\ o = TRUE
           \/ d = [e EXCEPT !.pc = p, !.ok = o] /\ c = c0
           \/ d = [e EXCEPT !.pc = p] /\ o = TRUE /\ c = c0
    PROVE  d = [cmd |-> c, release |-> r, pc |-> p, phase |-> ph, todo |-> <<>>, ok |-> o]
  <1>1. /\ DOMAIN d = {"cmd", "release", "pc", "phase", "todo", "ok"}
        /\ d.cmd = c /\ d.release = r /\ d.pc = p /\ d.phase = ph /\ d.todo = <<>> /\ d.ok = o
    OBVIOUS
  <1>2. d = [field \in {"cmd", "release", "pc", "phase", "todo", "ok"} |-> d[field]]
    OBVIOUS
  <1>3. QED
    BY <1>1, <1>2

LEMMA EntryInv ==
    ASSUME ControlInv, NEW r \in Release, NEW cmd \in {"undo", "rollback"},
           track' = track, files' = files, backup' = backup, sys' = sys,
           control' = RollbackEntry(cmd, r),
           \A s \in Release : Unfinished(s) => s = r,
           cmd = "undo" => ~backup[r].complete /\ backup[r].started
    PROVE  ControlInv'
  <1> DEFINE entry(c, pc, ok) == [cmd |-> c, release |-> r, pc |-> pc, phase |-> Phase(r),
                                  todo |-> <<>>, ok |-> ok]
  <1>1. \/ control' = entry("noop", "done", TRUE)
        \/ control' = entry(cmd, "done", FALSE)
        \/ /\ control' = entry(cmd, "announce", TRUE)
           /\ Unfinished(r) \/ Requested(r)
    <2>1. PICK e : e = [Idle EXCEPT !.cmd = cmd, !.release = r, !.phase = Phase(r)]
      OBVIOUS
    <2>2. e = [cmd |-> cmd, release |-> r, pc |-> "idle", phase |-> Phase(r), todo |-> <<>>,
               ok |-> TRUE]
      BY <2>1 DEF Idle
    <2>3. control' = IF ~Unfinished(r) /\ Phase(r) # "requested"
                     THEN [e EXCEPT !.cmd = "noop", !.pc = "done"]
                     ELSE IF backup[r].saved = None THEN [e EXCEPT !.pc = "done", !.ok = FALSE]
                     ELSE [e EXCEPT !.pc = "announce"]
      BY <2>1 DEF RollbackEntry
    <2>4. CASE ~Unfinished(r) /\ Phase(r) # "requested"
      BY <2>2, <2>3, <2>4, EntryFields
    <2>5. CASE (Unfinished(r) \/ Phase(r) = "requested") /\ backup[r].saved = None
      BY <2>2, <2>3, <2>5, EntryFields
    <2>6. CASE (Unfinished(r) \/ Phase(r) = "requested") /\ backup[r].saved # None
      <3>1. control' = [e EXCEPT !.pc = "announce"]
        BY <2>3, <2>6
      <3>2. control' = entry(cmd, "announce", TRUE)
        BY <2>2, <3>1, EntryFields
      <3>3. QED
        BY <2>6, <3>2, PhaseFacts
    <2>7. QED
      BY <2>4, <2>5, <2>6
  <1>2. Phase(r) \in {"none", "requested", "missing", "other"}
          /\ (Phase(r) = "requested" <=> Requested(r))
    BY PhaseFacts
  <1>3. OneUnfinished' /\ control' \in ControlSet
    <2>1. control'.release = r
      BY <1>1
    <2>2. OneUnfinished'
      BY <2>1, KeptFacts DEF ControlInv, OneUnfinished
    <2>3. PICK c \in {"noop", "undo", "rollback"}, pc \in {"done", "announce"}, ok \in BOOLEAN :
             control' = entry(c, pc, ok)
      BY <1>1
    <2>4. control' \in ControlSet
      BY <1>2, <2>3 DEF ControlSet, Target, Ended, RollbackPc, Undoing
    <2>5. QED
      BY <2>2, <2>4
  <1>4. CASE control' = entry("noop", "done", TRUE) \/ control' = entry(cmd, "done", FALSE)
    <2>1. /\ control'.pc = "done"
          /\ control'.cmd = "noop" \/ (control'.cmd \in {"undo", "rollback"} /\ ~control'.ok)
      BY <1>4
    <2>2. Commanded' /\ RollbackRestores' /\ ActivatedServes'
      BY <2>1 DEF Commanded, RollbackRestores, ActivatedServes, At, ActivatePc, RollbackPc,
                  Beginning, Serving, Timed, Undoing, Reverted, Resumed
    <2>3. QED
      BY <1>3, <2>2, KeptInv DEF ControlInv, ControlTypeOK
  <1>5. CASE /\ control' = entry(cmd, "announce", TRUE)
             /\ Unfinished(r) \/ Requested(r)
    <2>1. /\ control'.pc = "announce" /\ control'.release = r /\ control'.cmd = cmd
          /\ control'.phase = Phase(r)
      BY <1>5
    <2>2. Between(r)
      <3>1. CASE Unfinished(r)
        BY <3>1 DEF ControlInv, AnyUnfinished
      <3>2. CASE ~Unfinished(r)
        <4>1. Consistent
          BY <3>2 DEF ControlInv, ChangeTogether
        <4>2. Newest(track.active) = r
          BY <1>5, <3>2, <4>1, ControlConstants DEF Requested, Consistent
        <4>3. QED
          BY <4>1, <4>2, ServingBetween
      <3>3. QED
        BY <3>1, <3>2
    <2>3. RollingBack(r)'
      <3>1. Between(r)' /\ (Requested(r)' <=> Requested(r))
        BY <2>2, KeptFacts
      <3>2. QED
        BY <1>2, <2>1, <3>1 DEF RollingBack, Undoing, Reverted, Resumed
    <2>4. Commanded' /\ RollbackRestores' /\ ActivatedServes'
      BY <2>1, <2>3 DEF Commanded, RollbackRestores, ActivatedServes, At, ActivatePc,
                        Beginning, Serving, Timed
    <2>5. QED
      BY <1>3, <2>4, KeptInv DEF ControlInv, ControlTypeOK
  <1>6. QED
    BY <1>1, <1>4, <1>5

LEMMA BeginRollbackInv ==
    ASSUME ControlInv, NEW r \in Release, BeginRollback(r), Overlap = FALSE PROVE ControlInv'
  <1>1. \A s \in Release : Unfinished(s) => s = r
    BY DEF BeginRollback, MayBegin
  <1>2. QED
    BY <1>1, EntryInv DEF BeginRollback

LEMMA ActivationFailedInv ==
    ASSUME ControlInv, ActivationFailed PROVE ControlInv'
  <1>1. control.pc = "failed" /\ control.pc \in ActivatePc /\ control.pc \notin Ended
    BY DEF ActivationFailed, At, ActivatePc, Ended
  <1>2. control.release \in Release /\ \A s \in Release : Unfinished(s) => s = control.release
    BY <1>1 DEF ControlInv, OneUnfinished
  <1>3. Activating(control.release)
    BY <1>1 DEF ControlInv, Commanded
  <1>4. ~backup[control.release].complete /\ backup[control.release].started
    BY <1>1, <1>3 DEF Activating
  <1>5. QED
    BY <1>2, <1>4, EntryInv DEF ActivationFailed

LEMMA PcFacts ==
    /\ \A p \in ActivatePc \cup RollbackPc : p \notin Ended /\ p # "done"
    /\ \A p \in ActivatePc : p \notin RollbackPc
    /\ \A p \in RollbackPc : p \notin ActivatePc
    /\ Beginning \subseteq ActivatePc /\ Serving \subseteq ActivatePc /\ Timed \subseteq Serving
    /\ Undoing \subseteq RollbackPc /\ Reverted \subseteq RollbackPc /\ Resumed \subseteq Reverted
  BY DEF ActivatePc, RollbackPc, Beginning, Serving, Timed, Undoing, Reverted, Resumed, Ended

\* A command goes on: what is left to show is what holds at its next step.
LEMMA MoveInv ==
    ASSUME ControlInv, track' = track, files' = files, backup' = backup, sys' \in SysSet,
           control' \in ControlSet, control'.release = control.release,
           control.pc \in ActivatePc \cup RollbackPc,
           \/ control'.pc \in ActivatePc /\ Activating(control.release)'
           \/ control'.pc \in RollbackPc /\ RollingBack(control.release)'
    PROVE  ControlInv'
  <1>1. OneUnfinished'
    BY KeptFacts, PcFacts DEF ControlInv, OneUnfinished
  <1>2. Commanded' /\ RollbackRestores' /\ ActivatedServes'
    BY PcFacts DEF Commanded, RollbackRestores, ActivatedServes, At
  <1>3. QED
    BY <1>1, <1>2, KeptInv

LEMMA StopOldInv ==
    ASSUME ControlInv, StopOldRepair PROVE ControlInv'
  <1>1. track' = track /\ files' = files /\ backup' = backup
    BY DEF StopOldRepair
  <1>2. control.pc = "stop" /\ control.pc \in ActivatePc /\ ControlTypeOK
    BY DEF StopOldRepair, At, ActivatePc, Beginning, ControlInv
  <1>3. /\ control' \in ControlSet /\ control'.pc = "switch" /\ control'.cmd = control.cmd
        /\ control'.release = control.release /\ "switch" \in ActivatePc
    BY <1>2, GotoStep DEF StopOldRepair, ActivatePc, Beginning
  <1>4. sys' \in SysSet
    BY <1>2, StoppedFacts DEF StopOldRepair, ControlTypeOK
  <1>5. Activating(control.release)
    BY <1>2 DEF ControlInv, Commanded
  <1>6. Activating(control.release)'
    BY <1>1, <1>2, <1>3, <1>5, KeptFacts DEF Activating, Beginning, Serving, Timed
  <1>7. QED
    BY <1>1, <1>2, <1>3, <1>4, <1>6, MoveInv

LEMMA SubshellStepInv ==
    ASSUME ControlInv,
           EnableTimer \/ ResetWriters \/ StartNewRepair \/ AwaitReady \/ SubshellFails
    PROVE  ControlInv'
  <1>1. track' = track /\ files' = files /\ backup' = backup
    BY DEF EnableTimer, ResetWriters, StartNewRepair, AwaitReady, SubshellFails
  <1>2. /\ control.pc \in {"install", "enable", "writers", "start", "wait"}
        /\ control.pc \in ActivatePc /\ ControlTypeOK
    BY DEF EnableTimer, ResetWriters, StartNewRepair, AwaitReady, SubshellFails, At, ActivatePc,
           Serving, Timed, ControlInv
  <1>3. PICK p \in {"writers", "start", "wait", "complete", "failed"} : Goto(p)
    BY DEF EnableTimer, ResetWriters, StartNewRepair, AwaitReady, SubshellFails
  <1>4. /\ control' \in ControlSet /\ control'.pc = p /\ control'.cmd = control.cmd
        /\ control'.release = control.release /\ p \in ActivatePc
    BY <1>2, <1>3, GotoStep DEF ActivatePc, Serving, Timed
  <1>5. Activating(control.release) /\ control.release \in Release
    BY <1>2, PcFacts DEF ControlInv, Commanded, OneUnfinished
  <1>6. sys \in SysSet /\ backup[control.release].saved.writers \in SUBSET Collector
    <2>1. backup[control.release].started /\ backup[control.release].saved # None
      BY <1>2, <1>5 DEF Activating, ControlInv, Marked, Unfinished
    <2>2. backup[control.release].saved \in Saved
      BY <1>2, <1>5, <2>1 DEF ControlTypeOK, BackupSet
    <2>3. QED
      BY <1>2, <2>2 DEF ControlTypeOK, Saved
  <1>7. sys' \in SysSet /\ (p \in Timed => sys'.timer)
    <2>1. CASE EnableTimer
      BY <1>6, <2>1 DEF EnableTimer, SysSet
    <2>2. CASE ResetWriters
      <3>1. sys.timer
        BY <1>5, <2>2 DEF ResetWriters, At, Activating, Timed
      <3>2. QED
        BY <1>6, <2>2, <3>1, RestoredFacts DEF ResetWriters, Mine
    <2>3. CASE StartNewRepair
      <3>1. sys.timer
        BY <1>5, <2>3 DEF StartNewRepair, At, Activating, Timed
      <3>2. PICK s : s = [sys EXCEPT !.ready = None]
        OBVIOUS
      <3>3. s \in SysSet /\ s.timer = sys.timer
        BY <1>6, <3>2 DEF SysSet, Target
      <3>4. sys' = StartedRepair(s)
        BY <2>3, <3>2 DEF StartNewRepair
      <3>5. QED
        BY <1>2, <3>1, <3>3, <3>4, StartedFacts
    <2>4. CASE AwaitReady
      BY <1>5, <1>6, <2>4 DEF AwaitReady, At, Activating, Timed
    <2>5. CASE SubshellFails
      <3>1. p = "failed"
        <4>1. control'.pc = "failed"
          BY <1>2, <2>5, GotoStep DEF SubshellFails, ActivatePc
        <4>2. QED
          BY <1>4, <4>1
      <3>2. QED
        BY <1>6, <2>5, <3>1 DEF SubshellFails, Timed
    <2>6. QED
      BY <2>1, <2>2, <2>3, <2>4, <2>5
  <1>8. p # "failed" => control.pc # "install"
    <2>1. CASE SubshellFails
      <3>1. control'.pc = "failed"
        BY <1>2, <2>1, GotoStep DEF SubshellFails, ActivatePc
      <3>2. QED
        BY <1>4, <3>1
    <2>2. CASE ~SubshellFails
      BY <2>2 DEF EnableTimer, ResetWriters, StartNewRepair, AwaitReady, At
    <2>3. QED
      BY <2>1, <2>2
  <1>9. Activating(control.release)'
    <2>1. /\ control.cmd = "activate" /\ ~backup[control.release].complete
          /\ backup[control.release].dir
          /\ backup[control.release].started
          /\ track.prepared = None /\ track.current = control.release
          /\ Newest(track.active) = control.release
          /\ p # "failed" => \A f \in UnitFile : files[f] = control.release
      BY <1>2, <1>5, <1>8 DEF Activating, Serving, Timed
    <2>2. QED
      BY <1>1, <1>4, <1>7, <2>1 DEF Activating, Beginning, Serving, Timed
  <1>10. QED
    BY <1>1, <1>2, <1>4, <1>7, <1>9, MoveInv

\* The steps of a rollback that change units only.
LEMMA RollbackStepInv ==
    ASSUME ControlInv, Halt \/ RestoreTimer \/ ResumeRepair \/ RestoreWriters PROVE ControlInv'
  <1> DEFINE R == control.release
  <1>1. track' = track /\ files' = files /\ backup' = backup
    BY DEF Halt, RestoreTimer, ResumeRepair, RestoreWriters
  <1>2. /\ control.pc \in {"halt", "units", "resume", "rewrite"}
        /\ control.pc \in RollbackPc /\ ControlTypeOK
    BY DEF Halt, RestoreTimer, ResumeRepair, RestoreWriters, At, RollbackPc, Undoing, Reverted,
           Resumed, ControlInv
  <1>3. RollingBack(R) /\ R \in Release
    BY <1>2, PcFacts DEF ControlInv, Commanded, OneUnfinished
  <1>4. sys \in SysSet /\ backup[R].saved \in Saved
    BY <1>2, <1>3 DEF RollingBack, Between, ControlTypeOK, BackupSet
  <1>5. /\ \A p \in {"revert", "resume", "rewrite", "forget"} :
              p \in ActivatePc \cup RollbackPc \cup Ended /\ p \in RollbackPc
        /\ TRUE \in BOOLEAN /\ FALSE \in BOOLEAN
    BY DEF RollbackPc, Undoing, Reverted, Resumed
  <1>6. \E p \in {"revert", "resume", "rewrite", "forget"}, good \in BOOLEAN :
           /\ Advance(p, good) /\ sys' \in SysSet
           /\ p = "revert" <=> control.pc = "halt"
           /\ p = "resume" <=> control.pc = "units"
           /\ p \in {"rewrite", "forget"} =>
                 sys'.timer = sys.timer /\ sys'.enabled = sys.enabled
           /\ p = "resume" /\ good => /\ sys'.timer = backup[R].saved.timer
                                      /\ sys'.enabled = backup[R].saved.enabled
    <2>1. CASE Halt
      <3>1. control.pc = "halt" /\ sys' \in SysSet
        BY <1>4, <2>1, StoppedFacts DEF Halt, At
      <3>2. Advance("revert", TRUE) \/ Advance("revert", FALSE)
        BY <2>1 DEF Halt
      <3>3. QED
        BY <3>1, <3>2
    <2>2. CASE RestoreTimer
      <3>1. PICK enable \in BOOLEAN, start \in BOOLEAN :
              /\ sys' = [sys EXCEPT !.enabled = IF enable THEN backup[R].saved.enabled ELSE @,
                                    !.timer = IF start THEN backup[R].saved.timer ELSE @]
              /\ Advance("resume", enable /\ start)
        BY <2>2 DEF RestoreTimer, Mine
      <3>2. PICK good \in BOOLEAN : good = (enable /\ start)
        OBVIOUS
      <3>3. Advance("resume", good)
        BY <3>1, <3>2
      <3>4. backup[R].saved.enabled \in BOOLEAN /\ backup[R].saved.timer \in BOOLEAN
        BY <1>4 DEF Saved
      <3>5. /\ sys' \in SysSet
            /\ enable => sys'.enabled = backup[R].saved.enabled
            /\ start => sys'.timer = backup[R].saved.timer
        BY <1>4, <3>1, <3>4 DEF SysSet
      <3>6. control.pc = "units"
        BY <2>2 DEF RestoreTimer, At
      <3>7. QED
        BY <3>2, <3>3, <3>5, <3>6
    <2>3. CASE ResumeRepair
      <3>1. control.pc = "resume" /\ (Advance("rewrite", TRUE) \/ Advance("rewrite", FALSE))
        BY <2>3 DEF ResumeRepair, At
      <3>2. sys' = sys \/ sys' = StartedRepair(sys)
        BY <2>3 DEF ResumeRepair
      <3>3. sys' \in SysSet /\ sys'.timer = sys.timer /\ sys'.enabled = sys.enabled
        BY <1>2, <1>4, <3>2, StartedFacts
      <3>4. QED
        BY <3>1, <3>3
    <2>4. CASE RestoreWriters
      <3>1. control.pc = "rewrite" /\ (Advance("forget", TRUE) \/ Advance("forget", FALSE))
        BY <2>4 DEF RestoreWriters, At
      <3>2. sys' = sys \/ sys' = RestoredWriters(sys, backup[R].saved.writers)
        BY <2>4 DEF RestoreWriters, Mine
      <3>3. backup[R].saved.writers \in SUBSET Collector
        BY <1>4 DEF Saved
      <3>4. sys' \in SysSet /\ sys'.timer = sys.timer /\ sys'.enabled = sys.enabled
        BY <1>4, <3>2, <3>3, RestoredFacts
      <3>5. QED
        BY <3>1, <3>4
    <2>5. QED
      BY <2>1, <2>2, <2>3, <2>4
  <1>7. PICK p \in {"revert", "resume", "rewrite", "forget"}, good \in BOOLEAN :
           /\ Advance(p, good) /\ sys' \in SysSet
           /\ p = "revert" <=> control.pc = "halt"
           /\ p = "resume" <=> control.pc = "units"
           /\ p \in {"rewrite", "forget"} =>
                 sys'.timer = sys.timer /\ sys'.enabled = sys.enabled
           /\ p = "resume" /\ good => /\ sys'.timer = backup[R].saved.timer
                                      /\ sys'.enabled = backup[R].saved.enabled
    BY <1>6
  <1>8. /\ control' \in ControlSet /\ control'.pc = p /\ (control'.ok <=> control.ok /\ good)
        /\ control'.cmd = control.cmd /\ control'.release = R /\ control'.phase = control.phase
        /\ p \in RollbackPc
    BY <1>2, <1>5, <1>7, AdvanceStep
  <1>9. RollingBack(R)'
    <2>1. /\ Between(R)' /\ (Unfinished(R)' <=> Unfinished(R)) /\ (Requested(R)' <=> Requested(R))
          /\ backup'[R] = backup[R] /\ R' = R
      BY <1>1, <1>3, <1>8, KeptFacts DEF RollingBack
    <2>2. /\ control.cmd \in {"undo", "rollback"}
          /\ control.cmd = "undo" => ~backup[R].complete /\ backup[R].started
          /\ Unfinished(R) /\ (backup[R].complete => backup[R].rolling)
      BY <1>2, <1>3 DEF RollingBack
    <2>3. p = "revert" => (control.phase = "requested" <=> Requested(R))
      BY <1>3, <1>7 DEF RollingBack, Undoing
    <2>4. control.ok /\ p # "revert" => ~Requested(R) /\ files = backup[R].saved.files
      BY <1>2, <1>3, <1>7 DEF RollingBack, Reverted, Resumed
    <2>5. control.ok /\ good /\ p \in Resumed => /\ sys'.enabled = backup[R].saved.enabled
                                                 /\ sys'.timer = backup[R].saved.timer
      BY <1>2, <1>3, <1>7 DEF RollingBack, Resumed
    <2> HIDE DEF R
    <2>6. QED
      BY <1>1, <1>8, <2>1, <2>2, <2>3, <2>4, <2>5 DEF RollingBack, Undoing, Reverted, Resumed
  <1>10. QED
    BY <1>1, <1>2, <1>7, <1>8, <1>9, MoveInv

-----------------------------------------------------------------------------
(* Steps that mark a release.                                              *)

LEMMA MarkedFacts ==
    ASSUME ControlInv, NEW r \in Release, NEW b \in BackupSet,
           backup' = [backup EXCEPT ![r] = b], b.saved = backup[r].saved,
           track' = track, files' = files
    PROVE  /\ backup' \in [Release -> BackupSet] /\ backup'[r] = b
           /\ \A s \in Release \ {r} : backup'[s] = backup[s]
           /\ Stacked(track.active)'
           /\ \A s \in Release : Between(s)' <=> Between(s)
           /\ \A s \in Release : Requested(s)' <=> Requested(s)
           /\ \A s \in Release \ {r} : Unfinished(s)' <=> Unfinished(s)
           /\ Consistent' <=> Consistent
  <1>1. /\ backup' \in [Release -> BackupSet] /\ backup'[r] = b
        /\ \A s \in Release \ {r} : backup'[s] = backup[s]
    BY DEF ControlInv, ControlTypeOK
  <1>2. \A s \in Release : backup'[s].saved = backup[s].saved
    BY <1>1
  <1>3. Stacked(track.active)'
    <2>1. \A i \in 1 .. Len(track.active) : track.active[i] \in Release
      BY NewestFacts DEF ControlInv, ControlTypeOK, TrackSet
    <2>2. QED
      BY <1>2, <2>1 DEF ControlInv, Stacked
  <1>4. \A s \in Release : Requested(s)' <=> Requested(s)
    BY DEF Requested
  <1>5. \A s \in Release : Between(s)' <=> Between(s)
    BY <1>2, <1>4 DEF Between, Base
  <1>6. \A s \in Release \ {r} : Unfinished(s)' <=> Unfinished(s)
    BY <1>1 DEF Unfinished
  <1>7. QED
    BY <1>1, <1>3, <1>4, <1>5, <1>6 DEF Consistent

\* What is left to show when the marks of `r` change.
LEMMA MarkInv ==
    ASSUME ControlInv, NEW r \in Release, NEW b \in BackupSet,
           backup' = [backup EXCEPT ![r] = b], b.saved = backup[r].saved,
           track' = track, files' = files, sys' \in SysSet, control' \in ControlSet,
           control.pc \notin Ended, control.release = r, control'.release = r,
           b.dir = backup[r].dir, b.started \/ b.rolling \/ b.complete => b.saved # None,
           b.started \/ b.rolling => Between(r),
           b.complete /\ b.started /\ ~b.rolling => Consistent /\ track.current = r,
           ~b.started /\ ~b.rolling => Consistent,
           Commanded', RollbackRestores', ActivatedServes'
    PROVE  ControlInv'
  <1>1. /\ backup' \in [Release -> BackupSet] /\ backup'[r] = b
        /\ \A s \in Release \ {r} : backup'[s] = backup[s]
        /\ Stacked(track.active)'
        /\ \A s \in Release : Between(s)' <=> Between(s)
        /\ \A s \in Release \ {r} : Unfinished(s)' <=> Unfinished(s)
        /\ Consistent' <=> Consistent
    BY MarkedFacts
  <1>2. ControlTypeOK'
    BY <1>1 DEF ControlInv, ControlTypeOK
  <1>3. Unfinished(r)' <=> b.started \/ b.rolling
    BY <1>1 DEF Unfinished
  <1>4. Marked'
    <2>1. ASSUME NEW s \in Release
          PROVE  /\ backup'[s].saved # None => backup'[s].dir
                 /\ Unfinished(s)' \/ backup'[s].complete => backup'[s].saved # None
      <3>1. CASE s = r
        BY <1>1, <1>3, <3>1 DEF ControlInv, Marked
      <3>2. CASE s # r
        <4>1. /\ backup[s].saved # None => backup[s].dir
              /\ Unfinished(s) \/ backup[s].complete => backup[s].saved # None
          BY DEF ControlInv, Marked
        <4>2. backup'[s] = backup[s] /\ (Unfinished(s)' <=> Unfinished(s))
          BY <1>1, <3>2
        <4>3. QED
          BY <4>1, <4>2
      <3>3. QED
        BY <3>1, <3>2
    <2>2. QED
      BY <2>1 DEF Marked
  <1>5. \A s \in Release : Unfinished(s)' => s = r
    BY <1>1 DEF ControlInv, OneUnfinished
  <1>6. OneUnfinished'
    BY <1>5 DEF OneUnfinished
  <1>7. AnyUnfinished'
    BY <1>1, <1>3, <1>5 DEF AnyUnfinished
  <1>8. CompleteServes'
    <2>1. ASSUME NEW s \in Release, (backup[s].complete /\ backup[s].started /\ ~backup[s].rolling)'
          PROVE  Consistent' /\ track'.current = s
      <3>1. Unfinished(s)'
        BY <2>1 DEF Unfinished
      <3>2. QED
        BY <1>1, <1>5, <2>1, <3>1
    <2>2. QED
      BY <2>1 DEF CompleteServes
  <1>9. ChangeTogether'
    BY <1>1, <1>3 DEF ChangeTogether
  <1>10. QED
    BY <1>1, <1>2, <1>4, <1>6, <1>7, <1>8, <1>9 DEF ControlInv

\* Where the activation is.
LEMMA ActivatingFacts ==
    ASSUME ControlInv, control.pc \in ActivatePc
    PROVE  /\ control.release \in Release /\ control.pc \notin Ended
           /\ Activating(control.release) /\ ControlTypeOK
           /\ backup[control.release] \in BackupSet
  BY PcFacts DEF ControlInv, Commanded, OneUnfinished, ControlTypeOK

LEMMA RollingBackFacts ==
    ASSUME ControlInv, control.pc \in RollbackPc
    PROVE  /\ control.release \in Release /\ control.pc \notin Ended
           /\ RollingBack(control.release) /\ ControlTypeOK
           /\ backup[control.release] \in BackupSet
  BY PcFacts DEF ControlInv, Commanded, OneUnfinished, ControlTypeOK

LEMMA MarkStartedInv ==
    ASSUME ControlInv, MarkStarted PROVE ControlInv'
  <1>1. PICK r \in Release : r = control.release
    BY ActivatingFacts DEF MarkStarted, At, ActivatePc, Beginning
  <1>2. /\ control.pc = "mark" /\ control.pc \notin Ended /\ Activating(r) /\ ControlTypeOK
    BY <1>1, ActivatingFacts DEF MarkStarted, At, ActivatePc, Beginning
  <1>3. PICK b : b = [backup[r] EXCEPT !.started = TRUE]
    OBVIOUS
  <1>4. /\ b \in BackupSet /\ b.dir = backup[r].dir /\ b.saved = backup[r].saved
        /\ b.started /\ b.rolling = backup[r].rolling /\ b.complete = backup[r].complete
    BY <1>2, <1>3 DEF ControlTypeOK, BackupSet
  <1>5. /\ backup' = [backup EXCEPT ![r] = b]
        /\ track' = track /\ files' = files /\ sys' = sys /\ sys' \in SysSet
    BY <1>1, <1>2, <1>3 DEF MarkStarted, Mark, ControlTypeOK
  <1>6. /\ control' \in ControlSet /\ control'.pc = "stop" /\ control'.cmd = control.cmd
        /\ control'.release = r
    BY <1>1, <1>2, GotoStep DEF MarkStarted, ActivatePc, Beginning
  <1>7. /\ control.cmd = "activate" /\ backup[r].dir /\ ~backup[r].complete /\ Consistent
        /\ ~In(r, track.active) /\ backup[r].saved # None /\ backup[r].saved.files = files
    BY <1>2 DEF Activating, Beginning
  <1>8. Between(r)
    <2>1. Newest(track.active) # r
      BY <1>2, <1>7, NewestFacts DEF ControlTypeOK, TrackSet
    <2>2. track.prepared = None /\ track.current = Newest(track.active)
            /\ \A f \in UnitFile : files[f] = track.current
      BY <1>7 DEF Consistent
    <2>3. QED
      BY <1>7, <2>1, <2>2, ControlConstants DEF Between, Base, Requested
  <1>9. /\ backup'[r] = b /\ Consistent'
    BY <1>4, <1>5, <1>7, MarkedFacts
  <1>10. Activating(r)'
    BY <1>4, <1>5, <1>6, <1>7, <1>9 DEF Activating, Beginning, Serving, Timed
  <1>11. Commanded' /\ RollbackRestores' /\ ActivatedServes'
    BY <1>6, <1>10 DEF Commanded, RollbackRestores, ActivatedServes, At, RollbackPc, Undoing,
                       Reverted, Resumed
  <1>12. QED
    BY <1>1, <1>2, <1>4, <1>5, <1>6, <1>7, <1>8, <1>11, MarkInv

LEMMA CompleteInv ==
    ASSUME ControlInv, Complete PROVE ControlInv'
  <1>1. PICK r \in Release : r = control.release
    BY ActivatingFacts DEF Complete, At, ActivatePc, Serving, Timed
  <1>2. /\ control.pc = "complete" /\ control.pc \notin Ended /\ Activating(r) /\ ControlTypeOK
    BY <1>1, ActivatingFacts DEF Complete, At, ActivatePc, Serving, Timed
  <1>3. PICK b : b = [backup[r] EXCEPT !.complete = TRUE]
    OBVIOUS
  <1>4. /\ b \in BackupSet /\ b.dir = backup[r].dir /\ b.saved = backup[r].saved
        /\ b.complete /\ b.rolling = backup[r].rolling /\ b.started = backup[r].started
    BY <1>2, <1>3 DEF ControlTypeOK, BackupSet
  <1>5. /\ backup' = [backup EXCEPT ![r] = b]
        /\ track' = track /\ files' = files /\ sys' = sys /\ sys' \in SysSet
    BY <1>1, <1>2, <1>3 DEF Complete, Mark, ControlTypeOK
  <1>6. /\ control' \in ControlSet /\ control'.pc = "unmark" /\ control'.cmd = control.cmd
        /\ control'.release = r
    BY <1>1, <1>2, GotoStep DEF Complete, ActivatePc, Serving, Timed
  <1>7. /\ control.cmd = "activate" /\ backup[r].dir /\ backup[r].started /\ sys.timer
        /\ track.prepared = None /\ track.current = r /\ Newest(track.active) = r
        /\ \A f \in UnitFile : files[f] = r
    BY <1>2 DEF Activating, Serving, Timed
  <1>8. Between(r) /\ Consistent /\ backup[r].saved # None
    <2>1. Unfinished(r)
      BY <1>7 DEF Unfinished
    <2>2. QED
      BY <1>7, <2>1 DEF ControlInv, AnyUnfinished, Consistent, Between
  <1>9. backup'[r] = b
    BY <1>4, <1>5, MarkedFacts
  <1>10. Activating(r)'
    BY <1>4, <1>5, <1>6, <1>7, <1>9 DEF Activating, Beginning, Serving, Timed
  <1>11. Commanded' /\ RollbackRestores' /\ ActivatedServes'
    BY <1>6, <1>10 DEF Commanded, RollbackRestores, ActivatedServes, At, RollbackPc, Undoing,
                       Reverted, Resumed
  <1>12. QED
    BY <1>1, <1>2, <1>4, <1>5, <1>6, <1>7, <1>8, <1>11, MarkInv

LEMMA UnmarkInv ==
    ASSUME ControlInv, UnmarkStarted PROVE ControlInv'
  <1>1. PICK r \in Release : r = control.release
    BY ActivatingFacts DEF UnmarkStarted, At, ActivatePc, Serving, Timed
  <1>2. /\ control.pc = "unmark" /\ control.pc \notin Ended /\ Activating(r) /\ ControlTypeOK
    BY <1>1, ActivatingFacts DEF UnmarkStarted, At, ActivatePc, Serving, Timed
  <1>3. PICK b : b = [backup[r] EXCEPT !.started = FALSE]
    OBVIOUS
  <1>4. /\ b \in BackupSet /\ b.dir = backup[r].dir /\ b.saved = backup[r].saved
        /\ ~b.started /\ b.rolling = backup[r].rolling /\ b.complete = backup[r].complete
    BY <1>2, <1>3 DEF ControlTypeOK, BackupSet
  <1>5. /\ backup' = [backup EXCEPT ![r] = b]
        /\ track' = track /\ files' = files /\ sys' = sys /\ sys' \in SysSet
    BY <1>1, <1>2, <1>3 DEF UnmarkStarted, Mark, ControlTypeOK
  <1>6. /\ control' \in ControlSet /\ control'.pc = "done" /\ control'.cmd = control.cmd
        /\ control'.release = r
    BY <1>1, <1>2, GotoStep DEF UnmarkStarted, Ended
  <1>7. /\ control.cmd = "activate" /\ backup[r].dir /\ backup[r].started /\ sys.timer
        /\ track.prepared = None /\ track.current = r /\ Newest(track.active) = r
        /\ \A f \in UnitFile : files[f] = r
    BY <1>2 DEF Activating, Serving, Timed
  <1>8. Between(r) /\ Consistent /\ backup[r].saved # None
    <2>1. Unfinished(r)
      BY <1>7 DEF Unfinished
    <2>2. QED
      BY <1>7, <2>1 DEF ControlInv, AnyUnfinished, Consistent, Between
  <1>9. Consistent'
    BY <1>4, <1>5, <1>8, MarkedFacts
  <1>10. Commanded' /\ RollbackRestores' /\ ActivatedServes'
    BY <1>5, <1>6, <1>7, <1>9 DEF Commanded, RollbackRestores, ActivatedServes, At, RollbackPc,
          Undoing, Reverted, Resumed, ActivatePc, Beginning, Serving, Timed
  <1>11. QED
    BY <1>1, <1>2, <1>4, <1>5, <1>6, <1>7, <1>8, <1>10, MarkInv

LEMMA AnnounceInv ==
    ASSUME ControlInv, Announce PROVE ControlInv'
  <1>1. PICK r \in Release : r = control.release
    BY RollingBackFacts DEF Announce, At, RollbackPc, Undoing
  <1>2. /\ control.pc = "announce" /\ control.pc \notin Ended /\ RollingBack(r) /\ ControlTypeOK
        /\ control.pc \in RollbackPc /\ "halt" \in RollbackPc
    BY <1>1, RollingBackFacts DEF Announce, At, RollbackPc, Undoing
  <1>3. track' = track /\ files' = files /\ sys' = sys /\ sys' \in SysSet
    BY <1>2 DEF Announce, ControlTypeOK
  <1>4. /\ control.cmd \in {"undo", "rollback"} /\ Between(r)
        /\ control.phase = "requested" <=> Requested(r)
        /\ control.cmd = "undo" => ~backup[r].complete /\ backup[r].started
    BY <1>2 DEF RollingBack, Undoing
  <1>5. CASE Mark("rolling", TRUE) /\ Goto("halt")
    <2>1. PICK b : b = [backup[r] EXCEPT !.rolling = TRUE]
      OBVIOUS
    <2>2. /\ b \in BackupSet /\ b.dir = backup[r].dir /\ b.saved = backup[r].saved
          /\ b.rolling /\ b.started = backup[r].started /\ b.complete = backup[r].complete
      BY <1>2, <2>1 DEF ControlTypeOK, BackupSet
    <2>3. backup' = [backup EXCEPT ![r] = b]
      BY <1>1, <1>2, <1>5, <2>1 DEF Mark, ControlTypeOK
    <2>4. /\ control' \in ControlSet /\ control'.pc = "halt" /\ control'.cmd = control.cmd
          /\ control'.release = r /\ control'.phase = control.phase
      BY <1>1, <1>2, <1>5, GotoStep
    <2>5. backup'[r] = b /\ Between(r)' /\ (Requested(r)' <=> Requested(r))
      BY <1>3, <1>4, <2>2, <2>3, MarkedFacts
    <2>6. RollingBack(r)'
      BY <1>4, <2>2, <2>4, <2>5 DEF RollingBack, Undoing, Reverted, Resumed, Unfinished
    <2>7. Commanded' /\ RollbackRestores' /\ ActivatedServes'
      BY <2>4, <2>6, PcFacts, <1>2 DEF Commanded, RollbackRestores, ActivatedServes, At
    <2>8. backup[r].saved # None
      BY <1>4 DEF Between
    <2>9. QED
      BY <1>1, <1>2, <1>3, <1>4, <2>2, <2>3, <2>4, <2>7, <2>8, MarkInv
  <1>6. CASE backup' = backup /\ control.cmd = "undo" /\ Goto("halt")
    <2>1. /\ control' \in ControlSet /\ control'.pc = "halt" /\ control'.cmd = control.cmd
          /\ control'.release = r /\ control'.phase = control.phase
      BY <1>1, <1>2, <1>6, GotoStep
    <2>2. Between(r)' /\ (Requested(r)' <=> Requested(r))
      BY <1>3, <1>4, <1>6, KeptFacts
    <2>3. RollingBack(r)'
      BY <1>4, <1>6, <2>1, <2>2 DEF RollingBack, Undoing, Reverted, Resumed, Unfinished
    <2>4. RollingBack(control.release)'
      BY <2>1, <2>3
    <2>5. QED
      BY <1>1, <1>2, <1>3, <1>6, <2>1, <2>4, MoveInv
  <1>7. CASE backup' = backup /\ control' = [control EXCEPT !.pc = "done", !.ok = FALSE]
    <2>1. /\ control' \in ControlSet /\ control'.pc = "done" /\ control'.ok = FALSE
          /\ control'.release = r
      <3>1. control.todo \in Todo \cup {<<>>} /\ "done" \in Ended
        BY <1>2 DEF ControlTypeOK, ControlSet, Ended
      <3>2. QED
        BY <1>1, <1>2, <1>7, <3>1, ControlStep
    <2>2. OneUnfinished'
      BY <1>3, <1>7, <2>1, KeptFacts DEF ControlInv, OneUnfinished, Ended
    <2>3. Commanded' /\ RollbackRestores' /\ ActivatedServes'
      BY <2>1 DEF Commanded, RollbackRestores, ActivatedServes, At, ActivatePc, RollbackPc,
                  Beginning, Serving, Timed, Undoing, Reverted, Resumed
    <2>4. QED
      BY <1>3, <1>7, <2>1, <2>2, <2>3, KeptInv
  <1>8. QED
    BY <1>5, <1>6, <1>7 DEF Announce

LEMMA ForgetInv ==
    ASSUME ControlInv, ForgetMarkers PROVE ControlInv'
  <1>1. PICK r \in Release : r = control.release
    BY RollingBackFacts DEF ForgetMarkers, At, RollbackPc, Reverted, Resumed
  <1>2. /\ control.pc = "forget" /\ control.pc \notin Ended /\ RollingBack(r) /\ ControlTypeOK
        /\ control.pc \in RollbackPc
    BY <1>1, RollingBackFacts DEF ForgetMarkers, At, RollbackPc, Reverted, Resumed
  <1>3. track' = track /\ files' = files
    BY DEF ForgetMarkers
  <1>4. /\ control' \in ControlSet /\ control'.pc = "done" /\ control'.cmd = control.cmd
        /\ control'.release = r /\ control'.ok = control.ok
    BY <1>1, <1>2, GotoStep DEF ForgetMarkers, Ended
  <1>5. control.cmd \in {"undo", "rollback"} /\ Between(r) /\ backup[r].saved # None
    BY <1>2 DEF RollingBack, Between
  <1>6. CASE ~control.ok
    <2>1. backup' = backup /\ sys' = sys /\ sys' \in SysSet
      BY <1>2, <1>6 DEF ForgetMarkers, ControlTypeOK
    <2>2. OneUnfinished'
      BY <1>3, <1>4, <2>1, KeptFacts DEF ControlInv, OneUnfinished, Ended
    <2>3. Commanded' /\ RollbackRestores' /\ ActivatedServes'
      BY <1>4, <1>6 DEF Commanded, RollbackRestores, ActivatedServes, At, ActivatePc, RollbackPc,
                  Beginning, Serving, Timed, Undoing, Reverted, Resumed
    <2>4. QED
      BY <1>3, <1>4, <2>1, <2>2, <2>3, KeptInv
  <1>7. CASE control.ok
    <2>1. /\ ~Requested(r) /\ files = backup[r].saved.files
          /\ sys.enabled = backup[r].saved.enabled /\ sys.timer = backup[r].saved.timer
      BY <1>2, <1>7 DEF RollingBack, Reverted, Resumed
    <2>2. Consistent /\ track.current # r
      <3>1. /\ Newest(track.active) # r /\ track.prepared = None /\ track.current # r
            /\ track.current = Newest(track.active)
        BY <1>5, <2>1 DEF Between, Requested, Base
      <3>2. \A f \in UnitFile : files[f] = Newest(track.active)
        BY <1>5, <2>1, <3>1 DEF Between, Base
      <3>3. QED
        BY <3>1, <3>2 DEF Consistent
    <2>3. PICK b : b = [backup[r] EXCEPT !.started = FALSE, !.rolling = FALSE]
      OBVIOUS
    <2>4. /\ b \in BackupSet /\ b.dir = backup[r].dir /\ b.saved = backup[r].saved
          /\ ~b.started /\ ~b.rolling
      BY <1>2, <2>3 DEF ControlTypeOK, BackupSet
    <2>5. backup' = [backup EXCEPT ![r] = b]
      <3>1. backup' = [backup EXCEPT ![r].started = FALSE, ![r].rolling = FALSE]
        BY <1>1, <1>7 DEF ForgetMarkers
      <3>2. QED
        BY <1>2, <2>3, <3>1 DEF ControlTypeOK
    <2>6. sys' \in SysSet /\ sys'.timer = sys.timer /\ sys'.enabled = sys.enabled
      <3>1. sys \in SysSet
        BY <1>2 DEF ControlTypeOK
      <3>2. sys' = [sys EXCEPT !.ready = IF sys.ready = r THEN None ELSE sys.ready]
        BY <1>1, <1>7 DEF ForgetMarkers
      <3>3. QED
        BY <3>1, <3>2 DEF SysSet, Target
    <2>7. backup'[r] = b /\ Consistent'
      BY <1>3, <2>2, <2>4, <2>5, MarkedFacts
    <2>8. RollbackRestores'
      BY <1>3, <1>4, <2>1, <2>2, <2>4, <2>6, <2>7 DEF RollbackRestores, At, Mine, Unfinished
    <2>9. Commanded' /\ ActivatedServes'
      BY <1>4, <1>5 DEF Commanded, ActivatedServes, At, ActivatePc, RollbackPc,
                  Beginning, Serving, Timed, Undoing, Reverted, Resumed
    <2>10. QED
      BY <1>1, <1>2, <1>3, <1>4, <1>5, <2>2, <2>4, <2>5, <2>6, <2>8, <2>9, MarkInv
  <1>8. QED
    BY <1>6, <1>7

\* A new activation, and what it saves: no release is unfinished.
LEMMA BeginActivateInv ==
    ASSUME ControlInv, NEW r \in Release, BeginActivate(r), Overlap = FALSE PROVE ControlInv'
  <1>1. backup[r] \in BackupSet /\ ControlTypeOK
    BY DEF ControlInv, ControlTypeOK
  <1>2. PICK b : b = [backup[r] EXCEPT !.dir = TRUE]
    OBVIOUS
  <1>3. /\ b \in BackupSet /\ b.dir /\ b.saved = backup[r].saved
        /\ b.started = backup[r].started /\ b.rolling = backup[r].rolling
        /\ b.complete = backup[r].complete
    BY <1>1, <1>2 DEF BackupSet
  <1>4. /\ backup' = [backup EXCEPT ![r] = b] /\ track' = track /\ files' = files /\ sys' = sys
    BY <1>1, <1>2 DEF BeginActivate, ControlTypeOK
  <1>5. /\ backup' \in [Release -> BackupSet] /\ backup'[r] = b
        /\ \A s \in Release \ {r} : backup'[s] = backup[s]
        /\ Stacked(track.active)'
        /\ \A s \in Release \ {r} : Unfinished(s)' <=> Unfinished(s)
        /\ Consistent' <=> Consistent
    BY <1>3, <1>4, MarkedFacts
  <1>6. backup[r].saved = None /\ ~Unfinished(r) /\ ~backup[r].complete
    BY DEF BeginActivate, ControlInv, Marked
  <1>7. (\A s \in Release : ~Unfinished(s)) /\ Consistent
    BY <1>6 DEF BeginActivate, MayBegin, ControlInv, ChangeTogether
  <1>8. \A s \in Release : ~Unfinished(s)'
    BY <1>3, <1>5, <1>6, <1>7 DEF Unfinished
  <1>9. control' = [cmd |-> "activate", release |-> r, pc |-> "save", phase |-> "none",
                    todo |-> <<>>, ok |-> TRUE]
    BY DEF BeginActivate, Idle
  <1>10. control' \in ControlSet
    BY <1>9 DEF ControlSet, Target, ActivatePc, Beginning
  <1>11. ~In(r, track.active)
    BY <1>6 DEF In, ControlInv, Stacked
  <1>12. Activating(r)'
    <2>1. ~In(r, track.active)'
      BY <1>4, <1>11 DEF In
    <2>2. QED
      BY <1>3, <1>5, <1>6, <1>7, <1>8, <1>9, <2>1 DEF Activating, Beginning, Serving, Timed
  <1>13. Commanded' /\ RollbackRestores' /\ ActivatedServes'
    BY <1>9, <1>12 DEF Commanded, RollbackRestores, ActivatedServes, At, RollbackPc, Undoing,
                       Reverted, Resumed
  <1>14. Marked'
    <2>1. ASSUME NEW s \in Release
          PROVE  /\ backup'[s].saved # None => backup'[s].dir
                 /\ Unfinished(s)' \/ backup'[s].complete => backup'[s].saved # None
      <3>1. CASE s = r
        BY <1>3, <1>5, <1>6, <1>8, <3>1
      <3>2. CASE s # r
        BY <1>5, <1>8, <3>2 DEF ControlInv, Marked
      <3>3. QED
        BY <3>1, <3>2
    <2>2. QED
      BY <2>1 DEF Marked
  <1>15. OneUnfinished' /\ AnyUnfinished' /\ ChangeTogether'
    BY <1>5, <1>7, <1>8, <1>9 DEF OneUnfinished, AnyUnfinished, ChangeTogether
  <1>16. CompleteServes'
    BY <1>8 DEF CompleteServes, Unfinished
  <1>17. ControlTypeOK'
    BY <1>1, <1>4, <1>5, <1>10 DEF ControlTypeOK
  <1>18. QED
    BY <1>5, <1>13, <1>14, <1>15, <1>16, <1>17 DEF ControlInv

LEMMA SaveInv ==
    ASSUME ControlInv, SaveState PROVE ControlInv'
  <1>1. PICK r \in Release : r = control.release
    BY ActivatingFacts DEF SaveState, At, ActivatePc, Beginning
  <1>2. /\ control.pc = "save" /\ control.pc \notin Ended /\ Activating(r) /\ ControlTypeOK
        /\ backup[r] \in BackupSet
    BY <1>1, ActivatingFacts DEF SaveState, At, ActivatePc, Beginning
  <1>3. PICK saved : saved = [files |-> files, timer |-> sys.timer, enabled |-> sys.enabled,
                              repair |-> sys.repair # None, writers |-> sys.writers]
    OBVIOUS
  <1>4. saved \in Saved /\ saved.files = files
    BY <1>2, <1>3 DEF Saved, ControlTypeOK, SysSet
  <1>5. saved # None
    BY <1>4, NotSaved
  <1>6. PICK b : b = [backup[r] EXCEPT !.saved = saved]
    OBVIOUS
  <1>7. /\ b \in BackupSet /\ b.saved = saved
        /\ b.started = backup[r].started /\ b.rolling = backup[r].rolling
        /\ b.complete = backup[r].complete /\ b.dir = backup[r].dir
    BY <1>2, <1>4, <1>6 DEF BackupSet
  <1>8. /\ backup' = [backup EXCEPT ![r] = b] /\ track' = track /\ files' = files /\ sys' = sys
    BY <1>1, <1>2, <1>3, <1>6 DEF SaveState, Mark, ControlTypeOK
  <1>9. /\ backup' \in [Release -> BackupSet] /\ backup'[r] = b
        /\ \A s \in Release \ {r} : backup'[s] = backup[s]
    BY <1>2, <1>7, <1>8 DEF ControlTypeOK
  <1>10. /\ control' \in ControlSet /\ control'.pc = "mark" /\ control'.cmd = control.cmd
         /\ control'.release = r
    BY <1>1, <1>2, GotoStep DEF SaveState, ActivatePc, Beginning
  <1>11. /\ control.cmd = "activate" /\ backup[r].dir /\ ~backup[r].complete /\ ~Unfinished(r)
         /\ Consistent /\ ~In(r, track.active)
    BY <1>2 DEF Activating, Beginning
  <1>12. \A s \in Release : ~Unfinished(s)'
    <2>1. \A s \in Release : ~Unfinished(s)
      BY <1>1, <1>2, <1>11 DEF ControlInv, OneUnfinished
    <2>2. QED
      BY <1>7, <1>9, <2>1 DEF Unfinished
  <1>13. Stacked(track.active)'
    <2>1. \A i \in 1 .. Len(track.active) : track.active[i] \in Release \ {r}
      BY <1>11, NewestFacts DEF ControlInv, ControlTypeOK, TrackSet, In
    <2>2. \A i \in 1 .. Len(track.active) : backup'[track.active[i]] = backup[track.active[i]]
      BY <1>9, <2>1
    <2>3. QED
      BY <1>8, <2>2 DEF ControlInv, Stacked
  <1>14. Consistent' /\ ~In(r, track.active)'
    BY <1>8, <1>11 DEF Consistent, In
  <1>15. Activating(r)'
    BY <1>4, <1>5, <1>7, <1>8, <1>9, <1>10, <1>11, <1>12, <1>14
       DEF Activating, Beginning, Serving, Timed
  <1>16. Commanded' /\ RollbackRestores' /\ ActivatedServes'
    BY <1>10, <1>15 DEF Commanded, RollbackRestores, ActivatedServes, At, RollbackPc, Undoing,
                        Reverted, Resumed
  <1>17. Marked'
    <2>1. ASSUME NEW s \in Release
          PROVE  /\ backup'[s].saved # None => backup'[s].dir
                 /\ Unfinished(s)' \/ backup'[s].complete => backup'[s].saved # None
      <3>1. CASE s = r
        BY <1>5, <1>7, <1>9, <1>11, <3>1
      <3>2. CASE s # r
        BY <1>9, <1>12, <3>2 DEF ControlInv, Marked
      <3>3. QED
        BY <3>1, <3>2
    <2>2. QED
      BY <2>1 DEF Marked
  <1>18. OneUnfinished' /\ AnyUnfinished' /\ ChangeTogether' /\ CompleteServes'
    BY <1>10, <1>12, <1>14 DEF OneUnfinished, AnyUnfinished, ChangeTogether, CompleteServes, Unfinished
  <1>19. ControlTypeOK'
    BY <1>2, <1>8, <1>9, <1>10 DEF ControlTypeOK
  <1>20. QED
    BY <1>13, <1>16, <1>17, <1>18, <1>19 DEF ControlInv

-----------------------------------------------------------------------------
(* Steps that change the track or a unit file, while the release of the    *)
(* command is unfinished.                                                  *)

LEMMA ChangeInv ==
    ASSUME ControlInv, NEW r \in Release, control.release = r,
           control.pc \in ActivatePc \cup RollbackPc,
           Unfinished(r), backup[r].complete => backup[r].rolling,
           backup' = backup, sys' = sys, files' \in [UnitFile -> Target], track' \in TrackSet,
           Stacked(track.active)', Between(r)', control' \in ControlSet, control'.release = r,
           \/ control'.pc \in ActivatePc /\ Activating(r)'
           \/ control'.pc \in RollbackPc /\ RollingBack(r)'
    PROVE  ControlInv'
  <1>1. \A s \in Release : (Unfinished(s)' <=> Unfinished(s)) /\ (Unfinished(s) => s = r)
    BY DEF ControlInv, OneUnfinished, Unfinished
  <1>2. ControlTypeOK' /\ Marked'
    BY <1>1 DEF ControlInv, ControlTypeOK, Marked
  <1>3. OneUnfinished' /\ AnyUnfinished'
    BY <1>1 DEF OneUnfinished, AnyUnfinished
  <1>4. CompleteServes'
    <2>1. ASSUME NEW s \in Release, backup[s].complete, backup[s].started, ~backup[s].rolling
          PROVE  FALSE
      BY <1>1, <2>1 DEF Unfinished
    <2>2. QED
      BY <2>1 DEF CompleteServes
  <1>5. ChangeTogether'
    BY <1>1 DEF ChangeTogether
  <1>6. Commanded' /\ RollbackRestores' /\ ActivatedServes'
    BY PcFacts DEF Commanded, RollbackRestores, ActivatedServes, At
  <1>7. QED
    BY <1>2, <1>3, <1>4, <1>5, <1>6 DEF ControlInv

LEMMA SameTrack ==
    ASSUME ControlInv, track' = track, backup' = backup
    PROVE  /\ Stacked(track.active)' /\ track' \in TrackSet
           /\ \A r \in Release : Between(r)' <=> Between(r)
           /\ \A r \in Release : Requested(r)' <=> Requested(r)
  <1>1. \A r \in Release : Requested(r)' <=> Requested(r)
    BY DEF Requested
  <1>2. \A r \in Release : Between(r)' <=> Between(r)
    BY <1>1 DEF Between, Base
  <1>3. QED
    BY <1>1, <1>2 DEF ControlInv, Stacked, ControlTypeOK

LEMMA InstallInv ==
    ASSUME ControlInv, InstallFile PROVE ControlInv'
  <1>1. PICK r \in Release : r = control.release
    BY ActivatingFacts DEF InstallFile, At, ActivatePc, Serving
  <1>2. /\ control.pc = "install" /\ control.pc \in ActivatePc /\ Activating(r) /\ ControlTypeOK
    BY <1>1, ActivatingFacts DEF InstallFile, At, ActivatePc, Serving
  <1>3. PICK f \in UnitFile : f = Head(control.todo)
    BY <1>2, TodoFacts DEF Activating
  <1>4. /\ control.todo \in Todo /\ control.cmd = "activate" /\ backup[r].dir
        /\ ~backup[r].complete /\ backup[r].started
        /\ track.prepared = None /\ track.current = r /\ Newest(track.active) = r
        /\ \A g \in UnitFile \ Range(control.todo) : files[g] = r
    BY <1>2 DEF Activating, Serving
  <1>5. /\ track' = track /\ backup' = backup /\ sys' = sys
        /\ files' = [files EXCEPT ![f] = r]
    BY <1>1, <1>3 DEF InstallFile
  <1>6. files' \in [UnitFile -> Target] /\ \A g \in UnitFile : files'[g] = IF g = f THEN r ELSE files[g]
    BY <1>2, <1>5 DEF ControlTypeOK, Target
  <1>7. /\ control' \in ControlSet
        /\ control'.pc = IF Len(control.todo) = 1 THEN "enable" ELSE "install"
        /\ control'.todo = Tail(control.todo) /\ control'.cmd = control.cmd
        /\ control'.release = r
    BY <1>1, <1>2, <1>4, FileStep DEF InstallFile, ActivatePc, Serving
  <1>8. Activating(r)'
    <2>1. CASE Len(control.todo) = 1
      <3>1. \A g \in UnitFile : files'[g] = r
        BY <1>3, <1>4, <1>6, <2>1, TodoFacts
      <3>2. QED
        BY <1>4, <1>5, <1>7, <2>1, <3>1 DEF Activating, Beginning, Serving, Timed
    <2>2. CASE Len(control.todo) # 1
      <3>1. control'.todo \in Todo /\ \A g \in UnitFile \ Range(control'.todo) : files'[g] = r
        BY <1>3, <1>4, <1>6, <1>7, <2>2, TodoFacts
      <3>2. QED
        BY <1>4, <1>5, <1>7, <2>2, <3>1 DEF Activating, Beginning, Serving, Timed
    <2>3. QED
      BY <2>1, <2>2
  <1>9. Unfinished(r) /\ Between(r)
    BY <1>4 DEF Unfinished, ControlInv, AnyUnfinished
  <1>10. control'.pc \in ActivatePc
    BY <1>7 DEF ActivatePc, Serving
  <1>11. QED
    BY <1>1, <1>2, <1>4, <1>5, <1>6, <1>7, <1>8, <1>9, <1>10, SameTrack, ChangeInv

LEMMA RestoreFileInv ==
    ASSUME ControlInv, RestoreFile PROVE ControlInv'
  <1>1. PICK r \in Release : r = control.release
    BY RollingBackFacts DEF RestoreFile, At, RollbackPc, Reverted
  <1>2. /\ control.pc = "restore" /\ control.pc \in RollbackPc /\ RollingBack(r) /\ ControlTypeOK
        /\ "units" \in RollbackPc
    BY <1>1, RollingBackFacts DEF RestoreFile, At, RollbackPc, Reverted
  <1>3. PICK f \in UnitFile : f = Head(control.todo)
    BY <1>2, TodoFacts DEF RollingBack
  <1>4. /\ control.todo \in Todo /\ control.cmd \in {"undo", "rollback"} /\ Between(r)
        /\ control.cmd = "undo" => ~backup[r].complete /\ backup[r].started
        /\ Unfinished(r) /\ (backup[r].complete => backup[r].rolling)
        /\ control.ok => /\ ~Requested(r)
                         /\ \A g \in UnitFile \ Range(control.todo) :
                               files[g] = backup[r].saved.files[g]
    BY <1>2 DEF RollingBack, Reverted
  <1>5. PICK good \in BOOLEAN :
          /\ files' = IF good THEN [files EXCEPT ![f] = backup[r].saved.files[f]] ELSE files
          /\ FileDone("units", good)
    BY <1>1, <1>3 DEF RestoreFile, Mine
  <1>6. track' = track /\ backup' = backup /\ sys' = sys
    BY DEF RestoreFile
  <1>7. backup[r].saved \in Saved
    BY <1>2, <1>4 DEF Between, ControlTypeOK, BackupSet
  <1>8. /\ files' \in [UnitFile -> Target]
        /\ \A g \in UnitFile : files'[g] = IF good /\ g = f THEN backup[r].saved.files[g] ELSE files[g]
    BY <1>2, <1>5, <1>7 DEF ControlTypeOK, Saved
  <1>9. /\ control' \in ControlSet
        /\ control'.pc = IF Len(control.todo) = 1 THEN "units" ELSE "restore"
        /\ control'.todo = Tail(control.todo) /\ control'.cmd = control.cmd
        /\ control'.ok <=> control.ok /\ good
        /\ control'.release = r
    BY <1>1, <1>2, <1>4, <1>5, FileStep
  <1>10. Between(r)' /\ (Requested(r)' <=> Requested(r)) /\ backup'[r] = backup[r]
           /\ (Unfinished(r)' <=> Unfinished(r))
    BY <1>4, <1>6, SameTrack DEF Unfinished
  <1>11. RollingBack(r)'
    <2>1. CASE Len(control.todo) = 1
      <3>1. control'.ok => files' = backup[r].saved.files
        <4>1. control'.ok => \A g \in UnitFile : files'[g] = backup[r].saved.files[g]
          BY <1>3, <1>4, <1>8, <1>9, <2>1, TodoFacts
        <4>2. backup[r].saved.files \in [UnitFile -> Target]
          BY <1>7 DEF Saved
        <4>3. QED
          BY <1>8, <4>1, <4>2
      <3>2. QED
        BY <1>4, <1>9, <1>10, <2>1, <3>1 DEF RollingBack, Undoing, Reverted, Resumed
    <2>2. CASE Len(control.todo) # 1
      <3>1. control'.todo \in Todo
        BY <1>4, <1>9, <2>2, TodoFacts
      <3>2. control'.ok => \A g \in UnitFile \ Range(control'.todo) :
                              files'[g] = backup[r].saved.files[g]
        BY <1>3, <1>4, <1>8, <1>9, <2>2, TodoFacts
      <3>3. QED
        BY <1>4, <1>9, <1>10, <2>2, <3>1, <3>2 DEF RollingBack, Undoing, Reverted, Resumed
    <2>3. QED
      BY <2>1, <2>2
  <1>12. control'.pc \in RollbackPc
    BY <1>9 DEF RollbackPc, Reverted
  <1>13. QED
    BY <1>1, <1>2, <1>4, <1>6, <1>8, <1>9, <1>10, <1>11, <1>12, SameTrack, ChangeInv

LEMMA ReconciledFacts ==
    ASSUME track \in TrackSet, NEW t, t = Reconciled
    PROVE  /\ t \in TrackSet /\ t.prepared = None /\ t.current = track.current
           /\ t.active = IF track.prepared # None /\ track.current = track.prepared
                         THEN <<track.prepared>> \o track.active ELSE track.active
  <1>1. CASE track.prepared # None /\ track.current = track.prepared
    <2>1. track.prepared \in Release
      BY <1>1 DEF TrackSet, Target
    <2>2. PICK longer \in Seq(Release) : longer = <<track.prepared>> \o track.active
      BY <2>1, PushFacts DEF TrackSet
    <2>3. t = [track EXCEPT !.active = longer, !.prepared = None]
      BY <1>1, <2>2 DEF Reconciled
    <2>4. QED
      BY <1>1, <2>2, <2>3 DEF TrackSet, Target
  <1>2. CASE ~(track.prepared # None /\ track.current = track.prepared)
    <2>1. t = [track EXCEPT !.prepared = None]
      BY <1>2 DEF Reconciled
    <2>2. QED
      BY <1>2, <2>1 DEF TrackSet, Target
  <1>3. QED
    BY <1>1, <1>2

\* What a track is between two releases, field by field.
LEMMA BetweenTrack ==
    ASSUME ControlInv, backup' = backup, NEW r \in Release, NEW base \in Seq(Release),
           track' \in TrackSet, Stacked(base), ~In(r, base), backup[r].saved # None,
           \A f \in UnitFile : backup[r].saved.files[f] = Newest(base),
           \/ track'.active = base /\ track'.prepared \in {None, r}
           \/ track'.active \in Seq(Release) /\ Newest(track'.active) = r /\ Stacked(track'.active)
                /\ Tail(track'.active) = base /\ track'.prepared = None,
           track'.current \in {Newest(base), r},
           track'.active = base /\ track'.prepared = None => track'.current # r
    PROVE  /\ Stacked(track.active)' /\ Between(r)'
           /\ track'.active = base /\ track'.prepared = None => ~Requested(r)'
  <1>1. Newest(base) # r
    BY NewestFacts
  <1>2. Stacked(track.active)'
    BY DEF Stacked
  <1>3. Base(r)' = base
    BY <1>1 DEF Base
  <1>4. Requested(r)' <=> track'.prepared = r \/ (track'.prepared = None /\ Newest(track'.active) = r)
    BY DEF Requested
  <1>5. ~In(r, Base(r))'
    BY <1>3 DEF In
  <1>6. /\ backup'[r].saved # None
        /\ \A f \in UnitFile : backup'[r].saved.files[f] = Newest(Base(r)')
        /\ track'.prepared \in {None, r} /\ track'.current \in {Newest(Base(r)'), r}
        /\ track'.prepared = r => Newest(track'.active) # r
        /\ ~Requested(r)' => track'.current # r
    BY <1>1, <1>3, <1>4, ControlConstants
  <1>7. Between(r)'
    BY <1>5, <1>6 DEF Between
  <1>8. QED
    BY <1>1, <1>2, <1>4, <1>7, ControlConstants

LEMMA SwitchInv ==
    ASSUME ControlInv, Switch PROVE ControlInv'
  <1>1. PICK r \in Release : r = control.release
    BY ActivatingFacts DEF Switch, At, ActivatePc, Beginning
  <1>2. /\ control.pc = "switch" /\ control.pc \in ActivatePc /\ Activating(r) /\ ControlTypeOK
        /\ "install" \in ActivatePc /\ "failed" \in ActivatePc
    BY <1>1, ActivatingFacts DEF Switch, At, ActivatePc, Beginning, Serving
  <1>3. /\ control.cmd = "activate" /\ backup[r].dir /\ ~backup[r].complete /\ backup[r].started
        /\ Consistent /\ ~In(r, track.active) /\ backup[r].saved # None
        /\ backup[r].saved.files = files
    BY <1>2 DEF Activating, Beginning
  <1>4. /\ track \in TrackSet /\ track.active \in Seq(Release) /\ Stacked(track.active)
        /\ track.prepared = None /\ track.current = Newest(track.active)
        /\ track.current # r /\ Newest(track.active) \in Target
        /\ \A f \in UnitFile : backup[r].saved.files[f] = Newest(track.active)
    BY <1>2, <1>3, NewestFacts DEF ControlTypeOK, TrackSet, ControlInv, Consistent
  <1>5. PICK outcome \in TxActivate(r) :
           /\ track' = outcome[1]
           /\ control' = IF outcome[2]
                         THEN [control EXCEPT !.pc = "install", !.todo = UnitFiles]
                         ELSE [control EXCEPT !.pc = "failed"]
    BY <1>1 DEF Switch
  <1>6. files' = files /\ sys' = sys /\ backup' = backup
    BY DEF Switch
  <1>7. PICK t : t = Reconciled
    OBVIOUS
  <1>8. /\ t \in TrackSet /\ t.prepared = None /\ t.current = track.current
        /\ t.active = track.active
    BY <1>4, <1>7, ReconciledFacts
  <1>9. PICK pushed \in Seq(Release) : pushed = <<r>> \o track.active
    BY <1>4, PushFacts
  <1>10. /\ Newest(pushed) = r /\ Tail(pushed) = track.active /\ Stacked(pushed)
    BY <1>3, <1>4, <1>9, PushFacts, PushStacked
  <1>11. outcome \in
             {<<[t EXCEPT !.active = pushed, !.current = r], TRUE>>, <<t, FALSE>>}
                \cup {<<[t EXCEPT !.prepared = r, !.current = link], FALSE>> :
                         link \in {t.current, r}}
                \cup {<<[t EXCEPT !.active = pushed], FALSE>>}
    BY <1>4, <1>5, <1>7, <1>8, <1>9 DEF TxActivate
  <1>12. /\ track' \in TrackSet
         /\ \/ /\ outcome[2] = TRUE /\ track'.active = pushed /\ track'.prepared = None
               /\ track'.current = r
            \/ /\ outcome[2] = FALSE /\ track'.active = track.active
               /\ track'.prepared = None /\ track'.current = track.current
            \/ /\ outcome[2] = FALSE /\ track'.active = track.active
               /\ track'.prepared = r /\ track'.current \in {track.current, r}
            \/ /\ outcome[2] = FALSE /\ track'.active = pushed /\ track'.prepared = None
               /\ track'.current = track.current
    <2>1. CASE outcome = <<[t EXCEPT !.active = pushed, !.current = r], TRUE>>
      BY <1>5, <1>8, <1>9, <2>1 DEF TrackSet, Target
    <2>2. CASE outcome = <<t, FALSE>>
      BY <1>5, <1>8, <2>2
    <2>3. ASSUME NEW link \in {t.current, r},
                 outcome = <<[t EXCEPT !.prepared = r, !.current = link], FALSE>>
          PROVE  /\ track' \in TrackSet /\ outcome[2] = FALSE /\ track'.active = track.active
                 /\ track'.prepared = r /\ track'.current \in {track.current, r}
      BY <1>5, <1>8, <2>3 DEF TrackSet, Target
    <2>4. CASE outcome = <<[t EXCEPT !.active = pushed], FALSE>>
      BY <1>5, <1>8, <1>9, <2>4 DEF TrackSet, Target
    <2>5. QED
      BY <1>11, <2>1, <2>2, <2>3, <2>4
  <1>13. Stacked(track.active)' /\ Between(r)'
    <2>1. PICK base \in Seq(Release) : base = track.active
      BY <1>4
    <2>2. /\ Stacked(base) /\ ~In(r, base) /\ Newest(base) = track.current /\ Newest(base) # r
          /\ \A f \in UnitFile : backup[r].saved.files[f] = Newest(base)
          /\ Newest(pushed) = r /\ Tail(pushed) = base /\ Stacked(pushed) /\ base # pushed
      BY <1>3, <1>4, <1>10, <2>1
    <2>3. /\ \/ track'.active = base /\ track'.prepared \in {None, r}
             \/ track'.active \in Seq(Release) /\ Newest(track'.active) = r /\ Stacked(track'.active)
                  /\ Tail(track'.active) = base /\ track'.prepared = None
          /\ track'.current \in {Newest(base), r}
          /\ track'.active = base /\ track'.prepared = None => track'.current # r
      <3>1. CASE track'.active = base
        BY <1>4, <1>12, <2>1, <2>2, <3>1, ControlConstants
      <3>2. CASE track'.active # base
        BY <1>9, <1>12, <2>1, <2>2, <3>2
      <3>3. QED
        BY <3>1, <3>2
    <2>4. QED
      BY <1>3, <1>6, <1>12, <2>2, <2>3, BetweenTrack
  <1>14. files' \in [UnitFile -> Target] /\ Unfinished(r)
    BY <1>2, <1>3, <1>6 DEF ControlTypeOK, Unfinished
  <1>15. CASE outcome[2] = TRUE
    <2>1. control' = [control EXCEPT !.pc = "install", !.todo = UnitFiles]
      BY <1>5, <1>15
    <2>2. UnitFiles \in Todo /\ Range(UnitFiles) = UnitFile /\ control.ok \in BOOLEAN
      BY <1>2, TodoFacts DEF ControlTypeOK, ControlSet
    <2>3. /\ control' \in ControlSet /\ control'.pc = "install" /\ control'.todo = UnitFiles
          /\ control'.cmd = control.cmd /\ control'.release = r
      BY <1>1, <1>2, <2>1, <2>2, ControlStep
    <2>4. track'.active = pushed /\ track'.prepared = None /\ track'.current = r
      BY <1>12, <1>15
    <2>5. Activating(r)'
      BY <1>3, <1>6, <1>10, <2>2, <2>3, <2>4 DEF Activating, Beginning, Serving, Timed
    <2>6. QED
      BY <1>1, <1>2, <1>3, <1>6, <1>12, <1>13, <1>14, <2>3, <2>5, ChangeInv
  <1>16. CASE outcome[2] = FALSE
    <2>1. Goto("failed")
      BY <1>5, <1>16 DEF Goto
    <2>2. /\ control' \in ControlSet /\ control'.pc = "failed" /\ control'.cmd = control.cmd
          /\ control'.release = r
      BY <1>1, <1>2, <2>1, GotoStep
    <2>3. Activating(r)'
      BY <1>3, <1>6, <2>2 DEF Activating, Beginning, Serving, Timed
    <2>4. QED
      BY <1>1, <1>2, <1>3, <1>6, <1>12, <1>13, <1>14, <2>2, <2>3, ChangeInv
  <1>17. QED
    BY <1>12, <1>15, <1>16

\* The rollback of a release that was requested lands at its predecessor, or fails.
LEMMA RevertedTrack ==
    ASSUME ControlInv, NEW r \in Release, Between(r), Requested(r), backup' = backup,
           NEW outcome \in TxRollback(r), track' = outcome[1]
    PROVE  /\ track' \in TrackSet /\ Stacked(track.active)' /\ Between(r)'
           /\ outcome[2] \in BOOLEAN /\ (outcome[2] => ~Requested(r)')
  <1>1. /\ track \in TrackSet /\ track.active \in Seq(Release) /\ Stacked(track.active)
        /\ track.prepared \in {None, r}
        /\ track.prepared = r => Newest(track.active) # r
        /\ track.prepared # r => Newest(track.active) = r
    BY ControlConstants DEF ControlInv, ControlTypeOK, TrackSet, Between, Requested
  <1>2. PICK base \in Seq(Release) :
           /\ base = Base(r) /\ Stacked(base)
           /\ track.prepared = r => base = track.active
           /\ track.prepared # r => base = Tail(track.active)
    <2>1. CASE track.prepared = r
      BY <1>1, <2>1 DEF Base
    <2>2. CASE track.prepared # r
      <3>1. track.active # <<>> /\ Stacked(Tail(track.active))
        BY <1>1, <2>2, PopStacked, NewestFacts
      <3>2. Tail(track.active) \in Seq(Release)
        BY <1>1, <3>1, TailFacts
      <3>3. QED
        BY <1>1, <2>2, <3>1, <3>2 DEF Base
    <2>3. QED
      BY <2>1, <2>2
  <1>3. /\ backup[r].saved # None /\ ~In(r, base)
        /\ \A f \in UnitFile : backup[r].saved.files[f] = Newest(base)
        /\ track.current \in {Newest(base), r} /\ Newest(base) \in Target /\ Newest(base) # r
    <2>1. Newest(base) # r /\ Newest(base) \in Target
      BY <1>2, NewestFacts DEF Between
    <2>2. QED
      BY <1>2, <2>1 DEF Between
  <1>4. PICK t : t = Reconciled
    OBVIOUS
  <1>5. /\ t \in TrackSet /\ t.prepared = None /\ t.current = track.current
        /\ t.active = IF track.prepared # None /\ track.current = track.prepared
                      THEN <<track.prepared>> \o track.active ELSE track.active
    BY <1>1, <1>4, ReconciledFacts
  <1>6. CASE track.prepared = r /\ track.current # r
    <2>1. outcome \in {<<t, TRUE>>, <<track, FALSE>>}
      <3>1. TxRollback(r) = {<<t, track.prepared = r>>, <<track, FALSE>>}
        BY <1>4, <1>6, ControlConstants DEF TxRollback
      <3>2. QED
        BY <1>6, <3>1
    <2>2. track.current = Newest(base) /\ t.active = base
      BY <1>2, <1>3, <1>5, <1>6, ControlConstants
    <2>3. CASE outcome = <<t, TRUE>>
      <3>1. /\ track' \in TrackSet /\ track'.active = base /\ track'.prepared = None
            /\ track'.current = Newest(base) /\ outcome[2] = TRUE
        BY <1>5, <2>2, <2>3
      <3>2. QED
        BY <1>2, <1>3, <3>1, BetweenTrack
    <2>4. CASE outcome = <<track, FALSE>>
      <3>1. track' = track /\ outcome[2] = FALSE
        BY <2>4
      <3>2. QED
        BY <3>1, SameTrack
    <2>5. QED
      BY <2>1, <2>3, <2>4
  <1>7. CASE ~(track.prepared = r /\ track.current # r)
    <2>1. /\ t.active \in Seq(Release) /\ Newest(t.active) = r /\ Tail(t.active) = base
          /\ Stacked(t.active) /\ t.active # base
      <3>1. CASE track.prepared = r
        <4>1. track.current = r /\ t.active = <<r>> \o base
          BY <1>2, <1>5, <1>7, <3>1, ControlConstants
        <4>2. /\ <<r>> \o base \in Seq(Release) /\ Newest(<<r>> \o base) = r
              /\ Tail(<<r>> \o base) = base
          BY PushFacts
        <4>3. Stacked(<<r>> \o base)
          BY <1>2, <1>3, PushStacked
        <4>4. base # t.active
          BY <1>3, <4>1, <4>2
        <4>5. QED
          BY <4>1, <4>2, <4>3, <4>4
      <3>2. CASE track.prepared # r
        BY <1>1, <1>2, <1>3, <1>5, <3>2
      <3>3. QED
        BY <3>1, <3>2
    <2>2. outcome \in {<<[t EXCEPT !.active = base, !.current = Newest(base)], good>> :
                           good \in BOOLEAN}
                        \cup {<<[t EXCEPT !.current = link], FALSE>> :
                                 link \in {t.current, Newest(base)}}
      <3>1. ~(track.prepared # None /\ track.current # track.prepared)
        BY <1>1, <1>7
      <3>2. QED
        BY <1>4, <2>1, <3>1 DEF TxRollback
    <2>3. ASSUME NEW good \in BOOLEAN,
                 outcome = <<[t EXCEPT !.active = base, !.current = Newest(base)], good>>
          PROVE  /\ track' \in TrackSet /\ Stacked(track.active)' /\ Between(r)'
                 /\ outcome[2] \in BOOLEAN /\ (outcome[2] => ~Requested(r)')
      <3>1. /\ track' \in TrackSet /\ track'.active = base /\ track'.prepared = None
            /\ track'.current = Newest(base) /\ outcome[2] \in BOOLEAN
        BY <1>3, <1>5, <2>3 DEF TrackSet
      <3>2. QED
        BY <1>2, <1>3, <3>1, BetweenTrack
    <2>4. ASSUME NEW link \in {t.current, Newest(base)},
                 outcome = <<[t EXCEPT !.current = link], FALSE>>
          PROVE  /\ track' \in TrackSet /\ Stacked(track.active)' /\ Between(r)'
                 /\ outcome[2] \in BOOLEAN /\ (outcome[2] => ~Requested(r)')
      <3>1. /\ track' \in TrackSet /\ track'.active = t.active /\ track'.prepared = None
            /\ track'.current \in {Newest(base), r} /\ outcome[2] = FALSE
        BY <1>3, <1>5, <2>4 DEF TrackSet
      <3>2. QED
        BY <1>2, <1>3, <2>1, <3>1, BetweenTrack
    <2>5. QED
      BY <2>2, <2>3, <2>4
  <1>8. QED
    BY <1>6, <1>7

LEMMA RevertInv ==
    ASSUME ControlInv, Revert PROVE ControlInv'
  <1>1. PICK r \in Release : r = control.release
    BY RollingBackFacts DEF Revert, At, RollbackPc, Undoing
  <1>2. /\ control.pc = "revert" /\ control.pc \in RollbackPc /\ RollingBack(r) /\ ControlTypeOK
        /\ "restore" \in RollbackPc
    BY <1>1, RollingBackFacts DEF Revert, At, RollbackPc, Undoing, Reverted
  <1>3. /\ control.cmd \in {"undo", "rollback"} /\ Between(r)
        /\ control.cmd = "undo" => ~backup[r].complete /\ backup[r].started
        /\ Unfinished(r) /\ (backup[r].complete => backup[r].rolling)
        /\ control.phase = "requested" <=> Requested(r)
    BY <1>2 DEF RollingBack, Undoing
  <1>4. files' = files /\ sys' = sys /\ backup' = backup /\ files' \in [UnitFile -> Target]
    BY <1>2 DEF Revert, ControlTypeOK
  <1>5. PICK outcome \in IF control.phase = "requested" THEN TxRollback(r) ELSE {<<track, TRUE>>} :
          /\ track' = outcome[1]
          /\ control' = [control EXCEPT !.pc = "restore", !.todo = UnitFiles,
                                        !.ok = control.ok /\ outcome[2]]
    BY <1>1 DEF Revert
  <1>6. /\ track' \in TrackSet /\ Stacked(track.active)' /\ Between(r)'
        /\ outcome[2] \in BOOLEAN /\ (outcome[2] => ~Requested(r)')
    <2>1. CASE Requested(r)
      BY <1>3, <1>4, <1>5, <2>1, RevertedTrack
    <2>2. CASE ~Requested(r)
      <3>1. outcome = <<track, TRUE>>
        BY <1>3, <1>5, <2>2
      <3>2. outcome[1] = track /\ outcome[2] = TRUE
        BY <3>1
      <3>3. track' = track
        BY <1>5, <3>2
      <3>4. QED
        BY <1>3, <1>4, <2>2, <3>2, <3>3, SameTrack
    <2>3. QED
      BY <2>1, <2>2
  <1>7. /\ control' \in ControlSet /\ control'.pc = "restore" /\ control'.todo = UnitFiles
        /\ control'.ok => outcome[2]
        /\ control'.cmd = control.cmd /\ control'.release = r
    <2>1. PICK o \in BOOLEAN : o = (control.ok /\ outcome[2])
      OBVIOUS
    <2>2. control' = [control EXCEPT !.pc = "restore", !.todo = UnitFiles, !.ok = o]
      BY <1>5, <2>1
    <2>3. UnitFiles \in Todo
      BY TodoFacts
    <2>4. /\ control' \in ControlSet /\ control'.pc = "restore" /\ control'.todo = UnitFiles
          /\ control'.ok = o /\ control'.cmd = control.cmd /\ control'.release = r
      BY <1>1, <1>2, <2>2, <2>3, ControlStep
    <2>5. QED
      BY <2>1, <2>4
  <1>8. RollingBack(r)'
    <2>1. UnitFiles \in Todo /\ Range(UnitFiles) = UnitFile
      BY TodoFacts
    <2>2. Unfinished(r)'
      BY <1>3, <1>4 DEF Unfinished
    <2>3. QED
      BY <1>3, <1>4, <1>6, <1>7, <2>1, <2>2 DEF RollingBack, Undoing, Reverted, Resumed
  <1>9. QED
    BY <1>1, <1>2, <1>3, <1>4, <1>6, <1>7, <1>8, ChangeInv

-----------------------------------------------------------------------------
LEMMA ControlInitInv == Init => ControlInv
  <1> SUFFICES ASSUME Init PROVE ControlInv
    OBVIOUS
  <1>1. control = [cmd |-> "none", release |-> None, pc |-> "idle", phase |-> "none",
                   todo |-> <<>>, ok |-> TRUE]
    BY DEF Init, Idle
  <1>2. \A r \in Release : backup[r] = NoBackup /\ ~Unfinished(r)
    BY DEF Init, NoBackup, Unfinished
  <1>3. ControlTypeOK
    <2>1. control \in ControlSet
      BY <1>1 DEF ControlSet, Target, Ended
    <2>2. sys \in SysSet
      BY DEF Init, SysSet, Target
    <2>3. track \in TrackSet /\ files \in [UnitFile -> Target]
      BY DEF Init, TrackSet, Target
    <2>4. backup \in [Release -> BackupSet]
      BY DEF Init, NoBackup, BackupSet
    <2>5. QED
      BY <2>1, <2>2, <2>3, <2>4 DEF ControlTypeOK
  <1>4. Stacked(track.active)
    <2>1. Len(track.active) = 0
      BY DEF Init
    <2>2. QED
      BY <2>1 DEF Stacked
  <1>5. ChangeTogether
    BY DEF ChangeTogether, Consistent, Init, Newest
  <1>6. Marked /\ OneUnfinished /\ AnyUnfinished /\ CompleteServes
    BY <1>1, <1>2 DEF Marked, OneUnfinished, AnyUnfinished, CompleteServes, NoBackup, Ended
  <1>7. Commanded /\ RollbackRestores /\ ActivatedServes
    BY <1>1 DEF Commanded, RollbackRestores, ActivatedServes, At, ActivatePc, RollbackPc,
                Beginning, Serving, Timed, Undoing, Reverted, Resumed
  <1>8. QED
    BY <1>3, <1>4, <1>5, <1>6, <1>7 DEF ControlInv

LEMMA ControlNextInv ==
    ASSUME Overlap = FALSE PROVE ControlInv /\ [Next]_vars => ControlInv'
  <1> SUFFICES ASSUME ControlInv, [Next]_vars PROVE ControlInv'
    OBVIOUS
  <1>1. CASE Activate
    BY <1>1, SaveInv, MarkStartedInv, StopOldInv, SwitchInv, InstallInv, SubshellStepInv,
       ActivationFailedInv, CompleteInv, UnmarkInv DEF Activate
  <1>2. CASE Rollback
    BY <1>2, AnnounceInv, RevertInv, RestoreFileInv, RollbackStepInv, ForgetInv DEF Rollback
  <1>3. ASSUME NEW r \in Release, BeginActivate(r) \/ ConfirmActive(r) \/ BeginRollback(r)
        PROVE  ControlInv'
    BY <1>3, BeginActivateInv, ConfirmInv, BeginRollbackInv
  <1>4. CASE TimerElapses \/ RepairReady \/ RepairEnds
    BY <1>4, RepairStepInv
  <1>5. CASE Kill \/ Reboot
    BY <1>5, IdleInv
  <1>6. CASE UNCHANGED vars
    <2>1. /\ track' = track /\ files' = files /\ backup' = backup /\ control' = control
          /\ sys' = sys
      BY <1>6 DEF vars
    <2>2. QED
      BY <2>1, SideStepInv DEF ControlInv, ControlTypeOK
  <1>7. QED
    BY <1>1, <1>2, <1>3, <1>4, <1>5, <1>6 DEF Next

(* The control script keeps ControlInv, of which the promises below are parts: a
   release that is unfinished lies between its predecessor and itself, the history
   is a stack of releases each of which saved the one before, and the step at
   which a command stands says what it has done (activate and rollback of
   top20k_release_control.sh), as long as no release is activated while another
   is unfinished.                                                              *)
THEOREM ControlInvariant ==
    ASSUME Overlap = FALSE PROVE Spec => []ControlInv
  <1>1. Init => ControlInv
    BY ControlInitInv
  <1>2. ControlInv /\ [Next]_vars => ControlInv'
    BY ControlNextInv
  <1>3. QED
    BY <1>1, <1>2, PTL DEF Spec

(* Unless a marker says that something is unfinished, the link, the journal and
   every unit file belong to one release, wherever a command was cut.          *)
THEOREM ReleasesChangeTogether ==
    ASSUME Overlap = FALSE PROVE Spec => []ChangeTogether
  <1>1. ControlInv => ChangeTogether
    BY DEF ControlInv
  <1>2. QED
    BY <1>1, ControlInvariant, PTL

(* A rollback that reports success has put back the link, the unit files and the
   timer that the release found, whatever was cut before it.                   *)
THEOREM RollbacksRestore ==
    ASSUME Overlap = FALSE PROVE Spec => []RollbackRestores
  <1>1. ControlInv => RollbackRestores
    BY DEF ControlInv
  <1>2. QED
    BY <1>1, ControlInvariant, PTL

(* An activation that reports success serves the release that was asked for.   *)
THEOREM ActivationsServe ==
    ASSUME Overlap = FALSE PROVE Spec => []ActivatedServes
  <1>1. ControlInv => ActivatedServes
    BY DEF ControlInv
  <1>2. QED
    BY <1>1, ControlInvariant, PTL

==============================================================================
