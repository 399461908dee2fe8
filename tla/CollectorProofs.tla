--------------------------- MODULE CollectorProofs ----------------------------
(***************************************************************************)
(* For every number of callers, batch size and number of attempts: the     *)
(* batcher loses and duplicates no call, leaves no call without a flusher, *)
(* and implements LookupService.  For every shard, group size and limit: a *)
(* pass that succeeds has dealt with its shard, a row it counted is        *)
(* durable, and a row that was throttled is as it was.                     *)
(* A merge of snapshots has of every owner its rows at one moment, and a   *)
(* candidate that a prefill publishes has everything its dataset had.      *)
(***************************************************************************)
EXTENDS CollectorPass, EdgeTranslationBatcher, ShardSnapshots, OewnPrefill, SequenceTheorems,
        FoldTheorems

-----------------------------------------------------------------------------
(* EdgeDictionaryBatcher.                                                  *)

Place == flusher.batch \o pending
WaitingCalls == {c \in Caller : answer[c] = Service!Waiting}
Once(s) == \A i, j \in DOMAIN s : s[i] = s[j] => i = j

\* A batch is held from the slice until its futures are resolved.
Busy == flusher.batch # <<>> <=> flusher.pc \in {"post", "backoff"}

\* A batch is kept back for another POST only while one is left.
RetryLeft == flusher.pc = "backoff" => flusher.attempt + 1 < MaxAttempts

BInv == BTypeOK /\ OnePlacePerCall /\ NoOrphanedCalls /\ Busy /\ RetryLeft

-----------------------------------------------------------------------------
(* Sequences of callers and their members.                                 *)

\* The members of a concatenation are those of its parts.
LEMMA MembersOfConcat ==
    ASSUME NEW s \in Seq(Caller), NEW t \in Seq(Caller)
    PROVE  Members(s \o t) = Members(s) \cup Members(t)
  <1> DEFINE u == s \o t
  <1>1. /\ DOMAIN s = 1 .. Len(s) /\ DOMAIN t = 1 .. Len(t)
        /\ DOMAIN u = 1 .. Len(s) + Len(t)
        /\ Len(s) \in Nat /\ Len(t) \in Nat
    OBVIOUS
  <1>2. \A i \in DOMAIN u : IF i <= Len(s) THEN u[i] = s[i] ELSE u[i] = t[i - Len(s)]
    OBVIOUS
  <1>3. \A j \in DOMAIN t : u[Len(s) + j] = t[j]
    OBVIOUS
  <1> HIDE DEF u
  <1>4. ASSUME NEW i \in DOMAIN u PROVE u[i] \in Members(s) \cup Members(t)
    <2>1. CASE i <= Len(s)
      BY <1>1, <1>2, <2>1 DEF Members
    <2>2. CASE i > Len(s)
      <3>1. i - Len(s) \in DOMAIN t /\ u[i] = t[i - Len(s)]
        BY <1>1, <1>2, <2>2
      <3> QED
        BY <3>1 DEF Members
    <2> QED
      BY <1>1, <2>1, <2>2
  <1>5. ASSUME NEW i \in DOMAIN s PROVE s[i] \in Members(u)
    BY <1>1, <1>2 DEF Members
  <1>6. ASSUME NEW j \in DOMAIN t PROVE t[j] \in Members(u)
    <2>1. Len(s) + j \in DOMAIN u
      BY <1>1
    <2> QED
      BY <1>3, <2>1 DEF Members
  <1>7. Members(u) = Members(s) \cup Members(t)
    BY <1>4, <1>5, <1>6 DEF Members
  <1> QED
    BY <1>7 DEF u

\* A sequence without repetition stays so when a new element is appended.
LEMMA AppendOnce ==
    ASSUME NEW s \in Seq(Caller), NEW c \in Caller, Once(s), c \notin Members(s)
    PROVE  /\ Once(Append(s, c))
           /\ Members(Append(s, c)) = Members(s) \cup {c}
  BY DEF Members, Once

\* Appending to the queue appends to batch and queue together.
LEMMA AppendPlace ==
    ASSUME NEW s \in Seq(Caller), NEW t \in Seq(Caller), NEW c \in Caller
    PROVE  s \o Append(t, c) = Append(s \o t, c)
  <1> DEFINE l == s \o Append(t, c)
             r == Append(s \o t, c)
  <1>1. l \in Seq(Caller) /\ r \in Seq(Caller) /\ Len(l) = Len(r)
    OBVIOUS
  <1>2. \A i \in 1 .. Len(l) : l[i] = r[i]
    OBVIOUS
  <1> HIDE DEF l, r
  <1>3. l = r
    BY <1>1, <1>2, SeqEqual
  <1> QED
    BY <1>3 DEF l, r

\* The parts of a sequence without repetition have no element in common.
LEMMA OnceSplits ==
    ASSUME NEW s \in Seq(Caller), NEW t \in Seq(Caller), Once(s \o t)
    PROVE  Members(s) \cap Members(t) = {} /\ Once(t)
  <1>1. \A i \in DOMAIN s, j \in DOMAIN t :
            /\ i \in DOMAIN (s \o t) /\ (s \o t)[i] = s[i]
            /\ Len(s) + j \in DOMAIN (s \o t) /\ (s \o t)[Len(s) + j] = t[j]
            /\ i # Len(s) + j
    OBVIOUS
  <1>2. \A i, j \in DOMAIN t : t[i] = t[j] => i = j
    <2> SUFFICES ASSUME NEW i \in DOMAIN t, NEW j \in DOMAIN t, t[i] = t[j]
                 PROVE  i = j
      OBVIOUS
    <2>1. /\ Len(s) + i \in DOMAIN (s \o t) /\ (s \o t)[Len(s) + i] = t[i]
          /\ Len(s) + j \in DOMAIN (s \o t) /\ (s \o t)[Len(s) + j] = t[j]
      OBVIOUS
    <2>2. Len(s) + i = Len(s) + j
      BY <2>1 DEF Once
    <2> QED
      BY <2>2
  <1>3. \A i \in DOMAIN s, j \in DOMAIN t : s[i] # t[j]
    <2> SUFFICES ASSUME NEW i \in DOMAIN s, NEW j \in DOMAIN t, s[i] = t[j]
                 PROVE  FALSE
      OBVIOUS
    <2> DEFINE u == s \o t
               k == Len(s) + j
    <2>1. i \in DOMAIN u /\ k \in DOMAIN u /\ u[i] = u[k] /\ i # k
      BY <1>1
    <2>2. Once(u)
      OBVIOUS
    <2> HIDE DEF u, k
    <2> QED
      BY <2>1, <2>2 DEF Once
  <1>4. Members(s) \cap Members(t) = {}
    BY <1>3 DEF Members
  <1> QED
    BY <1>2, <1>4 DEF Once

\* Taking the first n calls of the queue as the batch keeps them in place.
LEMMA TakeKeepsPlace ==
    ASSUME NEW s \in Seq(Caller), NEW n \in 0 .. Len(s)
    PROVE  /\ SubSeq(s, 1, n) \in Seq(Caller)
           /\ SubSeq(s, n + 1, Len(s)) \in Seq(Caller)
           /\ SubSeq(s, 1, n) \o SubSeq(s, n + 1, Len(s)) = s
           /\ n > 0 => SubSeq(s, 1, n) # <<>>
  <1>1. 1 \in 1 .. Len(s) + 1 /\ n \in 1 - 1 .. Len(s) /\ Len(s) \in n .. Len(s)
    OBVIOUS
  <1>2. SubSeq(s, 1, n) \o SubSeq(s, n + 1, Len(s)) = SubSeq(s, 1, Len(s))
    BY <1>1, ConcatAdjacentSubSeq
  <1>3. SubSeq(s, 1, Len(s)) = s
    BY SubSeqFull
  <1>4. SubSeq(s, 1, n) \in Seq(Caller) /\ SubSeq(s, n + 1, Len(s)) \in Seq(Caller)
    <2>1. \A i \in 1 .. Len(s) : s[i] \in Caller
      OBVIOUS
    <2> QED
      BY <2>1, SubSeqProperties
  <1>5. n > 0 => SubSeq(s, 1, n) # <<>>
    <2>1. n > 0 => Len(SubSeq(s, 1, n)) = n
      OBVIOUS
    <2> QED
      BY <2>1, <1>4
  <1> QED
    BY <1>2, <1>3, <1>4, <1>5

\* The queue's members are those of batch and queue that the batch does not hold.
LEMMA PlaceSplits ==
    ASSUME BTypeOK, OnePlacePerCall
    PROVE  /\ Once(pending)
           /\ Members(flusher.batch) \cap Members(pending) = {}
           /\ Members(flusher.batch) \cup Members(pending) = WaitingCalls
           /\ WaitingCalls \subseteq Caller
  <1>1. pending \in Seq(Caller) /\ flusher.batch \in Seq(Caller)
    BY DEF BTypeOK, Task
  <1>2. Once(Place)
    BY DEF OnePlacePerCall, Once, Place
  <1>3. Members(Place) = Members(flusher.batch) \cup Members(pending)
    BY <1>1, MembersOfConcat DEF Place
  <1>4. Members(Place) = WaitingCalls
    BY DEF OnePlacePerCall, Place, WaitingCalls
  <1>5. WaitingCalls \subseteq Caller
    BY DEF WaitingCalls
  <1> QED
    BY <1>1, <1>2, <1>3, <1>4, <1>5, OnceSplits DEF Place

-----------------------------------------------------------------------------
(* The invariant: initially, and over each action.                         *)

\* Idle, waiting, and the two ways to end are different.
LEMMA AnswerShapes ==
    /\ Service!Idle # Service!Waiting
    /\ \A r \in Service!Result : r # Service!Waiting /\ r # Service!Idle
    /\ \A f \in Service!Failure : f # Service!Waiting /\ f # Service!Idle
    /\ Service!Result \cap Service!Failure = {}
  BY DEF Service!Idle, Service!Waiting, Service!Result, Service!Failure

\* A fresh task is a task.
LEMMA FreshTasks ==
    ASSUME NEW b \in Seq(Caller), NEW pc \in {"none", "flush", "post", "backoff"}
    PROVE  Fresh(pc, b) \in Task
  <1>1. <<>> \in [{} -> {"ok", "server"}]
    OBVIOUS
  <1>2. <<>> \in Items(Term)
    BY <1>1 DEF Items
  <1>3. 0 \in 0 .. MaxAttempts - 1
    BY BatcherConstants
  <1> QED
    BY <1>2, <1>3 DEF Fresh, Task

\* The tasks without a batch.
LEMMA EmptyTasks ==
    /\ NoFlusher \in Task /\ NoFlusher.pc = "none" /\ NoFlusher.batch = <<>>
    /\ NextBatch \in Task /\ NextBatch.pc = "flush" /\ NextBatch.batch = <<>>
  <1>1. <<>> \in Seq(Caller)
    OBVIOUS
  <1>2. NoFlusher \in Task /\ NextBatch \in Task
    BY <1>1, FreshTasks DEF NoFlusher, NextBatch
  <1>3. /\ NoFlusher.pc = "none" /\ NoFlusher.batch = <<>>
        /\ NextBatch.pc = "flush" /\ NextBatch.batch = <<>>
    BY DEF NoFlusher, NextBatch, Fresh
  <1> QED
    BY <1>2, <1>3

LEMMA InitInv == BInit => BInv
  <1> SUFFICES ASSUME BInit PROVE BInv
    OBVIOUS
  <1> USE DEF BInit
  <1>1. BTypeOK
    <2>1. answer \in [Caller -> Service!Answer]
      BY DEF Service!Answer
    <2> QED
      BY <2>1, EmptyTasks DEF BTypeOK
  <1>2. OnePlacePerCall
    <2>1. flusher.batch \o pending = <<>>
      BY DEF NoFlusher, Fresh
    <2>2. {c \in Caller : answer[c] = Service!Waiting} = {}
      BY AnswerShapes
    <2> QED
      BY <2>1, <2>2 DEF OnePlacePerCall, Members
  <1> QED
    BY <1>1, <1>2 DEF BInv, NoOrphanedCalls, Busy, RetryLeft, NoFlusher, Fresh

\* A new call goes to the end of the queue and finds or starts a flusher.
LEMMA RequestInv ==
    ASSUME BInv, NEW c \in Caller, Request(c)
    PROVE  BInv'
  <1>1. /\ pending \in Seq(Caller) /\ flusher.batch \in Seq(Caller)
        /\ flusher \in Task /\ answer \in [Caller -> Service!Answer]
        /\ OnePlacePerCall /\ BTypeOK
    BY DEF BInv, BTypeOK, Task
  <1>2. flusher' \in Task /\ flusher'.batch = flusher.batch /\ flusher'.pc # "none"
    <2>1. CASE flusher.pc = "none"
      <3>1. flusher' = NextBatch /\ flusher.batch = <<>>
        BY <2>1 DEF Request, BInv, NoOrphanedCalls
      <3> QED
        BY <3>1, EmptyTasks
    <2>2. CASE flusher.pc # "none"
      BY <2>2, <1>1 DEF Request
    <2> QED
      BY <2>1, <2>2
  <1>3. pending' = Append(pending, c) /\ pending' \in Seq(Caller)
    BY <1>1 DEF Request
  <1>4. /\ answer' = [answer EXCEPT ![c] = Service!Waiting]
        /\ answer' \in [Caller -> Service!Answer]
        /\ c \notin WaitingCalls
    BY <1>1, AnswerShapes DEF Request, Service!Answer, WaitingCalls
  <1>5. WaitingCalls' = WaitingCalls \cup {c}
    BY <1>1, <1>4 DEF WaitingCalls
  <1>6. Place \in Seq(Caller) /\ Once(Place) /\ Members(Place) = WaitingCalls
    BY <1>1 DEF OnePlacePerCall, Place, Once, WaitingCalls
  <1>7. Place' = Append(Place, c)
    <2>1. Place' = flusher.batch \o Append(pending, c)
      BY <1>2, <1>3 DEF Place
    <2> QED
      BY <1>1, <2>1, AppendPlace DEF Place
  <1>8. Once(Place') /\ Members(Place') = WaitingCalls'
    BY <1>4, <1>5, <1>6, <1>7, AppendOnce
  <1>9. OnePlacePerCall'
    BY <1>8 DEF OnePlacePerCall, Place, Once, WaitingCalls
  <1>10. Busy'
    <2>1. CASE flusher.pc = "none"
      BY <2>1, <1>2 DEF Busy, Request, NextBatch, Fresh, BInv, NoOrphanedCalls
    <2>2. CASE flusher.pc # "none"
      BY <2>2 DEF Busy, Request, BInv
    <2> QED
      BY <2>1, <2>2
  <1>11. RetryLeft'
    BY EmptyTasks DEF RetryLeft, Request, BInv
  <1> QED
    BY <1>2, <1>3, <1>4, <1>9, <1>10, <1>11 DEF BInv, BTypeOK, NoOrphanedCalls

\* Taking a batch moves calls from the queue to the batch and no call elsewhere.
LEMMA TakeInv ==
    ASSUME BInv, Take
    PROVE  BInv'
  <1> DEFINE n == IF Len(pending) < BatchSize THEN Len(pending) ELSE BatchSize
             b == SubSeq(pending, 1, n)
             rest == SubSeq(pending, n + 1, Len(pending))
  <1>1. /\ pending \in Seq(Caller) /\ flusher \in Task
        /\ answer \in [Caller -> Service!Answer] /\ flusher.batch = <<>>
    BY DEF BInv, BTypeOK, Take, Busy, Task
  <1>2. n \in 0 .. Len(pending) /\ (n = 0 => pending = <<>>)
    BY <1>1, BatcherConstants
  <1>3. /\ pending' = rest /\ answer' = answer
        /\ flusher' = IF n = 0 THEN NoFlusher ELSE Fresh("post", b)
    BY DEF Take
  <1> HIDE DEF n
  <1>4. b \in Seq(Caller) /\ rest \in Seq(Caller) /\ b \o rest = pending /\ (n > 0 => b # <<>>)
    BY <1>1, <1>2, TakeKeepsPlace
  <1> HIDE DEF b, rest
  <1>5. Place = pending
    BY <1>1 DEF Place
  <1>6. CASE n = 0
    <2>1. pending = <<>> /\ pending' = <<>>
      <3>1. Len(rest) = 0
        BY <1>2, <1>6 DEF rest
      <3> QED
        BY <1>2, <1>3, <1>4, <1>6, <3>1
    <2>2. flusher' \in Task /\ flusher'.batch = <<>> /\ flusher'.pc = "none"
      BY <1>3, <1>6, EmptyTasks
    <2>3. Place' = Place
      BY <1>5, <2>1, <2>2 DEF Place
    <2>4. OnePlacePerCall'
      BY <2>3, <1>3 DEF OnePlacePerCall, Place, BInv
    <2> QED
      BY <1>1, <1>3, <2>1, <2>2, <2>4 DEF BInv, BTypeOK, NoOrphanedCalls, Busy, RetryLeft
  <1>7. CASE n # 0
    <2>1. flusher' \in Task /\ flusher'.batch = b /\ flusher'.pc = "post" /\ b # <<>>
      <3>1. flusher' = Fresh("post", b)
        BY <1>3, <1>7
      <3>2. Fresh("post", b) \in Task
        BY <1>4, FreshTasks
      <3> QED
        BY <1>2, <1>4, <1>7, <3>1, <3>2 DEF Fresh
    <2>2. Place' = Place
      BY <1>3, <1>4, <1>5, <2>1 DEF Place
    <2>3. OnePlacePerCall'
      BY <2>2, <1>3 DEF OnePlacePerCall, Place, BInv
    <2> QED
      BY <1>1, <1>3, <1>4, <2>1, <2>3 DEF BInv, BTypeOK, NoOrphanedCalls, Busy, RetryLeft
  <1> QED
    BY <1>6, <1>7

\* Resolving the batch's futures leaves the queue's calls waiting, each once.
LEMMA ResolveBatch ==
    ASSUME BInv, NEW v \in [Caller -> Service!Result \cup Service!Failure],
           answer' = [c \in Caller |-> IF c \in Members(flusher.batch) THEN v[c]
                                       ELSE answer[c]],
           flusher' = NextBatch, pending' = pending
    PROVE  BInv'
  <1>1. /\ pending \in Seq(Caller) /\ answer \in [Caller -> Service!Answer]
        /\ BTypeOK /\ OnePlacePerCall
    BY DEF BInv, BTypeOK
  <1>2. flusher' \in Task /\ flusher'.batch = <<>> /\ flusher'.pc = "flush"
    BY EmptyTasks
  <1>3. answer' \in [Caller -> Service!Answer]
    BY <1>1 DEF Service!Answer
  <1>4. \A c \in Caller : v[c] # Service!Waiting
    BY AnswerShapes
  <1>5. WaitingCalls' = WaitingCalls \ Members(flusher.batch)
    BY <1>4 DEF WaitingCalls
  <1>6. WaitingCalls' = Members(pending) /\ Once(pending)
    BY <1>1, <1>5, PlaceSplits
  <1>7. Place' = pending
    BY <1>1, <1>2 DEF Place
  <1>8. OnePlacePerCall'
    BY <1>6, <1>7 DEF OnePlacePerCall, Place, Once, WaitingCalls
  <1> QED
    BY <1>1, <1>2, <1>3, <1>8 DEF BInv, BTypeOK, NoOrphanedCalls, Busy, RetryLeft

\* Resolving everything leaves no call waiting and needs no flusher.
LEMMA ResolveAll ==
    ASSUME BInv, NEW v \in [Caller -> Service!Result \cup Service!Failure],
           answer' = [c \in Caller |->
                        IF c \in Members(flusher.batch) \cup Members(pending)
                        THEN v[c] ELSE answer[c]],
           flusher' = NoFlusher, pending' = <<>>
    PROVE  BInv'
  <1>1. answer \in [Caller -> Service!Answer] /\ BTypeOK /\ OnePlacePerCall
    BY DEF BInv, BTypeOK
  <1>2. flusher' \in Task /\ flusher'.batch = <<>> /\ flusher'.pc = "none"
    BY EmptyTasks
  <1>3. answer' \in [Caller -> Service!Answer] /\ pending' \in Seq(Caller)
    BY <1>1 DEF Service!Answer
  <1>4. \A c \in Caller : v[c] # Service!Waiting
    BY AnswerShapes
  <1>5. WaitingCalls' = WaitingCalls \ (Members(flusher.batch) \cup Members(pending))
    BY <1>4 DEF WaitingCalls
  <1>6. WaitingCalls' = {}
    BY <1>1, <1>5, PlaceSplits
  <1>7. Place' = <<>>
    BY <1>2 DEF Place
  <1>8. OnePlacePerCall'
    BY <1>6, <1>7 DEF OnePlacePerCall, Place, Members, WaitingCalls
  <1> QED
    BY <1>2, <1>3, <1>8 DEF BInv, BTypeOK, NoOrphanedCalls, Busy, RetryLeft

\* An item status is a status of the service, and a needed field is a field.
LEMMA DeliveredIsResult ==
    ASSUME BTypeOK, NEW c \in Caller, NEW results \in Items(Term), NEW status \in Status
    PROVE  Delivered(c, results, status) \in Service!Result
  <1>1. PICK D \in SUBSET Term : results \in [D -> {"ok", "server"}]
    BY DEF Items
  <1>2. TermOf[c] \in DOMAIN results => results[TermOf[c]] \in Status
    BY <1>1 DEF Status
  <1>3. TermOf[c] \in Term
    BY BatcherConstants
  <1>4. NeedsByTerm(flusher.batch, TermOf[c]) \subseteq Field
    <2>1. Members(flusher.batch) \subseteq Caller
      BY DEF BTypeOK, Task, Members
    <2>2. \A m \in Members(flusher.batch) : NeedsOf[m] \subseteq Field
      BY <2>1, BatcherConstants
    <2> QED
      BY <2>2 DEF NeedsByTerm
  <1>5. (IF TermOf[c] \in DOMAIN results THEN results[TermOf[c]]
         ELSE IF status = "ok" THEN "server" ELSE status) \in Status
    BY <1>2 DEF Status
  <1> QED
    BY <1>3, <1>4, <1>5 DEF Delivered, Service!Result

\* What a reply leads to: the futures are resolved, or the batch is retried.
LEMMA RespondOutcome ==
    ASSUME BInv, NEW reply \in Reply(TermsOf(flusher.batch)), Respond(reply)
    PROVE  \/ \E results \in Items(Term), status \in Status : Deliver(results, status)
           \/ \E status \in Status : GiveUp(status)
           \/ /\ flusher' \in Task /\ flusher'.pc = "backoff"
              /\ flusher'.batch = flusher.batch /\ flusher.batch # <<>>
              /\ flusher'.attempt + 1 < MaxAttempts
              /\ UNCHANGED <<pending, answer>>
  <1> DEFINE results == IF reply.status = "ok" THEN reply.items ELSE flusher.results
             status == IF reply.status = "ok"
                          /\ DOMAIN reply.items # TermsOf(flusher.batch)
                       THEN "server" ELSE reply.status
  <1>1. flusher \in Task /\ flusher.pc = "post" /\ flusher.batch # <<>>
    BY DEF BInv, BTypeOK, Busy, Respond
  <1>2. TermsOf(flusher.batch) \subseteq Term
    BY <1>1, BatcherConstants DEF TermsOf, Members, Task
  <1>3. Items(TermsOf(flusher.batch)) \subseteq Items(Term)
    BY <1>2 DEF Items
  <1>4. reply.status \in Status /\ (reply.status = "ok" => reply.items \in Items(Term))
    BY <1>3 DEF Reply, Status
  <1>5. results \in Items(Term) /\ status \in Status
    BY <1>1, <1>4 DEF Task, Status
  <1>6. CASE status \in {"ok", "refused"}
    BY <1>5, <1>6 DEF Respond
  <1>7. CASE status \notin {"ok", "refused"} /\ (reply.far \/ flusher.attempt + 1 >= MaxAttempts)
    BY <1>5, <1>7 DEF Respond
  <1>8. CASE status \notin {"ok", "refused"} /\ ~(reply.far \/ flusher.attempt + 1 >= MaxAttempts)
    <2>1. /\ flusher' = [flusher EXCEPT !.pc = "backoff", !.results = results]
          /\ UNCHANGED <<pending, answer>>
      BY <1>8 DEF Respond
    <2> HIDE DEF results
    <2>2. /\ flusher' \in Task /\ flusher'.pc = "backoff"
          /\ flusher'.batch = flusher.batch /\ flusher'.attempt = flusher.attempt
      BY <1>1, <1>5, <2>1 DEF Task
    <2>3. flusher.attempt + 1 < MaxAttempts
      BY <1>1, <1>8, BatcherConstants DEF Task
    <2> QED
      BY <1>1, <2>1, <2>2, <2>3
  <1> QED
    BY <1>6, <1>7, <1>8

LEMMA RespondInv ==
    ASSUME BInv, NEW reply \in Reply(TermsOf(flusher.batch)), Respond(reply)
    PROVE  BInv'
  <1>1. CASE \E results \in Items(Term), status \in Status : Deliver(results, status)
    <2>1. PICK results \in Items(Term), status \in Status : Deliver(results, status)
      BY <1>1
    <2> DEFINE v == [c \in Caller |-> Delivered(c, results, status)]
    <2>2. v \in [Caller -> Service!Result \cup Service!Failure]
      BY DeliveredIsResult DEF BInv
    <2>3. /\ answer' = [c \in Caller |-> IF c \in Members(flusher.batch) THEN v[c]
                                          ELSE answer[c]]
          /\ flusher' = NextBatch /\ pending' = pending
      BY <2>1 DEF Deliver
    <2> HIDE DEF v
    <2> QED
      BY <2>2, <2>3, ResolveBatch
  <1>2. CASE \E status \in Status : GiveUp(status)
    <2>1. PICK status \in Status : GiveUp(status)
      BY <1>2
    <2> DEFINE v == [c \in Caller |-> [state |-> "failure", status |-> status]]
    <2>2. v \in [Caller -> Service!Result \cup Service!Failure]
      BY DEF Service!Failure
    <2>3. CASE status = "quota"
      <3>1. /\ answer' = [c \in Caller |->
                           IF c \in Members(flusher.batch) \cup Members(pending)
                           THEN v[c] ELSE answer[c]]
            /\ flusher' = NoFlusher /\ pending' = <<>>
        BY <2>1, <2>3 DEF GiveUp
      <3> HIDE DEF v
      <3> QED
        BY <2>2, <3>1, ResolveAll
    <2>4. CASE status # "quota"
      <3>1. /\ answer' = [c \in Caller |-> IF c \in Members(flusher.batch) THEN v[c]
                                            ELSE answer[c]]
            /\ flusher' = NextBatch /\ pending' = pending
        BY <2>1, <2>4 DEF GiveUp
      <3> HIDE DEF v
      <3> QED
        BY <2>2, <3>1, ResolveBatch
    <2> QED
      BY <2>3, <2>4
  <1>3. CASE /\ flusher' \in Task /\ flusher'.pc = "backoff"
             /\ flusher'.batch = flusher.batch /\ flusher.batch # <<>>
             /\ flusher'.attempt + 1 < MaxAttempts
             /\ UNCHANGED <<pending, answer>>
    <2>1. RetryLeft'
      BY <1>3 DEF RetryLeft
    <2> QED
      BY <1>3, <2>1 DEF BInv, BTypeOK, OnePlacePerCall, NoOrphanedCalls, Busy
  <1> QED
    BY <1>1, <1>2, <1>3, RespondOutcome

LEMMA RetryInv == BInv /\ Retry => BInv'
  <1> SUFFICES ASSUME BInv, Retry PROVE BInv'
    OBVIOUS
  <1>1. flusher \in Task /\ flusher.attempt + 1 < MaxAttempts
    BY DEF BInv, BTypeOK, RetryLeft, Retry
  <1>2. flusher' = [flusher EXCEPT !.pc = "post", !.attempt = flusher.attempt + 1]
    BY DEF Retry
  <1>3. flusher.attempt + 1 \in 0 .. MaxAttempts - 1
    BY <1>1, BatcherConstants DEF Task
  <1>4. flusher' \in Task /\ flusher'.batch = flusher.batch /\ flusher'.pc = "post"
    BY <1>1, <1>2, <1>3 DEF Task
  <1>5. pending' = pending /\ answer' = answer /\ flusher.batch # <<>>
    BY DEF Retry, BInv, Busy
  <1> QED
    BY <1>4, <1>5
       DEF BInv, BTypeOK, OnePlacePerCall, NoOrphanedCalls, Busy, RetryLeft

LEMMA StepInv == BInv /\ [BNext]_bvars => BInv'
  <1> SUFFICES ASSUME BInv, [BNext]_bvars PROVE BInv'
    OBVIOUS
  <1>1. ASSUME NEW c \in Caller, Request(c) PROVE BInv'
    BY <1>1, RequestInv
  <1>2. CASE Take
    BY <1>2, TakeInv
  <1>3. ASSUME NEW reply \in Reply(TermsOf(flusher.batch)), Respond(reply) PROVE BInv'
    BY <1>3, RespondInv
  <1>4. CASE Retry
    BY <1>4, RetryInv
  <1>5. CASE UNCHANGED bvars
    BY <1>5 DEF bvars, BInv, BTypeOK, OnePlacePerCall, NoOrphanedCalls, Busy, RetryLeft
  <1> QED
    BY <1>1, <1>2, <1>3, <1>4, <1>5 DEF BNext, Flush

(* The inductive invariant of the batcher, for any callers and bounds. *)
THEOREM BatcherInvariant == BSpec => []BInv
  <1>1. BInit => BInv
    BY InitInv
  <1>2. BInv /\ [BNext]_bvars => BInv'
    BY StepInv
  <1> QED
    BY <1>1, <1>2, PTL DEF BSpec

(* Every unresolved future has exactly one place, in the queue or in the batch
   in flight. *)
THEOREM CallsKeepOnePlace == BSpec => []OnePlacePerCall
  <1>1. BInv => OnePlacePerCall
    BY DEF BInv
  <1> QED
    BY <1>1, BatcherInvariant, PTL

(* Nobody waits in a queue that no flusher serves. *)
THEOREM CallsAreServed == BSpec => []NoOrphanedCalls
  <1>1. BInv => NoOrphanedCalls
    BY DEF BInv
  <1> QED
    BY <1>1, BatcherInvariant, PTL

-----------------------------------------------------------------------------
(* Refinement of LookupService.                                            *)

\* Only calls that have not returned are resolved.
LEMMA BatchIsOutstanding ==
    ASSUME BInv
    PROVE  /\ Members(flusher.batch) \subseteq Service!Outstanding
           /\ Members(flusher.batch) \cup Members(pending) = Service!Outstanding
           /\ flusher.batch # <<>> => Members(flusher.batch) # {}
  <1>1. /\ Members(flusher.batch) \cup Members(pending) = WaitingCalls
        /\ flusher.batch \in Seq(Caller)
    BY PlaceSplits DEF BInv, BTypeOK, Task
  <1>2. WaitingCalls = Service!Outstanding
    BY DEF WaitingCalls, Service!Outstanding
  <1>3. flusher.batch # <<>> => 1 \in DOMAIN flusher.batch
    BY <1>1
  <1> QED
    BY <1>1, <1>2, <1>3 DEF Members

\* What is delivered was looked up for the caller's term with all its needs.
LEMMA DeliveredFits ==
    ASSUME NEW c \in Members(flusher.batch), NEW results, NEW status
    PROVE  Service!Fits(c, Delivered(c, results, status))
  <1>1. NeedsOf[c] \subseteq NeedsByTerm(flusher.batch, TermOf[c])
    BY DEF NeedsByTerm
  <1> QED
    BY <1>1 DEF Service!Fits, Delivered

LEMMA DeliverEnds ==
    ASSUME BInv, BInv', flusher.batch # <<>>, NEW results \in Items(Term),
           NEW status \in Status, Deliver(results, status)
    PROVE  Service!Next
  <1> DEFINE S == Members(flusher.batch)
  <1>1. S \in SUBSET Service!Outstanding /\ S # {} /\ S \subseteq Caller
    BY BatchIsOutstanding DEF Service!Outstanding
  <1>2. answer' \in [Caller -> Service!Answer]
    BY DEF BInv, BTypeOK
  <1>3. \A c \in S : answer'[c] = Delivered(c, results, status)
    BY <1>1 DEF Deliver
  <1>4. \A c \in Caller \ S : answer'[c] = answer[c]
    BY DEF Deliver
  <1>5. Service!Return(S)
    BY <1>1, <1>3, DeliveredIsResult, DeliveredFits DEF Service!Return, BInv
  <1>6. Service!End(S)
    BY <1>1, <1>2, <1>4, <1>5 DEF Service!End
  <1> QED
    BY <1>1, <1>6 DEF Service!Next

LEMMA GiveUpEnds ==
    ASSUME BInv, BInv', flusher.batch # <<>>, NEW status \in Status, GiveUp(status)
    PROVE  Service!Next
  <1> DEFINE S == Members(flusher.batch) \cup
                     (IF status = "quota" THEN Members(pending) ELSE {})
             f == [state |-> "failure", status |-> status]
  <1>1. /\ S \in SUBSET Service!Outstanding /\ S # {} /\ S \subseteq Caller
        /\ status = "quota" => S = Service!Outstanding
    BY BatchIsOutstanding DEF Service!Outstanding
  <1>2. answer' \in [Caller -> Service!Answer]
    BY DEF BInv, BTypeOK
  <1>3. /\ \A c \in S : answer'[c] = f
        /\ \A c \in Caller \ S : answer'[c] = answer[c]
    BY <1>1 DEF GiveUp
  <1>4. f \in Service!Failure /\ f.status = status
    BY DEF Service!Failure
  <1>5. Service!Fail(S)
    BY <1>1, <1>3, <1>4 DEF Service!Fail
  <1>6. Service!End(S)
    BY <1>1, <1>2, <1>3, <1>5 DEF Service!End
  <1> QED
    BY <1>1, <1>6 DEF Service!Next

LEMMA StepImplements == BInv /\ BInv' /\ [BNext]_bvars => [Service!Next]_answer
  <1> SUFFICES ASSUME BInv, BInv', [BNext]_bvars PROVE [Service!Next]_answer
    OBVIOUS
  <1>1. ASSUME NEW c \in Caller, Request(c) PROVE Service!Next
    BY <1>1 DEF Request, Service!Next, Service!Call
  <1>2. ASSUME NEW reply \in Reply(TermsOf(flusher.batch)), Respond(reply)
        PROVE  [Service!Next]_answer
    <2>1. flusher.batch # <<>>
      BY <1>2 DEF Respond, BInv, Busy
    <2> QED
      BY <1>2, <2>1, RespondOutcome, DeliverEnds, GiveUpEnds
  <1>3. CASE Take \/ Retry \/ UNCHANGED bvars
    BY <1>3 DEF Take, Retry, bvars
  <1> QED
    BY <1>1, <1>2, <1>3 DEF BNext, Flush

(* The batcher implements LookupService, whatever the callers share and
   however the edge answers. *)
THEOREM BatcherImplementsService == BSpec => ImplementsService
  <1>1. BInit => Service!Init
    BY DEF BInit, Service!Init
  <1>2. BInv /\ BInv' /\ [BNext]_bvars => [Service!Next]_answer
    BY StepImplements
  <1> QED
    BY <1>1, <1>2, BatcherInvariant, PTL DEF BSpec, ImplementsService, Service!Spec

-----------------------------------------------------------------------------
(* CollectorPass.                                                          *)

PassPc == {"down", "select", "gather"}
PassSet == [pc : PassPc, profile : {"core", "deep"}, limit : Nat, next : 1 .. Len(Shard) + 1,
            group : SUBSET Caller, last : BOOLEAN, processed : Nat,
            exit : {"none", "success", "failure"}]
PassFields == {"pc", "profile", "limit", "next", "group", "last", "processed", "exit"}
TaskSet == [at : {"unread"} \cup Running \cup Over, good : BOOLEAN]

PassTypes ==
    /\ marker \in [Caller -> Marker] /\ task \in [Caller -> TaskSet] /\ pass \in PassSet
    /\ DOMAIN dirty \subseteq Caller

\* What is written and not committed was written by this pass.
DirtyIsOfPass ==
    \A r \in DOMAIN dirty : /\ dirty[r] \in Marker /\ dirty[r].status # "none"
                            /\ dirty[r].profile = pass.profile

\* Every row behind the position of the pass has been dealt with, or is at work.
Dealt ==
    pass.pc # "down" =>
        /\ pass.exit = "none"
        /\ \A i \in 1 .. pass.next - 1 : Eligible(Shard[i]) =>
              \/ At(Shard[i]) = "error"
              \/ pass.pc = "gather" /\ Shard[i] \in pass.group

\* No row ahead of the position has been read.
Ahead == pass.pc # "down" => \A i \in pass.next .. Len(Shard) : At(Shard[i]) = "unread"

\* The rows of the last group that the limit counts: all while they are at work,
\* then those that failed.
CountedRows == IF pass.pc = "gather" THEN pass.group ELSE Failed(pass.group)

\* After a partial group no row is left, or the limit is reached with its rows.
LastGroup ==
    pass.pc # "down" /\ pass.last =>
        \/ \A i \in pass.next .. Len(Shard) : ~Eligible(Shard[i])
        \/ pass.limit # 0 /\ pass.limit = pass.processed + Cardinality(CountedRows)

PassInv ==
    /\ PassTypes /\ DirtyIsOfPass /\ ProcessedIsDurable
    /\ Dealt /\ Ahead /\ LastGroup /\ SuccessCoversShard

-----------------------------------------------------------------------------
LEMMA ShardFacts ==
    /\ Len(Shard) \in Nat /\ IsFiniteSet(Caller)
    /\ \A i \in 1 .. Len(Shard) : Shard[i] \in Caller
    /\ \A r \in Caller : \E i \in 1 .. Len(Shard) : Shard[i] = r
  <1>1. /\ Shard \in Seq(Caller) /\ Len(Shard) \in Nat /\ DOMAIN Shard = 1 .. Len(Shard)
        /\ Caller = {Shard[i] : i \in DOMAIN Shard}
    BY CollectorConstants DEF Members
  <1>2. IsFiniteSet(1 .. Len(Shard))
    BY <1>1, FS_Interval
  <1>3. IsFiniteSet(Caller)
    <2>1. Shard \in Surjection(1 .. Len(Shard), Caller)
      BY <1>1 DEF Surjection
    <2>2. QED
      BY <1>2, <2>1, FS_Surjection
  <1>4. QED
    BY <1>1, <1>3

\* A set of positions that is not empty has a last one.
LEMMA LastOfGroup ==
    ASSUME NEW n \in Nat, NEW G, G \subseteq 1 .. n, G # {}
    PROVE  \E i \in G : \A j \in G : j <= i
  <1> DEFINE T == {d \in Nat : n - d \in G}
  <1>1. PICK g \in G : TRUE
    OBVIOUS
  <1>2. n - g \in Nat /\ n - (n - g) = g
    BY <1>1
  <1>3. T \subseteq Nat /\ T # {}
    BY <1>1, <1>2
  <1> HIDE DEF T
  <1>4. PICK d \in T : \A e \in T : ~(<<e, d>> \in OpToRel(<, Nat))
    BY <1>3, NatLessThanWellFounded, WFMin
  <1>5. \A e \in T : ~(e < d)
    BY <1>3, <1>4 DEF OpToRel
  <1>6. d \in Nat /\ n - d \in G
    BY <1>4 DEF T
  <1>7. ASSUME NEW j \in G PROVE j <= n - d
    <2>1. j \in 1 .. n /\ n - j \in Nat /\ n - (n - j) = j
      BY <1>7
    <2>2. n - j \in T
      BY <2>1 DEF T
    <2>3. ~(n - j < d)
      BY <1>5, <2>2
    <2>4. QED
      BY <1>6, <2>1, <2>3
  <1>8. QED
    BY <1>6, <1>7

\* A group has as many rows as positions, for a row has one position.
LEMMA GroupSize ==
    ASSUME NEW G \in SUBSET (1 .. Len(Shard)), NEW rows, rows = {Shard[i] : i \in G}
    PROVE  /\ IsFiniteSet(G) /\ Cardinality(G) \in Nat /\ Cardinality(rows) = Cardinality(G)
           /\ Cardinality(G) = 0 <=> G = {}
  <1>1. IsFiniteSet(1 .. Len(Shard))
    BY ShardFacts, FS_Interval
  <1>2. IsFiniteSet(G) /\ Cardinality(G) \in Nat
    BY <1>1, FS_Subset, FS_CardinalityType
  <1>3. PICK f : f = [i \in G |-> Shard[i]]
    OBVIOUS
  <1>4. DOMAIN Shard = 1 .. Len(Shard)
    BY CollectorConstants
  <1>5. \A i, j \in G : f[i] = f[j] => i = j
    BY <1>3, <1>4, CollectorConstants
  <1>6. f \in [G -> rows] /\ \A x \in rows : \E i \in G : f[i] = x
    BY <1>3
  <1>7. f \in Bijection(G, rows)
    BY <1>5, <1>6 DEF Bijection, Injection, Surjection, IsInjective
  <1>8. ExistsBijection(G, rows)
    BY <1>7 DEF ExistsBijection
  <1>9. Cardinality(rows) = Cardinality(G)
    BY <1>2, <1>8, FS_Bijection
  <1>10. QED
    BY <1>2, <1>9, FS_EmptySet

\* What a set is parted into adds up.
LEMMA PartsAddUp ==
    ASSUME NEW S, IsFiniteSet(S), NEW A, NEW B, S = A \cup B, A \cap B = {}
    PROVE  /\ Cardinality(A) \in Nat /\ Cardinality(B) \in Nat
           /\ Cardinality(S) = Cardinality(A) + Cardinality(B)
  <1>1. IsFiniteSet(A) /\ IsFiniteSet(B)
    BY FS_Subset
  <1>2. Cardinality(A) \in Nat /\ Cardinality(B) \in Nat
    BY <1>1, FS_CardinalityType
  <1>3. Cardinality(S) = Cardinality(A) + Cardinality(B) - Cardinality(A \cap B)
    BY <1>1, FS_Union
  <1>4. Cardinality(A \cap B) = 0
    BY FS_EmptySet
  <1>5. QED
    BY <1>2, <1>3, <1>4

LEMMA PassFacts ==
    ASSUME pass \in PassSet
    PROVE  /\ pass.pc \in PassPc /\ pass.profile \in {"core", "deep"} /\ pass.limit \in Nat
           /\ pass.next \in 1 .. Len(Shard) + 1 /\ pass.group \subseteq Caller
           /\ pass.last \in BOOLEAN /\ pass.processed \in Nat /\ pass.exit \in {"none", "success", "failure"}
           /\ pass = [pc |-> pass.pc, profile |-> pass.profile, limit |-> pass.limit,
                      next |-> pass.next, group |-> pass.group, last |-> pass.last,
                      processed |-> pass.processed, exit |-> pass.exit]
  BY DEF PassSet

LEMMA PassShape ==
    ASSUME NEW p, p.pc \in PassPc, p.profile \in {"core", "deep"}, p.limit \in Nat,
           p.next \in 1 .. Len(Shard) + 1, p.group \in SUBSET Caller, p.last \in BOOLEAN,
           p.processed \in Nat, p.exit \in {"none", "success", "failure"}, p = [field \in PassFields |-> p[field]]
    PROVE  p \in PassSet
  <1>1. p = [pc |-> p.pc, profile |-> p.profile, limit |-> p.limit, next |-> p.next,
             group |-> p.group, last |-> p.last, processed |-> p.processed, exit |-> p.exit]
    BY DEF PassFields
  <1>2. QED
    BY <1>1 DEF PassSet

\* A row that a pass has marked is not eligible in it.
LEMMA MarkedIsDone ==
    ASSUME NEW r, marker[r].status # "none", marker[r].profile = pass.profile
    PROVE  ~Eligible(r)
  BY DEF Eligible

\* What a commit leaves of each row: what it was, or a marker of this pass.
LEMMA UponFacts ==
    ASSUME NEW new, NEW old, NEW result, result = Upon(new, old), DOMAIN new \subseteq DOMAIN old
    PROVE  /\ result = [r \in DOMAIN old |-> result[r]]
           /\ \A r \in DOMAIN old : result[r] = IF r \in DOMAIN new THEN new[r] ELSE old[r]
  BY DEF Upon

-----------------------------------------------------------------------------
LEMMA PassInit == CInit => PassInv
  <1> SUFFICES ASSUME CInit PROVE PassInv
    OBVIOUS
  <1>1. /\ pass = Down /\ dirty = <<>> /\ DOMAIN dirty = {}
        /\ \A r \in Caller : task[r] = Unread /\ marker[r] = Unmarked
        /\ marker = [r \in Caller |-> Unmarked] /\ task = [r \in Caller |-> Unread]
    BY DEF CInit
  <1>2. Down \in PassSet /\ Down.pc = "down" /\ Down.exit = "none" /\ ~Down.last
    BY ShardFacts DEF Down, PassSet, PassPc
  <1>3. Unmarked \in Marker /\ Unread \in TaskSet /\ Unread.at = "unread"
    BY DEF Marker, Unmarked, TaskSet, Unread
  <1>4. PassTypes
    BY <1>1, <1>2, <1>3 DEF PassTypes
  <1>5. DirtyIsOfPass /\ Dealt /\ Ahead /\ LastGroup /\ SuccessCoversShard
    BY <1>1, <1>2 DEF DirtyIsOfPass, Dealt, Ahead, LastGroup, SuccessCoversShard
  <1>6. ProcessedIsDurable
    BY <1>1, <1>3 DEF ProcessedIsDurable, At
  <1>7. QED
    BY <1>4, <1>5, <1>6 DEF PassInv

\* A pass begins with nothing read.
LEMMA OpenStep ==
    ASSUME PassInv, NEW profile \in {"core", "deep"}, NEW limit \in Nat, Open(profile, limit),
           marker' = marker
    PROVE  PassInv'
  <1>1. PICK p : p = [Down EXCEPT !.pc = "select", !.profile = profile, !.limit = limit]
    OBVIOUS
  <1>2. /\ p.pc = "select" /\ p.profile = profile /\ p.limit = limit /\ p.next = 1
        /\ p.group = {} /\ p.last = FALSE /\ p.processed = 0 /\ p.exit = "none"
        /\ p = [field \in PassFields |-> p[field]]
    BY <1>1 DEF Down, PassFields
  <1>3. p \in PassSet
    <2>1. p.pc \in PassPc /\ p.next \in 1 .. Len(Shard) + 1
      BY <1>2, ShardFacts DEF PassPc
    <2>2. p.group \in SUBSET Caller /\ p.processed \in Nat
      BY <1>2
    <2>2a. p.last \in BOOLEAN
      <3>1. p.last = Down.last
        BY <1>1 DEF Down
      <3>2. Down.last \in BOOLEAN
        BY DEF Down
      <3>3. QED
        BY <3>1, <3>2
    <2>3. p.exit \in {"none", "success", "failure"} /\ p = [field \in PassFields |-> p[field]]
      BY <1>2
    <2>4. p.profile \in {"core", "deep"} /\ p.limit \in Nat
      BY <1>2
    <2>5. QED
      BY <2>1, <2>2, <2>2a, <2>3, <2>4, PassShape
  <1>4. /\ pass' = p /\ dirty' = <<>> /\ DOMAIN dirty' = {}
        /\ task' = [r \in Caller |-> Unread]
    BY <1>1 DEF Open, Reopen
  <1>5. Unread \in TaskSet /\ Unread.at = "unread"
    BY DEF TaskSet, Unread
  <1>6. PassTypes'
    BY <1>3, <1>4, <1>5 DEF PassInv, PassTypes
  <1>7. DirtyIsOfPass' /\ SuccessCoversShard'
    BY <1>2, <1>4 DEF DirtyIsOfPass, SuccessCoversShard
  <1>8. ProcessedIsDurable'
    BY <1>4, <1>5 DEF ProcessedIsDurable, At
  <1>9. Dealt'
    <2>1. 1 .. pass'.next - 1 = {}
      BY <1>2, <1>4
    <2>2. QED
      BY <1>2, <1>4, <2>1 DEF Dealt
  <1>10. Ahead'
    <2>1. \A i \in 1 .. Len(Shard) : At(Shard[i])' = "unread"
      BY <1>4, <1>5, ShardFacts DEF At
    <2>2. QED
      BY <1>2, <1>4, <2>1 DEF Ahead
  <1>11. LastGroup'
    BY <1>2, <1>4 DEF LastGroup
  <1>12. QED
    BY <1>6, <1>7, <1>8, <1>9, <1>10, <1>11 DEF PassInv

\* A pass that fails ends with what has been committed.
LEMMA FailureStep ==
    ASSUME PassInv, Exit("failure"), task' = task, marker' \in [Caller -> Marker],
           recorded \subseteq recorded',
           \A r \in Caller : marker'[r] = marker[r] \/ (/\ marker'[r].status # "none"
                                                        /\ marker'[r].profile = pass.profile)
    PROVE  PassInv'
  <1>1. PICK old \in PassSet : old = pass
    BY DEF PassInv, PassTypes
  <1>2. PICK p : p = [old EXCEPT !.pc = "down", !.exit = "failure"]
    OBVIOUS
  <1>3. /\ p.pc = "down" /\ p.profile = old.profile /\ p.limit = old.limit /\ p.next = old.next
        /\ p.group = old.group /\ p.last = old.last /\ p.processed = old.processed
        /\ p.exit = "failure"
        /\ p = [field \in PassFields |-> p[field]]
    BY <1>2 DEF PassSet, PassFields
  <1>4. p \in PassSet
    BY <1>3, PassShape DEF PassSet, PassPc
  <1>5. pass' = p /\ pass'.profile = pass.profile /\ dirty' = <<>> /\ DOMAIN dirty' = {}
    BY <1>1, <1>2, <1>3 DEF Exit, Reopen
  <1>6. PassTypes'
    BY <1>4, <1>5 DEF PassInv, PassTypes
  <1>7. DirtyIsOfPass' /\ SuccessCoversShard' /\ Dealt' /\ Ahead' /\ LastGroup'
    BY <1>3, <1>5 DEF DirtyIsOfPass, SuccessCoversShard, Dealt, Ahead, LastGroup
  <1>8. ProcessedIsDurable'
    BY <1>5 DEF PassInv, ProcessedIsDurable, At
  <1>9. QED
    BY <1>6, <1>7, <1>8 DEF PassInv

\* The next group reaches as far as its last row: no candidate is passed over.
LEMMA SelectGroupStep ==
    ASSUME PassInv, SelectGroup
    PROVE  PassInv'
  <1>1. PICK old \in PassSet : old = pass
    BY DEF PassInv, PassTypes
  <1>2. /\ pass.pc = "select" /\ marker' = marker /\ dirty' = dirty /\ recorded' = recorded
        /\ pass.next \in 1 .. Len(Shard) + 1
    BY PassFacts DEF SelectGroup, PassInv, PassTypes
  <1>3. PICK G \in SUBSET Candidates :
          /\ G # {} /\ IsGroup(G)
          /\ pass' = [pass EXCEPT !.pc = "gather", !.group = {Shard[i] : i \in G},
                        !.last = Cardinality(G) < Workers,
                        !.next = 1 + CHOOSE i \in G : \A j \in G : j <= i]
          /\ task' = [r \in Caller |-> IF r \in pass'.group
                                       THEN [at |-> "start", good |-> TRUE] ELSE task[r]]
    BY DEF SelectGroup, FlushGroup
  <1>4. G \subseteq 1 .. Len(Shard) /\ Len(Shard) \in Nat
    BY <1>2, ShardFacts DEF Candidates
  <1>5. PICK last \in G : last = CHOOSE i \in G : \A j \in G : j <= i
    BY <1>3, <1>4, LastOfGroup
  <1>6. \A j \in G : j <= last
    BY <1>3, <1>4, <1>5, LastOfGroup
  <1>7. PICK group \in SUBSET Caller : group = {Shard[i] : i \in G}
    BY <1>4, ShardFacts
  <1>7a. PICK partial \in BOOLEAN : partial = (Cardinality(G) < Workers)
    <2>1. G \in SUBSET (1 .. Len(Shard))
      BY <1>4
    <2>2. Cardinality(G) \in Nat /\ Workers \in Nat
      BY <2>1, GroupSize, CollectorConstants
    <2>3. PICK size \in Nat : size = Cardinality(G)
      BY <2>2
    <2>4. (size < Workers) \in BOOLEAN
      BY <2>2
    <2>5. QED
      BY <2>3, <2>4
  <1>8. PICK p : p = [old EXCEPT !.pc = "gather", !.group = group, !.last = partial,
                                 !.next = 1 + last]
    OBVIOUS
  <1>9. /\ p.pc = "gather" /\ p.profile = old.profile /\ p.limit = old.limit /\ p.next = 1 + last
        /\ p.group = group /\ p.last = partial /\ p.processed = old.processed /\ p.exit = old.exit
        /\ p = [field \in PassFields |-> p[field]]
    BY <1>8 DEF PassSet, PassFields
  <1>10. last \in 1 .. Len(Shard) /\ 1 + last \in 1 .. Len(Shard) + 1
    BY <1>4
  <1>11. p \in PassSet
    BY <1>9, <1>10, PassShape DEF PassSet, PassPc
  <1>12. pass' = p /\ pass'.profile = pass.profile
    BY <1>1, <1>3, <1>5, <1>7, <1>7a, <1>8, <1>9
  <1>13. task' = [r \in Caller |-> IF r \in group THEN [at |-> "start", good |-> TRUE] ELSE task[r]]
    BY <1>3, <1>9, <1>12
  <1>14. [at |-> "start", good |-> TRUE] \in TaskSet
    BY DEF TaskSet, Running
  <1>15. PassTypes'
    BY <1>2, <1>11, <1>12, <1>13, <1>14 DEF PassInv, PassTypes
  <1>16. DirtyIsOfPass' /\ SuccessCoversShard'
    BY <1>1, <1>2, <1>9, <1>12 DEF PassInv, DirtyIsOfPass, SuccessCoversShard, Dealt
  <1>17. ProcessedIsDurable'
    BY <1>2, <1>12, <1>13 DEF PassInv, ProcessedIsDurable, At
  <1>18. Dealt'
    <2>1. pass'.exit = "none" /\ pass'.pc = "gather" /\ pass'.group = group /\ pass'.next = 1 + last
      BY <1>1, <1>2, <1>9, <1>12 DEF PassInv, Dealt
    <2>2. ASSUME NEW i \in 1 .. last, Eligible(Shard[i])
          PROVE  At(Shard[i])' = "error" \/ Shard[i] \in group
      <3>1. i \in 1 .. Len(Shard) /\ Shard[i] \in Caller
        BY <1>10, ShardFacts
      <3>2. CASE i < pass.next
        <4>1. i \in 1 .. pass.next - 1
          BY <1>2, <3>1, <3>2
        <4>2. At(Shard[i]) = "error"
          BY <1>2, <2>2, <4>1 DEF PassInv, Dealt
        <4>3. QED
          BY <1>13, <3>1, <4>2 DEF At
      <3>3. CASE ~(i < pass.next)
        <4>1. i \in Candidates
          BY <1>2, <2>2, <3>1, <3>3 DEF Candidates
        <4>2. i \in G
          <5>1. i \notin G => last < i
            BY <1>3, <4>1 DEF IsGroup
          <5>2. QED
            BY <1>10, <5>1
        <4>3. QED
          BY <1>7, <4>2
      <3>4. QED
        BY <3>2, <3>3
    <2>3. \A r : Eligible(r)' <=> Eligible(r)
      BY <1>2, <1>12 DEF Eligible
    <2>4. 1 .. pass'.next - 1 = 1 .. last
      BY <1>10, <2>1
    <2>5. QED
      BY <2>1, <2>2, <2>3, <2>4 DEF Dealt
  <1>19. Ahead'
    <2>1. SUFFICES ASSUME NEW i \in 1 + last .. Len(Shard) PROVE At(Shard[i])' = "unread"
      BY <1>9, <1>12 DEF Ahead
    <2>2. i \in 1 .. Len(Shard) /\ Shard[i] \in Caller /\ i > last /\ i >= pass.next
      <3>1. last >= pass.next
        BY <1>2, <1>3 DEF Candidates
      <3>2. i \in 1 .. Len(Shard) /\ i > last /\ i >= pass.next
        BY <1>2, <1>4, <1>10, <3>1
      <3>3. QED
        BY <3>2, ShardFacts
    <2>3. Shard[i] \notin group
      <3>1. \A g \in G : g \in 1 .. Len(Shard) /\ g # i
        BY <1>4, <1>6, <1>10, <2>2
      <3>2. DOMAIN Shard = 1 .. Len(Shard)
        BY CollectorConstants
      <3>3. \A g \in G : Shard[g] # Shard[i]
        BY <2>2, <3>1, <3>2, CollectorConstants
      <3>4. QED
        BY <1>7, <3>3
    <2>4. At(Shard[i]) = "unread"
      <3>1. i \in pass.next .. Len(Shard)
        BY <1>2, <1>4, <2>2
      <3>2. QED
        BY <1>2, <3>1 DEF PassInv, Ahead
    <2>5. QED
      BY <1>13, <2>2, <2>3, <2>4 DEF At
  <1>20. LastGroup'
    <2>1. SUFFICES ASSUME partial
                   PROVE  \/ \A i \in 1 + last .. Len(Shard) : ~Eligible(Shard[i])
                          \/ old.limit # 0 /\ old.limit = old.processed + Cardinality(group)
      <3>1. \A r : Eligible(r)' <=> Eligible(r)
        BY <1>2, <1>12 DEF Eligible
      <3>2. CountedRows' = group
        BY <1>9, <1>12 DEF CountedRows
      <3>3. QED
        BY <1>1, <1>9, <1>12, <3>1, <3>2 DEF LastGroup
    <2>2. G \in SUBSET (1 .. Len(Shard))
      BY <1>4
    <2>3. PICK size \in Nat : size = Cardinality(G) /\ size = Cardinality(group) /\ size # 0
      BY <1>3, <1>7, <2>2, GroupSize
    <2>4. size < Workers /\ Workers \in Nat
      BY <1>7a, <2>1, <2>3, CollectorConstants
    <2>5. size = Room \/ G = Candidates
      BY <1>3, <2>3, <2>4 DEF IsGroup
    <2>6. CASE size = Room
      <3>1. old.limit \in Nat /\ old.processed \in Nat
        BY <1>1, PassFacts
      <3>2. old.limit # 0 /\ old.processed < old.limit /\ size = old.limit - old.processed
        BY <1>1, <2>3, <2>4, <2>6 DEF Room
      <3>3. QED
        BY <2>3, <3>1, <3>2
    <2>7. CASE G = Candidates
      <3>1. ASSUME NEW i \in 1 + last .. Len(Shard), Eligible(Shard[i]) PROVE FALSE
        <4>1. last >= pass.next
          BY <1>2, <1>3 DEF Candidates
        <4>2. i > last /\ i \in pass.next .. Len(Shard)
          BY <1>2, <1>4, <1>10, <4>1
        <4>3. i \in G
          BY <2>7, <3>1, <4>2 DEF Candidates
        <4>4. QED
          BY <1>6, <1>10, <4>2, <4>3
      <3>2. QED
        BY <3>1
    <2>8. QED
      BY <2>5, <2>6, <2>7
  <1>21. QED
    BY <1>15, <1>16, <1>17, <1>18, <1>19, <1>20 DEF PassInv

\* A deep pass that ends has dealt with the whole shard, or with what its limit
\* admits.
LEMMA EndPassStep ==
    ASSUME PassInv, EndPass
    PROVE  PassInv'
  <1>1. /\ pass \in PassSet /\ pass.pc = "select" /\ (pass.last \/ IsGroup({}))
        /\ marker' = marker
        /\ recorded' = recorded
    BY DEF EndPass, PassInv, PassTypes
  <1>2. CASE pass.profile = "core"
    <2>1. PICK limit \in Nat : limit = pass.limit
      BY <1>1, PassFacts
    <2>2. Open("deep", limit)
      BY <1>2, <2>1 DEF EndPass, Open
    <2>3. QED
      BY <1>1, <2>1, <2>2, OpenStep
  <1>3. CASE pass.profile # "core"
    <2>1. Exit("success") /\ task' = task
      BY <1>3 DEF EndPass
    <2>2. PICK old \in PassSet : old = pass
      BY <1>1
    <2>3. PICK p : p = [old EXCEPT !.pc = "down", !.exit = "success"]
      OBVIOUS
    <2>4. /\ p.pc = "down" /\ p.profile = old.profile /\ p.limit = old.limit /\ p.next = old.next
          /\ p.group = old.group /\ p.last = old.last /\ p.processed = old.processed
          /\ p.exit = "success"
          /\ p = [field \in PassFields |-> p[field]]
      BY <2>3 DEF PassSet, PassFields
    <2>5. p \in PassSet
      BY <2>4, PassShape DEF PassSet, PassPc
    <2>6. pass' = p /\ dirty' = <<>> /\ DOMAIN dirty' = {}
      BY <2>1, <2>2, <2>3 DEF Exit, Reopen
    <2>7. PassTypes'
      BY <1>1, <2>1, <2>5, <2>6 DEF PassInv, PassTypes
    <2>8. DirtyIsOfPass' /\ Dealt' /\ Ahead' /\ LastGroup'
      BY <2>4, <2>6 DEF DirtyIsOfPass, Dealt, Ahead, LastGroup
    <2>9. ProcessedIsDurable'
      BY <1>1, <2>1, <2>2, <2>4, <2>6 DEF PassInv, ProcessedIsDurable, At
    <2>10. SuccessCoversShard'
      <3>1. \A r : (Eligible(r)' <=> Eligible(r)) /\ At(r)' = At(r)
        BY <1>1, <2>1, <2>2, <2>4, <2>6 DEF Eligible, At
      <3>2. Admitted' = Admitted
        <4>1. Failed(pass.group)' = Failed(pass.group)
          BY <2>2, <2>4, <2>6, <3>1 DEF Failed
        <4>2. QED
          BY <2>2, <2>4, <2>6, <4>1 DEF Admitted
      <3>3. /\ pass.limit \in Nat /\ pass.processed \in Nat /\ pass.next \in 1 .. Len(Shard) + 1
            /\ Len(Shard) \in Nat /\ DOMAIN Shard = 1 .. Len(Shard) /\ pass.last \in BOOLEAN
        BY <1>1, PassFacts, ShardFacts, CollectorConstants
      <3>4. ASSUME NEW i \in 1 .. Len(Shard), i < pass.next, Eligible(Shard[i])
            PROVE  At(Shard[i]) = "error"
        <4>1. i \in 1 .. pass.next - 1
          BY <3>3, <3>4
        <4>2. QED
          BY <1>1, <3>4, <4>1 DEF PassInv, Dealt
      <3>5. ASSUME NEW i \in 1 .. Len(Shard), NEW j \in 1 .. Len(Shard), i < j,
                   At(Shard[j]) # "unread", Eligible(Shard[i])
            PROVE  At(Shard[i]) = "error"
        <4>1. ~(j \in pass.next .. Len(Shard))
          BY <1>1, <3>5 DEF PassInv, Ahead
        <4>2. i < pass.next
          BY <3>3, <3>5, <4>1
        <4>3. QED
          BY <3>4, <3>5, <4>2
      <3>6. ASSUME pass.limit = 0 \/ Admitted < pass.limit, NEW r \in Caller, Eligible(r)
            PROVE  At(r) = "error"
        <4>1. PICK i \in 1 .. Len(Shard) : Shard[i] = r
          BY ShardFacts
        <4>2. ASSUME i \in pass.next .. Len(Shard) PROVE FALSE
          <5>1. CASE pass.last
            <6>1. pass.limit # 0 /\ pass.limit = pass.processed + Cardinality(CountedRows)
              BY <1>1, <3>6, <4>1, <4>2, <5>1 DEF PassInv, LastGroup
            <6>2. CountedRows = Failed(pass.group)
              BY <1>1 DEF CountedRows
            <6>3. Admitted = pass.limit
              BY <5>1, <6>1, <6>2 DEF Admitted
            <6>4. QED
              BY <3>3, <3>6, <6>1, <6>3
          <5>2. CASE ~pass.last
            <6>1. IsGroup({})
              BY <1>1, <5>2
            <6>2. Admitted = pass.processed
              BY <3>3, <5>2 DEF Admitted
            <6>3. Room # 0
              BY <3>3, <3>6, <6>2, CollectorConstants DEF Room
            <6>4. Candidates = {}
              BY <6>1, <6>3, FS_EmptySet, CollectorConstants DEF IsGroup
            <6>5. i \in Candidates
              BY <3>6, <4>1, <4>2 DEF Candidates
            <6>6. QED
              BY <6>4, <6>5
          <5>3. QED
            BY <5>1, <5>2
        <4>3. i < pass.next
          BY <3>3, <4>2
        <4>4. QED
          BY <3>4, <3>6, <4>1, <4>3
      <3>7. \A i, j \in DOMAIN Shard :
               i < j /\ At(Shard[j])' # "unread" /\ Eligible(Shard[i])' => At(Shard[i])' = "error"
        BY <3>1, <3>3, <3>5
      <3>8. (pass.limit = 0 \/ Admitted' < pass.limit) =>
               \A r \in Caller : Eligible(r)' => At(r)' = "error"
        BY <3>1, <3>2, <3>6
      <3>9. pass'.limit = pass.limit
        BY <2>2, <2>4, <2>6
      <3>10. QED
        BY <3>7, <3>8, <3>9 DEF SuccessCoversShard
    <2>11. QED
      BY <2>7, <2>8, <2>9, <2>10 DEF PassInv
  <1>4. QED
    BY <1>2, <1>3

-----------------------------------------------------------------------------
\* A row at work goes on, or ends with what the invariant asks of its state.
LEMMA RowGoesOn ==
    ASSUME PassInv, NEW r \in Caller, pass.pc = "gather", At(r) \in Running, pass' = pass,
           NEW state \in Running \cup Over, NEW good \in BOOLEAN, Become(r, state, good),
           marker' \in [Caller -> Marker],
           \A x \in Caller : marker'[x] = marker[x] \/ (/\ marker'[x].status # "none"
                                                        /\ marker'[x].profile = pass.profile),
           DOMAIN dirty' \subseteq Caller, DirtyIsOfPass', recorded \subseteq recorded',
           state = "done" => /\ marker'[r].status # "none" /\ marker'[r].profile = pass.profile
                             /\ NeedsOf[r] # {} => r \in recorded'
    PROVE  PassInv'
  <1>1. /\ task \in [Caller -> TaskSet] /\ [at |-> state, good |-> good] \in TaskSet
        /\ task' = [task EXCEPT ![r] = [at |-> state, good |-> good]]
    BY DEF PassInv, PassTypes, TaskSet, Become
  <1>2. task' \in [Caller -> TaskSet] /\ At(r)' = state /\ \A x \in Caller : x # r => At(x)' = At(x)
    BY <1>1 DEF At
  <1>3. PassTypes'
    BY <1>2 DEF PassInv, PassTypes
  <1>4. ProcessedIsDurable'
    BY <1>2 DEF PassInv, ProcessedIsDurable
  <1>5. pass.exit = "none"
    BY DEF PassInv, Dealt
  <1>6. SuccessCoversShard'
    BY <1>5 DEF SuccessCoversShard
  <1>7. Dealt'
    <2>1. \A x \in Caller : Eligible(x)' => Eligible(x)
      BY DEF Eligible
    <2>2. SUFFICES ASSUME NEW i \in 1 .. pass.next - 1, Eligible(Shard[i])'
                   PROVE  At(Shard[i])' = "error" \/ Shard[i] \in pass.group
      BY <1>5 DEF Dealt
    <2>3. Shard[i] \in Caller
      <3>1. pass.next \in 1 .. Len(Shard) + 1
        BY PassFacts DEF PassInv, PassTypes
      <3>2. i \in 1 .. Len(Shard)
        BY <3>1, ShardFacts
      <3>3. QED
        BY <3>2, ShardFacts
    <2>4. At(Shard[i]) = "error" \/ Shard[i] \in pass.group
      BY <2>1, <2>2, <2>3 DEF PassInv, Dealt
    <2>5. "error" \notin Running
      BY DEF Running
    <2>6. QED
      BY <1>2, <2>3, <2>4, <2>5
  <1>8. Ahead'
    <2>1. SUFFICES ASSUME NEW i \in pass.next .. Len(Shard) PROVE At(Shard[i])' = "unread"
      BY DEF Ahead
    <2>2. At(Shard[i]) = "unread" /\ "unread" \notin Running
      BY DEF PassInv, Ahead, Running
    <2>3. Shard[i] \in Caller
      <3>1. pass.next \in 1 .. Len(Shard) + 1
        BY PassFacts DEF PassInv, PassTypes
      <3>2. i \in 1 .. Len(Shard)
        BY <3>1, ShardFacts
      <3>3. QED
        BY <3>2, ShardFacts
    <2>4. Shard[i] # r
      BY <2>2
    <2>5. QED
      BY <1>2, <2>2, <2>3, <2>4
  <1>9. LastGroup'
    <2>1. CountedRows' = CountedRows
      BY DEF CountedRows
    <2>2. ASSUME NEW i \in pass.next .. Len(Shard), ~Eligible(Shard[i])
          PROVE  ~Eligible(Shard[i])'
      <3>1. Shard[i] \in Caller
        <4>1. pass.next \in 1 .. Len(Shard) + 1
          BY PassFacts DEF PassInv, PassTypes
        <4>2. i \in 1 .. Len(Shard)
          BY <4>1, ShardFacts
        <4>3. QED
          BY <4>2, ShardFacts
      <3>2. QED
        BY <2>2, <3>1 DEF Eligible
    <2>3. LastGroup
      BY DEF PassInv
    <2>4. QED
      BY <2>1, <2>2, <2>3 DEF LastGroup
  <1>10. QED
    BY <1>3, <1>4, <1>6, <1>7, <1>8, <1>9 DEF PassInv

\* The commits of a row also commit what other rows left; a crash between them
\* loses the state of the provider, and an error leaves the marker uncommitted or
\* only the marker committed.
LEMMA WriteStep ==
    ASSUME PassInv, NEW r \in Caller, pass.pc = "gather", At(r) \in Running,
           NEW good \in BOOLEAN, NEW ups, NeedsOf[r] # {} => r \in ups, Write(r, good, ups)
    PROVE  PassInv'
  <1>1. /\ marker \in [Caller -> Marker] /\ DOMAIN dirty \subseteq Caller /\ pass \in PassSet
    BY DEF PassInv, PassTypes
  <1>2. PICK written : written = Upon(Row(r, MarkerOf(good)), dirty)
    OBVIOUS
  <1>3. MarkerOf(good) \in Marker /\ MarkerOf(good).status # "none"
          /\ MarkerOf(good).profile = pass.profile
    BY <1>1, PassFacts DEF MarkerOf, Marker
  <1>4. /\ DOMAIN written = {r} \cup DOMAIN dirty
        /\ written[r] = MarkerOf(good)
        /\ \A x \in DOMAIN dirty : x # r => written[x] = dirty[x]
    BY <1>2 DEF Upon, Row
  <1>5. \A x \in DOMAIN written : /\ x \in Caller /\ written[x] \in Marker
                                  /\ written[x].status # "none"
                                  /\ written[x].profile = pass.profile
    BY <1>1, <1>3, <1>4 DEF PassInv, DirtyIsOfPass
  <1>6. PICK committed : committed = Upon(written, marker)
    OBVIOUS
  <1>7. /\ committed = [x \in Caller |-> committed[x]]
        /\ \A x \in Caller : committed[x] = IF x \in DOMAIN written THEN written[x] ELSE marker[x]
    BY <1>1, <1>5, <1>6 DEF Upon
  <1>8. /\ committed \in [Caller -> Marker]
        /\ \A x \in Caller : committed[x] = marker[x] \/ (/\ committed[x].status # "none"
                                                          /\ committed[x].profile = pass.profile)
        /\ committed[r].status # "none" /\ committed[r].profile = pass.profile
    BY <1>1, <1>4, <1>5, <1>7
  <1>9. CASE /\ marker' = committed /\ dirty' = <<>>
             /\ recorded' = recorded \cup ups /\ upserts' = {}
             /\ Become(r, "done", good)
             /\ UNCHANGED <<bvars, pass, faults>>
    <2>1. DOMAIN dirty' = {} /\ pass' = pass
      BY <1>9
    <2>2. DirtyIsOfPass'
      BY <2>1 DEF DirtyIsOfPass
    <2>3. "done" \in Running \cup Over
      BY DEF Over
    <2>4. recorded \subseteq recorded' /\ (NeedsOf[r] # {} => r \in recorded')
      BY <1>9
    <2>5. Become(r, "done", good) /\ marker' = committed
      BY <1>9
    <2>6. QED
      BY <1>8, <2>1, <2>2, <2>3, <2>4, <2>5, RowGoesOn
  <1>10. CASE /\ faults < MaxFaults /\ faults' = faults + 1
              /\ marker' = committed
              /\ Exit("failure")
              /\ UNCHANGED <<recorded, task>>
    BY <1>8, <1>10, FailureStep
  <1>11. CASE /\ faults < MaxFaults /\ faults' = faults + 1
              /\ \/ dirty' \in {dirty, written} /\ UNCHANGED marker
                 \/ dirty' = <<>> /\ marker' = committed
              /\ upserts' = ups
              /\ Become(r, "error", good)
              /\ UNCHANGED <<bvars, recorded, pass>>
    <2>0. DOMAIN <<>> = {}
      OBVIOUS
    <2>1. /\ DOMAIN dirty' \subseteq Caller /\ pass' = pass /\ recorded' = recorded
          /\ marker' \in {marker, committed}
      BY <1>1, <1>5, <1>11, <2>0
    <2>1a. /\ marker' \in [Caller -> Marker]
           /\ \A x \in Caller : marker'[x] = marker[x] \/ (/\ marker'[x].status # "none"
                                                          /\ marker'[x].profile = pass.profile)
      BY <1>1, <1>8, <2>1
    <2>2. DirtyIsOfPass'
      <3>1. CASE dirty' = dirty
        BY <2>1, <3>1 DEF PassInv, DirtyIsOfPass
      <3>2. CASE dirty' = written
        BY <1>5, <2>1, <3>2 DEF DirtyIsOfPass
      <3>3. CASE dirty' = <<>>
        BY <2>0, <3>3 DEF DirtyIsOfPass
      <3>4. QED
        BY <1>11, <3>1, <3>2, <3>3
    <2>3. "error" \in Running \cup Over /\ "error" # "done"
      BY DEF Over
    <2>4. Become(r, "error", good)
      BY <1>11
    <2>5. QED
      BY <1>1, <2>1, <2>1a, <2>2, <2>3, <2>4, RowGoesOn
  <1>12. QED
    BY <1>2, <1>6, <1>9, <1>10, <1>11 DEF Write

\* A row that goes on without a commit leaves the shard as it is.
LEMMA RowWaits ==
    ASSUME PassInv, NEW r \in Caller, pass.pc = "gather", At(r) \in Running,
           NEW state \in (Running \cup Over) \ {"done"}, NEW good \in BOOLEAN,
           Become(r, state, good), UNCHANGED <<marker, dirty, recorded, pass>>
    PROVE  PassInv'
  <1>1. /\ marker' \in [Caller -> Marker] /\ DOMAIN dirty' \subseteq Caller
        /\ \A x \in Caller : marker'[x] = marker[x]
    BY DEF PassInv, PassTypes
  <1>2. DirtyIsOfPass'
    BY DEF PassInv, DirtyIsOfPass
  <1>3. QED
    BY <1>1, <1>2, RowGoesOn

LEMMA BeginStep ==
    ASSUME PassInv, NEW r \in Caller, Begin(r)
    PROVE  PassInv'
  <1>1. pass.pc = "gather" /\ At(r) \in Running /\ {"translate", "lookup"} \subseteq Running
    BY DEF Begin, Running
  <1>2. "translate" # "done" /\ "lookup" # "done"
    OBVIOUS
  <1>3. CASE NeedsOf[r] = {}
    <2>1. PICK ups : ups = upserts
      OBVIOUS
    <2>2. \/ Write(r, TRUE, ups)
          \/ /\ Become(r, "translate", TRUE)
             /\ UNCHANGED <<bvars, marker, dirty, recorded, pass, faults>>
      BY <1>3, <2>1 DEF Begin, TranslateOrWrite, Write
    <2>3. CASE Write(r, TRUE, ups)
      BY <1>1, <1>3, <2>3, WriteStep
    <2>4. CASE /\ Become(r, "translate", TRUE)
               /\ UNCHANGED <<bvars, marker, dirty, recorded, pass, faults>>
      BY <1>1, <1>2, <2>4, RowWaits
    <2>5. QED
      BY <2>2, <2>3, <2>4
  <1>4. CASE NeedsOf[r] # {}
    <2>1. Become(r, "lookup", TRUE) /\ UNCHANGED <<marker, dirty, recorded, pass>>
      BY <1>4 DEF Begin
    <2>2. QED
      BY <1>1, <1>2, <2>1, RowWaits
  <1>5. QED
    BY <1>3, <1>4

LEMMA LookupRaisesStep ==
    ASSUME PassInv, NEW r \in Caller, LookupRaises(r)
    PROVE  PassInv'
  <1>1. pass.pc = "gather" /\ At(r) \in Running /\ UNCHANGED <<marker, dirty, recorded, pass>>
    BY DEF LookupRaises, Running
  <1>2. {"quota", "error"} \subseteq (Running \cup Over) \ {"done"}
    BY DEF Over
  <1>3. Become(r, "quota", FALSE) \/ Become(r, "error", FALSE)
    BY DEF LookupRaises, Become
  <1>4. CASE Become(r, "quota", FALSE)
    BY <1>1, <1>2, <1>4, RowWaits
  <1>5. CASE Become(r, "error", FALSE)
    BY <1>1, <1>2, <1>5, RowWaits
  <1>6. QED
    BY <1>3, <1>4, <1>5

LEMMA LookupReturnsStep ==
    ASSUME PassInv, NEW r \in Caller, LookupReturns(r)
    PROVE  PassInv'
  <1>1. pass.pc = "gather" /\ At(r) \in Running /\ "translate" \in Running /\ "translate" # "done"
    BY DEF LookupReturns, Running
  <1>2. PICK ups : ups = upserts \cup {r}
    OBVIOUS
  <1>3. PICK good \in BOOLEAN :
          \/ Write(r, good, ups)
          \/ /\ Become(r, "translate", good)
             /\ UNCHANGED <<bvars, marker, dirty, recorded, pass, faults>>
    <2>1. PICK good \in {FALSE, answer[r].status = "ok"} :
            TranslateOrWrite(r, good, upserts \cup {r})
      BY DEF LookupReturns
    <2>2. good \in BOOLEAN
      OBVIOUS
    <2>3. \/ Write(r, good, ups)
          \/ /\ Become(r, "translate", good)
             /\ UNCHANGED <<bvars, marker, dirty, recorded, pass, faults>>
      BY <1>2, <2>1 DEF TranslateOrWrite, Write
    <2>4. QED
      BY <2>2, <2>3
  <1>4. CASE Write(r, good, ups)
    BY <1>1, <1>2, <1>4, WriteStep
  <1>5. CASE /\ Become(r, "translate", good)
             /\ UNCHANGED <<bvars, marker, dirty, recorded, pass, faults>>
    BY <1>1, <1>5, RowWaits
  <1>6. QED
    BY <1>3, <1>4, <1>5

LEMMA TranslationReturnsStep ==
    ASSUME PassInv, NEW r \in Caller, TranslationReturns(r)
    PROVE  PassInv'
  <1>1. pass.pc = "gather" /\ At(r) \in Running
    BY DEF TranslationReturns, Running
  <1>2. PICK ups : ups = upserts \cup {r}
    OBVIOUS
  <1>3. task[r].good \in BOOLEAN
    BY DEF PassInv, PassTypes, TaskSet
  <1>4. PICK translated \in BOOLEAN : Write(r, task[r].good /\ translated, upserts \cup {r})
    BY DEF TranslationReturns
  <1>5. PICK good \in BOOLEAN : good = (task[r].good /\ translated)
    BY <1>3
  <1>6. Write(r, good, ups)
    BY <1>2, <1>4, <1>5 DEF Write
  <1>7. QED
    BY <1>1, <1>2, <1>6, WriteStep

-----------------------------------------------------------------------------
\* Every row of a group that ends has its marker, or has failed.
LEMMA EndGroupStep ==
    ASSUME PassInv, EndGroup
    PROVE  PassInv'
  <1>1. /\ pass \in PassSet /\ pass.pc = "gather" /\ \A r \in pass.group : At(r) \in Over
        /\ UNCHANGED <<marker, recorded, task, faults>>
    BY DEF EndGroup, PassInv, PassTypes
  <1>2. CASE \E r \in pass.group : At(r) = "quota"
    <2>1. Exit("failure") /\ marker' = marker /\ marker \in [Caller -> Marker]
      BY <1>2 DEF EndGroup, PassInv, PassTypes
    <2>2. QED
      BY <1>1, <2>1, FailureStep
  <1>3. CASE ~\E r \in pass.group : At(r) = "quota"
    <2>1. PICK done : done = {r \in pass.group : At(r) = "done"}
      OBVIOUS
    <2>2. /\ Cardinality(done) \in Nat /\ Cardinality(Failed(pass.group)) \in Nat
          /\ Cardinality(pass.group) = Cardinality(done) + Cardinality(Failed(pass.group))
      <3>1. IsFiniteSet(pass.group)
        BY <1>1, PassFacts, ShardFacts, FS_Subset
      <3>2. pass.group = done \cup Failed(pass.group) /\ done \cap Failed(pass.group) = {}
        BY <1>1, <1>3, <2>1 DEF Failed, Over
      <3>3. QED
        BY <3>1, <3>2, PartsAddUp
    <2>3. PICK count \in Nat : count = Cardinality(done)
      BY <2>2
    <2>4. PICK old \in PassSet : old = pass
      BY <1>1
    <2>5. PICK p : p = [old EXCEPT !.pc = "select", !.processed = old.processed + count]
      OBVIOUS
    <2>6. /\ p.pc = "select" /\ p.profile = old.profile /\ p.limit = old.limit
          /\ p.next = old.next /\ p.group = old.group /\ p.last = old.last
          /\ p.processed = old.processed + count
          /\ p.exit = old.exit /\ p = [field \in PassFields |-> p[field]]
      BY <2>5 DEF PassSet, PassFields
    <2>7. p \in PassSet
      <3>1. old.processed + count \in Nat
        BY DEF PassSet
      <3>2. /\ old.profile \in {"core", "deep"} /\ old.limit \in Nat
            /\ old.next \in 1 .. Len(Shard) + 1 /\ old.exit \in {"none", "success", "failure"}
            /\ old.group \in SUBSET Caller /\ old.last \in BOOLEAN
        BY DEF PassSet
      <3>3. /\ p.pc \in PassPc /\ p.processed \in Nat
            /\ p = [field \in PassFields |-> p[field]]
        BY <2>6, <3>1 DEF PassPc
      <3>4. QED
        BY <2>6, <3>2, <3>3, PassShape
    <2>8. pass' = p /\ dirty' = dirty
      <3>1. pass' = [pass EXCEPT !.pc = "select", !.processed = pass.processed + count]
        BY <1>3, <2>1, <2>3 DEF EndGroup
      <3>2. QED
        BY <1>3, <2>4, <2>5, <3>1 DEF EndGroup
    <2>9. PassTypes'
      BY <1>1, <2>7, <2>8 DEF PassInv, PassTypes
    <2>10. DirtyIsOfPass' /\ ProcessedIsDurable'
      BY <1>1, <2>4, <2>6, <2>8 DEF PassInv, DirtyIsOfPass, ProcessedIsDurable, At
    <2>11. pass.exit = "none"
      BY <1>1 DEF PassInv, Dealt
    <2>12. SuccessCoversShard'
      BY <2>4, <2>6, <2>8, <2>11 DEF SuccessCoversShard
    <2>13. Dealt'
      <3>1. \A r : (Eligible(r)' <=> Eligible(r)) /\ At(r)' = At(r)
        BY <1>1, <2>4, <2>6, <2>8 DEF Eligible, At
      <3>2. SUFFICES ASSUME NEW i \in 1 .. pass.next - 1, Eligible(Shard[i])
                     PROVE  At(Shard[i]) = "error"
        BY <2>4, <2>6, <2>8, <2>11, <3>1 DEF Dealt
      <3>3. Shard[i] \in Caller
        <4>1. pass.next \in 1 .. Len(Shard) + 1
          BY <1>1, PassFacts
        <4>2. i \in 1 .. Len(Shard)
          BY <4>1, ShardFacts
        <4>3. QED
          BY <4>2, ShardFacts
      <3>4. At(Shard[i]) # "done"
        BY <3>2, <3>3, MarkedIsDone DEF PassInv, ProcessedIsDurable
      <3>5. At(Shard[i]) = "error" \/ Shard[i] \in pass.group
        BY <1>1, <3>2 DEF PassInv, Dealt
      <3>6. Shard[i] \in pass.group => At(Shard[i]) \in Over /\ At(Shard[i]) # "quota"
        BY <1>1, <1>3
      <3>7. QED
        BY <3>4, <3>5, <3>6 DEF Over
    <2>14. Ahead'
      BY <1>1, <2>4, <2>6, <2>8 DEF PassInv, Ahead, At
    <2>15. LastGroup'
      <3>1. \A r : (Eligible(r)' <=> Eligible(r)) /\ At(r)' = At(r)
        BY <1>1, <2>4, <2>6, <2>8 DEF Eligible, At
      <3>2. CountedRows = pass.group /\ CountedRows' = Failed(pass.group)
        <4>1. Failed(pass.group)' = Failed(pass.group)
          BY <2>4, <2>6, <2>8, <3>1 DEF Failed
        <4>2. QED
          BY <1>1, <2>6, <2>8, <4>1 DEF CountedRows
      <3>3. PICK failed \in Nat : failed = Cardinality(Failed(pass.group))
        BY <2>2
      <3>4. /\ Cardinality(pass.group) = count + failed /\ Cardinality(CountedRows)' = failed
        BY <2>2, <2>3, <3>2, <3>3
      <3>5. pass'.processed = pass.processed + count /\ pass.processed \in Nat
        BY <1>1, <2>4, <2>6, <2>8, PassFacts
      <3>6. ASSUME pass.limit = pass.processed + Cardinality(CountedRows)
            PROVE  pass.limit = pass'.processed + Cardinality(CountedRows)'
        <4>1. pass.limit = pass.processed + (count + failed)
          BY <3>2, <3>4, <3>6
        <4>2. QED
          BY <3>4, <3>5, <4>1
      <3>7. /\ pass'.limit = pass.limit /\ pass'.next = pass.next /\ pass'.last = pass.last
        BY <2>4, <2>6, <2>8
      <3>8. LastGroup
        BY DEF PassInv
      <3>9. QED
        BY <1>1, <3>1, <3>6, <3>7, <3>8 DEF LastGroup
    <2>16. QED
      BY <2>9, <2>10, <2>12, <2>13, <2>14, <2>15 DEF PassInv
  <1>4. QED
    BY <1>2, <1>3

LEMMA StartStep ==
    ASSUME PassInv, Start
    PROVE  PassInv'
  <1>1. PICK limit \in Nat : Open("core", limit)
    BY CollectorConstants DEF Start
  <1>2. QED
    BY <1>1, OpenStep DEF Start

LEMMA DieStep ==
    ASSUME PassInv, Die
    PROVE  PassInv'
  <1>1. Exit("failure") /\ UNCHANGED <<marker, recorded, task>> /\ marker \in [Caller -> Marker]
    BY DEF Die, PassInv, PassTypes
  <1>2. QED
    BY <1>1, FailureStep

\* The flusher, and a step of nothing.
LEMMA PassStutters ==
    ASSUME PassInv, UNCHANGED <<marker, dirty, recorded, task, pass>>
    PROVE  PassInv'
  <1>1. PassTypes'
    BY DEF PassInv, PassTypes
  <1>2. DirtyIsOfPass' /\ ProcessedIsDurable'
    BY DEF PassInv, DirtyIsOfPass, ProcessedIsDurable, At
  <1>3. \A r : (Eligible(r)' <=> Eligible(r)) /\ At(r)' = At(r)
    BY DEF Eligible, At
  <1>4. Failed(pass.group)' = Failed(pass.group)
    BY <1>3 DEF Failed
  <1>5. Dealt' /\ Ahead'
    BY <1>3 DEF PassInv, Dealt, Ahead
  <1>6. LastGroup'
    BY <1>3, <1>4 DEF PassInv, LastGroup, CountedRows
  <1>7. SuccessCoversShard'
    BY <1>3, <1>4 DEF PassInv, SuccessCoversShard, Admitted
  <1>8. QED
    BY <1>1, <1>2, <1>5, <1>6, <1>7 DEF PassInv

(* Whatever order the rows of a group end in, and wherever the process dies: a pass
   owes its shard what PassInv says (run of tools/enrich_oxford_scope.py). *)
THEOREM PassInvariant == Spec => []PassInv
  <1>1. CInit => PassInv
    BY PassInit
  <1>2. PassInv /\ [Next]_vars => PassInv'
    <2> SUFFICES ASSUME PassInv, [Next]_vars PROVE PassInv'
      OBVIOUS
    <2>1. CASE Start
      BY <2>1, StartStep
    <2>2. CASE Die
      BY <2>2, DieStep
    <2>3. CASE SelectGroup
      BY <2>3, SelectGroupStep
    <2>4. CASE EndGroup
      BY <2>4, EndGroupStep
    <2>5. CASE EndPass
      BY <2>5, EndPassStep
    <2>6. CASE RunFlusher
      BY <2>6, PassStutters DEF RunFlusher
    <2>7. ASSUME NEW r \in Caller, Begin(r) PROVE PassInv'
      BY <2>7, BeginStep
    <2>8. ASSUME NEW r \in Caller, LookupRaises(r) PROVE PassInv'
      BY <2>8, LookupRaisesStep
    <2>9. ASSUME NEW r \in Caller, LookupReturns(r) PROVE PassInv'
      BY <2>9, LookupReturnsStep
    <2>10. ASSUME NEW r \in Caller, TranslationReturns(r) PROVE PassInv'
      BY <2>10, TranslationReturnsStep
    <2>11. CASE UNCHANGED vars
      BY <2>11, PassStutters DEF vars, cvars
    <2>12. QED
      BY <2>1, <2>2, <2>3, <2>4, <2>5, <2>6, <2>7, <2>8, <2>9, <2>10, <2>11
         DEF Next, PassStep, RowStep
  <1>3. QED
    BY <1>1, <1>2, PTL DEF Spec

(* A pass that ends with success has passed over no row, and has dealt with its
   whole shard unless its limit was reached, counting the rows of the last group
   that failed (enrich_oxford_scope.py:2615-2672). *)
THEOREM SuccessesCoverShard == Spec => []SuccessCoversShard
  <1>1. PassInv => SuccessCoversShard
    BY DEF PassInv
  <1>2. QED
    BY <1>1, PassInvariant, PTL

(* A row counted as processed has its marker and its provider state committed
   (enrich_oxford_scope.py:2549). *)
THEOREM ProcessedRowsAreDurable == Spec => []ProcessedIsDurable
  <1>1. PassInv => ProcessedIsDurable
    BY DEF PassInv
  <1>2. QED
    BY <1>1, PassInvariant, PTL

-----------------------------------------------------------------------------
(* The batcher and the pass together.                                      *)

\* The row needed nothing from the network, or has been given it.
Served(r) == NeedsOf[r] = {} \/ answer[r] \in Service!Result

\* Only a row that is served has left anything on the connections.
TracesInv ==
    \A r \in Caller :
        /\ NeedsOf[r] = {} => answer[r] = Service!Idle
        /\ \/ r \in upserts \/ r \in DOMAIN dirty
           \/ pass.pc = "gather" /\ At(r) = "translate"
           => Served(r)
        /\ pass.pc # "down" /\ At(r) \in Running => pass.pc = "gather" /\ r \in pass.group

CollectorInv == BInv /\ PassInv /\ TracesInv

\* What a step does to a row that has left nothing and is not served.
Untouched ==
    \A r \in Caller : ~Served(r) /\ r \notin upserts /\ r \notin DOMAIN dirty =>
        /\ marker'[r] = marker[r] /\ (r \in recorded' => r \in recorded)
        /\ r \notin upserts' /\ r \notin DOMAIN dirty'

LEMMA ReopenBatcher == Reopen => BInv'
  <1> SUFFICES ASSUME Reopen PROVE BInv'
    OBVIOUS
  <1>1. /\ pending' = <<>> /\ flusher' = NoFlusher /\ answer' = [c \in Caller |-> Service!Idle]
        /\ NoFlusher \in Task /\ NoFlusher.pc = "none" /\ NoFlusher.batch = <<>>
    BY EmptyTasks DEF Reopen
  <1>2. BTypeOK'
    <2>1. answer' \in [Caller -> Service!Answer]
      BY <1>1 DEF Service!Answer
    <2>2. QED
      BY <1>1, <2>1 DEF BTypeOK
  <1>3. OnePlacePerCall'
    <2>1. flusher'.batch \o pending' = <<>>
      BY <1>1
    <2>2. {c \in Caller : answer'[c] = Service!Waiting} = {}
      BY <1>1, AnswerShapes
    <2>3. QED
      BY <2>1, <2>2 DEF OnePlacePerCall, Members
  <1>4. QED
    BY <1>1, <1>2, <1>3 DEF BInv, NoOrphanedCalls, Busy, RetryLeft

\* The flusher answers the calls that wait, and no other.
LEMMA FlushAnswers ==
    ASSUME BInv, Take \/ Retry \/ \E reply \in Reply(TermsOf(flusher.batch)) : Respond(reply)
    PROVE  \A c \in Caller : answer[c] # Service!Waiting => answer'[c] = answer[c]
  <1>1. Members(flusher.batch) \cup Members(pending) = Service!Outstanding
    BY BatchIsOutstanding
  <1>2. ASSUME NEW c \in Caller, answer[c] # Service!Waiting
        PROVE  c \notin Members(flusher.batch) /\ c \notin Members(pending)
    BY <1>1, <1>2 DEF Service!Outstanding
  <1>3. CASE Take \/ Retry
    BY <1>3 DEF Take, Retry
  <1>4. ASSUME NEW reply \in Reply(TermsOf(flusher.batch)), Respond(reply)
        PROVE  \A c \in Caller : answer[c] # Service!Waiting => answer'[c] = answer[c]
    <2>1. ASSUME NEW results \in Items(Term), NEW status \in Status, Deliver(results, status)
          PROVE  \A c \in Caller : answer[c] # Service!Waiting => answer'[c] = answer[c]
      BY <1>2, <2>1 DEF Deliver
    <2>2. ASSUME NEW status \in Status, GiveUp(status)
          PROVE  \A c \in Caller : answer[c] # Service!Waiting => answer'[c] = answer[c]
      BY <1>2, <2>2 DEF GiveUp
    <2>3. QED
      BY <1>4, <2>1, <2>2, RespondOutcome
  <1>5. QED
    BY <1>3, <1>4

\* A pass that is opened or left leaves nothing.
LEMMA ReopenTraces ==
    ASSUME PassInv, Reopen, pass'.pc \in {"down", "select"},
           pass'.pc = "select" => task' = [r \in Caller |-> Unread]
    PROVE  TracesInv'
  <1>1. /\ answer' = [c \in Caller |-> Service!Idle] /\ upserts' = {}
        /\ dirty' = <<>> /\ DOMAIN dirty' = {}
    BY DEF Reopen
  <1>2. pass'.pc = "select" => \A r \in Caller : At(r)' \notin Running
    BY DEF At, Unread, Running
  <1>3. QED
    BY <1>1, <1>2 DEF TracesInv

\* A step of a row that is served may leave its own traces only.
LEMMA ServedRowTraces ==
    ASSUME PassInv, TracesInv, NEW r \in Caller, pass.pc = "gather", At(r) \in Running,
           NEW state \in Running \cup Over, NEW good, Become(r, state, good),
           Served(r), UNCHANGED <<bvars, pass>>,
           \A x \in Caller : x # r => /\ (x \in upserts' => x \in upserts)
                                      /\ (x \in DOMAIN dirty' => x \in DOMAIN dirty)
    PROVE  TracesInv'
  <1>1. task \in [Caller -> TaskSet] /\ task' = [task EXCEPT ![r] = [at |-> state, good |-> good]]
    BY DEF PassInv, PassTypes, Become
  <1>2. At(r)' = state /\ \A x \in Caller : x # r => At(x)' = At(x)
    BY <1>1 DEF At
  <1>3. answer' = answer /\ pass' = pass
    BY DEF bvars
  <1>4. r \in pass.group
    BY DEF TracesInv
  <1>5. ASSUME NEW x \in Caller
        PROVE  /\ NeedsOf[x] = {} => answer'[x] = Service!Idle
               /\ \/ x \in upserts' \/ x \in DOMAIN dirty'
                  \/ pass'.pc = "gather" /\ At(x)' = "translate"
                  => Served(x)'
               /\ pass'.pc # "down" /\ At(x)' \in Running => pass'.pc = "gather" /\ x \in pass'.group
    <2>1. Served(x)' <=> Served(x)
      BY <1>3 DEF Served
    <2>2. CASE x = r
      BY <1>3, <1>4, <2>1, <2>2 DEF TracesInv
    <2>3. CASE x # r
      BY <1>2, <1>3, <2>1, <2>3 DEF TracesInv
    <2>4. QED
      BY <2>2, <2>3
  <1>6. QED
    BY <1>5 DEF TracesInv

LEMMA WriteTraces ==
    ASSUME PassInv, TracesInv, NEW r \in Caller, pass.pc = "gather", At(r) \in Running,
           Served(r), NEW good, NEW ups, \A x \in Caller : x # r /\ x \in ups => x \in upserts,
           Write(r, good, ups)
    PROVE  TracesInv' /\ Untouched
  <1>1. /\ marker \in [Caller -> Marker] /\ DOMAIN dirty \subseteq Caller /\ pass \in PassSet
    BY DEF PassInv, PassTypes
  <1>2. PICK written : written = Upon(Row(r, MarkerOf(good)), dirty)
    OBVIOUS
  <1>3. DOMAIN written = {r} \cup DOMAIN dirty
    BY <1>2 DEF Upon, Row
  <1>4. PICK committed : committed = Upon(written, marker)
    OBVIOUS
  <1>5. \A x \in Caller : x \notin DOMAIN written => committed[x] = marker[x]
    BY <1>1, <1>4 DEF Upon
  <1>6. CASE /\ marker' = committed /\ dirty' = <<>>
             /\ recorded' = recorded \cup ups /\ upserts' = {}
             /\ Become(r, "done", good)
             /\ UNCHANGED <<bvars, pass, faults>>
    <2>1. DOMAIN dirty' = {}
      BY <1>6
    <2>2. "done" \in Running \cup Over
      BY DEF Over
    <2>3. /\ Become(r, "done", good) /\ UNCHANGED <<bvars, pass>>
          /\ \A x \in Caller : x # r => /\ (x \in upserts' => x \in upserts)
                                        /\ (x \in DOMAIN dirty' => x \in DOMAIN dirty)
      BY <1>6, <2>1
    <2>4. TracesInv'
      BY <2>2, <2>3, ServedRowTraces
    <2>5. Untouched
      BY <1>3, <1>5, <1>6, <2>1 DEF Untouched
    <2>6. QED
      BY <2>4, <2>5
  <1>7. CASE /\ faults < MaxFaults /\ faults' = faults + 1
             /\ marker' = committed
             /\ Exit("failure")
             /\ UNCHANGED <<recorded, task>>
    <2>1. /\ Reopen /\ pass'.pc = "down" /\ upserts' = {} /\ dirty' = <<>> /\ DOMAIN dirty' = {}
      BY <1>1, <1>7, PassFacts DEF Exit, Reopen
    <2>2. TracesInv'
      BY <2>1, ReopenTraces
    <2>3. Untouched
      BY <1>3, <1>5, <1>7, <2>1 DEF Untouched
    <2>4. QED
      BY <2>2, <2>3
  <1>8. CASE /\ faults < MaxFaults /\ faults' = faults + 1
             /\ \/ dirty' \in {dirty, written} /\ UNCHANGED marker
                \/ dirty' = <<>> /\ marker' = committed
             /\ upserts' = ups
             /\ Become(r, "error", good)
             /\ UNCHANGED <<bvars, recorded, pass>>
    <2>0. DOMAIN <<>> = {}
      OBVIOUS
    <2>1. "error" \in Running \cup Over
      BY DEF Over
    <2>2. /\ Become(r, "error", good) /\ UNCHANGED <<bvars, pass>>
          /\ \A x \in Caller : x # r => /\ (x \in upserts' => x \in upserts)
                                        /\ (x \in DOMAIN dirty' => x \in DOMAIN dirty)
      BY <1>3, <1>8, <2>0
    <2>3. TracesInv'
      BY <2>1, <2>2, ServedRowTraces
    <2>4. Untouched
      <3>1. \A x \in Caller : x # r /\ x \notin DOMAIN dirty => marker'[x] = marker[x]
        BY <1>3, <1>5, <1>8
      <3>2. QED
        BY <1>8, <2>2, <3>1 DEF Untouched
    <2>5. QED
      BY <2>3, <2>4
  <1>9. QED
    BY <1>2, <1>4, <1>6, <1>7, <1>8 DEF Write

\* A row that starts asks the batcher, or needs nothing of it.
LEMMA BeginTraces ==
    ASSUME CollectorInv, NEW r \in Caller, Begin(r)
    PROVE  BInv' /\ TracesInv' /\ Untouched
  <1>1. /\ pass.pc = "gather" /\ At(r) = "start" /\ At(r) \in Running
        /\ PassInv /\ TracesInv /\ BInv
        /\ {"translate", "lookup"} \subseteq Running
    BY DEF CollectorInv, Begin, Running
  <1>2. CASE NeedsOf[r] = {}
    <2>1. PICK ups : ups = upserts
      OBVIOUS
    <2>2. Served(r)
      BY <1>2 DEF Served
    <2>3. \/ Write(r, TRUE, ups)
          \/ /\ Become(r, "translate", TRUE) /\ upserts' = ups
             /\ UNCHANGED <<bvars, marker, dirty, recorded, pass, faults>>
      BY <1>2, <2>1 DEF Begin, TranslateOrWrite, Write
    <2>4. CASE Write(r, TRUE, ups)
      <3>1. TracesInv' /\ Untouched
        BY <1>1, <2>1, <2>2, <2>4, WriteTraces
      <3>2. Reopen \/ UNCHANGED bvars
        BY <2>4 DEF Write, Exit
      <3>3. QED
        BY <1>1, <3>1, <3>2, ReopenBatcher, StepInv
    <2>5. CASE /\ Become(r, "translate", TRUE) /\ upserts' = ups
               /\ UNCHANGED <<bvars, marker, dirty, recorded, pass, faults>>
      <3>1. TracesInv'
        BY <1>1, <2>1, <2>2, <2>5, ServedRowTraces
      <3>2. Untouched
        BY <2>1, <2>5 DEF Untouched
      <3>3. QED
        BY <1>1, <2>5, <3>1, <3>2, StepInv
    <2>6. QED
      BY <2>3, <2>4, <2>5
  <1>3. CASE NeedsOf[r] # {}
    <2>1. /\ Request(r) /\ Become(r, "lookup", TRUE)
          /\ UNCHANGED <<marker, dirty, recorded, upserts, pass, faults>>
      BY <1>3 DEF Begin
    <2>2. /\ answer[r] = Service!Idle /\ answer \in [Caller -> Service!Answer]
          /\ answer' = [answer EXCEPT ![r] = Service!Waiting]
      BY <1>1, <2>1 DEF Request, BInv, BTypeOK
    <2>3. ~Served(r)
      BY <1>3, <2>2, AnswerShapes DEF Served
    <2>4. /\ task \in [Caller -> TaskSet]
          /\ task' = [task EXCEPT ![r] = [at |-> "lookup", good |-> TRUE]]
      BY <1>1, <2>1 DEF PassInv, PassTypes, Become
    <2>5. At(r)' = "lookup" /\ \A x \in Caller : x # r => At(x)' = At(x)
      BY <2>4 DEF At
    <2>6. ASSUME NEW x \in Caller
          PROVE  /\ NeedsOf[x] = {} => answer'[x] = Service!Idle
                 /\ \/ x \in upserts' \/ x \in DOMAIN dirty'
                    \/ pass'.pc = "gather" /\ At(x)' = "translate"
                    => Served(x)'
                 /\ pass'.pc # "down" /\ At(x)' \in Running => pass'.pc = "gather" /\ x \in pass'.group
      <3>1. CASE x = r
        <4>1. x \notin upserts /\ x \notin DOMAIN dirty /\ x \in pass.group
          BY <1>1, <2>3, <3>1 DEF TracesInv
        <4>2. QED
          BY <1>1, <1>3, <2>1, <2>5, <3>1, <4>1
      <3>2. CASE x # r
        <4>1. answer'[x] = answer[x] /\ At(x)' = At(x) /\ (Served(x)' <=> Served(x))
          BY <2>2, <2>5, <3>2 DEF Served
        <4>2. QED
          BY <1>1, <2>1, <4>1 DEF TracesInv
      <3>3. QED
        BY <3>1, <3>2
    <2>7. TracesInv'
      BY <2>6 DEF TracesInv
    <2>8. Untouched
      BY <2>1 DEF Untouched
    <2>9. QED
      BY <1>1, <2>1, <2>7, <2>8, StepInv DEF BNext
  <1>4. QED
    BY <1>2, <1>3

LEMMA LookupRaisesTraces ==
    ASSUME CollectorInv, NEW r \in Caller, LookupRaises(r)
    PROVE  BInv' /\ TracesInv' /\ Untouched
  <1>1. /\ UNCHANGED <<bvars, marker, dirty, recorded, upserts, pass>>
        /\ PassInv /\ TracesInv /\ BInv
    BY DEF CollectorInv, LookupRaises
  <1>2. Become(r, "quota", FALSE) \/ Become(r, "error", FALSE)
    BY DEF LookupRaises, Become
  <1>3. PICK state \in {"quota", "error"} : task' = [task EXCEPT ![r] = [at |-> state, good |-> FALSE]]
    BY <1>2 DEF Become
  <1>4. task \in [Caller -> TaskSet]
    BY <1>1 DEF PassInv, PassTypes
  <1>5. At(r)' \in {"quota", "error"} /\ \A x \in Caller : x # r => At(x)' = At(x)
    BY <1>3, <1>4 DEF At
  <1>6. \A x \in Caller : At(x)' \in Running => At(x)' = At(x)
    BY <1>5 DEF Running
  <1>7. answer' = answer /\ \A x \in Caller : Served(x)' <=> Served(x)
    BY <1>1 DEF bvars, Served
  <1>8. \A x \in Caller : At(x)' = "translate" => At(x) = "translate"
    BY <1>5
  <1>9. TracesInv'
    BY <1>1, <1>6, <1>7, <1>8 DEF TracesInv
  <1>10. Untouched
    BY <1>1 DEF Untouched
  <1>11. QED
    BY <1>1, <1>9, <1>10, StepInv

LEMMA LookupReturnsTraces ==
    ASSUME CollectorInv, NEW r \in Caller, LookupReturns(r)
    PROVE  BInv' /\ TracesInv' /\ Untouched
  <1>1. /\ pass.pc = "gather" /\ At(r) \in Running /\ "translate" \in Running
        /\ PassInv /\ TracesInv /\ BInv
    BY DEF CollectorInv, LookupReturns, Running
  <1>2. Served(r)
    BY DEF LookupReturns, Served
  <1>3. PICK ups : ups = upserts \cup {r}
    OBVIOUS
  <1>4. \E good \in {FALSE, answer[r].status = "ok"} :
          \/ Write(r, good, ups)
          \/ /\ Become(r, "translate", good) /\ upserts' = ups
             /\ UNCHANGED <<bvars, marker, dirty, recorded, pass, faults>>
    BY <1>3 DEF LookupReturns, TranslateOrWrite, Write
  <1>5. PICK good : \/ Write(r, good, ups)
                    \/ /\ Become(r, "translate", good) /\ upserts' = ups
                       /\ UNCHANGED <<bvars, marker, dirty, recorded, pass, faults>>
    BY <1>4
  <1>6. \A x \in Caller : x # r /\ x \in ups => x \in upserts
    BY <1>3
  <1>7. CASE Write(r, good, ups)
    <2>1. TracesInv' /\ Untouched
      BY <1>1, <1>2, <1>6, <1>7, WriteTraces
    <2>2. Reopen \/ UNCHANGED bvars
      BY <1>7 DEF Write, Exit
    <2>3. QED
      BY <1>1, <2>1, <2>2, ReopenBatcher, StepInv
  <1>8. CASE /\ Become(r, "translate", good) /\ upserts' = ups
             /\ UNCHANGED <<bvars, marker, dirty, recorded, pass, faults>>
    <2>1. TracesInv'
      BY <1>1, <1>2, <1>6, <1>8, ServedRowTraces
    <2>2. Untouched
      BY <1>2, <1>6, <1>8 DEF Untouched
    <2>3. QED
      BY <1>1, <1>8, <2>1, <2>2, StepInv
  <1>9. QED
    BY <1>5, <1>7, <1>8

LEMMA TranslationReturnsTraces ==
    ASSUME CollectorInv, NEW r \in Caller, TranslationReturns(r)
    PROVE  BInv' /\ TracesInv' /\ Untouched
  <1>1. /\ pass.pc = "gather" /\ At(r) = "translate" /\ At(r) \in Running
        /\ PassInv /\ TracesInv /\ BInv
    BY DEF CollectorInv, TranslationReturns, Running
  <1>2. Served(r)
    BY <1>1 DEF TracesInv
  <1>3. PICK ups : ups = upserts \cup {r}
    OBVIOUS
  <1>4. PICK translated \in BOOLEAN : Write(r, task[r].good /\ translated, upserts \cup {r})
    BY DEF TranslationReturns
  <1>5. task[r].good \in BOOLEAN
    BY <1>1 DEF PassInv, PassTypes, TaskSet
  <1>6. PICK good \in BOOLEAN : good = (task[r].good /\ translated)
    BY <1>5
  <1>7. Write(r, good, ups)
    BY <1>3, <1>4, <1>6 DEF Write
  <1>8. TracesInv' /\ Untouched
    BY <1>1, <1>2, <1>3, <1>7, WriteTraces
  <1>9. Reopen \/ UNCHANGED bvars
    BY <1>7 DEF Write, Exit
  <1>10. QED
    BY <1>1, <1>8, <1>9, ReopenBatcher, StepInv

\* A pass is opened or left.
LEMMA ReopenUntouched ==
    ASSUME CollectorInv, Reopen, UNCHANGED <<marker, recorded>>,
           pass'.pc \in {"down", "select"},
           pass'.pc = "select" => task' = [r \in Caller |-> Unread]
    PROVE  BInv' /\ TracesInv' /\ Untouched
  <1>1. upserts' = {} /\ dirty' = <<>> /\ DOMAIN dirty' = {}
    BY DEF Reopen
  <1>2. Untouched
    BY <1>1 DEF Untouched
  <1>3. QED
    BY <1>2, ReopenBatcher, ReopenTraces DEF CollectorInv

LEMMA PassStepTraces ==
    ASSUME CollectorInv, Start \/ Die \/ PassStep
    PROVE  BInv' /\ TracesInv' /\ Untouched
  <1>1. PassInv /\ TracesInv /\ BInv /\ pass \in PassSet /\ task \in [Caller -> TaskSet]
    BY DEF CollectorInv, PassInv, PassTypes
  <1>2. ASSUME NEW profile, NEW limit, Open(profile, limit), UNCHANGED <<marker, recorded>>
        PROVE  BInv' /\ TracesInv' /\ Untouched
    BY <1>2, ReopenUntouched DEF Open, Down
  <1>3. ASSUME NEW status, Exit(status), UNCHANGED <<marker, recorded, task>>
        PROVE  BInv' /\ TracesInv' /\ Untouched
    BY <1>1, <1>3, PassFacts, ReopenUntouched DEF Exit
  <1>4. CASE Start
    BY <1>2, <1>4 DEF Start
  <1>5. CASE Die
    BY <1>3, <1>5 DEF Die
  <1>6. CASE EndPass
    <2>1. CASE pass.profile = "core"
      <3>1. PICK limit : limit = pass.limit
        OBVIOUS
      <3>2. Open("deep", limit) /\ UNCHANGED <<marker, recorded>>
        BY <1>6, <2>1, <3>1 DEF EndPass, Open
      <3>3. QED
        BY <1>2, <3>2
    <2>2. CASE pass.profile # "core"
      <3>1. Exit("success") /\ UNCHANGED <<marker, recorded, task>>
        BY <1>6, <2>2 DEF EndPass
      <3>2. QED
        BY <1>3, <3>1
    <2>3. QED
      BY <2>1, <2>2
  <1>7. CASE SelectGroup
    <2>1. /\ pass.pc = "select" /\ pass'.pc = "gather"
          /\ task' = [r \in Caller |-> IF r \in pass'.group
                                       THEN [at |-> "start", good |-> TRUE] ELSE task[r]]
          /\ UNCHANGED <<bvars, marker, dirty, recorded, upserts>>
      BY <1>1, <1>7, PassFacts DEF SelectGroup, FlushGroup
    <2>2. \A r \in Caller : At(r)' = IF r \in pass'.group THEN "start" ELSE At(r)
      BY <2>1 DEF At
    <2>3. \A r \in Caller : At(r) \notin Running
      BY <1>1, <2>1 DEF TracesInv
    <2>4. "translate" \in Running
      BY DEF Running
    <2>5. \A r \in Caller : At(r)' # "translate"
      BY <2>2, <2>3, <2>4
    <2>6. answer' = answer /\ \A r \in Caller : Served(r)' <=> Served(r)
      BY <2>1 DEF bvars, Served
    <2>7. TracesInv'
      BY <1>1, <2>1, <2>2, <2>3, <2>5, <2>6 DEF TracesInv
    <2>8. Untouched
      BY <2>1 DEF Untouched
    <2>9. QED
      BY <1>1, <2>1, <2>7, <2>8, StepInv
  <1>8. CASE EndGroup
    <2>1. CASE \E r \in pass.group : At(r) = "quota"
      <3>1. Exit("failure") /\ UNCHANGED <<marker, recorded, task>>
        BY <1>8, <2>1 DEF EndGroup
      <3>2. QED
        BY <1>3, <3>1
    <2>2. CASE ~\E r \in pass.group : At(r) = "quota"
      <3>1. /\ UNCHANGED <<bvars, marker, dirty, recorded, upserts, task>>
            /\ pass'.pc = "select" /\ pass.pc = "gather"
            /\ \A r \in pass.group : At(r) \in Over
        BY <1>1, <1>8, <2>2, PassFacts DEF EndGroup
      <3>2. \A r \in Caller : At(r) \notin Running
        BY <1>1, <3>1 DEF TracesInv, Running, Over
      <3>3. answer' = answer /\ \A r \in Caller : (Served(r)' <=> Served(r)) /\ At(r)' = At(r)
        BY <3>1 DEF bvars, Served, At
      <3>4. TracesInv'
        BY <1>1, <3>1, <3>2, <3>3 DEF TracesInv
      <3>5. Untouched
        BY <3>1 DEF Untouched
      <3>6. QED
        BY <1>1, <3>1, <3>4, <3>5, StepInv
    <2>3. QED
      BY <2>1, <2>2
  <1>9. QED
    BY <1>4, <1>5, <1>6, <1>7, <1>8 DEF PassStep

LEMMA FlusherTraces ==
    ASSUME CollectorInv, RunFlusher
    PROVE  BInv' /\ TracesInv' /\ Untouched
  <1>1. /\ UNCHANGED <<marker, dirty, recorded, upserts, task, pass>>
        /\ PassInv /\ TracesInv /\ BInv
    BY DEF CollectorInv, RunFlusher
  <1>2. Take \/ Retry \/ \E reply \in Reply(TermsOf(flusher.batch)) : Respond(reply)
    BY DEF RunFlusher
  <1>3. \A c \in Caller : answer[c] # Service!Waiting => answer'[c] = answer[c]
    BY <1>1, <1>2, FlushAnswers
  <1>4. \A r \in Caller : Served(r) => Served(r)'
    BY <1>3, AnswerShapes DEF Served
  <1>5. \A r \in Caller : At(r)' = At(r)
    BY <1>1 DEF At
  <1>6. TracesInv'
    BY <1>1, <1>3, <1>4, <1>5, AnswerShapes DEF TracesInv
  <1>7. Untouched
    BY <1>1 DEF Untouched
  <1>8. BInv'
    BY <1>1, <1>2, StepInv DEF BNext, Flush
  <1>9. QED
    BY <1>6, <1>7, <1>8

LEMMA CollectorStep ==
    ASSUME CollectorInv, [Next]_vars
    PROVE  BInv' /\ TracesInv' /\ Untouched
  <1>1. CASE Start \/ Die \/ PassStep
    BY <1>1, PassStepTraces
  <1>2. CASE RunFlusher
    BY <1>2, FlusherTraces
  <1>3. ASSUME NEW r \in Caller, RowStep(r) PROVE BInv' /\ TracesInv' /\ Untouched
    BY <1>3, BeginTraces, LookupRaisesTraces, LookupReturnsTraces, TranslationReturnsTraces
       DEF RowStep
  <1>4. CASE UNCHANGED vars
    <2>1. UNCHANGED <<bvars, marker, dirty, recorded, upserts, task, pass>>
      BY <1>4 DEF vars, cvars
    <2>2. TracesInv'
      BY <2>1 DEF CollectorInv, TracesInv, Served, At, bvars
    <2>3. Untouched
      BY <2>1 DEF Untouched
    <2>4. QED
      BY <2>1, <2>2, <2>3, StepInv DEF CollectorInv
  <1>5. QED
    BY <1>1, <1>2, <1>3, <1>4 DEF Next

(* A row that a quota refusal stopped has left no trace, and no other row of its
   group leaves one for it: neither a marker nor provider state, committed or on a
   connection that others commit (enrich_oxford_scope.py:1311-1330, 2084-2134). *)
THEOREM ThrottledRowsAreUntouched == Spec => ThrottledRowsUntouched
  <1>1. CInit => CollectorInv
    <2> SUFFICES ASSUME CInit PROVE CollectorInv
      OBVIOUS
    <2>1. BInv /\ PassInv
      BY InitInv, PassInit DEF CInit
    <2>2. /\ answer = [c \in Caller |-> Service!Idle] /\ upserts = {} /\ dirty = <<>>
          /\ DOMAIN dirty = {} /\ pass.pc = "down"
      BY DEF CInit, BInit, Down
    <2>3. TracesInv
      BY <2>2 DEF TracesInv
    <2>4. QED
      BY <2>1, <2>3 DEF CollectorInv
  <1>2. CollectorInv /\ [Next]_vars /\ PassInv' => CollectorInv'
    BY CollectorStep DEF CollectorInv
  <1>3. CollectorInv /\ [Next]_vars =>
          [\A r \in Caller :
              (pass.pc = "gather" /\ r \in pass.group /\ At(r) # "translate"
                  /\ answer[r] \in Service!Failure)
              => /\ marker'[r] = marker[r] /\ (r \in recorded' => r \in recorded)
                 /\ r \notin upserts' /\ r \notin DOMAIN dirty']_vars
    <2> SUFFICES ASSUME CollectorInv, [Next]_vars, NEW r \in Caller,
                        answer[r] \in Service!Failure
                 PROVE  /\ marker'[r] = marker[r] /\ (r \in recorded' => r \in recorded)
                        /\ r \notin upserts' /\ r \notin DOMAIN dirty'
      OBVIOUS
    <2>1. ~Served(r)
      BY AnswerShapes DEF CollectorInv, TracesInv, Served
    <2>2. r \notin upserts /\ r \notin DOMAIN dirty
      BY <2>1 DEF CollectorInv, TracesInv
    <2>3. QED
      BY <2>1, <2>2, CollectorStep DEF Untouched
  <1>4. QED
    BY <1>1, <1>2, <1>3, PassInvariant, PTL DEF Spec, ThrottledRowsUntouched

-------------------------------------------------------------------------------
(* EdgeTranslationBatcher.                                                 *)

Chunk == Text \X Nat

LEMMA ChunksFacts ==
    ASSUME NEW c \in Text
    PROVE  /\ Chunks(c) \in Seq(Chunk) /\ Len(Chunks(c)) = ChunksOf[c] /\ ChunksOf[c] \in Nat
           /\ \A i \in 1 .. ChunksOf[c] : Chunks(c)[i] = <<c, i>>
  <1>1. ChunksOf[c] \in Nat
    BY TranslationConstants
  <1>2. Chunks(c) \in [1 .. ChunksOf[c] -> Chunk]
    BY <1>1 DEF Chunks, Chunk
  <1>3. QED
    BY <1>1, <1>2, IsASeq, LenProperties DEF Chunks

\* The chunks of a batch are those of all but its last caller, and then that one's.
LEMMA TextsStep ==
    ASSUME NEW batch \in Seq(Text), NEW n \in Nat \ {0}, n <= Len(batch)
    PROVE  TextsOf(SubSeq(batch, 1, n)) = IF n = 1 THEN Chunks(batch[1])
                                          ELSE TextsOf(SubSeq(batch, 1, n - 1)) \o Chunks(batch[n])
  <1> DEFINE whole == [i \in 1 .. n |-> Chunks(batch[i])]
             front == [i \in 1 .. n - 1 |-> Chunks(batch[i])]
  <1>1. /\ SubSeq(batch, 1, n) = [i \in 1 .. n |-> batch[i]]
        /\ SubSeq(batch, 1, n - 1) = [i \in 1 .. n - 1 |-> batch[i]]
    BY SubSeqProperties
  <1>2. TextsOf(SubSeq(batch, 1, n)) = FlattenSeq(whole)
    BY <1>1 DEF TextsOf
  <1>3. TextsOf(SubSeq(batch, 1, n - 1)) = FlattenSeq(front)
    BY <1>1 DEF TextsOf
  <1>4. \A i \in 1 .. n : batch[i] \in Text
    BY ElementOfSeq
  <1>5. \A i \in 1 .. n : Chunks(batch[i]) \in Seq(Chunk)
    BY <1>4, ChunksFacts
  <1>6. /\ whole \in Seq(Seq(Chunk)) /\ Len(whole) = n
        /\ front \in Seq(Seq(Chunk)) /\ Len(front) = n - 1
        /\ whole[1] = Chunks(batch[1]) /\ whole[n] = Chunks(batch[n])
        /\ \A i \in 1 .. n - 1 : front[i] = whole[i]
    BY <1>5
  <1> HIDE DEF whole, front
  <1>7. FlattenSeq(whole) = IF n = 1 THEN whole[1] ELSE FlattenSeq(front) \o whole[n]
    BY <1>6, FlattenStep
  <1>8. QED
    BY <1>2, <1>3, <1>6, <1>7

\* The chunks of the first n callers of a batch.
Upto(batch, n) == TextsOf(SubSeq(batch, 1, n))

LEMMA UptoNone == ASSUME NEW batch \in Seq(Text) PROVE Upto(batch, 0) = <<>>
  <1>1. SubSeq(batch, 1, 0) = <<>>
    BY SubSeqEmpty
  <1>2. [i \in DOMAIN <<>> |-> Chunks(<<>>[i])] = <<>>
    OBVIOUS
  <1>3. FlattenSeq(<<>>) = <<>>
    BY DEF FlattenSeq
  <1>4. QED
    BY <1>1, <1>2, <1>3 DEF Upto, TextsOf

LEMMA UptoNext ==
    ASSUME NEW batch \in Seq(Text), NEW n \in Nat \ {0}, n <= Len(batch)
    PROVE  Upto(batch, n) = Upto(batch, n - 1) \o Chunks(batch[n])
  <1>1. CASE n = 1
    <2>1. Chunks(batch[1]) \in Seq(Chunk)
      BY <1>1, ElementOfSeq, ChunksFacts
    <2>2. <<>> \o Chunks(batch[1]) = Chunks(batch[1])
      BY <2>1, ConcatEmptySeq
    <2>3. n - 1 = 0
      BY <1>1
    <2>4. QED
      BY <1>1, <2>2, <2>3, UptoNone, TextsStep DEF Upto
  <1>2. CASE n # 1
    BY <1>2, TextsStep DEF Upto
  <1>3. QED
    BY <1>1, <1>2

\* Each caller has its chunks whole and in order, right after those before it.
HasPlace(batch, n, i) ==
    /\ Len(Upto(batch, i - 1)) \in Nat
    /\ Len(Upto(batch, i - 1)) + ChunksOf[batch[i]] <= Len(Upto(batch, n))
    /\ \A j \in 1 .. ChunksOf[batch[i]] :
          Upto(batch, n)[Len(Upto(batch, i - 1)) + j] = <<batch[i], j>>

LEMMA UptoPlaces ==
    ASSUME NEW batch \in Seq(Text), NEW n \in 0 .. Len(batch)
    PROVE  Upto(batch, n) \in Seq(Chunk) /\ \A i \in 1 .. n : HasPlace(batch, n, i)
  <1> DEFINE Placed(m) == Upto(batch, m) \in Seq(Chunk) /\ \A i \in 1 .. m : HasPlace(batch, m, i)
             Bad == {m \in 0 .. Len(batch) : ~Placed(m)}
  <1>1. SUFFICES ASSUME Bad # {} PROVE FALSE
    OBVIOUS
  <1>2. Bad \subseteq Nat
    BY LenProperties
  <1>3. PICK m \in Bad : \A k \in Bad : m <= k
    <2> HIDE DEF Bad
    <2> QED
      BY <1>1, <1>2, LeastNumber
  <1>4. m \in 0 .. Len(batch) /\ ~Placed(m)
    BY <1>3
  <1>5. CASE m = 0
    <2>1. <<>> \in Seq(Chunk)
      BY EmptySeq
    <2>2. Upto(batch, 0) \in Seq(Chunk)
      BY <2>1, UptoNone
    <2>3. QED
      BY <1>4, <1>5, <2>2
  <1>6. CASE m # 0
    <2>1. PICK k \in 0 .. Len(batch) : k = m - 1
      BY <1>4, <1>6
    <2>2. Placed(k)
      BY <1>3, <2>1
    <2>3. m \in Nat \ {0} /\ m <= Len(batch) /\ m \in 1 .. Len(batch) /\ k \in Nat
      BY <1>4, <1>6, <2>1, LenProperties
    <2> DEFINE before == Upto(batch, k)
               own == Chunks(batch[m])
    <2>4. Upto(batch, m) = before \o own
      BY <2>1, <2>3, UptoNext
    <2>5. batch[m] \in Text
      BY <2>3, ElementOfSeq
    <2>6. /\ own \in Seq(Chunk) /\ Len(own) = ChunksOf[batch[m]] /\ ChunksOf[batch[m]] \in Nat
          /\ \A j \in 1 .. ChunksOf[batch[m]] : own[j] = <<batch[m], j>>
      BY <2>5, ChunksFacts
    <2>7. before \in Seq(Chunk)
      BY <2>2
    <2>8. /\ before \o own \in Seq(Chunk) /\ Len(before) \in Nat
          /\ Len(before \o own) = Len(before) + ChunksOf[batch[m]]
          /\ \A j \in 1 .. Len(before) : (before \o own)[j] = before[j]
          /\ \A j \in 1 .. ChunksOf[batch[m]] : (before \o own)[Len(before) + j] = own[j]
      <3> HIDE DEF before, own
      <3>1. Len(before) \in Nat
        BY <2>7, LenProperties
      <3>2. before \o own \in Seq(Chunk) /\ Len(before \o own) = Len(before) + Len(own)
        BY <2>6, <2>7, ConcatProperties
      <3>3. \A j \in 1 .. Len(before) : (before \o own)[j] = before[j]
        BY <2>6, <2>7
      <3>4. \A j \in 1 .. ChunksOf[batch[m]] : (before \o own)[Len(before) + j] = own[j]
        BY <2>6, <2>7
      <3>5. QED
        BY <2>6, <3>1, <3>2, <3>3, <3>4
    <2>9. HasPlace(batch, m, m)
      BY <2>1, <2>4, <2>6, <2>8 DEF HasPlace
    <2>10. ASSUME NEW i \in 1 .. k PROVE HasPlace(batch, m, i)
      <3>1. HasPlace(batch, k, i)
        BY <2>2
      <3>2. i \in 1 .. Len(batch)
        BY <2>1, <2>3
      <3>3. batch[i] \in Text /\ ChunksOf[batch[i]] \in Nat
        BY <3>2, ElementOfSeq, ChunksFacts
      <3>4. PICK first \in Nat : first = Len(Upto(batch, i - 1))
        BY <3>1 DEF HasPlace
      <3>5. /\ first + ChunksOf[batch[i]] <= Len(before)
            /\ \A j \in 1 .. ChunksOf[batch[i]] : before[first + j] = <<batch[i], j>>
        BY <3>1, <3>4 DEF HasPlace
      <3>6. \A j \in 1 .. ChunksOf[batch[i]] : first + j \in 1 .. Len(before)
        BY <2>8, <3>3, <3>5
      <3>7. \A j \in 1 .. ChunksOf[batch[i]] : (before \o own)[first + j] = <<batch[i], j>>
        BY <2>8, <3>5, <3>6
      <3>8. first + ChunksOf[batch[i]] <= Len(before \o own)
        BY <2>6, <2>8, <3>3, <3>5
      <3>9. QED
        BY <2>4, <3>4, <3>7, <3>8 DEF HasPlace
    <2>11. Upto(batch, m) \in Seq(Chunk)
      BY <2>4, <2>8
    <2>12. \A i \in 1 .. m : i \in 1 .. k \/ i = m
      BY <2>1, <2>3
    <2>13. Placed(m)
      BY <2>9, <2>10, <2>11, <2>12
    <2>14. QED
      BY <1>4, <2>13
  <1>7. QED
    BY <1>5, <1>6

-----------------------------------------------------------------------------
(* The Worker, which leaves no chunk out if none is too wide.              *)

IsAccepted(f, texts, n) ==
    f = [i \in 0 .. n |-> IF i = 0 THEN <<>>
                          ELSE IF texts[i] \in Wide THEN f[i - 1] ELSE Append(f[i - 1], texts[i])]

LEMMA AllAccepted ==
    ASSUME Wide = {}, NEW S, NEW texts \in Seq(S) PROVE Accepted(texts) = texts
  <1> DEFINE f == [i \in 0 .. Len(texts) |-> SubSeq(texts, 1, i)]
  <1>1. Len(texts) \in Nat
    BY LenProperties
  <1>2. ASSUME NEW i \in 1 .. Len(texts)
        PROVE  SubSeq(texts, 1, i) = Append(SubSeq(texts, 1, i - 1), texts[i])
    BY <1>2, SubSeqRecursiveSecond
  <1>3. SubSeq(texts, 1, 0) = <<>>
    BY SubSeqEmpty
  <1>4. \A i \in 0 .. Len(texts) : f[i] = IF i = 0 THEN <<>>
             ELSE IF texts[i] \in Wide THEN f[i - 1] ELSE Append(f[i - 1], texts[i])
    BY <1>1, <1>2, <1>3
  <1>5. IsAccepted(f, texts, Len(texts))
    BY <1>4 DEF IsAccepted
  <1> DEFINE g == CHOOSE h : IsAccepted(h, texts, Len(texts))
  <1>6. IsAccepted(g, texts, Len(texts))
    BY <1>5
  <1>7. Accepted(texts) = g[Len(texts)]
    BY DEF Accepted, IsAccepted
  <1>8. \A i \in 0 .. Len(texts) : g[i] = IF i = 0 THEN <<>>
             ELSE IF texts[i] \in Wide THEN g[i - 1] ELSE Append(g[i - 1], texts[i])
    <2> DEFINE step(i) == IF i = 0 THEN <<>>
             ELSE IF texts[i] \in Wide THEN g[i - 1] ELSE Append(g[i - 1], texts[i])
    <2>1. g = [i \in 0 .. Len(texts) |-> step(i)]
      BY <1>6 DEF IsAccepted
    <2> HIDE DEF step, g
    <2>2. \A i \in 0 .. Len(texts) : g[i] = step(i)
      BY <2>1
    <2>3. QED
      BY <2>2 DEF step
  <1> DEFINE Bad == {i \in 0 .. Len(texts) : g[i] # f[i]}
  <1> HIDE DEF g, f
  <1>9. Bad = {}
    <2>1. SUFFICES ASSUME Bad # {} PROVE FALSE
      OBVIOUS
    <2>2. Bad \subseteq Nat
      BY <1>1
    <2>3. PICK i \in Bad : \A j \in Bad : i <= j
      <3> HIDE DEF Bad
      <3> QED
        BY <2>1, <2>2, LeastNumber
    <2>4. i \in 0 .. Len(texts) /\ g[i] # f[i]
      BY <2>3
    <2>5. i # 0 => i - 1 \in 0 .. Len(texts) /\ i - 1 \notin Bad
      BY <1>1, <2>3, <2>4
    <2>6. i # 0 => g[i - 1] = f[i - 1]
      BY <2>5
    <2>7. QED
      BY <1>4, <1>8, <2>4, <2>6
  <1>10. Len(texts) \in 0 .. Len(texts)
    BY <1>1
  <1>11. g[Len(texts)] = f[Len(texts)]
    BY <1>9, <1>10
  <1>12. f[Len(texts)] = SubSeq(texts, 1, Len(texts))
    BY <1>10 DEF f
  <1>13. QED
    BY <1>7, <1>11, <1>12, SubSeqFull

-----------------------------------------------------------------------------
(* The batcher.                                                            *)

\* What is known of the chunks `texts`: of each its own translation, or none.
Known(got, texts) ==
    /\ DOMAIN got = 1 .. Len(got) /\ Len(got) \in Nat /\ Len(got) <= Len(texts)
    /\ \A i \in 1 .. Len(got) : got[i].value \in {texts[i], Missing}

TransInv ==
    /\ waiting \in Seq(Text) /\ DOMAIN translation = Text
    /\ translator.pc \in {"none", "flush", "post"}
    /\ translator.pc = "post" =>
          /\ translator.batch \in Seq(Text) /\ \E V : translator.got \in Seq(V)
          /\ Known(translator.got, TextsOf(translator.batch))
    /\ AnswersOwnText

\* The chunks of a whole batch.
LEMMA TextsPlace ==
    ASSUME NEW batch \in Seq(Text), NEW i \in DOMAIN batch
    PROVE  LET before == Len(TextsOf(SubSeq(batch, 1, i - 1)))
           IN /\ before \in Nat /\ ChunksOf[batch[i]] \in Nat
              /\ before + ChunksOf[batch[i]] <= Len(TextsOf(batch))
              /\ \A j \in 1 .. ChunksOf[batch[i]] : TextsOf(batch)[before + j] = <<batch[i], j>>
  <1>1. i \in 1 .. Len(batch) /\ Len(batch) \in 0 .. Len(batch) /\ Len(batch) \in Nat
    BY LenProperties
  <1>2. TextsOf(batch) = Upto(batch, Len(batch))
    BY SubSeqFull DEF Upto
  <1>3. HasPlace(batch, Len(batch), i)
    BY <1>1, UptoPlaces
  <1>4. ChunksOf[batch[i]] \in Nat
    BY <1>1, ElementOfSeq, ChunksFacts
  <1>5. QED
    BY <1>2, <1>3, <1>4 DEF HasPlace, Upto

LEMMA TextsType ==
    ASSUME NEW batch \in Seq(Text) PROVE TextsOf(batch) \in Seq(Chunk)
  <1>1. Len(batch) \in 0 .. Len(batch)
    BY LenProperties
  <1>2. QED
    BY <1>1, UptoPlaces, SubSeqFull DEF Upto

\* When all its chunks are known, each caller of a batch is answered as it should be.
LEMMA OwnAnswer ==
    ASSUME NEW batch \in Seq(Text), NEW V, NEW got \in Seq(V), Known(got, TextsOf(batch)),
           Len(got) >= Len(TextsOf(batch)), NEW i \in DOMAIN batch
    PROVE  Answered(OwnResults(batch, got, i)).value \in {<<>>, Chunks(batch[i])}
  <1> DEFINE texts == TextsOf(batch)
             own == OwnResults(batch, got, i)
  <1>1. PICK before \in Nat : before = Len(TextsOf(SubSeq(batch, 1, i - 1)))
    BY TextsPlace
  <1>2. PICK n \in Nat : n = ChunksOf[batch[i]]
    BY TextsPlace
  <1>3. /\ before + n <= Len(texts)
        /\ \A j \in 1 .. n : texts[before + j] = <<batch[i], j>>
    BY <1>1, <1>2, TextsPlace
  <1>4. own = SubSeq(got, before + 1, before + n)
    BY <1>1, <1>2 DEF OwnResults
  <1>5. Len(got) = Len(texts) /\ Len(got) \in Nat
    BY TextsType, LenProperties DEF Known
  <1>6. own = [j \in 1 .. n |-> got[before + j]]
    <2>1. SubSeq(got, before + 1, before + n)
            = [j \in 1 .. (before + n) - (before + 1) + 1 |-> got[j + (before + 1) - 1]]
      BY <1>3, <1>5, SubSeqProperties
    <2> QED
      BY <1>4, <2>1
  <1>7. \A j \in 1 .. n : own[j].value \in {<<batch[i], j>>, Missing}
    <2>1. \A j \in 1 .. n : before + j \in 1 .. Len(got)
      BY <1>3, <1>5
    <2>2. \A j \in 1 .. n : got[before + j].value \in {texts[before + j], Missing}
      BY <2>1 DEF Known
    <2>3. \A j \in 1 .. n : own[j] = got[before + j]
      BY <1>6
    <2>4. QED
      BY <1>3, <2>2, <2>3
  <1>8. Chunks(batch[i]) = [j \in 1 .. n |-> <<batch[i], j>>]
    BY <1>2 DEF Chunks
  <1> HIDE DEF own
  <1>9. ASSUME \A j \in DOMAIN own : own[j].value # Missing
        PROVE  [j \in DOMAIN own |-> own[j].value] = Chunks(batch[i])
    BY <1>6, <1>7, <1>8, <1>9
  <1>10. QED
    BY <1>9 DEF Answered, own

LEMMA TransInit == TInit => TransInv
  BY EmptySeq DEF TInit, TransInv, Asleep, NotCalled, AnswersOwnText

LEMMA RequestStep ==
    ASSUME TransInv, NEW c \in Text, RequestTranslation(c) PROVE TransInv'
  <1>1. waiting' \in Seq(Text)
    BY AppendProperties DEF TransInv, RequestTranslation
  <1>2. /\ DOMAIN translation' = Text
        /\ \A d \in Text : translation'[d] = IF d = c THEN Outstanding ELSE translation[d]
    BY DEF TransInv, RequestTranslation
  <1>3. AnswersOwnText'
    BY <1>2 DEF TransInv, AnswersOwnText, Outstanding
  <1>4. \/ translator' = translator
        \/ translator' = Awake
    BY DEF RequestTranslation
  <1>5. CASE translator' = Awake
    BY <1>1, <1>2, <1>3, <1>5 DEF TransInv, Awake, Asleep
  <1>6. CASE translator' = translator
    BY <1>1, <1>2, <1>3, <1>6 DEF TransInv, Known
  <1>7. QED
    BY <1>4, <1>5, <1>6

\* A batch whose chunks are all known is settled as it should be.
LEMMA SettleStep ==
    ASSUME TransInv, NEW batch \in Seq(Text), NEW V, NEW got \in Seq(V),
           Known(got, TextsOf(batch)), Len(got) >= Len(TextsOf(batch)),
           Settle(batch, got), waiting' \in Seq(Text)
    PROVE  TransInv'
  <1>1. translator' = Awake /\ DOMAIN translation' = Text
    BY DEF Settle
  <1>2. ASSUME NEW c \in Text, translation'[c].state = "answered"
        PROVE  translation'[c].value \in {<<>>, Chunks(c)}
    <2>1. CASE \E i \in DOMAIN batch : batch[i] = c
      <3>1. PICK i \in DOMAIN batch :
                   batch[i] = c /\ translation'[c] = Answered(OwnResults(batch, got, i))
        BY <2>1 DEF Settle
      <3>2. Answered(OwnResults(batch, got, i)).value \in {<<>>, Chunks(batch[i])}
        BY OwnAnswer
      <3>3. QED
        BY <3>1, <3>2
    <2>2. CASE ~\E i \in DOMAIN batch : batch[i] = c
      <3>1. translation'[c] = translation[c]
        BY <2>2 DEF Settle
      <3>2. QED
        BY <1>2, <3>1 DEF TransInv, AnswersOwnText
    <2>3. QED
      BY <2>1, <2>2
  <1>3. AnswersOwnText'
    BY <1>2 DEF AnswersOwnText, Chunks
  <1>4. QED
    BY <1>1, <1>3 DEF TransInv, Awake, Asleep

LEMMA TakeStep == ASSUME TransInv, TakeTexts PROVE TransInv'
  <1>1. PICK n : n = IF Len(waiting) < TBatchSize THEN Len(waiting) ELSE TBatchSize
    OBVIOUS
  <1>2. waiting \in Seq(Text) /\ Len(waiting) \in Nat
    BY LenProperties DEF TransInv
  <1>3. n \in 0 .. Len(waiting)
    BY <1>1, <1>2, TranslationConstants
  <1>4. PICK batch : batch = SubSeq(waiting, 1, n)
    OBVIOUS
  <1>5. batch \in Seq(Text)
    BY <1>2, <1>3, <1>4, SubSeqProperties
  <1>6. waiting' = SubSeq(waiting, n + 1, Len(waiting))
    BY <1>1 DEF TakeTexts
  <1>7. waiting' \in Seq(Text)
    BY <1>2, <1>3, <1>6, SubSeqProperties
  <1>8. \/ translator' = Asleep /\ UNCHANGED translation
        \/ TextsOf(batch) = <<>> /\ Settle(batch, <<>>)
        \/ translator' = [pc |-> "post", batch |-> batch, got |-> <<>>] /\ UNCHANGED translation
    BY <1>1, <1>4 DEF TakeTexts
  <1>9. Known(<<>>, TextsOf(batch)) /\ <<>> \in Seq(Text)
    BY <1>5, TextsType, LenProperties, EmptySeq DEF Known
  <1>10. CASE translator' = Asleep /\ UNCHANGED translation
    BY <1>7, <1>10 DEF TransInv, Asleep, AnswersOwnText, Chunks
  <1>11. CASE TextsOf(batch) = <<>> /\ Settle(batch, <<>>)
    <2>1. Len(<<>>) >= Len(TextsOf(batch))
      BY <1>11
    <2>2. QED
      BY <1>5, <1>7, <1>9, <1>11, <2>1, SettleStep
  <1>12. CASE /\ translator' = [pc |-> "post", batch |-> batch, got |-> <<>>]
              /\ UNCHANGED translation
    <2>1. AnswersOwnText'
      BY <1>12 DEF TransInv, AnswersOwnText, Chunks
    <2>2. QED
      BY <1>5, <1>7, <1>9, <1>12, <2>1 DEF TransInv, Known
  <1>13. QED
    BY <1>8, <1>10, <1>11, <1>12

\* A reply tells of each chunk of its slice its own translation, or none.
LEMMA ResultsFacts ==
    ASSUME Wide = {}, NEW slice \in Seq(Chunk), NEW outcome \in Outcomes(slice)
    PROVE  /\ DOMAIN Results(slice, outcome) = 1 .. Len(slice)
           /\ \A i \in 1 .. Len(slice) : Results(slice, outcome)[i].value \in {slice[i], Missing}
  <1>1. DOMAIN slice = 1 .. Len(slice) /\ Len(slice) \in Nat
    BY LenProperties
  <1>2. Accepted(slice) = slice
    BY AllAccepted
  <1>3. \/ outcome.translations \in Translations(slice)
        \/ outcome.translations = <<>>
    BY DEF Outcomes
  <1>4. \A i \in DOMAIN outcome.translations :
            outcome.translations[i] \in {slice[i], Missing}
    BY <1>2, <1>3 DEF Translations
  <1>5. QED
    BY <1>1, <1>4 DEF Results

LEMMA PostStep ==
    ASSUME Wide = {}, TransInv, NEW outcome \in Outcomes(Posted), PostAnswers(outcome)
    PROVE  TransInv'
  <1>1. PICK batch : batch = translator.batch
    OBVIOUS
  <1>2. PICK old : old = translator.got
    OBVIOUS
  <1>3. PICK texts : texts = TextsOf(batch)
    OBVIOUS
  <1>4. translator.pc = "post"
    BY DEF PostAnswers
  <1>5. PICK V : old \in Seq(V)
    BY <1>2, <1>4 DEF TransInv
  <1>6. batch \in Seq(Text) /\ Known(old, texts)
    BY <1>1, <1>2, <1>3, <1>4 DEF TransInv
  <1>7. texts \in Seq(Chunk) /\ Len(texts) \in Nat /\ Len(old) \in Nat /\ Len(old) <= Len(texts)
    BY <1>3, <1>6, TextsType, LenProperties DEF Known
  <1>8. PICK slice : slice = Slice(texts, Len(old))
    OBVIOUS
  <1>9. PICK last \in Nat :
               /\ slice = SubSeq(texts, Len(old) + 1, last)
               /\ Len(old) <= last /\ last <= Len(texts)
    <2>1. PICK last : last = IF Len(texts) < Len(old) + RequestLimit THEN Len(texts)
                             ELSE Len(old) + RequestLimit
      OBVIOUS
    <2>2. last \in Nat /\ Len(old) <= last /\ last <= Len(texts)
      BY <1>7, <2>1, TranslationConstants
    <2>3. QED
      BY <1>8, <2>1, <2>2 DEF Slice
  <1>10. /\ slice \in Seq(Chunk) /\ Len(slice) = last - Len(old)
         /\ \A i \in 1 .. last - Len(old) : slice[i] = texts[Len(old) + i]
    <2>1. \A i \in Len(old) + 1 .. last : texts[i] \in Chunk
      BY <1>7, <1>9, ElementOfSeq
    <2>2. slice = [i \in 1 .. last - Len(old) |-> texts[Len(old) + i]]
      <3>1. SubSeq(texts, Len(old) + 1, last)
              = [i \in 1 .. last - (Len(old) + 1) + 1 |-> texts[i + (Len(old) + 1) - 1]]
        BY <1>7, <1>9, SubSeqProperties
      <3> QED
        BY <1>7, <1>9, <3>1
    <2>3. QED
      BY <1>7, <1>9, <2>1, <2>2
  <1>11. outcome \in Outcomes(slice)
    BY <1>1, <1>2, <1>3, <1>8 DEF Posted
  <1>12. PICK new : new = Results(slice, outcome)
    OBVIOUS
  <1>13. /\ DOMAIN new = 1 .. last - Len(old)
         /\ \A i \in 1 .. last - Len(old) : new[i].value \in {texts[Len(old) + i], Missing}
    BY <1>10, <1>11, <1>12, ResultsFacts
  <1>14. PICK W : old \in Seq(W) /\ new \in Seq(W)
    <2>1. last - Len(old) \in Nat
      BY <1>7, <1>9
    <2> DEFINE d == last - Len(old)
    <2> HIDE DEF d
    <2> DEFINE X == V \cup {new[i] : i \in 1 .. d}
    <2>2. new = [i \in 1 .. d |-> new[i]]
      BY <1>12, <1>13 DEF Results, d
    <2>3. \A i \in 1 .. d : new[i] \in X
      OBVIOUS
    <2>4. new \in [1 .. d -> X]
      <3> HIDE DEF X
      <3> QED
        BY <2>2, <2>3
    <2>5. new \in Seq(X)
      <3> HIDE DEF X
      <3> QED
        BY <2>1, <2>4, IsASeq DEF d
    <2>6. V \subseteq X
      OBVIOUS
    <2>7. old \in Seq(X)
      <3> HIDE DEF X
      <3> QED
        BY <1>5, <2>6, SeqMonotonic
    <2>8. QED
      BY <2>5, <2>7
  <1>15. Len(new) = last - Len(old)
    <2>1. last - Len(old) \in Nat
      BY <1>7, <1>9
    <2> DEFINE d == last - Len(old)
    <2> HIDE DEF d
    <2>2. DOMAIN new = 1 .. d /\ DOMAIN new = 1 .. Len(new) /\ Len(new) \in Nat
      BY <1>13, <1>14, LenProperties DEF d
    <2>3. QED
      BY <2>1, <2>2 DEF d
  <1>16. PICK got : got = old \o new
    OBVIOUS
  <1>17. /\ got \in Seq(W) /\ Len(got) = last /\ DOMAIN got = 1 .. Len(got)
         /\ \A i \in 1 .. Len(old) : got[i] = old[i]
         /\ \A i \in Len(old) + 1 .. last : got[i] = new[i - Len(old)]
    <2>1. /\ got \in Seq(W) /\ Len(got) = Len(old) + Len(new)
          /\ \A i \in 1 .. Len(old) + Len(new) :
                got[i] = IF i <= Len(old) THEN old[i] ELSE new[i - Len(old)]
      BY <1>14, <1>16, ConcatProperties
    <2>2. DOMAIN got = 1 .. Len(got)
      BY <2>1, LenProperties
    <2>3. QED
      BY <1>7, <1>9, <1>15, <2>1, <2>2
  <1>18. Known(got, texts)
    <2>1. ASSUME NEW i \in 1 .. Len(old) PROVE got[i].value \in {texts[i], Missing}
      BY <1>6, <1>17 DEF Known
    <2>2. ASSUME NEW i \in Len(old) + 1 .. last PROVE got[i].value \in {texts[i], Missing}
      <3>1. i - Len(old) \in 1 .. last - Len(old) /\ Len(old) + (i - Len(old)) = i
        BY <1>7, <1>9
      <3>2. QED
        BY <1>13, <1>17, <3>1
    <2>3. \A i \in 1 .. last : i \in 1 .. Len(old) \/ i \in Len(old) + 1 .. last
      BY <1>7
    <2>4. QED
      BY <1>9, <1>17, <2>1, <2>2, <2>3 DEF Known
  <1>19. /\ waiting' = waiting
         /\ IF Len(got) < Len(texts)
            THEN translator' = [translator EXCEPT !.got = got] /\ UNCHANGED translation
            ELSE Settle(batch, got)
    BY <1>1, <1>2, <1>3, <1>8, <1>12, <1>16 DEF PostAnswers
  <1>20. CASE Len(got) < Len(texts)
    <2>1. AnswersOwnText' /\ DOMAIN translation' = Text
      BY <1>19, <1>20 DEF TransInv, AnswersOwnText, Chunks
    <2>2. translator' = [translator EXCEPT !.got = got]
      BY <1>19, <1>20
    <2>3. QED
      BY <1>1, <1>3, <1>4, <1>6, <1>17, <1>18, <1>19, <2>1, <2>2 DEF TransInv
  <1>21. CASE ~(Len(got) < Len(texts))
    <2>1. Len(got) >= Len(texts) /\ Settle(batch, got) /\ waiting' \in Seq(Text)
      BY <1>7, <1>9, <1>17, <1>19, <1>21 DEF TransInv
    <2>2. QED
      BY <1>3, <1>6, <1>17, <1>18, <2>1, SettleStep
  <1>22. QED
    BY <1>20, <1>21

(* As long as no chunk is too wide for the Worker, what the flusher knows of the
   chunks of its batch is of those chunks, whatever a slice ended with
   (EdgeTranslationBatcher._flush). *)
THEOREM TranslatorInvariant == ASSUME Wide = {} PROVE TSpec => []TransInv
  <1>1. TransInv /\ [TNext]_tvars => TransInv'
    <2>1. SUFFICES ASSUME TransInv, [TNext]_tvars PROVE TransInv'
      OBVIOUS
    <2>2. CASE UNCHANGED tvars
      BY <2>1, <2>2 DEF tvars, TransInv, Known, AnswersOwnText
    <2>3. QED
      BY <2>1, <2>2, RequestStep, TakeStep, PostStep DEF TNext, FlushTexts
  <1>2. QED
    BY <1>1, TransInit, PTL DEF TSpec

(* A text that is answered with a translation gets its own, whole and in order,
   unless a chunk of 480 code points can be too wide for the Worker. *)
THEOREM TextsGetTheirOwn == ASSUME Wide = {} PROVE TSpec => []AnswersOwnText
  <1>1. TransInv => AnswersOwnText
    BY DEF TransInv
  <1>2. QED
    BY <1>1, TranslatorInvariant, PTL

-------------------------------------------------------------------------------
(***************************************************************************)
(* A merged database is what it says, for every number of hosts and rows,  *)
(* whatever the replicas hold and become.                                  *)
(***************************************************************************)

PerShard ==
    /\ DOMAIN live = ShardOf /\ DOMAIN past = ShardOf /\ DOMAIN snapshot = ShardOf
    /\ DOMAIN manifest = ShardOf /\ DOMAIN backup = ShardOf

\* A finished copy is a replica of one moment: until then all its pages are of one.
BackupOK(k) ==
    /\ backup[k].pc \in {"off", "copy", "snapshot", "manifest"}
    /\ backup[k].pc = "off" => backup[k] = NoBackup
    /\ backup[k].pc # "off" => DOMAIN backup[k] = {"pc", "of", "copy"}
    /\ backup[k].pc = "copy" => backup[k].copy = [i \in DOMAIN backup[k].copy |-> backup[k].of[i]]
    /\ backup[k].pc \in {"copy", "snapshot"} => manifest[k] = Unwritten
    /\ backup[k].pc \in {"snapshot", "manifest"} => backup[k].copy \in past[k]
    /\ backup[k].pc = "manifest" => snapshot[k] = backup[k].copy

IsTable(rows) == rows = [id \in DOMAIN rows |-> rows[id]]

FilesOK ==
    \A k \in ShardOf :
       /\ live[k] \in past[k] /\ IsTable(live[k])
       /\ snapshot[k] # Unwritten => snapshot[k] \in past[k]
       /\ manifest[k] # Unwritten => manifest[k] = snapshot[k]
       /\ BackupOK(k)

HasBeen(k, identity) == \E rows \in past[k] : IdentityOf(rows) = identity
HasOwned(k, rows) == \E r \in past[k] : OwnedRows(r, k) = OwnedRows(rows, k)

\* The shards whose files have been through a phase.
Through(phase, later) ==
    IF merging.pc = phase THEN 0 .. merging.shard - 1
    ELSE IF merging.pc \in later THEN ShardOf ELSE {}

MergeOK ==
    /\ merging.pc \in {"off", "identify", "base", "rows", "check", "publish"}
    /\ merging.pc # "off" => DOMAIN merging = {"pc", "shard", "identity", "rows"}
    /\ merging.pc # "off" => merging.shard \in ShardOf
    /\ \A k \in Through("identify", {"base", "rows", "check", "publish"}) :
          HasBeen(k, merging.identity)
    /\ \A k \in Through("check", {"publish"}) : HasOwned(k, merging.rows)

MergedOK ==
    merged # Unwritten =>
       \A k \in ShardOf : HasOwned(k, merged) /\ HasBeen(k, IdentityOf(merged))

NInv == PerShard /\ FilesOK /\ MergeOK /\ MergedOK

-----------------------------------------------------------------------------
LEMMA MergedFollows == NInv => MergedIsOwned
  BY DEF NInv, FilesOK, MergedOK, HasBeen, HasOwned, MergedIsOwned

LEMMA SnapshotInitInv == SnapshotInit => NInv
  <1> SUFFICES ASSUME SnapshotInit PROVE NInv
    OBVIOUS
  <1>1. PerShard
    BY DEF SnapshotInit, PerShard
  <1>2. FilesOK
    BY SnapshotConstants DEF SnapshotInit, FilesOK, BackupOK, NoBackup, IsTable
  <1>3. MergeOK /\ MergedOK
    BY DEF SnapshotInit, MergeOK, MergedOK, Through, NoMerge
  <1>4. QED
    BY <1>1, <1>2, <1>3 DEF NInv

\* A replica that goes on keeps what it has been.
LEMMA ReplicaInv ==
    ASSUME NInv, CommitRow \/ ReplaceDataset
    PROVE  NInv'
  <1>1. PICK k, rows : k \in ShardOf /\ Becomes(k, rows) /\ IsTable(rows)
    <2>1. CASE CommitRow
      <3>1. PICK k \in ShardOf : \E id \in DOMAIN live[k] : \E r \in Revisions :
               Becomes(k, [live[k] EXCEPT ![id].content = r])
        BY <2>1 DEF CommitRow
      <3>2. ASSUME NEW id, NEW r PROVE IsTable([live[k] EXCEPT ![id].content = r])
        BY DEF IsTable
      <3>3. QED
        BY <3>1, <3>2
    <2>2. CASE ReplaceDataset
      BY <2>2, SnapshotConstants DEF ReplaceDataset, IsTable
    <2>3. QED
      BY <2>1, <2>2
  <1>2. /\ live' = [live EXCEPT ![k] = rows] /\ past' = [past EXCEPT ![k] = @ \cup {rows}]
        /\ UNCHANGED <<snapshot, manifest, backup, merging, merged>>
    BY <1>1 DEF Becomes
  <1>3. /\ PerShard'
        /\ \A j \in ShardOf : past[j] \subseteq past'[j] /\ live'[j] \in past'[j]
    BY <1>2 DEF NInv, PerShard, FilesOK
  <1>4. FilesOK'
    BY <1>1, <1>2, <1>3 DEF NInv, PerShard, FilesOK, BackupOK
  <1>5. /\ \A j \in ShardOf : \A identity : HasBeen(j, identity) => HasBeen(j, identity)'
        /\ \A j \in ShardOf : \A r : HasOwned(j, r) => HasOwned(j, r)'
    BY <1>3 DEF HasBeen, HasOwned
  <1>6. /\ Through("identify", {"base", "rows", "check", "publish"}) \subseteq ShardOf
        /\ Through("check", {"publish"}) \subseteq ShardOf
    BY SnapshotConstants DEF NInv, MergeOK, Through, ShardOf
  <1>7. MergeOK' /\ MergedOK'
    BY <1>2, <1>5, <1>6 DEF NInv, MergeOK, MergedOK, Through
  <1>8. QED
    BY <1>3, <1>4, <1>7 DEF NInv

\* What a backup or its operator does, the merge only reads.
LEMMA MergeUndisturbed ==
    ASSUME NInv, UNCHANGED <<live, past, merging, merged>>
    PROVE  MergeOK' /\ MergedOK'
  BY DEF NInv, MergeOK, MergedOK, Through, HasBeen, HasOwned

\* A step of a backup of one host.
LEMMA BackupInv ==
    ASSUME NInv, NEW k \in ShardOf,
           \/ RemoveSnapshot(k) \/ StartBackup(k) \/ CopyPages(k) \/ PublishSnapshot(k)
           \/ PublishManifest(k) \/ AbortBackup(k)
    PROVE  NInv'
  <1>1. UNCHANGED <<live, past, merging, merged>>
    BY DEF RemoveSnapshot, StartBackup, CopyPages, PublishSnapshot, PublishManifest, AbortBackup
  <1>2. /\ PerShard'
        /\ \A j \in ShardOf \ {k} : /\ backup'[j] = backup[j] /\ snapshot'[j] = snapshot[j]
                                    /\ manifest'[j] = manifest[j]
    BY DEF RemoveSnapshot, StartBackup, CopyPages, PublishSnapshot, PublishManifest, AbortBackup,
           Backs, NInv, PerShard
  <1>3. SUFFICES /\ snapshot'[k] # Unwritten => snapshot'[k] \in past[k]
                 /\ manifest'[k] # Unwritten => manifest'[k] = snapshot'[k]
                 /\ BackupOK(k)'
    <2>1. ASSUME NEW j \in ShardOf \ {k}
          PROVE  /\ snapshot'[j] # Unwritten => snapshot'[j] \in past[j]
                 /\ manifest'[j] # Unwritten => manifest'[j] = snapshot'[j]
                 /\ BackupOK(j)'
      BY <1>1, <1>2 DEF NInv, FilesOK, BackupOK
    <2>2. \A j \in ShardOf : live'[j] \in past'[j] /\ IsTable(live'[j])
      BY <1>1 DEF NInv, FilesOK
    <2>3. QED
      BY <1>1, <1>2, <2>1, <2>2, MergeUndisturbed DEF NInv, FilesOK
  <1>4. /\ DOMAIN backup = ShardOf /\ DOMAIN snapshot = ShardOf /\ DOMAIN manifest = ShardOf
        /\ live[k] \in past[k] /\ IsTable(live[k]) /\ BackupOK(k)
        /\ snapshot[k] # Unwritten => snapshot[k] \in past[k]
        /\ manifest[k] # Unwritten => manifest[k] = snapshot[k]
    BY DEF NInv, PerShard, FilesOK
  <1>5. CASE RemoveSnapshot(k)
    BY <1>4, <1>5 DEF RemoveSnapshot, BackupOK, NoBackup
  <1>6. CASE StartBackup(k)
    <2>1. /\ backup'[k] = [pc |-> "copy", of |-> live[k], copy |-> <<>>]
          /\ UNCHANGED <<snapshot, manifest>> /\ manifest[k] = Unwritten
      BY <1>4, <1>6 DEF StartBackup, Backs
    <2>2. <<>> = [i \in DOMAIN <<>> |-> live[k][i]]
      OBVIOUS
    <2>3. QED
      BY <1>4, <2>1, <2>2 DEF BackupOK
  <1>7. CASE CopyPages(k)
    <2> DEFINE b == backup[k]
    <2>1. /\ b.pc = "copy" /\ DOMAIN b = {"pc", "of", "copy"} /\ UNCHANGED <<snapshot, manifest>>
          /\ b.copy = [i \in DOMAIN b.copy |-> b.of[i]] /\ manifest[k] = Unwritten
      BY <1>4, <1>7 DEF CopyPages, BackupOK
    <2>2. CASE b.of # live[k]
      <3>1. backup'[k] = [b EXCEPT !.of = live[k], !.copy = <<>>]
        BY <1>4, <1>7, <2>2 DEF CopyPages, Backs
      <3>2. <<>> = [i \in DOMAIN <<>> |-> live[k][i]]
        OBVIOUS
      <3>3. QED
        BY <1>4, <2>1, <3>1, <3>2 DEF BackupOK
    <2>3. CASE b.of = live[k] /\ DOMAIN b.copy = DOMAIN live[k]
      <3>1. backup'[k] = [b EXCEPT !.pc = "snapshot", !.of = Unwritten]
        BY <1>4, <1>7, <2>3 DEF CopyPages, Backs
      <3>2. b.copy = live[k]
        BY <1>4, <2>1, <2>3 DEF IsTable
      <3>3. QED
        BY <1>1, <1>4, <2>1, <3>1, <3>2 DEF BackupOK
    <2>4. CASE b.of = live[k] /\ DOMAIN b.copy # DOMAIN live[k]
      <3>1. PICK next : backup'[k] =
               [b EXCEPT !.copy = [i \in DOMAIN b.copy \cup {next} |-> live[k][i]]]
        BY <1>4, <1>7, <2>4, <2>1 DEF CopyPages, Backs
      <3>2. QED
        BY <1>4, <2>1, <2>4, <3>1 DEF BackupOK
    <2>5. QED
      BY <2>2, <2>3, <2>4
  <1>8. CASE PublishSnapshot(k)
    BY <1>4, <1>8 DEF PublishSnapshot, Backs, BackupOK, NoBackup
  <1>9. CASE PublishManifest(k)
    BY <1>4, <1>9 DEF PublishManifest, Backs, BackupOK, NoBackup
  <1>10. CASE AbortBackup(k)
    BY <1>4, <1>10 DEF AbortBackup, Backs, BackupOK, NoBackup
  <1>11. QED
    BY <1>5, <1>6, <1>7, <1>8, <1>9, <1>10

-----------------------------------------------------------------------------
\* What a merge does, no backup sees.
LEMMA FilesUndisturbed ==
    ASSUME NInv, UNCHANGED <<live, past, snapshot, manifest, backup>>
    PROVE  PerShard' /\ FilesOK'
  BY DEF NInv, PerShard, FilesOK, BackupOK

LEMMA NextShard ==
    ASSUME NEW state, NEW phase, DOMAIN state = {"pc", "shard", "identity", "rows"},
           state.shard \in ShardOf
    PROVE  LET next == Advance(state, phase)
           IN /\ DOMAIN next = DOMAIN state
              /\ next.identity = state.identity /\ next.rows = state.rows
              /\ \/ /\ next.pc = state.pc /\ next.shard = state.shard + 1
                    /\ next.shard \in ShardOf
                 \/ /\ next.pc = phase /\ next.shard = 0 /\ 0 \in ShardOf
                    /\ ShardOf = 0 .. state.shard
  BY SnapshotConstants DEF Advance, ShardOf

\* The base and the rows are copied: the identity that was compared is kept.
LEMMA CopyInv ==
    ASSUME NInv, StartMerge \/ CopyBase \/ CopyOwned \/ AbortMerge
    PROVE  NInv'
  <1>1. UNCHANGED <<live, past, snapshot, manifest, backup, merged>>
    BY DEF StartMerge, CopyBase, CopyOwned, AbortMerge, Merging
  <1>2. MergedOK'
    BY <1>1 DEF NInv, MergedOK, HasBeen, HasOwned
  <1> SUFFICES MergeOK'
    BY <1>1, <1>2, FilesUndisturbed DEF NInv
  <1>3. \A k \in ShardOf : \A identity : HasBeen(k, identity)' = HasBeen(k, identity)
    BY <1>1 DEF HasBeen
  <1>4. CASE merging' = NoMerge
    BY <1>4 DEF MergeOK, Through, NoMerge
  <1>5. CASE StartMerge
    <2>1. merging' = [pc |-> "identify", shard |-> 0, identity |-> <<>>, rows |-> <<>>]
      BY <1>5 DEF StartMerge, Merging
    <2>2. 0 \in ShardOf /\ 0 .. 0 - 1 = {}
      BY SnapshotConstants DEF ShardOf
    <2>3. QED
      BY <2>1, <2>2 DEF MergeOK, Through
  <1>6. CASE CopyBase /\ merging' # NoMerge
    <2>1. merging.pc = "base" /\ merging' = [merging EXCEPT !.rows = snapshot[0], !.pc = "rows"]
      BY <1>6 DEF CopyBase, Merging, AtPhase
    <2>2. QED
      BY <1>3, <2>1 DEF NInv, MergeOK, Through
  <1>7. CASE CopyOwned /\ merging' # NoMerge
    <2>1. PICK rows : merging' = Advance([merging EXCEPT !.rows = rows], "check")
      BY <1>7 DEF CopyOwned, Merging
    <2> DEFINE state == [merging EXCEPT !.rows = rows]
    <2>2. /\ merging.pc = "rows" /\ DOMAIN state = {"pc", "shard", "identity", "rows"}
          /\ state.shard \in ShardOf /\ state.pc = "rows" /\ state.identity = merging.identity
      BY <1>7 DEF CopyOwned, AtPhase, NInv, MergeOK
    <2>6. merging' = Advance(state, "check")
      BY <2>1
    <2> HIDE DEF state
    <2>3. /\ DOMAIN merging' = {"pc", "shard", "identity", "rows"}
          /\ merging'.identity = merging.identity /\ merging'.shard \in ShardOf
          /\ merging'.pc = "rows" \/ (merging'.pc = "check" /\ merging'.shard = 0)
      BY <2>2, <2>6, NextShard
    <2>4. 0 .. 0 - 1 = {}
      OBVIOUS
    <2>5. QED
      BY <1>3, <2>2, <2>3, <2>4 DEF NInv, MergeOK, Through
  <1>8. QED
    BY <1>4, <1>5, <1>6, <1>7 DEF AbortMerge, Merging

LEMMA IdentifyInv ==
    ASSUME NInv, IdentifySnapshot
    PROVE  NInv'
  <1>1. UNCHANGED <<live, past, snapshot, manifest, backup, merged>> /\ merging.pc = "identify"
    BY DEF IdentifySnapshot, Merging, AtPhase
  <1>2. MergedOK'
    BY <1>1 DEF NInv, MergedOK, HasBeen, HasOwned
  <1> SUFFICES MergeOK'
    BY <1>1, <1>2, FilesUndisturbed DEF NInv
  <1>3. CASE merging' = NoMerge
    BY <1>3 DEF MergeOK, Through, NoMerge
  <1>4. CASE merging' # NoMerge
    <2> DEFINE file == snapshot[merging.shard]
               state == [merging EXCEPT !.identity = IdentityOf(file)]
    <2>1. /\ file # Unwritten /\ merging' = Advance(state, "base")
          /\ merging.shard # 0 => IdentityOf(file) = merging.identity
      BY <1>4 DEF IdentifySnapshot, Merging
    <2>2. /\ merging.shard \in ShardOf /\ DOMAIN state = {"pc", "shard", "identity", "rows"}
          /\ state.shard = merging.shard /\ state.pc = "identify"
          /\ state.identity = IdentityOf(file)
          /\ \A k \in 0 .. merging.shard - 1 : HasBeen(k, merging.identity)
      BY <1>1 DEF NInv, MergeOK, Through
    <2>3. HasBeen(merging.shard, IdentityOf(file))
      BY <2>1, <2>2 DEF NInv, FilesOK, HasBeen
    <2>4. \A k \in 0 .. merging.shard : HasBeen(k, IdentityOf(file))
      <3>1. CASE merging.shard = 0
        BY <2>3, <3>1
      <3>2. CASE merging.shard # 0
        BY <2>1, <2>2, <2>3, <3>2 DEF ShardOf
      <3>3. QED
        BY <3>1, <3>2
    <2> HIDE DEF state, file
    <2>6. /\ DOMAIN merging' = {"pc", "shard", "identity", "rows"}
          /\ merging'.identity = IdentityOf(file) /\ merging'.shard \in ShardOf
          /\ \/ merging'.pc = "identify" /\ merging'.shard - 1 = merging.shard
             \/ merging'.pc = "base" /\ ShardOf = 0 .. merging.shard
      BY <2>1, <2>2, NextShard DEF ShardOf
    <2>7. PICK identity : identity = IdentityOf(file)
      OBVIOUS
    <2>8. \A k \in 0 .. merging.shard : HasBeen(k, identity)'
      BY <1>1, <2>4, <2>7 DEF HasBeen
    <2>9. QED
      BY <2>6, <2>7, <2>8 DEF MergeOK, Through
  <1>5. QED
    BY <1>3, <1>4

\* The rows are those of the snapshot that is there when they are compared.
LEMMA CheckInv ==
    ASSUME NInv, CheckOwned
    PROVE  NInv'
  <1>1. UNCHANGED <<live, past, snapshot, manifest, backup, merged>> /\ merging.pc = "check"
    BY DEF CheckOwned, Merging, AtPhase
  <1>2. MergedOK'
    BY <1>1 DEF NInv, MergedOK, HasBeen, HasOwned
  <1> SUFFICES MergeOK'
    BY <1>1, <1>2, FilesUndisturbed DEF NInv
  <1>3. CASE merging' = NoMerge
    BY <1>3 DEF MergeOK, Through, NoMerge
  <1>4. CASE merging' # NoMerge
    <2> DEFINE file == snapshot[merging.shard]
    <2>1. /\ file # Unwritten /\ SameOwned(file, merging.rows, merging.shard)
          /\ merging' = Advance(merging, "publish")
      BY <1>4 DEF CheckOwned, Merging
    <2>2. /\ merging.shard \in ShardOf /\ DOMAIN merging = {"pc", "shard", "identity", "rows"}
          /\ \A k \in ShardOf : HasBeen(k, merging.identity)
          /\ \A k \in 0 .. merging.shard - 1 : HasOwned(k, merging.rows)
      BY <1>1 DEF NInv, MergeOK, Through
    <2>3. HasOwned(merging.shard, merging.rows)
      BY <2>1, <2>2 DEF NInv, FilesOK, HasOwned, SameOwned
    <2>4. \A k \in 0 .. merging.shard : HasOwned(k, merging.rows)
      BY <2>2, <2>3 DEF ShardOf
    <2>5. /\ DOMAIN merging' = {"pc", "shard", "identity", "rows"}
          /\ merging'.identity = merging.identity /\ merging'.shard \in ShardOf
          /\ merging'.rows = merging.rows
          /\ \/ merging'.pc = "check" /\ merging'.shard - 1 = merging.shard
             \/ merging'.pc = "publish" /\ ShardOf = 0 .. merging.shard
      BY <1>1, <2>1, <2>2, NextShard DEF ShardOf
    <2>6. /\ \A k \in ShardOf : HasBeen(k, merging.identity)'
          /\ \A k \in 0 .. merging.shard : HasOwned(k, merging.rows)'
      BY <1>1, <2>2, <2>4, <2>5 DEF HasBeen, HasOwned
    <2>7. QED
      BY <2>5, <2>6 DEF MergeOK, Through
  <1>5. QED
    BY <1>3, <1>4

LEMMA PublishMergedInv ==
    ASSUME NInv, PublishMerged
    PROVE  NInv'
  <1>1. /\ UNCHANGED <<live, past, snapshot, manifest, backup>> /\ merging.pc = "publish"
        /\ merging' = NoMerge
        /\ \/ merged' = merged
           \/ merged' = merging.rows /\ IdentityOf(merging.rows) = merging.identity
    BY DEF PublishMerged, Merging, AtPhase
  <1>2. \A k \in ShardOf : HasBeen(k, merging.identity) /\ HasOwned(k, merging.rows)
    BY <1>1 DEF NInv, MergeOK, Through
  <1>3. MergedOK'
    BY <1>1, <1>2 DEF NInv, MergedOK, HasBeen, HasOwned
  <1>4. MergeOK'
    BY <1>1 DEF MergeOK, Through, NoMerge
  <1>5. QED
    BY <1>1, <1>3, <1>4, FilesUndisturbed DEF NInv

(* The invariant: every snapshot and every phase of a merge agrees with what
   some replica was, whatever it is by now. *)
THEOREM SnapshotInvariant == SnapshotSpec => []NInv
  <1>1. NInv /\ [SnapshotNext]_snapshotVars => NInv'
    <2> SUFFICES ASSUME NInv, [SnapshotNext]_snapshotVars PROVE NInv'
      OBVIOUS
    <2>1. CASE UNCHANGED snapshotVars
      BY <2>1, FilesUndisturbed, MergeUndisturbed DEF snapshotVars, NInv
    <2>2. QED
      BY <2>1, ReplicaInv, BackupInv, CopyInv, IdentifyInv, CheckInv, PublishMergedInv
         DEF SnapshotNext
  <1>2. QED
    BY <1>1, SnapshotInitInv, PTL DEF SnapshotSpec

(* Of every owner a merged database has the rows its replica held at one moment,
   whole, and all its rows are those all replicas have had (merge-owned). *)
THEOREM MergesAreOwned == SnapshotSpec => []MergedIsOwned
  BY SnapshotInvariant, MergedFollows, PTL

-------------------------------------------------------------------------------
(***************************************************************************)
(* A prefill only adds.  Every list of an entry is merged by a fold that   *)
(* appends, so that what it had is a prefix of what it has; the batches    *)
(* fold the terms, and what a term is left with, later ones leave it.      *)
(***************************************************************************)

News == INSTANCE LeftFolds WITH Op <- AddNew
Lengthens == INSTANCE LeftFolds WITH Op <- AddWord
Firsts == INSTANCE LeftFolds WITH Op <- AddFirst
Enters == INSTANCE LeftFolds WITH Op <- AddEntry
Fills == INSTANCE LeftFolds WITH Op <- FillTerm

LEMMA NewsSame ==
    \A base, seq : News!FoldLeft(AddNew, base, seq) = FoldLeft(AddNew, base, seq)
  BY DEF FoldLeft, News!FoldLeft, MapThenFoldSet, News!MapThenFoldSet, Max, News!Max
LEMMA LengthensSame ==
    \A base, seq : Lengthens!FoldLeft(AddWord, base, seq) = FoldLeft(AddWord, base, seq)
  BY DEF FoldLeft, Lengthens!FoldLeft, MapThenFoldSet, Lengthens!MapThenFoldSet, Max, Lengthens!Max
LEMMA FirstsSame ==
    \A base, seq : Firsts!FoldLeft(AddFirst, base, seq) = FoldLeft(AddFirst, base, seq)
  BY DEF FoldLeft, Firsts!FoldLeft, MapThenFoldSet, Firsts!MapThenFoldSet, Max, Firsts!Max
LEMMA EntersSame ==
    \A base, seq : Enters!FoldLeft(AddEntry, base, seq) = FoldLeft(AddEntry, base, seq)
  BY DEF FoldLeft, Enters!FoldLeft, MapThenFoldSet, Enters!MapThenFoldSet, Max, Enters!Max
LEMMA FillsSame ==
    \A base, seq : Fills!FoldLeft(FillTerm, base, seq) = FoldLeft(FillTerm, base, seq)
  BY DEF FoldLeft, Fills!FoldLeft, MapThenFoldSet, Fills!MapThenFoldSet, Max, Fills!Max

\* The lists that begin with another.
Longer(V, s) == {t \in Seq(V) : Len(s) <= Len(t) /\ \A i \in 1 .. Len(s) : t[i] = s[i]}

LEMMA LongerFacts ==
    ASSUME NEW V, NEW s \in Seq(V)
    PROVE  /\ s \in Longer(V, s)
           /\ \A t \in Longer(V, s) :
                 /\ t \in Seq(V) /\ IsPrefix(s, t)
                 /\ \A v \in V : Append(t, v) \in Longer(V, s)
                 /\ \A u \in Longer(V, t) : u \in Longer(V, s)
  <1>1. s \in Longer(V, s)
    BY DEF Longer
  <1>2. ASSUME NEW t \in Longer(V, s) PROVE t \in Seq(V) /\ IsPrefix(s, t)
    <2>1. t \in Seq(V) /\ Len(s) <= Len(t) /\ \A i \in 1 .. Len(s) : t[i] = s[i]
      BY <1>2 DEF Longer
    <2>2. SubSeq(s, 1, Len(s)) = SubSeq(t, 1, Len(s))
      BY <2>1
    <2> QED
      BY <2>1, <2>2 DEF IsPrefix
  <1>3. ASSUME NEW t \in Longer(V, s), NEW v \in V PROVE Append(t, v) \in Longer(V, s)
    <2>1. t \in Seq(V) /\ Len(s) <= Len(t) /\ \A i \in 1 .. Len(s) : t[i] = s[i]
      BY <1>3 DEF Longer
    <2>2. PICK u : u = Append(t, v)
      OBVIOUS
    <2>3. u \in Seq(V) /\ Len(u) = Len(t) + 1 /\ \A i \in 1 .. Len(t) : u[i] = t[i]
      BY <2>1, <2>2
    <2>4. Len(s) <= Len(u) /\ \A i \in 1 .. Len(s) : u[i] = s[i]
      BY <2>1, <2>3
    <2> QED
      BY <2>2, <2>3, <2>4 DEF Longer
  <1>4. ASSUME NEW t \in Longer(V, s), NEW u \in Longer(V, t) PROVE u \in Longer(V, s)
    BY <1>4 DEF Longer
  <1> QED
    BY <1>1, <1>2, <1>3, <1>4

LEMMA LongerConcat ==
    ASSUME NEW V, NEW s \in Seq(V), NEW t \in Seq(V)
    PROVE  s \o t \in Longer(V, s)
  <1>1. PICK u : u = s \o t
    OBVIOUS
  <1>2. u \in Seq(V) /\ Len(u) = Len(s) + Len(t) /\ Len(s) \in Nat /\ Len(t) \in Nat
    BY <1>1
  <1>3. \A i \in 1 .. Len(s) : u[i] = s[i]
    BY <1>1
  <1>4. Len(s) <= Len(u)
    BY <1>2
  <1>5. u \in Longer(V, s)
    BY <1>2, <1>3, <1>4 DEF Longer
  <1> QED
    BY <1>1, <1>5

\* A selection of a list is a list, of what was selected.
LEMMA AmongType ==
    ASSUME NEW V, NEW list \in Seq(V), NEW set
    PROVE  Among(list, set) \in Seq(V \cap set)
  <1>1. PICK n \in Nat : DOMAIN list = 1 .. n /\ \A i \in 1 .. n : list[i] \in V
    BY ElementOfSeq, LenProperties
  <1> DEFINE parts == [i \in 1 .. n |-> IF list[i] \in set THEN <<list[i]>> ELSE <<>>]
  <1>2. ASSUME NEW i \in 1 .. n PROVE parts[i] \in Seq(V \cap set)
    <2>1. CASE list[i] \in set
      <3>1. list[i] \in V \cap set
        BY <1>1, <2>1
      <3>2. <<list[i]>> \in Seq(V \cap set)
        BY <3>1
      <3> QED
        BY <2>1, <3>2
    <2>2. CASE list[i] \notin set
      BY <2>2
    <2> QED
      BY <2>1, <2>2
  <1>3. parts \in Seq(Seq(V \cap set))
    BY <1>2
  <1>4. Among(list, set) = FlattenSeq(parts)
    BY <1>1 DEF Among
  <1> QED
    BY <1>3, <1>4, FlattenType

LEMMA SeqOfMore ==
    ASSUME NEW V, NEW W, V \subseteq W, NEW s \in Seq(V)
    PROVE  s \in Seq(W)
  OBVIOUS

LEMMA UpToType ==
    ASSUME NEW V, NEW list \in Seq(V)
    PROVE  UpToLimit(list) \in Seq(V)
  <1>1. PICK n \in Nat : n = Len(list)
    OBVIOUS
  <1>2. PICK m \in Nat : m <= n /\ UpToLimit(list) = SubSeq(list, 1, m)
    BY <1>1, PrefillConstants DEF UpToLimit
  <1>3. \A i \in 1 .. m : list[i] \in V
    BY <1>1, <1>2, ElementOfSeq
  <1> QED
    BY <1>2, <1>3

LEMMA DistinctType ==
    ASSUME NEW V, NEW list \in Seq(V)
    PROVE  Distinct(list) \in Seq(V)
  <1>1. PICK n \in Nat : DOMAIN list = 1 .. n /\ \A i \in 1 .. n : list[i] \in V
    BY ElementOfSeq, LenProperties
  <1>2. News!Keeps(Seq(V), list, n)
    BY <1>1 DEF News!Keeps, AddNew
  <1>3. <<>> \in Seq(V)
    OBVIOUS
  <1>4. News!FoldLeft(AddNew, <<>>, list) \in Seq(V)
    BY <1>1, <1>2, <1>3, News!FoldWithin
  <1> QED
    BY <1>4, NewsSame DEF Distinct

\* merge_words keeps what there is and adds nothing else than it is given.
LEMMA MergeWordsFacts ==
    ASSUME NEW V, NEW list \in Seq(V), NEW U, NEW more \in Seq(U), U \subseteq V
    PROVE  /\ MergeWords(list, more) \in Longer(V, list)
           /\ ToSet(MergeWords(list, more)) \ ToSet(list) \subseteq U
  <1>1. PICK n \in Nat : DOMAIN more = 1 .. n /\ \A i \in 1 .. n : more[i] \in U
    BY ElementOfSeq, LenProperties
  <1> DEFINE A == {t \in Longer(V, list) : ToSet(t) \ ToSet(list) \subseteq U}
  <1>2. list \in A
    BY LongerFacts
  <1>3. ASSUME NEW a \in A, NEW i \in 1 .. n PROVE AddWord(a, more[i]) \in A
    <2>1. a \in Seq(V) /\ a \in Longer(V, list) /\ more[i] \in U /\ more[i] \in V
      BY <1>1, LongerFacts
    <2>2. PICK w \in V : w = more[i] /\ w \in U
      BY <2>1
    <2>3. ToSet(Append(a, w)) = ToSet(a) \cup {w}
      BY <2>1, <2>2, AppendFacts
    <2>4. Append(a, w) \in A
      BY <2>1, <2>2, <2>3, LongerFacts
    <2> HIDE DEF A
    <2> QED
      BY <2>2, <2>4 DEF AddWord
  <1> HIDE DEF A
  <1>4. Lengthens!Keeps(A, more, n)
    BY <1>3 DEF Lengthens!Keeps
  <1>5. Lengthens!FoldLeft(AddWord, list, more) \in A
    BY <1>1, <1>2, <1>4, Lengthens!FoldWithin
  <1>6. MergeWords(list, more) \in A
    BY <1>5, LengthensSame DEF MergeWords
  <1> QED
    BY <1>6 DEF A

LinkSet == [word : Headword, text : Gist \cup {NoText}]
NamedEntry == [word : Headword, usable : BOOLEAN]

LEMMA MergeEntriesFacts ==
    ASSUME NEW entries \in Seq(NamedEntry), NEW words \in Seq(Headword)
    PROVE  MergeEntries(entries, words) \in Longer(NamedEntry, entries)
  <1>1. PICK n \in Nat : DOMAIN words = 1 .. n /\ \A i \in 1 .. n : words[i] \in Headword
    BY ElementOfSeq, LenProperties
  <1>2. entries \in Longer(NamedEntry, entries)
    BY LongerFacts
  <1>3. ASSUME NEW a \in Longer(NamedEntry, entries), NEW i \in 1 .. n
        PROVE  AddEntry(a, words[i]) \in Longer(NamedEntry, entries)
    <2>1. [word |-> words[i], usable |-> TRUE] \in NamedEntry
      BY <1>1 DEF NamedEntry
    <2>2. Append(a, [word |-> words[i], usable |-> TRUE]) \in Longer(NamedEntry, entries)
      BY <2>1, LongerFacts
    <2> QED
      BY <2>2 DEF AddEntry
  <1>4. Enters!Keeps(Longer(NamedEntry, entries), words, n)
    BY <1>3 DEF Enters!Keeps
  <1>5. Enters!FoldLeft(AddEntry, entries, words) \in Longer(NamedEntry, entries)
    BY <1>1, <1>2, <1>4, Enters!FoldWithin
  <1> QED
    BY <1>5, EntersSame DEF MergeEntries

LEMMA RichGrows ==
    ASSUME NEW s \in Seq(NamedEntry), NEW t \in Longer(NamedEntry, s)
    PROVE  RichWords(s) \subseteq RichWords(t)
  <1>1. PICK n \in Nat, m \in Nat : DOMAIN s = 1 .. n /\ DOMAIN t = 1 .. m /\ n <= m
    <2>1. t \in Seq(NamedEntry) /\ Len(s) <= Len(t)
      BY DEF Longer
    <2> QED
      BY <2>1, LenProperties
  <1>2. \A i \in 1 .. n : t[i] = s[i] /\ i \in 1 .. m
    <2>1. Len(s) = n
      BY <1>1, LenProperties
    <2> QED
      BY <1>1, <2>1 DEF Longer
  <1> QED
    BY <1>1, <1>2 DEF RichWords

LEMMA WordsInType ==
    ASSUME NEW links \in Seq(LinkSet)
    PROVE  WordsIn(links) \in Seq(Headword)
  <1>1. PICK n \in Nat : DOMAIN links = 1 .. n /\ \A i \in 1 .. n : links[i] \in LinkSet
    BY ElementOfSeq, LenProperties
  <1>2. WordsIn(links) = [i \in 1 .. n |-> links[i].word]
    BY <1>1 DEF WordsIn
  <1>3. \A i \in 1 .. n : links[i].word \in Headword
    BY <1>1 DEF LinkSet
  <1> QED
    BY <1>2, <1>3

LEMMA ResolveType ==
    ASSUME NEW rows, NEW links \in Seq(LinkSet)
    PROVE  Resolve(rows, links) \in Seq(Headword)
  <1>1. PICK n \in Nat : DOMAIN links = 1 .. n /\ \A i \in 1 .. n : links[i] \in LinkSet
    BY ElementOfSeq, LenProperties
  <1>2. Firsts!Keeps(Seq(LinkSet), links, n)
    <2>1. ASSUME NEW a \in Seq(LinkSet), NEW i \in 1 .. n PROVE AddFirst(a, links[i]) \in Seq(LinkSet)
      <3>1. Append(a, links[i]) \in Seq(LinkSet)
        BY <1>1
      <3> QED
        BY <3>1 DEF AddFirst
    <2> QED
      BY <2>1 DEF Firsts!Keeps
  <1>3. <<>> \in Seq(LinkSet)
    OBVIOUS
  <1>4. Firsts!FoldLeft(AddFirst, <<>>, links) \in Seq(LinkSet)
    BY <1>1, <1>2, <1>3, Firsts!FoldWithin
  <1>5. PICK first, set :
           first \in Seq(LinkSet) /\ Resolve(rows, links) = WordsIn(UpToLimit(Among(first, set)))
    BY <1>4, FirstsSame DEF Resolve
  <1>6. Among(first, set) \in Seq(LinkSet \cap set)
    BY <1>5, AmongType
  <1>7. Among(first, set) \in Seq(LinkSet)
    BY <1>6, SeqOfMore
  <1>8. UpToLimit(Among(first, set)) \in Seq(LinkSet)
    BY <1>7, UpToType
  <1> QED
    BY <1>5, <1>8, WordsInType

\* What a release of OEWN says of one of its terms.
LEMMA LexiconFacts ==
    ASSUME lexicon \in Lexicons
    PROVE  /\ lexicon.terms \in Seq(Headword) /\ ToSet(lexicon.terms) \subseteq Headword
           /\ \A t \in ToSet(lexicon.terms) : lexicon.senses[t] \in Seq(Synset)
           /\ \A s \in Synset : /\ lexicon.text[s] \in Gist \cup {NoText}
                               /\ \A type \in LinkType : lexicon.links[s][type] \in Seq(Synset)
  <1>1. /\ lexicon.terms \in Seq(Headword)
        /\ lexicon.senses \in [ToSet(lexicon.terms) -> Seq(Synset)]
        /\ lexicon.links \in [Synset -> [LinkType -> Seq(Synset)]]
        /\ lexicon.text \in [Synset -> Gist \cup {NoText}]
    BY PrefillTypes
  <1>2. ToSet(lexicon.terms) \subseteq Headword
    <2>1. PICK n \in Nat : DOMAIN lexicon.terms = 1 .. n /\ \A i \in 1 .. n : lexicon.terms[i] \in Headword
      BY <1>1, ElementOfSeq, LenProperties
    <2> QED
      BY <2>1 DEF ToSet
  <1>3. \A s \in Synset : lexicon.links[s] \in [LinkType -> Seq(Synset)]
    BY <1>1
  <1> QED
    BY <1>1, <1>2, <1>3

LEMMA LinksType ==
    ASSUME lexicon \in Lexicons, NEW s \in Synset, NEW term
    PROVE  Links(s, term) \in Seq(LinkSet)
  <1>1. PICK set, members :
           /\ members = Among(lexicon.terms, set)
           /\ Links(s, term) = [n \in DOMAIN members |-> [word |-> members[n], text |-> lexicon.text[s]]]
    BY DEF Links
  <1>2. members \in Seq(Headword \cap set)
    BY <1>1, LexiconFacts, AmongType
  <1>3. members \in Seq(Headword)
    BY <1>2, SeqOfMore
  <1>4. PICK n \in Nat : DOMAIN members = 1 .. n /\ \A i \in 1 .. n : members[i] \in Headword
    BY <1>3, ElementOfSeq, LenProperties
  <1>5. \A i \in 1 .. n : [word |-> members[i], text |-> lexicon.text[s]] \in LinkSet
    BY <1>4, LexiconFacts DEF LinkSet
  <1> QED
    BY <1>1, <1>4, <1>5

LEMMA LinksOfAllType ==
    ASSUME lexicon \in Lexicons, NEW synsets \in Seq(Synset), NEW term
    PROVE  LinksOfAll(synsets, term) \in Seq(LinkSet)
  <1>1. PICK n \in Nat : DOMAIN synsets = 1 .. n /\ \A i \in 1 .. n : synsets[i] \in Synset
    BY ElementOfSeq, LenProperties
  <1> DEFINE lists == [i \in 1 .. n |-> Links(synsets[i], term)]
  <1>2. \A i \in 1 .. n : Links(synsets[i], term) \in Seq(LinkSet)
    BY <1>1, LinksType
  <1>3. lists \in Seq(Seq(LinkSet))
    BY <1>2
  <1>4. LinksOfAll(synsets, term) = FlattenSeq(lists)
    BY <1>1 DEF LinksOfAll
  <1> QED
    BY <1>3, <1>4, FlattenType

LEMMA LinksOfType ==
    ASSUME lexicon \in Lexicons, NEW term \in ToSet(lexicon.terms), NEW type \in LinkType
    PROVE  LinksOf(term, type) \in Seq(LinkSet)
  <1>1. PICK senses \in Seq(Synset) : senses = lexicon.senses[term]
    BY LexiconFacts
  <1>2. PICK n \in Nat : DOMAIN senses = 1 .. n /\ \A i \in 1 .. n : senses[i] \in Synset
    BY ElementOfSeq, LenProperties
  <1> DEFINE lists == [i \in 1 .. n |-> LinksOfAll(lexicon.links[senses[i]][type], term)]
  <1>3. \A i \in 1 .. n : LinksOfAll(lexicon.links[senses[i]][type], term) \in Seq(LinkSet)
    BY <1>2, LexiconFacts, LinksOfAllType
  <1>4. lists \in Seq(Seq(LinkSet))
    BY <1>3
  <1>5. LinksOf(term, type) = FlattenSeq(lists)
    BY <1>1, <1>2 DEF LinksOf
  <1> QED
    BY <1>4, <1>5, FlattenType

LEMMA SynonymsType ==
    ASSUME lexicon \in Lexicons, NEW term \in ToSet(lexicon.terms)
    PROVE  Synonyms(term) \in Seq(LinkSet)
  BY LexiconFacts, LinksOfAllType DEF Synonyms

LEMMA LinkCandidatesType ==
    ASSUME lexicon \in Lexicons, NEW term \in ToSet(lexicon.terms), NEW c \in LinkColumn
    PROVE  LinkCandidates(term)[c] \in Seq(LinkSet)
  <1>1. PICK synonyms \in Seq(LinkSet), antonyms \in Seq(LinkSet), related \in Seq(LinkSet) :
           /\ synonyms = Synonyms(term) /\ antonyms = LinksOf(term, "antonym")
           /\ related = LinksOf(term, "related")
    BY SynonymsType, LinksOfType DEF LinkType
  <1>2. PICK all \in Seq(LinkSet) : all = synonyms \o antonyms \o related
    <2>1. synonyms \o antonyms \o related \in Seq(LinkSet)
      OBVIOUS
    <2> QED
      BY <2>1
  <1>3. Among(all, {l \in ToSet(all) : l.word \in Hyphened}) \in Seq(LinkSet)
    <2>1. PICK set : set = {l \in ToSet(all) : l.word \in Hyphened}
      OBVIOUS
    <2>2. Among(all, set) \in Seq(LinkSet \cap set)
      BY AmongType
    <2>3. Among(all, set) \in Seq(LinkSet)
      BY <2>2, SeqOfMore
    <2> QED
      BY <2>1, <2>3
  <1> QED
    BY <1>1, <1>2, <1>3 DEF LinkCandidates

LEMMA EntryTextsType ==
    ASSUME lexicon \in Lexicons, NEW term \in ToSet(lexicon.terms)
    PROVE  Texts(term) \in Seq(Gist)
  <1>1. PICK senses \in Seq(Synset) : senses = lexicon.senses[term]
    BY LexiconFacts
  <1>2. PICK n \in Nat : DOMAIN senses = 1 .. n /\ \A i \in 1 .. n : senses[i] \in Synset
    BY ElementOfSeq, LenProperties
  <1>3. PICK texts : texts = [i \in 1 .. n |-> lexicon.text[senses[i]]]
    OBVIOUS
  <1>4. texts \in Seq(Gist \cup {NoText})
    BY <1>2, <1>3, LexiconFacts
  <1>5. PICK set : set = ToSet(texts) \ {NoText}
    OBVIOUS
  <1>6. Among(texts, set) \in Seq((Gist \cup {NoText}) \cap set)
    BY <1>4, AmongType
  <1>7. (Gist \cup {NoText}) \cap set \subseteq Gist
    BY <1>5
  <1>8. Among(texts, set) \in Seq(Gist)
    BY <1>6, <1>7, SeqOfMore
  <1>9. Texts(term) = UpToLimit(Distinct(Among(texts, set)))
    BY <1>1, <1>2, <1>3, <1>5 DEF Texts
  <1>10. Distinct(Among(texts, set)) \in Seq(Gist)
    BY <1>8, DistinctType
  <1> QED
    BY <1>9, <1>10, UpToType

-----------------------------------------------------------------------------
(* Entries that are filled.                                                *)

\* An entry and what becomes of it: nothing is taken away, no flat word is added
\* without an entry that can be shown, and the search index is kept up.
Grown(old, new) ==
    /\ old.definition \in {<<>>, new.definition}
    /\ \A c \in LinkColumn :
          /\ new.words[c] \in Longer(Headword, old.words[c])
          /\ new.entries[c] \in Longer(NamedEntry, old.entries[c])
          /\ ToSet(new.words[c]) \ ToSet(old.words[c]) \subseteq RichWords(new.entries[c])
    /\ new.synonyms \in Longer(Headword, old.synonyms)
    /\ new.antonyms \in Longer(Headword, old.antonyms)
    /\ new.senses \in Longer(Synset, old.senses)
    /\ new.searched = Searchable(new)

LEMMA EntryFacts ==
    ASSUME NEW e \in WordnetEntry
    PROVE  /\ e.definition \in Seq(Gist) /\ e.synonyms \in Seq(Headword)
           /\ e.antonyms \in Seq(Headword) /\ e.senses \in Seq(Synset)
           /\ \A c \in LinkColumn : e.words[c] \in Seq(Headword) /\ e.entries[c] \in Seq(NamedEntry)
           /\ e.words \in [LinkColumn -> Seq(Headword)]
           /\ e.entries \in [LinkColumn -> Seq(NamedEntry)]
           /\ e.sourced \in BOOLEAN
           /\ Searchable(e) \in Seq(Gist) \X Seq(Headword)
  <1>1. /\ e.definition \in Seq(Gist) /\ e.synonyms \in Seq(Headword)
        /\ e.antonyms \in Seq(Headword) /\ e.senses \in Seq(Synset)
        /\ e.words \in [LinkColumn -> Seq(Headword)]
        /\ e.entries \in [LinkColumn -> Seq(NamedEntry)]
        /\ e.sourced \in BOOLEAN
    BY DEF WordnetEntry, NamedEntry
  <1>2. "phrases" \in LinkColumn
    BY DEF LinkColumn
  <1> QED
    BY <1>1, <1>2 DEF Searchable

LEMMA GrownSame ==
    ASSUME NEW e \in WordnetEntry, e.searched = Searchable(e)
    PROVE  Grown(e, e)
  BY EntryFacts, LongerFacts DEF Grown

LEMMA GrownAgain ==
    ASSUME NEW a \in WordnetEntry, NEW b \in WordnetEntry, NEW c \in WordnetEntry,
           Grown(a, b), Grown(b, c)
    PROVE  Grown(a, c)
  <1>1. /\ a.definition \in {<<>>, c.definition} /\ c.searched = Searchable(c)
        /\ c.synonyms \in Longer(Headword, a.synonyms)
        /\ c.antonyms \in Longer(Headword, a.antonyms)
        /\ c.senses \in Longer(Synset, a.senses)
    BY EntryFacts, LongerFacts DEF Grown
  <1>2. ASSUME NEW l \in LinkColumn
        PROVE  /\ c.words[l] \in Longer(Headword, a.words[l])
               /\ c.entries[l] \in Longer(NamedEntry, a.entries[l])
               /\ ToSet(c.words[l]) \ ToSet(a.words[l]) \subseteq RichWords(c.entries[l])
    <2>1. /\ c.words[l] \in Longer(Headword, a.words[l])
          /\ c.entries[l] \in Longer(NamedEntry, a.entries[l])
      BY EntryFacts, LongerFacts DEF Grown
    <2>2. RichWords(b.entries[l]) \subseteq RichWords(c.entries[l])
      <3>1. b.entries[l] \in Seq(NamedEntry)
        BY EntryFacts
      <3>2. c.entries[l] \in Longer(NamedEntry, b.entries[l])
        BY DEF Grown
      <3> QED
        BY <3>1, <3>2, RichGrows
    <2> QED
      BY <2>1, <2>2 DEF Grown
  <1> QED
    BY <1>1, <1>2 DEF Grown

LEMMA OewnSensesGrow ==
    ASSUME NEW senses \in Seq(Synset), NEW more \in Seq(Synset)
    PROVE  MergeOewnSenses(senses, more) \in Longer(Synset, senses)
  <1>1. PICK given, set :
           /\ given = Distinct(more)
           /\ MergeOewnSenses(senses, more) = senses \o UpToLimit(Among(given, set))
    BY DEF MergeOewnSenses
  <1>2. given \in Seq(Synset)
    BY <1>1, DistinctType
  <1>3. Among(given, set) \in Seq(Synset \cap set)
    BY <1>2, AmongType
  <1>4. Among(given, set) \in Seq(Synset)
    BY <1>3, SeqOfMore
  <1>5. UpToLimit(Among(given, set)) \in Seq(Synset)
    BY <1>4, UpToType
  <1> QED
    BY <1>1, <1>5, LongerConcat

\* One column of links and its rich entries.
LEMMA ColumnGrows ==
    ASSUME NEW words \in Seq(Headword), NEW entries \in Seq(NamedEntry),
           NEW resolved \in Seq(Headword),
           NEW more, more = MergeEntries(entries, resolved),
           NEW flat, flat = MergeFlat(words, more, resolved)
    PROVE  /\ more \in Longer(NamedEntry, entries)
           /\ flat \in Longer(Headword, words)
           /\ ToSet(flat) \ ToSet(words) \subseteq RichWords(more)
  <1>1. PICK U, usable : /\ U = Headword \cap RichWords(more)
                         /\ usable = Among(resolved, RichWords(more))
    OBVIOUS
  <1>2. usable \in Seq(U)
    BY <1>1, AmongType
  <1>3. flat = MergeWords(words, usable)
    BY <1>1 DEF MergeFlat
  <1>4. U \subseteq Headword /\ U \subseteq RichWords(more)
    BY <1>1
  <1>5. flat \in Longer(Headword, words) /\ ToSet(flat) \ ToSet(words) \subseteq U
    BY <1>2, <1>3, <1>4, MergeWordsFacts
  <1>6. more \in Longer(NamedEntry, entries)
    BY MergeEntriesFacts
  <1> QED
    BY <1>4, <1>5, <1>6
\* An entry from its fields.
Entry(d, syn, ant, words, entries, senses, sourced, searched) ==
    [definition |-> d, synonyms |-> syn, antonyms |-> ant, words |-> words,
     entries |-> entries, senses |-> senses, sourced |-> sourced, searched |-> searched]

EntryFields ==
    {"definition", "synonyms", "antonyms", "words", "entries", "senses", "sourced", "searched"}

LEMMA EntryFromFields ==
    ASSUME NEW e, e = [f \in EntryFields |-> e[f]]
    PROVE  e = Entry(e.definition, e.synonyms, e.antonyms, e.words, e.entries, e.senses,
                     e.sourced, e.searched)
  BY DEF Entry, EntryFields

LEMMA EntrySearched ==
    ASSUME NEW old, old = [f \in EntryFields |-> old[f]], NEW index
    PROVE  [old EXCEPT !.searched = index]
               = Entry(old.definition, old.synonyms, old.antonyms, old.words, old.entries,
                       old.senses, old.sourced, index)
  <1> DEFINE e == [old EXCEPT !.searched = index]
  <1>1. e = [f \in EntryFields |-> e[f]]
    OBVIOUS
  <1>2. /\ e.definition = old.definition /\ e.synonyms = old.synonyms
        /\ e.antonyms = old.antonyms /\ e.words = old.words /\ e.entries = old.entries
        /\ e.senses = old.senses /\ e.sourced = old.sourced /\ e.searched = index
    BY DEF EntryFields
  <1> HIDE DEF e
  <1>3. e = Entry(old.definition, old.synonyms, old.antonyms, old.words, old.entries,
                  old.senses, old.sourced, index)
    BY <1>1, <1>2, EntryFromFields
  <1> QED
    BY <1>3 DEF e

LEMMA FilledGrows ==
    ASSUME NEW old \in WordnetEntry, old.searched = Searchable(old),
           NEW d \in Seq(Gist), old.definition \in {<<>>, d},
           NEW syn \in Longer(Headword, old.synonyms),
           NEW ant \in Longer(Headword, old.antonyms),
           NEW entries \in [LinkColumn -> Seq(NamedEntry)],
           NEW words \in [LinkColumn -> Seq(Headword)],
           \A c \in LinkColumn :
              /\ entries[c] \in Longer(NamedEntry, old.entries[c])
              /\ words[c] \in Longer(Headword, old.words[c])
              /\ ToSet(words[c]) \ ToSet(old.words[c]) \subseteq RichWords(entries[c]),
           NEW senses \in Longer(Synset, old.senses),
           NEW new, new = Entry(d, syn, ant, words, entries, senses, TRUE, <<d, words["phrases"]>>)
    PROVE  new \in WordnetEntry /\ Grown(old, new) /\ new.sourced
  <1>1. /\ new.definition = d /\ new.synonyms = syn /\ new.antonyms = ant
        /\ new.words = words /\ new.entries = entries /\ new.senses = senses
        /\ new.sourced = TRUE /\ new.searched = <<d, words["phrases"]>>
    BY DEF Entry
  <1>2. syn \in Seq(Headword) /\ ant \in Seq(Headword) /\ senses \in Seq(Synset)
    BY DEF Longer
  <1>3. <<d, words["phrases"]>> \in Seq(Gist) \X Seq(Headword)
    BY DEF LinkColumn
  <1>4. new \in WordnetEntry
    BY <1>2, <1>3 DEF WordnetEntry, Entry, NamedEntry
  <1>5. Grown(old, new)
    BY <1>1 DEF Grown, Searchable
  <1> QED
    BY <1>1, <1>4, <1>5

LEMMA ProcessStep ==
    ASSUME lexicon \in Lexicons, NEW term \in ToSet(lexicon.terms),
           NEW rows, rows = [w \in DOMAIN rows |-> rows[w]],
           term \in DOMAIN rows, NEW old \in WordnetEntry, old = rows[term],
           old.searched = Searchable(old)
    PROVE  \E new \in WordnetEntry :
               /\ ProcessTerm(rows, term) = [rows EXCEPT ![term] = new]
               /\ Grown(old, new) /\ new.sourced
  <1> DEFINE resolved == [c \in LinkColumn |-> Resolve(rows, LinkCandidates(term)[c])]
             entries == [c \in LinkColumn |-> MergeEntries(old.entries[c], resolved[c])]
             words == [c \in LinkColumn |-> MergeFlat(old.words[c], entries[c], resolved[c])]
             d == IF old.definition = <<>> THEN Texts(term) ELSE old.definition
             syn == MergeWords(old.synonyms, WordsIn(Synonyms(term)))
             ant == MergeWords(old.antonyms, WordsIn(LinksOf(term, "antonym")))
             senses == MergeOewnSenses(old.senses, lexicon.senses[term])
             filled ==
               [old EXCEPT !.definition = d, !.synonyms = syn, !.antonyms = ant,
                           !.entries = entries, !.words = words, !.senses = senses,
                           !.sourced = TRUE]
  <1>1. ProcessTerm(rows, term) =
           [rows EXCEPT ![term] =
               IF Searchable(filled) = Searchable(old) THEN filled
               ELSE [filled EXCEPT !.searched = Searchable(filled)]]
    BY DEF ProcessTerm
  <1>2. d \in Seq(Gist) /\ old.definition \in {<<>>, d}
    BY EntryFacts, EntryTextsType
  <1>3. syn \in Longer(Headword, old.synonyms)
    BY EntryFacts, SynonymsType, WordsInType, MergeWordsFacts
  <1>4. ant \in Longer(Headword, old.antonyms)
    BY EntryFacts, LinksOfType, WordsInType, MergeWordsFacts DEF LinkType
  <1>5. senses \in Longer(Synset, old.senses)
    BY EntryFacts, LexiconFacts, OewnSensesGrow
  <1>6. ASSUME NEW c \in LinkColumn
        PROVE  /\ entries[c] \in Longer(NamedEntry, old.entries[c])
               /\ words[c] \in Longer(Headword, old.words[c])
               /\ ToSet(words[c]) \ ToSet(old.words[c]) \subseteq RichWords(entries[c])
    <2>1. old.words[c] \in Seq(Headword) /\ old.entries[c] \in Seq(NamedEntry)
      BY EntryFacts
    <2>2. PICK found \in Seq(Headword) : found = resolved[c]
      BY LinkCandidatesType, ResolveType
    <2>3. PICK more : more = entries[c] /\ more = MergeEntries(old.entries[c], found)
      BY <2>2
    <2>4. PICK flat : flat = words[c] /\ flat = MergeFlat(old.words[c], more, found)
      BY <2>2, <2>3
    <2> HIDE DEF entries, words, resolved
    <2> QED
      BY <2>1, <2>3, <2>4, ColumnGrows
  <1>7. entries \in [LinkColumn -> Seq(NamedEntry)] /\ words \in [LinkColumn -> Seq(Headword)]
    <2>1. \A c \in LinkColumn : entries[c] \in Seq(NamedEntry) /\ words[c] \in Seq(Headword)
      <3> HIDE DEF entries, words
      <3> QED
        BY <1>6 DEF Longer
    <2>2. entries = [c \in LinkColumn |-> entries[c]] /\ words = [c \in LinkColumn |-> words[c]]
      OBVIOUS
    <2> HIDE DEF entries, words
    <2> QED
      BY <2>1, <2>2
  <1> HIDE DEF d, syn, ant, senses, entries, words, resolved
  <1> DEFINE new == Entry(d, syn, ant, words, entries, senses, TRUE, <<d, words["phrases"]>>)
  <1>8. filled = Entry(d, syn, ant, words, entries, senses, TRUE, Searchable(old))
    <2>1. old = [f \in EntryFields |-> old[f]]
      BY DEF WordnetEntry, EntryFields
    <2>2. filled = [f \in EntryFields |-> filled[f]]
      BY <2>1
    <2>3. /\ filled.definition = d /\ filled.synonyms = syn /\ filled.antonyms = ant
          /\ filled.words = words /\ filled.entries = entries /\ filled.senses = senses
          /\ filled.sourced = TRUE /\ filled.searched = old.searched
      BY <2>1 DEF EntryFields
    <2> HIDE DEF filled
    <2>4. filled = Entry(d, syn, ant, words, entries, senses, TRUE, old.searched)
      <3>1. filled = Entry(filled.definition, filled.synonyms, filled.antonyms, filled.words,
                           filled.entries, filled.senses, filled.sourced, filled.searched)
        BY <2>2, EntryFromFields, Zenon
      <3> QED
        BY <2>3, <3>1, Zenon
    <2> QED
      BY <2>4
  <1>9. Searchable(filled) = <<d, words["phrases"]>>
    BY <1>8 DEF Entry, Searchable
  <1>10. [filled EXCEPT !.searched = Searchable(filled)] = new
    <2> HIDE DEF filled
    <2>1. /\ filled = [f \in EntryFields |-> filled[f]]
          /\ filled.definition = d /\ filled.synonyms = syn /\ filled.antonyms = ant
          /\ filled.words = words /\ filled.entries = entries /\ filled.senses = senses
          /\ filled.sourced = TRUE
      BY <1>8 DEF Entry, EntryFields
    <2>2. PICK index : index = Searchable(filled) /\ index = <<d, words["phrases"]>>
      BY <1>9
    <2>3. [filled EXCEPT !.searched = index]
             = Entry(filled.definition, filled.synonyms, filled.antonyms, filled.words,
                     filled.entries, filled.senses, filled.sourced, index)
      BY <2>1, EntrySearched, Zenon
    <2>4. PICK e : e = [filled EXCEPT !.searched = index]
      OBVIOUS
    <2>5. e = new
      BY <2>1, <2>2, <2>3, <2>4
    <2> QED
      BY <2>2, <2>4, <2>5
  <1>11. (IF Searchable(filled) = Searchable(old) THEN filled
          ELSE [filled EXCEPT !.searched = Searchable(filled)]) = new
    BY <1>8, <1>9, <1>10
  <1>12. ProcessTerm(rows, term) = [rows EXCEPT ![term] = new]
    BY <1>1, <1>11
  <1>13. new \in WordnetEntry /\ Grown(old, new) /\ new.sourced
    <2> HIDE DEF new
    <2>1. new = Entry(d, syn, ant, words, entries, senses, TRUE, <<d, words["phrases"]>>)
      BY DEF new
    <2> QED
      BY <1>2, <1>3, <1>4, <1>5, <1>6, <1>7, <2>1, FilledGrows
  <1> HIDE DEF new
  <1> QED
    BY <1>12, <1>13
-----------------------------------------------------------------------------
(* Rows that are filled.                                                   *)

\* The search index is that of what the entries have.
SearchesItself(rows) ==
    /\ rows \in [DOMAIN rows -> WordnetEntry]
    /\ \A w \in DOMAIN rows : rows[w].searched = Searchable(rows[w])

\* What the rows of a dataset may become.
GrownFrom(base) ==
    {rows \in [DOMAIN base -> WordnetEntry] : \A w \in DOMAIN base : Grown(base[w], rows[w])}
Treated(base, w) == {rows \in GrownFrom(base) : w \in DOMAIN base => rows[w].sourced}

LEMMA TermFilled ==
    ASSUME lexicon \in Lexicons, NEW base, SearchesItself(base), NEW rows \in GrownFrom(base),
           NEW term \in ToSet(lexicon.terms)
    PROVE  /\ FillTerm(rows, term) \in Treated(base, term)
           /\ \A w : rows \in Treated(base, w) => FillTerm(rows, term) \in Treated(base, w)
  <1>1. /\ rows \in [DOMAIN base -> WordnetEntry] /\ DOMAIN rows = DOMAIN base
        /\ \A w \in DOMAIN base : Grown(base[w], rows[w])
    BY DEF GrownFrom
  <1>2. base \in [DOMAIN base -> WordnetEntry]
    BY DEF SearchesItself
  <1>3. CASE term \notin DOMAIN base
    <2>1. FillTerm(rows, term) = rows
      BY <1>1, <1>3 DEF FillTerm
    <2> QED
      BY <1>3, <2>1 DEF Treated
  <1>4. CASE term \in DOMAIN base
    <2>1. PICK old \in WordnetEntry : old = rows[term] /\ old.searched = Searchable(old)
      BY <1>1, <1>4 DEF Grown
    <2>2. PICK new \in WordnetEntry :
             /\ ProcessTerm(rows, term) = [rows EXCEPT ![term] = new]
             /\ Grown(old, new) /\ new.sourced
      <3>1. rows = [w \in DOMAIN rows |-> rows[w]] /\ term \in DOMAIN rows
        BY <1>1, <1>4
      <3> QED
        BY <2>1, <3>1, ProcessStep
    <2>3. Grown(base[term], new)
      BY <1>1, <1>2, <1>4, <2>1, <2>2, GrownAgain
    <2>4. PICK after : after = [rows EXCEPT ![term] = new] /\ after = FillTerm(rows, term)
      BY <1>1, <1>4, <2>2 DEF FillTerm
    <2>5. /\ after \in [DOMAIN base -> WordnetEntry] /\ after[term] = new
          /\ \A w \in DOMAIN base : w # term => after[w] = rows[w]
      BY <1>1, <1>4, <2>4
    <2>6. after \in GrownFrom(base)
      BY <1>1, <2>3, <2>5 DEF GrownFrom
    <2>7. \A w \in DOMAIN base : rows[w].sourced => after[w].sourced
      BY <2>2, <2>5
    <2> QED
      BY <2>2, <2>4, <2>5, <2>6, <2>7 DEF Treated
  <1> QED
    BY <1>3, <1>4

LEMMA BatchFilled ==
    ASSUME lexicon \in Lexicons, NEW base, SearchesItself(base), NEW rows \in GrownFrom(base),
           NEW terms, NEW n \in Nat, DOMAIN terms = 1 .. n,
           \A i \in 1 .. n : terms[i] \in ToSet(lexicon.terms)
    PROVE  /\ FoldLeft(FillTerm, rows, terms) \in GrownFrom(base)
           /\ \A i \in 1 .. n : FoldLeft(FillTerm, rows, terms) \in Treated(base, terms[i])
           /\ \A w : rows \in Treated(base, w) =>
                        FoldLeft(FillTerm, rows, terms) \in Treated(base, w)
  <1>1. ASSUME NEW a \in GrownFrom(base), NEW i \in 1 .. n
        PROVE  /\ FillTerm(a, terms[i]) \in GrownFrom(base)
               /\ FillTerm(a, terms[i]) \in Treated(base, terms[i])
               /\ \A w : a \in Treated(base, w) => FillTerm(a, terms[i]) \in Treated(base, w)
    <2>1. FillTerm(a, terms[i]) \in Treated(base, terms[i])
          /\ \A w : a \in Treated(base, w) => FillTerm(a, terms[i]) \in Treated(base, w)
      BY TermFilled
    <2> QED
      BY <2>1 DEF Treated
  <1>2. Fills!Keeps(GrownFrom(base), terms, n)
    BY <1>1 DEF Fills!Keeps
  <1>3. FoldLeft(FillTerm, rows, terms) \in GrownFrom(base)
    BY <1>2, Fills!FoldWithin, FillsSame
  <1>4. ASSUME NEW i \in 1 .. n
        PROVE  FoldLeft(FillTerm, rows, terms) \in Treated(base, terms[i])
    <2>1. Fills!Reaches(GrownFrom(base), Treated(base, terms[i]), terms, i, n)
      BY <1>1 DEF Fills!Reaches
    <2> QED
      BY <1>2, <2>1, Fills!FoldReaches, FillsSame
  <1>5. ASSUME NEW w, rows \in Treated(base, w)
        PROVE  FoldLeft(FillTerm, rows, terms) \in Treated(base, w)
    <2>1. Fills!Keeps(Treated(base, w), terms, n)
      BY <1>1 DEF Fills!Keeps, Treated
    <2> QED
      BY <1>5, <2>1, Fills!FoldWithin, FillsSame
  <1> QED
    BY <1>3, <1>4, <1>5

LEMMA NothingGrown ==
    ASSUME NEW base, SearchesItself(base)
    PROVE  base \in GrownFrom(base)
  BY GrownSame DEF GrownFrom, SearchesItself

LEMMA GrownSearches ==
    ASSUME NEW base, NEW rows \in GrownFrom(base)
    PROVE  SearchesItself(rows)
  BY DEF GrownFrom, SearchesItself, Grown

-----------------------------------------------------------------------------
(* The invariant: the candidate has every entry of its dataset, filled or not
   yet, and the terms before the next one have been treated. *)

TreatedBefore(rows, k) ==
    \A i \in 1 .. Len(lexicon.terms) : i < k => rows \in Treated(dataset, lexicon.terms[i])

CandidateGrows ==
    /\ prefill = [pc |-> prefill.pc, candidate |-> prefill.candidate, next |-> prefill.next]
    /\ prefill.pc = "fill" =>
          /\ prefill.next \in Nat \ {0} /\ prefill.candidate \in GrownFrom(dataset)
          /\ TreatedBefore(prefill.candidate, prefill.next)

OutputGrows ==
    Published => /\ output \in GrownFrom(dataset)
                 /\ TreatedBefore(output, Len(lexicon.terms) + 1)

PrefillGrows ==
    /\ lexicon \in Lexicons /\ SearchesItself(dataset)
    /\ CandidateGrows /\ OutputGrows
LEMMA CandidateUndisturbed ==
    ASSUME CandidateGrows, UNCHANGED <<lexicon, dataset, prefill>> PROVE CandidateGrows'
  BY DEF CandidateGrows, TreatedBefore

LEMMA OutputUndisturbed ==
    ASSUME OutputGrows, UNCHANGED <<lexicon, dataset, output>> PROVE OutputGrows'
  BY DEF OutputGrows, TreatedBefore, Published

LEMMA PrefillInitGrows == PrefillInit => PrefillGrows
  <1> SUFFICES ASSUME PrefillInit PROVE PrefillGrows
    OBVIOUS
  <1>1. lexicon \in Lexicons /\ SearchesItself(dataset)
    BY PrefillTypes DEF PrefillInit, SearchesItself
  <1>2. CandidateGrows
    BY DEF PrefillInit, Idle, CandidateGrows
  <1>3. OutputGrows
    BY DEF PrefillInit, OutputGrows, Published
  <1> QED
    BY <1>1, <1>2, <1>3 DEF PrefillGrows

LEMMA StartGrows ==
    ASSUME PrefillGrows, StartPrefill PROVE PrefillGrows'
  <1>1. PICK rows : rows = dataset /\ SearchesItself(rows) /\ rows \in GrownFrom(dataset)
    BY NothingGrown DEF PrefillGrows
  <1>2. prefill' = [pc |-> "fill", candidate |-> rows, next |-> 1]
    BY <1>1 DEF StartPrefill
  <1>3. UNCHANGED <<lexicon, dataset, output>>
    BY DEF StartPrefill
  <1>4. prefill.pc' = "fill" /\ prefill.candidate' = rows /\ prefill.next' = 1
    BY <1>2
  <1>5. TreatedBefore(prefill.candidate, prefill.next)'
    BY <1>4 DEF TreatedBefore
  <1>6. prefill.candidate' \in GrownFrom(dataset)'
    BY <1>1, <1>3, <1>4
  <1>7. CandidateGrows'
    BY <1>2, <1>4, <1>5, <1>6 DEF CandidateGrows
  <1> QED
    BY <1>3, <1>7, OutputUndisturbed DEF PrefillGrows

LEMMA FillGrows ==
    ASSUME PrefillGrows, FillBatch PROVE PrefillGrows'
  <1>1. /\ UNCHANGED <<lexicon, dataset, output>>
        /\ prefill.pc = "fill" /\ prefill.next <= Len(lexicon.terms)
    BY DEF FillBatch
  <1>2. PICK k \in Nat \ {0}, rows \in GrownFrom(dataset) :
           /\ prefill = [pc |-> "fill", candidate |-> rows, next |-> k]
           /\ k <= Len(lexicon.terms) /\ TreatedBefore(rows, k)
    BY <1>1 DEF PrefillGrows, CandidateGrows
  <1>3. PICK all \in Seq(Headword), size \in Nat :
           /\ all = lexicon.terms /\ size = Len(all) /\ DOMAIN all = 1 .. size
           /\ \A i \in 1 .. size : all[i] \in ToSet(lexicon.terms)
    <2>1. PICK all \in Seq(Headword) : all = lexicon.terms
      BY LexiconFacts DEF PrefillGrows
    <2>2. Len(all) \in Nat /\ DOMAIN all = 1 .. Len(all)
      BY <2>1
    <2> QED
      BY <2>1, <2>2 DEF ToSet
  <1>4. PICK last \in Nat, end \in Nat :
           /\ last = k + PrefillBatch - 1 /\ end = IF last < size THEN last ELSE size
           /\ prefill' = [prefill EXCEPT
                              !.candidate = FoldLeft(FillTerm, @, SubSeq(all, k, end)),
                              !.next = last + 1]
    <2>1. PICK last : last = k + PrefillBatch - 1 /\ last \in Nat
      BY <1>2, PrefillConstants
    <2>2. PICK end : end = (IF last < size THEN last ELSE size) /\ end \in Nat
      BY <2>1
    <2> QED
      BY <1>2, <1>3, <2>1, <2>2 DEF FillBatch
  <1>5. PICK terms : terms = SubSeq(all, k, end)
    OBVIOUS
  <1>6. k <= end /\ end <= size /\ k <= last
    BY <1>2, <1>3, <1>4, PrefillConstants
  <1>7. PICK n \in Nat : n = end - k + 1
    BY <1>6
  <1>8. DOMAIN terms = 1 .. n /\ \A i \in 1 .. n : terms[i] = all[k + i - 1]
    BY <1>3, <1>6, <1>7, <1>5
  <1>9. \A i \in 1 .. n : terms[i] \in ToSet(lexicon.terms)
    BY <1>3, <1>6, <1>7, <1>8
  <1>10. PICK after : after = FoldLeft(FillTerm, rows, terms)
    OBVIOUS
  <1>11. /\ after \in GrownFrom(dataset)
         /\ \A i \in 1 .. n : after \in Treated(dataset, terms[i])
         /\ \A w : rows \in Treated(dataset, w) => after \in Treated(dataset, w)
    BY <1>8, <1>9, <1>10, BatchFilled DEF PrefillGrows
  <1>12. ASSUME NEW i \in 1 .. size, i < last + 1
         PROVE  after \in Treated(dataset, all[i])
    <2>1. CASE i < k
      BY <1>2, <1>3, <1>11, <2>1 DEF TreatedBefore
    <2>2. CASE ~(i < k)
      <3>1. i <= end /\ i - k + 1 \in 1 .. n /\ k + (i - k + 1) - 1 = i
        BY <1>4, <1>6, <1>7, <1>12, <2>2
      <3> QED
        BY <1>8, <1>11, <3>1
    <2> QED
      BY <2>1, <2>2
  <1>13. PICK next \in Nat \ {0} : next = last + 1
    BY <1>4
  <1>14. prefill' = [pc |-> "fill", candidate |-> after, next |-> next]
    BY <1>2, <1>4, <1>5, <1>10, <1>13
  <1>15. prefill.pc' = "fill" /\ prefill.candidate' = after /\ prefill.next' = next
    BY <1>14
  <1>16. TreatedBefore(prefill.candidate, prefill.next)'
    BY <1>1, <1>3, <1>12, <1>13, <1>15 DEF TreatedBefore
  <1>17. prefill.candidate' \in GrownFrom(dataset)'
    BY <1>1, <1>11, <1>15
  <1>18. CandidateGrows'
    BY <1>14, <1>15, <1>16, <1>17 DEF CandidateGrows
  <1> QED
    BY <1>1, <1>18, OutputUndisturbed DEF PrefillGrows

LEMMA PublishGrows ==
    ASSUME PrefillGrows, PublishCandidate PROVE PrefillGrows'
  <1>1. UNCHANGED <<lexicon, dataset>> /\ prefill' = Idle /\ prefill.pc = "fill"
    BY DEF PublishCandidate
  <1>2. CandidateGrows'
    BY <1>1 DEF Idle, CandidateGrows
  <1>3. CASE output # NoFile
    BY <1>1, <1>2, <1>3, OutputUndisturbed DEF PublishCandidate, PrefillGrows
  <1>4. CASE output = NoFile
    <2>1. PICK rows \in GrownFrom(dataset), k \in Nat :
             /\ rows = prefill.candidate /\ output' = rows
             /\ k > Len(lexicon.terms) /\ TreatedBefore(rows, k)
      BY <1>1, <1>4 DEF PublishCandidate, PrefillGrows, CandidateGrows
    <2>2. Len(lexicon.terms) \in Nat
      BY LexiconFacts DEF PrefillGrows
    <2>3. \A i \in 1 .. Len(lexicon.terms) : rows \in Treated(dataset, lexicon.terms[i])
      BY <2>1, <2>2 DEF TreatedBefore
    <2>4. OutputGrows'
      BY <1>1, <2>1, <2>3 DEF OutputGrows, TreatedBefore
    <2> QED
      BY <1>1, <1>2, <2>4 DEF PrefillGrows
  <1> QED
    BY <1>3, <1>4

LEMMA AdoptGrows ==
    ASSUME PrefillGrows, AdoptOutput PROVE PrefillGrows'
  <1>1. /\ UNCHANGED <<lexicon, prefill>> /\ prefill = Idle
        /\ dataset' = output /\ output' = NoFile /\ Published
    BY DEF AdoptOutput, Published
  <1>2. SearchesItself(output)
    BY <1>1, GrownSearches DEF PrefillGrows, OutputGrows
  <1>3. SearchesItself(dataset)'
    BY <1>1, <1>2
  <1>4. CandidateGrows'
    BY <1>1 DEF Idle, CandidateGrows
  <1>5. OutputGrows'
    BY <1>1 DEF OutputGrows, Published
  <1> QED
    BY <1>1, <1>3, <1>4, <1>5 DEF PrefillGrows

LEMMA PrefillDeathGrows ==
    ASSUME PrefillGrows, PrefillDies \/ OutputOccupied PROVE PrefillGrows'
  <1>1. CASE PrefillDies
    <2>1. CandidateGrows'
      BY <1>1 DEF PrefillDies, Idle, CandidateGrows
    <2> QED
      BY <1>1, <2>1, OutputUndisturbed DEF PrefillDies, PrefillGrows
  <1>2. CASE OutputOccupied
    <2>1. OutputGrows'
      BY <1>2 DEF OutputOccupied, OutputGrows, Published
    <2> QED
      BY <1>2, <2>1, CandidateUndisturbed DEF OutputOccupied, PrefillGrows
  <1> QED
    BY <1>1, <1>2

LEMMA GrowthExtends == PrefillGrows => PrefillExtends
  <1> SUFFICES ASSUME PrefillGrows, Published PROVE PrefillExtends
    BY DEF PrefillExtends
  <1>1. /\ output \in [DOMAIN dataset -> WordnetEntry] /\ DOMAIN output = DOMAIN dataset
        /\ dataset \in [DOMAIN dataset -> WordnetEntry]
    BY DEF PrefillGrows, OutputGrows, GrownFrom, SearchesItself
  <1>2. ASSUME NEW w \in DOMAIN dataset
        PROVE  LET old == dataset[w]
                   new == output[w]
               IN /\ old.definition \in {<<>>, new.definition}
                  /\ \A c \in LinkColumn :
                        /\ IsPrefix(old.words[c], new.words[c])
                        /\ IsPrefix(old.entries[c], new.entries[c])
                        /\ ToSet(new.words[c]) \ ToSet(old.words[c]) \subseteq RichWords(new.entries[c])
                  /\ IsPrefix(old.synonyms, new.synonyms) /\ IsPrefix(old.antonyms, new.antonyms)
                  /\ IsPrefix(old.senses, new.senses)
                  /\ new.searched = Searchable(new)
                  /\ w \in ToSet(lexicon.terms) => new.sourced
    <2>1. PICK old \in WordnetEntry, new \in WordnetEntry :
             old = dataset[w] /\ new = output[w] /\ Grown(old, new)
      BY <1>1, <1>2 DEF PrefillGrows, OutputGrows, GrownFrom
    <2>2. ASSUME NEW c \in LinkColumn
          PROVE  /\ IsPrefix(old.words[c], new.words[c])
                 /\ IsPrefix(old.entries[c], new.entries[c])
                 /\ ToSet(new.words[c]) \ ToSet(old.words[c]) \subseteq RichWords(new.entries[c])
      <3>1. /\ old.words[c] \in Seq(Headword) /\ old.entries[c] \in Seq(NamedEntry)
            /\ new.words[c] \in Longer(Headword, old.words[c])
            /\ new.entries[c] \in Longer(NamedEntry, old.entries[c])
            /\ ToSet(new.words[c]) \ ToSet(old.words[c]) \subseteq RichWords(new.entries[c])
        BY <2>1, EntryFacts DEF Grown
      <3>2. IsPrefix(old.words[c], new.words[c])
        BY <3>1, LongerFacts
      <3>3. IsPrefix(old.entries[c], new.entries[c])
        BY <3>1, LongerFacts
      <3> QED
        BY <3>1, <3>2, <3>3
    <2>3. /\ IsPrefix(old.synonyms, new.synonyms) /\ IsPrefix(old.antonyms, new.antonyms)
          /\ IsPrefix(old.senses, new.senses)
      BY <2>1, EntryFacts, LongerFacts DEF Grown
    <2>4. w \in ToSet(lexicon.terms) => new.sourced
      <3> SUFFICES ASSUME w \in ToSet(lexicon.terms) PROVE new.sourced
        OBVIOUS
      <3>1. PICK n \in Nat : n = Len(lexicon.terms) /\ DOMAIN lexicon.terms = 1 .. n
        BY LexiconFacts DEF PrefillGrows
      <3>2. PICK i \in 1 .. n : w = lexicon.terms[i]
        BY <3>1 DEF ToSet
      <3>3. output \in Treated(dataset, w)
        BY <3>1, <3>2 DEF PrefillGrows, OutputGrows, TreatedBefore
      <3> QED
        BY <2>1, <3>3 DEF Treated
    <2> QED
      BY <2>1, <2>2, <2>3, <2>4 DEF Grown
  <1> QED
    BY <1>1, <1>2 DEF PrefillExtends

(* The invariant of a prefill, whatever OEWN and the dataset say, the limits and the
   size of a batch, with deaths, an occupied output and repetitions. *)
THEOREM PrefillInvariant == PrefillSpec => []PrefillGrows
  <1>1. PrefillGrows /\ [PrefillNext]_prefillVars => PrefillGrows'
    <2> SUFFICES ASSUME PrefillGrows, [PrefillNext]_prefillVars PROVE PrefillGrows'
      OBVIOUS
    <2>1. CASE UNCHANGED prefillVars
      BY <2>1, CandidateUndisturbed, OutputUndisturbed DEF prefillVars, PrefillGrows
    <2> QED
      BY <2>1, StartGrows, FillGrows, PublishGrows, AdoptGrows, PrefillDeathGrows DEF PrefillNext
  <1> QED
    BY <1>1, PrefillInitGrows, PTL DEF PrefillSpec

(* A published candidate takes nothing from its dataset, has treated every term,
   searches what it has and adds no flat word without an entry that can be shown
   (resolve_rich_candidates, process_term). *)
THEOREM PrefillsExtend == PrefillSpec => []PrefillExtends
  BY PrefillInvariant, GrowthExtends, PTL
===============================================================================
