------------------------ MODULE EdgeDictionaryBatcher ------------------------
(***************************************************************************)
(* EdgeDictionaryBatcher of tools/enrich_oxford_scope.py: coroutines hand  *)
(* in terms through request, one flusher task takes them off `pending` in  *)
(* batches, posts each batch to the edge, retries what is worth retrying   *)
(* and resolves the callers' futures.                                      *)
(*                                                                         *)
(* asyncio switches tasks only at an await, so what a task does between    *)
(* two awaits is one action: Request up to `await future`, Take up to the  *)
(* POST, Respond from the reply to the next batch or the next sleep, Retry *)
(* after that sleep.                                                       *)
(***************************************************************************)
EXTENDS Naturals, Sequences

CONSTANTS Caller, Term, Field, TermOf, NeedsOf,
          BatchSize,     \* batch_size
          MaxAttempts    \* max_attempts

ASSUME BatcherConstants ==
    /\ TermOf \in [Caller -> Term]
    /\ NeedsOf \in [Caller -> SUBSET Field]
    /\ BatchSize \in Nat \ {0}
    /\ MaxAttempts \in Nat \ {0}

\* HTTP statuses by what the client does with them: 200, 429, 500/502/503/504,
\* any other, and no usable reply (a transport error or a malformed body).
Status == {"ok", "quota", "server", "refused", "lost"}

VARIABLES pending,   \* callers in the queue
          flusher,   \* the flusher task, with its locals
          answer     \* what each caller's future holds

bvars == <<pending, flusher, answer>>

Service == INSTANCE LookupService

Members(s) == {s[i] : i \in DOMAIN s}
TermsOf(batch) == {TermOf[c] : c \in Members(batch)}

\* Faulty: the first request for a term decides what is asked of the edge.
NeedsOfFirst(batch, t) ==
    LET first == CHOOSE i \in DOMAIN batch :
                    TermOf[batch[i]] = t /\ \A j \in 1 .. i - 1 : TermOf[batch[j]] # t
    IN NeedsOf[batch[first]]

\* needs_by_term: the union of what the batch's callers need of a term.
NeedsByTerm(batch, t) ==
    UNION {NeedsOf[c] : c \in {m \in Members(batch) : TermOf[m] = t}}

\* The flusher at pc with a batch that has not been posted.
Fresh(pc, batch) == [pc |-> pc, batch |-> batch, attempt |-> 0, results |-> <<>>]
NoFlusher == Fresh("none", <<>>)
NextBatch == Fresh("flush", <<>>)

\* A 200 reply carries an item for some of the terms; the Worker gives each a
\* status of its own, 200 or 504 (a 429 of one item becomes the whole reply's).
\* A refusal may carry a Retry-After that is too far away to wait for.
Items(T) == UNION {[D -> {"ok", "server"}] : D \in SUBSET T}
Reply(T) ==
    [status : {"ok"}, items : Items(T), far : {FALSE}]
        \cup [status : {"quota", "server"}, items : {<<>>}, far : BOOLEAN]
        \cup [status : {"refused", "lost"}, items : {<<>>}, far : {FALSE}]

BInit ==
    /\ pending = <<>>
    /\ flusher = NoFlusher
    /\ answer = [c \in Caller |-> Service!Idle]

-----------------------------------------------------------------------------
Request(c) ==
    /\ answer[c] = Service!Idle
    /\ pending' = Append(pending, c)
    /\ answer' = [answer EXCEPT ![c] = Service!Waiting]
    /\ flusher' = IF flusher.pc = "none" THEN NextBatch ELSE flusher

Take ==
    /\ flusher.pc = "flush"
    /\ LET n == IF Len(pending) < BatchSize THEN Len(pending) ELSE BatchSize
       IN /\ pending' = SubSeq(pending, n + 1, Len(pending))
          /\ flusher' = IF n = 0 THEN NoFlusher
                        ELSE Fresh("post", SubSeq(pending, 1, n))
    /\ UNCHANGED answer

\* What the batch's callers get when it is not given up: the item of their
\* term, or a failure of the term alone when no reply had one.
Delivered(c, results, status) ==
    [state |-> "result",
     status |-> IF TermOf[c] \in DOMAIN results THEN results[TermOf[c]]
                ELSE IF status = "ok" THEN "server" ELSE status,
     term |-> TermOf[c],
     fields |-> NeedsByTerm(flusher.batch, TermOf[c])]

\* A reply that is final: the futures of the batch get their results.
Deliver(results, status) ==
    /\ answer' = [c \in Caller |-> IF c \in Members(flusher.batch)
                                   THEN Delivered(c, results, status)
                                   ELSE answer[c]]
    /\ flusher' = NextBatch
    /\ UNCHANGED pending

\* Faulty: any exhausted batch ends the flusher, and the queue waits for none.
GiveUpStops(status) ==
    /\ answer' = [c \in Caller |->
                    IF c \in Members(flusher.batch)
                    THEN [state |-> "failure", status |-> status] ELSE answer[c]]
    /\ flusher' = NoFlusher
    /\ UNCHANGED pending

\* Retries are exhausted.  A quota refusal also drains the queue and ends the
\* flusher; any other failure is the batch's alone and the flusher goes on.
GiveUp(status) ==
    LET owned == Members(flusher.batch) \cup
                    (IF status = "quota" THEN Members(pending) ELSE {})
    IN /\ answer' = [c \in Caller |->
                       IF c \in owned THEN [state |-> "failure", status |-> status]
                       ELSE answer[c]]
       /\ IF status = "quota"
          THEN pending' = <<>> /\ flusher' = NoFlusher
          ELSE flusher' = NextBatch /\ UNCHANGED pending

\* A reply that omits a requested term counts as a 502; the items of an
\* earlier incomplete reply stay in `results`.
Respond(reply) ==
    /\ flusher.pc = "post"
    /\ LET results == IF reply.status = "ok" THEN reply.items ELSE flusher.results
           status == IF reply.status = "ok"
                        /\ DOMAIN reply.items # TermsOf(flusher.batch)
                     THEN "server" ELSE reply.status
       IN IF status \in {"ok", "refused"}
          THEN Deliver(results, status)
          ELSE IF reply.far \/ flusher.attempt + 1 >= MaxAttempts
               THEN GiveUp(status)
               ELSE /\ flusher' = [flusher EXCEPT !.pc = "backoff", !.results = results]
                    /\ UNCHANGED <<pending, answer>>

Retry ==
    /\ flusher.pc = "backoff"
    /\ flusher' = [flusher EXCEPT !.pc = "post", !.attempt = @ + 1]
    /\ UNCHANGED <<pending, answer>>

-----------------------------------------------------------------------------
Flush == Take \/ (\E reply \in Reply(TermsOf(flusher.batch)) : Respond(reply)) \/ Retry
BNext == (\E c \in Caller : Request(c)) \/ Flush

\* The event loop runs the flusher, and httpx ends every POST by an answer or
\* by its 20 s timeout.
BSpec == BInit /\ [][BNext]_bvars /\ WF_bvars(Flush)

-----------------------------------------------------------------------------
(* Properties.                                                             *)

Task == [pc : {"none", "flush", "post", "backoff"}, batch : Seq(Caller),
         attempt : 0 .. MaxAttempts - 1, results : Items(Term)]

BTypeOK ==
    /\ pending \in Seq(Caller)
    /\ flusher \in Task
    /\ answer \in [Caller -> Service!Answer]

(* A future is unresolved exactly while its caller is in the queue or in the
   batch in flight, once: no call is dropped between the slice and the del of
   _flush, answered twice, or left behind in `owned`. *)
OnePlacePerCall ==
    LET place == flusher.batch \o pending
    IN /\ {c \in Caller : answer[c] = Service!Waiting} = Members(place)
       /\ \A i, j \in DOMAIN place : place[i] = place[j] => i = j

(* The queue is never left without a flusher: `flush_task is None` under the
   lock means that nobody waits (the lost wake-up between the empty check of
   _flush and request). *)
NoOrphanedCalls == flusher.pc = "none" => pending = <<>> /\ flusher.batch = <<>>

(* Every call made is answered, whatever the edge replies. *)
EveryCallReturns ==
    \A c \in Caller : answer[c] = Service!Waiting ~> answer[c] # Service!Waiting

(* The batcher implements LookupService: calls return once, with a result for
   their own term that was requested with all their needs, also when callers
   with different needs share a term, and 429 leaves no call outstanding. *)
ImplementsService == Service!Spec
=============================================================================
