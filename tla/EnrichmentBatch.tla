--------------------------- MODULE EnrichmentBatch ---------------------------
(***************************************************************************)
(* enrichmentDictionaryBatch of worker/dictionary-edge.js over the Datamuse *)
(* limiter: the collectors post batches of terms; the Worker takes what it *)
(* can from its cache, asks the dictionary for each other term, and then   *)
(* leases the Datamuse requests of all of them at once.                    *)
(*                                                                         *)
(* The terms of a batch are handled by concurrent promises.  The lease is  *)
(* started by the last of them that asks for it, so that the promises wait *)
(* for each other: everything hangs on the count being right.              *)
(***************************************************************************)
EXTENDS DatamuseLimiter, FiniteSets, Functions

CONSTANTS Batch,      \* requests of the collectors
          Term,
          TermsOf,    \* the valid terms of a batch, at most eight
          NeedsOf,    \* the normalized needs of each of them
          MaxPosts    \* bound: posts in all

Need == {"definition", "pos", "usPhonetic", "ukPhonetic", "examples", "frequency",
         "synonyms", "antonyms", "phrases", "related"}

\* What dictionaryCapabilities can find, and so what needs the dictionary.
DictionaryNeeds == Need \ {"frequency", "phrases", "related"}

MaxCost == 4

ASSUME BatchConstants ==
    /\ IsFiniteSet(Batch) /\ IsFiniteSet(Term)
    /\ TermsOf \in [Batch -> SUBSET Term]
    /\ \A b \in Batch : TermsOf[b] # {} /\ MaxCost * Cardinality(TermsOf[b]) <= Burst
    /\ NeedsOf \in [Batch -> [Term -> SUBSET Need]]
    /\ MaxPosts \in Nat

VARIABLES serving,   \* the invocation of the Worker for each batch
          cache,     \* responses in the cache of the Worker
          sent,      \* history: requests sent to Datamuse
          posts

wvars == <<serving, cache, sent, posts>>
vars == <<lvars, wvars>>

\* enrichmentCacheKey, for one profile
Key(b, t) == <<t, NeedsOf[b][t]>>

Idle ==
    [pc |-> "idle", lease |-> "none",
     at |-> [t \in Term |-> "none"], dictionary |-> [t \in Term |-> "none"],
     cost |-> [t \in Term |-> 0]]

WInit == LInit /\ serving = [b \in Batch |-> Idle] /\ cache = {} /\ sent = 0 /\ posts = 0

Settled == {"ok", "failed", "denied"}
Missing(b) == {t \in TermsOf[b] : serving[b].at[t] \notin {"none", "cached"}}
Granted(b) == {t \in TermsOf[b] : serving[b].at[t] = "granted"}
CostOf(b, terms) == SumFunctionOnSet(serving[b].cost, terms)
TotalCost(b) == CostOf(b, Missing(b))

-----------------------------------------------------------------------------
\* cache.match may miss what was put, never find what was not.
Post(b) ==
    /\ serving[b].pc = "idle"
    /\ posts < MaxPosts /\ posts' = posts + 1
    /\ \E hits \in SUBSET {t \in TermsOf[b] : Key(b, t) \in cache} :
          serving' = [serving EXCEPT ![b] =
              [Idle EXCEPT !.pc = "serving",
                 !.at = [t \in Term |-> IF t \notin TermsOf[b] THEN "none"
                                        ELSE IF t \in hits THEN "cached" ELSE "dictionary"]]]
    /\ UNCHANGED <<lvars, cache, sent>>

\* The requests to Datamuse that what the dictionary found leaves necessary.
DatamuseNames(needs, found) ==
    (IF needs \cap {"related", "phrases"} # {} THEN {"related"} ELSE {})
        \cup (IF "frequency" \in needs
                 \/ (needs \ found) \cap {"definition", "pos", "usPhonetic"} # {}
              THEN {"exact"} ELSE {})
        \cup ((needs \ found) \cap {"synonyms", "antonyms"})

\* Faulty: the cached terms are waited for as well.
RegisterAwaitsAll(b, t) ==
    /\ serving[b].at[t] = "dictionary"
    /\ LET needs == NeedsOf[b][t]
           last == \A u \in TermsOf[b] \ {t} : serving[b].at[u] = "waiting"
       IN \E found \in SUBSET (needs \cap DictionaryNeeds), up \in BOOLEAN :
            /\ found # {} => up
            /\ serving' = [serving EXCEPT
                 ![b].at[t] = "waiting",
                 ![b].dictionary[t] = IF needs \cap DictionaryNeeds = {} THEN "none"
                                      ELSE IF up THEN "ok" ELSE "down",
                 ![b].cost[t] = Cardinality(DatamuseNames(needs, found)),
                 ![b].lease = IF last THEN "asked" ELSE @]
    /\ UNCHANGED <<lvars, cache, sent, posts>>

\* The dictionary has answered or timed out; the term asks for its lease.  The
\* last missing term of the batch to do so starts the lease.
Register(b, t) ==
    /\ serving[b].at[t] = "dictionary"
    /\ LET needs == NeedsOf[b][t]
           last == \A u \in Missing(b) \ {t} : serving[b].at[u] = "waiting"
       IN \E found \in SUBSET (needs \cap DictionaryNeeds), up \in BOOLEAN :
            /\ found # {} => up
            /\ serving' = [serving EXCEPT
                 ![b].at[t] = "waiting",
                 ![b].dictionary[t] = IF needs \cap DictionaryNeeds = {} THEN "none"
                                      ELSE IF up THEN "ok" ELSE "down",
                 ![b].cost[t] = Cardinality(DatamuseNames(needs, found)),
                 ![b].lease = IF last THEN "asked" ELSE @]
    /\ UNCHANGED <<lvars, cache, sent, posts>>

\* Every term that waits gets the outcome; one that costs nothing is granted.
Resolve(b, granted) ==
    /\ serving' = [serving EXCEPT
         ![b].lease = IF granted THEN "granted" ELSE "refused",
         ![b].at = [t \in Term |-> IF @[t] # "waiting" THEN @[t]
                                   ELSE IF granted \/ serving[b].cost[t] = 0
                                   THEN "granted" ELSE "denied"]]
    /\ UNCHANGED <<cache, sent, posts>>

\* Faulty: a limiter that does not answer is taken for a grant.
LeaseFailsOpen(b) ==
    /\ serving[b].lease = "asked"
    /\ LET total == TotalCost(b)
       IN IF total = 0 THEN Resolve(b, TRUE) /\ UNCHANGED lvars
          ELSE \/ Grant(total) /\ Resolve(b, TRUE)
               \/ Refuse(total) /\ Resolve(b, FALSE)
               \/ Resolve(b, TRUE) /\ UNCHANGED lvars

\* leaseDatamuseQuota.  The answer of the limiter may be lost, granted or not;
\* a limiter that cannot be reached, or finds the cost invalid, refuses.
Lease(b) ==
    /\ serving[b].lease = "asked"
    /\ LET total == TotalCost(b)
       IN IF total = 0 THEN Resolve(b, TRUE) /\ UNCHANGED lvars
          ELSE \/ Grant(total) /\ \E arrives \in BOOLEAN : Resolve(b, arrives)
               \/ Refuse(total) /\ Resolve(b, FALSE)
               \/ Resolve(b, FALSE) /\ UNCHANGED lvars

\* The Datamuse requests of one term have ended; a response other than 504 is
\* put into the cache.
Fetch(b, t) ==
    /\ serving[b].at[t] = "granted"
    /\ \E answered \in BOOLEAN :
         LET dictionary == serving[b].dictionary[t]
             asked == serving[b].cost[t] > 0
             good == \/ dictionary = "ok"
                     \/ asked /\ answered
                     \/ dictionary = "none" /\ ~asked
         IN /\ serving' = [serving EXCEPT ![b].at[t] = IF good THEN "ok" ELSE "failed"]
            /\ cache' = IF good THEN cache \cup {Key(b, t)} ELSE cache
    /\ sent' = sent + serving[b].cost[t]
    /\ UNCHANGED <<lvars, posts>>

\* Promise.all has every response; the collector has its reply, 429 if any
\* term was denied, and may post again.
Reply(b) ==
    /\ serving[b].pc = "serving"
    /\ \A t \in TermsOf[b] : serving[b].at[t] \in Settled \cup {"cached"}
    /\ serving' = [serving EXCEPT ![b] = Idle]
    /\ UNCHANGED <<lvars, cache, sent, posts>>

\* The collector gives up waiting, or the invocation is ended from outside,
\* when it may have sent the requests of any granted term.
Cancel(b) ==
    /\ serving[b].pc = "serving"
    /\ serving' = [serving EXCEPT ![b] = Idle]
    /\ \E begun \in SUBSET Granted(b) : sent' = sent + CostOf(b, begun)
    /\ UNCHANGED <<lvars, cache, posts>>

-----------------------------------------------------------------------------
Serve(b) == Lease(b) \/ Reply(b) \/ \E t \in Term : Register(b, t) \/ Fetch(b, t)
Limiter == (Tick \/ ReadStatus) /\ UNCHANGED wvars

Next == Limiter \/ \E b \in Batch : Post(b) \/ Serve(b) \/ Cancel(b)

\* Provider calls end by their timeout of 2.2 seconds, a call of the limiter
\* by an answer or an error.
Spec == WInit /\ [][Next]_vars /\ \A b \in Batch : WF_vars(Serve(b))

-----------------------------------------------------------------------------
(* Properties.                                                             *)

WTypeOK ==
    /\ LTypeOK
    /\ serving \in [Batch ->
         [pc : {"idle", "serving"}, lease : {"none", "asked", "granted", "refused"},
          at : [Term -> {"none", "cached", "dictionary", "waiting", "granted"} \cup Settled],
          dictionary : [Term -> {"none", "ok", "down"}],
          cost : [Term -> 0 .. MaxCost]]]
    /\ cache \subseteq Term \X SUBSET Need
    /\ sent \in Nat /\ posts \in 0 .. MaxPosts

(* The Worker fails closed: what was sent to Datamuse and what promises are
   about to send was leased before, also when answers of the limiter are lost
   or it is down, and whatever invocations are cancelled (leaseDatamuseQuota:
   "Failing closed prevents an outage from accidentally becoming unbounded").
   Nor is a lease ever asked for that even a full bucket would refuse. *)
Promised == SumFunction([b \in Batch |-> CostOf(b, Granted(b))])
NothingUnleased ==
    sent + Promised <= leased /\ \A b \in Batch : TotalCost(b) <= Burst

(* Every post is answered: the promises of a batch never wait for each other,
   whatever part of it was cached, costs nothing or timed out. *)
EveryPostAnswered ==
    \A b \in Batch : serving[b].pc = "serving" ~> serving[b].pc = "idle"
=============================================================================
