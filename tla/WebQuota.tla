------------------------------- MODULE WebQuota -------------------------------
(***************************************************************************)
(* The daily quota of service/server.py: /v1/web/lookup, /v1/web/suggest   *)
(* and /v1/web/generate run in the threads of one server process, pay in a *)
(* shared SQLite database, and a document is generated only in a slot of a *)
(* semaphore that nobody waits for.                                        *)
(*                                                                         *)
(* A thread takes the date before it waits for the write lock, so that a   *)
(* request is charged to the day it arrived on.                            *)
(***************************************************************************)
EXTENDS Naturals, FiniteSets

CONSTANTS Visitor,      \* values of x-lexora-client-hash
          Thread,       \* of the server
          Nobody,       \* no thread
          Limit,        \* quota_limit, from kinds
          Slots,        \* WEB_PDF_CONCURRENCY
          LastDay       \* bound: days

Kind == {"lookup", "pdf"}
Day == 0 .. LastDay
Account == Day \X Visitor \X Kind
LimitOf(account) == Limit[account[3]]

ASSUME QuotaConstants ==
    /\ Limit \in [Kind -> Nat] /\ Slots \in Nat \ {0} /\ LastDay \in Nat
    /\ IsFiniteSet(Thread) /\ Nobody \notin Thread

VARIABLES today,
          usage,      \* count of each row of daily_usage
          writer,     \* the thread that has the write lock of the database
          threads,    \* the request a thread handles
          permits,    \* of PDF_SEMAPHORE
          answered    \* history: lookups answered and generations begun

quotaVars == <<today, usage, writer, threads, permits, answered>>

\* The number is the count that was read, then the remainder that is reported.
Request(pc, account, number) == [pc |-> pc, account |-> account, number |-> number]
NoAccount == <<>>
Unused == Request("free", NoAccount, 0)

IsAt(t, pc) == threads[t].pc = pc
KindOf(t) == threads[t].account[3]
Freed(t) == threads' = [threads EXCEPT ![t] = Unused]

-----------------------------------------------------------------------------
(* consume_quota.                                                          *)

\* The date is read before the database is opened.
Arrive(t) ==
    /\ IsAt(t, "free")
    /\ \E v \in Visitor, k \in Kind :
          threads' = [threads EXCEPT ![t] = Request("asked", <<today, v, k>>, 0)]
    /\ UNCHANGED <<today, usage, writer, permits, answered>>

\* Faulty: the transaction takes its lock only with its first write.
CountDeferred(t) ==
    /\ IsAt(t, "asked")
    /\ threads' = [threads EXCEPT ![t] = Request("counted", @.account, usage[@.account])]
    /\ UNCHANGED <<today, usage, writer, permits, answered>>

\* BEGIN IMMEDIATE: one thread counts at a time.
Count(t) ==
    /\ IsAt(t, "asked") /\ writer = Nobody
    /\ writer' = t
    /\ threads' = [threads EXCEPT ![t] = Request("counted", @.account, usage[@.account])]
    /\ UNCHANGED <<today, usage, permits, answered>>

\* The lock is not obtained within five seconds: an error 500.
GiveUp(t) ==
    /\ IsAt(t, "asked") /\ writer # Nobody
    /\ Freed(t)
    /\ UNCHANGED <<today, usage, writer, permits, answered>>

\* The quota is used up (429), or the database fails before it has committed.
RollBack(t) ==
    /\ IsAt(t, "counted")
    /\ Freed(t) /\ writer' = Nobody
    /\ UNCHANGED <<today, usage, permits, answered>>

Commit(t) ==
    /\ IsAt(t, "counted")
    /\ LET account == threads[t].account
           next == threads[t].number + 1
           limit == LimitOf(account)
       IN /\ next <= limit
          /\ usage' = [usage EXCEPT ![account] = next]
          /\ threads' = [threads EXCEPT ![t] = Request("paid", account, limit - next)]
    /\ writer' = Nobody
    /\ UNCHANGED <<today, permits, answered>>

-----------------------------------------------------------------------------
(* What was paid for.                                                      *)

\* web_lookup or web_suggest; an error answers nothing.
AnswerLookup(t) ==
    /\ IsAt(t, "paid") /\ KindOf(t) = "lookup"
    /\ \E found \in BOOLEAN :
          answered' = IF found THEN [answered EXCEPT ![threads[t].account] = @ + 1]
                      ELSE answered
    /\ Freed(t)
    /\ UNCHANGED <<today, usage, writer, permits>>

\* web_generate; without a slot it is refused as busy (503), and has paid.
Generate(t) ==
    /\ IsAt(t, "paid") /\ KindOf(t) = "pdf" /\ permits > 0
    /\ permits' = permits - 1
    /\ answered' = [answered EXCEPT ![threads[t].account] = @ + 1]
    /\ threads' = [threads EXCEPT ![t].pc = "generating"]
    /\ UNCHANGED <<today, usage, writer>>

Busy(t) ==
    /\ IsAt(t, "paid") /\ KindOf(t) = "pdf" /\ permits = 0
    /\ Freed(t)
    /\ UNCHANGED <<today, usage, writer, permits, answered>>

\* The finally clause, after the document or an error.
Release(t) ==
    /\ IsAt(t, "generating")
    /\ permits' = permits + 1
    /\ Freed(t)
    /\ UNCHANGED <<today, usage, writer, answered>>

-----------------------------------------------------------------------------
\* SQLite rolls the open transaction back.
Restart ==
    /\ threads' = [t \in Thread |-> Unused]
    /\ writer' = Nobody /\ permits' = Slots
    /\ UNCHANGED <<today, usage, answered>>

Midnight ==
    /\ today < LastDay /\ today' = today + 1
    /\ UNCHANGED <<usage, writer, threads, permits, answered>>

QuotaInit ==
    /\ today = 0
    /\ usage = [account \in Account |-> 0] /\ answered = usage
    /\ writer = Nobody /\ permits = Slots
    /\ threads = [t \in Thread |-> Unused]

QuotaNext ==
    \/ Restart \/ Midnight
    \/ \E t \in Thread :
          \/ Arrive(t) \/ Count(t) \/ GiveUp(t) \/ RollBack(t) \/ Commit(t)
          \/ AnswerLookup(t) \/ Generate(t) \/ Busy(t) \/ Release(t)

QuotaSpec == QuotaInit /\ [][QuotaNext]_quotaVars

-----------------------------------------------------------------------------
(* Correctness.                                                            *)

QTypeOK ==
    /\ today \in Day
    /\ usage \in [Account -> Nat] /\ answered \in [Account -> Nat]
    /\ writer \in Thread \cup {Nobody} /\ permits \in Nat
    /\ threads \in
         [Thread -> [pc : {"free", "asked", "counted", "paid", "generating"},
                     account : Account \cup {NoAccount}, number : Nat]]
    /\ \A t \in Thread : ~IsAt(t, "free") => threads[t].account \in Account

\* Whatever threads, midnight and restarts interleave: what is answered and
\* generated on account of a day has been paid for one by one, never above the
\* limit; the remainders that requests of one account report differ; and no
\* more documents are generated at a time than there are slots, none of which
\* is ever lost.
Holders == {t \in Thread : IsAt(t, "paid") \/ IsAt(t, "generating")}
Generating == {t \in Thread : IsAt(t, "generating")}
Owed(account) == {t \in Thread : IsAt(t, "paid") /\ threads[t].account = account}

EveryAnswerIsPaid ==
    /\ \A account \in Account :
          /\ usage[account] <= LimitOf(account)
          /\ answered[account] + Cardinality(Owed(account)) <= usage[account]
    /\ \A t, u \in Holders :
          threads[t].account = threads[u].account /\ threads[t].number = threads[u].number
          => t = u
    /\ permits + Cardinality(Generating) = Slots
=============================================================================
