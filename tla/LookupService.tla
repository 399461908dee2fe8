---------------------------- MODULE LookupService ----------------------------
(***************************************************************************)
(* What EdgeDictionaryBatcher promises to the row coroutines that call its *)
(* request method: every call returns once, with a result that was looked  *)
(* up for the caller's term with all the fields it needs, or it raises     *)
(* EdgeBatchRetryExhausted; and a quota refusal (HTTP 429) ends every call *)
(* that is outstanding at that moment.                                     *)
(***************************************************************************)
CONSTANTS Caller,    \* row coroutines
          Term,
          Field,     \* enrichment fields, the keys of `needs`
          TermOf,    \* the term each caller asks for
          NeedsOf,   \* the fields each caller needs
          Status     \* outcome classes of an HTTP status

VARIABLE answer

Idle == [state |-> "idle"]
Waiting == [state |-> "waiting"]

\* The return value: an item status, and what the item was requested for.
Result == [state : {"result"}, status : Status, term : Term, fields : SUBSET Field]
Failure == [state : {"failure"}, status : Status]
Answer == {Idle, Waiting} \cup Result \cup Failure

Outstanding == {c \in Caller : answer[c] = Waiting}
Fits(c, r) == r.term = TermOf[c] /\ NeedsOf[c] \subseteq r.fields

Init == answer = [c \in Caller |-> Idle]

Call(c) == answer[c] = Idle /\ answer' = [answer EXCEPT ![c] = Waiting]

\* The calls of S end together, all with results or all with the same failure.
Return(S) == \A c \in S : answer'[c] \in Result /\ Fits(c, answer'[c])

Fail(S) ==
    \E f \in Failure :
        /\ \A c \in S : answer'[c] = f
        /\ f.status = "quota" => S = Outstanding

End(S) ==
    /\ S # {}
    /\ answer' \in [Caller -> Answer]
    /\ \A c \in Caller \ S : answer'[c] = answer[c]
    /\ Return(S) \/ Fail(S)

Next ==
    \/ \E c \in Caller : Call(c)
    \/ \E S \in SUBSET Outstanding : End(S)

Spec == Init /\ [][Next]_answer
=============================================================================
