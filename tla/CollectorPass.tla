---------------------------- MODULE CollectorPass ----------------------------
(***************************************************************************)
(* run of tools/enrich_oxford_scope.py under `--profile auto`: a core pass *)
(* and then a deep pass over one shard.  A pass takes the eligible rows in *)
(* groups of `workers`, one process_row coroutine per row; the coroutines  *)
(* of a group share the edge batcher (EdgeDictionaryBatcher, whose callers *)
(* are the rows), the dataset connection and the state connection.         *)
(*                                                                         *)
(* The process may die at any await and between the two commits of a row;  *)
(* the service is started again (on-failure, boot, the daily repair's      *)
(* ExecStopPost) and a new pass scans the shard from its beginning.        *)
(***************************************************************************)
EXTENDS EdgeDictionaryBatcher, FiniteSets

CONSTANTS Shard,      \* the rows of the shard in (frequency_rank, id) order
          DeepGaps,   \* rows that lack synonyms, antonyms, phrases or related
          Workers,    \* --workers: rows per group
          Limits,     \* what --limit may be: 0 means all pending rows
          MaxFaults   \* bound: failed replies and deaths of the process

ASSUME CollectorConstants ==
    /\ Shard \in Seq(Caller) /\ Members(Shard) = Caller
    /\ \A i, j \in DOMAIN Shard : Shard[i] = Shard[j] => i = j
    /\ DeepGaps \subseteq Caller
    /\ Workers \in Nat \ {0} /\ Limits \subseteq Nat /\ Limits # {} /\ MaxFaults \in Nat

VARIABLES marker,     \* entries.enrichment_json as committed
          dirty,      \* markers written on the dataset connection, uncommitted
          recorded,   \* rows with a committed provider_state record
          upserts,    \* provider_state rows uncommitted on the state connection
          task,       \* what became of each row in this pass
          pass,       \* the process, its profile and its position
          faults

cvars == <<marker, dirty, recorded, upserts, task, pass, faults>>
vars == <<bvars, cvars>>

\* "incomplete" stands for the statuses partial and not_found: both wait for
\* --retry-after-hours (8760 in the units), longer than a behaviour here.
Unmarked == [status |-> "none", profile |-> "core"]
Marker == {Unmarked} \cup [status : {"completed", "incomplete"}, profile : {"core", "deep"}]

\* `good` says whether every source so far has completed.
Unread == [at |-> "unread", good |-> TRUE]
At(r) == task[r].at
Running == {"start", "lookup", "translate"}
Over == {"done", "error", "quota"}

\* `group` is the group that was flushed latest, `last` whether it was the one
\* that is flushed after the loop over the rows.
Down == [pc |-> "down", profile |-> "core", limit |-> 0, next |-> 1, group |-> {},
         last |-> FALSE, processed |-> 0, exit |-> "none"]

CInit ==
    /\ BInit
    /\ marker = [r \in Caller |-> Unmarked] /\ dirty = <<>>
    /\ recorded = {} /\ upserts = {}
    /\ task = [r \in Caller |-> Unread]
    /\ pass = Down /\ faults = 0

-----------------------------------------------------------------------------
(* Opening and closing a pass.                                             *)

\* A new event loop with a new batcher, and rolled-back connections.
Reopen ==
    /\ pending' = <<>> /\ flusher' = NoFlusher
    /\ answer' = [c \in Caller |-> Service!Idle]
    /\ dirty' = <<>> /\ upserts' = {}

Open(profile, limit) ==
    /\ Reopen
    /\ task' = [r \in Caller |-> Unread]
    /\ pass' = [Down EXCEPT !.pc = "select", !.profile = profile, !.limit = limit]

Exit(status) ==
    /\ Reopen
    /\ pass' = [pass EXCEPT !.pc = "down", !.exit = status]

Start ==
    /\ pass.pc = "down"
    /\ \E limit \in Limits : Open("core", limit)
    /\ UNCHANGED <<marker, recorded, faults>>

\* The process is killed or the host goes down.
Die ==
    /\ pass.pc # "down" /\ faults < MaxFaults
    /\ Exit("failure")
    /\ faults' = faults + 1
    /\ UNCHANGED <<marker, recorded, task>>

-----------------------------------------------------------------------------
(* Selecting the next group.                                               *)

\* Faulty: rows that have a provider record are taken for finished ones.
EligibleByRecord(r) ==
    \/ marker[r].status = "none" /\ r \notin recorded
    \/ /\ pass.profile = "deep" /\ r \in DeepGaps
       /\ marker[r] = [status |-> "completed", profile |-> "core"]

\* should_process_marker, or the one immediate deep pass after a core pass
\* that completed.
Eligible(r) ==
    \/ marker[r].status = "none"
    \/ /\ pass.profile = "deep" /\ r \in DeepGaps
       /\ marker[r] = [status |-> "completed", profile |-> "core"]

\* How many more rows fit into `pending`.
Room == IF pass.limit = 0 THEN Workers
        ELSE IF pass.processed < pass.limit THEN pass.limit - pass.processed ELSE 0

Candidates == {i \in pass.next .. Len(Shard) : Eligible(Shard[i])}

\* The positions of the next group: the first candidates, a full group or what
\* is left of the limit.
IsGroup(G) ==
    /\ G \subseteq Candidates
    /\ \A i \in G, j \in Candidates \ G : i < j
    /\ LET size == Cardinality(G)
       IN \/ size = Workers /\ size <= Room
          \/ size < Workers /\ size = Room
          \/ size < Workers /\ size < Room /\ G = Candidates

\* A full group is flushed in the loop, and the limit is compared anew with the
\* rows that were processed.  A partial one is flushed after the loop: the rows
\* ran out, or they and `pending` had reached the limit, and it is the last
\* whether its rows succeed or fail.
FlushGroup(G, next) ==
    /\ pass' = [pass EXCEPT !.pc = "gather", !.group = {Shard[i] : i \in G},
                            !.last = Cardinality(G) < Workers, !.next = next]
    /\ task' = [r \in Caller |-> IF r \in pass'.group
                                 THEN [at |-> "start", good |-> TRUE] ELSE task[r]]

\* Faulty: the keyset position skips the row after a group.
SelectGroupSkips ==
    /\ pass.pc = "select" /\ ~pass.last
    /\ \E G \in SUBSET Candidates :
        /\ G # {} /\ IsGroup(G)
        /\ FlushGroup(G, 2 + CHOOSE i \in G : \A j \in G : j <= i)
    /\ UNCHANGED <<bvars, marker, dirty, recorded, upserts, faults>>

SelectGroup ==
    /\ pass.pc = "select" /\ ~pass.last
    /\ \E G \in SUBSET Candidates :
        /\ G # {} /\ IsGroup(G)
        /\ FlushGroup(G, 1 + CHOOSE i \in G : \A j \in G : j <= i)
    /\ UNCHANGED <<bvars, marker, dirty, recorded, upserts, faults>>

\* Nothing is left, the limit is reached, or the last group has been flushed:
\* core is followed by deep.
EndPass ==
    /\ pass.pc = "select" /\ (pass.last \/ IsGroup({}))
    /\ IF pass.profile = "core" THEN Open("deep", pass.limit)
       ELSE Exit("success") /\ UNCHANGED task
    /\ UNCHANGED <<marker, recorded, faults>>

-----------------------------------------------------------------------------
(* process_row.                                                            *)

Become(r, state, good) == task' = [task EXCEPT ![r] = [at |-> state, good |-> good]]

\* The marker that process_row writes.
MarkerOf(good) ==
    [status |-> IF good THEN "completed" ELSE "incomplete", profile |-> pass.profile]

\* Rows as they are once those written on a connection replace what was there.
Upon(written, rows) ==
    [r \in DOMAIN written \cup DOMAIN rows |->
        IF r \in DOMAIN written THEN written[r] ELSE rows[r]]
Row(r, value) == [x \in {r} |-> value]

\* Faulty: only the dataset is committed.
WriteDatasetOnly(r, good, ups) ==
    /\ marker' = Upon(Upon(Row(r, MarkerOf(good)), dirty), marker) /\ dirty' = <<>>
    /\ upserts' = ups
    /\ Become(r, "done", good)
    /\ UNCHANGED <<bvars, recorded, pass, faults>>

\* The last steps of a row, without an await: UPDATE entries, commit of the
\* dataset and commit of the state, which also commit what other rows have
\* left on the two connections.  The process may die between the commits.  An
\* SQLite error ends the row: before or after its UPDATE, or when the second
\* commit fails after the first.
Write(r, good, ups) ==
    LET written == Upon(Row(r, MarkerOf(good)), dirty)
    IN \/ /\ marker' = Upon(written, marker) /\ dirty' = <<>>
          /\ recorded' = recorded \cup ups /\ upserts' = {}
          /\ Become(r, "done", good)
          /\ UNCHANGED <<bvars, pass, faults>>
       \/ /\ faults < MaxFaults /\ faults' = faults + 1
          /\ marker' = Upon(written, marker)
          /\ Exit("failure")
          /\ UNCHANGED <<recorded, task>>
       \/ /\ faults < MaxFaults /\ faults' = faults + 1
          /\ \/ dirty' \in {dirty, written} /\ UNCHANGED marker
             \/ dirty' = <<>> /\ marker' = Upon(written, marker)
          /\ upserts' = ups
          /\ Become(r, "error", good)
          /\ UNCHANGED <<bvars, recorded, pass>>

\* The definition may need a translation, which is awaited first.
TranslateOrWrite(r, good, ups) ==
    \/ Write(r, good, ups)
    \/ /\ Become(r, "translate", good)
       /\ upserts' = ups
       /\ UNCHANGED <<bvars, marker, dirty, recorded, pass, faults>>

\* A row that needs nothing from the network goes on at once.
Begin(r) ==
    /\ pass.pc = "gather" /\ At(r) = "start"
    /\ IF NeedsOf[r] = {} THEN TranslateOrWrite(r, TRUE, upserts)
       ELSE /\ Request(r)
            /\ Become(r, "lookup", TRUE)
            /\ UNCHANGED <<marker, dirty, recorded, upserts, pass, faults>>

\* Faulty: the failed attempt is recorded as provider state.
LookupRaisesRecorded(r) ==
    /\ pass.pc = "gather" /\ At(r) = "lookup"
    /\ \/ answer[r] \in Service!Failure
       \/ answer[r] \in Service!Result /\ answer[r].status = "server"
    /\ Become(r, IF answer[r].state = "failure" /\ answer[r].status = "quota"
                 THEN "quota" ELSE "error", FALSE)
    /\ upserts' = upserts \cup {r}
    /\ UNCHANGED <<bvars, marker, dirty, recorded, pass, faults>>

\* An exception of the batcher, or an item status 5xx that fetch turns into
\* one, ends the row before its provider state is written.
LookupRaises(r) ==
    /\ pass.pc = "gather" /\ At(r) = "lookup"
    /\ \/ answer[r] \in Service!Failure
       \/ answer[r] \in Service!Result /\ answer[r].status = "server"
    /\ Become(r, IF answer[r].state = "failure" /\ answer[r].status = "quota"
                 THEN "quota" ELSE "error", FALSE)
    /\ UNCHANGED <<bvars, marker, dirty, recorded, upserts, pass, faults>>

LookupReturns(r) ==
    /\ pass.pc = "gather" /\ At(r) = "lookup"
    /\ answer[r] \in Service!Result /\ answer[r].status # "server"
    /\ \E good \in {FALSE, answer[r].status = "ok"} :
          TranslateOrWrite(r, good, upserts \cup {r})

TranslationReturns(r) ==
    /\ pass.pc = "gather" /\ At(r) = "translate"
    /\ \E translated \in BOOLEAN :
          Write(r, task[r].good /\ translated, upserts \cup {r})

\* gather has every result of the group: rows that returned are counted, and
\* a quota refusal of any of them aborts the pass.
EndGroup ==
    /\ pass.pc = "gather" /\ \A r \in pass.group : At(r) \in Over
    /\ IF \E r \in pass.group : At(r) = "quota"
       THEN Exit("failure")
       ELSE /\ pass' = [pass EXCEPT !.pc = "select",
                          !.processed = @ + Cardinality({r \in pass.group : At(r) = "done"})]
            /\ UNCHANGED <<bvars, dirty, upserts>>
    /\ UNCHANGED <<marker, recorded, task, faults>>

-----------------------------------------------------------------------------
(* The flusher, with failed replies bounded by MaxFaults.                  *)

Good(reply) ==
    /\ reply.status = "ok" /\ DOMAIN reply.items = TermsOf(flusher.batch)
    /\ \A t \in DOMAIN reply.items : reply.items[t] = "ok"

RunFlusher ==
    /\ pass.pc = "gather"
    /\ \/ (Take \/ Retry) /\ UNCHANGED faults
       \/ \E reply \in Reply(TermsOf(flusher.batch)) :
            /\ Respond(reply)
            /\ IF Good(reply) THEN UNCHANGED faults
               ELSE faults < MaxFaults /\ faults' = faults + 1
    /\ UNCHANGED <<marker, dirty, recorded, upserts, task, pass>>

-----------------------------------------------------------------------------
RowStep(r) == Begin(r) \/ LookupRaises(r) \/ LookupReturns(r) \/ TranslationReturns(r)
PassStep == SelectGroup \/ EndGroup \/ EndPass

Next ==
    \/ Start \/ Die \/ PassStep \/ RunFlusher
    \/ \E r \in Caller : RowStep(r)

\* The event loop runs whatever is ready, awaits end by a reply or a timeout,
\* and systemd starts the service again.
Spec ==
    /\ CInit /\ [][Next]_vars
    /\ WF_vars(Start) /\ WF_vars(PassStep) /\ WF_vars(RunFlusher)
    /\ \A r \in Caller : WF_vars(RowStep(r))

-----------------------------------------------------------------------------
(* Properties.                                                             *)

CTypeOK ==
    /\ BTypeOK
    /\ marker \in [Caller -> Marker]
    /\ DOMAIN dirty \subseteq Caller /\ \A r \in DOMAIN dirty : dirty[r] \in Marker
    /\ recorded \subseteq Caller /\ upserts \subseteq Caller
    /\ task \in [Caller -> [at : {"unread"} \cup Running \cup Over, good : BOOLEAN]]
    /\ pass \in [pc : {"down", "select", "gather"}, profile : {"core", "deep"},
                 limit : Limits \cup {0}, next : 1 .. Len(Shard) + 1, group : SUBSET Caller,
                 last : BOOLEAN, processed : 0 .. Len(Shard),
                 exit : {"none", "success", "failure"}]
    /\ faults \in 0 .. MaxFaults

(* A row that a quota refusal stopped has left no trace: no provider state and
   no marker, committed or pending on a connection that other rows commit
   (flush_pending: "received neither provider-state writes nor an enrichment
   marker"). *)
ThrottledRowsUntouched ==
    [][\A r \in Caller :
          (pass.pc = "gather" /\ r \in pass.group /\ At(r) # "translate"
              /\ answer[r] \in Service!Failure)
          => /\ marker'[r] = marker[r] /\ (r \in recorded' => r \in recorded)
             /\ r \notin upserts' /\ r \notin DOMAIN dirty']_vars

Failed(rows) == {r \in rows : At(r) = "error"}

\* What --limit had admitted when the pass ended: the rows that were processed,
\* and those of the last group that failed, which it had counted as well.
Admitted == pass.processed + IF pass.last THEN Cardinality(Failed(pass.group)) ELSE 0

(* A pass that ends with success has passed over no row: each one up to the last
   that it tried is marked, or was tried in that pass and failed. If the limit
   was not reached this is the whole shard. A row that fails is made up for by a
   further one, but for those of the last group: with --limit the pass has
   stopped reading before it flushes them (2624-2626, 2671-2672), and may end
   with fewer rows processed than the limit and others never tried. *)
SuccessCoversShard ==
    pass.exit = "success" =>
        /\ \A i, j \in DOMAIN Shard :
              i < j /\ At(Shard[j]) # "unread" /\ Eligible(Shard[i]) => At(Shard[i]) = "error"
        /\ pass.limit = 0 \/ Admitted < pass.limit =>
              \A r \in Caller : Eligible(r) => At(r) = "error"

(* A row counted as processed is durable: its marker and its provider state
   are committed, so that a crash right after does not repeat it. *)
ProcessedIsDurable ==
    \A r \in Caller :
        At(r) = "done" => /\ marker[r].status # "none" /\ marker[r].profile = pass.profile
                          /\ NeedsOf[r] # {} => r \in recorded

(* Once a pass has begun every row is marked in the end, when the edge has
   recovered: failed groups, quota stops and restarts do not starve a row. *)
EveryRowMarked == \A r \in Caller : pass.pc = "select" ~> marker[r].status # "none"
=============================================================================
