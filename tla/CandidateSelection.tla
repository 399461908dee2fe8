--------------------------- MODULE CandidateSelection ---------------------------
(***************************************************************************)
(* tools/fast20k_pipeline.py and tools/package_offline_lexicons.py: jobs   *)
(* that select a candidate from the canonical replica of a host (select),  *)
(* take the rows of a fixed selection anew (refresh, refresh-owner), and   *)
(* package a candidate.  Enrichment goes on writing the replicas; a job    *)
(* reads one snapshot, gates what it made against the replica as it is     *)
(* then, and publishes with a link or a rename.                            *)
(*                                                                         *)
(* A row stands for what the jobs tell apart of it: its term, its rank,    *)
(* the sources and scope it comes from, whether policy and evidence make   *)
(* it a word, a phrase or unfit, the evidence, and the fields it lacks.    *)
(***************************************************************************)
EXTENDS Integers, Sequences, FiniteSets, SequencesExt, FiniteSetsExt

CONSTANTS Replicas,       \* what the replicas may hold at first
          Variants,       \* the contents that enrichment may give an id
          Hosts,          \* shard count; host h owns the ids with id % Hosts = h
          Limit, PhraseTarget, PageRows,   \* --limit, --phrase-target, --batch-size
          MinWords,       \* MIN_FAST20K_WORDS, which holds for the default limit
          Requests,       \* the commands that may be given
          Slots,          \* jobs that may run at once
          File, Vacant,
          MaxEdits, MaxJobs                \* bounds

ASSUME CandidateConstants ==
    /\ Limit \in Nat \ {0} /\ PhraseTarget \in 0 .. Limit /\ MinWords \in Nat
    /\ PageRows \in Nat \ {0} /\ Slots \subseteq Nat /\ Hosts \in Nat \ {0}
    /\ MaxEdits \in Nat /\ MaxJobs \in Nat
    /\ \A r \in Requests : r.host \in 0 .. Hosts - 1

IsRow(row) == row.rank \in Nat /\ row.kind \in {"word", "phrase", "unfit"}

ASSUME CandidateTypes ==
    /\ DOMAIN Variants \subseteq Nat
    /\ \A id \in DOMAIN Variants : \A row \in Variants[id] : IsRow(row)
    /\ \A r \in Replicas :
          /\ DOMAIN r = 0 .. Hosts - 1
          /\ \A h \in DOMAIN r :
                DOMAIN r[h] \subseteq DOMAIN Variants /\ \A id \in DOMAIN r[h] : IsRow(r[h][id])

VARIABLES replica,    \* the canonical rows of each host
          moments,    \* all that each replica has been
          file,       \* the candidate at each output path
          job,        \* the processes
          package,    \* the output directory of the packager
          spent       \* edits and jobs so far

candidateVars == <<replica, moments, file, job, package, spent>>

Host == 0 .. Hosts - 1
OwnedBy(h, id) == id % Hosts = h
NoRank == 0     \* frequency_rank IS NULL
NoSpent == [edits |-> 0, jobs |-> 0]

-----------------------------------------------------------------------------
(* Selection.                                                              *)

Before(rows, a, b) ==
    \/ rows[a].rank < rows[b].rank
    \/ rows[a].rank = rows[b].rank /\ a < b

\* _fetch_source_page: the next rows after the last one read, in order.
Rest(rows, after) ==
    {id \in DOMAIN rows :
        /\ rows[id].rank # NoRank
        /\ \/ after = <<>>
           \/ rows[id].rank > after[1]
           \/ rows[id].rank = after[1] /\ id > after[2]}
Page(rows, after) ==
    LET rest == Rest(rows, after)
    IN CHOOSE page \in UNION {[1 .. n -> rest] : n \in 0 .. PageRows} :
          /\ \A n \in DOMAIN page : \A b \in rest :
                Before(rows, b, page[n]) <=> \E m \in 1 .. n - 1 : page[m] = b
          /\ Len(page) < PageRows => rest = ToSet(page)

ItemOf(id, row) ==
    [id |-> id, key |-> row.key, rank |-> row.rank, kind |-> row.kind,
     evidence |-> row.evidence, row |-> row]

\* The loop over a page in build_candidate: one row per term, `limit` per kind.
NoPool == [word |-> <<>>, phrase |-> <<>>]
Pooled20k(pool) == ToSet(pool.word) \cup ToSet(pool.phrase)
AddRow(pool, it) ==
    IF \/ it.kind = "unfit" \/ Len(pool[it.kind]) >= Limit
       \/ \E other \in Pooled20k(pool) : other.key = it.key
    THEN pool ELSE [pool EXCEPT ![it.kind] = Append(@, it)]
AddPage(pool, rows, page) ==
    FoldLeft(AddRow, pool, [n \in DOMAIN page |-> ItemOf(page[n], rows[page[n]])])

PoolSuffices(pool) ==
    Len(pool.word) >= Limit - PhraseTarget /\ Len(pool.phrase) >= PhraseTarget

\* _choose_counts.
PhraseCount(words, phrases) ==
    LET first == Min({PhraseTarget, phrases, Limit})
    IN first + Min({phrases - first, Limit - first - Min({words, Limit - first})})
CanChoose(words, phrases) ==
    words + phrases >= Limit /\ Limit - PhraseCount(words, phrases) >= MinWords

\* _insert_selection: a phrase whenever its share of the ranks is due.
Place(acc, n) ==
    LET due == (n * Len(acc.phrases)) \div Limit > acc.used
    IN IF (due /\ acc.used < Len(acc.phrases)) \/ n - 1 - acc.used >= Len(acc.words)
       THEN [acc EXCEPT !.items = Append(@, acc.phrases[acc.used + 1]), !.used = @ + 1]
       ELSE [acc EXCEPT !.items = Append(@, acc.words[n - acc.used])]
Interleaved(words, phrases) ==
    FoldLeft(Place, [words |-> words, phrases |-> phrases, used |-> 0, items |-> <<>>],
             [n \in 1 .. Limit |-> n]).items

Selected(pool) ==
    LET count == PhraseCount(Len(pool.word), Len(pool.phrase))
    IN Interleaved(SubSeq(pool.word, 1, Limit - count), SubSeq(pool.phrase, 1, count))

-----------------------------------------------------------------------------
(* Rows and gate.                                                          *)

\* _copy_selected_rows: the row of an item must not have been renumbered and, in
\* a refresh, must keep its term and canonical_identity_digest.
KeepsIdentity(it, row) == row.key = it.key /\ row.origin = it.row.origin
CopyAllowed(items, rows, by) ==
    \A n \in DOMAIN items :
        LET it == items[n]
        IN /\ it.id \in DOMAIN rows /\ rows[it.id].rank = it.rank
           /\ by = "refresh" => KeepsIdentity(it, rows[it.id])
Retaken(it, row, evidence) ==
    [id |-> it.id, key |-> it.key, rank |-> it.rank, kind |-> it.kind,
     evidence |-> evidence, row |-> row]
CopyOf(items, rows) ==
    [n \in DOMAIN items |-> Retaken(items[n], rows[items[n].id], items[n].evidence)]

\* refresh_candidate_owner: the owner's rows may change their sources, but
\* neither term, rank nor kind.
OwnerAllowed(items, rows, owner) ==
    \A n \in DOMAIN items :
        LET it == items[n]
        IN OwnedBy(owner, it.id) =>
              /\ it.id \in DOMAIN rows
              /\ rows[it.id].rank = it.rank /\ rows[it.id].key = it.key
              /\ rows[it.id].kind = it.kind

\* Faulty: the rows of the other owners are taken as well.
OwnerCopyOfAll(items, rows, owner) ==
    [n \in DOMAIN items |->
        Retaken(items[n], rows[items[n].id], rows[items[n].id].evidence)]

OwnerCopyOf(items, rows, owner) ==
    [n \in DOMAIN items |->
        IF OwnedBy(owner, items[n].id)
        THEN Retaken(items[n], rows[items[n].id], rows[items[n].id].evidence)
        ELSE items[n]]

\* _populate_repair_queue.
QueueOf(items) ==
    LET incomplete == {n \in DOMAIN items : items[n].row.gaps # {}}
    IN [id \in {items[n].id : n \in incomplete} |->
           LET n == CHOOSE m \in incomplete : items[m].id = id
           IN [rank |-> n, gaps |-> items[n].row.gaps, owner |-> id % Hosts]]

\* Entries of a kind among the first n.
CountOf(items, n, kind) == Cardinality({m \in 1 .. n : items[m].kind = kind})

\* candidate_quality_report, the structural part: the rows are of their recorded
\* term, kind and evidence, each stream is in order of rank, the queue is that of
\* the rows, and the compared rows are those of the canonical database now.
StructuralReady(candidate, rows, compared) ==
    LET items == candidate.items
    IN /\ Len(items) = Limit /\ CountOf(items, Limit, "word") >= MinWords
       /\ \A n \in DOMAIN items :
             LET it == items[n]
             IN /\ it.row.key = it.key /\ it.row.kind = it.kind
                /\ it.kind = "phrase" => it.row.evidence = it.evidence
                /\ \A m \in 1 .. n - 1 : items[m].kind = it.kind => items[m].rank <= it.rank
                /\ it.id \in compared =>
                      it.id \in DOMAIN rows /\ rows[it.id] = it.row /\ rows[it.id].rank = it.rank
       /\ candidate.queue = QueueOf(items)

Ready(candidate, rows) ==
    /\ StructuralReady(candidate, rows, {candidate.items[n].id : n \in DOMAIN candidate.items})
    /\ \A n \in DOMAIN candidate.items : candidate.items[n].row.gaps = {}

-----------------------------------------------------------------------------
(* The jobs.                                                               *)

NoJob == [pc |-> "idle"]
NoPackage == [holds |-> {}, made |-> FALSE]
At20k(w) == job[w].pc

NewJob(r, template) ==
    [pc |-> IF r.by = "select" THEN "scan" ELSE "open", by |-> r.by, host |-> r.host,
     dest |-> r.dest, replace |-> r.replace, after |-> <<>>,
     snapshot |-> IF r.by = "select" THEN replica[r.host] ELSE <<>>,
     pool |-> NoPool, items |-> template, from |-> template, queue |-> <<>>]

\* Faulty: no transaction is held, every statement reads what is committed.
SourceLive(w) == replica[job[w].host]

\* The rows a job reads: those of the transaction it opened.
Source(w) == job[w].snapshot

Turn(w, state) == job' = [job EXCEPT ![w] = state]
Launch(w, state) ==
    /\ At20k(w) = "idle" /\ \A v \in Slots : v < w => At20k(v) # "idle"
    /\ spent.jobs < MaxJobs
    /\ Turn(w, state) /\ spent' = [spent EXCEPT !.jobs = @ + 1]
    /\ UNCHANGED <<replica, moments, file, package>>
Quiet == UNCHANGED <<replica, moments, file, package, spent>>

\* refresh and refresh-owner never write their template.
StartSelect(w) ==
    \E r \in Requests :
        /\ r.by = "select" /\ (file[r.dest] = Vacant \/ r.replace)
        /\ Launch(w, NewJob(r, <<>>))

StartRefresh(w) ==
    \E r \in Requests :
        /\ r.by \in {"refresh", "owner"} /\ (file[r.dest] = Vacant \/ r.replace)
        /\ file[r.template] # Vacant /\ r.dest # r.template
        /\ Launch(w, NewJob(r, file[r.template].items))

\* The template has been read; the transaction on the replica begins.
OpenReplica(w) ==
    /\ At20k(w) = "open"
    /\ Turn(w, [job[w] EXCEPT !.pc = "copy", !.snapshot = replica[job[w].host]])
    /\ Quiet

ScanPage(w) ==
    /\ At20k(w) = "scan" /\ ~PoolSuffices(job[w].pool)
    /\ LET page == Page(Source(w), job[w].after)
           last == page[Len(page)]
       IN /\ page # <<>>
          /\ Turn(w, [job[w] EXCEPT !.pool = AddPage(@, Source(w), page),
                                      !.after = <<Source(w)[last].rank, last>>])
    /\ Quiet

\* The scan is over; too few rows are an error.
Choose20k(w) ==
    /\ At20k(w) = "scan"
    /\ PoolSuffices(job[w].pool) \/ Page(Source(w), job[w].after) = <<>>
    /\ LET pool == job[w].pool
       IN Turn(w, IF CanChoose(Len(pool.word), Len(pool.phrase))
                    THEN [job[w] EXCEPT !.pc = "copy", !.items = Selected(pool), !.pool = NoPool]
                    ELSE NoJob)
    /\ Quiet

\* The rows and the queue of the candidate; a row that does not fit ends the job.
CopyRows(w) ==
    /\ At20k(w) = "copy"
    /\ LET j == job[w]
           owns == j.by = "owner"
           items == IF owns THEN OwnerCopyOf(j.items, Source(w), j.host)
                    ELSE CopyOf(j.items, Source(w))
           allowed == IF owns THEN OwnerAllowed(j.items, Source(w), j.host)
                      ELSE CopyAllowed(j.items, Source(w), j.by)
       IN Turn(w, IF allowed
                    THEN [j EXCEPT !.pc = "gate", !.items = items, !.queue = QueueOf(items),
                                   !.snapshot = <<>>, !.after = <<>>]
                    ELSE NoJob)
    /\ Quiet

\* Rows that the gate compares with the canonical database.
Compared(j) ==
    {id \in {j.items[n].id : n \in DOMAIN j.items} : j.by = "owner" => OwnedBy(j.host, id)}

Gate(w) ==
    /\ At20k(w) = "gate"
    /\ Turn(w, IF StructuralReady(job[w], replica[job[w].host], Compared(job[w]))
                 THEN [job[w] EXCEPT !.pc = "publish"] ELSE NoJob)
    /\ Quiet

\* _publish_candidate: os.replace, or a link that fails if the path exists.
PublishFile(w) ==
    /\ At20k(w) = "publish"
    /\ LET j == job[w]
       IN file' = IF file[j.dest] # Vacant /\ ~j.replace THEN file
                  ELSE [file EXCEPT ![j.dest] =
                          [items |-> j.items, queue |-> j.queue, by |-> j.by,
                           host |-> j.host, from |-> j.from]]
    /\ Turn(w, NoJob)
    /\ UNCHANGED <<replica, moments, package, spent>>

-----------------------------------------------------------------------------
(* The packager.                                                           *)

\* main: an existing directory is refused; copy_full of the canonical database.
StartPackage(w) ==
    \E r \in Requests :
        /\ r.by = "package" /\ ~package.made /\ file[r.template] # Vacant
        /\ Launch(w, [pc |-> "stage", canonical |-> replica[r.host], input |-> r.template])

\* copy_full of the candidate, which is gated as it was staged.
GateStaged(w) ==
    /\ At20k(w) = "stage"
    /\ LET candidate == file[job[w].input]
       IN Turn(w, IF Ready(candidate, job[w].canonical)
                    THEN [pc |-> "release", canonical |-> job[w].canonical,
                          input |-> job[w].input, candidate |-> candidate]
                    ELSE NoJob)
    /\ Quiet

LinkOrder == <<"database", "archive", "manifest">>
Part == ToSet(LinkOrder)
\* Faulty: what is packaged is read after the gate.
PackagedUnstaged(j, holds) ==
    [holds |-> holds, made |-> TRUE, items |-> file[j.input].items, canonical |-> j.canonical]

Packaged(j, holds) ==
    [holds |-> holds, made |-> TRUE, items |-> j.candidate.items, canonical |-> j.canonical]

\* publish_directory_no_replace: an exclusive rename, or mkdir and links, the
\* manifest last.
RenameRelease(w) ==
    /\ At20k(w) = "release"
    /\ package' = IF package.made THEN package ELSE Packaged(job[w], Part)
    /\ Turn(w, NoJob)
    /\ UNCHANGED <<replica, moments, file, spent>>

ReserveRelease(w) ==
    /\ At20k(w) = "release"
    /\ IF package.made
       THEN Turn(w, NoJob) /\ UNCHANGED package
       ELSE Turn(w, [job[w] EXCEPT !.pc = "link"]) /\ package' = Packaged(job[w], {})
    /\ UNCHANGED <<replica, moments, file, spent>>

Linking(w, holds, pc) ==
    /\ package' = [package EXCEPT !.holds = holds]
    /\ Turn(w, [job[w] EXCEPT !.pc = pc])
    /\ UNCHANGED <<replica, moments, file, spent>>
LinkPart(w) ==
    /\ At20k(w) = "link" /\ package.holds # Part
    /\ Linking(w, package.holds \cup {LinkOrder[Cardinality(package.holds) + 1]}, "link")

\* The directory is synced.
SyncPackage(w) ==
    /\ At20k(w) = "link" /\ package.holds = Part
    /\ Turn(w, NoJob)
    /\ Quiet

\* A link or the sync fails: the links are removed, the last first, and the directory.
UndoRelease(w) ==
    /\ At20k(w) \in {"link", "undo"}
    /\ IF package.holds = {}
       THEN package' = NoPackage /\ Turn(w, NoJob) /\ UNCHANGED <<replica, moments, file, spent>>
       ELSE Linking(w, package.holds \ {LinkOrder[Cardinality(package.holds)]}, "undo")

-----------------------------------------------------------------------------
\* Enrichment, a repair or a prefill commits a row to a replica.
Enrich ==
    /\ spent.edits < MaxEdits
    /\ \E host \in Host : \E id \in DOMAIN replica[host] :
          \E row \in Variants[id] \ {replica[host][id]} :
             replica' = [replica EXCEPT ![host][id] = row]
    /\ moments' = [h \in Host |-> moments[h] \cup {replica'[h]}]
    /\ spent' = [spent EXCEPT !.edits = @ + 1]
    /\ UNCHANGED <<file, job, package>>

\* A killed job leaves its temporary files only.
KillJob(w) ==
    /\ At20k(w) # "idle"
    /\ Turn(w, NoJob)
    /\ Quiet

CandidateInit ==
    /\ replica \in Replicas /\ moments = [h \in Host |-> {replica[h]}]
    /\ file = [f \in File |-> Vacant]
    /\ job = [w \in Slots |-> NoJob] /\ package = NoPackage
    /\ spent = NoSpent

CandidateNext ==
    \/ Enrich
    \/ \E w \in Slots :
          \/ StartSelect(w) \/ StartRefresh(w) \/ StartPackage(w)
          \/ OpenReplica(w) \/ ScanPage(w) \/ Choose20k(w) \/ CopyRows(w) \/ Gate(w) \/ PublishFile(w)
          \/ GateStaged(w) \/ RenameRelease(w) \/ ReserveRelease(w) \/ LinkPart(w)
          \/ SyncPackage(w) \/ UndoRelease(w) \/ KillJob(w)

CandidateSpec == CandidateInit /\ [][CandidateNext]_candidateVars

-----------------------------------------------------------------------------
(* Correctness.                                                            *)

Candidates == {file[f] : f \in {g \in File : file[g] # Vacant}}
Ids(items) == {items[n].id : n \in DOMAIN items}

\* `items` is the best selection of the rows of one moment: terms are distinct, no
\* row that was left out comes before a selected one of its kind unless another row
\* has its term, the phrases keep to their target unless one kind is used up, and
\* every prefix has its share of phrases.
IsBestOf(items, rows) ==
    LET fit(id) == rows[id].rank # NoRank /\ rows[id].kind # "unfit"
        out == {id \in DOMAIN rows \ Ids(items) :
                   /\ fit(id)
                   /\ ~ \E b \in DOMAIN rows : fit(b) /\ Before(rows, b, id) /\ rows[b].key = rows[id].key}
        left(kind) == {id \in out : rows[id].kind = kind}
        phrases(n) == CountOf(items, n, "phrase")
    IN /\ Len(items) = Limit /\ \A m, n \in 1 .. Limit : m # n => items[m].key # items[n].key
       /\ \A n \in DOMAIN items : items[n] = ItemOf(items[n].id, rows[items[n].id]) /\ fit(items[n].id)
       /\ \A n \in DOMAIN items : \A id \in left(items[n].kind) : Before(rows, items[n].id, id)
       /\ phrases(Limit) < PhraseTarget => left("phrase") = {}
       /\ phrases(Limit) > PhraseTarget => left("word") = {}
       /\ \A n \in DOMAIN items : phrases(n) = (n * phrases(Limit)) \div Limit

\* A published selection is the best of one moment of its replica although rows
\* become fit or unfit while it is scanned page by page, and is what its replica
\* held at one moment ("cannot make this candidate a mixture of multiple canonical
\* revisions").
SelectionIsBest ==
    \A c \in Candidates :
        c.by = "select" => \E rows \in moments[c.host] : IsBestOf(c.items, rows)

\* A refreshed candidate has the ids, ranks, terms and kinds of its template, in
\* its order; its rows are still of their kinds; those it should take are its
\* replica's of one moment, the others its template's; and its queue names exactly
\* the rows that lack something, with their owners.
RefreshKeepsSelection ==
    \A c \in Candidates :
        /\ c.queue = QueueOf(c.items)
        /\ \A n \in DOMAIN c.items : c.items[n].row.kind = c.items[n].kind
        /\ c.by # "select" =>
              /\ DOMAIN c.items = DOMAIN c.from
              /\ \A n \in DOMAIN c.items :
                    /\ c.items[n].id = c.from[n].id /\ c.items[n].key = c.from[n].key
                    /\ c.items[n].rank = c.from[n].rank /\ c.items[n].kind = c.from[n].kind
              /\ \E rows \in moments[c.host] : \A n \in DOMAIN c.items :
                    IF c.by = "refresh" \/ OwnedBy(c.host, c.items[n].id)
                    THEN c.items[n].row = rows[c.items[n].id] /\ rows[c.items[n].id].rank = c.items[n].rank
                    ELSE c.items[n] = c.from[n]

\* A release directory with a manifest is whole, and its candidate lacks nothing
\* and agrees with what the canonical database was at one moment, whatever replaced
\* the inputs or cut the packaging ("manifest.json is linked last as the readiness
\* marker").
PackageIsReady ==
    "manifest" \in package.holds =>
        /\ package.holds = Part
        /\ \E h \in Host : \E rows \in moments[h] : \A n \in DOMAIN package.items :
              LET it == package.items[n] IN it.row = rows[it.id] /\ it.row.gaps = {}
=============================================================================
