--------------------------- MODULE RepairProtocol ---------------------------
(***************************************************************************)
(* The repair of a fixed selection of entries over several hosts: a        *)
(* candidate is prepared from the rows that each host owns, each host      *)
(* repairs its part of the queue while other programs may change its       *)
(* dataset before and after, and the deltas of all hosts are merged into   *)
(* a canonical snapshot that has moved on as well.                         *)
(* (tools/fast20k_pipeline.py, fast20k_repair_delta.py and the queue mode  *)
(* of enrich_oxford_scope.py.)                                             *)
(*                                                                         *)
(* What ties the steps together are digests only: of the candidate, of the *)
(* content of a row, of its identity and of what a repair wrote.  A digest *)
(* is modelled by the values it covers.  A row's columns are `definition`, *)
(* `definition_zh` and `other`, for all other mutable ones; `source` is    *)
(* its source and scope provenance, a part of its identity.                *)
(***************************************************************************)
EXTENDS Naturals, Sequences

CONSTANTS Row,             \* canonical ids of the selected entries
          HostCount,       \* shard_count
          Original,        \* the entries when the dataset is built
          Replica,         \* the copies that the host of `select` has of them
          CanonicalRank,   \* frequency_rank of an entry in a canonical database
          SelectedRank,    \* and in a candidate
          Found,           \* definitions that the sources may return
          MaxCandidates, MaxOutside, MaxRepairs   \* bounds

Definition == {"none", "short", "long"}
Translation == {"none", "brief", "full"}
Column == {"definition", "definition_zh", "other"}
Host == 0 .. HostCount - 1
Owner(r) == r % HostCount
Owned(h) == {r \in Row : Owner(r) = h}

\* The columns of an entry with its provenance, and the marker of its last
\* enrichment: the candidate whose repair wrote it (0: an ordinary collector),
\* the digest of what was written, and its time, which no other write has.
Columns == [definition : Definition, definition_zh : Translation,
            other : BOOLEAN, source : BOOLEAN]
Payload == Definition \X Translation \X BOOLEAN
Marker == [by : 0 .. MaxCandidates, payload : Payload, at : Nat]

ASSUME RepairConstants ==
    /\ Row \subseteq Nat /\ HostCount \in Nat \ {0}
    /\ Original \in [Row -> Columns] /\ Replica \in [Row -> Columns]
    /\ CanonicalRank \in [Row -> Nat] /\ SelectedRank \in [Row -> Nat]
    /\ Found \subseteq Definition
    /\ MaxCandidates \in Nat /\ MaxOutside \in Nat /\ MaxRepairs \in Nat

VARIABLES data,       \* the entries, each on the host that owns it
          made,       \* the candidates, each the content its rows had
          sealed,     \* candidates that all hosts have verified and sealed
          draft,      \* the candidate being prepared
          current,    \* the candidate of the release that is active on a host
          run,        \* the repair service of a host
          delta,      \* the delta file exported by a host
          central,    \* the canonical snapshot
          applied,    \* history: the merges into it
          repaired,   \* history: what was written by repairs
          outside, repairs

vars == <<data, made, sealed, draft, current, run, delta, central, applied,
          repaired, outside, repairs>>

Place == [definition |-> 1, definition_zh |-> 2, other |-> 3]
PayloadOf(e) == <<e.definition, e.definition_zh, e.other>>
WithMarker(e, by, at) == [e EXCEPT !.mark = [by |-> by, payload |-> PayloadOf(e), at |-> at]]
ColumnsOf(e) == [definition |-> e.definition, definition_zh |-> e.definition_zh,
                 other |-> e.other, source |-> e.source]

Unrepaired(e) ==
    [definition |-> e.definition, definition_zh |-> e.definition_zh, other |-> e.other,
     source |-> e.source, mark |-> [by |-> 0, payload |-> PayloadOf(e), at |-> 0]]

NoRows == [r \in {} |-> 0]
NoDraft == [next |-> HostCount, base |-> NoRows]
Off == [by |-> 0, todo |-> NoRows]
NoDelta == [candidate |-> 0, rows |-> NoRows]

Init ==
    /\ data = [r \in Row |-> Unrepaired(Original[r])]
    /\ made = <<>> /\ sealed = {} /\ draft = NoDraft
    /\ current = [h \in Host |-> 0] /\ run = [h \in Host |-> Off]
    /\ delta = [h \in Host |-> NoDelta]
    /\ central = Original
    /\ applied = [candidate |-> 0, times |-> 0]
    /\ repaired = {} /\ outside = 0 /\ repairs = 0

-----------------------------------------------------------------------------
(* What an entry lacks, and what a repair may change because of it.        *)

\* needs_definition_translation: none, or truncated.
NeedsTranslation(definition, zh) ==
    /\ definition # "none"
    /\ zh = "none" \/ (definition = "long" /\ zh = "brief")

Gaps(e) ==
    {gap \in {"definition", "definition_zh"} :
        IF gap = "definition" THEN e.definition = "none"
        ELSE NeedsTranslation(e.definition, e.definition_zh)}

\* Faulty: a definition is repaired without its translation.
GapColumnsAlone(gap) == {gap}

\* GAP_MUTABLE_COLUMNS: what is repaired because of a gap.
GapColumns(gap) ==
    IF gap = "definition" THEN {"definition", "definition_zh"} ELSE {"definition_zh"}

Base(c) == made[c]

\* Faulty: a missing translation alone does not queue an entry.
QueueUndefined(c) == {r \in Row : "definition" \in Gaps(Base(c)[r])}

Queue(c) == {r \in Row : Gaps(Base(c)[r]) # {}}
Allowed(c, r) == UNION {GapColumns(gap) : gap \in Gaps(Base(c)[r])}
Changed(c, r, e) == {column \in Allowed(c, r) : e[column] # Base(c)[r][column]}

-----------------------------------------------------------------------------
(* Preflight.                                                              *)

\* Faulty: a marker is trusted without the digest of what it marks.
AuthorizedByMarker(c, r) ==
    \/ data[r] = Base(c)[r]
    \/ r \in Queue(c) /\ data[r].mark.by = c

\* The content is the candidate's baseline, or a repair for it wrote the row.
Authorized(c, r) ==
    \/ data[r] = Base(c)[r]
    \/ /\ r \in Queue(c)
       /\ data[r].mark.by = c /\ data[r].mark.payload = PayloadOf(data[r])

SameIdentity(c, r) == data[r].source = Base(c)[r].source

Preflight(c, h, rows) ==
    /\ \A r \in Owned(h) \cap rows : Authorized(c, r)
    /\ \A r \in Owned(h) \cap Queue(c) : SameIdentity(c, r)

-----------------------------------------------------------------------------
(* Preparing a candidate.                                                  *)

\* `select` on host 0, from its copy of every entry, or a refresh of the last
\* candidate, whose rows are all replaced.
Prepare ==
    /\ draft = NoDraft /\ Len(made) < MaxCandidates
    /\ draft' = [next |-> 0, base |-> [r \in Row |-> Unrepaired(Replica[r])]]
    /\ UNCHANGED <<data, made, sealed, current, run, delta, central, applied,
                   repaired, outside, repairs>>

\* refresh_candidate_owner reads the rows of one owner in one snapshot; the
\* candidate is complete with the last of them.
RefreshOwner ==
    /\ draft # NoDraft
    /\ LET base == [r \in Row |-> IF Owner(r) = draft.next THEN data[r] ELSE draft.base[r]]
       IN IF draft.next < HostCount - 1
          THEN draft' = [next |-> draft.next + 1, base |-> base] /\ UNCHANGED made
          ELSE /\ draft' = NoDraft
               /\ IF \E c \in DOMAIN made : made[c] = base THEN UNCHANGED made
                  ELSE made' = Append(made, base)
    /\ UNCHANGED <<data, sealed, current, run, delta, central, applied, repaired, outside,
                   repairs>>

\* Every host verifies the candidate before it seals it; what one host does
\* between the checks of two others makes no difference to them.
Seal(c) ==
    /\ c \notin sealed /\ \A h \in Host : Preflight(c, h, Row)
    /\ sealed' = sealed \cup {c}
    /\ UNCHANGED <<data, made, draft, current, run, delta, central, applied, repaired,
                   outside, repairs>>

\* A release with the candidate is activated, or rolled back to; the release
\* control stops the repair first.
Activate(c, h) ==
    /\ c \in sealed /\ current[h] # c /\ run[h] = Off
    /\ current' = [current EXCEPT ![h] = c]
    /\ UNCHANGED <<data, made, sealed, draft, run, delta, central, applied, repaired,
                   outside, repairs>>

-----------------------------------------------------------------------------
(* Writing entries.                                                        *)

\* An entry with what is missing filled and its lists extended.
Filled(e, definition, zh, more) ==
    [e EXCEPT !.definition = IF @ = "none" THEN definition ELSE @,
              !.definition_zh = zh, !.other = @ \/ more]

\* What process_row may make of an entry with what the sources and the
\* translation return: only a definition that needs it is translated.
Enrichments(e) ==
    {x \in {Filled(e, definition, zh, more) :
              definition \in Found, zh \in Translation, more \in BOOLEAN} :
        \/ x.definition_zh = e.definition_zh
        \/ NeedsTranslation(x.definition, e.definition_zh) /\ x.definition_zh # "none"}

\* An ordinary collector, which never runs beside the repair.
Collect(r) ==
    /\ run[Owner(r)] = Off /\ outside < MaxOutside
    /\ \E e \in Enrichments(data[r]) :
          data' = [data EXCEPT ![r] = WithMarker(e, 0, data[r].mark.at + 1)]
    /\ outside' = outside + 1
    /\ UNCHANGED <<made, sealed, draft, current, run, delta, central, applied,
                   repaired, repairs>>

\* A relation delta or a prefill, applied while collectors are stopped: lists
\* or provenance grow and the marker stays.
Prefill(r) ==
    /\ run[Owner(r)] = Off /\ outside < MaxOutside
    /\ \E more \in BOOLEAN, source \in BOOLEAN :
          data' = [data EXCEPT ![r].other = @ \/ more, ![r].source = @ \/ source]
    /\ data' # data
    /\ outside' = outside + 1
    /\ UNCHANGED <<made, sealed, draft, current, run, delta, central, applied,
                   repaired, repairs>>

\* The service verifies every selected row of its owner and keeps the queued
\* ones that still have gaps, as they are now.
StartRepair(h) ==
    /\ run[h] = Off /\ current[h] # 0 /\ Preflight(current[h], h, Row)
    /\ run' = [run EXCEPT ![h] =
          [by |-> current[h],
           todo |-> [r \in {q \in Queue(current[h]) \cap Owned(h) : Gaps(data[q]) # {}} |->
                        data[r]]]]
    /\ UNCHANGED <<data, made, sealed, draft, current, delta, central, applied,
                   repaired, outside, repairs>>

\* Faulty: the digest is taken of the row as it was.
RepairRowOldDigest(h, r) ==
    /\ r \in DOMAIN run[h].todo /\ repairs < MaxRepairs
    /\ \E e \in Enrichments(run[h].todo[r]) :
        /\ data' = [data EXCEPT ![r] = [e EXCEPT !.mark =
              [by |-> run[h].by, payload |-> PayloadOf(run[h].todo[r]), at |-> data[r].mark.at + 1]]]
        /\ repaired' = repaired \cup {<<run[h].by, r, PayloadOf(e)>>}
    /\ run' = [run EXCEPT ![h] = [by |-> @.by, todo |-> [q \in DOMAIN @.todo \ {r} |-> @.todo[q]]]]
    /\ repairs' = repairs + 1
    /\ UNCHANGED <<made, sealed, draft, current, delta, central, applied, outside>>

\* process_row in queue mode writes every payload column, computed from the
\* row as the preflight read it.
RepairRow(h, r) ==
    /\ r \in DOMAIN run[h].todo /\ repairs < MaxRepairs
    /\ \E e \in Enrichments(run[h].todo[r]) :
        /\ data' = [data EXCEPT ![r] = WithMarker(e, run[h].by, data[r].mark.at + 1)]
        /\ repaired' = repaired \cup {<<run[h].by, r, PayloadOf(e)>>}
    /\ run' = [run EXCEPT ![h] = [by |-> @.by, todo |-> [q \in DOMAIN @.todo \ {r} |-> @.todo[q]]]]
    /\ repairs' = repairs + 1
    /\ UNCHANGED <<made, sealed, draft, current, delta, central, applied, outside>>

\* The repair ends, fails or is killed.
StopRepair(h) ==
    /\ run[h] # Off
    /\ run' = [run EXCEPT ![h] = Off]
    /\ UNCHANGED <<data, made, sealed, draft, current, delta, central, applied,
                   repaired, outside, repairs>>

-----------------------------------------------------------------------------
(* Exporting and merging.                                                  *)

\* Of a snapshot of the dataset, for the rows that the host owns in the queue.
Export(h) ==
    /\ current[h] # 0
    /\ LET c == current[h]
           rows == Queue(c) \cap Owned(h)
       IN /\ Preflight(c, h, Queue(c))
          /\ \A r \in rows : Gaps(data[r]) = {}
          /\ delta' = [delta EXCEPT ![h] =
                [candidate |-> c,
                 rows |-> [r \in rows |->
                    [changed |-> Changed(c, r, data[r]), definition |-> data[r].definition,
                     definition_zh |-> data[r].definition_zh, other |-> data[r].other]]]]
    /\ delta' # delta
    /\ UNCHANGED <<data, made, sealed, draft, current, run, central, applied, repaired,
                   outside, repairs>>

Rows == UNION {DOMAIN delta[h].rows : h \in Host}
DeltaRow(r) == delta[Owner(r)].rows[r]

\* validate_delta_union
ValidUnion(c) ==
    /\ \A h \in Host : delta[h] # NoDelta /\ delta[h].candidate = c
    /\ \A h \in Host : DOMAIN delta[h].rows = Queue(c) \cap Owned(h)
    /\ \A r \in Rows : /\ DeltaRow(r).changed = Changed(c, r, DeltaRow(r))
                       /\ Gaps(DeltaRow(r)) = {}

\* Faulty: what the canonical row has in the meantime is not looked at.
ConflictsNone(c, r, row) == {}

\* Columns of a canonical row that are neither the baseline's nor the delta's.
Conflicts(c, r, row) ==
    {column \in DeltaRow(r).changed :
        row[column] \notin {Base(c)[r][column], DeltaRow(r)[column]}}

MergedRow(r, row) ==
    [row EXCEPT
       !.definition = IF "definition" \in DeltaRow(r).changed THEN DeltaRow(r).definition ELSE @,
       !.definition_zh =
          IF "definition_zh" \in DeltaRow(r).changed THEN DeltaRow(r).definition_zh ELSE @]

\* apply_delta_union to a canonical database, whose entries have these ranks.
Merges(c, canonical, rank) ==
    \A r \in Queue(c) :
        /\ rank[r] = CanonicalRank[r] /\ canonical[r].source = Base(c)[r].source
        /\ Conflicts(c, r, canonical[r]) = {}
        /\ Gaps(MergedRow(r, canonical[r])) = {}

Apply(c) ==
    /\ c \in sealed /\ applied.times < MaxCandidates
    /\ ValidUnion(c) /\ Merges(c, central, CanonicalRank)
    /\ central' = [r \in Row |-> IF r \in Queue(c) THEN MergedRow(r, central[r]) ELSE central[r]]
    /\ applied' = [candidate |-> c, times |-> applied.times + 1]
    /\ UNCHANGED <<data, made, sealed, draft, current, run, delta, repaired, outside, repairs>>

\* The canonical database is enriched by other merges.
Enrich(r) ==
    /\ outside < MaxOutside
    /\ \E definition \in Found \ {"none"}, zh \in Translation \ {"none"},
          source \in BOOLEAN :
          central' \in {[central EXCEPT ![r].definition = definition],
                        [central EXCEPT ![r].definition_zh = zh],
                        [central EXCEPT ![r].other = TRUE],
                        [central EXCEPT ![r].source = @ \/ source]}
    /\ central' # central
    /\ outside' = outside + 1
    /\ UNCHANGED <<data, made, sealed, draft, current, run, delta, applied, repaired, repairs>>

-----------------------------------------------------------------------------
Next ==
    \/ Prepare \/ RefreshOwner
    \/ \E r \in Row : Collect(r) \/ Prefill(r) \/ Enrich(r)
    \/ \E h \in Host : StartRepair(h) \/ StopRepair(h) \/ Export(h)
    \/ \E h \in Host, r \in Row : RepairRow(h, r)
    \/ \E c \in DOMAIN made : Seal(c) \/ Apply(c) \/ \E h \in Host : Activate(c, h)

Spec == Init /\ [][Next]_vars

-----------------------------------------------------------------------------
(* Properties.                                                             *)

Entries == [definition : Definition, definition_zh : Translation,
            other : BOOLEAN, source : BOOLEAN, mark : Marker]
DeltaRows == [changed : SUBSET Column, definition : Definition,
              definition_zh : Translation, other : BOOLEAN]

CandidateTypes ==
    /\ data \in [Row -> Entries]
    /\ made \in Seq([Row -> Entries]) /\ Len(made) <= MaxCandidates
    /\ sealed \subseteq DOMAIN made
    /\ draft # NoDraft =>
        draft.next \in Host /\ draft.base \in [Row -> Entries] /\ Len(made) < MaxCandidates

HostTypes ==
    /\ current \in [Host -> sealed \cup {0}]
    /\ DOMAIN run = Host /\ DOMAIN delta = Host
    /\ \A h \in Host :
        /\ run[h] = Off \/ run[h].by \in sealed
        /\ run[h].todo \in [DOMAIN run[h].todo -> Entries]
        /\ DOMAIN run[h].todo \subseteq Owned(h)
        /\ delta[h] = NoDelta \/ delta[h].candidate \in sealed
        /\ delta[h].rows \in [DOMAIN delta[h].rows -> DeltaRows]
        /\ DOMAIN delta[h].rows \subseteq Owned(h)

CentralTypes ==
    /\ central \in [Row -> Columns]
    /\ applied.candidate \in sealed \cup {0} /\ applied.times \in 0 .. MaxCandidates
    /\ repaired \subseteq sealed \X Row \X Payload
    /\ outside \in 0 .. MaxOutside /\ repairs \in 0 .. MaxRepairs

\* The variables have their types: a candidate and its drafts hold a row for
\* every selected entry, repairs and deltas hold rows of their host only.
TypeOK == CandidateTypes /\ HostTypes /\ CentralTypes

\* A repair may be killed after any row: what it has written so far, and what
\* it has not reached, still pass the preflight of its next start, and the
\* rows it is about to write are the ones it has read.
RepairCanRestart ==
    \A h \in Host : run[h] # Off =>
        /\ Preflight(run[h].by, h, Row)
        /\ \A r \in DOMAIN run[h].todo : run[h].todo[r] = data[r]

\* No incomplete entry escapes the repair: while a host repairs, every entry it
\* owns that lacks something is in the queue, whatever the host that selected
\* the entries had of it, and what was written since the rows were read.
NoGapEscapes ==
    \A h \in Host : run[h] # Off =>
        \A r \in Owned(h) : Gaps(data[r]) # {} => r \in Queue(run[h].by)

\* A delta holds only what a repair wrote for the delta's candidate, though
\* collectors and prefills may have written the rows before and since.
DeltaIsRepaired ==
    \A h \in Host : \A r \in DOMAIN delta[h].rows :
        <<delta[h].candidate, r, PayloadOf(delta[h].rows[r])>> \in repaired

\* A valid union of deltas can be applied to a canonical database that has not
\* moved since the candidate: the columns taken over are all that it takes to
\* close the gaps of the queue.
UnmovedTakesUnion ==
    \A c \in sealed : ValidUnion(c) =>
        Merges(c, [r \in Row |-> ColumnsOf(Base(c)[r])], CanonicalRank)

\* A merge is exact, though deltas of other candidates are about and the
\* canonical database moves on: it changes a column only where that database
\* has what the candidate has, and to what a repair for that candidate wrote;
\* nothing but queued rows, which are complete in the end, also where the
\* definition comes from one side of the merge and its translation from the other.
MergeIsExact ==
    [][applied' # applied =>
        LET c == applied'.candidate IN
        /\ \A r \in Row : \A column \in Column :
            central'[r][column] # central[r][column] =>
                /\ r \in Queue(c) /\ central[r][column] = Base(c)[r][column]
                /\ \E x \in repaired :
                    x[1] = c /\ x[2] = r /\ x[3][Place[column]] = central'[r][column]
        /\ \A r \in Row : central'[r].source = central[r].source
        /\ \A r \in Queue(c) : Gaps(central'[r]) = {}]_vars

\* The candidate is the baseline of its deltas: they can be applied to it.
\* (The comment in package-fast20k.yml that calls it the exact baseline.)
CandidateTakesUnion ==
    \A c \in sealed : ValidUnion(c) =>
        Merges(c, [r \in Row |-> ColumnsOf(Base(c)[r])], SelectedRank)
=============================================================================
