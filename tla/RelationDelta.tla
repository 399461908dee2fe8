----------------------------- MODULE RelationDelta -----------------------------
(***************************************************************************)
(* How the sense relations of the Kaikki dump reach a collector's shard.   *)
(* tools/build_kaikki_relation_delta.py scans the dump against the         *)
(* canonical dataset and publishes a compact delta; the tool               *)
(* tools/apply_kaikki_relation_delta.py appends it, on a server whose      *)
(* collector is stopped, to a shard that may have diverged.  A dump may    *)
(* return to a term after others: every contiguous chunk is merged into    *)
(* the row staged by the earlier ones.                                     *)
(*                                                                         *)
(* A word stands for its normalized key, a gloss for a part of speech with *)
(* a list of definitions, a dump for its English records in file order.    *)
(***************************************************************************)
EXTENDS Integers, Sequences, FiniteSets, SequencesExt

CONSTANTS RelationField,  \* the typed relations of a sense
          SemanticFields, \* those that feed the flat columns, in priority order
          Phrase,         \* words with a space or a hyphen
          Defined,        \* words whose canonical entry has a definition
          Lexeme, Gloss, SenseId,   \* what lists and senses are made of
          Capacity,       \* values a list may be extended to (40)
          NoId, NoRow,    \* no sense id; no entry, or nothing staged for it
          Unpublished, Foreign,  \* no file at the output path; another file
          Records,        \* what a line of the dump may be
          Dumps,          \* dumps: sequences of records
          Starts,         \* pairs of a canonical dataset and a shard
          Ranges,         \* what --start-id and --end-id may select
          BatchRows,      \* --batch-size
          MaxMishaps, MaxApplies  \* bounds: deaths and outside changes; runs

ASSUME DeltaConstants ==
    /\ Capacity \in Nat \ {0} /\ BatchRows \in Nat \ {0}
    /\ MaxMishaps \in Nat /\ MaxApplies \in Nat

Column == {"related", "phrases"}
Relation == [RelationField -> Seq(Lexeme)]
Patch == [gloss : Gloss, id : SenseId, relations : Relation]
Compact == [index : Nat, gloss : Gloss, id : SenseId, relations : Relation]
RichSense ==
    [gloss : Gloss, id : SenseId, relations : Relation, attributed : SUBSET RelationField]
EntryRow ==
    [words : [Column -> Seq(Lexeme)],
     entries : [Column -> Seq([word : Lexeme, usable : BOOLEAN])],
     senses : Seq(RichSense),
     sourced : BOOLEAN, provenance : Nat, searched : Seq(Lexeme)]
DeltaRow == [pairs : [Column -> Seq(Lexeme)], senses : Seq(Compact)]

ASSUME DeltaTypes ==
    /\ \A s \in Starts :
          /\ DOMAIN s.shard = DOMAIN s.canonical
          /\ \A e \in DOMAIN s.shard : s.canonical[e] \in EntryRow /\ s.shard[e] \in EntryRow \cup {NoRow}
    /\ NoRow \notin EntryRow /\ NoRow \notin DeltaRow /\ SemanticFields \in Seq(RelationField)
    /\ \A r \in Records : r.patches \in Seq(Patch)
    /\ \A d \in Dumps : d \in Seq(Records)

\* extract_relation_senses passes over a sense without relations.
ASSUME PatchesRelate ==
    \A r \in Records : \A n \in DOMAIN r.patches :
        \E f \in RelationField : r.patches[n].relations[f] # <<>>

\* The importer merges as the applier does: of one gloss, a sense without an id
\* that follows one with an id would have been put into that one.
AsImported(senses) ==
    \A j \in DOMAIN senses : senses[j].id = NoId =>
        \A i \in 1 .. j - 1 : senses[i].gloss = senses[j].gloss => senses[i].id = NoId

ASSUME CanonicalAsImported ==
    \A s \in Starts : \A e \in DOMAIN s.canonical : AsImported(s.canonical[e].senses)

VARIABLES canonical,  \* the dataset the delta is built from
          target,     \* the entries of the shard
          original,   \* history: the shard before any application
          dumps,      \* the contents the dump file has had; the last is there
          build,      \* the builder with its temporary database
          delta,      \* what is at the output path
          applier,
          mishaps

deltaVars == <<canonical, target, original, dumps, build, delta, applier, mishaps>>

-----------------------------------------------------------------------------
(* Senses and their relations.                                             *)

Larger(m, n) == IF m > n THEN m ELSE n
RoomLeft(list) == Larger(Capacity, Len(list)) - Len(list)

\* append_unique_strings: existing values stay, even above the capacity.
AddUnique(values, v) ==
    IF v \in ToSet(values) \/ Len(values) >= Capacity THEN values ELSE Append(values, v)
AppendUnique(list, additions) == FoldLeft(AddUnique, list, additions)

\* sense_matches: ids are compared when both senses have some.
Matches(sense, patch) ==
    /\ sense.gloss = patch.gloss
    /\ NoId \in {sense.id, patch.id} \/ sense.id = patch.id

FirstIn(list, Wanted(_)) ==
    LET hits == {i \in DOMAIN list : Wanted(list[i])}
    IN IF hits = {} THEN 0 ELSE CHOOSE i \in hits : \A j \in hits : i <= j

MatchOf(senses, patch) == FirstIn(senses, LAMBDA s : Matches(s, patch))

NoRelations == [f \in RelationField |-> <<>>]
Extended(relations, added) == [f \in RelationField |-> AppendUnique(relations[f], added[f])]

NewSense(patch) ==
    [gloss |-> patch.gloss, id |-> patch.id, relations |-> NoRelations, attributed |-> {}]
Enriched(sense, patch) ==
    [gloss |-> sense.gloss, id |-> sense.id,
     relations |-> Extended(sense.relations, patch.relations),
     attributed |-> sense.attributed \cup {f \in RelationField : patch.relations[f] # <<>>}]

\* merge_relation_senses, one patch.
MergeSense(senses, patch) ==
    LET i == MatchOf(senses, patch)
    IN IF i > 0 THEN [senses EXCEPT ![i] = Enriched(senses[i], patch)]
       ELSE Append(senses, Enriched(NewSense(patch), patch))

MergeSenses(senses, patches) == FoldLeft(MergeSense, senses, patches)

\* sense_patch_delta and compact_sense_patch_delta: the values a patch adds, and
\* where: at a sense of the canonical row, named by its index and by its
\* fingerprint (its gloss and id), or at a sense of its own (index 0).
CompactSense(senses, patch) ==
    LET i == MatchOf(senses, patch)
        current == IF i > 0 THEN senses[i].relations ELSE NoRelations
        missing == [f \in RelationField |->
            LET merged == AppendUnique(current[f], patch.relations[f])
            IN SubSeq(merged, Len(current[f]) + 1, Len(merged))]
        identity == IF i > 0 THEN senses[i] ELSE patch
    IN [index |-> i, gloss |-> identity.gloss, id |-> identity.id, relations |-> missing]

AddChange(compacts, c) == IF c.relations = NoRelations THEN compacts ELSE Append(compacts, c)
CompactSenses(senses, patches) ==
    FoldLeft(AddChange, <<>>, [n \in DOMAIN patches |-> CompactSense(senses, patches[n])])

\* merge_compact_sense_patches, one patch.  Fingerprints of one index cannot
\* conflict here: all come from one canonical row.
MergeCompact(compacts, c) ==
    LET same(d) == d.index = c.index /\ (c.index > 0 \/ Matches(d, c))
        i == FirstIn(compacts, same)
    IN IF i > 0
       THEN [compacts EXCEPT ![i].relations = Extended(@, c.relations)]
       ELSE Append(compacts, [c EXCEPT !.relations = Extended(NoRelations, @)])

\* expand_sense_patches, when no index is out of range or drifted.
Drifted(senses, c) ==
    c.index > 0 /\ (c.index > Len(senses)
                    \/ <<senses[c.index].gloss, senses[c.index].id>> # <<c.gloss, c.id>>)

-----------------------------------------------------------------------------
(* Flat columns and their rich companions.                                 *)

\* aggregate_patches: field by field, in priority order, of the words resolved.
AddDefined(words, v) ==
    IF v \in ToSet(words) \/ v \notin Defined THEN words ELSE Append(words, v)
AddPhrase(words, v) == IF v \in Phrase THEN Append(words, v) ELSE words

WordsOf(patches, f) == FlattenSeq([n \in DOMAIN patches |-> patches[n].relations[f]])
RelatedWords(patches) ==
    FoldLeft(AddDefined, <<>>,
             FlattenSeq([n \in DOMAIN SemanticFields |-> WordsOf(patches, SemanticFields[n])]))

FlatCandidates(patches) ==
    [c \in Column |-> IF c = "related" THEN RelatedWords(patches)
                      ELSE FoldLeft(AddPhrase, <<>>, RelatedWords(patches))]

Named(entries) == {entries[n].word : n \in DOMAIN entries}
Usable(entries) == {entries[n].word : n \in {m \in DOMAIN entries : entries[m].usable}}

\* paired_field_delta: the words to be added, each with its rich entry.
TakeAddition(acc, w) ==
    LET needsEntry == w \notin Usable(acc.entries) \cup ToSet(acc.added)
        refused == \/ needsEntry /\ w \in Named(acc.entries)
                   \/ Len(acc.added) >= RoomLeft(acc.words)
                   \/ needsEntry /\ acc.room = 0
    IN IF w \in ToSet(acc.words) \cup ToSet(acc.added) \/ w \in acc.seen THEN acc
       ELSE [acc EXCEPT !.added = IF refused THEN @ ELSE Append(@, w),
                        !.room = IF needsEntry /\ ~refused THEN @ - 1 ELSE @,
                        !.seen = @ \cup {w}]
PairedDelta(words, entries, candidates) ==
    FoldLeft(TakeAddition,
             [words |-> words, entries |-> entries, added |-> <<>>,
              room |-> RoomLeft(entries), seen |-> {}],
             candidates).added

\* Faulty: only the flat side needs room.
MergePairUnchecked(words, entries, pairs) ==
    [words |-> AppendUnique(words, pairs),
     entries |-> AppendUnique(entries, [n \in DOMAIN pairs |-> [word |-> pairs[n], usable |-> TRUE]])]

\* merge_paired_field: on the shard a pair needs room on every side it lacks.
TakePair(acc, w) ==
    LET needsWord == w \notin ToSet(acc.words)
        needsEntry == w \notin Usable(acc.entries)
        refused == \/ needsEntry /\ w \in Named(acc.entries)
                   \/ needsWord /\ Len(acc.words) >= Capacity
                   \/ needsEntry /\ Len(acc.entries) >= Capacity
    IN IF refused THEN acc
       ELSE [words |-> IF needsWord THEN Append(acc.words, w) ELSE acc.words,
             entries |-> IF needsEntry THEN Append(acc.entries, [word |-> w, usable |-> TRUE])
                         ELSE acc.entries]
MergePair(words, entries, pairs) ==
    FoldLeft(TakePair, [words |-> words, entries |-> entries], pairs)

-----------------------------------------------------------------------------
(* Rows of the delta.                                                      *)

\* delta_for_entry, on the patches of one chunk.
ChunkDelta(row, patches) ==
    [pairs |-> [c \in Column |-> PairedDelta(row.words[c], row.entries[c], FlatCandidates(patches)[c])],
     senses |-> CompactSenses(row.senses, patches)]

\* Faulty: a later chunk takes the place of the staged row.
MergeDeltaReplaces(row, staged, incoming) == incoming

\* merge_delta_record: additions are recomputed from the canonical row and all
\* candidates staged so far, so that the chunks share one capacity.
MergeDelta(row, staged, incoming) ==
    LET prior == IF staged = NoRow
                 THEN [pairs |-> [c \in Column |-> <<>>], senses |-> <<>>] ELSE staged
    IN [pairs |-> [c \in Column |-> PairedDelta(row.words[c], row.entries[c],
                                                prior.pairs[c] \o incoming.pairs[c])],
        senses |-> FoldLeft(MergeCompact, <<>>, prior.senses \o incoming.senses)]

HasChanges(row, d) ==
    \/ \E c \in Column : d.pairs[c] # <<>>
    \/ d.senses # <<>>
    \/ ~row.sourced

\* merge_patch: the shard's row with its search index row, or why it is refused.
Refused(row, d) ==
    row = NoRow \/ \E n \in DOMAIN d.senses : Drifted(row.senses, d.senses[n])

MergePatch(row, d, digest) ==
    LET flat == [c \in Column |-> MergePair(row.words[c], row.entries[c], d.pairs[c])]
        phrases == flat["phrases"].words
    IN [words |-> [c \in Column |-> flat[c].words],
        entries |-> [c \in Column |-> flat[c].entries],
        senses |-> MergeSenses(row.senses, d.senses),
        sourced |-> TRUE,
        provenance |-> digest,
        searched |-> IF phrases = row.words["phrases"] THEN row.searched ELSE phrases]

-----------------------------------------------------------------------------
(* The builder.                                                            *)

Dump == dumps[Len(dumps)]

NoBuild == [pc |-> "idle", line |-> 1, key |-> 0, patches |-> <<>>, staged |-> <<>>,
            range |-> {}, identity |-> 0]

StartBuild(range) ==
    /\ build = NoBuild /\ delta = Unpublished
    /\ build' = [NoBuild EXCEPT !.pc = "scan", !.range = range, !.identity = Len(dumps),
                                !.staged = [e \in DOMAIN canonical |-> NoRow]]
    /\ UNCHANGED <<canonical, target, original, dumps, delta, applier, mishaps>>

\* flush_current; lookup_entry finds no row outside of the range.
Flushed(b) ==
    IF b.key \notin b.range \cap DOMAIN canonical \/ b.patches = <<>>
    THEN [b EXCEPT !.patches = <<>>]
    ELSE LET row == canonical[b.key]
             d == MergeDelta(row, b.staged[b.key], ChunkDelta(row, b.patches))
         IN [b EXCEPT !.patches = <<>>,
                      !.staged[b.key] = IF HasChanges(row, d) THEN d ELSE @]

ReadRecord ==
    /\ build.pc = "scan" /\ build.line <= Len(Dump)
    /\ LET r == Dump[build.line]
           b == IF r.key = build.key THEN build ELSE [Flushed(build) EXCEPT !.key = r.key]
       IN build' = [b EXCEPT !.patches = @ \o r.patches, !.line = @ + 1]
    /\ UNCHANGED <<canonical, target, original, dumps, delta, applier, mishaps>>

\* The dump must be the file that was hashed, and link never replaces.
Publish ==
    /\ build.pc = "scan" /\ build.line > Len(Dump)
    /\ build' = NoBuild
    /\ delta' = IF Len(dumps) # build.identity \/ delta # Unpublished THEN delta
                ELSE [rows |-> Flushed(build).staged, digest |-> build.identity,
                      range |-> build.range]
    /\ UNCHANGED <<canonical, target, original, dumps, applier, mishaps>>

BuilderDies ==
    /\ build # NoBuild /\ mishaps < MaxMishaps
    /\ build' = NoBuild /\ mishaps' = mishaps + 1
    /\ UNCHANGED <<canonical, target, original, dumps, delta, applier>>

\* The dump is downloaded again, over the file that may be being read.
DumpReplaced(r) ==
    /\ mishaps < MaxMishaps
    /\ dumps' = Append(dumps, [Dump EXCEPT ![Len(Dump)] = r])
    /\ mishaps' = mishaps + 1
    /\ UNCHANGED <<canonical, target, original, build, delta, applier>>

OutputTaken ==
    /\ delta = Unpublished /\ mishaps < MaxMishaps
    /\ delta' = Foreign /\ mishaps' = mishaps + 1
    /\ UNCHANGED <<canonical, target, original, dumps, build, applier>>

-----------------------------------------------------------------------------
(* The applier, with --apply.                                              *)

NoApplier == [pc |-> "idle", range |-> {}, todo |-> {}, before |-> target, runs |-> 0]

RowsIn(range) == {e \in range \cap DOMAIN delta.rows : delta.rows[e] # NoRow}
Misfits(rows) == {e \in rows : Refused(target[e], delta.rows[e])}

\* open_delta and validate_delta_schema refuse a missing or foreign file.
StartApply(range) ==
    /\ delta \notin {Unpublished, Foreign}
    /\ applier.pc \in {"idle", "done", "failed"} /\ applier.runs < MaxApplies
    /\ applier' = [pc |-> "check", range |-> range, todo |-> RowsIn(range),
                   before |-> target, runs |-> applier.runs + 1]
    /\ UNCHANGED <<canonical, target, original, dumps, build, delta, mishaps>>

\* Faulty: the identity of an entry is enough, as in a dry run.
PreflightIdentity ==
    /\ applier.pc = "check"
    /\ applier' = [applier EXCEPT !.pc =
         IF \E e \in applier.todo : target[e] = NoRow THEN "failed" ELSE "write"]
    /\ UNCHANGED <<canonical, target, original, dumps, build, delta, mishaps>>

\* The full preflight: a dry merge of every selected row.
Preflight ==
    /\ applier.pc = "check"
    /\ applier' = [applier EXCEPT !.pc = IF Misfits(applier.todo) = {} THEN "write" ELSE "failed"]
    /\ UNCHANGED <<canonical, target, original, dumps, build, delta, mishaps>>

\* The next rows by id, as many as a batch holds.
Batches(rows) ==
    {batch \in SUBSET rows :
        /\ \A e \in batch, f \in rows \ batch : e < f
        /\ batch # {} /\ Cardinality(batch) <= BatchRows
        /\ batch = rows \/ Cardinality(batch) = BatchRows}

\* One transaction; a refused row rolls it back and ends the run.
ApplyBatch ==
    /\ applier.pc = "write"
    /\ \E batch \in Batches(applier.todo) :
          IF Misfits(batch) # {}
          THEN applier' = [applier EXCEPT !.pc = "failed"] /\ UNCHANGED target
          ELSE /\ target' = [e \in DOMAIN target |->
                    IF e \in batch THEN MergePatch(target[e], delta.rows[e], delta.digest)
                    ELSE target[e]]
               /\ applier' = [applier EXCEPT !.todo = @ \ batch]
    /\ UNCHANGED <<canonical, original, dumps, build, delta, mishaps>>

FinishApply ==
    /\ applier.pc = "write" /\ applier.todo = {}
    /\ applier' = [applier EXCEPT !.pc = "done"]
    /\ UNCHANGED <<canonical, target, original, dumps, build, delta, mishaps>>

ApplierDies ==
    /\ applier.pc \in {"check", "write"} /\ mishaps < MaxMishaps
    /\ applier' = [applier EXCEPT !.pc = "idle"] /\ mishaps' = mishaps + 1
    /\ UNCHANGED <<canonical, target, original, dumps, build, delta>>

-----------------------------------------------------------------------------
DeltaInit ==
    /\ \E s \in Starts : canonical = s.canonical /\ target = s.shard
    /\ original = target
    /\ \E d \in Dumps : dumps = <<d>>
    /\ build = NoBuild /\ delta = Unpublished /\ applier = NoApplier /\ mishaps = 0

DeltaNext ==
    \/ \E range \in Ranges : StartBuild(range) \/ StartApply(range)
    \/ ReadRecord \/ Publish \/ BuilderDies \/ OutputTaken
    \/ \E r \in Records : DumpReplaced(r)
    \/ Preflight \/ ApplyBatch \/ FinishApply \/ ApplierDies

DeltaSpec == DeltaInit /\ [][DeltaNext]_deltaVars

-----------------------------------------------------------------------------
(* Correctness.                                                            *)

\* A word the applier put into a flat column has a rich entry with a definition
\* on that row, however the shard's occupancy differs from the canonical one: a
\* word alone would keep the collector from asking Datamuse (the comment in
\* merge_paired_field).
FlatHasDefinition ==
    \A e \in DOMAIN target : target[e] # NoRow =>
        \A c \in Column :
            ToSet(target[e].words[c]) \ ToSet(original[e].words[c])
                \subseteq Usable(target[e].entries[c])

\* A published delta, on the dataset it was built from, is the merge of every
\* record of the dump it names: of the senses no matter how the records of a term
\* are spread over the dump (the docstring of merge_compact_sense_patches); of the
\* words, which are ordered by field within a run of records of the term, the first
\* seen first and under one capacity (the comment in merge_delta_record).  It is
\* never of a dump that was exchanged while it was read.
RecordsOf(records, e) ==
    FlattenSeq([n \in DOMAIN records |->
        IF records[n].key = e THEN records[n].patches ELSE <<>>])

RunEnds(records) ==
    {n \in DOMAIN records : n = Len(records) \/ records[n + 1].key # records[n].key}
RunTo(records, n) ==
    LET within == {m \in 1 .. n : \A k \in m .. n : records[k].key = records[n].key}
    IN SubSeq(records, Min(within), n)

CandidatesOf(records, e, c) ==
    FlattenSeq([n \in DOMAIN records |->
        IF records[n].key = e /\ n \in RunEnds(records)
        THEN FlatCandidates(RecordsOf(RunTo(records, n), e))[c] ELSE <<>>])

Relations(senses) == [n \in DOMAIN senses |-> [senses[n] EXCEPT !.attributed = {}]]

DeltaReproducesDump ==
    delta \notin {Unpublished, Foreign} =>
        \A e \in delta.range \cap DOMAIN canonical :
            LET row == canonical[e]
                d == delta.rows[e]
                patches == RecordsOf(dumps[delta.digest], e)
                merged == MergePatch(row, d, delta.digest)
                result == IF d = NoRow THEN row ELSE merged
            IN /\ Relations(result.senses) = Relations(MergeSenses(row.senses, patches))
               /\ \A c \in Column :
                     result.words[c] = row.words[c] \o
                         PairedDelta(row.words[c], row.entries[c],
                                     CandidatesOf(dumps[delta.digest], e, c))

\* A delta that does not fit the shard, by a missing entry or by a drifted sense,
\* is refused before any write: it "rejects a delta built from a different
\* database [...] instead of partially applying it" (apply_delta).
RefusedWritesNothing == applier.pc = "failed" => target = applier.before

\* An application that completes leaves every selected row as a single one to the
\* original shard would, however often others were cut ("idempotently append").
CompletedAppliesOnce ==
    applier.pc = "done" =>
        \A e \in RowsIn(applier.range) :
            target[e] = MergePatch(original[e], delta.rows[e], delta.digest)

\* An application that ends, ends whole.
ApplyEndsWhole == RefusedWritesNothing /\ CompletedAppliesOnce
=============================================================================
