------------------------------ MODULE OewnPrefill ------------------------------
(***************************************************************************)
(* tools/prefill_oewn.py --apply: the Open English WordNet is staged, the  *)
(* canonical dataset is copied to a candidate next to the output, the      *)
(* terms that the dataset has are filled in batches, and the candidate is  *)
(* validated and linked to the output path.  A published candidate may     *)
(* become the dataset of the next prefill.                                 *)
(*                                                                         *)
(* A word stands for its normalized key, a definition for the sequence of  *)
(* texts it joins; the part of speech and the phonetics are filled like    *)
(* the definition, examples are merged like antonyms.                      *)
(***************************************************************************)
EXTENDS Integers, Sequences, SequencesExt

CONSTANTS Headword, Synset, Gist,   \* words, synsets, texts of definitions
          Lexicons,    \* OEWN releases: terms, senses, texts and links
          Datasets,    \* canonical datasets, from words to entries
          Hyphened,    \* words with a space or a hyphen
          ListLimit,   \* limit of a list and per_source_limit (40)
          NoText,      \* a synset without a definition
          NoFile,      \* nothing at the output path
          OtherFile,   \* a file that the prefill has not made
          PrefillBatch,             \* --batch-size
          MaxDeaths, MaxPrefills    \* bounds

ASSUME PrefillConstants ==
    /\ ListLimit \in Nat /\ PrefillBatch \in Nat \ {0}
    /\ MaxDeaths \in Nat /\ MaxPrefills \in Nat

LinkColumn == {"related", "phrases"}
LinkType == {"antonym", "related"}
WordnetEntry ==
    [definition : Seq(Gist), synonyms : Seq(Headword), antonyms : Seq(Headword),
     words : [LinkColumn -> Seq(Headword)],
     entries : [LinkColumn -> Seq([word : Headword, usable : BOOLEAN])],
     senses : Seq(Synset), sourced : BOOLEAN, searched : Seq(Gist) \X Seq(Headword)]
Searchable(row) == <<row.definition, row.words["phrases"]>>

\* A dataset comes with a search index of what it has.
ASSUME PrefillTypes ==
    /\ \A l \in Lexicons :
          /\ l.terms \in Seq(Headword)
          /\ l.senses \in [ToSet(l.terms) -> Seq(Synset)]
          /\ l.links \in [Synset -> [LinkType -> Seq(Synset)]]
          /\ l.text \in [Synset -> Gist \cup {NoText}]
    /\ \A d \in Datasets :
          /\ d \in [DOMAIN d -> WordnetEntry]
          /\ \A w \in DOMAIN d : d[w].searched = Searchable(d[w])

VARIABLES lexicon,
          dataset,    \* rows of the input dataset
          prefills,   \* published candidates that have become the dataset
          output,     \* rows of the published file
          prefill,    \* the process with its candidate
          deaths

prefillVars == <<lexicon, dataset, prefills, output, prefill, deaths>>

-----------------------------------------------------------------------------
(* What OEWN says of a term (build_patch and the joins under it).          *)

Among(list, set) ==
    FlattenSeq([n \in DOMAIN list |-> IF list[n] \in set THEN <<list[n]>> ELSE <<>>])
AddNew(acc, v) == IF v \in ToSet(acc) THEN acc ELSE Append(acc, v)
Distinct(list) == FoldLeft(AddNew, <<>>, list)
UpToLimit(list) == SubSeq(list, 1, IF Len(list) < ListLimit THEN Len(list) ELSE ListLimit)

\* The words of a synset other than the term, each with the synset's definition.
Links(synset, term) ==
    LET members == Among(lexicon.terms,
                         {w \in DOMAIN lexicon.senses : w # term /\ synset \in ToSet(lexicon.senses[w])})
    IN [n \in DOMAIN members |-> [word |-> members[n], text |-> lexicon.text[synset]]]

LinksOfAll(synsets, term) ==
    FlattenSeq([n \in DOMAIN synsets |-> Links(synsets[n], term)])

Synonyms(term) == LinksOfAll(lexicon.senses[term], term)

\* relation_rows, for the antonym relation and for those of RELATED_RELATIONS.
LinksOf(term, type) ==
    LET senses == lexicon.senses[term]
    IN FlattenSeq([n \in DOMAIN senses |-> LinksOfAll(lexicon.links[senses[n]][type], term)])

LinkCandidates(term) ==
    LET related == LinksOf(term, "related")
        all == Synonyms(term) \o LinksOf(term, "antonym") \o related
    IN [c \in LinkColumn |-> IF c = "related" THEN related
                             ELSE Among(all, {l \in ToSet(all) : l.word \in Hyphened})]

Texts(term) ==
    LET senses == lexicon.senses[term]
        texts == [n \in DOMAIN senses |-> lexicon.text[senses[n]]]
    IN UpToLimit(Distinct(Among(texts, ToSet(texts) \ {NoText})))

WordsIn(links) == [n \in DOMAIN links |-> links[n].word]

-----------------------------------------------------------------------------
(* Merging it into an entry.                                               *)

\* merge_words and merge_text: append while there is room, never shrink.
AddWord(acc, w) == IF w \in ToSet(acc) \/ Len(acc) >= ListLimit THEN acc ELSE Append(acc, w)
MergeWords(list, additions) == FoldLeft(AddWord, list, additions)

\* resolve_rich_candidates: the first link to a word counts; a link without a
\* definition takes that of the word's entry as it is at that moment.
AddFirst(acc, l) == IF l.word \in ToSet(WordsIn(acc)) THEN acc ELSE Append(acc, l)
Resolve(rows, links) ==
    LET first == FoldLeft(AddFirst, <<>>, links)
        defined == {l \in ToSet(first) :
                       l.text # NoText
                       \/ (l.word \in DOMAIN rows /\ rows[l.word].definition # <<>>)}
    IN WordsIn(UpToLimit(Among(first, defined)))

RichWords(entries) ==
    {entries[n].word : n \in {m \in DOMAIN entries : entries[m].usable}}

\* merge_named_entries and, for the words whose rich entry is usable, merge_words.
AddEntry(acc, w) ==
    IF w \in ToSet(WordsIn(acc)) \/ Len(acc) >= ListLimit THEN acc
    ELSE Append(acc, [word |-> w, usable |-> TRUE])
MergeEntries(entries, words) == FoldLeft(AddEntry, entries, words)

\* Faulty: whatever was resolved is flattened.
MergeFlatAll(words, entries, resolved) == MergeWords(words, resolved)

MergeFlat(words, entries, resolved) ==
    MergeWords(words, Among(resolved, RichWords(entries)))

\* merge_senses: the limit counts the additions of one run.
MergeOewnSenses(senses, additions) ==
    LET given == Distinct(additions)
    IN senses \o UpToLimit(Among(given, ToSet(given) \ ToSet(senses)))

\* process_term with the entries_fts row it replaces.
ProcessTerm(rows, term) ==
    LET old == rows[term]
        resolved == [c \in LinkColumn |-> Resolve(rows, LinkCandidates(term)[c])]
        entries == [c \in LinkColumn |-> MergeEntries(old.entries[c], resolved[c])]
        filled ==
            [old EXCEPT
                !.definition = IF @ = <<>> THEN Texts(term) ELSE @,
                !.synonyms = MergeWords(@, WordsIn(Synonyms(term))),
                !.antonyms = MergeWords(@, WordsIn(LinksOf(term, "antonym"))),
                !.entries = entries,
                !.words = [c \in LinkColumn |-> MergeFlat(@[c], entries[c], resolved[c])],
                !.senses = MergeOewnSenses(@, lexicon.senses[term]),
                !.sourced = TRUE]
    IN [rows EXCEPT ![term] =
            IF Searchable(filled) = Searchable(old) THEN filled
            ELSE [filled EXCEPT !.searched = Searchable(filled)]]

\* A term the dataset does not have is skipped.
FillTerm(rows, term) == IF term \in DOMAIN rows THEN ProcessTerm(rows, term) ELSE rows

-----------------------------------------------------------------------------
(* The process.                                                            *)

Idle == [pc |-> "idle", candidate |-> <<>>, next |-> 1]

\* prefill: an occupied output is refused; copy_database makes the candidate.
StartPrefill ==
    /\ prefill = Idle /\ output = NoFile
    /\ prefill' = [pc |-> "fill", candidate |-> dataset, next |-> 1]
    /\ UNCHANGED <<lexicon, dataset, prefills, output, deaths>>

\* One batch of stage_terms in one transaction.
FillBatch ==
    /\ prefill.pc = "fill" /\ prefill.next <= Len(lexicon.terms)
    /\ LET last == prefill.next + PrefillBatch - 1
           terms == SubSeq(lexicon.terms, prefill.next,
                           IF last < Len(lexicon.terms) THEN last ELSE Len(lexicon.terms))
       IN prefill' = [prefill EXCEPT !.candidate = FoldLeft(FillTerm, @, terms),
                                     !.next = last + 1]
    /\ UNCHANGED <<lexicon, dataset, prefills, output, deaths>>

\* install_metadata, validate_candidate and os.link, which never replaces; the
\* candidate's directory is removed either way.
PublishCandidate ==
    /\ prefill.pc = "fill" /\ prefill.next > Len(lexicon.terms)
    /\ output' = IF output = NoFile THEN prefill.candidate ELSE output
    /\ prefill' = Idle
    /\ UNCHANGED <<lexicon, dataset, prefills, deaths>>

PrefillDies ==
    /\ prefill # Idle /\ deaths < MaxDeaths
    /\ prefill' = Idle /\ deaths' = deaths + 1
    /\ UNCHANGED <<lexicon, dataset, prefills, output>>

OutputOccupied ==
    /\ output = NoFile /\ deaths < MaxDeaths
    /\ output' = OtherFile /\ deaths' = deaths + 1
    /\ UNCHANGED <<lexicon, dataset, prefills, prefill>>

\* The published candidate becomes the canonical dataset.
AdoptOutput ==
    /\ prefill = Idle /\ output \notin {NoFile, OtherFile} /\ prefills < MaxPrefills
    /\ dataset' = output /\ output' = NoFile /\ prefills' = prefills + 1
    /\ UNCHANGED <<lexicon, prefill, deaths>>

PrefillInit ==
    /\ lexicon \in Lexicons /\ dataset \in Datasets
    /\ prefills = 0 /\ output = NoFile /\ prefill = Idle /\ deaths = 0

PrefillNext ==
    \/ StartPrefill \/ FillBatch \/ PublishCandidate \/ PrefillDies
    \/ OutputOccupied \/ AdoptOutput

PrefillSpec == PrefillInit /\ [][PrefillNext]_prefillVars

-----------------------------------------------------------------------------
(* Correctness.                                                            *)

Published == output \notin {NoFile, OtherFile}

\* A published candidate has the entries of its dataset and everything in them,
\* has treated every term, and has not put a word into a flat column without a
\* rich entry that can be shown, which "makes the collector skip Datamuse"
\* (resolve_rich_candidates); its search index is that of the new content.
PrefillExtends ==
    Published =>
        /\ DOMAIN output = DOMAIN dataset
        /\ \A w \in DOMAIN dataset :
              LET old == dataset[w]
                  new == output[w]
              IN /\ old.definition \in {<<>>, new.definition}
                 /\ \A c \in LinkColumn :
                       /\ IsPrefix(old.words[c], new.words[c])
                       /\ IsPrefix(old.entries[c], new.entries[c])
                       /\ ToSet(new.words[c]) \ ToSet(old.words[c]) \subseteq RichWords(new.entries[c])
                 /\ IsPrefix(old.synonyms, new.synonyms) /\ IsPrefix(old.antonyms, new.antonyms)
                 /\ IsPrefix(old.senses, new.senses)
                 /\ new.searched = Searchable(new)
                 /\ w \in ToSet(lexicon.terms) => new.sourced

\* test_second_candidate_is_logically_idempotent: a prefill of a prefilled
\* dataset changes no term.
SecondChangesNothing == (Published /\ prefills > 0) => output = dataset
=============================================================================
