------------------------------ MODULE MCDatasets ------------------------------
\* What writes the entries of a dataset: a collector over its shard, the delta of
\* the Kaikki relations, the prefill from OEWN, and the merge of the snapshots of
\* all shards.  They never run on one file at a time and share no variable here;
\* `subject` is the one a behaviour is about.
EXTENDS CollectorPass, RelationDelta, OewnPrefill, ShardSnapshots

CONSTANT Subjects

VARIABLE subject

-----------------------------------------------------------------------------
\* Three rows, one of which needs nothing from the network, in groups of two.
CONSTANTS r1, r2, r3, definition

MCTermOf == [r \in Caller |-> r]
MCNeedsOf == [r \in Caller |-> IF r = r3 THEN {} ELSE {definition}]
MCShard == <<r1, r2, r3>>

-----------------------------------------------------------------------------
\* Two entries.  Three records of the first have one gloss, without an id or with
\* different ones, and more words than a list of two takes; a record of the second
\* may come between them.  The first entry is bare, has that gloss without an id,
\* or has it twice with the two ids; the shard has the lists filled otherwise, an
\* entry without definition, or lacks the second entry or its sense.
CONSTANTS ant, bee, honeybee, undefined

MCSemantic == <<"hypernyms", "hyponyms">>
MCRanges == {{1, 2}, {1}}

Relating(hypernyms, hyponyms, alt) ==
    [f \in RelationField |-> CASE f = "hypernyms" -> hypernyms
                              [] f = "hyponyms" -> hyponyms [] f = "alt_of" -> alt]
Record(key, gloss, id, hypernyms, hyponyms, alt) ==
    [key |-> key,
     patches |-> <<[gloss |-> gloss, id |-> id, relations |-> Relating(hypernyms, hyponyms, alt)]>>]

First == {Record(1, "g", NoId, <<>>, <<ant>>, <<>>),
          Record(1, "g", "i", <<undefined, bee>>, <<>>, <<undefined>>),
          Record(1, "g", "j", <<honeybee, ant>>, <<>>, <<>>)}
MCRecords == First \cup {Record(2, "k", NoId, <<honeybee>>, <<>>, <<>>)}
MCDumps == {d \in [1 .. 3 -> MCRecords] : d[1] \in First /\ (d[2] \in First) # (d[3] \in First)}

Sense(gloss, id, hypernyms) ==
    [gloss |-> gloss, id |-> id, relations |-> Relating(hypernyms, <<>>, <<>>), attributed |-> {}]
Rich(word, usable) == [word |-> word, usable |-> usable]
Entry(words, entries, senses) ==
    [words |-> [c \in Column |-> words], entries |-> [c \in Column |-> entries],
     senses |-> senses, sourced |-> TRUE, provenance |-> 0, searched |-> words]
Bare == Entry(<<>>, <<>>, <<>>)
Second == Entry(<<>>, <<>>, <<Sense("k", NoId, <<>>)>>)

Canonical == {Bare, Entry(<<>>, <<>>, <<Sense("g", NoId, <<bee>>)>>),
              Entry(<<ant>>, <<>>, <<Sense("g", "i", <<ant>>), Sense("g", "j", <<>>)>>)}
Diverged(entry) ==
    {entry, Entry(<<bee>>, <<Rich(bee, TRUE), Rich(undefined, TRUE)>>, entry.senses),
     Entry(<<>>, <<Rich(ant, FALSE)>>, entry.senses),
     Entry(<<undefined>>, <<Rich(honeybee, TRUE)>>, entry.senses)}
Pairs ==
    {[canonical |-> <<entry, Second>>, shard |-> <<other, second>>] :
        entry \in Canonical, other \in UNION {Diverged(e) : e \in Canonical},
        second \in {Second, NoRow, Bare}}
MCStarts ==
    {s \in Pairs : /\ s.shard[1].senses = s.canonical[1].senses
                   /\ s.shard[2] = Second \/ s.shard[1] = s.canonical[1]}

-----------------------------------------------------------------------------
\* Three terms, one of which the dataset may lack; the first has three senses for
\* lists of two.  Synsets may lack their definition (Untold).
CONSTANTS cut, gash, incise, Untold

MCSenses == [w \in {cut, gash, incise} |->
    CASE w = cut -> <<1, 2, 3>> [] w = gash -> <<1, 4>> [] w = incise -> <<5>>]
MCLinks == [s \in 1 .. 5 |-> [antonym |-> IF s = 2 THEN <<5>> ELSE <<>>,
                              related |-> CASE s = 1 -> <<4, 5>> [] s = 5 -> <<3>> [] OTHER -> <<>>]]
MCLexicons ==
    {[terms |-> <<cut, gash, incise>>, senses |-> MCSenses, links |-> MCLinks,
      text |-> [s \in 1 .. 5 |-> IF s \in untold THEN NoText ELSE s]] : untold \in Untold}

Word(text, words, entries, senses) ==
    [definition |-> text, synonyms |-> words, antonyms |-> <<>>,
     words |-> [c \in LinkColumn |-> words], entries |-> [c \in LinkColumn |-> entries],
     senses |-> senses, sourced |-> FALSE, searched |-> <<text, words>>]
Words(w) ==
    LET other == IF w = gash THEN cut ELSE gash
    IN {Word(<<>>, <<>>, <<>>, <<>>), Word(<<0>>, <<>>, <<Rich(other, FALSE)>>, <<>>),
        Word(<<>>, <<undefined>>, <<Rich(undefined, TRUE), Rich(other, TRUE)>>, <<2>>)}
MCDatasets ==
    {[w \in {cut, gash} |-> IF w = cut THEN x ELSE y] : x \in Words(cut), y \in Words(gash)}
    \cup {[w \in {cut, gash, incise} |-> IF w = cut THEN x ELSE IF w = gash THEN y ELSE z] :
             x \in Words(cut), y \in Words(gash), z \in Words(incise)}

-----------------------------------------------------------------------------
\* Two hosts with one corpus of two rows at first; another dataset has another word
\* for the row of the first host, or a third row.
Corpus(word, size) ==
    [id \in 1 .. size |-> [word |-> IF id = 2 THEN word ELSE ant, content |-> 0]]
MCCorpora == {Corpus(bee, 2), Corpus(honeybee, 2), Corpus(bee, 3)}

-----------------------------------------------------------------------------
Chosen(set) == CHOOSE x \in set : TRUE

\* A behaviour about another subject has one dataset and one dump beside it.
MCInit ==
    /\ subject \in Subjects /\ CInit /\ DeltaInit /\ PrefillInit
    /\ SnapshotInit /\ live = [k \in ShardOf |-> Corpus(bee, 2)]
    /\ subject = "delta" \/ /\ dumps = <<Chosen(Dumps)>>
                            /\ canonical = Chosen(Starts).canonical
                            /\ target = Chosen(Starts).shard
    /\ subject = "prefill" \/ (lexicon = Chosen(Lexicons) /\ dataset = Chosen(Datasets))

MCNext ==
    /\ UNCHANGED subject
    /\ \/ subject = "collector" /\ Next /\ UNCHANGED <<deltaVars, prefillVars, snapshotVars>>
       \/ subject = "delta" /\ DeltaNext /\ UNCHANGED <<vars, prefillVars, snapshotVars>>
       \/ subject = "prefill" /\ PrefillNext /\ UNCHANGED <<vars, deltaVars, snapshotVars>>
       \/ subject = "snapshots" /\ SnapshotNext /\ UNCHANGED <<vars, deltaVars, prefillVars>>

\* The fairness of CollectorPass.
Others == <<subject, deltaVars, prefillVars, snapshotVars>>
Collects(A) == subject = "collector" /\ A /\ UNCHANGED Others
MCSpec ==
    /\ MCInit /\ [][MCNext]_<<vars, Others>>
    /\ WF_vars(Collects(Start)) /\ WF_vars(Collects(PassStep)) /\ WF_vars(Collects(RunFlusher))
    /\ \A r \in Caller : WF_vars(Collects(RowStep(r)))
=============================================================================
