---------------------------- MODULE MCEdgeBatchers ----------------------------
\* The two batchers of the collector.  No action of one reads a variable of the
\* other, so that a behaviour here takes steps of one of them only.
\*
\* Four callers.  Dictionary: two of them ask for the same term with different
\* needs, so that a batch of two leaves a queue behind it and may share a term
\* or split it.  Translation: texts of two chunks, one, none and two, so that
\* slices of three chunks cut a text that shares its batch with another.
EXTENDS EdgeDictionaryBatcher, EdgeTranslationBatcher, TLC

CONSTANTS c1, c2, c3, c4, apple, pear, plum, definition, frequency

MCTermOf == (c1 :> apple) @@ (c2 :> apple) @@ (c3 :> pear) @@ (c4 :> plum)
MCNeedsOf == (c1 :> {definition}) @@ (c2 :> {frequency})
                @@ (c3 :> {definition, frequency}) @@ (c4 :> {definition})
MCChunksOf == (c1 :> 2) @@ (c2 :> 1) @@ (c3 :> 0) @@ (c4 :> 2)
MCNoneWide == {}
\* The first chunk of a long text has a character outside the basic plane.
MCWide == {<<c1, 1>>}

LookingUp == \E c \in Caller : answer[c] # Service!Idle
Translating == \E c \in Text : translation[c] # NotCalled

MCInit == BInit /\ TInit
MCNext ==
    \/ ~Translating /\ BNext /\ UNCHANGED tvars
    \/ ~LookingUp /\ TNext /\ UNCHANGED bvars

MCSpec ==
    /\ MCInit /\ [][MCNext]_<<bvars, tvars>>
    /\ WF_bvars(Flush) /\ WF_tvars(FlushTexts)
=============================================================================
