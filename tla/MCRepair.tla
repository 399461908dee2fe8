------------------------------- MODULE MCRepair -------------------------------
\* The repair seen from one host, where its service takes the database over from
\* the collectors, and from both, where its deltas are made and merged.  The two
\* share no variable; `subject` is the one a behaviour is about.
\*
\* Takeover: both collectors with their watchdogs; the repair service conflicts
\* with the micro collector.  Protocol: two hosts; one row without a definition,
\* one without its translation, which the selecting host has, and a complete one.
EXTENDS RepairProtocol, RepairCollectorState

CONSTANT Subjects

VARIABLE subject

MCEnabled == {"collector", "timer"} \X CollectorName
MCConflictsWith == {<<"collector", "micro">>}

Entry(definition, zh) ==
    [definition |-> definition, definition_zh |-> zh, other |-> FALSE, source |-> FALSE]

MCOriginal == [r \in Row |-> CASE r = 0 -> Entry("none", "none")
                               [] r = 1 -> Entry("short", "none")
                               [] OTHER -> Entry("short", "brief")]
MCReplica == [MCOriginal EXCEPT ![1] = Entry("short", "brief")]

\* The second row is moved up when an entry between them is not selected.
MCCanonicalRank == [r \in Row |-> 2 * r + 1]
MCSelectedRank == [r \in Row |-> r + 1]

MCInit == subject \in Subjects /\ Init /\ TakeoverInit

MCNext ==
    /\ UNCHANGED subject
    /\ \/ subject = "protocol" /\ Next /\ UNCHANGED takeoverVars
       \/ subject = "takeover" /\ TakeoverNext /\ UNCHANGED vars

MCSpec == MCInit /\ [][MCNext]_<<subject, vars, takeoverVars>>
=============================================================================
