----------------------------- MODULE MCEdgeWorker -----------------------------
\* What the Worker and the server behind it answer: batches of the collectors,
\* the progress of both hosts, and the paid requests of visitors.  No action of
\* one reads a variable of another, so that a behaviour here takes steps of one
\* of them only.
EXTENDS EnrichmentBatch, ProgressPage, WebQuota

\* A deep batch of two terms that may need every Datamuse request, and a core
\* batch of one term that the dictionary can satisfy.
CONSTANTS b1, b2, apple, pear

MCTermsOf == [b \in Batch |-> IF b = b1 THEN {apple, pear} ELSE {apple}]
MCNeedsOf ==
    [b \in Batch |-> [t \in Term |->
        IF b = b1 THEN {"frequency", "synonyms", "antonyms", "phrases", "related"}
        ELSE {"definition"}]]

\* Both hosts begin with the candidate `former`; one of them has its release or
\* its dataset exchanged while it counts, or counts twice.
CONSTANTS former, latter

MCServes == [h \in Host |-> {h}]
MCMaxEvents == [h \in Host |-> IF h = 0 THEN 3 ELSE 1]

\* A lookup and two documents a day, of which one is generated at a time.
MCLimit == [k \in Kind |-> IF k = "pdf" THEN 2 ELSE 1]

Enriching == posts > 0 \/ clock.now > 0
Showing ==
    \/ page # NoPage
    \/ \E h \in Host : events[h] > 0 \/ complete[h] # {} \/ answer[h] # NoAnswer

Visiting == today > 0 \/ threads # [t \in Thread |-> Unused] \/ \E c \in Account : usage[c] > 0

MCInit == WInit /\ PInit /\ (link = [h \in Host |-> former]) /\ QuotaInit

MCNext ==
    \/ ~Showing /\ ~Visiting /\ Next /\ UNCHANGED <<pvars, quotaVars>>
    \/ ~Enriching /\ ~Visiting /\ PNext /\ UNCHANGED <<vars, quotaVars>>
    \/ ~Enriching /\ ~Showing /\ QuotaNext /\ UNCHANGED <<vars, pvars>>

MCSpec ==
    /\ MCInit /\ [][MCNext]_<<vars, pvars, quotaVars>>
    /\ \A b \in Batch : WF_vars(Serve(b))
=============================================================================
