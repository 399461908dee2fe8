------------------------------ MODULE MCReleases ------------------------------
\* What a release is made of and becomes, each alone: how its candidate is selected
\* and packaged, how it gets into releases/, and how the releases there are
\* activated and rolled back.
\*
\* Activation: three releases, so that a journal nests a predecessor that nests
\* another.  Staging: two ids, two acceptable candidates and a broken one, and an
\* upload that is replaced twice.
EXTENDS ReleaseTransaction, ReleaseStaging, CandidateSelection, TLC

CONSTANTS good, f1, f2

Symmetry == Permutations(Release)

-----------------------------------------------------------------------------
\* Two hosts and five rows, the third a spelling of the first's term; the ranks of
\* two are equal.  Rows become fit or unfit, gain or lose a gap, and turn from a
\* word into a phrase or back.  Selections of three rows, one of them a phrase, may
\* have to take words for phrases or phrases for words.
Lexical(key, rank, kind, gaps) ==
    [key |-> key, rank |-> rank, kind |-> kind, gaps |-> gaps,
     origin |-> IF kind = "unfit" THEN "none" ELSE "sources",
     evidence |-> IF kind = "phrase" THEN "entry" ELSE ""]
MCVariants ==
    <<{Lexical("a", 1, "word", {}), Lexical("a", 1, "word", {"definition"}), Lexical("a", 1, "unfit", {})},
      {Lexical("b", 1, "word", {}), Lexical("b", 1, "word", {"definition"})},
      {Lexical("a", 2, "word", {})},
      {Lexical("p", 3, "phrase", {}), Lexical("p", 3, "unfit", {})},
      {Lexical("c", 4, "word", {}), Lexical("c", 4, "phrase", {})}>>

Fit == <<Lexical("a", 1, "word", {}), Lexical("b", 1, "word", {}), Lexical("a", 2, "word", {}),
         Lexical("p", 3, "phrase", {}), Lexical("c", 4, "word", {})>>
Poor == <<Lexical("a", 1, "unfit", {}), Lexical("b", 1, "word", {}), Lexical("a", 2, "unfit", {}),
          Lexical("p", 3, "unfit", {}), Lexical("c", 4, "phrase", {})>>
MCReplicas == {[h \in 0 .. 1 |-> rows] : rows \in {Fit, Poor}}

Job(by, host, template, dest, replace) ==
    [by |-> by, host |-> host, template |-> template, dest |-> dest, replace |-> replace]
MCRequests ==
    {Job("select", 0, f2, f1, TRUE), Job("refresh", 0, f1, f2, TRUE),
     Job("owner", 1, f1, f2, FALSE), Job("package", 0, f1, f1, FALSE),
     Job("package", 0, f2, f1, FALSE)}

-----------------------------------------------------------------------------
Activating == survivors # {Empty} \/ proc # NoProcess
Staging ==
    \/ command # NoCommand \/ upload.count > 0
    \/ \E s \in kept : \E i \in Id : s.preparations[i] # Absent \/ s.releases[i] # Absent
    \/ \E i \in Id : promised[i].candidate # NoCandidate \/ promised[i].stage # "none"

\* A behaviour about the releases has the first replica beside it.
Selecting == spent # NoSpent \/ replica # [h \in 0 .. 1 |-> Fit]

MCInit ==
    /\ Init /\ SInit /\ upload.content = good
    /\ CandidateInit

MCNext ==
    \/ ~Staging /\ ~Selecting /\ Next /\ UNCHANGED <<svars, candidateVars>>
    \/ ~Activating /\ ~Selecting /\ SNext /\ UNCHANGED <<vars, candidateVars>>
    \/ ~Activating /\ ~Staging /\ CandidateNext /\ UNCHANGED <<vars, svars>>

MCSpec == MCInit /\ [][MCNext]_<<vars, svars, candidateVars>>
=============================================================================
