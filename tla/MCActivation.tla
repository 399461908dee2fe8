----------------------------- MODULE MCActivation -----------------------------
\* The activation of a release as the workflow sees it, on both hosts, and as the
\* control script does it on one.  The two share no variable; `subject` is the
\* one a behaviour is about.
\*
\* Control: two releases, which are alike, and two collectors, one of which the
\* repair conflicts with.  Coordinator: three releases, two of which carry the
\* same candidate.
EXTENDS ReleaseControl, ActivationCoordinator, TLC

CONSTANTS Subjects, r1, r2, r3, micro, full

VARIABLE subject

Alike == Permutations(Release)

\* r1 and r2 carry one candidate, r3 another.
MCCandidateOf == [r \in ReleaseId |-> r = r3]

MCInit ==
    /\ subject \in Subjects
    /\ Init /\ CoordinatorInit
    /\ subject # "control" => sys.writers = {}
    /\ subject # "coordinator" => run.release = r3

MCNext ==
    /\ UNCHANGED subject
    /\ \/ subject = "control" /\ Next /\ UNCHANGED coordinatorVars
       \/ subject = "coordinator" /\ CoordinatorNext /\ UNCHANGED vars

MCSpec == MCInit /\ [][MCNext]_<<subject, vars, coordinatorVars>>
=============================================================================
