--------------------------- MODULE ReleaseHistory ---------------------------
(***************************************************************************)
(* What one deployment track promises, whatever deployment_transaction.py  *)
(* does to keep it: the track has a history of releases, newest first; a   *)
(* command may leave it in doubt whether its own push or pop happened, and *)
(* later commands settle the doubt; the active symlink always serves the   *)
(* newest release of a history that is still possible.                     *)
(***************************************************************************)
EXTENDS Sequences

CONSTANTS Release,  \* the sealed releases of the track
          None      \* no release: the `current` link does not exist

VARIABLES outcomes,  \* the histories the track may still settle on
          serving    \* the release the active symlink names

hvars == <<outcomes, serving>>

Newest(h) == IF h = <<>> THEN None ELSE Head(h)

Init == outcomes = {<<>>} /\ serving = None

\* The active link may move among the newest releases of the outcomes.
Serve == serving' \in {Newest(h) : h \in outcomes'}

\* An activation or a rollback under way adds the outcome in which it succeeds.
Attempt(h) ==
    /\ \/ \E r \in Release \ {Newest(h)} : outcomes' = outcomes \cup {<<r>> \o h}
       \/ h # <<>> /\ outcomes' = outcomes \cup {Tail(h)}
    /\ Serve

\* A reconciliation, a flush to disk or a power loss rules outcomes out.
Settle ==
    /\ outcomes' \in (SUBSET outcomes) \ {{}}
    /\ Serve

Next == (\E h \in outcomes : Attempt(h)) \/ Settle

Spec == Init /\ [][Next]_hvars
=============================================================================
