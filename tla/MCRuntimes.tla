----------------------------- MODULE MCRuntimes -----------------------------
(* Instances of Runtimes for TLC.  The shared instance has one workspace   *)
(* with a route caller, a pass and a connection against each other; the    *)
(* live one leaves it to the reconciler, the manager and two faults, while *)
(* a second workspace of the owner asks in vain for the only runtime.      *)
EXTENDS Runtimes, TLC

CONSTANTS w1, w2

\* Bound: the manager works on two requests at once.
FewRequests == Cardinality(ops) <= 2

\* Bound of the live instance: only the first workspace gets a runtime.
FirstOnly == \A w \in Workspaces \ {w1} : row[w].state = "ABSENT"

\* Bound of the live instance: nobody opens a browser session.
NoBrowser == \A w \in Workspaces : ~session[w]
=============================================================================
