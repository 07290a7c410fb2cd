--------------------------- MODULE MCOrchestrator ---------------------------
(* Orchestrator.tla on small instances; see Lifecycle.cfg, *)
(* LifecycleSingleEmission.cfg and LifecycleTraceable.cfg. *)
EXTENDS Orchestrator, TLC

CONSTANTS r1, r2, p1, p2, n1, n2, n3

MCDefaultNodes == <<n1, n2>>

Body(p, amount, admissible, nodeIds, epoch) ==
  [process |-> p, amount |-> amount, admissible |-> admissible, nodeIds |-> nodeIds,
   epoch |-> epoch]

\* A process and its retry, an inadmissible process, and one assigned to a node that is
\* never registered.
First == Body(p1, 200, TRUE, << >>, 1)
Retry == Body(p1, 200, TRUE, <<n1>>, 1)
Refused == Body(p2, 200, FALSE, << >>, 2)
Unknown == Body(p2, 200, TRUE, <<n1, n3>>, 2)

Of(a, b, n) == [requests |-> (r1 :> a) @@ (r2 :> b), faults |-> n]

\* Two requests that find no node both register the default ones: the only pair
\* without a fault, since its runs overlap in everything.
MCScenarios ==
  { Of(First, Retry, 1), Of(First, Refused, 1), Of(First, Unknown, 1), Of(First, First, 0) }
=============================================================================
