--------------------------- MODULE ReferenceCore ---------------------------
(***************************************************************************)
(* The reference implementation that the services mirror,                  *)
(* reference/ast-core/src: synchronous and in memory, so that each method  *)
(* of the class AST is one step.  Weights and payments are fractions; what *)
(* is kept of a weight is whether it is positive, and of the payments of   *)
(* an epoch their sum, which is the distributable share of the pool.       *)
(***************************************************************************)
EXTENDS Naturals

CONSTANTS
  Processes,
  Nodes,
  Amounts,     \* the amounts of requests
  Threshold,   \* the volume above which reserveIndex exceeds release.threshold
  MaxVolume    \* bound on the volume

RequiredBeforeVerdict ==
  {"initiation", "task_assignment", "stage_transition", "execution_complete"}

VARIABLES
  captured,  \* StateRecording.captured: process -> event types
  verdicts,  \* PoT.verdicts
  coin,      \* ArosCoin: processMinted, processBurned, earnedRetained
  pool,      \* Commission.pool
  fees,      \* the sum of Commission.contributions
  volume,    \* Reserve.totalProcessVolume
  assigned,  \* the nodes whose status is active
  weighted,  \* the nodes with a positive weight
  active,    \* Release.active
  signals    \* the number of AllSeeingEye.signals

coreVars == <<captured, verdicts, coin, pool, fees, volume, assigned, weighted, active, signals>>

Init ==
  /\ captured = [p \in Processes |-> {}]
  /\ verdicts = [p \in Processes |-> "none"]
  /\ coin = [processMinted |-> 0, processBurned |-> 0, earnedRetained |-> 0]
  /\ pool = 0
  /\ fees = 0
  /\ volume = 0
  /\ assigned = Nodes
  /\ weighted = {}
  /\ active = FALSE
  /\ signals = 0

\* feeRate is 0.005 and marginRate 0.25: exact for amounts that are multiples of 800.
computeFee(amount) == (amount * 5) \div 1000

distributable == (pool * 3) \div 4

\* PoT.verify: the first verdict stands.  The chain of a synchronous program always
\* reconstructs, and a request that is not admissible does not come this far.
verify(p, events) ==
  IF verdicts[p] # "none" THEN verdicts[p]
  ELSE IF RequiredBeforeVerdict \subseteq events THEN "verified" ELSE "rejected"

\* AllSeeingEye.compareSupply signals a burn beyond the mint (TOK-202) and a negative
\* amount retained (TOK-203).
compareSupply(snapshot) ==
  signals' = signals + (IF snapshot.processBurned > snapshot.processMinted THEN 1 ELSE 0)
                     + (IF snapshot.earnedRetained < 0 THEN 1 ELSE 0)

RejectInadmissible(p) ==
  /\ captured' = [captured EXCEPT ![p] = @ \cup {"initiation"}]
  /\ UNCHANGED <<verdicts, coin, pool, fees, volume, assigned, weighted, active, signals>>

\* Every active node is assigned and credited with work.  The early return of a run
\* that PoT rejects is not reached: a run captures the required events itself.
RunProcess(p, amount) ==
  LET events == captured[p] \cup RequiredBeforeVerdict
  IN  /\ volume + amount <= MaxVolume
      /\ verify(p, events) = "verified"
      /\ verdicts' = [verdicts EXCEPT ![p] = "verified"]
      /\ weighted' = weighted \cup assigned
      /\ captured' = [captured EXCEPT ![p] =
           events \cup {"pot_verdict", "emission", "emission_burn", "final_status"}]
      /\ coin' = [coin EXCEPT !.processMinted = @ + amount, !.processBurned = @ + amount]
      /\ pool' = pool + computeFee(amount)
      /\ fees' = fees + computeFee(amount)
      /\ volume' = volume + amount
      /\ compareSupply(coin')
      /\ UNCHANGED <<assigned, active>>

\* Mutation: the pool is kept when an epoch is finalized.
FinalizeEpochKeepsPool ==
  /\ coin' = [coin EXCEPT !.earnedRetained = @ + (IF weighted = {} THEN 0 ELSE distributable)]
  /\ compareSupply(coin')
  /\ UNCHANGED <<captured, verdicts, pool, fees, volume, assigned, weighted, active>>

\* Nodes are paid by weight, the penalized ones too; without any weight the total
\* counts as 1, every payment is 0, and the pool is emptied all the same.
FinalizeEpoch ==
  /\ coin' = [coin EXCEPT !.earnedRetained = @ + (IF weighted = {} THEN 0 ELSE distributable)]
  /\ pool' = 0
  /\ compareSupply(coin')
  /\ UNCHANGED <<captured, verdicts, fees, volume, assigned, weighted, active>>

\* metrics() is a read that activates the release: velocity > 0.1, and it is 0 while
\* nothing is retained.
Metrics ==
  /\ active' = (active \/ ( /\ volume > Threshold
                            /\ coin.earnedRetained > 0
                            /\ 10 * volume > coin.earnedRetained ))
  /\ UNCHANGED <<captured, verdicts, coin, pool, fees, volume, assigned, weighted, signals>>

\* Nodes.penalize halves the weight, and the node is no longer assigned.
Penalize(n) ==
  /\ assigned' = assigned \ {n}
  /\ UNCHANGED <<captured, verdicts, coin, pool, fees, volume, weighted, active, signals>>

Next ==
  \/ \E p \in Processes : RejectInadmissible(p) \/ \E amount \in Amounts : RunProcess(p, amount)
  \/ FinalizeEpoch
  \/ Metrics
  \/ \E n \in Nodes : Penalize(n)

-----------------------------------------------------------------------------
\* "pool reconciles to zero remainder" (commission.ts), as far as it holds: of every
\* fee that left the pool 75% was earned, unless every node was penalized before any
\* of them had worked, when finalizing an epoch drops that share.
ShareReachesNodes ==
  \/ 4 * coin.earnedRetained = 3 * (fees - pool)
  \/ assigned = {} /\ weighted = {}
=============================================================================
