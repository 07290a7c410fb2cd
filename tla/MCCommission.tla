---------------------------- MODULE MCCommission ----------------------------
(* Commission.tla on small instances; see the Commission*.cfg files. *)
EXTENDS Commission

CONSTANTS a1, a2, a3, p1, p2

\* Multiples of 16, so that 75% of a sum of them divides by 1 to 4.
MCFee == [a \in Accruals |-> IF a = a1 THEN 16 ELSE 32]

\* A confirmed process on node 1; an unconfirmed one on node 1 (its verdict row
\* was overwritten by a second run) beside a confirmed one on node 2; a
\* confirmed one on both nodes.
MCParts ==
  [a \in Accruals |->
     CASE a = a1 -> << <<p1, 1>> >>
       [] a = a2 -> << <<p2, 1>>, <<p1, 2>> >>
       [] OTHER  -> << <<p1, 2>>, <<p1, 1>> >>]
=============================================================================
