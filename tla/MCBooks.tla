------------------------------ MODULE MCBooks ------------------------------
EXTENDS Books

o(name, key, amount) == [name |-> name, key |-> key, amount |-> amount]

\* One of each kind of operation, on one node; the mint makes the phase mature.
MCOps ==
  {o("recordMint", "ledger", 2), o("recordBurn", "ledger", 1), o("recordEarned", "ledger", 1),
   o("isActive", "phase", 0), o("activate", "phase", 0), o("register", "n1", 0),
   o("recordExecution", "n1", 1), o("recordExecution", "n1", 0), o("compareSupply", "ledger", 0),
   o("epochFinalized", "ledger", 2), o("log", "ledger", 0)}

MCNodes == {"n1"}

\* A database without a row, and one in which every row has been made.
MCDatabases ==
  {[k \in Keys |-> NoRow],
   [k \in Keys |-> CASE k = "ledger" -> ZeroLedger
                     [] k = "phase" -> InactivePhase
                     [] OTHER -> [successes |-> 1, total |-> 1, reputation |-> 60]]}
=============================================================================
