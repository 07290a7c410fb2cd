--------------------------- MODULE ReserveManager ---------------------------
(***************************************************************************)
(* The token contract smart_contracts/contracts/ArosCoinReserveManager.sol *)
(* over the OpenZeppelin ERC20Burnable and Ownable that it inherits.  A    *)
(* transaction is atomic and one that reverts changes nothing, so a step   *)
(* is a transaction that succeeds.                                         *)
(***************************************************************************)
EXTENDS Integers, Functions

CONSTANTS
  Accounts,
  References,   \* the references that owners use
  MaxUint       \* 2^256 - 1, small; also the largest amount

NoOwner == "0x0"

Uints == 0 .. MaxUint

VARIABLES
  owner,
  balances,
  totalSupply,
  usedReferences,
  booked,         \* the owner's own books: the signed amount of each reference
  burnedByHolder  \* what holders burned without a reference

contractVars == <<owner, balances, totalSupply, usedReferences, booked, burnedByHolder>>

Init ==
  /\ owner \in Accounts
  /\ balances = [a \in Accounts |-> 0]
  /\ totalSupply = 0
  /\ usedReferences = {}
  /\ booked = [r \in References |-> 0]
  /\ burnedByHolder = 0

\* ERC20._update, whose checked arithmetic reverts on overflow.
erc20Mint(to, amount) ==
  /\ totalSupply + amount <= MaxUint
  /\ totalSupply' = totalSupply + amount
  /\ balances' = [balances EXCEPT ![to] = @ + amount]

erc20Burn(from, amount) ==
  /\ balances[from] >= amount
  /\ totalSupply' = totalSupply - amount
  /\ balances' = [balances EXCEPT ![from] = @ - amount]

\* Mutation: the reference of a mint is not kept.
mintUnmarked(to, amount, reference) ==
  /\ owner # NoOwner
  /\ reference \notin usedReferences
  /\ erc20Mint(to, amount)
  /\ booked' = [booked EXCEPT ![reference] = amount]
  /\ UNCHANGED <<owner, usedReferences, burnedByHolder>>

mint(to, amount, reference) ==
  /\ owner # NoOwner
  /\ reference \notin usedReferences
  /\ erc20Mint(to, amount)
  /\ usedReferences' = usedReferences \cup {reference}
  /\ booked' = [booked EXCEPT ![reference] = amount]
  /\ UNCHANGED <<owner, burnedByHolder>>

burnWithReference(from, amount, reference) ==
  /\ owner # NoOwner
  /\ reference \notin usedReferences
  /\ erc20Burn(from, amount)
  /\ usedReferences' = usedReferences \cup {reference}
  /\ booked' = [booked EXCEPT ![reference] = -amount]
  /\ UNCHANGED <<owner, burnedByHolder>>

\* ERC20Burnable.burn, and burnFrom with an allowance.
burn(from, amount) ==
  /\ erc20Burn(from, amount)
  /\ burnedByHolder' = burnedByHolder + amount
  /\ UNCHANGED <<owner, usedReferences, booked>>

\* ERC20.transfer, and transferFrom with an allowance.
transfer(from, to, amount) ==
  /\ balances[from] >= amount
  /\ balances' = [[balances EXCEPT ![from] = @ - amount] EXCEPT ![to] = @ + amount]
  /\ UNCHANGED <<owner, totalSupply, usedReferences, booked, burnedByHolder>>

\* Ownable.transferOwnership and renounceOwnership.
setOwner(next) ==
  /\ owner # NoOwner
  /\ owner' = next
  /\ UNCHANGED <<balances, totalSupply, usedReferences, booked, burnedByHolder>>

Next ==
  \/ \E a \in Accounts, n \in Uints, r \in References : mint(a, n, r) \/ burnWithReference(a, n, r)
  \/ \E a \in Accounts, n \in Uints : burn(a, n) \/ \E b \in Accounts : transfer(a, b, n)
  \/ \E o \in Accounts \cup {NoOwner} : setOwner(o)

-----------------------------------------------------------------------------
\* The supply is what the references account for, each of them once, less what
\* holders burned themselves; and it is the sum of the balances.  A reference that
\* was minted for and burned for, or used twice, would be booked over.
SupplyByReference ==
  /\ totalSupply = SumFunction(booked) - burnedByHolder
  /\ totalSupply = SumFunction(balances)
=============================================================================
