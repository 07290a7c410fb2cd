--------------------------- MODULE StandaloneProofs ---------------------------
(***************************************************************************)
(* Proofs about the three programs of MCStandalone.tla, which share        *)
(* nothing: each invariant is over the variables of one of them, and the   *)
(* steps of the other two leave those alone.                               *)
(***************************************************************************)
EXTENDS MCStandalone, SumTheorems

-----------------------------------------------------------------------------
(* The token contract.  A reference is booked when it is used, and only    *)
(* once, so an unused one is booked as 0.                                  *)

ContractFinite == IsFiniteSet(Accounts) /\ IsFiniteSet(References) /\ MaxUint \in Nat

Booked == SumFunctionOnSet(booked, References)

Held == SumFunctionOnSet(balances, Accounts)

UnusedUnbooked == \A r \in References : r \notin usedReferences => booked[r] = 0

ContractInv ==
  /\ balances \in [Accounts -> Nat] /\ booked \in [References -> Int]
  /\ totalSupply \in Nat /\ burnedByHolder \in Nat
  /\ UnusedUnbooked
  /\ totalSupply = Booked - burnedByHolder
  /\ totalSupply = Held

\* The property in terms of these sums.
LEMMA SupplyAs ==
  ASSUME balances \in [Accounts -> Nat], booked \in [References -> Int]
  PROVE  ContractSupplyByReference <=> totalSupply = Booked - burnedByHolder /\ totalSupply = Held
<1>1. DOMAIN balances = Accounts /\ DOMAIN booked = References
  OBVIOUS
<1>2. Contract!SumFunction(booked) = SumFunctionOnSet(booked, DOMAIN booked)
  BY Zenon DEF Contract!SumFunction, Contract!SumFunctionOnSet, Contract!FoldFunctionOnSet,
     Contract!MapThenFoldSet, SumFunctionOnSet, FoldFunctionOnSet, MapThenFoldSet
<1>3. Contract!SumFunction(balances) = SumFunctionOnSet(balances, DOMAIN balances)
  BY Zenon DEF Contract!SumFunction, Contract!SumFunctionOnSet, Contract!FoldFunctionOnSet,
     Contract!MapThenFoldSet, SumFunctionOnSet, FoldFunctionOnSet, MapThenFoldSet
<1> QED BY <1>1, <1>2, <1>3 DEF ContractSupplyByReference, Contract!SupplyByReference, Booked, Held

\* No account holds more than there is.
LEMMA HeldBounds ==
  ASSUME ContractInv, ContractFinite
  PROVE  \A a \in Accounts : balances[a] <= totalSupply
<1>1. \A a \in Accounts : balances[a] \in Nat
  BY DEF ContractInv
<1>2. \A a \in Accounts : balances[a] <= SumFunctionOnSet(balances, Accounts)
  BY <1>1, SumNat DEF ContractFinite
<1> QED BY <1>2 DEF ContractInv, Held

\* One balance is assigned.
LEMMA HeldAssign ==
  ASSUME ContractInv, ContractFinite, NEW a \in Accounts, NEW n \in Nat,
         balances' = [balances EXCEPT ![a] = n]
  PROVE  balances' \in [Accounts -> Nat] /\ Held' = totalSupply - balances[a] + n
<1>1. balances \in [Accounts -> Nat] /\ balances \in [Accounts -> Int]
  BY DEF ContractInv
<1>2. Held' = Held - balances[a] + n
  <2>0. PICK g : g = balances'
    OBVIOUS
  <2>1. IntOn(balances, Accounts) /\ IntOn(g, Accounts) /\ g[a] = n
    BY <1>1, <2>0 DEF IntOn
  <2>2. \A x \in Accounts \ {a} : g[x] = balances[x]
    BY <1>1, <2>0
  <2>3. SumFunctionOnSet(g, Accounts) = SumFunctionOnSet(balances, Accounts) - balances[a] + g[a]
    BY <2>1, <2>2, SumChange DEF ContractFinite
  <2> QED BY <2>0, <2>1, <2>3 DEF Held
<1> QED BY <1>1, <1>2 DEF ContractInv

\* An unused reference is used.
LEMMA BookedAssign ==
  ASSUME ContractInv, ContractFinite, NEW r \in References, r \notin usedReferences, NEW n \in Int,
         booked' = [booked EXCEPT ![r] = n], usedReferences' = usedReferences \cup {r}
  PROVE  booked' \in [References -> Int] /\ Booked' = Booked + n /\ Booked \in Int /\ UnusedUnbooked'
<1>1. booked \in [References -> Int] /\ booked[r] = 0
  BY DEF ContractInv, UnusedUnbooked
<1>2. Booked' = Booked - booked[r] + n /\ Booked \in Int
  <2>0. PICK g : g = booked'
    OBVIOUS
  <2>1. IntOn(booked, References) /\ IntOn(g, References) /\ g[r] = n
    BY <1>1, <2>0 DEF IntOn
  <2>2. \A x \in References \ {r} : g[x] = booked[x]
    BY <1>1, <2>0
  <2>3. SumFunctionOnSet(g, References) = SumFunctionOnSet(booked, References) - booked[r] + g[r]
    BY <2>1, <2>2, SumChange DEF ContractFinite
  <2>4. SumFunctionOnSet(booked, References) \in Int
    BY <2>1, SumInt DEF ContractFinite
  <2> QED BY <2>0, <2>1, <2>3, <2>4 DEF Booked
<1>3. UnusedUnbooked'
  BY <1>1 DEF ContractInv, UnusedUnbooked
<1> QED BY <1>1, <1>2, <1>3

\* The sums and the amounts are integers.
LEMMA ContractNumbers ==
  ASSUME ContractInv, ContractFinite
  PROVE  /\ Booked \in Int /\ totalSupply \in Nat /\ burnedByHolder \in Nat
         /\ \A a \in Accounts : balances[a] \in Nat
         /\ Contract!Uints \subseteq Nat
<1>1. IntOn(booked, References)
  BY DEF ContractInv, IntOn
<1>2. Booked \in Int
  BY <1>1, SumInt DEF Booked, ContractFinite
<1> QED BY <1>2 DEF ContractInv, ContractFinite, Contract!Uints

\* A mint adds to a balance, the supply and an unused reference.
LEMMA MintKeeps ==
  ASSUME ContractInv, ContractFinite, NEW a \in Accounts, NEW n \in Contract!Uints, NEW r \in References,
         Contract!mint(a, n, r)
  PROVE  ContractInv'
<1> USE ContractNumbers
<1>1. /\ r \notin usedReferences /\ totalSupply' = totalSupply + n
      /\ balances' = [balances EXCEPT ![a] = balances[a] + n]
      /\ usedReferences' = usedReferences \cup {r} /\ booked' = [booked EXCEPT ![r] = n]
      /\ burnedByHolder' = burnedByHolder
  BY DEF Contract!mint, Contract!erc20Mint
<1>2. n \in Nat /\ n \in Int /\ balances[a] + n \in Nat
  OBVIOUS
<1>3. balances' \in [Accounts -> Nat] /\ Held' = totalSupply - balances[a] + (balances[a] + n)
  BY <1>1, <1>2, HeldAssign
<1>4. booked' \in [References -> Int] /\ Booked' = Booked + n /\ UnusedUnbooked'
  BY <1>1, <1>2, BookedAssign
<1>5. totalSupply' = Booked' - burnedByHolder' /\ totalSupply' = Held' /\ totalSupply' \in Nat
  BY <1>1, <1>2, <1>3, <1>4 DEF ContractInv
<1> QED BY <1>1, <1>3, <1>4, <1>5 DEF ContractInv

\* A burn with a reference takes from each of them.
LEMMA BurnWithReferenceKeeps ==
  ASSUME ContractInv, ContractFinite, NEW a \in Accounts, NEW n \in Contract!Uints, NEW r \in References,
         Contract!burnWithReference(a, n, r)
  PROVE  ContractInv'
<1> USE ContractNumbers
<1>1. /\ r \notin usedReferences /\ totalSupply' = totalSupply - n /\ balances[a] >= n
      /\ balances' = [balances EXCEPT ![a] = balances[a] - n]
      /\ usedReferences' = usedReferences \cup {r} /\ booked' = [booked EXCEPT ![r] = -n]
      /\ burnedByHolder' = burnedByHolder
  BY DEF Contract!burnWithReference, Contract!erc20Burn
<1>2. n \in Nat /\ -n \in Int /\ balances[a] - n \in Nat /\ balances[a] <= totalSupply
  BY <1>1, HeldBounds
<1>3. balances' \in [Accounts -> Nat] /\ Held' = totalSupply - balances[a] + (balances[a] - n)
  BY <1>1, <1>2, HeldAssign
<1>4. booked' \in [References -> Int] /\ Booked' = Booked + (-n) /\ UnusedUnbooked'
  BY <1>1, <1>2, BookedAssign
<1>5. totalSupply' = Booked' - burnedByHolder' /\ totalSupply' = Held' /\ totalSupply' \in Nat
  BY <1>1, <1>2, <1>3, <1>4 DEF ContractInv
<1> QED BY <1>1, <1>3, <1>4, <1>5 DEF ContractInv

\* A holder's burn is counted apart.
LEMMA BurnKeeps ==
  ASSUME ContractInv, ContractFinite, NEW a \in Accounts, NEW n \in Contract!Uints, Contract!burn(a, n)
  PROVE  ContractInv'
<1> USE ContractNumbers
<1>1. /\ totalSupply' = totalSupply - n /\ balances[a] >= n
      /\ balances' = [balances EXCEPT ![a] = balances[a] - n]
      /\ burnedByHolder' = burnedByHolder + n /\ UNCHANGED <<usedReferences, booked>>
  BY DEF Contract!burn, Contract!erc20Burn
<1>2. n \in Nat /\ balances[a] - n \in Nat /\ balances[a] <= totalSupply
  BY <1>1, HeldBounds
<1>3. balances' \in [Accounts -> Nat] /\ Held' = totalSupply - balances[a] + (balances[a] - n)
  BY <1>1, <1>2, HeldAssign
<1>4. Booked' = Booked /\ UnusedUnbooked'
  BY <1>1 DEF ContractInv, Booked, UnusedUnbooked
<1>5. totalSupply' = Booked' - burnedByHolder' /\ totalSupply' = Held' /\ totalSupply' \in Nat
  BY <1>1, <1>2, <1>3, <1>4 DEF ContractInv
<1> QED BY <1>1, <1>2, <1>3, <1>4, <1>5 DEF ContractInv

\* A transfer assigns two balances, or one twice.
LEMMA TransferKeeps ==
  ASSUME ContractInv, ContractFinite, NEW a \in Accounts, NEW b \in Accounts, NEW n \in Contract!Uints,
         Contract!transfer(a, b, n)
  PROVE  ContractInv'
<1> USE ContractNumbers
<1>1. PICK f : f = [balances EXCEPT ![a] = balances[a] - n]
  OBVIOUS
<1>2. /\ balances[a] >= n /\ balances' = [f EXCEPT ![b] = f[b] + n]
      /\ UNCHANGED <<totalSupply, usedReferences, booked, burnedByHolder>>
  BY <1>1 DEF Contract!transfer
<1>3. n \in Nat /\ balances[a] - n \in Nat /\ balances \in [Accounts -> Nat] /\ balances \in [Accounts -> Int]
  BY <1>2 DEF ContractInv
<1>4. f \in [Accounts -> Nat] /\ f[b] + n \in Nat
  BY <1>1, <1>3
<1>5. SumFunctionOnSet(f, Accounts) = SumFunctionOnSet(balances, Accounts) - balances[a] + (balances[a] - n)
  <2>1. IntOn(balances, Accounts) /\ IntOn(f, Accounts) /\ f[a] = balances[a] - n
    BY <1>1, <1>3, <1>4 DEF IntOn
  <2>2. \A x \in Accounts \ {a} : f[x] = balances[x]
    BY <1>1, <1>3
  <2>3. SumFunctionOnSet(f, Accounts) = SumFunctionOnSet(balances, Accounts) - balances[a] + f[a]
    BY <2>1, <2>2, SumChange DEF ContractFinite
  <2> QED BY <2>1, <2>3
<1>6. SumFunctionOnSet(balances', Accounts) = SumFunctionOnSet(f, Accounts) - f[b] + (f[b] + n)
  <2>1. IntOn(f, Accounts) /\ IntOn(balances', Accounts) /\ balances'[b] = f[b] + n
    BY <1>2, <1>4 DEF IntOn
  <2>2. \A x \in Accounts \ {b} : balances'[x] = f[x]
    BY <1>2, <1>4
  <2>3. SumFunctionOnSet(balances', Accounts) = SumFunctionOnSet(f, Accounts) - f[b] + balances'[b]
    BY <2>1, <2>2, SumChange DEF ContractFinite
  <2> QED BY <2>1, <2>3
<1>7. SumFunctionOnSet(balances', Accounts) = SumFunctionOnSet(balances, Accounts)
  <2>1. SumFunctionOnSet(balances, Accounts) \in Nat /\ balances[a] \in Nat /\ f[b] \in Nat
    BY <1>3, <1>4 DEF ContractInv, Held
  <2> QED BY <1>3, <1>5, <1>6, <2>1
<1>8. Held' = Held
  BY <1>7 DEF Held
<1>9. balances' \in [Accounts -> Nat]
  BY <1>2, <1>4
<1>10. Booked' = Booked /\ UnusedUnbooked'
  BY <1>2 DEF ContractInv, Booked, UnusedUnbooked
<1> QED BY <1>2, <1>8, <1>9, <1>10 DEF ContractInv

\* The books of a new contract are empty, and every transaction keeps them.
LEMMA ContractInvInit ==
  ASSUME ContractFinite PROVE Init => ContractInv
<1> SUFFICES ASSUME Init PROVE ContractInv
  OBVIOUS
<1>1. /\ balances = [a \in Accounts |-> 0] /\ booked = [r \in References |-> 0]
      /\ totalSupply = 0 /\ burnedByHolder = 0
  BY DEF Init, Contract!Init
<1>2. Booked = 0 /\ Held = 0
  <2>1. \A r \in References : booked[r] = 0
    BY <1>1
  <2>2. \A a \in Accounts : balances[a] = 0
    BY <1>1
  <2> QED BY <2>1, <2>2, SumZero DEF ContractFinite, Booked, Held
<1> QED BY <1>1, <1>2 DEF ContractInv, UnusedUnbooked

\* Every step keeps the contract's books.
LEMMA ContractInvStep ==
  ASSUME ContractFinite PROVE ContractInv /\ [Next]_vars => ContractInv'
<1> SUFFICES ASSUME ContractInv, [Next]_vars PROVE ContractInv'
  OBVIOUS
<1>1. ASSUME UNCHANGED <<balances, totalSupply, usedReferences, booked, burnedByHolder>>
      PROVE  ContractInv'
  BY <1>1 DEF ContractInv, Booked, Held, UnusedUnbooked
<1>2. CASE Contract!Next
  <2>1. ASSUME NEW o, Contract!setOwner(o) PROVE ContractInv'
    BY <1>1, <2>1 DEF Contract!setOwner
  <2> QED BY <1>2, <2>1, MintKeeps, BurnWithReferenceKeeps, BurnKeeps, TransferKeeps DEF Contract!Next
<1>3. CASE UNCHANGED contractVars
  BY <1>1, <1>3 DEF contractVars
<1> QED BY <1>2, <1>3 DEF Next, vars

\* For any finite set of accounts and of references: the supply is what the used
\* references account for, each once, less what holders burned, and it is the
\* sum of the balances.
THEOREM SupplyIsByReference ==
  ASSUME ContractFinite
  PROVE  Spec => []ContractSupplyByReference
<1>1. ContractInv => ContractSupplyByReference
  BY SupplyAs DEF ContractInv
<1> QED BY <1>1, ContractInvInit, ContractInvStep, PTL DEF Spec

-----------------------------------------------------------------------------
(* The reference core.  A request's amount is a multiple of 800, so that a *)
(* fee of 0.5% and the share of 75% of it are whole numbers.  As long as   *)
(* some node is assigned, no weight means that nothing has run yet.        *)

CoreExact == Amounts \subseteq {800 * k : k \in Nat}

CoreTyped ==
  /\ coin \in [processMinted : Nat, processBurned : Nat, earnedRetained : Nat]
  /\ fees \in Nat /\ volume \in Nat

PoolDivides == \E k \in Nat : pool = 4 * k

NoWorkNoFees == weighted = {} /\ assigned # {} => pool = 0 /\ fees = 0 /\ coin.earnedRetained = 0

CoreInv ==
  CoreTyped /\ PoolDivides /\ NoWorkNoFees /\ CoreShareReachesNodes

\* Nothing has run, nothing is in the pool.
LEMMA CoreInit == ASSUME CoreExact PROVE Init => CoreInv
<1> SUFFICES ASSUME Init PROVE CoreInv
  OBVIOUS
<1>1. /\ coin = [processMinted |-> 0, processBurned |-> 0, earnedRetained |-> 0]
      /\ pool = 0 /\ fees = 0 /\ volume = 0 /\ ~active
  BY DEF Init, Core!Init
<1>2. CoreTyped /\ NoWorkNoFees /\ CoreShareReachesNodes
  BY <1>1 DEF CoreTyped, NoWorkNoFees, CoreShareReachesNodes, Core!ShareReachesNodes
<1>3. PoolDivides
  BY <1>1 DEF PoolDivides
<1> QED BY <1>2, <1>3 DEF CoreInv

\* A run adds the same fee to the pool and to the contributions.
LEMMA RunKeeps ==
  ASSUME CoreExact, CoreInv, NEW p \in Processes, NEW amount \in Amounts, Core!RunProcess(p, amount)
  PROVE  CoreInv'
<1>1. PICK k \in Nat : amount = 800 * k
  BY DEF CoreExact
<1>2. Core!computeFee(amount) = 4 * k
  BY <1>1 DEF Core!computeFee
<1>3. /\ pool' = pool + 4 * k /\ fees' = fees + 4 * k /\ volume' = volume + 800 * k
      /\ weighted' = weighted \cup assigned
      /\ coin' = [coin EXCEPT !.processMinted = @ + amount, !.processBurned = @ + amount]
      /\ UNCHANGED <<assigned, active>>
  BY <1>1, <1>2 DEF Core!RunProcess
<1>4. PICK j \in Nat : pool = 4 * j
  BY DEF CoreInv, PoolDivides
<1>5. CoreTyped' /\ coin'.earnedRetained = coin.earnedRetained /\ coin.earnedRetained \in Nat
  <2>1. amount \in Nat /\ fees' \in Nat /\ volume' \in Nat
    BY <1>1, <1>3 DEF CoreInv, CoreTyped
  <2>2. /\ coin' \in [processMinted : Nat, processBurned : Nat, earnedRetained : Nat]
        /\ coin'.earnedRetained = coin.earnedRetained /\ coin.earnedRetained \in Nat
    <3>1. /\ coin \in [processMinted : Nat, processBurned : Nat, earnedRetained : Nat]
          /\ coin' = [coin EXCEPT !.processMinted = @ + amount, !.processBurned = @ + amount]
      BY <1>3 DEF CoreInv, CoreTyped
    <3>2. PICK m, b : m = coin.processMinted + amount /\ b = coin.processBurned + amount
      OBVIOUS
    <3>3. coin' = [coin EXCEPT !.processMinted = m, !.processBurned = b]
      BY <3>1, <3>2
    <3>4. m \in Nat /\ b \in Nat
      BY <2>1, <3>1, <3>2
    <3> QED BY <3>1, <3>3, <3>4
  <2> QED BY <2>1, <2>2 DEF CoreTyped
<1>6. PoolDivides'
  <2>1. pool' = 4 * (j + k) /\ j + k \in Nat
    BY <1>3, <1>4
  <2> QED BY <2>1 DEF PoolDivides
<1>7. NoWorkNoFees'
  BY <1>3 DEF NoWorkNoFees
<1>8. CoreShareReachesNodes'
  BY <1>3, <1>4, <1>5 DEF CoreInv, CoreTyped, CoreShareReachesNodes, Core!ShareReachesNodes
<1> QED BY <1>5, <1>6, <1>7, <1>8 DEF CoreInv

\* Finalizing pays three quarters of the pool, unless no node has any weight.
LEMMA FinalizeKeeps ==
  ASSUME CoreExact, CoreInv, Core!FinalizeEpoch
  PROVE  CoreInv'
<1>1. PICK j \in Nat : pool = 4 * j
  BY DEF CoreInv, PoolDivides
<1>2. Core!distributable = 3 * j
  BY <1>1 DEF Core!distributable
<1>3. /\ coin' = [coin EXCEPT !.earnedRetained = @ + (IF weighted = {} THEN 0 ELSE 3 * j)]
      /\ pool' = 0 /\ UNCHANGED <<fees, volume, assigned, weighted, active>>
  BY <1>2 DEF Core!FinalizeEpoch
<1>4. /\ CoreTyped' /\ coin.earnedRetained \in Nat
      /\ coin'.earnedRetained = coin.earnedRetained + (IF weighted = {} THEN 0 ELSE 3 * j)
  BY <1>3 DEF CoreInv, CoreTyped
<1>5. PoolDivides'
  <2>1. pool' = 4 * 0 /\ 0 \in Nat
    BY <1>3
  <2> QED BY <2>1 DEF PoolDivides
<1>6. NoWorkNoFees'
  BY <1>3, <1>4 DEF CoreInv, NoWorkNoFees
<1>7. CoreShareReachesNodes'
  BY <1>1, <1>3, <1>4
     DEF CoreInv, CoreTyped, NoWorkNoFees, CoreShareReachesNodes, Core!ShareReachesNodes
<1> QED BY <1>4, <1>5, <1>6, <1>7 DEF CoreInv

\* Every step of the reference core keeps its books.
LEMMA CoreStep ==
  ASSUME CoreExact PROVE CoreInv /\ [Next]_vars => CoreInv'
<1> SUFFICES ASSUME CoreInv, [Next]_vars PROVE CoreInv'
  OBVIOUS
<1> USE DEF CoreInv, CoreTyped, PoolDivides, NoWorkNoFees, CoreShareReachesNodes, Core!ShareReachesNodes
<1>1. CASE UNCHANGED coreVars
  BY <1>1 DEF coreVars
<1>2. ASSUME NEW p \in Processes, Core!RejectInadmissible(p) PROVE CoreInv'
  BY <1>2 DEF Core!RejectInadmissible
<1>3. CASE Core!Metrics
  BY <1>3 DEF Core!Metrics
<1>4. ASSUME NEW n \in CoreNodes, Core!Penalize(n) PROVE CoreInv'
  <2>1. /\ assigned' = assigned \ {n}
        /\ UNCHANGED <<coin, pool, fees, volume, weighted, active>>
    BY <1>4 DEF Core!Penalize
  <2>2. assigned = {} => assigned' = {}
    BY <2>1
  <2> QED BY <2>1, <2>2
<1> QED BY <1>1, <1>2, <1>3, <1>4, RunKeeps, FinalizeKeeps DEF Next, Core!Next, vars

\* So it is an invariant.
LEMMA CoreHolds == ASSUME CoreExact PROVE Spec => []CoreInv
BY CoreInit, CoreStep, PTL DEF Spec

\* Of every fee that left the pool of the reference core 75% was earned by nodes,
\* unless all were penalized before any had worked: for any requests whose fees
\* divide, in any order with finalizations and penalties.
THEOREM ShareReachesNodesHolds ==
  ASSUME CoreExact
  PROVE  Spec => []CoreShareReachesNodes
BY CoreHolds, PTL DEF CoreInv

-----------------------------------------------------------------------------
(* The logic guard.  What a scan has gathered is what the files it has     *)
(* processed hold, in whatever order; and a report, though it is one of    *)
(* the files of the next repository, never satisfies a cross reference.    *)

\* The caller's part: reports go to a directory that scans skip, and a repository
\* starts without files there.
OwnFiles == OutDir \in Guard!SKIP_DIRS /\ \A f \in Files : f \cap Guard!SKIP_DIRS = {}

own == Guard!iter_files(repo)

ReportsCiteNothing ==
  \A f \in repo : f \cap Guard!SKIP_DIRS # {} => \A x \in Guard!CrossRefs : ~Guard!Cites(f, x)

Gathered ==
  stage = "scan" =>
    /\ todo \subseteq own
    /\ errors = UNION {Guard!FileErrors(f) : f \in own \ todo}
    /\ hardFail = (errors \cap Guard!HardRules # {})
    /\ markers = Guard!Markers \cap UNION (own \ todo)

Verdict == Guard!ExpectedExit(own)

GuardInv ==
  /\ exits \in Seq({0, 1}) /\ ReportsCiteNothing /\ Gathered
  /\ \A i \in DOMAIN exits : exits[i] = Verdict

\* A cross reference is satisfied by the repository's own files or not at all.
LEMMA CitedByOwn ==
  ASSUME ReportsCiteNothing, NEW x \in Guard!CrossRefs
  PROVE  (\E f \in repo : Guard!Cites(f, x)) <=> (\E f \in own : Guard!Cites(f, x))
BY DEF ReportsCiteNothing, own, Guard!iter_files

\* So the final errors are the same in any two repositories with the same own files.
LEMMA FinalErrorsOfOwn ==
  ASSUME ReportsCiteNothing, ReportsCiteNothing', own' = own, NEW found
  PROVE  Guard!FinalErrors(found)' = Guard!FinalErrors(found)
<1>1. \A x \in Guard!CrossRefs :
        (\E f \in repo' : Guard!Cites(f, x)) <=> (\E f \in own' : Guard!Cites(f, x))
  BY DEF ReportsCiteNothing, own, Guard!iter_files
<1>2. \A x \in Guard!CrossRefs :
        (\E f \in repo' : Guard!Cites(f, x)) <=> (\E f \in repo : Guard!Cites(f, x))
  BY <1>1, CitedByOwn
<1> QED BY <1>2 DEF Guard!FinalErrors

\* And the expected verdict.
LEMMA VerdictOfOwn ==
  ASSUME ReportsCiteNothing, ReportsCiteNothing', own' = own
  PROVE  Verdict' = Verdict
<1>1. Guard!FinalErrors(Guard!Markers \cap UNION own)' = Guard!FinalErrors(Guard!Markers \cap UNION own)
  <2>1. PICK m : m = Guard!Markers \cap UNION own
    OBVIOUS
  <2>2. Guard!FinalErrors(m)' = Guard!FinalErrors(m)
    BY FinalErrorsOfOwn
  <2> QED BY <2>1, <2>2
<1> QED BY <1>1 DEF Verdict, Guard!ExpectedExit

\* A scan starts with nothing gathered.
LEMMA ScanKeeps ==
  ASSUME GuardInv, Guard!Scan
  PROVE  GuardInv'
<1>1. /\ UNCHANGED <<repo, exits>> /\ todo' = own /\ errors' = {} /\ hardFail' = FALSE /\ markers' = {}
  BY DEF Guard!Scan, own
<1>2. own' = own /\ ReportsCiteNothing'
  BY <1>1 DEF GuardInv, ReportsCiteNothing, own, Guard!iter_files
<1>3. Gathered'
  BY <1>1, <1>2 DEF Gathered
<1>4. Verdict' = Verdict
  BY <1>2, VerdictOfOwn DEF GuardInv
<1> QED BY <1>1, <1>2, <1>3, <1>4 DEF GuardInv

\* One file more is processed.
LEMMA ProcessKeeps ==
  ASSUME GuardInv, NEW f \in todo, Guard!process_file(f)
  PROVE  GuardInv'
<1>1. /\ stage = "scan" /\ UNCHANGED <<repo, stage, exits>> /\ todo' = todo \ {f}
      /\ errors' = errors \cup Guard!FileErrors(f)
      /\ hardFail' = (hardFail \/ Guard!FileErrors(f) \cap Guard!HardRules # {})
      /\ markers' = markers \cup (f \cap Guard!Markers)
  BY DEF Guard!process_file
<1>2. own' = own /\ ReportsCiteNothing'
  BY <1>1 DEF GuardInv, ReportsCiteNothing, own, Guard!iter_files
<1>3. /\ todo \subseteq own /\ errors = UNION {Guard!FileErrors(g) : g \in own \ todo}
      /\ hardFail = (errors \cap Guard!HardRules # {})
      /\ markers = Guard!Markers \cap UNION (own \ todo)
  BY <1>1 DEF GuardInv, Gathered
<1>4. own \ todo' = (own \ todo) \cup {f}
  BY <1>1, <1>3
<1>5. errors' = UNION {Guard!FileErrors(g) : g \in own \ todo'}
  BY <1>1, <1>3, <1>4
<1>6. hardFail' = (errors' \cap Guard!HardRules # {})
  BY <1>1, <1>3
<1>7. markers' = Guard!Markers \cap UNION (own \ todo')
  BY <1>1, <1>3, <1>4
<1>8. Gathered'
  BY <1>1, <1>2, <1>3, <1>5, <1>6, <1>7 DEF Gathered
<1>9. Verdict' = Verdict
  BY <1>2, VerdictOfOwn DEF GuardInv
<1> QED BY <1>1, <1>2, <1>8, <1>9 DEF GuardInv

\* The exit code is the verdict, and the report that is left does not change it.
LEMMA FinishKeeps ==
  ASSUME OwnFiles, GuardInv, Guard!Finish
  PROVE  GuardInv'
<1>1. PICK failed : failed = errors \cup Guard!FinalErrors(markers)
  OBVIOUS
<1>2. PICK code : code = IF ~hardFail /\ Guard!compute_score(failed) >= Guard!OverallThreshold THEN 0 ELSE 1
  OBVIOUS
<1>3. /\ stage = "scan" /\ todo = {} /\ stage' = "idle"
      /\ repo' = {f \in repo : OutDir \notin f} \cup {Guard!Report(failed)}
      /\ exits' = Append(exits, code)
  BY <1>1, <1>2 DEF Guard!Finish
<1>4. /\ errors = UNION {Guard!FileErrors(g) : g \in own}
      /\ hardFail = (errors \cap Guard!HardRules # {})
      /\ markers = Guard!Markers \cap UNION own
  BY <1>3 DEF GuardInv, Gathered
<1>5. Guard!FinalErrors(markers) \cap Guard!HardRules = {}
  BY DEF Guard!FinalErrors, Guard!HardRules
<1>6. code = Verdict /\ code \in {0, 1}
  <2>1. ~hardFail <=> failed \cap Guard!HardRules = {}
    BY <1>1, <1>4, <1>5
  <2>2. failed = (UNION {Guard!FileErrors(g) : g \in own}) \cup Guard!FinalErrors(Guard!Markers \cap UNION own)
    BY <1>1, <1>4
  <2>3. Verdict = IF failed \cap Guard!HardRules = {} /\ Guard!compute_score(failed) >= Guard!OverallThreshold
                  THEN 0 ELSE 1
    BY <2>2, Zenon DEF Verdict, Guard!ExpectedExit
  <2> QED BY <1>2, <2>1, <2>3
<1>7. /\ OutDir \in Guard!Report(failed)
      /\ \A x \in Guard!CrossRefs : ~Guard!Cites(Guard!Report(failed), x)
  <2> DEFINE names == {"tx_journal_writer.md", "tx_audit_log_format.md", "kyc_aml_interface_bridge.md"}
             found == {"forbidden term", "no rollback", "staking rewards", "jurisdiction",
                       "ttl over limit", "signature", "nonce, hash, quorum"}
  <2>1. /\ OutDir \in Guard!Report(failed)
        /\ Guard!Report(failed) \subseteq {OutDir, ".md", "kyc", "audit", "pot"} \cup found
    BY DEF Guard!Report
  <2>2. OutDir \notin names
    BY DEF OwnFiles, Guard!SKIP_DIRS
  <2>3. Guard!Report(failed) \cap names = {}
    BY <2>1, <2>2
  <2>4. \A x \in Guard!CrossRefs : x[2] \subseteq names
    BY DEF Guard!CrossRefs
  <2> QED BY <2>1, <2>3, <2>4 DEF Guard!Cites
<1>8. own' = own
  <2>1. \A f : f \cap Guard!SKIP_DIRS = {} => OutDir \notin f
    BY DEF OwnFiles
  <2>2. Guard!Report(failed) \cap Guard!SKIP_DIRS # {}
    BY <1>7, <2>1
  <2> QED BY <1>3, <2>1, <2>2 DEF own, Guard!iter_files
<1>9. ReportsCiteNothing'
  BY <1>3, <1>7 DEF GuardInv, ReportsCiteNothing
<1>10. Verdict' = Verdict
  BY <1>8, <1>9, VerdictOfOwn DEF GuardInv
<1>11. exits' \in Seq({0, 1}) /\ \A i \in DOMAIN exits' : exits'[i] = Verdict
  BY <1>3, <1>6 DEF GuardInv
<1>12. Gathered'
  BY <1>3 DEF Gathered
<1> QED BY <1>9, <1>10, <1>11, <1>12 DEF GuardInv

\* Initially no scan has run, and the files are the repository's own.
LEMMA GuardInit == ASSUME OwnFiles PROVE Init => GuardInv
<1> SUFFICES ASSUME Init PROVE GuardInv
  OBVIOUS
<1>1. repo \in SUBSET Files /\ stage = "idle" /\ exits = << >>
  BY DEF Init, Guard!Init
<1> QED BY <1>1 DEF GuardInv, OwnFiles, ReportsCiteNothing, Gathered

\* Every step keeps what a scan gathers and what scans have concluded.
LEMMA GuardStep == ASSUME OwnFiles PROVE GuardInv /\ [Next]_vars => GuardInv'
<1> SUFFICES ASSUME GuardInv, [Next]_vars PROVE GuardInv'
  OBVIOUS
<1>1. CASE UNCHANGED guardVars
  <2>1. UNCHANGED <<repo, stage, todo, errors, hardFail, markers, exits>>
    BY <1>1 DEF guardVars
  <2>2. own' = own /\ ReportsCiteNothing'
    BY <2>1 DEF GuardInv, ReportsCiteNothing, own, Guard!iter_files
  <2>3. Verdict' = Verdict
    BY <2>2, VerdictOfOwn DEF GuardInv
  <2> QED BY <2>1, <2>2, <2>3 DEF GuardInv, Gathered
<1> QED BY <1>1, ScanKeeps, ProcessKeeps, FinishKeeps DEF Next, Guard!Next, vars

\* In whatever order the files are listed and however often the guard runs over its
\* own reports, it exits with the verdict of the repository's own files.
THEOREM VerdictOfFilesHolds ==
  ASSUME OwnFiles
  PROVE  Spec => []GuardVerdictOfFiles
<1>1. GuardInv => GuardVerdictOfFiles
  BY DEF GuardInv, Verdict, own, GuardVerdictOfFiles, Guard!VerdictOfFiles, Guard!iter_files
<1> QED BY <1>1, GuardInit, GuardStep, PTL DEF Spec
=============================================================================
