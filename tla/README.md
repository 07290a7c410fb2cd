# A verification of the AST service

TLA+ modules, TLC runs and TLAPS proofs for the AST backend: the NestJS service
under `src/` that runs a *process* through a lifecycle (record its evidence,
verify it by Proof of Transaction, mint and burn its value, accrue a fee, later
pay the nodes), with everything recorded in a hash-linked chain.

The service is sequential code in `async` functions on one Node.js process over
PostgreSQL. Its difficulty is not in any one function: two requests interleave at
every `await`, nothing wraps a request in a transaction, any `await` can reject
and leave a request half done, and part of the state is in memory and gone after
a restart. The unit tests call the services one after the other, so none of this
is reached by them. That is what the modules are about.

## The system

| Component | State | Operations | Correct when |
|---|---|---|---|
| NodeChain | `execution_snapshots`, a row per sequenceId with `prevHash` and `hash` | `append` (read the head, save its successor), `latest`, `list`, `reconstruct` | append-only, no gaps, every hash links to its predecessor |
| State recording | in memory: process -> captured event types | `capture` (append, then remember), `capturedEvents` | the index never claims what the chain does not have |
| Proof of Transaction | `pot_verdicts`, a row per process | `verify` (look up, evaluate, append, save), `getVerdict` | a verdict is positive only with recorded evidence; one verdict per process |
| Emission | none | `mint` (gate, ledger, chain), `burn` (ledger, chain) | value only behind a verdict; every mint is burned |
| ArosCoin ledger | one row: minted, burned, earned | `recordMint`, `recordBurn`, `recordEarned`, `supplyView` | no addition is lost |
| Commission | `epochs`; in memory: epoch -> participations | `accrue`, `finalizeEpoch` | pool = fees; settled once, exactly, by confirmed work |
| Nodes | `nodes` | `register`, `recordExecution`, `receivePayment` | work is counted once; only registered nodes work |
| All-Seeing Eye | `oversight_log`, hash-linked | `log`, `compareSupply`, `verifyLog` | never changes other state; reports true drift |
| Reserve | none: derived from the chain | `totalProcessVolume`, `reserveIndex`, `addAfcAccrual` | grows by confirmed work only |
| Release | one row | `activate`, `isActive` | activated at most once, when mature |
| Orchestrator | none | `runProcess`, `finalizeEpoch`, `getProcess`, `metrics` | the order of the steps above |

The orchestrator calls the services directly; they share the chain (every service
appends to it), the ledger row and the verdict rows. Only two requests change
state on purpose: `POST /processes` and `POST /epochs/:epoch/finalize`. Outside
`src/`, the repository holds a synchronous reference implementation
(`reference/ast-core`), a Solidity contract, a display-only frontend, stand-alone
Python heuristics, development scripts and several hundred documents.
`PROJECT.json` lists every component with what is modelled of it, and every
hazard of the code at the line where it bites.

## The modules

| Module | Models |
|---|---|
| `AppendOnlyLog` | the abstract log that a chain of records should be |
| `NodeChain` | `NodeChainService`, a transaction of `append()` in three steps |
| `Orchestrator` | `runProcess` and the operations it calls, at every `await` inside them |
| `Commission` | `accrue()` and `finalizeEpoch()` of one epoch, with the ledger they book on, one step per `await` |
| `Books` | the ledger row, the release row, node rows and the Oversight Ledger, at every `await` inside the operations on them |
| `ReserveManager` | the Solidity token contract |
| `ReferenceCore` | the synchronous reference implementation `reference/ast-core` |
| `LogicGuard` | `tools/ast_logic_guard.py`, which judges the repository's documents |
| `NodeChainProofs`, `OrchestratorProofs`, `CommissionProofs` | the theorems about the modules they are named after |
| `OversightProofs`, `BooksProofs` | the theorems about `Books`: the Oversight Ledger, then the rows |
| `SumTheorems` | sums over finite sets: what a change of one term or one member does to them |
| `OrchestratorTotals` | the theorems about `Orchestrator` that add up over runs: supply, volume, pools, work |
| `StandaloneProofs` | the theorems about the contract, the reference core and the guard |
| `MCNodeChain`, `MCOrchestrator`, `MCCommission`, `MCBooks` | the constants of the runs |
| `MCStandalone` | the three programs that share nothing with the service, in one run |

Definitions whose comment starts with *Mutation* are plausible mistakes in the
code that a property must detect; the specifications do not use them.

**NodeChain.** `append()` opens a READ COMMITTED transaction, selects the head
without a lock, drafts its successor and calls TypeORM's `save()`. `save()` of an
entity with a primary key is itself two steps: SELECT the row with that key, then
INSERT it, or UPDATE the columns in which the entity differs from the row it
selected. So the module has `ReadHead`, `Load`, and `Insert`, `Conflict` or
`Update`, and `Abort` at any point. SHA-256 is free of collisions: a digest is the
tuple of what was hashed. Timestamps are left out; neither the hash nor
`reconstruct()` reads them. The constant `Overlap` says whether transactions
overlap.

**Orchestrator.** A *run* is one `POST /processes`. Its control state is a label
per `await`, kept when the run stops, so that properties can speak of runs that
stopped half way. Two runs may be of the same process (a retry or a duplicated
request): the verdict row is keyed by process, and nothing is keyed by run. `Fail`
stops a run at any step, and `Restart` stops all of them and empties the two
in-memory maps.

No operation on a shared row is one step. What a run holds between the awaits of
one is its record `op`:

- An append (`Draft`, then `Commit` or `Conflict`) has read the head and drafted the
  next sequenceId. It knows its `rivals`, the runs that had drafted the same one;
  whoever of them commits, the others find the row `taken`, and either fail on the
  INSERT (`Conflict`) or UPDATE the snapshot in it. `appended` is what was ever
  committed, `replaced` what was then overwritten, so that properties can say which
  of the two they mean: `WasRecorded` or `OnChain`. Replacements are followed for
  the events in the constant `Watched`; nothing in the code reads single snapshots
  during a run, so it changes no behaviour which events these are.
- A tally (`recordMint`, `recordBurn`, `accrue`, `recordExecution`) is found
  (`Find`), loaded by `save()` (`Load`) and written, a column only where it differs
  from what was loaded (`Written`). `register` saves an entity it has not found, which
  resets a row that is there already. The history variable `stale` says for the
  ledger and for each epoch whether a save used a copy that was no longer the row.
- The verdict's `save()` is `LoadVerdict` and `SaveVerdict`.

Overlapping appends can leave rows mixed from two drafts, and a chain that does or
does not reconstruct; NodeChain has that in detail. Here `reconstruct()` may answer
either way whenever a verdict is evaluated. The first creation of the ledger's row is
a matter of Books, and a finalization one of Commission. The order in which the
database lists nodes is taken to be that of their registration; no property depends
on it.

**Commission.** One epoch: epochs share no row but the ledger's, and what
finalizations of two epochs do to that row, two of one epoch do as well. The row of the
epoch is loaded and written back by `save()` as above, so an accrual can write back
columns that a finalization has changed since. The participation array is
the one in the `Map`: a finalization iterates over the live array across awaits,
accruals push to it meanwhile, and the `delete` at the end detaches it, which the
module keeps apart as `heap` (the arrays) and `current` (the one in the map). A
node's weight is 1: only successes are reported and nothing lowers uptime, so
reputation and weight never change. `distributionLog` is represented by the sum
that `toResult()` computes from it. `recordEarned()` finds, loads and saves the ledger's
row (`FindLedger`, `LoadLedger`, `Earn`), so that two finalizations can lose an earning
to each other; `Savers` are the mints and burns of running processes that save the same
row meanwhile (`SaveOther`) and can write back an old `earnedRetained`. `booked` and
`stale` are history: what was booked, and whether a save used an old copy. Receipts, AFC
accruals and records of finalizations are counted as they are appended; that an
overlapping append can later replace one is the subject of NodeChain.

**Books.** Orchestrator and Commission have the operations on the rows where a run or
a finalization calls them. Books has them in any combination, with the creation of the
rows, all their columns, the release and the Oversight Ledger. A *call* is one of
`recordMint`, `recordBurn`, `recordEarned`, `compareSupply` (of `supplyView()`), `isActive` (all that
`metrics()` writes), `activate`, `register`, `recordExecution`, `log`, and the
append of `commission.epoch.finalized`, whose margin the reserve sums. What a call
holds between awaits is `read` (the row it found), `entity` (that row as it changed
it), `loaded` (the row that `save()` selected), `check` (the metrics `activate()`
decided on) and `entry` (what `log()` is writing). `initialization` is the promise
of `ensureLedger()`, which is kept when it rejects. `log()` takes an id from a
sequence outside its transaction and commits later, so ids are lost and entries
become visible out of order. Two ghost variables serve the properties: `ideal` is
what each row would be had each save been one atomic update, and `stale` the calls
that saved a row which had changed since they found it. The volume stands for the
reserve index, its logarithm, and the supply for the velocity. Of the chain only
the volume and the activations committed to it are kept, since nothing here reads the
rest (the append that ends `register()` is a step of Orchestrator); that an overlapping
append can replace them is again the subject of NodeChain. The clock counts the
ticks of `log()`; ticks that others take lie between and change no order.

**ReserveManager.** A transaction is atomic, and one that reverts changes nothing,
so a step is a transaction that succeeds. The inherited ERC20Burnable and Ownable
are external and modelled by what they do. `booked` is the owner's own account of
what each reference was for.

**ReferenceCore.** Synchronous, so that each method of `AST` is a step. A node's
weight is kept as whether it is positive, and the payments of an epoch as their
sum.

**LogicGuard.** A file is the set of what the checks look for in it. Files are
processed in any order, and each scan leaves its report in `OutDir`, the argument
`--out`, where the next one may find it.
Modelling it showed three things the documentation of the rules does not say: the
cross reference for `rollback` is never asked for, since no marker is counted under
that name; "no rollback" alone is flagged as a contradiction, since it contains
"rollback"; and "staking rewards" always also contains the forbidden term "reward",
so that the rule NON-SPEC never decides a verdict.

## The runs

| Run | Checks | Instance |
|---|---|---|
| `nodechain_overlap` | under any overlap: `NoGaps`, `SettledImmutable` | 3 appends in flight, chains of up to 3 snapshots |
| `nodechain_serial` | without overlap: `ChainIntact`, `AppendOnly`, `ImplementsLog` | 2 appenders taking turns, chains of up to 3 snapshots |
| `nodechain_append_only` | finds `AppendOnly` violated with overlap | 2 appends in flight, chains of up to 2 snapshots |
| `lifecycle` | evidence, traceability, conservation, drift and liveness of runs | 2 runs, 4 pairs of requests, 2 processes, 2 epochs, 1 failure or restart |
| `lifecycle_single_emission` | finds `SingleEmission` violated | the same |
| `lifecycle_traceable` | finds `VerdictTraceable` violated | the same |
| `commission_overlap` | who is paid, the books, the pool, termination | 2 accruals, 2 finalizations, 1 failure or restart |
| `commission_serial` | exact, single settlement; the ledger beside other saves | 3 accruals, 2 finalizations, no overlap but with a run that saves the ledger |
| `commission_reconcile` | finds `PoolReconciles` violated | 2 accruals, 1 finalization, no overlap |
| `commission_retry` | finds `PaidWithinFees` violated | 1 accrual, 2 finalizations, 1 failure |
| `books` | the rows under overlapping saves, the release, the Oversight Ledger, termination | 3 calls of 11 operations, a fresh or a used database, 1 failure or restart |
| `standalone` | the contract's supply, the core's distribution, the guard's verdict | 2 accounts, 3 references; 2 processes, 2 nodes; 10 kinds of files, 2 scans |

What they show:

- **The chain.** Whatever overlaps, conflicts or aborts, the sequence has no gap,
  and a snapshot can only change while an append that drafted a row for its
  sequenceId is still in flight. Without overlap the chain is an append-only log
  that always reconstructs. With overlap it is neither: the second of two appends
  overwrites the snapshot of the first with an UPDATE, although the comment on
  `append()` says that the two are atomic relative to each other. After that
  `reconstruct()` can fail, and verdicts are 0 until another append mends it.
- **The lifecycle.** What is recorded comes before what rests on it, across races of
  runs of one process, appends that fail on or take each other's rows, a failure or a
  restart: the completeness index never claims an event that was not committed to the
  chain; a positive verdict is recorded or stored only after its evidence; value exists
  only behind a positive verdict that was committed first, and so does participation
  that will be paid. These are statements about what was committed. They do not say
  that the snapshots are still there: an overlapping append can replace them, a verdict
  can be positive although its evidence has since been overwritten, and the run
  `lifecycle_traceable` shows a stored verdict whose own record is gone, against the
  comment on `verify()`.

  The tallies are bounded always, and exact only as long as no save used an old copy
  of its row; two runs that overlap in a `save()` do lose additions. Always: the ledger
  has no more minted, and no more burned, than the runs minted and burned; the chain
  was given no more mints than were made; a pool holds no fee twice and none of a run
  that did not mint; a node's work count never exceeds the completions recorded (two
  first runs that both register the roster reset counts, and none is ever too high).
  Unless a save of that row was stale: what is outstanding is exactly what runs between
  mint and burn, going or stopped, have minted; the ledger is ahead of the recorded
  mints by exactly those not yet recorded; each pool has all its fees; the Eye finds
  drift exactly when some mint is open; and if no run is stopped, all mints are
  eventually burned for good. So failures, restarts and retries alone never make the
  tallies inexact: lost updates do, and nothing else. A process that is run twice mints
  twice, which the comment on `verify()` excludes.
- **Commission.** With everything interleaved and a failure or restart, nodes are
  paid only for confirmed and accrued work, every receipt and AFC accrual appended
  belongs to one finalization, fees can be lost but not invented, and all calls end. The
  ledger's earnings never exceed the receipts less the payments under way, and are less
  only if a save of the ledger used an old copy, which two overlapping finalizations, or
  one beside a mint, can do. Without overlap and failures the epoch is settled once and
  exactly, by the declared shares. Two things break it even without overlap: an accrual
  into a finalized epoch (its fee is stranded and the row no longer reconciles), and a
  finalization that fails after it has paid a node (its retry pays the node again; after
  a restart, which loses the participation, the retry instead routes the whole pool to
  the AFC reserve on top of what was paid).
- **The books.** Two overlapping operations on one row lose an update, and a save
  can write back columns that another call has raised: rows are not exact under
  overlap. What holds: a book differs from the exact one only if some call saved a
  row that had changed since it found it (`ExactUnlessStale`), so operations that do
  not overlap are exact whatever fails between them; units can be lost but not
  invented (`NothingInvented`); an active release has its activation on the chain,
  decided on metrics that were mature, by a volume that was committed
  (`ActivationJustified`; the row itself may lack the metrics, when two first
  accesses mix their columns); an active release is lost only to the save by which
  `phase()` makes the inactive row on first access (`ActiveUnlessFirstAccess`);
  after a rejected initialization the ledger does not change, and calls fail rather
  than hang (`RejectedLedgerFrozen`, `CallsEnd`); `verifyLog()` reports a break
  exactly when two entries link to the same one, and never for ids that were lost or
  committed out of order (`ForkIsTheOnlyBreak`); an entry is later than the one it
  links to, unless the process restarted between (`LinksFollowTheClock`).
- **The stand-alone programs.** The contract's supply is what its references
  account for, each once, less what holders burned. The reference core pays out 75%
  of every fee that leaves the pool, except when every node was penalized before any
  had worked. The guard's exit code is a function of the repository's own files, not of
  their order or of earlier reports, as long as `--out` names a directory that scans
  skip, as the repository's own use of it (`reports/`) does.

**Bounds.** Two runs (or two accruals and two finalizations) are enough for every
race in the code: each is between a read and a write of one row by one call and a
write of it by another. Three appends let one start on the overwritten result of
two others. The pairs of requests of the lifecycle are a process beside its retry with
a node list of its own, beside an inadmissible process, beside one with an unregistered
node, each with one failure or restart, and two equal requests of one process, which
both register the roster, overlap in everything and have no fault; the proofs lift
these bounds for the safety properties. `MaxHeight`, `MaxFaults` and the faults of a scenario bound the chain
and the failures. In `commission_overlap` the two finalizations race on the ledger
themselves; the saves of mints and burns (`Savers`) are in `commission_serial`, where
nothing else interferes. `Watched` is one event in the runs whose property is about
it and empty in `lifecycle`, whose properties are about what was committed.
Three calls in `books` allow two that race and a third that raises the volume,
makes the row, or runs between them; one fault is a failed await, a rejected
initialization or a restart. The mint of 2 and the threshold of 1 let one call make
the release mature, and the proofs below lift all these bounds. The amounts of the
reference core are multiples of 800, so that fee and share are exact; the threshold
999 is index 3.
Amounts are multiples of 200 and fees of 16, so that the 0.5% fee, the 75% share
and the division by weights are exact; the code computes them in floating point
and reconciles with a tolerance. Deadlock is not checked: when every request has
been answered, the model has nothing left to do.

**Fairness.** Weak fairness of the steps of each run, or call, that has started:
the event loop resumes every settled `await`. In `books` it is of any step at all
(`Progress`): calls are finite, so an event loop that does not idle suffices. None for the arrival of requests,
for failures or restarts. `SupplySettles` assumes that no run is stopped;
`CallsEnd` counts a failed or stopped call as ended; `FinalizationCloses` is checked in the
run without faults.

## The proofs

For every number of appends, runs, processes, nodes and calls:

- `NodeChainProofs`. The inductive invariant is the type invariant, that the
  table's domain is an interval 1..n with drafts for 1..n+1 only (`Contiguous`),
  and that `save()` updates only rows that exist (`UpdatesExist`): without the last
  an UPDATE could create a row beyond the head. From it `TypeCorrect`,
  `SequenceHasNoGaps` and `SettledSnapshotsAreFinal`. Under `Overlap = FALSE` the
  invariant is strengthened by `Alone` (the one append in flight holds a sound
  successor of the current head) and `ChainIntact`, which gives
  `SerialChainIntact`, `SerialAppendOnly` and the refinement `SerialImplementsLog`.
- `OrchestratorProofs`. The properties are not inductive: a run carries its verdict
  in a local variable across many steps. The invariant adds that a run with a
  positive verdict had its process's evidence committed and, once past the
  append, its verdict too (`RunsBacked`), and that a stored verdict, a recorded
  verdict and a recorded mint are backed in turn (`RowsRecorded`, `VerdictsBacked`,
  `MintsRecorded`). What was committed stays in the history `appended`, whichever append
  takes the row later; nothing is proved about the rows that are left.
  From it `TypeCorrect`, `IndexIsSound`, `VerdictsHaveEvidence`,
  `ValueIsTraceable`, `PaymentIsForConfirmedWork`.
- `SumTheorems`. Most properties of the books compare a store with a sum over runs,
  calls or references. The prover has no induction over finite sets, so these lemmas
  argue by least counterexample: among the sizes for which the claim fails there would
  be a least one, and taking one member away contradicts it. They give what the other
  modules need: that a sum is a number, and how it changes when a term changes, a
  member joins or leaves, or two sets are joined.
- `OrchestratorTotals`. `TotalsInv` is the invariant above together with the path of a
  run (`PathsOK`: a refused run has no positive verdict, so that it reaches the
  comparison without having paid a fee) and the totals. Neither bound nor equality is
  inductive alone, since what a run saves was found several steps earlier:
  `CopyBounded` says that a copy a run holds claims no more than the runs have saved by
  now. A save adds the run itself to that sum, so the bounds survive a lost update; and
  if neither the found nor the loaded copy is old, the save is an atomic addition and the
  equalities survive too. Most steps leave all totals alone
  (`Neutral`); for the few that move value the proof follows one run into or out of the
  set that is summed over. From it `SupplyIsConserved`, `ChainTrailsLedger`,
  `PoolsAreFees` and `DriftIsAlwaysAnOpenMint`; the last needs that amounts are
  positive, which `@IsPositive` in `RunProcessDto` makes sure. For `CreditIsOnRecord`
  each completion recorded is matched with the credit that one run gives a node after
  it, which needs that no request names a node twice (`NodesNamedOnce`): a run records
  one completion however often it names a node, and credits it each time.
- `CommissionProofs`. A payment is prepared in several places before it is made
  (array, weights, list of nodes), so `WorkInv` says that what is in each of
  them is earned. From it `PaidForConfirmedWork`. `TypesInv` adds to the types that a
  node on the list has a weight, so that a payment never divides by zero: `TypeCorrect`.
  `BooksInv` holds the equations between receipts, what was booked, AFC accruals and
  records, each with the sum over the calls caught in between, and what each of these
  calls has paid so far; `LedgerInv` that the ledger, and every copy of it that a call
  has found, is at most what was booked, and the ledger is that unless a save was stale:
  `ReceiptsAreBooked`, `PaymentsAreAttributed`. For the pool, a
  call saves a copy of the row that may be old: `FeesInv` bounds every copy that can
  still be saved by the fees saved so far (`CopiesBacked`), and gives `PoolIsBacked`. For
  `SerialEpochSettledOnce`, with `Overlap = FALSE` and `MaxFaults = 0`, `SerialInv` adds that one
  call at most is under way, that the row it selected is the row, and that the status
  says how far the settlement is. `ShareInv` adds that the epoch has one array until it
  is settled, that the weights of a finalization count a prefix of it, and that what was
  received so far are the shares of the nodes it has taken from its list: after the
  record nothing touches that array or the receipts. From it `SerialSharesPaid`, for any
  fees, with shares rounded down as the model's division does. `SerialSharesAreFair`
  is `FairShares`, without rounding: it assumes that 75% of each fee is a multiple of every total
  weight up to the number of confirmed participations (`SharesExact`, true of the run),
  and needs that no array holds more confirmed work than the accruals brought
  (`ArraysBounded`) and that every total is such a multiple (`PoolsDivide`).
- `OversightProofs`. What `verifyLog()` sees says nothing of entries that are being
  written. `EyeInv` adds that an entry in flight links to a committed entry or to
  GENESIS, that once drawn its id is its own and larger than any it links to, and
  that its time is after the entry it links to and not past the clock. With it,
  `ForkFromInv` shows that links without a fork follow the order of the ids: a least
  counterexample would make two entries link to one. The existence of a least or
  largest id comes from the well-foundedness of the naturals. From it
  `ForkIsTheOnlyBreakHolds` and `LinksFollowTheClockHolds`.
- `BooksProofs`. A save happens several steps after the row was found, so none of the
  properties is inductive. `Inv` says of every call that its entity is what its
  operation makes of the row it found, and at which label which of its rows are set
  (`Stage`, `Saver`); of the rows, that they never disappear (`RowsStay`); and of the
  tallies of a row found or loaded earlier, that they are at most the present ideal
  ones. From it `TypeCorrect`, `ExactUnlessStaleHolds`, `NothingInventedHolds`,
  `ActivationJustifiedHolds`, `RejectedLedgerFrozenHolds` and
  `ActiveUnlessFirstAccessHolds`, for any number of calls, operations, nodes, faults
  and initial databases.

- `StandaloneProofs`. `ContractInv` relates supply, balances and the owner's account
  per reference: `SupplyIsByReference`, for finite sets of accounts and references
  (`ContractFinite`). `CoreInv` ties the core's pool and volume to what was paid:
  `ShareReachesNodesHolds`, for amounts that are multiples of 800 (`CoreExact`), as in
  the run. `GuardInv` says that what a scan has gathered is what
  the files processed so far hold, and that a report satisfies no cross reference:
  `VerdictOfFilesHolds`, if `--out` is a directory that scans skip and none of the
  repository's own files lies in one (`OwnFiles`).

The assumptions are the ones the modules name: types of the constants, that runs, nodes,
accruals and finalizations are finite in number, and that amounts are positive. Where a
theorem needs more it says so in its `ASSUME`: `Overlap = FALSE`, no faults,
`SharesExact`, `NodesNamedOnce`, `ContractFinite`, `CoreExact`, `OwnFiles`.

Only model-checked: the liveness properties (`SupplySettles`, `CallsEnd`,
`FinalizationCloses`), since fairness is beyond the prover. Every other property of a
passing run is a theorem.

## Not modelled, and what is left

- `finalizeEpoch` of the orchestrator as one composed call: its three parts
  (settlement; log; comparison) are modelled in Commission and Books, where nothing
  of one depends on the state of another.
- Rounding. Fees and shares are floating-point numbers in the code, reconciled with a
  tolerance; the models use amounts for which they are exact.
- Reads that nothing depends on: `getProcess`, `getBySequence`, `checkCompleteness`,
  `totalAfcReserve`, `snapshot`, `emission.calculate`.
- The frontend: it displays what it polls, from routes the service does not have.
- The Python agents under `12_nodechain_ai_agents`: heuristics over numbers that the
  service does not call, in a package whose base class names an undefined type and
  cannot be imported.
- The scripts: `fix-ci.ts` does not compile (a local variable shadows its function
  `log`), `nightly-audit.ts`, `agents-status.ts` and the check scripts run commands,
  count matches and print, and `simulate_flow.ts` and `test_governance.ts` import
  services that do not exist.
- Generated code: the typechain bindings, about half of the repository's lines of
  implementation, hold interface descriptions and no logic. That is why the map
  covers the services' logic and yet a small part of all lines.

Worth adding: the reference core as the abstract specification of one run of the
lifecycle, when runs do not overlap.
