------------------------------- MODULE Books -------------------------------
(***************************************************************************)
(* The books that AST's services keep beside the chain, and the calls that *)
(* read, change and save them: the ArosCoin ledger row                     *)
(* (src/aroscoin/aroscoin.service.ts), the release phase row               *)
(* (src/release/release.service.ts), the node rows                         *)
(* (src/nodes/nodes.service.ts) and the Oversight Ledger of the Eye        *)
(* (src/all-seeing-eye/all-seeing-eye.service.ts).                         *)
(*                                                                         *)
(* Each await is a step, and any operations overlap, not only those of one *)
(* run or one finalization.  repo.save(row) is two of the steps: it        *)
(* selects the row by its key, then inserts it, or fails on the key when   *)
(* another insert was first, or updates the columns in which the entity    *)
(* differs from the row it selected.  A call that found the row earlier    *)
(* than that carries every column of what it found.                        *)
(*                                                                         *)
(* Of the chain the books read only the volume and the activations, so     *)
(* that other appends (node.registered after register, emission.burned     *)
(* after recordBurn) change nothing here; they are steps of Orchestrator.  *)
(***************************************************************************)
EXTENDS Integers, FiniteSetsExt

CONSTANTS
  MaxCalls,    \* bound on the number of calls
  Nodes,
  Ops,         \* the operations that calls can perform
  Databases,   \* the tables that an earlier process may have left
  Threshold,   \* the bound on the reserve's volume that activate() is given
  Target,      \* the bound on the velocity that activate() is given
  Volume24h,   \* the daily volume that activate() is given
  MaxFaults    \* bound on the number of failing awaits and restarts

Calls == 1 .. MaxCalls

Keys == {"ledger", "phase"} \cup Nodes

LedgerColumn ==
  [recordMint |-> "processMinted", recordBurn |-> "processBurned",
   recordEarned |-> "earnedRetained"]

LedgerWrites == DOMAIN LedgerColumn

\* An operation, the key of its row, and its amount: of units, of the epoch's
\* operational margin, or 1 and 0 for a successful and a failed execution.
Op ==
  [name : LedgerWrites \cup {"compareSupply"}, key : {"ledger"}, amount : Nat]
    \cup [name : {"isActive", "activate"}, key : {"phase"}, amount : {0}]
    \cup [name : {"register", "recordExecution"}, key : Nodes, amount : {0, 1}]
    \cup [name : {"epochFinalized", "log"}, key : {"ledger"}, amount : Nat]

ASSUME CallsAssumption == MaxCalls \in Nat /\ MaxFaults \in Nat
ASSUME OpsAssumption == Ops \subseteq Op
ASSUME KeysAssumption == Nodes \cap {"ledger", "phase"} = {}
ASSUME GateAssumption == Threshold \in Nat /\ Target \in Nat /\ Volume24h \in Nat

-----------------------------------------------------------------------------
(* Rows. *)

\* The row of a key that has none.
NoRow == [column \in {} |-> 0]

LedgerRow == [processMinted : Nat, processBurned : Nat, earnedRetained : Nat]

\* active is 1 or 0; index and supply are 0 while they are null.  The volume
\* stands for the index and the supply for the velocity that derive from them.
PhaseRow == [active : {0, 1}, index : Nat, supply : Int]

\* uptime is always 1, and so is status "active"; weight is reputation * uptime.
NodeRow == [successes : Nat, total : Nat, reputation : Nat]

Rows(k) ==
  CASE k = "ledger" -> LedgerRow
    [] k = "phase" -> PhaseRow
    [] OTHER -> NodeRow

AnyRow == LedgerRow \cup PhaseRow \cup NodeRow \cup {NoRow}

ZeroLedger == [processMinted |-> 0, processBurned |-> 0, earnedRetained |-> 0]

InactivePhase == [active |-> 0, index |-> 0, supply |-> 0]

\* The chain is empty at first, so that no phase has been activated on it.
ASSUME DatabasesAssumption ==
  \A d \in Databases :
    /\ d \in [Keys -> AnyRow]
    /\ \A k \in Keys : d[k] \in Rows(k) \cup {NoRow}
    /\ d["phase"] \in {InactivePhase, NoRow}

\* Mutation: the reputation of a new node is forgotten.
FreshNodeUnrated == [successes |-> 0, total |-> 0]

\* Reputation is in sixtieths, which is exact up to six executions.
FreshNode == [successes |-> 0, total |-> 0, reputation |-> 60]

computeReputation(successes, total) ==
  IF total = 0 THEN 60 ELSE (60 * successes) \div total

Credited(row, column, amount) == [row EXCEPT ![column] = @ + amount]

Executed(row, success) ==
  [successes |-> row.successes + success, total |-> row.total + 1,
   reputation |-> computeReputation(row.successes + success, row.total + 1)]

totalSupply(row) == (row.processMinted - row.processBurned) + row.earnedRetained

\* What repo.save(entity) leaves of a row, when it selected "loaded".
Saved(row, loaded, entity) ==
  IF loaded = NoRow
  THEN entity
  ELSE [column \in DOMAIN row |->
          IF entity[column] # loaded[column] THEN entity[column] ELSE row[column]]

-----------------------------------------------------------------------------
VARIABLES
  \* of each call
  pc,           \* its next await
  op,           \* its operation
  read,         \* the row it found
  entity,       \* that row as it changed it
  loaded,       \* the row its save() selected
  check,        \* the metrics activate() read: [volume, supply]
  entry,        \* the Oversight Ledger entry it is writing
  \* in memory
  initialization,  \* ArosCoinService.initialization
  clock,           \* ClockService.t, in the ticks of log(): those of others lie between
  boot,            \* the number of restarts
  \* in the database
  table,        \* the row of each key
  volume,       \* Reserve.totalProcessVolume, which sums the chain
  activations,  \* the metrics of the recorded release.activated
  entries,      \* the Oversight Ledger
  nextId,       \* its id sequence
  \* for the properties
  ideal,        \* the rows, had each save been one atomic update
  stale,        \* the calls that saved a row which had changed since they found it
  faults

rowVars == <<read, entity, loaded>>
callVars == <<pc, op, rowVars, check, entry>>
eyeVars == <<clock, entries, nextId>>
chainVars == <<volume, activations>>
bookVars == <<table, ideal, stale>>
vars == <<callVars, initialization, boot, eyeVars, chainVars, bookVars, faults>>

NoOp == [name |-> "none", key |-> "ledger", amount |-> 0]

NoCheck == [volume |-> 0, supply |-> 0]

NoEntry == [id |-> 0, prev |-> 0, time |-> 0, boot |-> 0]

Init ==
  /\ pc = [c \in Calls |-> "new"]
  /\ op = [c \in Calls |-> NoOp]
  /\ read = [c \in Calls |-> NoRow]
  /\ entity = [c \in Calls |-> NoRow]
  /\ loaded = [c \in Calls |-> NoRow]
  /\ check = [c \in Calls |-> NoCheck]
  /\ entry = [c \in Calls |-> NoEntry]
  /\ initialization = "none"
  /\ clock = 0
  /\ boot = 0
  /\ table \in Databases
  /\ volume = 0
  /\ activations = {}
  /\ entries = {}
  /\ nextId = 1
  /\ ideal = table
  /\ stale = {}
  /\ faults = 0

Ended == {"done", "failed"}

Goto(c, label) == pc' = [pc EXCEPT ![c] = label]

\* A call that ends leaves nothing of its own behind.
Forget(C) ==
  /\ op' = [c \in Calls |-> IF c \in C THEN NoOp ELSE op[c]]
  /\ read' = [c \in Calls |-> IF c \in C THEN NoRow ELSE read[c]]
  /\ entity' = [c \in Calls |-> IF c \in C THEN NoRow ELSE entity[c]]
  /\ loaded' = [c \in Calls |-> IF c \in C THEN NoRow ELSE loaded[c]]
  /\ check' = [c \in Calls |-> IF c \in C THEN NoCheck ELSE check[c]]
  /\ entry' = [c \in Calls |-> IF c \in C THEN NoEntry ELSE entry[c]]

Leave(c, label) ==
  /\ Goto(c, label)
  /\ Forget(IF label \in Ended THEN {c} ELSE {})

Key(c) == op[c].key

Row(c) == table[Key(c)]

\* The first await of each operation.
FirstAwait ==
  [recordMint |-> "ledger", recordBurn |-> "ledger", recordEarned |-> "ledger",
   compareSupply |-> "ledger", isActive |-> "phase", activate |-> "index",
   register |-> "load", recordExecution |-> "node", epochFinalized |-> "append",
   log |-> "head"]

\* Calls are numbered in the order in which they begin.
Begin(c) ==
  /\ pc[c] = "new"
  /\ \A d \in Calls : d < c => pc[d] # "new"
  /\ \E o \in Ops :
       /\ op' = [op EXCEPT ![c] = o]
       /\ Goto(c, FirstAwait[o.name])
       /\ entity' = [entity EXCEPT ![c] = IF o.name = "register" THEN FreshNode ELSE @]
  /\ UNCHANGED <<read, loaded, check, entry, initialization, boot, eyeVars, chainVars,
                 bookVars, faults>>

-----------------------------------------------------------------------------
(* ArosCoinService.ensureLedger: one promise for all, kept when it rejects. *)

\* Mutation: a call behind the rejected promise is never told.
EnsureLedgerSilent(c) ==
  /\ pc[c] = "ledger"
  /\ initialization = "none"
  /\ initialization' = "find"
  /\ UNCHANGED <<callVars, boot, eyeVars, chainVars, bookVars, faults>>

\* What follows the promise, when it resolves, is the query of the next section.
EnsureLedger(c) ==
  /\ pc[c] = "ledger"
  /\ \/ /\ initialization = "none"
        /\ initialization' = "find"
        /\ UNCHANGED callVars
     \/ /\ initialization = "rejected"
        /\ Leave(c, "failed")
        /\ UNCHANGED initialization
  /\ UNCHANGED <<boot, eyeVars, chainVars, bookVars, faults>>

InitializationFinds ==
  /\ initialization = "find"
  /\ initialization' = IF table["ledger"] = NoRow THEN "save" ELSE "ready"
  /\ UNCHANGED <<callVars, boot, eyeVars, chainVars, bookVars, faults>>

InitializationSaves ==
  /\ initialization = "save"
  /\ initialization' = "ready"
  /\ table' = [table EXCEPT !["ledger"] = ZeroLedger]
  /\ ideal' = [ideal EXCEPT !["ledger"] = ZeroLedger]
  /\ UNCHANGED <<callVars, boot, eyeVars, chainVars, stale, faults>>

InitializationRejects ==
  /\ initialization \in {"find", "save"}
  /\ faults < MaxFaults
  /\ faults' = faults + 1
  /\ initialization' = "rejected"
  /\ UNCHANGED <<callVars, boot, eyeVars, chainVars, bookVars>>

-----------------------------------------------------------------------------
(* Finding a row. *)

\* Mutation: the promise is not awaited when the row is there.
InLedgerEarly(c) == pc[c] = "ledger" /\ table["ledger"] # NoRow

InLedger(c) == pc[c] = "ledger" /\ initialization = "ready"

\* The call changes the row that it found, and goes on to save it.
Change(c, row) ==
  /\ read' = [read EXCEPT ![c] = Row(c)]
  /\ entity' = [entity EXCEPT ![c] = row]
  /\ Goto(c, "load")
  /\ UNCHANGED <<op, loaded, check, entry>>

\* Mutation: every tally is raised as recordMint does.
FindLedgerAsMint(c) ==
  /\ InLedger(c)
  /\ op[c].name \in LedgerWrites
  /\ Change(c, Credited(Row(c), "processMinted", op[c].amount))
  /\ UNCHANGED <<initialization, boot, eyeVars, chainVars, bookVars, faults>>

\* The rest of recordMint, recordBurn and recordEarned.
FindLedger(c) ==
  /\ InLedger(c)
  /\ op[c].name \in LedgerWrites
  /\ Change(c, Credited(Row(c), LedgerColumn[op[c].name], op[c].amount))
  /\ UNCHANGED <<initialization, boot, eyeVars, chainVars, bookVars, faults>>

\* The end of finalizeEpoch: compareSupply is given coin.supplyView(), and logs an
\* anomaly on a drift.
CompareSupply(c) ==
  /\ InLedger(c)
  /\ op[c].name = "compareSupply"
  /\ Leave(c, IF totalSupply(Row(c)) = Row(c).earnedRetained THEN "done" ELSE "head")
  /\ UNCHANGED <<initialization, boot, eyeVars, chainVars, bookVars, faults>>

\* Mutation: an execution that failed is not counted.
FindNodeSuccessOnly(c) ==
  /\ pc[c] = "node"
  /\ Row(c) # NoRow
  /\ Change(c, IF op[c].amount = 1 THEN Executed(Row(c), 1) ELSE Row(c))
  /\ UNCHANGED <<initialization, boot, eyeVars, chainVars, bookVars, faults>>

\* recordExecution throws for a node that is not registered.
FindNode(c) ==
  /\ pc[c] = "node"
  /\ \/ /\ Row(c) = NoRow
        /\ Leave(c, "failed")
     \/ /\ Row(c) # NoRow
        /\ Change(c, Executed(Row(c), op[c].amount))
  /\ UNCHANGED <<initialization, boot, eyeVars, chainVars, bookVars, faults>>

-----------------------------------------------------------------------------
(* ReleaseService. *)

\* reserveIndex > threshold and velocity > target, where the velocity of an
\* empty supply is 0.
Mature(metrics) ==
  /\ metrics.volume > Threshold
  /\ metrics.supply > 0
  /\ Volume24h > Target * metrics.supply

\* check(): first the index, then, behind ensureLedger(), the supply.
ReadIndex(c) ==
  /\ pc[c] = "index"
  /\ check' = [check EXCEPT ![c].volume = volume]
  /\ Goto(c, "ledger")
  /\ UNCHANGED <<op, rowVars, entry, initialization, boot, eyeVars, chainVars, bookVars, faults>>

ReadSupply(c) ==
  /\ InLedger(c)
  /\ op[c].name = "activate"
  /\ check' = [check EXCEPT ![c].supply = totalSupply(table["ledger"])]
  /\ Goto(c, "phase")
  /\ UNCHANGED <<op, rowVars, entry, initialization, boot, eyeVars, chainVars, bookVars, faults>>

\* Mutation: the phase is activated without the maturity check.
DecisionUnchecked(c, row) ==
  IF op[c].name = "activate" /\ row.active = 0 THEN "append" ELSE "done"

\* Where a call goes once phase() has returned it a row.
Decision(c, row) ==
  IF op[c].name = "activate" /\ row.active = 0 /\ Mature(check[c]) THEN "append" ELSE "done"

\* Mutation: phase() saves the row also when it found one.
FindPhaseTouch(c) ==
  /\ pc[c] = "phase"
  /\ Change(c, IF Row(c) = NoRow THEN InactivePhase ELSE Row(c))
  /\ UNCHANGED <<initialization, boot, eyeVars, chainVars, bookVars, faults>>

\* phase(): the inactive row is made on first access.
FindPhase(c) ==
  /\ pc[c] = "phase"
  /\ \/ /\ Row(c) = NoRow
        /\ Change(c, InactivePhase)
     \/ /\ Row(c) # NoRow /\ Decision(c, Row(c)) = "done"
        /\ Leave(c, "done")
     \/ /\ Row(c) # NoRow /\ Decision(c, Row(c)) = "append"
        /\ entity' = [entity EXCEPT ![c] = Row(c)]
        /\ Goto(c, "append")
        /\ UNCHANGED <<op, read, loaded, check, entry>>
  /\ UNCHANGED <<initialization, boot, eyeVars, chainVars, bookVars, faults>>

Activated(row, metrics) ==
  [active |-> 1, index |-> metrics.volume, supply |-> metrics.supply]

\* The transition is on the chain before the row is saved.
AppendActivation(c) ==
  /\ pc[c] = "append"
  /\ op[c].name = "activate"
  /\ activations' = activations \cup {check[c]}
  /\ read' = [read EXCEPT ![c] = entity[c]]
  /\ entity' = [entity EXCEPT ![c] = Activated(@, check[c])]
  /\ Goto(c, "load")
  /\ UNCHANGED <<op, loaded, check, entry, initialization, boot, eyeVars, volume, bookVars,
                 faults>>

-----------------------------------------------------------------------------
(* repo.save(entity). *)

\* register() saves a row that it never looked for.
Load(c) ==
  /\ pc[c] = "load"
  /\ loaded' = [loaded EXCEPT ![c] = Row(c)]
  /\ read' = [read EXCEPT ![c] = IF op[c].name = "register" THEN Row(c) ELSE @]
  /\ Goto(c, "write")
  /\ UNCHANGED <<op, entity, check, entry, initialization, boot, eyeVars, chainVars, bookVars,
                 faults>>

\* What the save of a call is meant to make of the row.
Intended(c, row) ==
  CASE op[c].name \in LedgerWrites -> Credited(row, LedgerColumn[op[c].name], op[c].amount)
    [] op[c].name = "recordExecution" -> Executed(row, op[c].amount)
    [] op[c].name = "register" -> FreshNode
    [] OTHER -> IF entity[c].active = 1 THEN Activated(row, check[c])
                ELSE IF row = NoRow THEN InactivePhase ELSE row

AfterWrite(c) ==
  CASE op[c].name = "recordMint" -> "append"
    [] op[c].name = "activate" -> Decision(c, entity[c])
    [] OTHER -> "done"

\* The key is taken: another call inserted the row after this one selected none.
InsertFails(c) ==
  /\ pc[c] = "write"
  /\ loaded[c] = NoRow /\ Row(c) # NoRow
  /\ Leave(c, "failed")
  /\ UNCHANGED <<initialization, boot, eyeVars, chainVars, bookVars, faults>>

Write(c) ==
  /\ pc[c] = "write"
  /\ loaded[c] = NoRow => Row(c) = NoRow
  /\ table' = [table EXCEPT ![Key(c)] = Saved(@, loaded[c], entity[c])]
  /\ ideal' = [ideal EXCEPT ![Key(c)] = Intended(c, @)]
  /\ stale' = IF read[c] = loaded[c] /\ read[c] = Row(c) THEN stale ELSE stale \cup {c}
  /\ Leave(c, AfterWrite(c))
  /\ UNCHANGED <<initialization, boot, eyeVars, chainVars, faults>>

\* emission.minted, or the operationalMargin of commission.epoch.finalized: what
\* Reserve.totalProcessVolume sums.
AppendVolume(c) ==
  /\ pc[c] = "append"
  /\ op[c].name \in {"recordMint", "epochFinalized"}
  /\ volume' = volume + op[c].amount
  /\ Leave(c, "done")
  /\ UNCHANGED <<initialization, boot, eyeVars, activations, bookVars, faults>>

-----------------------------------------------------------------------------
(* AllSeeingEyeService.log, a transaction that takes no lock. *)

Head == Max({e.id : e \in entries} \cup {0})

\* Mutation: an entry links to the last id given out, committed or not.
ReadLastId(c) ==
  /\ pc[c] = "head"
  /\ clock' = clock + 1
  /\ entry' = [entry EXCEPT ![c] = [id |-> 0, prev |-> nextId - 1, time |-> clock', boot |-> boot]]
  /\ Goto(c, "insert")
  /\ UNCHANGED <<op, rowVars, check, initialization, boot, entries, nextId, chainVars, bookVars,
                 faults>>

\* Mutation: the clock does not tick.
ReadHeadNoTick(c) ==
  /\ pc[c] = "head"
  /\ entry' = [entry EXCEPT ![c] = [id |-> 0, prev |-> Head, time |-> clock, boot |-> boot]]
  /\ Goto(c, "insert")
  /\ UNCHANGED <<op, rowVars, check, initialization, boot, eyeVars, chainVars, bookVars, faults>>

\* An entry is named by its id, which stands for its hash; id 0 is GENESIS.
ReadHead(c) ==
  /\ pc[c] = "head"
  /\ clock' = clock + 1
  /\ entry' = [entry EXCEPT ![c] = [id |-> 0, prev |-> Head, time |-> clock', boot |-> boot]]
  /\ Goto(c, "insert")
  /\ UNCHANGED <<op, rowVars, check, initialization, boot, entries, nextId, chainVars, bookVars,
                 faults>>

\* The id is taken from the sequence, and not given back when the insert aborts.
InsertEntry(c) ==
  /\ pc[c] = "insert"
  /\ entry' = [entry EXCEPT ![c].id = nextId]
  /\ nextId' = nextId + 1
  /\ Goto(c, "commit")
  /\ UNCHANGED <<op, rowVars, check, initialization, boot, clock, entries, chainVars, bookVars,
                 faults>>

CommitEntry(c) ==
  /\ pc[c] = "commit"
  /\ entries' = entries \cup {entry[c]}
  /\ Leave(c, "done")
  /\ UNCHANGED <<initialization, boot, clock, nextId, chainVars, bookVars, faults>>

\* verifyLog(): in the order of the ids, each entry links to the one before.
VerifyLog ==
  \A e \in entries : e.prev = Max({f.id : f \in {g \in entries : g.id < e.id}} \cup {0})

-----------------------------------------------------------------------------
Running(c) == pc[c] \notin Ended \cup {"new"}

\* Any await can throw.
Fail(c) ==
  /\ Running(c)
  /\ faults < MaxFaults
  /\ faults' = faults + 1
  /\ Leave(c, "failed")
  /\ UNCHANGED <<initialization, boot, eyeVars, chainVars, bookVars>>

\* A restart loses the promise and the clock, and every call that was running.
Restart ==
  /\ faults < MaxFaults
  /\ faults' = faults + 1
  /\ boot' = boot + 1
  /\ clock' = 0
  /\ initialization' = "none"
  /\ pc' = [c \in Calls |-> IF Running(c) THEN "failed" ELSE pc[c]]
  /\ Forget({c \in Calls : Running(c)})
  /\ UNCHANGED <<entries, nextId, chainVars, bookVars>>

Initialization == InitializationFinds \/ InitializationSaves

Step(c) ==
  \/ EnsureLedger(c) \/ FindLedger(c) \/ CompareSupply(c) \/ FindNode(c)
  \/ ReadIndex(c) \/ ReadSupply(c) \/ FindPhase(c) \/ AppendActivation(c)
  \/ Load(c) \/ InsertFails(c) \/ Write(c) \/ AppendVolume(c)
  \/ ReadHead(c) \/ InsertEntry(c) \/ CommitEntry(c)

Next ==
  \/ \E c \in Calls : Begin(c) \/ Step(c) \/ Fail(c)
  \/ Initialization
  \/ InitializationRejects
  \/ Restart

\* The event loop does not idle while an await has settled; clients need not call,
\* and nothing has to fail.
Progress == Initialization \/ \E c \in Calls : Step(c)

Spec == Init /\ [][Next]_vars /\ WF_vars(Progress)

-----------------------------------------------------------------------------
(* Properties. *)

Labels ==
  {"new", "ledger", "node", "index", "phase", "load", "write", "append", "head", "insert",
   "commit", "done", "failed"}

Entry == [id : Nat, prev : Nat, time : Nat, boot : Nat]

\* Every variable has its type, and a call holds rows of the key it works on.
TypeOK ==
  /\ pc \in [Calls -> Labels]
  /\ op \in [Calls -> Op \cup {NoOp}]
  /\ read \in [Calls -> AnyRow] /\ entity \in [Calls -> AnyRow] /\ loaded \in [Calls -> AnyRow]
  /\ \A c \in Calls : {read[c], entity[c], loaded[c]} \subseteq Rows(Key(c)) \cup {NoRow}
  /\ check \in [Calls -> [volume : Nat, supply : Int]]
  /\ entry \in [Calls -> Entry]
  /\ initialization \in {"none", "find", "save", "ready", "rejected"}
  /\ clock \in Nat /\ boot \in Nat /\ volume \in Nat /\ nextId \in Nat /\ faults \in 0 .. MaxFaults
  /\ table \in [Keys -> AnyRow] /\ ideal \in [Keys -> AnyRow]
  /\ \A k \in Keys : {table[k], ideal[k]} \subseteq Rows(k) \cup {NoRow}
  /\ activations \subseteq [volume : Nat, supply : Int]
  /\ entries \subseteq Entry
  /\ stale \subseteq Calls

\* As long as no call saved a row that had changed since the call found it, every
\* book is what one atomic update per save would have made it: the tallies of
\* recordMint, recordBurn and recordEarned, the counts and the reputation of
\* recordExecution, the phase of activate.
ExactUnlessStale == stale = {} => table = ideal

\* Overlapping saves lose units, and write back tallies that others have raised,
\* but no tally of the ledger ever exceeds what the saves amount to.
NothingInvented ==
  table["ledger"] # NoRow =>
    \A column \in DOMAIN ZeroLedger : table["ledger"][column] <= ideal["ledger"][column]

\* Broader circulation is active only when the chain says so: an active phase has a
\* recorded release.activated, and each of those was mature when it was checked, by
\* a volume that the reserve still has.
ActivationJustified ==
  /\ table["phase"] # NoRow /\ table["phase"].active = 1 => activations # {}
  /\ \A metrics \in activations : Mature(metrics) /\ metrics.volume <= volume

\* An active phase is only ever lost to the save of phase(), by a call that looked
\* for the row before it existed.
LostToFirstAccess(c) ==
  pc[c] = "write" /\ entity[c] = InactivePhase /\ read[c] = NoRow

ActiveUnlessFirstAccess ==
  [][ table["phase"] # NoRow /\ table["phase"].active = 1 /\ table'["phase"].active = 0
        => \E c \in Calls : LostToFirstAccess(c) ]_vars

\* Once the initialization is rejected no call changes the ledger until a restart.
RejectedLedgerFrozen ==
  [][ initialization = "rejected" => table'["ledger"] = table["ledger"] ]_vars

\* verifyLog() fails exactly when two committed entries link to the same one, which
\* happens when a call reads the head before the other has committed; ids that were
\* lost or committed out of order break nothing.
ForkIsTheOnlyBreak ==
  VerifyLog <=> \A e, f \in entries : e.prev = f.prev => e = f

\* An entry is later than the one it links to, if the clock did not restart between.
LinksFollowTheClock ==
  \A e, f \in entries : e.prev = f.id /\ e.boot = f.boot => e.time > f.time

\* Every call that began ends, answered or failed, also behind a rejected
\* initialization: from some time on none is running.
CallsEnd == <>[](\A c \in Calls : ~Running(c))
=============================================================================
