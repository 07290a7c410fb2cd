----------------------------- MODULE Commission -----------------------------
(***************************************************************************)
(* CommissionService (src/commission/commission.service.ts): the fee pool  *)
(* of one epoch.  accrue() adds the fee of a run to the pool and remembers *)
(* in memory which nodes took part; finalizeEpoch() pays 75% of the pool   *)
(* to the nodes by their confirmed participation, routes the rest to the   *)
(* AFC reserve and closes the epoch.  Epochs share no row but the ledger's,*)
(* and what finalizations of two epochs do to that row, two of one epoch   *)
(* do as well.                                                             *)
(*                                                                         *)
(* Both operations await the database many times, so calls interleave at   *)
(* each of these steps, and a call can stop at any of them:                *)
(*                                                                         *)
(*   accrue         OpenEpoch, LoadRow, WriteRow, Push                     *)
(*   finalizeEpoch  RequireEpoch, Weigh per participation, then Receive,   *)
(*                  FindLedger, LoadLedger and Earn per node, AddAfc,      *)
(*                  LoadRow, WriteRow, AppendFinalized, Forget             *)
(*                                                                         *)
(* LoadRow and WriteRow are the two halves of TypeORM's save(): SELECT the *)
(* row, then INSERT it, or UPDATE the columns in which the entity differs  *)
(* from the row that was selected.  LoadLedger and Earn are the same of    *)
(* the ledger's row, which FindLedger has read before; the saves of that   *)
(* row by the mints and burns of running processes can overlap them.  So   *)
(* calls lose fees and earnings to each other, and a history variable,     *)
(* stale, says when a save of the ledger used an old copy.                 *)
(*                                                                         *)
(* received, afc and finals are what the calls have appended to the chain. *)
(* An append that overlaps another can later replace a record of these:    *)
(* that is the subject of NodeChain.tla.                                   *)
(***************************************************************************)
EXTENDS Integers, Sequences, FiniteSetsExt

CONSTANTS
  Accruals,     \* the calls of accrue()
  Finalizers,   \* the calls of finalizeEpoch()
  Savers,       \* the runs whose mints and burns save the ledger meanwhile
  Nodes,        \* node ids, as numbers in the order of sort()
  Processes,
  Confirmed,    \* the processes whose stored verdict is 1
  Fee,          \* the fee of each accrual
  Parts,        \* its participants, a sequence of <<process, node>>
  Overlap,      \* FALSE: a call starts only when no other is in flight
  MaxFaults     \* bound on the number of failed calls and restarts

Calls == Accruals \cup Finalizers

ASSUME CallAssumption == Accruals \cap Finalizers = {} /\ Savers \cap Finalizers = {}
ASSUME NodeAssumption == Nodes \subseteq Nat
ASSUME FeeAssumption == Fee \in [Accruals -> Nat]
ASSUME PartsAssumption == Parts \in [Accruals -> Seq(Processes \X Nodes)]
ASSUME OverlapAssumption == Overlap \in BOOLEAN
ASSUME FaultsAssumption == MaxFaults \in Nat
ASSUME FiniteAssumption == IsFiniteSet(Calls) /\ IsFiniteSet(Nodes)

VARIABLES
  \* of each call
  stage,     \* its next step; kept when the call stops, to say where
  entity,    \* the Epoch object it works on
  seen,      \* the row that its save() has selected
  halted,    \* the calls stopped by an exception or a restart
  \* of each finalizer
  array,     \* the participation array it iterates over; 0 is an empty one of its own
  pos,       \* the position of that iteration
  weight,    \* confirmedWeights
  unpaid,    \* the nodes still to be paid
  paid,      \* the sum of its payments
  \* of each finalizer and saver
  copy,      \* how far it is in a save of the ledger, and what it has read
  \* in memory
  heap,      \* the participation arrays, in order of creation
  current,   \* the array that the map holds for the epoch; 0 if none
  \* in the database
  row,       \* epochs
  received,  \* the sum of the node.payment.received appended for each node
  earned,    \* earnedRetained of the ArosCoin ledger
  afc,       \* the sum of the reserve.afc.accrual records appended
  finals,    \* the commission.epoch.finalized records appended
  \* history
  booked,    \* the sum of the amounts that recordEarned() has saved
  stale,     \* a save of the ledger used a copy that was no longer the row
  faults

callVars == <<stage, entity, seen, halted>>
finalizerVars == <<array, pos, weight, unpaid, paid>>
memVars == <<heap, current>>
ledgerVars == <<copy, earned, booked, stale>>
payVars == <<received, afc, ledgerVars>>
vars == <<callVars, finalizerVars, memVars, row, payVars, finals, faults>>

-----------------------------------------------------------------------------
(* The epoch row.  distributionLog is represented by the sum of its node   *)
(* entries, which is what toResult() reads from it.                        *)

Columns == {"totalFees", "status", "operationalMargin", "distributed"}

Epoch(totalFees, status, operationalMargin, distributed) ==
  [totalFees |-> totalFees, status |-> status,
   operationalMargin |-> operationalMargin, distributed |-> distributed]

NoEpoch == Epoch(0, "none", 0, 0)

NewEpoch == Epoch(0, "open", 0, 0)

\* Mutation: REPLACE instead of UPDATE, the other columns are dropped.
UpdatedReplaces(s, e) == [c \in {k \in Columns : e[k] # s[k]} |-> e[c]]

\* The row after UPDATE sets the columns in which e differs from the row s.
Updated(s, e) == [c \in Columns |-> IF e[c] # s[c] THEN e[c] ELSE row[c]]

\* toResult().reconciled
Reconciled(e) == e.distributed + e.operationalMargin = e.totalFees

\* What a call holds between the awaits of ledger() and save(), of earnedRetained.
Copy == [step : {"idle", "found", "loaded"}, found : Nat, loaded : Nat]

NoCopy == [step |-> "idle", found |-> 0, loaded |-> 0]

\* 75% of the pool goes to the nodes.
Distributable(total) == (total * 3) \div 4

TotalWeight(w) == SumFunctionOnSet(w, Nodes)

\* A node's payment; exact for the fees of the runs.
PaymentToNode(w, n, total) == (w[n] * Distributable(total)) \div TotalWeight(w)

-----------------------------------------------------------------------------
Init ==
  /\ stage = [c \in Calls |-> "new"]
  /\ entity = [c \in Calls |-> NoEpoch]
  /\ seen = [c \in Calls |-> NoEpoch]
  /\ halted = {}
  /\ array = [f \in Finalizers |-> 0]
  /\ pos = [f \in Finalizers |-> 1]
  /\ weight = [f \in Finalizers |-> [n \in Nodes |-> 0]]
  /\ unpaid = [f \in Finalizers |-> {}]
  /\ paid = [f \in Finalizers |-> 0]
  /\ heap = << >>
  /\ current = 0
  /\ row = NoEpoch
  /\ received = [n \in Nodes |-> 0]
  /\ copy = [c \in Finalizers \cup Savers |-> NoCopy]
  /\ earned = 0
  /\ booked = 0
  /\ stale = FALSE
  /\ afc = 0
  /\ finals = << >>
  /\ faults = 0

InFlight == {c \in Calls : stage[c] \notin {"new", "done"} /\ c \notin halted}

At(c, label) == stage[c] = label /\ c \notin halted

Goto(c, label) == stage' = [stage EXCEPT ![c] = label]

\* A call arrives.
Starts(c) == At(c, "new") /\ (Overlap \/ InFlight = {})

-----------------------------------------------------------------------------
(* accrue() *)

\* Mutation: the fee is added twice.
OpenEpochTwice(a) ==
  /\ Starts(a)
  /\ entity' = [entity EXCEPT ![a] =
       LET e == IF row = NoEpoch THEN NewEpoch ELSE row
       IN  [e EXCEPT !.totalFees = @ + Fee[a] + Fee[a]]]
  /\ Goto(a, "load")
  /\ UNCHANGED <<seen, halted, finalizerVars, memVars, row, payVars, finals, faults>>

\* Mutation: an accrual opens the epoch again.
OpenEpochReopens(a) ==
  /\ Starts(a)
  /\ entity' = [entity EXCEPT ![a] =
       LET e == IF row = NoEpoch THEN NewEpoch ELSE row
       IN  [e EXCEPT !.totalFees = @ + Fee[a], !.status = "open"]]
  /\ Goto(a, "load")
  /\ UNCHANGED <<seen, halted, finalizerVars, memVars, row, payVars, finals, faults>>

\* openEpoch(), and the addition to totalFees: whatever the status of the row.
OpenEpoch(a) ==
  /\ Starts(a)
  /\ entity' = [entity EXCEPT ![a] =
       LET e == IF row = NoEpoch THEN NewEpoch ELSE row
       IN  [e EXCEPT !.totalFees = @ + Fee[a]]]
  /\ Goto(a, "load")
  /\ UNCHANGED <<seen, halted, finalizerVars, memVars, row, payVars, finals, faults>>

LoadRow(c) ==
  /\ At(c, "load")
  /\ seen' = [seen EXCEPT ![c] = row]
  /\ Goto(c, "write")
  /\ UNCHANGED <<entity, halted, finalizerVars, memVars, row, payVars, finals, faults>>

\* INSERT fails on the primary key if the row has appeared since it was selected.
WriteRow(c) ==
  /\ At(c, "write")
  /\ \/ /\ seen[c] = NoEpoch /\ row # NoEpoch
        /\ halted' = halted \cup {c}
        /\ UNCHANGED <<stage, row>>
     \/ /\ seen[c] = NoEpoch /\ row = NoEpoch
        /\ row' = entity[c]
        /\ Goto(c, IF c \in Accruals THEN "push" ELSE "append")
        /\ UNCHANGED halted
     \/ /\ seen[c] # NoEpoch
        /\ row' = Updated(seen[c], entity[c])
        /\ Goto(c, IF c \in Accruals THEN "push" ELSE "append")
        /\ UNCHANGED halted
  /\ UNCHANGED <<entity, seen, finalizerVars, memVars, payVars, finals, faults>>

\* The participants join the epoch's array, or a new one if the map has none.
Push(a) ==
  /\ At(a, "push")
  /\ \/ /\ current = 0
        /\ heap' = Append(heap, Parts[a])
        /\ current' = Len(heap) + 1
     \/ /\ current # 0
        /\ heap' = [heap EXCEPT ![current] = @ \o Parts[a]]
        /\ UNCHANGED current
  /\ Goto(a, "done")
  /\ UNCHANGED <<entity, seen, halted, finalizerVars, row, payVars, finals, faults>>

-----------------------------------------------------------------------------
(* finalizeEpoch() *)

\* Mutation: the status is not checked.
RequireEpochAny(f) ==
  /\ Starts(f)
  /\ \/ /\ row = NoEpoch
        /\ Goto(f, "done")
        /\ UNCHANGED <<entity, array>>
     \/ /\ row # NoEpoch
        /\ entity' = [entity EXCEPT ![f] = row]
        /\ array' = [array EXCEPT ![f] = current]
        /\ Goto(f, "weigh")
  /\ UNCHANGED <<seen, halted, pos, weight, unpaid, paid, memVars, row, payVars, finals, faults>>

\* A missing epoch is an error, and one that is not open is only reported.
\* Otherwise confirmedWeights() takes hold of the participation array.
RequireEpoch(f) ==
  /\ Starts(f)
  /\ \/ /\ row.status # "open"
        /\ Goto(f, "done")
        /\ UNCHANGED <<entity, array>>
     \/ /\ row.status = "open"
        /\ entity' = [entity EXCEPT ![f] = row]
        /\ array' = [array EXCEPT ![f] = current]
        /\ Goto(f, "weigh")
  /\ UNCHANGED <<seen, halted, pos, weight, unpaid, paid, memVars, row, payVars, finals, faults>>

\* What the iteration can still see: accrue() pushes onto the array itself.
Participation(f) == IF array[f] = 0 THEN << >> ELSE heap[array[f]]

\* Mutation: presence counts, confirmed or not.
WeighAny(f) ==
  /\ At(f, "weigh")
  /\ pos[f] <= Len(Participation(f))
  /\ LET part == Participation(f)[pos[f]]
     IN  weight' = [weight EXCEPT ![f][part[2]] = @ + 1]
  /\ pos' = [pos EXCEPT ![f] = @ + 1]
  /\ UNCHANGED <<callVars, array, unpaid, paid, memVars, row, payVars, finals, faults>>

\* Mutation: an unconfirmed participation is not stepped over.
WeighStuck(f) ==
  /\ At(f, "weigh")
  /\ pos[f] <= Len(Participation(f))
  /\ LET part == Participation(f)[pos[f]]
     IN  /\ weight' = [weight EXCEPT ![f][part[2]] = @ + IF part[1] \in Confirmed THEN 1 ELSE 0]
         /\ pos' = [pos EXCEPT ![f] = @ + IF part[1] \in Confirmed THEN 1 ELSE 0]
  /\ UNCHANGED <<callVars, array, unpaid, paid, memVars, row, payVars, finals, faults>>

\* currentWeight() is reputation * uptime, which is 1 for every node: the only
\* caller of recordExecution() reports successes, and nothing lowers uptime.
Weigh(f) ==
  /\ At(f, "weigh")
  /\ pos[f] <= Len(Participation(f))
  /\ LET part == Participation(f)[pos[f]]
     IN  weight' = [weight EXCEPT ![f][part[2]] = @ + IF part[1] \in Confirmed THEN 1 ELSE 0]
  /\ pos' = [pos EXCEPT ![f] = @ + 1]
  /\ UNCHANGED <<callVars, array, unpaid, paid, memVars, row, payVars, finals, faults>>

\* The iteration ends; the nodes to pay are those with a weight.
Weighed(f) ==
  /\ At(f, "weigh")
  /\ pos[f] > Len(Participation(f))
  /\ unpaid' = [unpaid EXCEPT ![f] = {n \in Nodes : weight[f][n] > 0}]
  /\ Goto(f, "pay")
  /\ UNCHANGED <<entity, seen, halted, array, pos, weight, paid, memVars, row, payVars,
                 finals, faults>>

\* The payment that f is making.
Amount(f) == PaymentToNode(weight[f], Min(unpaid[f]), entity[f].totalFees)

\* receivePayment() appends a receipt.
Receive(f) ==
  /\ At(f, "pay")
  /\ unpaid[f] # {}
  /\ received' = [received EXCEPT ![Min(unpaid[f])] = @ + Amount(f)]
  /\ Goto(f, "earn")
  /\ UNCHANGED <<entity, seen, halted, finalizerVars, memVars, row, ledgerVars, afc, finals,
                 faults>>

\* ledger(), of a call that has paid a node or of a run that mints or burns.
FindLedger(c) ==
  /\ c \in Finalizers => At(c, "earn")
  /\ copy[c].step = "idle"
  /\ copy' = [copy EXCEPT ![c] = [step |-> "found", found |-> earned, loaded |-> 0]]
  /\ UNCHANGED <<callVars, finalizerVars, memVars, row, received, earned, booked, stale, afc,
                 finals, faults>>

\* The SELECT of save().
LoadLedger(c) ==
  /\ c \in Finalizers => At(c, "earn")
  /\ copy[c].step = "found"
  /\ copy' = [copy EXCEPT ![c] = [step |-> "loaded", found |-> copy[c].found, loaded |-> earned]]
  /\ UNCHANGED <<callVars, finalizerVars, memVars, row, received, earned, booked, stale, afc,
                 finals, faults>>

\* Mutation: the whole copy is written back, with the amount added again.
SaveEarnedTwice(c, amount) ==
  /\ copy[c].step = "loaded"
  /\ earned' = copy[c].found + amount + amount
  /\ stale' = (stale \/ copy[c].found # earned \/ copy[c].loaded # earned)
  /\ copy' = [copy EXCEPT ![c] = NoCopy]

\* The UPDATE of save(), which writes the column only where it differs from what
\* was selected.
SaveEarned(c, amount) ==
  /\ copy[c].step = "loaded"
  /\ earned' = IF copy[c].found + amount = copy[c].loaded THEN earned ELSE copy[c].found + amount
  /\ stale' = (stale \/ copy[c].found # earned \/ copy[c].loaded # earned)
  /\ copy' = [copy EXCEPT ![c] = NoCopy]

\* recordMint() or recordBurn() of a running process: it adds nothing to earnedRetained,
\* but an old copy of it is written back.
SaveOther(c) ==
  /\ SaveEarned(c, 0)
  /\ UNCHANGED <<callVars, finalizerVars, memVars, row, received, booked, afc, finals, faults>>

\* Mutation: each payment is booked as the sum so far.
EarnSum(f) ==
  /\ At(f, "earn")
  /\ SaveEarned(f, paid[f] + Amount(f))
  /\ booked' = booked + Amount(f)
  /\ paid' = [paid EXCEPT ![f] = @ + Amount(f)]
  /\ unpaid' = [unpaid EXCEPT ![f] = @ \ {Min(unpaid[f])}]
  /\ Goto(f, "pay")
  /\ UNCHANGED <<entity, seen, halted, array, pos, weight, memVars, row, received, afc, finals,
                 faults>>

\* recordEarned() saves it on the ledger.
Earn(f) ==
  /\ At(f, "earn")
  /\ SaveEarned(f, Amount(f))
  /\ booked' = booked + Amount(f)
  /\ paid' = [paid EXCEPT ![f] = @ + Amount(f)]
  /\ unpaid' = [unpaid EXCEPT ![f] = @ \ {Min(unpaid[f])}]
  /\ Goto(f, "pay")
  /\ UNCHANGED <<entity, seen, halted, array, pos, weight, memVars, row, received, afc, finals,
                 faults>>

AllocatedMargin(f) == entity[f].totalFees - paid[f]

\* Mutation: the fixed 25%, whatever was paid.
AddAfcFixed(f) ==
  /\ At(f, "pay")
  /\ unpaid[f] = {}
  /\ afc' = afc + (entity[f].totalFees - Distributable(entity[f].totalFees))
  /\ entity' = [entity EXCEPT ![f] =
       Epoch(@.totalFees, "finalized", AllocatedMargin(f), paid[f])]
  /\ Goto(f, "load")
  /\ UNCHANGED <<seen, halted, finalizerVars, memVars, row, received, ledgerVars, finals, faults>>

\* addAfcAccrual() records what was not paid; then the entity is closed.
AddAfc(f) ==
  /\ At(f, "pay")
  /\ unpaid[f] = {}
  /\ afc' = afc + AllocatedMargin(f)
  /\ entity' = [entity EXCEPT ![f] =
       Epoch(@.totalFees, "finalized", AllocatedMargin(f), paid[f])]
  /\ Goto(f, "load")
  /\ UNCHANGED <<seen, halted, finalizerVars, memVars, row, received, ledgerVars, finals, faults>>

AppendFinalized(f) ==
  /\ At(f, "append")
  /\ finals' = Append(finals, [totalFees |-> entity[f].totalFees, paid |-> paid[f],
                               operationalMargin |-> AllocatedMargin(f)])
  /\ Goto(f, "forget")
  /\ UNCHANGED <<entity, seen, halted, finalizerVars, memVars, row, payVars, faults>>

\* participation.delete(epochNumber)
Forget(f) ==
  /\ At(f, "forget")
  /\ current' = 0
  /\ Goto(f, "done")
  /\ UNCHANGED <<entity, seen, halted, finalizerVars, heap, row, payVars, finals, faults>>

-----------------------------------------------------------------------------
\* An await of the call rejects: the exception leaves the call where it is.
Fail(c) ==
  /\ c \in InFlight
  /\ faults < MaxFaults
  /\ faults' = faults + 1
  /\ halted' = halted \cup {c}
  /\ UNCHANGED <<stage, entity, seen, finalizerVars, memVars, row, payVars, finals>>

\* The server restarts: calls in flight die, and the participation map is gone.
Restart ==
  /\ faults < MaxFaults
  /\ faults' = faults + 1
  /\ halted' = halted \cup InFlight
  /\ current' = 0
  /\ copy' = [c \in Finalizers \cup Savers |-> NoCopy]
  /\ UNCHANGED <<stage, entity, seen, finalizerVars, heap, row, received, earned, booked,
                 stale, afc, finals>>

\* The steps of a call after it has arrived.
Continue(c) ==
  \/ LoadRow(c) \/ WriteRow(c)
  \/ c \in Accruals /\ Push(c)
  \/ c \in Finalizers /\ ( \/ Weigh(c) \/ Weighed(c) \/ Receive(c)
                           \/ FindLedger(c) \/ LoadLedger(c) \/ Earn(c)
                           \/ AddAfc(c) \/ AppendFinalized(c) \/ Forget(c) )

Next ==
  \/ \E a \in Accruals : OpenEpoch(a)
  \/ \E f \in Finalizers : RequireEpoch(f)
  \/ \E c \in Calls : Continue(c) \/ Fail(c)
  \/ \E c \in Savers : FindLedger(c) \/ LoadLedger(c) \/ SaveOther(c)
  \/ Restart

Spec == Init /\ [][Next]_vars

\* The event loop resumes every pending await.
FairSpec == Spec /\ \A c \in Calls : WF_vars(Continue(c))

-----------------------------------------------------------------------------
Statuses == {"none", "open", "finalized"}

EpochRow ==
  [totalFees : Nat, status : Statuses, operationalMargin : Int, distributed : Nat]

Stages ==
  {"new", "load", "write", "push", "weigh", "pay", "earn", "append", "forget", "done"}

SumOver(S, f(_)) == SumFunctionOnSet([x \in S |-> f(x)], S)

TotalReceived == SumOver(Nodes, LAMBDA n : received[n])

TotalFinal(field(_)) == SumOver(DOMAIN finals, LAMBDA i : field(finals[i]))

\* The accruals that have written the row.
Accrued == {a \in Accruals : stage[a] \in {"push", "done"}}

-----------------------------------------------------------------------------
(* Properties of every interleaving, with failures and restarts. *)

\* The stores and the calls hold values of their types.
TypeOK ==
  /\ stage \in [Calls -> Stages]
  /\ entity \in [Calls -> EpochRow]
  /\ seen \in [Calls -> EpochRow]
  /\ halted \subseteq Calls
  /\ pos \in [Finalizers -> Nat]
  /\ weight \in [Finalizers -> [Nodes -> Nat]]
  /\ unpaid \in [Finalizers -> SUBSET Nodes]
  /\ \A f \in Finalizers : stage[f] = "earn" => unpaid[f] # {}
  /\ paid \in [Finalizers -> Nat]
  /\ heap \in Seq(Seq(Processes \X Nodes))
  /\ current \in 0..Len(heap)
  /\ array \in [Finalizers -> 0..Len(heap)]
  /\ row \in EpochRow
  /\ copy \in [Finalizers \cup Savers -> Copy]
  /\ received \in [Nodes -> Nat]
  /\ earned \in Nat
  /\ booked \in Nat
  /\ stale \in BOOLEAN
  /\ afc \in Int
  /\ finals \in Seq([totalFees : Nat, operationalMargin : Int, paid : Nat])
  /\ faults \in Nat

\* Node n took part in a confirmed process whose fee has been accrued.
Earns(n) ==
  \E a \in Accruals : \E i \in DOMAIN Parts[a] :
    /\ stage[a] = "done"
    /\ Parts[a][i][1] \in Confirmed
    /\ Parts[a][i][2] = n

\* However accruals and finalizations race, and whatever is lost in a restart, a
\* node is paid only for confirmed work (I-CM-1, I9: presence earns nothing).
OnlyConfirmedPaid == \A n \in Nodes : received[n] > 0 => Earns(n)

\* The ledger never claims an earning that no receipt was appended for: the payments of
\* calls that are, or have stopped, between the two are missing from it.  And nothing
\* else is, unless a save of the ledger used an old copy of its row.
ReceiptsBooked ==
  LET unbooked == SumOver({f \in Finalizers : stage[f] = "earn"}, Amount)
  IN  /\ earned + unbooked <= TotalReceived
      /\ stale \/ earned + unbooked = TotalReceived

\* Every unit paid out can be attributed: the receipts and the AFC accruals appended
\* are those of the recorded finalizations and of the calls that have paid and not
\* recorded it.  A call that stops leaves payments that no record of a finalization
\* accounts for, but no payment is recorded by two calls or by the wrong one.
AuditTrail ==
  LET Paying == {f \in Finalizers : stage[f] = "earn"}
      Unrecorded == {f \in Finalizers : stage[f] \in {"pay", "earn", "load", "write", "append"}}
      PastAfc == Unrecorded \ {f \in Finalizers : stage[f] \in {"pay", "earn"}}
  IN  /\ TotalReceived = TotalFinal(LAMBDA x : x.paid) + SumOver(Unrecorded, LAMBDA f : paid[f])
                           + SumOver(Paying, Amount)
      /\ afc = TotalFinal(LAMBDA x : x.operationalMargin) + SumOver(PastAfc, AllocatedMargin)

\* Racing accruals and finalizations can lose a fee, but never invent one: the
\* pool is at most the fees of the accruals that were saved.
NoFeeInvented == row.totalFees <= SumOver(Accrued, LAMBDA a : Fee[a])

\* Every call that starts ends, whatever else is in flight: iterating over an
\* array that accruals push to terminates.
CallsEnd == <>[](InFlight = {})

-----------------------------------------------------------------------------
(* Properties that hold when calls do not overlap and none fails. *)

Count(parts, n) ==
  Cardinality({i \in DOMAIN parts : parts[i][1] \in Confirmed /\ parts[i][2] = n})

\* Once the epoch is finalized, each node has received exactly its share of 75%
\* of the pool by its confirmed participations, and no later accrual or
\* finalization changes that (I-CM-3).
FairShares ==
  finals # << >> =>
    LET parts == heap[1]
        all == SumOver(Nodes, LAMBDA n : Count(parts, n))
    IN  \A n \in Nodes :
          received[n] * all = Count(parts, n) * Distributable(finals[1].totalFees)

\* The epoch is settled at most once, whatever accruals and finalizations come later,
\* and while no call is in flight the payments and the AFC share add up to the total
\* of that one settlement: nothing is paid beside it (I7).
SettledOnce ==
  /\ Len(finals) <= 1
  /\ InFlight = {} =>
       TotalReceived + afc = TotalFinal(LAMBDA x : x.totalFees)

\* A finalization that starts on an open epoch closes it.
FinalizationCloses ==
  \A f \in Finalizers : (stage[f] = "weigh") ~> [](row.status = "finalized")

-----------------------------------------------------------------------------
(* What the comments say, and the code does not do. *)

\* "The pool reconciles with no remainder (I7)", on finalizeEpoch().
PoolReconciles == row.status = "finalized" => Reconciled(row)

\* "it can be recorded in NodeChain and reconciled: payments + afcMargin ==
\* totalFees (I7)", on Epoch: the nodes are paid no more than was accrued.
PaidWithinFees == TotalReceived <= SumOver(Accrued, LAMBDA a : Fee[a])
=============================================================================
