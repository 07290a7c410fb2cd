---------------------------- MODULE Orchestrator ----------------------------
(***************************************************************************)
(* OrchestratorService.runProcess (src/orchestrator/orchestrator.service.ts)*)
(* and the operations of the services it drives: StateRecording.capture,   *)
(* PoT.verify, Emission.mint and burn, Commission.accrue, Nodes.register   *)
(* and recordExecution, AllSeeingEye.log and compareSupply.                *)
(*                                                                         *)
(* A run is one POST /processes.  Runs interleave at every await, and two  *)
(* runs can be of the same process (a retry, a duplicated request): only   *)
(* the verdict row is keyed by process, nothing is keyed by run.  No       *)
(* operation on a shared row is atomic.  An append reads the head of the   *)
(* chain and later saves a snapshot under the next sequenceId; a tally is  *)
(* found, added to in memory and saved; and save() itself is a SELECT and  *)
(* then an INSERT, or an UPDATE of the columns that differ from what was   *)
(* selected.  So an append can take the row of a snapshot that an          *)
(* overlapping run has committed, and a save can lose what another run     *)
(* added.  What was ever committed (appended) and what was then replaced   *)
(* are kept apart, and a history variable, stale, says where a save used   *)
(* an old copy of its row.                                                 *)
(*                                                                         *)
(* A run can stop after any step, since any await can throw and nothing    *)
(* wraps a run in a transaction, and the process can restart, which loses  *)
(* what is kept in memory.  Only POST /processes is in flight here: the    *)
(* finalization of an epoch is the subject of Commission.tla.              *)
(***************************************************************************)
EXTENDS Naturals, Sequences, FiniteSetsExt

CONSTANTS
  Runs,
  Processes,
  Epochs,
  Nodes,
  DefaultNodes,  \* DEFAULT_NODES, a sequence of nodes
  Scenarios,     \* the requests of the runs, with a bound on the failing awaits and restarts
  Watched        \* the events whose snapshots are followed when others replace them

\* The amount is positive; nodeIds = << >> stands for an omitted nodeIds.
Request == [process : Processes, amount : Nat \ {0}, admissible : BOOLEAN,
            nodeIds : Seq(Nodes), epoch : Epochs]

ASSUME ScenarioAssumption == Scenarios \subseteq [requests : [Runs -> Request], faults : Nat]
ASSUME RosterAssumption == DefaultNodes \in Seq(Nodes) /\ DefaultNodes # << >>
\* However many requests arrive, they are finitely many.
ASSUME FiniteAssumption == IsFiniteSet(Runs)

VARIABLES
  \* of each run
  pc,             \* its next step; kept when the run stops, to say where
  req,            \* its request
  nodes,          \* assignedNodes
  left,           \* the position of its loop over nodes
  verdict,        \* verdict.verified, once known
  op,             \* how far it is in an append or a save, and what it has read
  halted,         \* the runs stopped by an exception or a restart
  \* in memory
  captured,       \* StateRecordingService.captured: process -> event types
  participation,  \* CommissionService.participation: epoch -> <<process, node>>...
  \* in the database
  appended,       \* the snapshots committed to the chain: event and appending run
  replaced,       \* those of Watched events whose row a later append took
  verdictRow,     \* pot_verdicts
  ledger,         \* aroscoin_ledger: processMinted and processBurned
  opened,         \* the epochs that have a row
  pool,           \* totalFees of each epoch
  roster,         \* the registered nodes, in order of insertion
  work,           \* total (= successes) of each node
  eye,            \* how often each event is in the Oversight Ledger
  \* history
  stale,          \* where a save used a copy that was no longer the row
  faults          \* the failing awaits and restarts still to come, at most

runVars == <<pc, req, nodes, left, verdict, op, halted>>
memVars == <<captured, participation>>
nodeVars == <<roster, work>>
coinVars == <<ledger, opened, pool, stale>>
chainVars == <<appended, replaced>>
vars == <<runVars, memVars, chainVars, verdictRow, coinVars, nodeVars, eye, faults>>

RequiredBeforeVerdict ==
  {"initiation", "task_assignment", "stage_transition", "execution_complete"}

CaptureEvents ==
  RequiredBeforeVerdict \cup {"pot_verdict", "emission", "final_status"}

\* pot.verified carries its verdict in the payload: two events here.
ProcessEvents ==
  CaptureEvents \cup {"pot.verified=1", "pot.verified=0", "emission.minted", "emission.burned"}

\* A run appends each event at most once, so the two identify a snapshot; its
\* process and its amount are those of the run.
Snapshots == (ProcessEvents \X Runs) \cup ({"node.registered"} \X (Runs \X Nodes))

EyeEvents ==
  {"initiation", "inadmissible", "task_assignment", "pot_verdict", "mint", "burn",
   "final_status", "supply_drift"}

Verdicts == {"none", "verified", "rejected"}

\* The columns of a row of the ledger, the epochs or the nodes; 0 where it has none.
Row == [exists : BOOLEAN, minted : Nat, burned : Nat, fees : Nat, total : Nat]

NoRow == [exists |-> FALSE, minted |-> 0, burned |-> 0, fees |-> 0, total |-> 0]

\* What a run holds between the awaits of one operation.  Of the sequenceId it drafted:
\* the runs that had drafted the same one, whether that row has been taken, and the
\* Watched snapshot in it.  Of a save: the row it found, and the row or verdict that save() loaded.
Op == [step : {"idle", "drafted", "found", "loaded"},
       rivals : SUBSET Runs, taken : BOOLEAN, below : SUBSET Snapshots,
       found : Row, loaded : Row, verdict : Verdicts]

NoOp == [step |-> "idle", rivals |-> {}, taken |-> FALSE, below |-> {},
         found |-> NoRow, loaded |-> NoRow, verdict |-> "none"]

\* computeFee: amount * feeRate, with feeRate = 0.005; exact for the amounts of
\* the runs, which are multiples of 200.
computeFee(amount) == (amount * 5) \div 1000

-----------------------------------------------------------------------------
Init ==
  /\ pc = [r \in Runs |-> "new"]
  /\ \E s \in Scenarios : req = s.requests /\ faults = s.faults
  /\ nodes = [r \in Runs |-> << >>]
  /\ left = [r \in Runs |-> 1]
  /\ verdict = [r \in Runs |-> "none"]
  /\ op = [r \in Runs |-> NoOp]
  /\ halted = {}
  /\ captured = [p \in Processes |-> {}]
  /\ participation = [e \in Epochs |-> << >>]
  /\ appended = {}
  /\ replaced = {}
  /\ verdictRow = [p \in Processes |-> "none"]
  /\ ledger = [minted |-> 0, burned |-> 0]
  /\ opened = {}
  /\ pool = [e \in Epochs |-> 0]
  /\ roster = << >>
  /\ work = [n \in Nodes |-> 0]
  /\ eye = [e \in EyeEvents |-> 0]
  /\ stale = [ledger |-> FALSE, epochs |-> {}]

Running(r) == pc[r] \notin {"new", "done"} /\ r \notin halted

At(r, label) == pc[r] = label /\ r \notin halted

Goto(r, label) == pc' = [pc EXCEPT ![r] = label]

Process(r) == req[r].process

Amount(r) == req[r].amount

Throw(r) == halted' = halted \cup {r} /\ UNCHANGED pc

\* A step that changes nothing but the run.
LocalStep ==
  UNCHANGED <<req, memVars, chainVars, verdictRow, coinVars, nodeVars, eye, faults>>

-----------------------------------------------------------------------------
(* NodeChainService.append: the head is read, then the snapshot is saved.  *)
(* The row that was drafted can have been taken in between.                *)

Recorded(snapshots, event, p) == \E r \in Runs : Process(r) = p /\ <<event, r>> \in snapshots

\* Still there, for a Watched event, and ever committed, for any.
OnChain(event, p) == Recorded(appended \ replaced, event, p)

WasRecorded(event, p) == Recorded(appended, event, p)

AppendLabels ==
  {"initiation", "registered", "assign", "stage", "complete", "append_verdict", "pot_verdict",
   "reject", "append_minted", "emission", "append_burned", "final"}

\* The runs that have drafted the row after the head: those whose row is not taken.
Drafting == {q \in Runs : op[q].step = "drafted" /\ ~op[q].taken}

\* The two runs have drafted the same sequenceId.
Share(q, r) == q \in op[r].rivals \/ r \in op[q].rivals

Draft(r) ==
  /\ pc[r] \in AppendLabels /\ r \notin halted
  /\ op[r].step = "idle"
  /\ op' = [op EXCEPT ![r].step = "drafted", ![r].rivals = Drafting]
  /\ UNCHANGED <<pc, nodes, left, verdict, halted>>
  /\ LocalStep

\* The run drops what it was doing.
Abandon(r) ==
  op' = [q \in Runs |-> IF q = r THEN NoOp ELSE [op[q] EXCEPT !.rivals = @ \ {r}]]

\* Mutation: capture() remembers the event also when the append throws.
ConflictRemembered(r) ==
  /\ Running(r)
  /\ op[r].taken
  /\ Throw(r)
  /\ Abandon(r)
  /\ captured' = IF pc[r] = "initiation"
                 THEN [captured EXCEPT ![Process(r)] = @ \cup {"initiation"}]
                 ELSE captured
  /\ UNCHANGED <<req, nodes, left, verdict, participation, chainVars, verdictRow, coinVars,
                 nodeVars, eye, faults>>

\* save() loaded no row and its INSERT meets one that was committed since.
Conflict(r) ==
  /\ Running(r)
  /\ op[r].taken
  /\ Throw(r)
  /\ Abandon(r)
  /\ UNCHANGED <<nodes, left, verdict>>
  /\ LocalStep

Followed(snapshot) == IF snapshot[1] \in Watched THEN {snapshot} ELSE {}

\* The transaction commits: an INSERT where the drafted row is free, and otherwise
\* an UPDATE of the snapshot in it.  Overlapping appends that drafted the same row
\* will find this snapshot there.
Commit(r, snapshot) ==
  /\ op[r].step = "drafted"
  /\ appended' = appended \cup {snapshot}
  /\ replaced' = replaced \cup op[r].below
  /\ op' = [q \in Runs |->
               IF q = r THEN NoOp
               ELSE IF Share(q, r)
               THEN [op[q] EXCEPT !.rivals = @ \ {r}, !.taken = TRUE,
                                  !.below = Followed(snapshot)]
               ELSE [op[q] EXCEPT !.rivals = @ \ {r}]]

\* The append commits and runProcess goes on to its next step.
Recording(r, here, event, next) ==
  /\ At(r, here)
  /\ Commit(r, <<event, r>>)
  /\ Goto(r, next)
  /\ UNCHANGED <<req, nodes, left, verdict, halted, memVars, verdictRow, coinVars, nodeVars,
                 eye, faults>>

\* Mutation: stage transitions are only remembered.
RememberTransition(r, event) ==
  /\ IF event = "stage_transition"
     THEN op[r].step = "drafted" /\ Abandon(r) /\ UNCHANGED chainVars
     ELSE Commit(r, <<event, r>>)
  /\ captured' = [captured EXCEPT ![Process(r)] = @ \cup {event}]

\* Mutation: the completion of the execution is only remembered.
RememberCompletion(r, event) ==
  /\ IF event = "execution_complete"
     THEN op[r].step = "drafted" /\ Abandon(r) /\ UNCHANGED chainVars
     ELSE Commit(r, <<event, r>>)
  /\ captured' = [captured EXCEPT ![Process(r)] = @ \cup {event}]

\* StateRecordingService.capture: the chain first, then the in-memory index.
Remember(r, event) ==
  /\ Commit(r, <<event, r>>)
  /\ captured' = [captured EXCEPT ![Process(r)] = @ \cup {event}]

Capture(r, here, event, next) ==
  /\ At(r, here)
  /\ Remember(r, event)
  /\ Goto(r, next)
  /\ UNCHANGED <<req, nodes, verdict, halted, participation, verdictRow, coinVars, nodeVars,
                 eye, faults>>

\* AllSeeingEyeService.log.
Witness(r, here, event, next) ==
  /\ At(r, here)
  /\ eye' = [eye EXCEPT ![event] = @ + 1]
  /\ Goto(r, next)
  /\ UNCHANGED <<req, nodes, left, verdict, op, halted, memVars, chainVars, verdictRow,
                 coinVars, nodeVars, faults>>

-----------------------------------------------------------------------------
(* The tallies: findOne, an addition in memory, and save().                *)

Registered(n) == \E i \in DOMAIN roster : roster[i] = n

\* The node that the run is registering or recording the work of.
Node(r) == IF pc[r] = "register" THEN DefaultNodes[left[r]] ELSE nodes[r][left[r]]

\* It has nodes left to record the execution of.
Working(r) == At(r, "work") /\ left[r] <= Len(nodes[r])

\* The row that the run is finding, loading or writing, as it is now.
Current(r) ==
  CASE pc[r] \in {"mint", "burn"} ->
         [NoRow EXCEPT !.exists = TRUE, !.minted = ledger.minted, !.burned = ledger.burned]
    [] pc[r] = "accrue" ->
         [NoRow EXCEPT !.exists = (req[r].epoch \in opened), !.fees = pool[req[r].epoch]]
    [] OTHER -> [NoRow EXCEPT !.exists = Registered(Node(r)), !.total = work[Node(r)]]

\* ledger(), openEpoch() and requireNode(), which throws for an unknown node.
Find(r) ==
  /\ At(r, "mint") \/ At(r, "accrue") \/ At(r, "burn") \/ Working(r)
  /\ op[r].step = "idle"
  /\ \/ /\ pc[r] = "work" => Registered(Node(r))
        /\ op' = [op EXCEPT ![r].step = "found", ![r].found = Current(r)]
        /\ UNCHANGED <<pc, halted>>
     \/ /\ pc[r] = "work" /\ ~Registered(Node(r))
        /\ Throw(r)
        /\ UNCHANGED op
  /\ UNCHANGED <<nodes, left, verdict>>
  /\ LocalStep

\* The SELECT of save(); register() saves a new entity, which it has not found.
Load(r) ==
  /\ op[r].step = "found" \/ (At(r, "register") /\ op[r].step = "idle")
  /\ op' = [op EXCEPT ![r].step = "loaded", ![r].loaded = Current(r)]
  /\ UNCHANGED <<pc, nodes, left, verdict, halted>>
  /\ LocalStep

\* A column after save(): it is written only if the entity differs from the row loaded.
Written(entity, loaded, now) == IF entity = loaded THEN now ELSE entity

\* The INSERT of save() meets a row that was inserted after the SELECT.
Inserted(r) == ~op[r].loaded.exists /\ Current(r).exists

Outdated(r) == op[r].found # Current(r) \/ op[r].loaded # Current(r)

\* The row is written where the run is at "here", and the run has done with it.
Saving(r, here) ==
  /\ At(r, here)
  /\ op[r].step = "loaded"
  /\ op' = [op EXCEPT ![r] = NoOp]

-----------------------------------------------------------------------------
(* Steps 1 and 2: initiation and admissibility. *)

\* POST /processes: the request arrives.
Arrive(r) ==
  /\ At(r, "new")
  /\ Goto(r, "initiation")
  /\ UNCHANGED <<nodes, left, verdict, op, halted>>
  /\ LocalStep

Initiate(r) == Capture(r, "initiation", "initiation", "eye_initiation") /\ UNCHANGED left

WitnessInitiation(r) == Witness(r, "eye_initiation", "initiation", "admit")

Admit(r) ==
  /\ At(r, "admit")
  /\ req[r].admissible
  /\ Goto(r, "resolve")
  /\ UNCHANGED <<nodes, left, verdict, op, halted>>
  /\ LocalStep

RefuseInadmissible(r) ==
  /\ ~req[r].admissible
  /\ Witness(r, "admit", "inadmissible", "done")

-----------------------------------------------------------------------------
(* Step 3: node assignment. *)

\* resolveAssignedNodes: the second list() is this step taken again.
Resolve(r) ==
  /\ At(r, "resolve")
  /\ \/ /\ req[r].nodeIds # << >>
        /\ nodes' = [nodes EXCEPT ![r] = req[r].nodeIds]
        /\ Goto(r, "assign")
        /\ UNCHANGED left
     \/ /\ req[r].nodeIds = << >> /\ roster # << >>
        /\ nodes' = [nodes EXCEPT ![r] = roster]
        /\ Goto(r, "assign")
        /\ UNCHANGED left
     \/ /\ req[r].nodeIds = << >> /\ roster = << >>
        /\ left' = [left EXCEPT ![r] = 1]
        /\ Goto(r, "register")
        /\ UNCHANGED nodes
  /\ UNCHANGED <<verdict, op, halted>>
  /\ LocalStep

\* The entity has the default metrics: over a row that save() loaded, it resets them.
Register(r) ==
  LET n == DefaultNodes[left[r]]
  IN  /\ Saving(r, "register")
      /\ \/ /\ Inserted(r)
            /\ Throw(r)
            /\ UNCHANGED nodeVars
         \/ /\ ~Inserted(r)
            /\ roster' = IF Registered(n) THEN roster ELSE Append(roster, n)
            /\ work' = [work EXCEPT ![n] = Written(0, op[r].loaded.total, @)]
            /\ Goto(r, "registered")
            /\ UNCHANGED halted
      /\ UNCHANGED <<req, nodes, left, verdict, memVars, chainVars, verdictRow, coinVars,
                     eye, faults>>

\* Mutation: the loop runs once too often.
RecordRegistrationPastEnd(r) ==
  /\ At(r, "registered")
  /\ Commit(r, <<"node.registered", <<r, DefaultNodes[left[r]]>>>>)
  /\ left' = [left EXCEPT ![r] = @ + 1]
  /\ Goto(r, IF left[r] <= Len(DefaultNodes) THEN "register" ELSE "resolve")
  /\ UNCHANGED <<req, nodes, verdict, halted, memVars, verdictRow, coinVars, nodeVars, eye,
                 faults>>

RecordRegistration(r) ==
  /\ At(r, "registered")
  /\ Commit(r, <<"node.registered", <<r, DefaultNodes[left[r]]>>>>)
  /\ \/ /\ left[r] < Len(DefaultNodes)
        /\ left' = [left EXCEPT ![r] = @ + 1]
        /\ Goto(r, "register")
     \/ /\ left[r] = Len(DefaultNodes)
        /\ Goto(r, "resolve")
        /\ UNCHANGED left
  /\ UNCHANGED <<req, nodes, verdict, halted, memVars, verdictRow, coinVars, nodeVars, eye,
                 faults>>

TaskAssignment(r) ==
  Capture(r, "assign", "task_assignment", "eye_assignment") /\ UNCHANGED left

WitnessAssignment(r) == Witness(r, "eye_assignment", "task_assignment", "stage")

-----------------------------------------------------------------------------
(* Step 4: execution. *)

StageTransition(r) ==
  Capture(r, "stage", "stage_transition", "complete") /\ UNCHANGED left

ExecutionComplete(r) ==
  /\ Capture(r, "complete", "execution_complete", "work")
  /\ left' = [left EXCEPT ![r] = 1]

\* recordExecution(nodeId, true): the save, and on to the next node.
RecordExecution(r) ==
  LET n == nodes[r][left[r]]
  IN  /\ Working(r)
      /\ Saving(r, "work")
      /\ work' = [work EXCEPT ![n] = Written(op[r].found.total + 1, op[r].loaded.total, @)]
      /\ left' = [left EXCEPT ![r] = @ + 1]
      /\ UNCHANGED <<pc, halted, req, nodes, verdict, memVars, chainVars, verdictRow,
                     coinVars, roster, eye, faults>>

-----------------------------------------------------------------------------
(* Step 5: PoT.verify and its recording. *)

\* A stored verdict is returned unchanged.
Lookup(r) ==
  /\ At(r, "work")
  /\ left[r] > Len(nodes[r])
  /\ \/ /\ verdictRow[Process(r)] # "none"
        /\ verdict' = [verdict EXCEPT ![r] = verdictRow[Process(r)]]
        /\ Goto(r, "pot_verdict")
     \/ /\ verdictRow[Process(r)] = "none"
        /\ Goto(r, "evaluate")
        /\ UNCHANGED verdict
  /\ UNCHANGED <<nodes, left, op, halted>>
  /\ LocalStep

\* The four criteria: every required event captured, and a chain that reconstructs.
Criteria(p, chainOk) == RequiredBeforeVerdict \subseteq captured[p] /\ chainOk

\* The index is read before reconstruct() and the chain in it; no step of another
\* run removes an event from the index, so the two reads are one step.  Overlapping
\* appends may have left a chain that reconstructs or one that does not, and a later
\* one may mend it (NodeChain.tla): here reconstruct() can answer either.
Evaluate(r) ==
  /\ At(r, "evaluate")
  /\ \E chainOk \in BOOLEAN :
       verdict' = [verdict EXCEPT ![r] =
                     IF Criteria(Process(r), chainOk) THEN "verified" ELSE "rejected"]
  /\ Goto(r, "append_verdict")
  /\ UNCHANGED <<nodes, left, op, halted>>
  /\ LocalStep

VerdictEvent(v) == IF v = "verified" THEN "pot.verified=1" ELSE "pot.verified=0"

\* Mutation: the verdict is not appended when the process has one on the chain.
AppendVerdictOnce(r) ==
  \/ /\ \A v \in Verdicts : ~OnChain(VerdictEvent(v), Process(r))
     /\ Recording(r, "append_verdict", VerdictEvent(verdict[r]), "save_verdict")
  \/ /\ \E v \in Verdicts : OnChain(VerdictEvent(v), Process(r))
     /\ At(r, "append_verdict")
     /\ Abandon(r)
     /\ Goto(r, "save_verdict")
     /\ UNCHANGED <<nodes, left, verdict, halted>>
     /\ LocalStep

AppendVerdict(r) == Recording(r, "append_verdict", VerdictEvent(verdict[r]), "save_verdict")

\* repo.save(verdict): the SELECT, then an INSERT, which can fail on the primary key,
\* or an UPDATE where the verdict differs from what was loaded.
LoadVerdict(r) ==
  /\ At(r, "save_verdict")
  /\ op[r].step = "idle"
  /\ op' = [op EXCEPT ![r].step = "loaded", ![r].verdict = verdictRow[Process(r)]]
  /\ UNCHANGED <<pc, nodes, left, verdict, halted>>
  /\ LocalStep

SaveVerdict(r) ==
  LET loaded == op[r].verdict
  IN  /\ Saving(r, "save_verdict")
      /\ \/ /\ loaded = "none" /\ verdictRow[Process(r)] # "none"
            /\ Throw(r)
            /\ UNCHANGED verdictRow
         \/ /\ loaded # "none" \/ verdictRow[Process(r)] = "none"
            /\ verdictRow' = [verdictRow EXCEPT ![Process(r)] = Written(verdict[r], loaded, @)]
            /\ Goto(r, "pot_verdict")
            /\ UNCHANGED halted
      /\ UNCHANGED <<req, nodes, left, verdict, memVars, chainVars, coinVars, nodeVars, eye, faults>>

CaptureVerdict(r) ==
  Capture(r, "pot_verdict", "pot_verdict", "eye_verdict") /\ UNCHANGED left

WitnessVerdict(r) ==
  Witness(r, "eye_verdict", "pot_verdict",
          IF verdict[r] = "verified" THEN "gate" ELSE "reject")

Reject(r) == Capture(r, "reject", "final_status", "compare") /\ UNCHANGED left

-----------------------------------------------------------------------------
(* Steps 6 and 7: mint, fee accrual, burn. *)

\* Emission.mint reads the verdict row again, and throws unless it is 1.
Gate(r) ==
  /\ At(r, "gate")
  /\ \/ /\ verdictRow[Process(r)] = "verified"
        /\ Goto(r, "mint")
        /\ UNCHANGED halted
     \/ /\ verdictRow[Process(r)] # "verified"
        /\ Throw(r)
  /\ UNCHANGED <<nodes, left, verdict, op>>
  /\ LocalStep

\* The save of the ledger row in recordMint and recordBurn, with what it adds to the
\* row that was found.
SaveLedger(r, here, minted, burned, next) ==
  /\ Saving(r, here)
  /\ ledger' = [minted |-> Written(op[r].found.minted + minted, op[r].loaded.minted, ledger.minted),
                burned |-> Written(op[r].found.burned + burned, op[r].loaded.burned, ledger.burned)]
  /\ stale' = [stale EXCEPT !.ledger = @ \/ Outdated(r)]
  /\ Goto(r, next)
  /\ UNCHANGED <<req, nodes, left, verdict, halted, memVars, chainVars, verdictRow, opened,
                 pool, nodeVars, eye, faults>>

RecordMint(r) == SaveLedger(r, "mint", Amount(r), 0, "append_minted")

\* Mutation: the mint of a process is recorded only once.
AppendMintedOnce(r) ==
  \/ /\ ~OnChain("emission.minted", Process(r))
     /\ Recording(r, "append_minted", "emission.minted", "emission")
  \/ /\ OnChain("emission.minted", Process(r))
     /\ At(r, "append_minted")
     /\ Abandon(r)
     /\ Goto(r, "emission")
     /\ UNCHANGED <<nodes, left, verdict, halted>>
     /\ LocalStep

AppendMinted(r) == Recording(r, "append_minted", "emission.minted", "emission")

CaptureEmission(r) == Capture(r, "emission", "emission", "eye_mint") /\ UNCHANGED left

WitnessMint(r) == Witness(r, "eye_mint", "mint", "accrue")

Participants(r) == [i \in 1..Len(nodes[r]) |-> <<Process(r), nodes[r][i]>>]

\* Mutation: the fee replaces the pool.
AccrueAssigns(r) ==
  LET e == req[r].epoch
  IN  /\ Saving(r, "accrue")
      /\ ~Inserted(r)
      /\ pool' = [pool EXCEPT ![e] = computeFee(Amount(r))]
      /\ opened' = opened \cup {e}
      /\ stale' = [stale EXCEPT !.epochs = IF Outdated(r) THEN @ \cup {e} ELSE @]
      /\ participation' = [participation EXCEPT ![e] = @ \o Participants(r)]
      /\ Goto(r, "burn")
      /\ UNCHANGED <<req, nodes, left, verdict, halted, captured, chainVars, verdictRow,
                     ledger, nodeVars, eye, faults>>

\* Once the row is saved, the participants are pushed without another await.
Accrue(r) ==
  LET e == req[r].epoch
  IN  /\ Saving(r, "accrue")
      /\ \/ /\ Inserted(r)
            /\ Throw(r)
            /\ UNCHANGED <<participation, opened, pool, stale>>
         \/ /\ ~Inserted(r)
            /\ pool' = [pool EXCEPT ![e] =
                           IF op[r].loaded.exists
                           THEN Written(op[r].found.fees + computeFee(Amount(r)), op[r].loaded.fees, @)
                           ELSE op[r].found.fees + computeFee(Amount(r))]
            /\ opened' = opened \cup {e}
            /\ stale' = [stale EXCEPT !.epochs = IF Outdated(r) THEN @ \cup {e} ELSE @]
            /\ participation' = [participation EXCEPT ![e] = @ \o Participants(r)]
            /\ Goto(r, "burn")
            /\ UNCHANGED halted
      /\ UNCHANGED <<req, nodes, left, verdict, captured, chainVars, verdictRow, ledger,
                     nodeVars, eye, faults>>

\* Mutation: the fee is not burned.
RecordBurnNet(r) ==
  SaveLedger(r, "burn", 0, Amount(r) - computeFee(Amount(r)), "append_burned")

\* Mutation: a process is burned only once.
RecordBurnOnce(r) ==
  SaveLedger(r, "burn", 0,
             IF OnChain("emission.burned", Process(r)) THEN 0 ELSE Amount(r), "append_burned")

RecordBurn(r) == SaveLedger(r, "burn", 0, Amount(r), "append_burned")

AppendBurned(r) == Recording(r, "append_burned", "emission.burned", "eye_burn")

WitnessBurn(r) == Witness(r, "eye_burn", "burn", "final")

-----------------------------------------------------------------------------
(* Step 9: final record and supply comparison. *)

FinalStatus(r) == Capture(r, "final", "final_status", "eye_final") /\ UNCHANGED left

WitnessFinal(r) == Witness(r, "eye_final", "final_status", "compare")

\* Mutation: only a supply below what is retained is an anomaly.
CompareSupplyLax(r) ==
  /\ At(r, "compare")
  /\ Goto(r, IF ledger.minted >= ledger.burned THEN "done" ELSE "drift")
  /\ UNCHANGED <<nodes, left, verdict, op, halted>>
  /\ LocalStep

\* supplyView() and the comparison: totalSupply = retained exactly when nothing
\* is minted and unburned.
CompareSupply(r) ==
  /\ At(r, "compare")
  /\ Goto(r, IF ledger.minted = ledger.burned THEN "done" ELSE "drift")
  /\ UNCHANGED <<nodes, left, verdict, op, halted>>
  /\ LocalStep

\* The anomaly is logged later, when the ledger may have settled again.
WitnessDrift(r) == Witness(r, "drift", "supply_drift", "done")

-----------------------------------------------------------------------------
(* What can happen to runs from outside. *)

\* An await of the run rejects: the exception leaves the run where it is.
Fail(r) ==
  /\ Running(r)
  /\ faults > 0
  /\ faults' = faults - 1
  /\ Throw(r)
  /\ Abandon(r)
  /\ UNCHANGED <<req, nodes, left, verdict, memVars, chainVars, verdictRow, coinVars,
                 nodeVars, eye>>

\* The server restarts: running requests die, and the in-memory maps are gone.
Restart ==
  /\ faults > 0
  /\ faults' = faults - 1
  /\ halted' = halted \cup {r \in Runs : Running(r)}
  /\ op' = [r \in Runs |-> NoOp]
  /\ captured' = [p \in Processes |-> {}]
  /\ participation' = [e \in Epochs |-> << >>]
  /\ UNCHANGED <<pc, req, nodes, left, verdict, chainVars, verdictRow, coinVars, nodeVars,
                 eye>>

\* The steps of a run after its request has arrived.
Continue(r) ==
  \/ Draft(r) \/ Conflict(r) \/ Find(r) \/ Load(r)
  \/ Initiate(r) \/ WitnessInitiation(r) \/ Admit(r) \/ RefuseInadmissible(r)
  \/ Resolve(r) \/ Register(r) \/ RecordRegistration(r)
  \/ TaskAssignment(r) \/ WitnessAssignment(r)
  \/ StageTransition(r) \/ ExecutionComplete(r) \/ RecordExecution(r)
  \/ Lookup(r) \/ Evaluate(r) \/ AppendVerdict(r) \/ LoadVerdict(r) \/ SaveVerdict(r)
  \/ CaptureVerdict(r) \/ WitnessVerdict(r) \/ Reject(r)
  \/ Gate(r) \/ RecordMint(r) \/ AppendMinted(r) \/ CaptureEmission(r) \/ WitnessMint(r)
  \/ Accrue(r) \/ RecordBurn(r) \/ AppendBurned(r) \/ WitnessBurn(r)
  \/ FinalStatus(r) \/ WitnessFinal(r) \/ CompareSupply(r) \/ WitnessDrift(r)

Next ==
  \/ \E r \in Runs : Arrive(r) \/ Continue(r) \/ Fail(r)
  \/ Restart

Spec == Init /\ [][Next]_vars

\* The event loop resumes every pending await: a started run is not starved.
FairSpec == Spec /\ \A r \in Runs : WF_vars(Continue(r))
-----------------------------------------------------------------------------
(* Where a run is with the value it creates, stopped or not. *)

Labels ==
  {"new", "initiation", "eye_initiation", "admit", "resolve", "register", "registered", "assign",
   "eye_assignment", "stage", "complete", "work", "evaluate", "append_verdict",
   "save_verdict", "pot_verdict", "eye_verdict", "reject", "gate", "mint",
   "append_minted", "emission", "eye_mint", "accrue", "burn", "append_burned", "eye_burn",
   "final", "eye_final", "compare", "drift", "done"}

\* It has minted and not burned.
MintOpen(r) == pc[r] \in {"append_minted", "emission", "eye_mint", "accrue", "burn"}

\* It has accrued its fee.
FeePaid(r) ==
  \/ pc[r] \in {"burn", "append_burned", "eye_burn", "final", "eye_final"}
  \/ pc[r] \in {"compare", "drift", "done"} /\ verdict[r] = "verified"

\* It has minted.
HasMinted(r) == MintOpen(r) \/ FeePaid(r)

\* It has burned.
HasBurned(r) == FeePaid(r) /\ pc[r] # "burn"

SumOver(S, f(_)) == SumFunctionOnSet([x \in S |-> f(x)], S)

Fee(r) == computeFee(Amount(r))

\* The runs whose snapshot of the event is among these.
RunsOf(snapshots, event) == {r \in Runs : <<event, r>> \in snapshots}

\* The same of the chain as it is now.
Holding(event) == RunsOf(appended \ replaced, event)

-----------------------------------------------------------------------------
(* Properties. *)

\* The stores, the runs and what runs hold of the stores have values of their types.
TypeOK ==
  /\ pc \in [Runs -> Labels]
  /\ req \in [Runs -> Request]
  /\ nodes \in [Runs -> Seq(Nodes)]
  /\ left \in [Runs -> Nat \ {0}]
  /\ \A r \in Runs : pc[r] \in {"register", "registered"} => left[r] <= Len(DefaultNodes)
  /\ verdict \in [Runs -> Verdicts]
  /\ op \in [Runs -> Op]
  /\ \A r \in Runs : op[r].below \subseteq appended
  /\ \A r \in Runs : op[r].step = "found" => Working(r) \/ pc[r] \in {"mint", "accrue", "burn"}
  /\ halted \subseteq Runs
  /\ captured \in [Processes -> SUBSET CaptureEvents]
  /\ participation \in [Epochs -> Seq(Processes \X Nodes)]
  /\ appended \subseteq Snapshots
  /\ replaced \subseteq appended
  /\ verdictRow \in [Processes -> Verdicts]
  /\ ledger \in [minted : Nat, burned : Nat]
  /\ opened \subseteq Epochs
  /\ pool \in [Epochs -> Nat]
  /\ roster \in Seq(Nodes)
  /\ work \in [Nodes -> Nat]
  /\ eye \in [EyeEvents -> Nat]
  /\ stale \in [ledger : BOOLEAN, epochs : SUBSET Epochs]
  /\ faults \in Nat

\* The in-memory completeness index never claims an event that was not committed to
\* the chain first (I-SR-1: capture() appends before it remembers), whichever of the
\* overlapping appends got the row, failed on it or lost it again.
CapturedWasRecorded ==
  \A p \in Processes : \A e \in captured[p] : WasRecorded(e, p)

\* A positive verdict is recorded, or in the verdict table, only for a process all of
\* whose required events have been recorded (I3, I-PoT-5).
EvidenceBeforeVerdict ==
  \A p \in Processes :
    WasRecorded("pot.verified=1", p) \/ verdictRow[p] = "verified" =>
      \A e \in RequiredBeforeVerdict : WasRecorded(e, p)

\* Whatever runs of the same process race, stop or restart, value exists only
\* behind a positive verdict that was committed to the chain first (I1, I2, P7).
ValueTraceable ==
  /\ \A r \in Runs : HasMinted(r) => WasRecorded("pot.verified=1", Process(r))
  /\ \A p \in Processes :
       WasRecorded("emission.minted", p) => WasRecorded("pot.verified=1", p)

\* A node is never credited with more executions than completions were recorded, when
\* no request names it twice: not by runs that stop between nodes, that are retried,
\* that save old copies of its row or reset it.
WorkOnRecord ==
  \A n \in Nodes : work[n] <= Cardinality(RunsOf(appended, "execution_complete"))

\* Nodes will be paid only for processes whose positive verdict was committed to the
\* chain (I-CM-1, I-CM-2).
PaidWorkConfirmed ==
  \A e \in Epochs : \A i \in DOMAIN participation[e] :
    WasRecorded("pot.verified=1", participation[e][i][1])

\* The ledger never claims more minted, or more burned, than the runs did; and unless
\* a save used an old copy of its row, the process part outstanding is exactly what
\* the runs that are between mint and burn, or stopped there, minted (I5).
Conservation ==
  /\ ledger.minted <= SumOver({r \in Runs : HasMinted(r)}, Amount)
  /\ ledger.burned <= SumOver({r \in Runs : HasBurned(r)}, Amount)
  /\ ~stale.ledger => ledger.minted = ledger.burned + SumOver({r \in Runs : MintOpen(r)}, Amount)

\* What was committed to the chain as minted is never more than was minted; and unless
\* a save of the ledger used an old copy, the ledger is ahead of it by exactly what runs
\* have minted and not yet recorded, or stopped before recording.  (Reserve's volume is
\* what the chain still holds of it.)
LedgerAheadOfChain ==
  LET recorded == SumOver(RunsOf(appended, "emission.minted"), Amount)
  IN  /\ recorded <= SumOver({r \in Runs : HasMinted(r)}, Amount)
      /\ ~stale.ledger =>
           ledger.minted = recorded + SumOver({r \in Runs : pc[r] = "append_minted"}, Amount)

\* An epoch's pool never holds a fee twice, nor one of a run that did not mint and
\* reach the accrual; and it holds them all, whatever stops a run, unless an accrual
\* saved an old copy of the epoch's row.
PoolIsFees ==
  \A e \in Epochs :
    LET fees == SumOver({r \in Runs : FeePaid(r) /\ req[r].epoch = e}, Fee)
    IN  pool[e] <= fees /\ (pool[e] = fees \/ e \in stale.epochs)

\* Unless a save of the ledger used an old copy, the Eye finds supply drift exactly
\* when some run, still going or stopped, has minted what it has not burned: an open
\* mint of any other run makes a run that is itself settled report one.
DriftStep ==
  \A r \in Runs :
    pc[r] = "compare" /\ pc'[r] # "compare" /\ ~stale.ledger =>
      (pc'[r] = "drift" <=> \E q \in Runs : MintOpen(q))

DriftIsOpenMint == [][DriftStep]_vars

\* If no run is stopped and no save of the ledger uses an old copy, every mint is
\* eventually burned and stays burned: processNet -> 0 (I5).
SupplySettles == [](halted = {} /\ ~stale.ledger) => <>[](ledger.minted = ledger.burned)

\* What the comment on PotService.verify says of its idempotence: "emission can
\* never be authorized twice off one process".
SingleEmission ==
  \A p \in Processes : Cardinality({r \in Holding("emission.minted") : Process(r) = p}) <= 1

\* What the same comment says of a stored verdict: it is "traceable to its on-chain
\* record".
VerdictTraceable ==
  \A p \in Processes : verdictRow[p] = "verified" => OnChain("pot.verified=1", p)
=============================================================================
