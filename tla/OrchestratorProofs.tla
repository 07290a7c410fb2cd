------------------------- MODULE OrchestratorProofs -------------------------
(***************************************************************************)
(* What holds of Orchestrator.tla for all runs, processes, nodes, epochs   *)
(* and requests: the types, and that value, payment and positive verdicts  *)
(* are always backed by what was committed to the chain before them,       *)
(* whichever appends overlap, fail or replace one another.                 *)
(***************************************************************************)
EXTENDS Orchestrator, TLAPS

LoopLabels == {"register", "registered"}

\* computeFee of a natural amount is a natural number.
LEMMA FeeIsNat ==
  ASSUME NEW a \in Nat
  PROVE  computeFee(a) \in Nat
BY DEF computeFee

\* The fields of a request have the types that RunProcessDto gives them.
LEMMA RequestType ==
  ASSUME TypeOK, NEW r \in Runs
  PROVE  /\ Process(r) \in Processes
         /\ req[r].amount \in Nat
         /\ req[r].epoch \in Epochs
         /\ req[r].nodeIds \in Seq(Nodes)
BY DEF TypeOK, Process, Request

\* A run that holds nothing between two awaits.
LEMMA NoOpType == NoOp \in Op /\ NoOp.step = "idle" /\ NoOp.below = {} /\ ~NoOp.taken
BY DEF NoOp, Op, NoRow, Row, Verdicts

-----------------------------------------------------------------------------
(* Type correctness, by kind of step. *)

\* Only run r takes a step.
OnlyRun(r) ==
  \A q \in Runs \ {r} :
    /\ pc'[q] = pc[q] /\ nodes'[q] = nodes[q] /\ left'[q] = left[q] /\ verdict'[q] = verdict[q]
    /\ q \in halted' <=> q \in halted
    /\ op'[q].step = op[q].step

\* Dropping an operation leaves those of the other runs where they are.
LEMMA AbandonType ==
  ASSUME TypeOK, NEW r \in Runs, Abandon(r)
  PROVE  /\ op' \in [Runs -> Op] /\ op'[r] = NoOp
         /\ \A q \in Runs : op'[q].below \subseteq op[q].below
         /\ \A q \in Runs \ {r} :
              /\ op'[q].step = op[q].step /\ op'[q].found = op[q].found
              /\ op'[q].loaded = op[q].loaded /\ op'[q].verdict = op[q].verdict
<1>1. ASSUME NEW q \in Runs PROVE op[q] \in Op
  BY DEF TypeOK
<1>2. ASSUME NEW q \in Runs
      PROVE  /\ op'[q] \in Op
             /\ op'[q].below \subseteq op[q].below
             /\ q # r => /\ op'[q].step = op[q].step /\ op'[q].found = op[q].found
                         /\ op'[q].loaded = op[q].loaded /\ op'[q].verdict = op[q].verdict
  <2>1. CASE q = r
    BY <1>1, <2>1, NoOpType DEF Abandon
  <2>2. CASE q # r
    <3>1. op'[q] = [op[q] EXCEPT !.rivals = @ \ {r}]
      BY <2>2 DEF Abandon
    <3> QED BY <1>1, <3>1 DEF Op
  <2> QED BY <2>1, <2>2
<1>3. op' \in [Runs -> Op] /\ op'[r] = NoOp
  BY <1>2 DEF Abandon
<1> QED BY <1>2, <1>3

\* A commit adds one snapshot, and ends the operation of the run that makes it.
LEMMA CommitType ==
  ASSUME TypeOK, NEW r \in Runs, NEW snapshot \in Snapshots, Commit(r, snapshot)
  PROVE  /\ op' \in [Runs -> Op] /\ op'[r] = NoOp
         /\ \A q \in Runs : op'[q].below \subseteq appended'
         /\ \A q \in Runs \ {r} :
              /\ op'[q].step = op[q].step /\ op'[q].found = op[q].found
              /\ op'[q].loaded = op[q].loaded /\ op'[q].verdict = op[q].verdict
         /\ appended' = appended \cup {snapshot}
         /\ appended' \subseteq Snapshots
         /\ replaced' \subseteq appended'
<1>1. /\ appended' = appended \cup {snapshot} /\ replaced' = replaced \cup op[r].below
      /\ appended \subseteq Snapshots /\ replaced \subseteq appended
      /\ \A q \in Runs : op[q] \in Op /\ op[q].below \subseteq appended
  BY DEF Commit, TypeOK
<1>2. Followed(snapshot) \subseteq {snapshot}
  BY DEF Followed
<1>3. ASSUME NEW q \in Runs
      PROVE  /\ op'[q] \in Op
             /\ op'[q].below \subseteq appended'
             /\ q # r => /\ op'[q].step = op[q].step /\ op'[q].found = op[q].found
                         /\ op'[q].loaded = op[q].loaded /\ op'[q].verdict = op[q].verdict
             /\ q = r => op'[q] = NoOp
  <2>1. CASE q = r
    BY <2>1, NoOpType DEF Commit
  <2>2. CASE q # r /\ Share(q, r)
    <3>1. op'[q] = [op[q] EXCEPT !.rivals = @ \ {r}, !.taken = TRUE, !.below = Followed(snapshot)]
      BY <2>2 DEF Commit
    <3>2. Followed(snapshot) \subseteq Snapshots
      BY <1>2
    <3>3. op'[q] = [step |-> op[q].step, rivals |-> op[q].rivals \ {r}, taken |-> TRUE,
                    below |-> Followed(snapshot), found |-> op[q].found,
                    loaded |-> op[q].loaded, verdict |-> op[q].verdict]
      BY <1>1, <3>1 DEF Op
    <3> QED BY <1>1, <1>2, <2>2, <3>2, <3>3 DEF Op
  <2>3. CASE q # r /\ ~Share(q, r)
    <3>1. op'[q] = [op[q] EXCEPT !.rivals = @ \ {r}]
      BY <2>3 DEF Commit
    <3> QED BY <1>1, <2>3, <3>1 DEF Op
  <2> QED BY <2>1, <2>2, <2>3
<1>4. op' \in [Runs -> Op]
  BY <1>3 DEF Commit
<1> QED BY <1>1, <1>3, <1>4

\* What a run is finding, loading or writing has the type of a row.
LEMMA CurrentType ==
  ASSUME TypeOK, NEW r \in Runs,
         pc[r] \in {"register", "mint", "accrue", "burn"} \/ Working(r)
  PROVE  Current(r) \in Row
<1>1. ledger.minted \in Nat /\ ledger.burned \in Nat
  BY DEF TypeOK
<1>2. CASE pc[r] \in {"mint", "burn"}
  <2>1. Current(r) = [exists |-> TRUE, minted |-> ledger.minted, burned |-> ledger.burned,
                      fees |-> 0, total |-> 0]
    BY <1>2 DEF Current, NoRow
  <2> QED BY <1>1, <2>1 DEF Row
<1>3. CASE pc[r] = "accrue"
  <2>1. Current(r) = [exists |-> (req[r].epoch \in opened), minted |-> 0, burned |-> 0,
                      fees |-> pool[req[r].epoch], total |-> 0]
    BY <1>3 DEF Current, NoRow
  <2>2. pool[req[r].epoch] \in Nat
    BY RequestType DEF TypeOK
  <2> QED BY <2>1, <2>2 DEF Row
<1>4. CASE pc[r] = "register" \/ Working(r)
  <2>1. Node(r) \in Nodes
    <3>1. CASE pc[r] = "register"
      <4>1. left[r] \in Nat \ {0} /\ left[r] <= Len(DefaultNodes)
        BY <3>1 DEF TypeOK
      <4> QED BY <3>1, <4>1, RosterAssumption DEF Node
    <3>2. CASE Working(r)
      <4>1. nodes[r] \in Seq(Nodes) /\ left[r] \in Nat \ {0} /\ left[r] <= Len(nodes[r]) /\ pc[r] = "work"
        BY <3>2 DEF TypeOK, Working, At
      <4> QED BY <4>1 DEF Node
    <3> QED BY <1>4, <3>1, <3>2
  <2>2. Current(r) = [exists |-> Registered(Node(r)), minted |-> 0, burned |-> 0, fees |-> 0,
                      total |-> work[Node(r)]]
    BY <1>4 DEF Current, NoRow, Working, At
  <2>3. work[Node(r)] \in Nat /\ Registered(Node(r)) \in BOOLEAN
    BY <2>1 DEF TypeOK, Registered
  <2> QED BY <2>2, <2>3 DEF Row
<1> QED BY <1>2, <1>3, <1>4

\* The initial state is well typed.
LEMMA InitType == Init => TypeOK
<1> SUFFICES ASSUME Init PROVE TypeOK
  OBVIOUS
<1>1. req \in [Runs -> Request] /\ faults \in Nat
  BY ScenarioAssumption DEF Init
<1>2. << >> \in Seq(Nodes) /\ << >> \in Seq(Processes \X Nodes) /\ 1 \in Nat \ {0}
  OBVIOUS
<1>3. op \in [Runs -> Op] /\ \A r \in Runs : op[r].below = {} /\ op[r].step = "idle"
  BY NoOpType DEF Init
<1> QED BY <1>1, <1>2, <1>3 DEF Init, TypeOK, Labels, Verdicts

\* What is shared between the runs has values of its types.
StoresTyped ==
  /\ captured \in [Processes -> SUBSET CaptureEvents]
  /\ participation \in [Epochs -> Seq(Processes \X Nodes)]
  /\ appended \subseteq Snapshots
  /\ replaced \subseteq appended
  /\ verdictRow \in [Processes -> Verdicts]
  /\ ledger \in [minted : Nat, burned : Nat]
  /\ opened \subseteq Epochs
  /\ pool \in [Epochs -> Nat]
  /\ roster \in Seq(Nodes)
  /\ work \in [Nodes -> Nat]
  /\ eye \in [EyeEvents -> Nat]
  /\ stale \in [ledger : BOOLEAN, epochs : SUBSET Epochs]
  /\ faults \in Nat

FindLabels == {"mint", "accrue", "burn"}

\* A step of one run preserves the types if it does for that run and for the stores.
LEMMA RunStepType ==
  ASSUME TypeOK, NEW r \in Runs, OnlyRun(r), UNCHANGED req,
         pc' \in [Runs -> Labels], nodes' \in [Runs -> Seq(Nodes)],
         left' \in [Runs -> Nat \ {0}], verdict' \in [Runs -> Verdicts],
         op' \in [Runs -> Op], halted' \subseteq Runs,
         pc'[r] \in LoopLabels => left'[r] <= Len(DefaultNodes),
         op'[r].step = "found" => Working(r)' \/ pc'[r] \in FindLabels,
         \A q \in Runs : op'[q].below \subseteq appended',
         StoresTyped'
  PROVE  TypeOK'
<1>1. ASSUME NEW q \in Runs
      PROVE  /\ pc'[q] \in LoopLabels => left'[q] <= Len(DefaultNodes)
             /\ op'[q].step = "found" => Working(q)' \/ pc'[q] \in FindLabels
  <2>1. CASE q = r
    BY <2>1
  <2>2. CASE q # r
    BY <2>2 DEF OnlyRun, TypeOK, LoopLabels, FindLabels, Working, At
  <2> QED BY <2>1, <2>2
<1> QED BY <1>1 DEF TypeOK, StoresTyped, LoopLabels, FindLabels

\* A run holds a found row only where it is finding one.
LEMMA NotFound ==
  ASSUME TypeOK, NEW r \in Runs, pc[r] \notin FindLabels, ~Working(r)
  PROVE  op[r].step # "found"
BY DEF TypeOK, FindLabels

\* A move outside the registration loop that leaves the operation alone.
LEMMA MoveType ==
  ASSUME TypeOK, NEW r \in Runs, NEW next \in Labels \ LoopLabels, Goto(r, next),
         UNCHANGED <<req, nodes, left, op, halted>>,
         verdict' \in [Runs -> Verdicts], \A q \in Runs \ {r} : verdict'[q] = verdict[q],
         pc[r] \notin FindLabels, ~Working(r), appended \subseteq appended',
         StoresTyped'
  PROVE  TypeOK'
<1>1. OnlyRun(r) /\ pc' \in [Runs -> Labels] /\ pc'[r] = next
  BY DEF OnlyRun, TypeOK, Goto
<1>2. op'[r].step # "found"
  BY NotFound
<1>3. \A q \in Runs : op'[q].below \subseteq appended'
  BY DEF TypeOK
<1>4. /\ nodes' \in [Runs -> Seq(Nodes)] /\ left' \in [Runs -> Nat \ {0}]
      /\ op' \in [Runs -> Op] /\ halted' \subseteq Runs
  BY DEF TypeOK
<1> QED BY <1>1, <1>2, <1>3, <1>4, RunStepType

\* A run stops and drops its operation.
LEMMA StopType ==
  ASSUME TypeOK, NEW r \in Runs, Throw(r), op' \in [Runs -> Op], op'[r].step # "found",
         \A q \in Runs \ {r} : op'[q].step = op[q].step,
         \A q \in Runs : op'[q].below \subseteq op[q].below,
         UNCHANGED <<req, nodes, left, verdict, appended>>, StoresTyped'
  PROVE  TypeOK'
<1>1. OnlyRun(r) /\ halted' \subseteq Runs
  BY DEF OnlyRun, Throw, TypeOK
<1>2. \A q \in Runs : op'[q].below \subseteq appended'
  BY DEF TypeOK
<1>3. pc'[r] \in LoopLabels => left'[r] <= Len(DefaultNodes)
  BY DEF TypeOK, Throw, LoopLabels
<1>4. /\ nodes' \in [Runs -> Seq(Nodes)] /\ left' \in [Runs -> Nat \ {0}]
      /\ pc' \in [Runs -> Labels] /\ verdict' \in [Runs -> Verdicts]
  BY DEF TypeOK, Throw
<1> QED BY <1>1, <1>2, <1>3, <1>4, RunStepType

\* The stores have their types before the step.
LEMMA StoresBefore == TypeOK => StoresTyped
BY DEF TypeOK, StoresTyped

\* A step of the run alone leaves the stores as they are.
LEMMA LocalStores ==
  ASSUME TypeOK, LocalStep
  PROVE  StoresTyped' /\ UNCHANGED <<req, appended>>
BY DEF TypeOK, StoresTyped, LocalStep, memVars, chainVars, coinVars, nodeVars

\* Committing a snapshot of the run, wherever it goes next.
LEMMA CommitStepType ==
  ASSUME TypeOK, NEW r \in Runs, NEW snapshot \in Snapshots, Commit(r, snapshot),
         NEW next \in Labels, Goto(r, next), UNCHANGED <<req, nodes, verdict, halted>>,
         NEW i \in Nat \ {0}, left' = [left EXCEPT ![r] = i],
         next \in LoopLabels => i <= Len(DefaultNodes),
         captured' \in [Processes -> SUBSET CaptureEvents],
         UNCHANGED <<participation, verdictRow, coinVars, nodeVars, eye, faults>>
  PROVE  TypeOK'
<1>1. /\ op' \in [Runs -> Op] /\ op'[r] = NoOp
      /\ \A q \in Runs : op'[q].below \subseteq appended'
      /\ \A q \in Runs \ {r} : op'[q].step = op[q].step
      /\ appended' \subseteq Snapshots /\ replaced' \subseteq appended'
  BY CommitType
<1>2. /\ OnlyRun(r)
      /\ pc' \in [Runs -> Labels] /\ pc'[r] = next
      /\ left' \in [Runs -> Nat \ {0}] /\ left'[r] = i
      /\ nodes' \in [Runs -> Seq(Nodes)] /\ verdict' \in [Runs -> Verdicts] /\ halted' \subseteq Runs
  BY <1>1 DEF OnlyRun, Goto, TypeOK
<1>3. StoresTyped'
  BY <1>1 DEF StoresTyped, TypeOK, coinVars, nodeVars
<1>4. op'[r].step # "found"
  BY <1>1, NoOpType
<1> QED BY <1>1, <1>2, <1>3, <1>4, RunStepType

\* The snapshots of a run's process events.
LEMMA EventSnapshot ==
  ASSUME NEW r \in Runs, NEW e \in ProcessEvents
  PROVE  <<e, r>> \in Snapshots
BY DEF Snapshots

\* The steps that only capture an event.
CaptureStep(r) ==
  \/ Initiate(r) \/ TaskAssignment(r) \/ StageTransition(r) \/ ExecutionComplete(r)
  \/ CaptureVerdict(r) \/ Reject(r) \/ CaptureEmission(r) \/ FinalStatus(r)

\* The steps that only append an event.
AppendStep(r) == AppendVerdict(r) \/ AppendMinted(r) \/ AppendBurned(r)

\* The steps that only log an observation.
WitnessStep(r) ==
  \/ WitnessInitiation(r) \/ RefuseInadmissible(r) \/ WitnessAssignment(r)
  \/ WitnessVerdict(r) \/ WitnessMint(r) \/ WitnessBurn(r) \/ WitnessFinal(r)
  \/ WitnessDrift(r)

\* Every step that captures an event preserves the types.
LEMMA CaptureStepType ==
  ASSUME TypeOK, NEW r \in Runs, CaptureStep(r)
  PROVE  TypeOK'
<1>1. PICK here \in Labels, event \in CaptureEvents, next \in Labels \ LoopLabels :
        Capture(r, here, event, next) /\ (left' = left \/ left' = [left EXCEPT ![r] = 1])
  BY DEF CaptureStep, Initiate, TaskAssignment, StageTransition, ExecutionComplete,
         CaptureVerdict, Reject, CaptureEmission, FinalStatus,
         Labels, LoopLabels, CaptureEvents, RequiredBeforeVerdict
<1>2. /\ Commit(r, <<event, r>>) /\ Goto(r, next)
      /\ captured' = [captured EXCEPT ![Process(r)] = @ \cup {event}]
      /\ UNCHANGED <<req, nodes, verdict, halted, participation, verdictRow, coinVars, nodeVars,
                     eye, faults>>
  BY <1>1 DEF Capture, Remember
<1>3. <<event, r>> \in Snapshots
  BY EventSnapshot DEF ProcessEvents
<1>4. captured' \in [Processes -> SUBSET CaptureEvents]
  BY <1>2, RequestType DEF TypeOK
<1>5. PICK i \in Nat \ {0} : left' = [left EXCEPT ![r] = i]
  BY <1>1 DEF TypeOK
<1> QED BY <1>2, <1>3, <1>4, <1>5, CommitStepType

\* Every step that appends an event preserves the types.
LEMMA AppendStepType ==
  ASSUME TypeOK, NEW r \in Runs, AppendStep(r)
  PROVE  TypeOK'
<1>0. VerdictEvent(verdict[r]) \in ProcessEvents
  BY DEF VerdictEvent, ProcessEvents
<1>1. PICK here \in Labels, event \in ProcessEvents, next \in Labels \ LoopLabels :
        Recording(r, here, event, next)
  BY <1>0 DEF AppendStep, AppendVerdict, AppendMinted, AppendBurned, ProcessEvents, Labels, LoopLabels
<1>2. /\ Commit(r, <<event, r>>) /\ Goto(r, next)
      /\ UNCHANGED <<req, nodes, left, verdict, halted, captured, participation, verdictRow,
                     coinVars, nodeVars, eye, faults>>
  BY <1>1 DEF Recording, memVars
<1>3. captured' \in [Processes -> SUBSET CaptureEvents]
  BY <1>2 DEF TypeOK
<1>4. left[r] \in Nat \ {0} /\ left' = [left EXCEPT ![r] = left[r]]
  BY <1>2 DEF TypeOK
<1> QED BY <1>2, <1>3, <1>4, EventSnapshot, CommitStepType

\* Every step that logs an observation preserves the types.
LEMMA WitnessStepType ==
  ASSUME TypeOK, NEW r \in Runs, WitnessStep(r)
  PROVE  TypeOK'
<1>1. PICK here \in Labels \ (FindLabels \cup {"work"}), event \in EyeEvents,
           next \in Labels \ LoopLabels : Witness(r, here, event, next)
  BY DEF WitnessStep, WitnessInitiation, RefuseInadmissible, WitnessAssignment, WitnessVerdict,
         WitnessMint, WitnessBurn, WitnessFinal, WitnessDrift, Labels, LoopLabels, EyeEvents,
         FindLabels
<1>2. /\ pc[r] = here /\ Goto(r, next) /\ eye' = [eye EXCEPT ![event] = @ + 1]
      /\ UNCHANGED <<req, nodes, left, verdict, op, halted, captured, participation, appended,
                     replaced, verdictRow, ledger, opened, pool, stale, roster, work, faults>>
  BY <1>1 DEF Witness, At, memVars, chainVars, coinVars, nodeVars
<1>3. StoresTyped' /\ verdict' \in [Runs -> Verdicts]
  BY <1>1, <1>2 DEF TypeOK, StoresTyped
<1>4. pc[r] \notin FindLabels /\ ~Working(r)
  BY <1>1, <1>2 DEF Working, At
<1> QED BY <1>1, <1>2, <1>3, <1>4, MoveType

\* Choosing the assigned nodes preserves the types.
LEMMA ResolveType ==
  ASSUME TypeOK, NEW r \in Runs, Resolve(r)
  PROVE  TypeOK'
<1> USE RosterAssumption DEF LoopLabels
<1>1. Len(DefaultNodes) \in Nat /\ 1 <= Len(DefaultNodes) /\ 1 \in Nat \ {0}
  OBVIOUS
<1>2. /\ pc[r] = "resolve" /\ r \notin halted /\ UNCHANGED <<verdict, op, halted>> /\ LocalStep
      /\ \/ /\ nodes' = [nodes EXCEPT ![r] = req[r].nodeIds]
            /\ pc' = [pc EXCEPT ![r] = "assign"] /\ left' = left
         \/ /\ nodes' = [nodes EXCEPT ![r] = roster]
            /\ pc' = [pc EXCEPT ![r] = "assign"] /\ left' = left
         \/ /\ left' = [left EXCEPT ![r] = 1]
            /\ pc' = [pc EXCEPT ![r] = "register"] /\ nodes' = nodes
  BY DEF Resolve, At, Goto
<1>3. pc' \in [Runs -> Labels] /\ left' \in [Runs -> Nat \ {0}] /\ nodes' \in [Runs -> Seq(Nodes)]
  <2>1. pc' \in [Runs -> Labels]
    <3>1. pc \in [Runs -> Labels] /\ "assign" \in Labels /\ "register" \in Labels
      BY DEF TypeOK, Labels
    <3> QED BY <1>2, <3>1
  <2>2. left' \in [Runs -> Nat \ {0}]
    BY <1>1, <1>2 DEF TypeOK
  <2>3. roster \in Seq(Nodes) /\ req[r].nodeIds \in Seq(Nodes) /\ nodes \in [Runs -> Seq(Nodes)]
    BY RequestType DEF TypeOK
  <2>4. nodes' \in [Runs -> Seq(Nodes)]
    BY <1>2, <2>3
  <2> QED BY <2>1, <2>2, <2>4
<1>4. OnlyRun(r)
  BY <1>2 DEF OnlyRun, TypeOK
<1>5. pc'[r] \in LoopLabels => left'[r] <= Len(DefaultNodes)
  BY <1>1, <1>2 DEF TypeOK
<1>6. op'[r].step # "found"
  BY <1>2, NotFound DEF FindLabels, Working, At
<1>7. /\ StoresTyped' /\ verdict' \in [Runs -> Verdicts] /\ op' \in [Runs -> Op]
      /\ halted' \subseteq Runs /\ \A q \in Runs : op'[q].below \subseteq appended'
      /\ UNCHANGED req
  BY <1>2, LocalStores DEF TypeOK
<1> QED BY <1>3, <1>4, <1>5, <1>6, <1>7, RunStepType

\* Recording a registration preserves the types: the loop stays in the default roster.
LEMMA RecordRegistrationType ==
  ASSUME TypeOK, NEW r \in Runs, RecordRegistration(r)
  PROVE  TypeOK'
<1>1. left[r] \in Nat \ {0} /\ left[r] <= Len(DefaultNodes) /\ Len(DefaultNodes) \in Nat
  <2>1. pc[r] = "registered"
    BY DEF RecordRegistration, At
  <2> QED BY <2>1, RosterAssumption DEF TypeOK
<1> DEFINE snapshot == <<"node.registered", <<r, DefaultNodes[left[r]]>>>>
<1>2. snapshot \in Snapshots
  BY <1>1, RosterAssumption DEF Snapshots
<1>3. /\ Commit(r, snapshot)
      /\ UNCHANGED <<req, nodes, verdict, halted, captured, participation, verdictRow, coinVars,
                     nodeVars, eye, faults>>
  BY DEF RecordRegistration, memVars
<1>4. captured' \in [Processes -> SUBSET CaptureEvents]
  BY <1>3 DEF TypeOK
<1> HIDE DEF snapshot
<1>5. CASE left[r] < Len(DefaultNodes)
  <2>1. left' = [left EXCEPT ![r] = left[r] + 1] /\ Goto(r, "register")
    BY <1>1, <1>5 DEF RecordRegistration
  <2>2. left[r] + 1 \in Nat \ {0} /\ left[r] + 1 <= Len(DefaultNodes) /\ "register" \in Labels
    BY <1>1, <1>5 DEF Labels
  <2> QED BY <1>2, <1>3, <1>4, <2>1, <2>2, CommitStepType
<1>6. CASE left[r] = Len(DefaultNodes)
  <2>1. left' = left /\ Goto(r, "resolve")
    BY <1>1, <1>6 DEF RecordRegistration
  <2>2. left' = [left EXCEPT ![r] = left[r]] /\ "resolve" \in Labels /\ "resolve" \notin LoopLabels
    BY <2>1 DEF TypeOK, Labels, LoopLabels
  <2> QED BY <1>1, <1>2, <1>3, <1>4, <2>1, <2>2, CommitStepType
<1> QED BY <1>1, <1>5, <1>6

\* The steps that decide something for the run alone.
DecisionStep(r) ==
  Arrive(r) \/ Admit(r) \/ Lookup(r) \/ Evaluate(r) \/ Gate(r) \/ CompareSupply(r)

\* A decision preserves the types.
LEMMA DecisionType ==
  ASSUME TypeOK, NEW r \in Runs, DecisionStep(r)
  PROVE  TypeOK'
<1>1. LocalStep /\ UNCHANGED <<nodes, left, op>>
  BY DEF DecisionStep, Arrive, Admit, Lookup, Evaluate, Gate, CompareSupply
<1>2. StoresTyped' /\ UNCHANGED <<req, appended>>
  BY <1>1, LocalStores
<1>3. verdict' \in [Runs -> Verdicts] /\ \A q \in Runs \ {r} : verdict'[q] = verdict[q]
  BY RequestType DEF TypeOK, DecisionStep, Arrive, Admit, Lookup, Evaluate, Gate, CompareSupply,
                     Verdicts
<1>4. pc[r] \notin FindLabels /\ ~Working(r)
  BY DEF DecisionStep, Arrive, Admit, Lookup, Evaluate, Gate, CompareSupply, At, FindLabels, Working,
         TypeOK
<1>5. \/ \E next \in Labels \ LoopLabels : Goto(r, next) /\ UNCHANGED halted
      \/ Throw(r) /\ UNCHANGED verdict
  BY DEF DecisionStep, Arrive, Admit, Lookup, Evaluate, Gate, CompareSupply, Labels, LoopLabels
<1>6. CASE \E next \in Labels \ LoopLabels : Goto(r, next) /\ UNCHANGED halted
  BY <1>1, <1>2, <1>3, <1>4, <1>6, MoveType
<1>7. CASE Throw(r) /\ UNCHANGED verdict
  <2>1. op' \in [Runs -> Op] /\ op'[r].step # "found"
    BY <1>1, <1>4, NotFound DEF TypeOK
  <2> QED BY <1>1, <1>2, <1>7, <2>1, StopType
<1> QED BY <1>5, <1>6, <1>7

\* A run reads what it needs for an append or a save.
ReadStep(r) == Draft(r) \/ Find(r) \/ Load(r) \/ LoadVerdict(r)

\* What a read leaves behind, unless it finds no node: its own operation, one await further.
LEMMA ReadOp ==
  ASSUME TypeOK, NEW r \in Runs, ReadStep(r)
  PROVE  \/ Throw(r) /\ UNCHANGED op /\ op[r].step = "idle"
         \/ /\ UNCHANGED <<pc, halted>>
            /\ op' \in [Runs -> Op]
            /\ \A q \in Runs \ {r} : op'[q] = op[q]
            /\ op'[r].below = op[r].below
            /\ op'[r].step = "found" => Working(r) \/ pc[r] \in FindLabels
<1>1. op \in [Runs -> Op] /\ op[r] \in Op
  BY DEF TypeOK
<1>2. CASE Draft(r)
  <2>1. op' = [op EXCEPT ![r] = [op[r] EXCEPT !.step = "drafted", !.rivals = Drafting]]
    BY <1>1, <1>2 DEF Draft
  <2>2. Drafting \subseteq Runs
    BY DEF Drafting
  <2>3. /\ [op[r] EXCEPT !.step = "drafted", !.rivals = Drafting] \in Op
        /\ [op[r] EXCEPT !.step = "drafted", !.rivals = Drafting].step = "drafted"
        /\ [op[r] EXCEPT !.step = "drafted", !.rivals = Drafting].below = op[r].below
    BY <1>1, <2>2 DEF Op
  <2> QED BY <1>1, <1>2, <2>1, <2>3 DEF Draft
<1>3. CASE Find(r) /\ ~Throw(r)
  <2>1. /\ op' = [op EXCEPT ![r] = [op[r] EXCEPT !.step = "found", !.found = Current(r)]]
        /\ UNCHANGED <<pc, halted>>
        /\ pc[r] \in FindLabels \/ Working(r)
    BY <1>1, <1>3 DEF Find, FindLabels, At
  <2>2. Current(r) \in Row
    BY <2>1, CurrentType DEF FindLabels
  <2>3. /\ [op[r] EXCEPT !.step = "found", !.found = Current(r)] \in Op
        /\ [op[r] EXCEPT !.step = "found", !.found = Current(r)].below = op[r].below
    BY <1>1, <2>2 DEF Op
  <2> QED BY <1>1, <2>1, <2>3
<1>4. CASE Find(r) /\ Throw(r)
  BY <1>4 DEF Find, Throw, At, Working
<1>5. CASE Load(r)
  <2>1. op' = [op EXCEPT ![r] = [op[r] EXCEPT !.step = "loaded", !.loaded = Current(r)]]
    BY <1>1, <1>5 DEF Load
  <2>2. Current(r) \in Row
    <3>1. pc[r] \in {"register", "mint", "accrue", "burn"} \/ Working(r)
      BY <1>5 DEF Load, At, TypeOK
    <3> QED BY <3>1, CurrentType
  <2>3. /\ [op[r] EXCEPT !.step = "loaded", !.loaded = Current(r)] \in Op
        /\ [op[r] EXCEPT !.step = "loaded", !.loaded = Current(r)].step = "loaded"
        /\ [op[r] EXCEPT !.step = "loaded", !.loaded = Current(r)].below = op[r].below
    BY <1>1, <2>2 DEF Op
  <2> QED BY <1>1, <1>5, <2>1, <2>3 DEF Load
<1>6. CASE LoadVerdict(r)
  <2>1. op' = [op EXCEPT ![r] = [op[r] EXCEPT !.step = "loaded", !.verdict = verdictRow[Process(r)]]]
    BY <1>1, <1>6 DEF LoadVerdict
  <2>2. verdictRow[Process(r)] \in Verdicts
    BY RequestType DEF TypeOK
  <2>3. /\ [op[r] EXCEPT !.step = "loaded", !.verdict = verdictRow[Process(r)]] \in Op
        /\ [op[r] EXCEPT !.step = "loaded", !.verdict = verdictRow[Process(r)]].step = "loaded"
        /\ [op[r] EXCEPT !.step = "loaded", !.verdict = verdictRow[Process(r)]].below = op[r].below
    BY <1>1, <2>2 DEF Op
  <2> QED BY <1>1, <1>6, <2>1, <2>3 DEF LoadVerdict
<1> QED BY <1>2, <1>3, <1>4, <1>5, <1>6 DEF ReadStep

\* Reading preserves the types.
LEMMA ReadType ==
  ASSUME TypeOK, NEW r \in Runs, ReadStep(r)
  PROVE  TypeOK'
<1>1. LocalStep /\ UNCHANGED <<nodes, left, verdict>>
  BY DEF ReadStep, Draft, Find, Load, LoadVerdict
<1>2. StoresTyped' /\ UNCHANGED <<req, appended>>
  BY <1>1, LocalStores
<1>3. CASE Throw(r) /\ UNCHANGED op /\ op[r].step = "idle"
  <2>1. op' \in [Runs -> Op] /\ op'[r].step # "found"
    BY <1>3 DEF TypeOK
  <2> QED BY <1>1, <1>2, <1>3, <2>1, StopType
<1>4. CASE /\ UNCHANGED <<pc, halted>>
           /\ op' \in [Runs -> Op]
           /\ \A q \in Runs \ {r} : op'[q] = op[q]
           /\ op'[r].below = op[r].below
           /\ op'[r].step = "found" => Working(r) \/ pc[r] \in FindLabels
  <2>1. OnlyRun(r)
    BY <1>1, <1>4 DEF OnlyRun
  <2>2. op'[r].step = "found" => Working(r)' \/ pc'[r] \in FindLabels
    BY <1>1, <1>4 DEF Working, At
  <2>3. /\ pc' \in [Runs -> Labels] /\ nodes' \in [Runs -> Seq(Nodes)]
        /\ left' \in [Runs -> Nat \ {0}] /\ verdict' \in [Runs -> Verdicts] /\ halted' \subseteq Runs
        /\ pc'[r] \in LoopLabels => left'[r] <= Len(DefaultNodes)
    BY <1>1, <1>4 DEF TypeOK, LoopLabels
  <2>4. \A q \in Runs : op'[q].below \subseteq appended'
    BY <1>2, <1>4 DEF TypeOK
  <2> QED BY <1>2, <1>4, <2>1, <2>2, <2>3, <2>4, RunStepType
<1> QED BY <1>3, <1>4, ReadOp

\* A column that is saved has the type of the values it is chosen from.
LEMMA WrittenType ==
  ASSUME NEW S, NEW entity \in S, NEW now \in S, NEW loaded
  PROVE  Written(entity, loaded, now) \in S
BY DEF Written

\* What a run holds when it saves.
LEMMA OpFields ==
  ASSUME TypeOK, NEW r \in Runs
  PROVE  /\ op[r].found.minted \in Nat /\ op[r].found.burned \in Nat
         /\ op[r].found.fees \in Nat /\ op[r].found.total \in Nat
         /\ op[r].loaded.minted \in Nat /\ op[r].loaded.burned \in Nat
         /\ op[r].loaded.fees \in Nat /\ op[r].loaded.total \in Nat
         /\ op[r].loaded.exists \in BOOLEAN /\ op[r].verdict \in Verdicts
<1>1. op[r] \in Op
  BY DEF TypeOK
<1>2. op[r].found \in Row /\ op[r].loaded \in Row /\ op[r].verdict \in Verdicts
  BY <1>1 DEF Op
<1> QED BY <1>2 DEF Row

\* The operation after a save.
LEMMA SavedOp ==
  ASSUME TypeOK, NEW r \in Runs, op' = [op EXCEPT ![r] = NoOp]
  PROVE  /\ op' \in [Runs -> Op] /\ op'[r] = NoOp /\ op'[r].step # "found"
         /\ \A q \in Runs \ {r} : op'[q] = op[q]
         /\ \A q \in Runs : op'[q].below \subseteq op[q].below
BY NoOpType DEF TypeOK

\* A run moves on from a save, or stops on it.
LEMMA SaveType ==
  ASSUME TypeOK, NEW r \in Runs, op' = [op EXCEPT ![r] = NoOp],
         NEW next \in Labels,
         \/ Throw(r)
         \/ UNCHANGED halted /\ Goto(r, next) /\ (next \in LoopLabels => pc[r] \in LoopLabels),
         UNCHANGED <<req, nodes, left, verdict, appended>>, StoresTyped'
  PROVE  TypeOK'
<1>1. CASE Throw(r)
  BY <1>1, SavedOp, StopType
<1>2. CASE UNCHANGED halted /\ Goto(r, next) /\ (next \in LoopLabels => pc[r] \in LoopLabels)
  <2>1. OnlyRun(r) /\ pc' \in [Runs -> Labels] /\ pc'[r] = next
    BY <1>2, SavedOp DEF OnlyRun, Goto, TypeOK
  <2>2. pc'[r] \in LoopLabels => left'[r] <= Len(DefaultNodes)
    BY <1>2, <2>1 DEF TypeOK, LoopLabels
  <2>3. \A q \in Runs : op'[q].below \subseteq appended'
    BY SavedOp DEF TypeOK
  <2>4. /\ nodes' \in [Runs -> Seq(Nodes)] /\ left' \in [Runs -> Nat \ {0}]
        /\ verdict' \in [Runs -> Verdicts] /\ halted' \subseteq Runs
    BY <1>2 DEF TypeOK
  <2> QED BY <2>1, <2>2, <2>3, <2>4, SavedOp, RunStepType
<1> QED BY <1>1, <1>2

\* Saving a default node preserves the types.
LEMMA RegisterType ==
  ASSUME TypeOK, NEW r \in Runs, Register(r)
  PROVE  TypeOK'
<1> DEFINE n == DefaultNodes[left[r]]
<1>1. n \in Nodes /\ pc[r] = "register"
  BY RosterAssumption DEF TypeOK, Register, Saving, At
<1>2. /\ op' = [op EXCEPT ![r] = NoOp]
      /\ UNCHANGED <<req, nodes, left, verdict, captured, participation, appended, replaced,
                     verdictRow, ledger, opened, pool, stale, eye, faults>>
      /\ \/ Throw(r) /\ UNCHANGED <<roster, work>>
         \/ /\ UNCHANGED halted /\ Goto(r, "registered")
            /\ roster' = IF Registered(n) THEN roster ELSE Append(roster, n)
            /\ work' = [work EXCEPT ![n] = Written(0, op[r].loaded.total, @)]
  BY DEF Register, Saving, memVars, chainVars, coinVars, nodeVars
<1> HIDE DEF n
<1>3. Written(0, op[r].loaded.total, work[n]) \in Nat
  BY <1>1, WrittenType DEF TypeOK
<1>4. roster' \in Seq(Nodes) /\ work' \in [Nodes -> Nat]
  <2>1. roster \in Seq(Nodes) /\ work \in [Nodes -> Nat]
    BY DEF TypeOK
  <2>2. roster' \in Seq(Nodes)
    <3>1. Append(roster, n) \in Seq(Nodes)
      BY <1>1, <2>1
    <3>2. roster' = roster \/ roster' = Append(roster, n)
      BY <1>2
    <3> QED BY <2>1, <3>1, <3>2
  <2>3. work' \in [Nodes -> Nat]
    BY <1>1, <1>2, <1>3, <2>1
  <2> QED BY <2>2, <2>3
<1>5. StoresTyped'
  BY <1>2, <1>4 DEF TypeOK, StoresTyped
<1>6. "registered" \in Labels /\ pc[r] \in LoopLabels
  BY <1>1 DEF Labels, LoopLabels
<1> QED BY <1>2, <1>5, <1>6, SaveType

\* Counting a node's work preserves the types.
LEMMA RecordExecutionType ==
  ASSUME TypeOK, NEW r \in Runs, RecordExecution(r)
  PROVE  TypeOK'
<1> DEFINE n == nodes[r][left[r]]
<1>1. /\ n \in Nodes /\ pc[r] = "work" /\ left[r] \in Nat \ {0}
  <2>1. nodes[r] \in Seq(Nodes) /\ left[r] \in Nat \ {0} /\ left[r] <= Len(nodes[r]) /\ pc[r] = "work"
    BY DEF TypeOK, RecordExecution, Working, At
  <2> QED BY <2>1
<1>2. /\ op' = [op EXCEPT ![r] = NoOp]
      /\ work' = [work EXCEPT ![n] = Written(op[r].found.total + 1, op[r].loaded.total, @)]
      /\ left' = [left EXCEPT ![r] = left[r] + 1]
      /\ UNCHANGED <<pc, halted, req, nodes, verdict, captured, participation, appended, replaced,
                     verdictRow, ledger, opened, pool, stale, roster, eye, faults>>
  BY DEF RecordExecution, Saving, memVars, chainVars, coinVars
<1> HIDE DEF n
<1>3. Written(op[r].found.total + 1, op[r].loaded.total, work[n]) \in Nat
  <2>1. op[r].found.total + 1 \in Nat /\ work[n] \in Nat
    BY <1>1, OpFields DEF TypeOK
  <2> QED BY <2>1, WrittenType
<1>4. StoresTyped'
  BY <1>1, <1>2, <1>3 DEF TypeOK, StoresTyped
<1>5. left' \in [Runs -> Nat \ {0}]
  <2>1. left[r] + 1 \in Nat \ {0}
    BY <1>1
  <2> QED BY <1>2, <2>1 DEF TypeOK
<1>6. OnlyRun(r)
  BY <1>2, SavedOp DEF OnlyRun, TypeOK
<1>7. pc'[r] \notin LoopLabels
  BY <1>1, <1>2 DEF LoopLabels
<1>8. \A q \in Runs : op'[q].below \subseteq appended'
  BY <1>2, SavedOp DEF TypeOK
<1>9. /\ nodes' \in [Runs -> Seq(Nodes)] /\ pc' \in [Runs -> Labels]
      /\ verdict' \in [Runs -> Verdicts] /\ halted' \subseteq Runs
  BY <1>2 DEF TypeOK
<1> QED BY <1>2, <1>4, <1>5, <1>6, <1>7, <1>8, <1>9, SavedOp, RunStepType

\* Saving the verdict row preserves the types.
LEMMA SaveVerdictType ==
  ASSUME TypeOK, NEW r \in Runs, SaveVerdict(r)
  PROVE  TypeOK'
<1>1. /\ op' = [op EXCEPT ![r] = NoOp]
      /\ \/ Throw(r) /\ UNCHANGED verdictRow
         \/ /\ UNCHANGED halted /\ Goto(r, "pot_verdict")
            /\ verdictRow' = [verdictRow EXCEPT ![Process(r)] = Written(verdict[r], op[r].verdict, @)]
      /\ UNCHANGED <<req, nodes, left, verdict, captured, participation, appended, replaced,
                     ledger, opened, pool, stale, roster, work, eye, faults>>
  BY DEF SaveVerdict, Saving, memVars, chainVars, coinVars, nodeVars
<1>2. Written(verdict[r], op[r].verdict, verdictRow[Process(r)]) \in Verdicts
  BY RequestType, WrittenType DEF TypeOK
<1>3. StoresTyped'
  BY <1>1, <1>2, RequestType DEF TypeOK, StoresTyped
<1>4. "pot_verdict" \in Labels /\ "pot_verdict" \notin LoopLabels
  BY DEF Labels, LoopLabels
<1> QED BY <1>1, <1>3, <1>4, SaveType

\* Saving the ledger row preserves the types.
LEMMA SaveLedgerType ==
  ASSUME TypeOK, NEW r \in Runs, RecordMint(r) \/ RecordBurn(r)
  PROVE  TypeOK'
<1>1. PICK here \in Labels, minted \in Nat, burned \in Nat, next \in Labels \ LoopLabels :
        SaveLedger(r, here, minted, burned, next)
  BY RequestType DEF RecordMint, RecordBurn, Amount, Labels, LoopLabels
<1>2. /\ op' = [op EXCEPT ![r] = NoOp]
      /\ ledger' = [minted |-> Written(op[r].found.minted + minted, op[r].loaded.minted, ledger.minted),
                    burned |-> Written(op[r].found.burned + burned, op[r].loaded.burned, ledger.burned)]
      /\ stale' = [stale EXCEPT !.ledger = @ \/ Outdated(r)]
      /\ Goto(r, next)
      /\ UNCHANGED <<req, nodes, left, verdict, halted, captured, participation, appended,
                     replaced, verdictRow, opened, pool, roster, work, eye, faults>>
  BY <1>1 DEF SaveLedger, Saving, memVars, chainVars, nodeVars
<1>3. /\ op[r].found.minted + minted \in Nat /\ op[r].found.burned + burned \in Nat
      /\ ledger.minted \in Nat /\ ledger.burned \in Nat
  <2>1. ledger.minted \in Nat /\ ledger.burned \in Nat
    BY DEF TypeOK
  <2>2. op[r].found.minted \in Nat /\ op[r].found.burned \in Nat
    BY OpFields
  <2> QED BY <2>1, <2>2
<1>4. ledger' \in [minted : Nat, burned : Nat]
  BY <1>2, <1>3, WrittenType
<1>5. stale' \in [ledger : BOOLEAN, epochs : SUBSET Epochs]
  BY <1>2 DEF TypeOK
<1>6. StoresTyped'
  BY <1>2, <1>4, <1>5 DEF TypeOK, StoresTyped
<1> QED BY <1>1, <1>2, <1>6, SaveType

\* Saving the epoch's row preserves the types.
LEMMA AccrueType ==
  ASSUME TypeOK, NEW r \in Runs, Accrue(r)
  PROVE  TypeOK'
<1> DEFINE e == req[r].epoch
           fees == op[r].found.fees + computeFee(Amount(r))
           saved == IF op[r].loaded.exists THEN Written(fees, op[r].loaded.fees, pool[e]) ELSE fees
<1>1. e \in Epochs /\ fees \in Nat /\ pool[e] \in Nat /\ nodes[r] \in Seq(Nodes)
  <2>1. e \in Epochs /\ Amount(r) \in Nat
    BY RequestType DEF Amount
  <2>2. computeFee(Amount(r)) \in Nat /\ op[r].found.fees \in Nat
    BY <2>1, FeeIsNat, OpFields
  <2>3. pool[e] \in Nat /\ nodes[r] \in Seq(Nodes)
    BY <2>1 DEF TypeOK
  <2> QED BY <2>1, <2>2, <2>3
<1>2. /\ op' = [op EXCEPT ![r] = NoOp]
      /\ \/ Throw(r) /\ UNCHANGED <<participation, opened, pool, stale>>
         \/ /\ UNCHANGED halted /\ Goto(r, "burn")
            /\ pool' = [pool EXCEPT ![e] = saved]
            /\ opened' = opened \cup {e}
            /\ stale' = [stale EXCEPT !.epochs = IF Outdated(r) THEN @ \cup {e} ELSE @]
            /\ participation' = [participation EXCEPT ![e] = @ \o Participants(r)]
      /\ UNCHANGED <<req, nodes, left, verdict, captured, appended, replaced, verdictRow, ledger,
                     roster, work, eye, faults>>
  BY <1>1 DEF Accrue, Saving, chainVars, nodeVars, TypeOK
<1>3. saved \in Nat
  BY <1>1, WrittenType
<1>4. Participants(r) \in Seq(Processes \X Nodes)
  BY <1>1, RequestType DEF Participants
<1>5. participation[e] \o Participants(r) \in Seq(Processes \X Nodes)
  BY <1>1, <1>4 DEF TypeOK
<1> HIDE DEF e, fees, saved
<1>6. /\ pool' \in [Epochs -> Nat] /\ opened' \subseteq Epochs
      /\ participation' \in [Epochs -> Seq(Processes \X Nodes)]
  <2>1. /\ pool \in [Epochs -> Nat] /\ opened \subseteq Epochs
        /\ participation \in [Epochs -> Seq(Processes \X Nodes)]
    BY DEF TypeOK
  <2>2. pool' \in [Epochs -> Nat] /\ opened' \subseteq Epochs
    BY <1>1, <1>2, <1>3, <2>1
  <2>3. participation' \in [Epochs -> Seq(Processes \X Nodes)]
    BY <1>1, <1>2, <1>5, <2>1
  <2> QED BY <2>2, <2>3
<1>7. stale' \in [ledger : BOOLEAN, epochs : SUBSET Epochs]
  <2>1. stale \in [ledger : BOOLEAN, epochs : SUBSET Epochs]
    BY DEF TypeOK
  <2>2. stale.epochs \cup {e} \in SUBSET Epochs /\ stale.epochs \in SUBSET Epochs
    BY <1>1, <2>1
  <2> QED BY <1>2, <2>1, <2>2
<1>8. StoresTyped'
  BY <1>2, <1>6, <1>7 DEF TypeOK, StoresTyped
<1>9. "burn" \in Labels /\ "burn" \notin LoopLabels
  BY DEF Labels, LoopLabels
<1> QED BY <1>2, <1>8, <1>9, SaveType

\* A run that stops drops its operation: a conflicting INSERT, or a failing await.
LEMMA StopStepType ==
  ASSUME TypeOK, NEW r \in Runs, Conflict(r) \/ Fail(r)
  PROVE  TypeOK'
<1>1. /\ Throw(r) /\ Abandon(r)
      /\ UNCHANGED <<req, nodes, left, verdict, captured, participation, appended, replaced,
                     verdictRow, ledger, opened, pool, stale, roster, work, eye>>
      /\ faults' = faults \/ (faults > 0 /\ faults' = faults - 1)
  BY DEF Conflict, Fail, LocalStep, memVars, chainVars, coinVars, nodeVars
<1>2. /\ op' \in [Runs -> Op] /\ op'[r] = NoOp
      /\ \A q \in Runs : op'[q].below \subseteq op[q].below
      /\ \A q \in Runs \ {r} : op'[q].step = op[q].step
  BY <1>1, AbandonType
<1>3. StoresTyped'
  BY <1>1 DEF TypeOK, StoresTyped
<1> QED BY <1>1, <1>2, <1>3, NoOpType, StopType

\* A restart preserves the types.
LEMMA RestartType ==
  ASSUME TypeOK, Restart \/ UNCHANGED vars
  PROVE  TypeOK'
<1>1. CASE Restart
  <2>1. << >> \in Seq(Processes \X Nodes) /\ faults' \in Nat
    BY <1>1 DEF Restart, TypeOK
  <2>2. op' \in [Runs -> Op] /\ \A r \in Runs : op'[r].step # "found" /\ op'[r].below = {}
    BY <1>1, NoOpType DEF Restart
  <2>3. UNCHANGED <<pc, req, nodes, left, verdict, appended, replaced, verdictRow, ledger, opened,
                    pool, stale, roster, work, eye>>
    BY <1>1 DEF Restart, chainVars, coinVars, nodeVars
  <2>4. halted' \subseteq Runs
    BY <1>1 DEF Restart, TypeOK
  <2>5. captured' \in [Processes -> SUBSET CaptureEvents]
    BY <1>1 DEF Restart
  <2>6. participation' \in [Epochs -> Seq(Processes \X Nodes)]
    BY <1>1, <2>1 DEF Restart
  <2> QED BY <2>1, <2>2, <2>3, <2>4, <2>5, <2>6 DEF TypeOK
<1>2. CASE UNCHANGED vars
  BY <1>2 DEF TypeOK, Working, At, vars, runVars, memVars, chainVars, coinVars, nodeVars
<1> QED BY <1>1, <1>2

\* Every step is of one of the kinds above.
LEMMA StepKinds ==
  ASSUME [Next]_vars
  PROVE  \/ \E r \in Runs :
              \/ CaptureStep(r) \/ AppendStep(r) \/ WitnessStep(r) \/ DecisionStep(r) \/ ReadStep(r)
              \/ Resolve(r) \/ Register(r) \/ RecordRegistration(r) \/ RecordExecution(r)
              \/ SaveVerdict(r) \/ RecordMint(r) \/ RecordBurn(r) \/ Accrue(r)
              \/ Conflict(r) \/ Fail(r)
         \/ Restart \/ UNCHANGED vars
BY DEF Next, Continue, CaptureStep, AppendStep, WitnessStep, DecisionStep, ReadStep

\* Every step preserves the types.
LEMMA StepType == TypeOK /\ [Next]_vars => TypeOK'
BY StepKinds, CaptureStepType, AppendStepType, WitnessStepType, DecisionType, ReadType,
   ResolveType, RegisterType, RecordRegistrationType, RecordExecutionType, SaveVerdictType,
   SaveLedgerType, AccrueType, StopStepType, RestartType

\* The stores and the runs always hold values of their types.
THEOREM TypeCorrect == Spec => []TypeOK
BY InitType, StepType, PTL DEF Spec
-----------------------------------------------------------------------------
(* What was committed to the chain once backs what comes after it for good. *)

Backed(p) == \A e \in RequiredBeforeVerdict : WasRecorded(e, p)

AfterGate ==
  {"gate", "mint", "append_minted", "emission", "eye_mint", "accrue", "burn", "append_burned",
   "eye_burn", "final", "eye_final"}

\* A run with a positive verdict has its evidence recorded, and the verdict too
\* unless appending it is its next step; and only such runs are past the gate.
RunBacked(r) ==
  /\ verdict[r] = "verified" =>
       /\ Backed(Process(r))
       /\ pc[r] = "append_verdict" \/ WasRecorded("pot.verified=1", Process(r))
  /\ pc[r] \in AfterGate => verdict[r] = "verified"

RunsBacked == \A r \in Runs : RunBacked(r)

\* A stored positive verdict was recorded (the verdict is appended, then saved).
RowsRecorded ==
  \A p \in Processes : verdictRow[p] = "verified" => WasRecorded("pot.verified=1", p)

VerdictsBacked ==
  \A p \in Processes : WasRecorded("pot.verified=1", p) => Backed(p)

MintsRecorded ==
  \A p \in Processes : WasRecorded("emission.minted", p) => WasRecorded("pot.verified=1", p)

Inv ==
  /\ TypeOK
  /\ CapturedWasRecorded
  /\ RunsBacked
  /\ RowsRecorded
  /\ VerdictsBacked
  /\ MintsRecorded
  /\ PaidWorkConfirmed

Grows == appended \subseteq appended' /\ req' = req

\* What was recorded stays recorded.
LEMMA KeepsRecorded ==
  ASSUME Grows, NEW e, NEW p, WasRecorded(e, p)
  PROVE  WasRecorded(e, p)'
BY DEF Grows, WasRecorded, Recorded, Process

\* The evidence of a process stays recorded.
LEMMA KeepsBacked ==
  ASSUME Grows, NEW p, Backed(p)
  PROVE  Backed(p)'
BY DEF Grows, Backed, WasRecorded, Recorded, Process

ValueEvents == {"pot.verified=1", "emission.minted"}

\* No verdict and no mint is newly recorded.
NoNewValue ==
  \A e \in ValueEvents, p \in Processes : WasRecorded(e, p)' => WasRecorded(e, p)

\* A step that appends nothing records nothing new.
LEMMA ChainSame ==
  ASSUME UNCHANGED <<appended, req>>
  PROVE  Grows /\ NoNewValue
BY DEF Grows, NoNewValue, WasRecorded, Recorded, Process

\* Committing an event of a run records it for the run's process, and nothing else.
LEMMA Appending ==
  ASSUME NEW e, NEW r \in Runs, appended' = appended \cup {<<e, r>>}, req' = req
  PROVE  /\ Grows
         /\ WasRecorded(e, Process(r))'
         /\ \A f, q : WasRecorded(f, q)' => WasRecorded(f, q) \/ (f = e /\ q = Process(r))
<1>1. Grows
  BY DEF Grows
<1>2. WasRecorded(e, Process(r))'
  BY DEF WasRecorded, Recorded, Process
<1>3. ASSUME NEW f, NEW q, WasRecorded(f, q)'
      PROVE  WasRecorded(f, q) \/ (f = e /\ q = Process(r))
  <2>1. PICK x \in Runs : req[x].process = q /\ <<f, x>> \in appended \cup {<<e, r>>}
    BY <1>3 DEF WasRecorded, Recorded, Process
  <2>2. CASE <<f, x>> \in appended
    BY <2>1, <2>2 DEF WasRecorded, Recorded, Process
  <2>3. CASE <<f, x>> = <<e, r>>
    BY <2>1, <2>3 DEF Process
  <2> QED BY <2>1, <2>2, <2>3
<1> QED BY <1>1, <1>2, <1>3

\* Recording something else than a verdict or a mint keeps the stores backed.
LEMMA StoresKept ==
  ASSUME Inv, Grows, NoNewValue, UNCHANGED <<verdictRow, participation>>
  PROVE  RowsRecorded' /\ VerdictsBacked' /\ MintsRecorded' /\ PaidWorkConfirmed'
<1>1. RowsRecorded'
  BY KeepsRecorded DEF Inv, RowsRecorded
<1>2. VerdictsBacked'
  BY KeepsBacked DEF Inv, VerdictsBacked, NoNewValue, ValueEvents
<1>3. MintsRecorded'
  BY KeepsRecorded DEF Inv, MintsRecorded, NoNewValue, ValueEvents
<1>4. PaidWorkConfirmed'
  BY DEF Inv, PaidWorkConfirmed, WasRecorded, Recorded, Process, Grows
<1> QED BY <1>1, <1>2, <1>3, <1>4

\* An index that forgets or stays claims nothing new.
LEMMA IndexKept ==
  ASSUME Inv, Grows, UNCHANGED captured
  PROVE  CapturedWasRecorded'
BY KeepsRecorded DEF Inv, CapturedWasRecorded

\* A run that keeps its verdict stays backed, if it moves past the gate only
\* with a positive verdict and has not its verdict still to append.
LEMMA RunStaysBacked ==
  ASSUME Grows, NEW r \in Runs, RunBacked(r), verdict'[r] = verdict[r],
         \/ pc'[r] = pc[r]
         \/ /\ pc[r] # "append_verdict"
            /\ pc'[r] \in AfterGate => pc[r] \in AfterGate \/ verdict[r] = "verified"
  PROVE  RunBacked(r)'
<1> DEFINE pr == req[r].process
<1>1. Process(r) = pr /\ Process(r)' = pr
  BY DEF Process, Grows
<1>2. CASE verdict[r] = "verified"
  <2>1. Backed(pr) /\ (pc[r] = "append_verdict" \/ WasRecorded("pot.verified=1", pr))
    BY <1>1, <1>2 DEF RunBacked
  <2>2. /\ Backed(Process(r))'
        /\ WasRecorded("pot.verified=1", pr) => WasRecorded("pot.verified=1", Process(r))'
    BY <2>1 DEF Grows, Backed, WasRecorded, Recorded, Process
  <2> QED BY <1>2, <2>1, <2>2 DEF RunBacked
<1>3. CASE verdict[r] # "verified"
  BY <1>3 DEF RunBacked
<1> QED BY <1>2, <1>3

\* One run moves, and no run changes its verdict.
LEMMA OneRunMoves ==
  ASSUME Inv, Grows, NEW r \in Runs, UNCHANGED verdict,
         \A q \in Runs \ {r} : pc'[q] = pc[q],
         \/ pc'[r] = pc[r]
         \/ /\ pc[r] # "append_verdict"
            /\ pc'[r] \in AfterGate => pc[r] \in AfterGate \/ verdict[r] = "verified"
  PROVE  RunsBacked'
<1> SUFFICES ASSUME NEW q \in Runs PROVE RunBacked(q)'
  BY DEF RunsBacked
<1>1. RunBacked(q) /\ verdict'[q] = verdict[q]
  BY DEF Inv, RunsBacked
<1>2. CASE q = r
  BY <1>1, <1>2, RunStaysBacked
<1>3. CASE q # r
  BY <1>1, <1>3, RunStaysBacked
<1> QED BY <1>2, <1>3

-----------------------------------------------------------------------------
(* The steps. *)

\* The steps that leave the chain, the verdicts and the in-memory maps alone.
QuietStep(r) ==
  \/ WitnessStep(r) \/ ReadStep(r) \/ Arrive(r) \/ Admit(r) \/ Gate(r) \/ CompareSupply(r)
  \/ Resolve(r) \/ Register(r) \/ RecordExecution(r) \/ RecordMint(r) \/ RecordBurn(r)
  \/ Conflict(r) \/ Fail(r)

\* What a quiet step leaves alone, and where it takes its run.
LEMMA QuietStepShape ==
  ASSUME TypeOK, NEW r \in Runs, QuietStep(r)
  PROVE  /\ UNCHANGED <<req, verdict, captured, verdictRow, participation, appended>>
         /\ \A q \in Runs \ {r} : pc'[q] = pc[q]
         /\ \/ pc'[r] = pc[r]
            \/ /\ pc[r] # "append_verdict"
               /\ pc'[r] \in AfterGate => pc[r] \in AfterGate \/ verdict[r] = "verified"
<1>1. CASE WitnessStep(r)
  <2>1. PICK here, event, next :
          /\ Witness(r, here, event, next)
          /\ here # "append_verdict"
          /\ next \in AfterGate => here \in AfterGate \/ verdict[r] = "verified"
    BY <1>1 DEF WitnessStep, WitnessInitiation, RefuseInadmissible, WitnessAssignment,
                WitnessVerdict, WitnessMint, WitnessBurn, WitnessFinal, WitnessDrift, AfterGate
  <2> QED BY <2>1 DEF Witness, At, Goto, memVars, chainVars, TypeOK
<1>2. CASE ReadStep(r) \/ Conflict(r) \/ Fail(r)
  BY <1>2 DEF ReadStep, Draft, Find, Load, LoadVerdict, Conflict, Fail, Throw, LocalStep, memVars,
              chainVars
<1>3. CASE Arrive(r) \/ Admit(r) \/ Gate(r) \/ CompareSupply(r) \/ Resolve(r)
  <2>1. UNCHANGED <<req, verdict, captured, verdictRow, participation, appended>>
    BY <1>3 DEF Arrive, Admit, Gate, CompareSupply, Resolve, LocalStep, memVars, chainVars
  <2>2. \/ pc' = pc
        \/ \E next \in Labels :
             /\ pc' = [pc EXCEPT ![r] = next] /\ pc[r] # "append_verdict"
             /\ next \in AfterGate => pc[r] \in AfterGate
    BY <1>3 DEF Arrive, Admit, Gate, CompareSupply, Resolve, At, Goto, Throw, AfterGate, Labels
  <2> QED BY <2>1, <2>2 DEF TypeOK
<1>4. CASE Register(r) \/ RecordExecution(r)
  <2>1. UNCHANGED <<req, verdict, captured, verdictRow, participation, appended>>
    BY <1>4 DEF Register, RecordExecution, memVars, chainVars
  <2>2. pc' = pc \/ (pc[r] = "register" /\ pc' = [pc EXCEPT ![r] = "registered"])
    BY <1>4 DEF Register, RecordExecution, Saving, At, Goto, Throw
  <2> QED BY <2>1, <2>2 DEF TypeOK, AfterGate
<1>5. CASE RecordMint(r) \/ RecordBurn(r)
  <2>1. PICK here \in AfterGate, minted \in Nat, burned \in Nat, next \in AfterGate :
          SaveLedger(r, here, minted, burned, next)
    BY <1>5, RequestType DEF RecordMint, RecordBurn, Amount, AfterGate
  <2>2. /\ UNCHANGED <<req, verdict, captured, verdictRow, participation, appended>>
        /\ pc[r] = here /\ pc' = [pc EXCEPT ![r] = next]
    BY <2>1 DEF SaveLedger, Saving, At, Goto, memVars, chainVars
  <2> QED BY <2>1, <2>2 DEF TypeOK, AfterGate
<1> QED BY <1>1, <1>2, <1>3, <1>4, <1>5 DEF QuietStep

\* A step that neither appends nor decides preserves the invariant.
LEMMA QuietStepInv ==
  ASSUME Inv, TypeOK', NEW r \in Runs, QuietStep(r)
  PROVE  Inv'
<1>1. /\ UNCHANGED <<req, verdict, captured, verdictRow, participation, appended>>
      /\ \A q \in Runs \ {r} : pc'[q] = pc[q]
      /\ \/ pc'[r] = pc[r]
         \/ /\ pc[r] # "append_verdict"
            /\ pc'[r] \in AfterGate => pc[r] \in AfterGate \/ verdict[r] = "verified"
  BY QuietStepShape DEF Inv
<1>2. Grows /\ NoNewValue
  BY <1>1, ChainSame
<1>3. RowsRecorded' /\ VerdictsBacked' /\ MintsRecorded' /\ PaidWorkConfirmed'
  BY <1>1, <1>2, StoresKept
<1>4. CapturedWasRecorded' /\ RunsBacked'
  BY <1>1, <1>2, IndexKept, OneRunMoves
<1> QED BY <1>3, <1>4 DEF Inv

\* Capturing an event preserves the invariant: it is recorded before the index has it.
LEMMA CaptureStepInv ==
  ASSUME Inv, TypeOK', NEW r \in Runs, CaptureStep(r)
  PROVE  Inv'
<1>1. PICK here \in Labels, event \in CaptureEvents, next \in Labels :
        /\ Capture(r, here, event, next)
        /\ here # "append_verdict"
        /\ next \in AfterGate => here \in AfterGate
  BY DEF CaptureStep, Initiate, TaskAssignment, StageTransition, ExecutionComplete,
         CaptureVerdict, Reject, CaptureEmission, FinalStatus, AfterGate,
         CaptureEvents, RequiredBeforeVerdict, Labels
<1>2. PICK pr \in Processes : pr = Process(r)
  BY RequestType DEF Inv
<1>3. /\ UNCHANGED <<req, verdict, verdictRow, participation>>
      /\ pc[r] = here
      /\ pc' = [pc EXCEPT ![r] = next]
      /\ appended' = appended \cup {<<event, r>>}
      /\ captured' = [captured EXCEPT ![pr] = @ \cup {event}]
  BY <1>1, <1>2 DEF Capture, Remember, Commit, At, Goto
<1>4. /\ Grows /\ WasRecorded(event, Process(r))'
      /\ \A f, q : WasRecorded(f, q)' => WasRecorded(f, q) \/ (f = event /\ q = Process(r))
  BY <1>3, Appending
<1>5. NoNewValue
  BY <1>4 DEF NoNewValue, ValueEvents, CaptureEvents, RequiredBeforeVerdict
<1>6. RowsRecorded' /\ VerdictsBacked' /\ MintsRecorded' /\ PaidWorkConfirmed'
  BY <1>3, <1>4, <1>5, StoresKept
<1>7. CapturedWasRecorded'
  <2> SUFFICES ASSUME NEW p \in Processes, NEW e \in captured'[p] PROVE WasRecorded(e, p)'
    BY DEF CapturedWasRecorded
  <2>1. CASE p = pr /\ e = event
    <3>1. \E x \in Runs : req'[x].process = req'[r].process /\ <<event, x>> \in appended'
      BY <1>3
    <3>2. req'[r].process = pr
      BY <1>2, <1>3 DEF Process
    <3> QED BY <2>1, <3>1, <3>2 DEF WasRecorded, Recorded, Process
  <2>2. CASE ~(p = pr /\ e = event)
    <3>1. e \in captured[p]
      BY <1>3, <2>2 DEF Inv, TypeOK
    <3> QED BY <1>4, <3>1, KeepsRecorded DEF Inv, CapturedWasRecorded
  <2> QED BY <2>1, <2>2
<1>8. RunsBacked'
  <2>1. pc'[r] = next /\ \A q \in Runs \ {r} : pc'[q] = pc[q]
    BY <1>3 DEF Inv, TypeOK
  <2> QED BY <1>1, <1>3, <1>4, <2>1, OneRunMoves
<1> QED BY <1>6, <1>7, <1>8 DEF Inv

\* Recording a registration preserves the invariant.
LEMMA RecordRegistrationInv ==
  ASSUME Inv, TypeOK', NEW r \in Runs, RecordRegistration(r)
  PROVE  Inv'
<1>1. /\ UNCHANGED <<req, verdict, captured, verdictRow, participation>>
      /\ pc[r] = "registered"
      /\ \E next \in {"register", "resolve"} : pc' = [pc EXCEPT ![r] = next]
  BY DEF RecordRegistration, At, Goto, memVars
<1>2. appended' = appended \cup {<<"node.registered", <<r, DefaultNodes[left[r]]>>>>}
  BY DEF RecordRegistration, Commit
<1>3. Grows /\ NoNewValue
  BY <1>1, <1>2 DEF Grows, NoNewValue, ValueEvents, WasRecorded, Recorded, Process
<1>4. RowsRecorded' /\ VerdictsBacked' /\ MintsRecorded' /\ PaidWorkConfirmed' /\ CapturedWasRecorded'
  BY <1>1, <1>3, StoresKept, IndexKept
<1>5. RunsBacked'
  <2>1. /\ \A q \in Runs \ {r} : pc'[q] = pc[q]
        /\ pc[r] # "append_verdict" /\ pc'[r] \notin AfterGate
    BY <1>1 DEF Inv, TypeOK, AfterGate
  <2> QED BY <1>1, <1>3, <2>1, OneRunMoves
<1> QED BY <1>4, <1>5 DEF Inv

\* A run takes its verdict from the row, or from the criteria: backed either way.
LEMMA DecideInv ==
  ASSUME Inv, TypeOK', NEW r \in Runs, Lookup(r) \/ Evaluate(r)
  PROVE  Inv'
<1>1. PICK pr \in Processes : pr = Process(r)
  BY RequestType DEF Inv
<1>2. UNCHANGED <<req, captured, verdictRow, participation, appended>>
  BY DEF Lookup, Evaluate, LocalStep, memVars, chainVars
<1>3. Grows /\ NoNewValue
  BY <1>2, ChainSame
<1>4. RowsRecorded' /\ VerdictsBacked' /\ MintsRecorded' /\ PaidWorkConfirmed' /\ CapturedWasRecorded'
  BY <1>2, <1>3, StoresKept, IndexKept
<1>5. ASSUME NEW q \in Runs, q # r PROVE RunBacked(q)'
  <2>1. pc'[q] = pc[q] /\ verdict'[q] = verdict[q] /\ RunBacked(q)
    BY <1>5 DEF Lookup, Evaluate, Goto, Inv, TypeOK, RunsBacked
  <2> QED BY <1>3, <2>1, RunStaysBacked
<1>6. RunBacked(r)'
  <2>1. Process(r)' = pr
    BY <1>1, <1>2 DEF Process
  <2>2. CASE Evaluate(r)
    <3>1. pc'[r] = "append_verdict" /\ verdict'[r] \in {"verified", "rejected"}
      BY <2>2 DEF Evaluate, Goto, Inv, TypeOK
    <3>2. verdict'[r] = "verified" => RequiredBeforeVerdict \subseteq captured[pr]
      BY <1>1, <2>2 DEF Evaluate, Criteria, Inv, TypeOK
    <3>3. verdict'[r] = "verified" => Backed(pr)'
      BY <1>3, <3>2, KeepsBacked DEF Inv, CapturedWasRecorded, Backed
    <3> QED BY <2>1, <3>1, <3>3 DEF RunBacked, AfterGate, Backed, WasRecorded, Recorded
  <2>3. CASE Lookup(r) /\ verdictRow[pr] # "none"
    <3>1. pc'[r] = "pot_verdict" /\ verdict'[r] = verdictRow[pr]
      BY <1>1, <2>3 DEF Lookup, Goto, Inv, TypeOK
    <3>2. verdict'[r] = "verified" => WasRecorded("pot.verified=1", pr)' /\ Backed(pr)'
      BY <1>3, <3>1, KeepsRecorded, KeepsBacked DEF Inv, RowsRecorded, VerdictsBacked
    <3> QED BY <2>1, <3>1, <3>2 DEF RunBacked, AfterGate, Backed, WasRecorded, Recorded
  <2>4. CASE Lookup(r) /\ verdictRow[pr] = "none"
    <3>1. /\ pc[r] # "append_verdict" /\ pc'[r] = "evaluate" /\ verdict'[r] = verdict[r]
          /\ RunBacked(r)
      BY <1>1, <2>4 DEF Lookup, At, Goto, Inv, TypeOK, RunsBacked
    <3>2. pc'[r] \notin AfterGate
      BY <3>1 DEF AfterGate
    <3> QED BY <1>3, <3>1, <3>2, RunStaysBacked
  <2> QED BY <2>2, <2>3, <2>4
<1>7. RunsBacked'
  BY <1>5, <1>6 DEF RunsBacked
<1> QED BY <1>4, <1>7 DEF Inv

\* SaveVerdict stores a positive verdict only after it was appended.
LEMMA SaveVerdictInv ==
  ASSUME Inv, TypeOK', NEW r \in Runs, SaveVerdict(r)
  PROVE  Inv'
<1>1. PICK pr \in Processes : pr = Process(r)
  BY RequestType DEF Inv
<1>2. /\ UNCHANGED <<req, verdict, captured, participation, appended>>
      /\ pc[r] = "save_verdict"
      /\ UNCHANGED pc \/ pc' = [pc EXCEPT ![r] = "pot_verdict"]
  BY DEF SaveVerdict, Saving, At, Goto, Throw, memVars, chainVars
<1>3. Grows /\ NoNewValue
  BY <1>2, ChainSame
<1>4. \A p \in Processes :
        verdictRow'[p] = "verified" => verdictRow[p] = "verified" \/ (p = pr /\ verdict[r] = "verified")
  <2>1. \/ UNCHANGED verdictRow
        \/ verdictRow' = [verdictRow EXCEPT ![pr] = Written(verdict[r], op[r].verdict, @)]
    BY <1>1 DEF SaveVerdict
  <2> QED BY <2>1 DEF Inv, TypeOK, Written
<1>5. RowsRecorded'
  <2>1. verdict[r] = "verified" => WasRecorded("pot.verified=1", pr)
    BY <1>1, <1>2 DEF Inv, RunsBacked, RunBacked
  <2> QED BY <1>3, <1>4, <2>1, KeepsRecorded DEF Inv, RowsRecorded
<1>6. VerdictsBacked' /\ MintsRecorded' /\ PaidWorkConfirmed' /\ CapturedWasRecorded'
  <2>1. VerdictsBacked' /\ MintsRecorded'
    BY <1>3, KeepsBacked, KeepsRecorded
       DEF Inv, VerdictsBacked, MintsRecorded, NoNewValue, ValueEvents
  <2>2. PaidWorkConfirmed'
    BY <1>2 DEF Inv, PaidWorkConfirmed, WasRecorded, Recorded, Process
  <2> QED BY <1>2, <1>3, <2>1, <2>2, IndexKept
<1>7. RunsBacked'
  <2>1. /\ \A q \in Runs \ {r} : pc'[q] = pc[q]
        /\ pc'[r] = pc[r] \/ pc'[r] \notin AfterGate
        /\ pc[r] # "append_verdict"
    BY <1>2 DEF Inv, TypeOK, AfterGate
  <2> QED BY <1>2, <1>3, <2>1, OneRunMoves
<1> QED BY <1>5, <1>6, <1>7 DEF Inv

\* Appending a verdict, a mint or a burn.
LEMMA AppendStepInv ==
  ASSUME Inv, TypeOK', NEW r \in Runs, AppendStep(r)
  PROVE  Inv'
<1>1. PICK pr \in Processes : pr = Process(r)
  BY RequestType DEF Inv
<1>2. RunBacked(r)
  BY DEF Inv, RunsBacked
<1>0. VerdictEvent(verdict[r]) \in ProcessEvents
  BY DEF VerdictEvent, ProcessEvents
<1>3. PICK here \in Labels, event \in ProcessEvents, next \in Labels :
        /\ Recording(r, here, event, next)
        /\ \/ /\ here = "append_verdict" /\ next = "save_verdict"
              /\ event = VerdictEvent(verdict[r])
           \/ here = "append_minted" /\ next = "emission" /\ event = "emission.minted"
           \/ here = "append_burned" /\ next = "eye_burn" /\ event = "emission.burned"
  BY <1>0 DEF AppendStep, AppendVerdict, AppendMinted, AppendBurned, Labels, ProcessEvents
<1>4. /\ UNCHANGED <<req, verdict, captured, verdictRow, participation>>
      /\ appended' = appended \cup {<<event, r>>}
      /\ pc[r] = here /\ pc' = [pc EXCEPT ![r] = next]
  BY <1>3 DEF Recording, Commit, At, Goto, memVars
<1>5. /\ Grows /\ WasRecorded(event, Process(r))'
      /\ \A f, q : WasRecorded(f, q)' => WasRecorded(f, q) \/ (f = event /\ q = Process(r))
  BY <1>4, Appending
<1>6. event = "pot.verified=1" => verdict[r] = "verified" /\ pc[r] = "append_verdict"
  BY <1>3, <1>4 DEF VerdictEvent
<1>7. event = "emission.minted" => WasRecorded("pot.verified=1", pr)
  BY <1>1, <1>2, <1>3, <1>4 DEF VerdictEvent, RunBacked, AfterGate
<1>8. CapturedWasRecorded'
  BY <1>4, <1>5, IndexKept
<1>9. RowsRecorded'
  BY <1>4, <1>5, KeepsRecorded DEF Inv, RowsRecorded
<1>10. VerdictsBacked'
  <2> SUFFICES ASSUME NEW q \in Processes, WasRecorded("pot.verified=1", q)' PROVE Backed(q)'
    BY DEF VerdictsBacked
  <2>1. CASE WasRecorded("pot.verified=1", q)
    BY <1>5, <2>1, KeepsBacked DEF Inv, VerdictsBacked
  <2>2. CASE ~WasRecorded("pot.verified=1", q)
    <3>1. event = "pot.verified=1" /\ q = pr
      BY <1>1, <1>5, <2>2
    <3>2. Backed(pr)
      BY <1>1, <1>2, <1>6, <3>1 DEF RunBacked
    <3> QED BY <1>5, <3>1, <3>2, KeepsBacked
  <2> QED BY <2>1, <2>2
<1>11. MintsRecorded'
  <2> SUFFICES ASSUME NEW q \in Processes, WasRecorded("emission.minted", q)'
               PROVE  WasRecorded("pot.verified=1", q)'
    BY DEF MintsRecorded
  <2>1. CASE WasRecorded("emission.minted", q)
    BY <1>5, <2>1, KeepsRecorded DEF Inv, MintsRecorded
  <2>2. CASE ~WasRecorded("emission.minted", q)
    BY <1>1, <1>5, <1>7, <2>2, KeepsRecorded
  <2> QED BY <2>1, <2>2
<1>12. PaidWorkConfirmed'
  BY <1>4 DEF Inv, PaidWorkConfirmed, WasRecorded, Recorded, Process
<1>13. ASSUME NEW q \in Runs, q # r PROVE RunBacked(q)'
  <2>1. pc'[q] = pc[q] /\ verdict'[q] = verdict[q] /\ RunBacked(q)
    BY <1>4, <1>13 DEF TypeOK, Inv, RunsBacked
  <2> QED BY <1>5, <2>1, RunStaysBacked
<1>14. RunBacked(r)'
  <2>1. Process(r)' = pr /\ pc'[r] = next /\ verdict'[r] = verdict[r]
    BY <1>1, <1>4 DEF Process, Inv, TypeOK
  <2>2. CASE pc[r] = "append_verdict"
    <3>1. next = "save_verdict" /\ event = VerdictEvent(verdict[r])
      BY <1>3, <1>4, <2>2
    <3>2. verdict[r] = "verified" => WasRecorded("pot.verified=1", Process(r))' /\ Backed(pr)'
      <4>1. verdict[r] = "verified" => event = "pot.verified=1" /\ Backed(pr)
        BY <1>1, <1>2, <3>1 DEF VerdictEvent, RunBacked
      <4> QED BY <1>5, <4>1, KeepsBacked
    <3> QED BY <2>1, <3>1, <3>2 DEF RunBacked, AfterGate, Backed, WasRecorded, Recorded
  <2>3. CASE pc[r] # "append_verdict"
    <3>1. pc[r] \in AfterGate
      BY <1>3, <1>4, <2>3 DEF AfterGate
    <3> QED BY <1>2, <1>5, <2>1, <2>3, <3>1, RunStaysBacked
  <2> QED BY <2>2, <2>3
<1>15. RunsBacked'
  BY <1>13, <1>14 DEF RunsBacked
<1> QED BY <1>8, <1>9, <1>10, <1>11, <1>12, <1>15 DEF Inv

\* A run accrues only past the gate, so what it adds is backed.
LEMMA AccrueInv ==
  ASSUME Inv, TypeOK', NEW r \in Runs, Accrue(r)
  PROVE  Inv'
<1>1. PICK pr \in Processes : pr = Process(r)
  BY RequestType DEF Inv
<1>2. /\ UNCHANGED <<req, verdict, captured, verdictRow, appended>>
      /\ pc[r] = "accrue"
      /\ \/ UNCHANGED <<pc, participation>>
         \/ /\ pc' = [pc EXCEPT ![r] = "burn"]
            /\ participation' = [participation EXCEPT ![req[r].epoch] = @ \o Participants(r)]
  BY DEF Accrue, Saving, At, Goto, Throw, chainVars
<1>3. WasRecorded("pot.verified=1", pr)
  BY <1>1, <1>2 DEF Inv, RunsBacked, RunBacked, AfterGate
<1>4. Grows /\ NoNewValue
  BY <1>2, ChainSame
<1>5. RowsRecorded' /\ VerdictsBacked' /\ MintsRecorded' /\ CapturedWasRecorded'
  BY <1>2, <1>4, KeepsRecorded, KeepsBacked, IndexKept
     DEF Inv, RowsRecorded, VerdictsBacked, MintsRecorded, NoNewValue, ValueEvents
<1>6. \A e \in Epochs : \A i \in DOMAIN participation'[e] :
        WasRecorded("pot.verified=1", participation'[e][i][1])
  <2>1. CASE UNCHANGED participation
    BY <2>1 DEF Inv, PaidWorkConfirmed
  <2>2. CASE participation' = [participation EXCEPT ![req[r].epoch] = @ \o Participants(r)]
    <3> SUFFICES ASSUME NEW e \in Epochs, NEW i \in DOMAIN participation'[e]
                 PROVE  WasRecorded("pot.verified=1", participation'[e][i][1])
      OBVIOUS
    <3>1. nodes[r] \in Seq(Nodes) /\ participation[e] \in Seq(Processes \X Nodes)
      BY DEF Inv, TypeOK
    <3>2. CASE e # req[r].epoch
      <4>1. participation'[e] = participation[e]
        BY <2>2, <3>2 DEF Inv, TypeOK
      <4> QED BY <4>1 DEF Inv, PaidWorkConfirmed
    <3>3. CASE e = req[r].epoch
      <4>1. participation'[e] = participation[e] \o Participants(r)
        BY <2>2, <3>3 DEF Inv, TypeOK
      <4>2. /\ Participants(r) \in Seq(Processes \X Nodes)
            /\ \A k \in DOMAIN Participants(r) : Participants(r)[k][1] = pr
        BY <1>1, <3>1 DEF Participants
      <4>3. CASE i \in DOMAIN participation[e]
        <5>1. participation'[e][i] = participation[e][i]
          BY <3>1, <4>1, <4>2, <4>3
        <5> QED BY <4>3, <5>1 DEF Inv, PaidWorkConfirmed
      <4>4. CASE i \notin DOMAIN participation[e]
        <5>1. i - Len(participation[e]) \in DOMAIN Participants(r)
          BY <3>1, <4>1, <4>2, <4>4
        <5>2. participation'[e][i] = Participants(r)[i - Len(participation[e])]
          BY <3>1, <4>1, <4>2, <4>4, <5>1
        <5> QED BY <1>3, <4>2, <5>1, <5>2
      <4> QED BY <4>3, <4>4
    <3> QED BY <3>2, <3>3
  <2> QED BY <1>2, <2>1, <2>2
<1>7. PaidWorkConfirmed'
  BY <1>2, <1>6 DEF PaidWorkConfirmed, WasRecorded, Recorded, Process
<1>8. RunsBacked'
  <2>1. /\ \A q \in Runs \ {r} : pc'[q] = pc[q]
        /\ pc[r] # "append_verdict" /\ pc[r] \in AfterGate
    BY <1>2 DEF Inv, TypeOK, AfterGate
  <2> QED BY <1>2, <1>4, <2>1, OneRunMoves
<1> QED BY <1>5, <1>7, <1>8 DEF Inv

\* A restart forgets, and forgetting keeps what remains backed.
LEMMA RestartInv ==
  ASSUME Inv, TypeOK', Restart \/ UNCHANGED vars
  PROVE  Inv'
<1>1. /\ UNCHANGED <<pc, req, verdict, appended, verdictRow>>
      /\ UNCHANGED captured \/ captured' = [p \in Processes |-> {}]
      /\ UNCHANGED participation \/ participation' = [e \in Epochs |-> << >>]
  BY DEF Restart, vars, runVars, memVars, chainVars
<1>2. RunsBacked' /\ RowsRecorded' /\ VerdictsBacked' /\ MintsRecorded'
  BY <1>1 DEF Inv, RunsBacked, RunBacked, RowsRecorded, VerdictsBacked, MintsRecorded, Backed,
              WasRecorded, Recorded, Process
<1>3. CapturedWasRecorded'
  BY <1>1 DEF Inv, CapturedWasRecorded, WasRecorded, Recorded, Process
<1>4. PaidWorkConfirmed'
  BY <1>1 DEF Inv, PaidWorkConfirmed, WasRecorded, Recorded, Process
<1> QED BY <1>2, <1>3, <1>4 DEF Inv

\* Every step preserves the invariant.
LEMMA StepInv == Inv /\ [Next]_vars => Inv'
<1> SUFFICES ASSUME Inv, [Next]_vars PROVE Inv'
  OBVIOUS
<1>1. TypeOK'
  BY StepType DEF Inv
<1>2. \/ \E r \in Runs :
           \/ CaptureStep(r) \/ QuietStep(r) \/ RecordRegistration(r) \/ Lookup(r) \/ Evaluate(r)
           \/ SaveVerdict(r) \/ Accrue(r) \/ AppendStep(r)
      \/ Restart \/ UNCHANGED vars
  BY StepKinds DEF QuietStep, DecisionStep
<1> QED BY <1>1, <1>2, CaptureStepInv, QuietStepInv, RecordRegistrationInv, DecideInv,
           SaveVerdictInv, AccrueInv, AppendStepInv, RestartInv

\* The initial state satisfies the invariant.
LEMMA InitInv == Init => Inv
<1> SUFFICES ASSUME Init PROVE Inv
  OBVIOUS
<1>1. TypeOK
  BY InitType
<1>2. \A e, p : ~WasRecorded(e, p)
  BY DEF Init, WasRecorded, Recorded
<1>3. CapturedWasRecorded /\ RowsRecorded /\ PaidWorkConfirmed
  BY DEF Init, CapturedWasRecorded, RowsRecorded, PaidWorkConfirmed
<1>4. VerdictsBacked /\ MintsRecorded
  BY <1>2 DEF VerdictsBacked, MintsRecorded
<1>5. RunsBacked
  BY DEF Init, RunsBacked, RunBacked, AfterGate
<1> QED BY <1>1, <1>3, <1>4, <1>5 DEF Inv

\* The invariant holds in every reachable state.
LEMMA Invariance == Spec => []Inv
BY InitInv, StepInv, PTL DEF Spec

\* The completeness index of StateRecording claims only what was committed to the chain.
THEOREM IndexIsSound == Spec => []CapturedWasRecorded
<1>1. Inv => CapturedWasRecorded
  BY DEF Inv
<1> QED BY <1>1, Invariance, PTL

\* A positive verdict, recorded or stored, follows the recording of all required events.
THEOREM VerdictsHaveEvidence == Spec => []EvidenceBeforeVerdict
<1>1. Inv => EvidenceBeforeVerdict
  BY DEF Inv, EvidenceBeforeVerdict, RowsRecorded, VerdictsBacked, Backed
<1> QED BY <1>1, Invariance, PTL

\* Value exists only behind a positive verdict that was committed to the chain first,
\* however the appends of the runs overlap, fail or replace one another.
THEOREM ValueIsTraceable == Spec => []ValueTraceable
<1>1. Inv => ValueTraceable
  <2> SUFFICES ASSUME Inv PROVE ValueTraceable
    OBVIOUS
  <2>1. ASSUME NEW r \in Runs, HasMinted(r) PROVE WasRecorded("pot.verified=1", Process(r))
    <3>1. verdict[r] = "verified" /\ pc[r] # "append_verdict"
      BY <2>1 DEF Inv, RunsBacked, RunBacked, HasMinted, MintOpen, FeePaid, AfterGate
    <3> QED BY <3>1 DEF Inv, RunsBacked, RunBacked
  <2> QED BY <2>1 DEF Inv, MintsRecorded, ValueTraceable
<1> QED BY <1>1, Invariance, PTL

\* Every participation that a fee was accrued for is of a process whose positive
\* verdict was committed to the chain.
THEOREM PaymentIsForConfirmedWork == Spec => []PaidWorkConfirmed
<1>1. Inv => PaidWorkConfirmed
  BY DEF Inv
<1> QED BY <1>1, Invariance, PTL
=============================================================================
