------------------------- MODULE OrchestratorTotals -------------------------
(***************************************************************************)
(* The totals that the runs of Orchestrator.tla keep, whatever interleaves,*)
(* stops, restarts or saves an old copy of a row: what the ledger and the  *)
(* pools can claim at most, what they hold exactly while no save was       *)
(* stale, how far the chain trails the ledger, and the work that nodes are *)
(* credited with.  Each total is a sum over the runs past a certain step,  *)
(* so each proof follows one run into that set, and the copies that runs   *)
(* hold between their awaits stay below the sum as well.                   *)
(***************************************************************************)
EXTENDS OrchestratorProofs, SumTheorems

-----------------------------------------------------------------------------
(* The path of a run. *)

Undecided ==
  {"new", "initiation", "eye_initiation", "admit", "resolve", "register", "registered", "assign",
   "eye_assignment", "stage", "complete", "work", "evaluate"}

Decided ==
  {"append_verdict", "save_verdict", "pot_verdict", "eye_verdict", "reject", "gate", "mint",
   "append_minted", "emission", "eye_mint", "accrue", "burn", "append_burned", "eye_burn",
   "final", "eye_final", "compare", "drift"}

\* A run has a verdict once it is past the evaluation; a refused one never has,
\* and a rejected one has no positive verdict.
PathOK(r) ==
  /\ pc[r] \in Undecided => verdict[r] = "none"
  /\ pc[r] \in Decided => verdict[r] # "none"
  /\ pc[r] = "reject" => verdict[r] # "verified"

PathsOK == \A r \in Runs : PathOK(r)

\* The moves that mint, burn, record a mint and accrue nothing.
PlainEdges ==
  { <<"new", "initiation">>, <<"initiation", "eye_initiation">>, <<"eye_initiation", "admit">>,
    <<"admit", "done">>, <<"admit", "resolve">>, <<"resolve", "assign">>, <<"resolve", "register">>,
    <<"register", "registered">>, <<"registered", "register">>, <<"registered", "resolve">>,
    <<"assign", "eye_assignment">>, <<"eye_assignment", "stage">>, <<"stage", "complete">>,
    <<"complete", "work">>, <<"work", "pot_verdict">>, <<"work", "evaluate">>,
    <<"evaluate", "append_verdict">>, <<"append_verdict", "save_verdict">>,
    <<"save_verdict", "pot_verdict">>, <<"pot_verdict", "eye_verdict">>, <<"eye_verdict", "gate">>,
    <<"eye_verdict", "reject">>, <<"reject", "compare">>, <<"gate", "mint">>,
    <<"emission", "eye_mint">>, <<"eye_mint", "accrue">>, <<"append_burned", "eye_burn">>,
    <<"eye_burn", "final">>, <<"final", "eye_final">>, <<"eye_final", "compare">>,
    <<"compare", "done">>, <<"compare", "drift">>, <<"drift", "done">> }

\* The moves on which a run gets its verdict.
VerdictEdges == { <<"work", "pot_verdict">>, <<"evaluate", "append_verdict">> }

\* The run moves from one label to the other, and decides on the way if it has to.
Moves(r, next) ==
  /\ pc' = [pc EXCEPT ![r] = next]
  /\ next = "reject" => verdict[r] # "verified"
  /\ \/ verdict' = verdict /\ <<pc[r], next>> \notin VerdictEdges
     \/ /\ <<pc[r], next>> \in VerdictEdges
        /\ \E v \in Verdicts \ {"none"} : verdict' = [verdict EXCEPT ![r] = v]

PlainStep(r) ==
  \/ CaptureStep(r) \/ WitnessStep(r) \/ DecisionStep(r) \/ ReadStep(r)
  \/ Resolve(r) \/ Register(r) \/ RecordRegistration(r) \/ RecordExecution(r)
  \/ SaveVerdict(r) \/ AppendVerdict(r) \/ AppendBurned(r) \/ Conflict(r) \/ Fail(r)

\* Every step is plain, or one of the four that move value, or a restart.
LEMMA ValueKinds ==
  ASSUME [Next]_vars
  PROVE  \/ \E r \in Runs :
              PlainStep(r) \/ RecordMint(r) \/ AppendMinted(r) \/ Accrue(r) \/ RecordBurn(r)
         \/ Restart \/ UNCHANGED vars
BY StepKinds DEF PlainStep, AppendStep

\* Where a plain step takes its run.
LEMMA PlainMove ==
  ASSUME TypeOK, NEW r \in Runs, PlainStep(r)
  PROVE  \/ UNCHANGED <<pc, verdict>>
         \/ \E next \in Labels : Moves(r, next) /\ <<pc[r], next>> \in PlainEdges
<1>1. CASE CaptureStep(r)
  <2>1. PICK here \in Labels, event \in CaptureEvents, next \in Labels :
          /\ Capture(r, here, event, next)
          /\ next # "reject" /\ <<here, next>> \in PlainEdges \ VerdictEdges
    BY <1>1 DEF CaptureStep, Initiate, TaskAssignment, StageTransition, ExecutionComplete,
         CaptureVerdict, Reject, CaptureEmission, FinalStatus, PlainEdges, VerdictEdges,
         Labels, CaptureEvents, RequiredBeforeVerdict
  <2> QED BY <2>1 DEF Capture, Moves, At, Goto
<1>2. CASE WitnessStep(r)
  <2>1. PICK here \in Labels, event \in EyeEvents, next \in Labels :
          /\ Witness(r, here, event, next)
          /\ next = "reject" => verdict[r] # "verified"
          /\ <<here, next>> \in PlainEdges \ VerdictEdges
    BY <1>2 DEF WitnessStep, WitnessInitiation, RefuseInadmissible, WitnessAssignment,
         WitnessVerdict, WitnessMint, WitnessBurn, WitnessFinal, WitnessDrift, PlainEdges,
         VerdictEdges, Labels, EyeEvents
  <2> QED BY <2>1 DEF Witness, Moves, At, Goto
<1>3. CASE AppendVerdict(r) \/ AppendBurned(r)
  <2>0. VerdictEvent(verdict[r]) \in ProcessEvents
    BY DEF VerdictEvent, ProcessEvents
  <2>1. PICK here \in Labels, event \in ProcessEvents, next \in Labels :
          /\ Recording(r, here, event, next)
          /\ next # "reject" /\ <<here, next>> \in PlainEdges \ VerdictEdges
    BY <1>3, <2>0 DEF AppendVerdict, AppendBurned, PlainEdges, VerdictEdges, Labels, ProcessEvents
  <2> QED BY <2>1 DEF Recording, Moves, At, Goto
<1>4. CASE Lookup(r)
  <2>1. verdictRow[Process(r)] \in Verdicts
    BY RequestType DEF TypeOK
  <2> QED BY <1>4, <2>1 DEF Lookup, Moves, At, Goto, PlainEdges, VerdictEdges, Labels
<1>5. CASE Evaluate(r)
  <2>1. PICK v \in {"verified", "rejected"} : verdict' = [verdict EXCEPT ![r] = v]
    BY <1>5 DEF Evaluate
  <2> QED BY <1>5, <2>1 DEF Evaluate, Moves, At, Goto, PlainEdges, VerdictEdges, Labels, Verdicts
<1>6. CASE Arrive(r) \/ Admit(r) \/ Gate(r) \/ CompareSupply(r) \/ Resolve(r)
  BY <1>6 DEF Arrive, Admit, Gate, CompareSupply, Resolve, Throw, Moves, At, Goto, PlainEdges,
       VerdictEdges, Labels
<1>7. CASE Register(r) \/ RecordRegistration(r) \/ SaveVerdict(r) \/ RecordExecution(r)
  BY <1>7 DEF Register, RecordRegistration, SaveVerdict, RecordExecution, Saving, Throw, Moves, At,
       Goto, PlainEdges, VerdictEdges, Labels
<1>8. CASE ReadStep(r) \/ Conflict(r) \/ Fail(r)
  BY <1>8 DEF ReadStep, Draft, Find, Load, LoadVerdict, Conflict, Fail, Throw
<1> QED BY <1>1, <1>2, <1>3, <1>4, <1>5, <1>6, <1>7, <1>8 DEF PlainStep, DecisionStep

\* The moves that move value; an accrual that cannot insert its row stops.
LEMMA ValueMove ==
  ASSUME TypeOK, NEW r \in Runs, RecordMint(r) \/ AppendMinted(r) \/ Accrue(r) \/ RecordBurn(r)
  PROVE  /\ UNCHANGED <<req, verdict>>
         /\ \A q \in Runs \ {r} : pc'[q] = pc[q]
         /\ RecordMint(r) => pc[r] = "mint" /\ pc'[r] = "append_minted"
         /\ AppendMinted(r) => pc[r] = "append_minted" /\ pc'[r] = "emission"
         /\ Accrue(r) => pc[r] = "accrue" /\ (pc'[r] = "burn" \/ pc' = pc)
         /\ RecordBurn(r) => pc[r] = "burn" /\ pc'[r] = "append_burned"
BY DEF TypeOK, RecordMint, AppendMinted, Accrue, RecordBurn, SaveLedger, Recording, Saving, At,
       Goto, Throw

\* Every run keeps to its path.
LEMMA PathStep ==
  ASSUME TypeOK, PathsOK, [Next]_vars
  PROVE  PathsOK'
<1>1. ASSUME NEW r \in Runs, NEW next \in Labels, Moves(r, next), <<pc[r], next>> \in PlainEdges
      PROVE  PathsOK'
  <2>1. /\ pc'[r] = next /\ \A q \in Runs \ {r} : pc'[q] = pc[q] /\ verdict'[q] = verdict[q]
        /\ \/ verdict'[r] = verdict[r] /\ <<pc[r], next>> \notin VerdictEdges
           \/ verdict'[r] # "none" /\ <<pc[r], next>> \in VerdictEdges
        /\ next = "reject" => verdict[r] # "verified"
    BY <1>1 DEF Moves, TypeOK
  <2>2. PathOK(r)'
    BY <1>1, <2>1 DEF PathsOK, PathOK, PlainEdges, VerdictEdges, Undecided, Decided
  <2>3. ASSUME NEW q \in Runs, q # r PROVE PathOK(q)'
    BY <2>1, <2>3 DEF PathsOK, PathOK
  <2> QED BY <2>2, <2>3 DEF PathsOK
<1>2. ASSUME UNCHANGED <<pc, verdict>> PROVE PathsOK'
  BY <1>2 DEF PathsOK, PathOK
<1>3. ASSUME NEW r \in Runs, RecordMint(r) \/ AppendMinted(r) \/ Accrue(r) \/ RecordBurn(r)
      PROVE  PathsOK'
  <2>1. /\ UNCHANGED verdict /\ \A q \in Runs \ {r} : pc'[q] = pc[q]
        /\ pc'[r] = pc[r] \/ (pc[r] \in Decided /\ pc'[r] \in Decided \ {"reject"})
        /\ pc'[r] = pc[r] \/ pc'[r] \notin Undecided
    BY <1>3, ValueMove DEF Decided, Undecided
  <2> QED BY <2>1 DEF PathsOK, PathOK
<1>4. ASSUME Restart \/ UNCHANGED vars PROVE UNCHANGED <<pc, verdict>>
  BY <1>4 DEF Restart, vars, runVars
<1> QED BY <1>1, <1>2, <1>3, <1>4, ValueKinds, PlainMove

-----------------------------------------------------------------------------
(* What a step appends, and the copies that runs hold. *)

\* A plain step records no mint, and only one kind of it records a completion.
LEMMA PlainAppends ==
  ASSUME TypeOK, NEW r \in Runs, PlainStep(r)
  PROVE  /\ RunsOf(appended', "emission.minted") = RunsOf(appended, "emission.minted")
         /\ ~ExecutionComplete(r) =>
              RunsOf(appended', "execution_complete") = RunsOf(appended, "execution_complete")
<1>1. \/ UNCHANGED appended
      \/ \E e, x : /\ appended' = appended \cup {<<e, x>>} /\ e # "emission.minted"
                   /\ e = "execution_complete" => ExecutionComplete(r)
  <2>1. CASE CaptureStep(r)
    <3>1. PICK here \in Labels, event \in CaptureEvents, next \in Labels :
            /\ Capture(r, here, event, next)
            /\ event = "execution_complete" => ExecutionComplete(r)
      BY <2>1 DEF CaptureStep, Initiate, TaskAssignment, StageTransition, ExecutionComplete,
           CaptureVerdict, Reject, CaptureEmission, FinalStatus, Labels, CaptureEvents,
           RequiredBeforeVerdict
    <3>2. appended' = appended \cup {<<event, r>>} /\ event # "emission.minted"
      BY <3>1 DEF Capture, Remember, Commit, CaptureEvents, RequiredBeforeVerdict
    <3> QED BY <3>1, <3>2
  <2>2. CASE AppendVerdict(r)
    <3>1. appended' = appended \cup {<<VerdictEvent(verdict[r]), r>>}
      BY <2>2 DEF AppendVerdict, Recording, Commit
    <3>2. VerdictEvent(verdict[r]) \notin {"emission.minted", "execution_complete"}
      BY DEF VerdictEvent
    <3> QED BY <3>1, <3>2
  <2>3. CASE AppendBurned(r)
    <3>1. appended' = appended \cup {<<"emission.burned", r>>}
      BY <2>3 DEF AppendBurned, Recording, Commit
    <3> QED BY <3>1
  <2>4. CASE RecordRegistration(r)
    <3>1. appended' = appended \cup {<<"node.registered", <<r, DefaultNodes[left[r]]>>>>}
      BY <2>4 DEF RecordRegistration, Commit
    <3>2. "node.registered" \notin {"emission.minted", "execution_complete"}
      OBVIOUS
    <3> DEFINE x == <<r, DefaultNodes[left[r]]>>
    <3>3. appended' = appended \cup {<<"node.registered", x>>}
      BY <3>1
    <3> HIDE DEF x
    <3> QED BY <3>2, <3>3
  <2>5. CASE WitnessStep(r)
    BY <2>5 DEF WitnessStep, WitnessInitiation, RefuseInadmissible, WitnessAssignment,
         WitnessVerdict, WitnessMint, WitnessBurn, WitnessFinal, WitnessDrift, Witness, chainVars
  <2>6. CASE DecisionStep(r) \/ ReadStep(r) \/ Resolve(r) \/ Conflict(r) \/ Fail(r)
    BY <2>6 DEF DecisionStep, Arrive, Admit, Lookup, Evaluate, Gate, CompareSupply, ReadStep, Draft,
         Find, Load, LoadVerdict, Resolve, Conflict, Fail, LocalStep, chainVars
  <2>7. CASE Register(r) \/ RecordExecution(r) \/ SaveVerdict(r)
    BY <2>7 DEF Register, RecordExecution, SaveVerdict, chainVars
  <2> QED BY <2>1, <2>2, <2>3, <2>4, <2>5, <2>6, <2>7 DEF PlainStep
<1> QED BY <1>1 DEF RunsOf

\* The requests, the ledger and the pools are as they were.
LEMMA PlainStores ==
  ASSUME TypeOK, NEW r \in Runs, PlainStep(r)
  PROVE  UNCHANGED <<req, ledger, pool, stale>>
<1>1. CASE CaptureStep(r) \/ AppendVerdict(r) \/ AppendBurned(r) \/ RecordRegistration(r)
  BY <1>1 DEF CaptureStep, Initiate, TaskAssignment, StageTransition, ExecutionComplete,
       CaptureVerdict, Reject, CaptureEmission, FinalStatus, Capture, AppendVerdict, AppendBurned,
       Recording, RecordRegistration, coinVars
<1>2. CASE WitnessStep(r)
  BY <1>2 DEF WitnessStep, WitnessInitiation, RefuseInadmissible, WitnessAssignment,
       WitnessVerdict, WitnessMint, WitnessBurn, WitnessFinal, WitnessDrift, Witness, coinVars
<1>3. CASE DecisionStep(r) \/ ReadStep(r) \/ Resolve(r) \/ Conflict(r) \/ Fail(r)
  BY <1>3 DEF DecisionStep, Arrive, Admit, Lookup, Evaluate, Gate, CompareSupply, ReadStep, Draft,
       Find, Load, LoadVerdict, Resolve, Conflict, Fail, LocalStep, coinVars
<1>4. CASE Register(r) \/ RecordExecution(r) \/ SaveVerdict(r)
  BY <1>4 DEF Register, RecordExecution, SaveVerdict, coinVars
<1> QED BY <1>1, <1>2, <1>3, <1>4 DEF PlainStep

\* The row that a run has found is the one it had, none, or the row as it is now.
FoundNext(q) ==
  \/ op'[q].found = op[q].found
  \/ op'[q].found = NoRow
  \/ (pc[q] \in FindLabels \/ Working(q)) /\ op'[q].found = Current(q)

\* That is so of every run and every step.
LEMMA FoundStep ==
  ASSUME TypeOK, [Next]_vars
  PROVE  \A q \in Runs : FoundNext(q)
<1>0. NoOp.found = NoRow
  BY DEF NoOp
<1>1. ASSUME NEW r \in Runs, op'[r] = NoOp, \A q \in Runs \ {r} : op'[q].found = op[q].found
      PROVE  \A q \in Runs : FoundNext(q)
  BY <1>0, <1>1 DEF FoundNext
<1>2. ASSUME NEW r \in Runs, CaptureStep(r) \/ AppendStep(r) \/ RecordRegistration(r)
      PROVE  \A q \in Runs : FoundNext(q)
  <2>1. PICK snapshot \in Snapshots : Commit(r, snapshot)
    <3>1. CASE CaptureStep(r)
      <4>1. PICK here \in Labels, event \in ProcessEvents, next \in Labels : Capture(r, here, event, next)
        BY <3>1 DEF CaptureStep, Initiate, TaskAssignment, StageTransition, ExecutionComplete,
             CaptureVerdict, Reject, CaptureEmission, FinalStatus, Labels, ProcessEvents,
             CaptureEvents, RequiredBeforeVerdict
      <4> QED BY <4>1, EventSnapshot DEF Capture, Remember
    <3>2. CASE AppendStep(r)
      <4>0. VerdictEvent(verdict[r]) \in ProcessEvents
        BY DEF VerdictEvent, ProcessEvents
      <4>1. PICK here \in Labels, event \in ProcessEvents, next \in Labels : Recording(r, here, event, next)
        BY <3>2, <4>0 DEF AppendStep, AppendVerdict, AppendMinted, AppendBurned, Labels, ProcessEvents
      <4> QED BY <4>1, EventSnapshot DEF Recording
    <3>3. CASE RecordRegistration(r)
      <4>1. DefaultNodes[left[r]] \in Nodes
        <5>1. left[r] \in Nat \ {0} /\ left[r] <= Len(DefaultNodes)
          BY <3>3 DEF RecordRegistration, At, TypeOK
        <5> QED BY <5>1, RosterAssumption
      <4>2. <<"node.registered", <<r, DefaultNodes[left[r]]>>>> \in Snapshots
        BY <4>1 DEF Snapshots
      <4> QED BY <3>3, <4>2 DEF RecordRegistration
    <3> QED BY <1>2, <3>1, <3>2, <3>3
  <2> QED BY <1>1, <2>1, CommitType
<1>3. ASSUME NEW r \in Runs, WitnessStep(r) \/ DecisionStep(r) \/ Resolve(r)
      PROVE  \A q \in Runs : FoundNext(q)
  <2>1. UNCHANGED op
    BY <1>3 DEF WitnessStep, WitnessInitiation, RefuseInadmissible, WitnessAssignment,
       WitnessVerdict, WitnessMint, WitnessBurn, WitnessFinal, WitnessDrift, Witness, DecisionStep,
       Arrive, Admit, Lookup, Evaluate, Gate, CompareSupply, Resolve
  <2> QED BY <2>1 DEF FoundNext
<1>4. ASSUME NEW r \in Runs, ReadStep(r)
      PROVE  \A q \in Runs : FoundNext(q)
  <2>0. op \in [Runs -> Op] /\ op[r] \in Op
    BY DEF TypeOK
  <2>1. \A q \in Runs \ {r} : op'[q] = op[q]
    BY <1>4, ReadOp
  <2>2. FoundNext(r)
    <3>1. CASE Find(r)
      <4>1. \/ op' = [op EXCEPT ![r] = [op[r] EXCEPT !.step = "found", !.found = Current(r)]]
            \/ UNCHANGED op
        BY <2>0, <3>1 DEF Find
      <4>2. pc[r] \in FindLabels \/ Working(r)
        BY <3>1 DEF Find, At, FindLabels
      <4>3. [op[r] EXCEPT !.step = "found", !.found = Current(r)].found = Current(r)
        BY <2>0 DEF Op
      <4> QED BY <2>0, <4>1, <4>2, <4>3 DEF FoundNext
    <3>2. CASE Draft(r)
      <4>1. op' = [op EXCEPT ![r] = [op[r] EXCEPT !.step = "drafted", !.rivals = Drafting]]
        BY <2>0, <3>2 DEF Draft
      <4>2. [op[r] EXCEPT !.step = "drafted", !.rivals = Drafting].found = op[r].found
        BY <2>0 DEF Op
      <4> QED BY <2>0, <4>1, <4>2 DEF FoundNext
    <3>3. CASE Load(r)
      <4>1. op' = [op EXCEPT ![r] = [op[r] EXCEPT !.step = "loaded", !.loaded = Current(r)]]
        BY <2>0, <3>3 DEF Load
      <4>2. [op[r] EXCEPT !.step = "loaded", !.loaded = Current(r)].found = op[r].found
        BY <2>0 DEF Op
      <4> QED BY <2>0, <4>1, <4>2 DEF FoundNext
    <3>4. CASE LoadVerdict(r)
      <4>1. op' = [op EXCEPT ![r] = [op[r] EXCEPT !.step = "loaded", !.verdict = verdictRow[Process(r)]]]
        BY <2>0, <3>4 DEF LoadVerdict
      <4>2. [op[r] EXCEPT !.step = "loaded", !.verdict = verdictRow[Process(r)]].found = op[r].found
        BY <2>0 DEF Op
      <4> QED BY <2>0, <4>1, <4>2 DEF FoundNext
    <3> QED BY <1>4, <3>1, <3>2, <3>3, <3>4 DEF ReadStep
  <2> QED BY <2>1, <2>2 DEF FoundNext
<1>5. ASSUME NEW r \in Runs,
             \/ Register(r) \/ RecordExecution(r) \/ SaveVerdict(r)
             \/ RecordMint(r) \/ RecordBurn(r) \/ Accrue(r)
      PROVE  \A q \in Runs : FoundNext(q)
  <2>1. op' = [op EXCEPT ![r] = NoOp]
    BY <1>5 DEF Register, RecordExecution, SaveVerdict, RecordMint, RecordBurn, SaveLedger, Accrue,
         Saving
  <2> QED BY <1>1, <2>1, SavedOp
<1>6. ASSUME NEW r \in Runs, Conflict(r) \/ Fail(r) PROVE \A q \in Runs : FoundNext(q)
  BY <1>1, <1>6, AbandonType DEF Conflict, Fail
<1>7. ASSUME Restart \/ UNCHANGED vars PROVE \A q \in Runs : FoundNext(q)
  BY <1>0, <1>7 DEF Restart, vars, runVars, FoundNext
<1> QED BY <1>2, <1>3, <1>4, <1>5, <1>6, <1>7, StepKinds

-----------------------------------------------------------------------------
(* Sums over runs. *)

AmountOf(S) == SumFunctionOnSet([x \in S |-> req[x].amount], S)

FeesOf(S) == SumFunctionOnSet([x \in S |-> computeFee(req[x].amount)], S)

Minters == {r \in Runs : HasMinted(r)}

Burners == {r \in Runs : HasBurned(r)}

OpenRuns == {r \in Runs : MintOpen(r)}

PendingRuns == {r \in Runs : pc[r] = "append_minted"}

MintSnapshots == RunsOf(appended, "emission.minted")

\* The runs that have accrued a fee to the pool of epoch e.
Payers(e) == {r \in Runs : FeePaid(r) /\ req[r].epoch = e}

\* The sum of amounts, and of fees, is a natural number, and a run more adds its own.
LEMMA RunsSum ==
  ASSUME TypeOK, NEW S \in SUBSET Runs, NEW r \in Runs
  PROVE  /\ AmountOf(S) \in Nat /\ FeesOf(S) \in Nat
         /\ r \notin S => AmountOf(S \cup {r}) = AmountOf(S) + req[r].amount
         /\ r \notin S => FeesOf(S \cup {r}) = FeesOf(S) + computeFee(req[r].amount)
<1>1. IsFiniteSet(S)
  BY FiniteAssumption, FS_Subset
<1>2. \A x \in Runs : req[x].amount \in Nat /\ computeFee(req[x].amount) \in Nat
  BY RequestType, FeeIsNat
<1>3. AmountOf(S) \in Nat
  <2> DEFINE f == [x \in S |-> req[x].amount]
  <2>1. \A x \in S : f[x] \in Nat
    BY <1>2
  <2> HIDE DEF f
  <2>2. SumFunctionOnSet(f, S) \in Nat
    BY <1>1, <2>1, SumNat
  <2> QED BY <2>2 DEF AmountOf, f
<1>4. FeesOf(S) \in Nat
  <2> DEFINE f == [x \in S |-> computeFee(req[x].amount)]
  <2>1. \A x \in S : f[x] \in Nat
    BY <1>2
  <2> HIDE DEF f
  <2>2. SumFunctionOnSet(f, S) \in Nat
    BY <1>1, <2>1, SumNat
  <2> QED BY <2>2 DEF FeesOf, f
<1>5. ASSUME r \notin S
      PROVE  AmountOf(S \cup {r}) = AmountOf(S) + req[r].amount
  <2> DEFINE f == [x \in S |-> req[x].amount]
             g == [x \in S \cup {r} |-> req[x].amount]
  <2>1. IntOn(g, S \cup {r}) /\ (\A x \in S : g[x] = f[x]) /\ g[r] = req[r].amount
    BY <1>2 DEF IntOn
  <2> HIDE DEF f, g
  <2>2. SumFunctionOnSet(g, S \cup {r}) = SumFunctionOnSet(f, S) + g[r]
    BY <1>1, <1>5, <2>1, SumGrow
  <2> QED BY <2>1, <2>2 DEF AmountOf, f, g
<1>6. ASSUME r \notin S
      PROVE  FeesOf(S \cup {r}) = FeesOf(S) + computeFee(req[r].amount)
  <2> DEFINE f == [x \in S |-> computeFee(req[x].amount)]
             g == [x \in S \cup {r} |-> computeFee(req[x].amount)]
  <2>1. /\ IntOn(g, S \cup {r}) /\ (\A x \in S : g[x] = f[x])
        /\ g[r] = computeFee(req[r].amount)
    BY <1>2 DEF IntOn
  <2> HIDE DEF f, g
  <2>2. SumFunctionOnSet(g, S \cup {r}) = SumFunctionOnSet(f, S) + g[r]
    BY <1>1, <1>6, <2>1, SumGrow
  <2> QED BY <2>1, <2>2 DEF FeesOf, f, g
<1> QED BY <1>3, <1>4, <1>5, <1>6

\* The amounts of two disjoint sets of runs add up.
LEMMA AmountUnion ==
  ASSUME TypeOK, NEW S \in SUBSET Runs, NEW T \in SUBSET Runs, S \cap T = {}
  PROVE  AmountOf(S \cup T) = AmountOf(S) + AmountOf(T)
<1> DEFINE f == [x \in S |-> req[x].amount]
           g == [x \in T |-> req[x].amount]
           h == [x \in S \cup T |-> req[x].amount]
<1>1. IsFiniteSet(S) /\ IsFiniteSet(T)
  BY FiniteAssumption, FS_Subset
<1>2. /\ IntOn(h, S \cup T)
      /\ \A x \in S : h[x] = f[x]
      /\ \A x \in T : h[x] = g[x]
  BY RequestType DEF IntOn
<1> HIDE DEF f, g, h
<1>3. SumFunctionOnSet(h, S \cup T) = SumFunctionOnSet(h, S) + SumFunctionOnSet(h, T)
  BY <1>1, <1>2, SumUnion
<1>4. /\ SumFunctionOnSet(h, S) = SumFunctionOnSet(f, S)
      /\ SumFunctionOnSet(h, T) = SumFunctionOnSet(g, T)
  BY <1>1, <1>2, SumCongruent
<1> QED BY <1>3, <1>4 DEF AmountOf, f, g, h

\* What has been minted is what has been burned and what is open.
LEMMA MintedOrOpen ==
  ASSUME TypeOK
  PROVE  /\ AmountOf(Minters) = AmountOf(Burners) + AmountOf(OpenRuns)
         /\ AmountOf(Minters) \in Nat /\ AmountOf(Burners) \in Nat /\ AmountOf(OpenRuns) \in Nat
<1>1. Burners \in SUBSET Runs /\ OpenRuns \in SUBSET Runs /\ Minters \in SUBSET Runs
  BY DEF Burners, OpenRuns, Minters
<1>2. Burners \cap OpenRuns = {}
  BY DEF Burners, OpenRuns, HasBurned, MintOpen, FeePaid
<1>3. Minters = Burners \cup OpenRuns
  BY DEF Minters, Burners, OpenRuns, HasMinted, HasBurned, MintOpen
<1>4. AmountOf(Burners \cup OpenRuns) = AmountOf(Burners) + AmountOf(OpenRuns)
  BY <1>1, <1>2, AmountUnion
<1>5. AmountOf(Minters) = AmountOf(Burners) + AmountOf(OpenRuns)
  BY <1>3, <1>4, Zenon
<1>6. ASSUME NEW S \in SUBSET Runs PROVE AmountOf(S) \in Nat
  <2>1. CASE Runs = {}
    BY <2>1, SumEmpty DEF AmountOf
  <2>2. CASE Runs # {}
    BY <2>2, RunsSum
  <2> QED BY <2>1, <2>2
<1> QED BY <1>1, <1>5, <1>6

-----------------------------------------------------------------------------
(* The invariant. *)

\* The ledger against what runs have minted and burned.
LedgerTallies ==
  /\ ledger.minted <= AmountOf(Minters) /\ ledger.burned <= AmountOf(Burners)
  /\ ~stale.ledger => ledger.minted = AmountOf(Minters) /\ ledger.burned = AmountOf(Burners)

\* What a run that has minted has recorded.
MintRecords == MintSnapshots = Minters \ PendingRuns

\* The copies that runs hold claim no more than the rows may.
CopyBounded(r) ==
  /\ op[r].found.minted <= AmountOf(Minters)
  /\ op[r].found.burned <= AmountOf(Burners)
  /\ op[r].found.fees <= FeesOf(Payers(req[r].epoch))

Totals == LedgerTallies /\ PoolIsFees /\ MintRecords /\ \A r \in Runs : CopyBounded(r)

TotalsInv == Inv /\ PathsOK /\ Totals

\* The pools in terms of the runs that have paid.
LEMMA PoolAs ==
  PoolIsFees <=>
    \A e \in Epochs : /\ pool[e] <= FeesOf(Payers(e))
                      /\ pool[e] = FeesOf(Payers(e)) \/ e \in stale.epochs
BY Zenon DEF PoolIsFees, SumOver, Fee, Amount, FeesOf, Payers

\* The sums are naturals.
LEMMA SumsNat ==
  ASSUME TypeOK, NEW r \in Runs
  PROVE  /\ AmountOf(Minters) \in Nat /\ AmountOf(Burners) \in Nat
         /\ \A e \in Epochs : FeesOf(Payers(e)) \in Nat
<1>1. Minters \in SUBSET Runs /\ Burners \in SUBSET Runs /\ \A e \in Epochs : Payers(e) \in SUBSET Runs
  BY DEF Minters, Burners, Payers
<1> QED BY <1>1, RunsSum

\* The row as it is now claims no more either.
LEMMA CurrentBounded ==
  ASSUME TypeOK, Totals, NEW r \in Runs
  PROVE  /\ Current(r).minted <= AmountOf(Minters)
         /\ Current(r).burned <= AmountOf(Burners)
         /\ Current(r).fees <= FeesOf(Payers(req[r].epoch))
<1>1. /\ AmountOf(Minters) \in Nat /\ AmountOf(Burners) \in Nat
      /\ FeesOf(Payers(req[r].epoch)) \in Nat
      /\ req[r].epoch \in Epochs
  BY SumsNat, RequestType
<1>2. CASE pc[r] \in {"mint", "burn"}
  <2>1. Current(r) = [exists |-> TRUE, minted |-> ledger.minted, burned |-> ledger.burned,
                      fees |-> 0, total |-> 0]
    BY <1>2 DEF Current, NoRow
  <2>2. ledger.minted <= AmountOf(Minters) /\ ledger.burned <= AmountOf(Burners)
    BY DEF Totals, LedgerTallies
  <2>3. 0 <= FeesOf(Payers(req[r].epoch))
    BY <1>1
  <2> QED BY <2>1, <2>2, <2>3
<1>3. CASE pc[r] = "accrue"
  <2>1. Current(r) = [exists |-> (req[r].epoch \in opened), minted |-> 0, burned |-> 0,
                      fees |-> pool[req[r].epoch], total |-> 0]
    BY <1>3 DEF Current, NoRow
  <2>2. pool[req[r].epoch] <= FeesOf(Payers(req[r].epoch))
    BY <1>1, PoolAs DEF Totals
  <2>3. 0 <= AmountOf(Minters) /\ 0 <= AmountOf(Burners)
    BY <1>1
  <2> QED BY <2>1, <2>2, <2>3
<1>4. CASE pc[r] \notin {"mint", "burn", "accrue"}
  <2>1. Current(r) = [exists |-> Registered(Node(r)), minted |-> 0, burned |-> 0, fees |-> 0,
                      total |-> work[Node(r)]]
    BY <1>4 DEF Current, NoRow
  <2>2. 0 <= AmountOf(Minters) /\ 0 <= AmountOf(Burners) /\ 0 <= FeesOf(Payers(req[r].epoch))
    BY <1>1
  <2> QED BY <2>1, <2>2
<1> QED BY <1>2, <1>3, <1>4

-----------------------------------------------------------------------------
(* The steps. *)

\* While the requests stay, a sum depends on the set of runs only.
LEMMA SumsNext ==
  ASSUME UNCHANGED req
  PROVE  /\ AmountOf(Minters)' = AmountOf(Minters')
         /\ AmountOf(Burners)' = AmountOf(Burners')
         /\ \A e \in Epochs : FeesOf(Payers(e))' = FeesOf(Payers(e)')
BY Zenon DEF AmountOf, FeesOf

\* The pools of the next state.
LEMMA PoolNext ==
  ASSUME \A e \in Epochs : /\ pool'[e] <= FeesOf(Payers(e))'
                           /\ pool'[e] = FeesOf(Payers(e))' \/ e \in stale'.epochs
  PROVE  PoolIsFees'
BY Zenon DEF PoolIsFees, SumOver, Fee, Amount, FeesOf, Payers

\* No sum gets smaller, and what is a natural stays one.
SumsGrow ==
  /\ AmountOf(Minters)' \in Nat /\ AmountOf(Minters) <= AmountOf(Minters)'
  /\ AmountOf(Burners)' \in Nat /\ AmountOf(Burners) <= AmountOf(Burners)'
  /\ \A e \in Epochs : FeesOf(Payers(e))' \in Nat /\ FeesOf(Payers(e)) <= FeesOf(Payers(e))'

\* Then the copies of the next state are bounded too.
LEMMA CopiesNext ==
  ASSUME TypeOK, Totals, UNCHANGED req, SumsGrow, \A q \in Runs : FoundNext(q)
  PROVE  \A q \in Runs : CopyBounded(q)'
<1> SUFFICES ASSUME NEW q \in Runs PROVE CopyBounded(q)'
  OBVIOUS
<1> DEFINE e == req[q].epoch
<1>1. e \in Epochs /\ FeesOf(Payers(req[q].epoch))' = FeesOf(Payers(e))'
  BY RequestType
<1>2. /\ AmountOf(Minters) \in Nat /\ AmountOf(Burners) \in Nat /\ FeesOf(Payers(e)) \in Nat
  BY <1>1, SumsNat
<1>3. /\ AmountOf(Minters)' \in Nat /\ AmountOf(Minters) <= AmountOf(Minters)'
      /\ AmountOf(Burners)' \in Nat /\ AmountOf(Burners) <= AmountOf(Burners)'
      /\ FeesOf(Payers(e))' \in Nat /\ FeesOf(Payers(e)) <= FeesOf(Payers(e))'
  <2>1. ASSUME NEW x \in Epochs
        PROVE  FeesOf(Payers(x))' \in Nat /\ FeesOf(Payers(x)) <= FeesOf(Payers(x))'
    BY DEF SumsGrow
  <2>2. PICK x \in Epochs : x = req[q].epoch
    BY <1>1
  <2>3. FeesOf(Payers(x))' = FeesOf(Payers(e))'
    BY <2>2, Zenon DEF FeesOf, Payers
  <2> QED BY <2>1, <2>2, <2>3 DEF SumsGrow
<1>4. /\ op[q].found.minted \in Nat /\ op[q].found.burned \in Nat /\ op[q].found.fees \in Nat
      /\ op[q].found.minted <= AmountOf(Minters) /\ op[q].found.burned <= AmountOf(Burners)
      /\ op[q].found.fees <= FeesOf(Payers(e))
  BY OpFields DEF Totals, CopyBounded
<1>5. CASE op'[q].found = op[q].found
  <2>1. /\ op'[q].found.minted <= AmountOf(Minters)' /\ op'[q].found.burned <= AmountOf(Burners)'
        /\ op'[q].found.fees <= FeesOf(Payers(e))'
    <3> HIDE DEF e
    <3> QED BY <1>2, <1>3, <1>4, <1>5
  <2> QED BY <2>1 DEF CopyBounded
<1>6. CASE op'[q].found = NoRow
  <2>1. NoRow.minted = 0 /\ NoRow.burned = 0 /\ NoRow.fees = 0
    BY DEF NoRow
  <2>2. /\ op'[q].found.minted <= AmountOf(Minters)' /\ op'[q].found.burned <= AmountOf(Burners)'
        /\ op'[q].found.fees <= FeesOf(Payers(e))'
    <3> HIDE DEF e
    <3> QED BY <1>3, <1>6, <2>1
  <2> QED BY <2>2 DEF CopyBounded
<1>7. CASE (pc[q] \in FindLabels \/ Working(q)) /\ op'[q].found = Current(q)
  <2>1. Current(q) \in Row
    BY <1>7, CurrentType DEF FindLabels
  <2>2. Current(q).minted \in Nat /\ Current(q).burned \in Nat /\ Current(q).fees \in Nat
    BY <2>1 DEF Row
  <2>3. /\ Current(q).minted <= AmountOf(Minters) /\ Current(q).burned <= AmountOf(Burners)
        /\ Current(q).fees <= FeesOf(Payers(e))
    BY CurrentBounded
  <2>4. /\ op'[q].found.minted <= AmountOf(Minters)' /\ op'[q].found.burned <= AmountOf(Burners)'
        /\ op'[q].found.fees <= FeesOf(Payers(e))'
    <3> HIDE DEF e
    <3> QED BY <1>2, <1>3, <1>7, <2>2, <2>3
  <2> QED BY <2>4 DEF CopyBounded
<1> QED BY <1>5, <1>6, <1>7 DEF FoundNext

\* Nothing that the totals are about changes.
Neutral ==
  /\ UNCHANGED <<req, ledger, pool, stale>>
  /\ Minters' = Minters /\ Burners' = Burners /\ PendingRuns' = PendingRuns
  /\ MintSnapshots' = MintSnapshots
  /\ \A e \in Epochs : Payers(e)' = Payers(e)

\* The totals keep their values in a neutral step.
LEMMA NeutralTotals ==
  ASSUME TypeOK, Totals, Neutral, \A q \in Runs : FoundNext(q)
  PROVE  Totals'
<1>1. UNCHANGED <<req, ledger, pool, stale>> /\ PendingRuns' = PendingRuns /\ MintSnapshots' = MintSnapshots
  BY DEF Neutral
<1>2. AmountOf(Minters)' = AmountOf(Minters) /\ AmountOf(Burners)' = AmountOf(Burners)
  BY SumsNext DEF Neutral
<1>3. ASSUME NEW e \in Epochs PROVE FeesOf(Payers(e))' = FeesOf(Payers(e))
  BY SumsNext DEF Neutral
<1>4. LedgerTallies'
  BY <1>1, <1>2 DEF Totals, LedgerTallies
<1>5. PoolIsFees'
  <2>1. \A e \in Epochs : /\ pool[e] <= FeesOf(Payers(e))
                          /\ pool[e] = FeesOf(Payers(e)) \/ e \in stale.epochs
    BY PoolAs DEF Totals
  <2> QED BY <1>1, <1>3, <2>1, PoolNext
<1>6. MintRecords'
  BY DEF Neutral, Totals, MintRecords
<1>7. \A q \in Runs : CopyBounded(q)'
  <2>1. CASE Runs = {}
    BY <2>1
  <2>2. CASE Runs # {}
    <3>1. PICK r \in Runs : TRUE
      BY <2>2
    <3>2. /\ AmountOf(Minters) \in Nat /\ AmountOf(Burners) \in Nat
          /\ \A e \in Epochs : FeesOf(Payers(e)) \in Nat
      BY <3>1, SumsNat
    <3>3. SumsGrow
      BY <1>2, <1>3, <3>2 DEF SumsGrow
    <3> QED BY <1>1, <3>3, CopiesNext
  <2> QED BY <2>1, <2>2
<1> QED BY <1>4, <1>5, <1>6, <1>7 DEF Totals

\* A plain step, a restart and a stutter are neutral.
LEMMA PlainNeutral ==
  ASSUME TotalsInv, NEW r \in Runs, PlainStep(r)
  PROVE  Neutral
<1>0. TypeOK /\ PathOK(r) /\ (pc[r] \in AfterGate => verdict[r] = "verified")
  BY DEF TotalsInv, Inv, PathsOK, RunsBacked, RunBacked
<1>1. UNCHANGED <<req, ledger, pool, stale>> /\ MintSnapshots' = MintSnapshots
  BY <1>0, PlainStores, PlainAppends DEF MintSnapshots, RunsOf
<1>2. ASSUME NEW q \in Runs
      PROVE  /\ MintOpen(q)' <=> MintOpen(q)
             /\ FeePaid(q)' <=> FeePaid(q)
             /\ HasBurned(q)' <=> HasBurned(q)
             /\ pc'[q] = "append_minted" <=> pc[q] = "append_minted"
  <2>1. CASE pc'[q] = pc[q] /\ verdict'[q] = verdict[q]
    BY <2>1 DEF MintOpen, FeePaid, HasBurned
  <2>2. CASE ~(pc'[q] = pc[q] /\ verdict'[q] = verdict[q])
    <3>1. PICK next \in Labels : Moves(r, next) /\ <<pc[r], next>> \in PlainEdges
      BY <1>0, <2>2, PlainMove
    <3>2. /\ q = r /\ pc'[r] = next
          /\ verdict'[r] = verdict[r] \/ <<pc[r], next>> \in VerdictEdges
      BY <1>0, <2>2, <3>1 DEF Moves, TypeOK
    <3> QED BY <1>0, <3>1, <3>2 DEF PlainEdges, VerdictEdges, PathOK, Undecided, AfterGate,
                                    MintOpen, FeePaid, HasBurned
  <2> QED BY <2>1, <2>2
<1>3. Minters' = Minters /\ Burners' = Burners /\ PendingRuns' = PendingRuns
  BY <1>2 DEF Minters, Burners, PendingRuns, HasMinted
<1>4. \A e \in Epochs : Payers(e)' = Payers(e)
  BY <1>1, <1>2 DEF Payers
<1> QED BY <1>1, <1>3, <1>4 DEF Neutral

\* A restart and a stutter are neutral.
LEMMA OutsideNeutral ==
  ASSUME Restart \/ UNCHANGED vars
  PROVE  Neutral
<1>1. UNCHANGED <<req, ledger, pool, stale, pc, verdict, appended>>
  BY DEF Restart, vars, runVars, chainVars, coinVars
<1> QED BY <1>1 DEF Neutral, Minters, Burners, PendingRuns, MintSnapshots, RunsOf, Payers,
                    HasMinted, HasBurned, MintOpen, FeePaid

-----------------------------------------------------------------------------
(* The steps that move value. *)

\* A save of the ledger claims at most what was there and what it adds; and exactly
\* that, if the copies it was made from were the row.
LEMMA LedgerSaved ==
  ASSUME TypeOK, Totals, NEW r \in Runs, NEW here \in {"mint", "burn"}, NEW a \in Nat, NEW b \in Nat,
         NEW next \in Labels, SaveLedger(r, here, a, b, next)
  PROVE  /\ ledger'.minted <= AmountOf(Minters) + a /\ ledger'.burned <= AmountOf(Burners) + b
         /\ ~stale'.ledger => /\ ~stale.ledger
                              /\ ledger'.minted = ledger.minted + a
                              /\ ledger'.burned = ledger.burned + b
         /\ stale'.epochs = stale.epochs
<1>1. /\ ledger'.minted = Written(op[r].found.minted + a, op[r].loaded.minted, ledger.minted)
      /\ ledger'.burned = Written(op[r].found.burned + b, op[r].loaded.burned, ledger.burned)
      /\ stale'.ledger = (stale.ledger \/ Outdated(r)) /\ stale'.epochs = stale.epochs
      /\ pc[r] \in {"mint", "burn"}
  BY DEF SaveLedger, Saving, At, TypeOK
<1>2. /\ op[r].found.minted \in Nat /\ op[r].found.burned \in Nat
      /\ AmountOf(Minters) \in Nat /\ AmountOf(Burners) \in Nat
  BY OpFields, SumsNat
<1>3. ledger.minted \in Nat /\ ledger.burned \in Nat
  BY DEF TypeOK
<1>4. /\ op[r].found.minted <= AmountOf(Minters) /\ op[r].found.burned <= AmountOf(Burners)
      /\ ledger.minted <= AmountOf(Minters) /\ ledger.burned <= AmountOf(Burners)
  BY DEF Totals, LedgerTallies, CopyBounded
<1>5. /\ ledger'.minted = ledger.minted \/ ledger'.minted = op[r].found.minted + a
      /\ ledger'.burned = ledger.burned \/ ledger'.burned = op[r].found.burned + b
  BY <1>1 DEF Written
<1>6. ASSUME ~stale'.ledger
      PROVE  /\ ~stale.ledger
             /\ ledger'.minted = ledger.minted + a /\ ledger'.burned = ledger.burned + b
  <2>1. ~stale.ledger /\ op[r].found = Current(r) /\ op[r].loaded = Current(r)
    BY <1>1, <1>6 DEF Outdated
  <2>2. Current(r) = [exists |-> TRUE, minted |-> ledger.minted, burned |-> ledger.burned,
                      fees |-> 0, total |-> 0]
    BY <1>1 DEF Current, NoRow
  <2>3. /\ ledger'.minted = Written(ledger.minted + a, ledger.minted, ledger.minted)
        /\ ledger'.burned = Written(ledger.burned + b, ledger.burned, ledger.burned)
    BY <1>1, <2>1, <2>2
  <2> QED BY <1>3, <2>1, <2>3 DEF Written
<1>7. ledger'.minted <= AmountOf(Minters) + a /\ ledger'.burned <= AmountOf(Burners) + b
  BY <1>2, <1>3, <1>4, <1>5
<1> QED BY <1>1, <1>6, <1>7

\* Minting: the run joins those that have minted and have yet to record it.
LEMMA MintTotals ==
  ASSUME TotalsInv, \A q \in Runs : FoundNext(q), NEW r \in Runs, RecordMint(r)
  PROVE  Totals'
<1>0. TypeOK /\ Totals
  BY DEF TotalsInv, Inv
<1>1. /\ UNCHANGED <<req, verdict>> /\ pc[r] = "mint" /\ pc'[r] = "append_minted"
      /\ \A q \in Runs \ {r} : pc'[q] = pc[q]
  BY <1>0, ValueMove
<1>2. /\ Minters' = Minters \cup {r} /\ r \notin Minters /\ Burners' = Burners
      /\ PendingRuns' = PendingRuns \cup {r} /\ \A e \in Epochs : Payers(e)' = Payers(e)
  BY <1>1 DEF Minters, Burners, PendingRuns, Payers, HasMinted, HasBurned, MintOpen, FeePaid
<1>3. PICK a \in Nat : a = req[r].amount /\ SaveLedger(r, "mint", a, 0, "append_minted")
  BY <1>0, RequestType DEF RecordMint, Amount
<1>4. UNCHANGED <<pool, appended>>
  BY <1>3 DEF SaveLedger, chainVars
<1>5. /\ Minters \in SUBSET Runs
      /\ AmountOf(Minters) \in Nat /\ AmountOf(Burners) \in Nat
      /\ \A e \in Epochs : FeesOf(Payers(e)) \in Nat
  BY <1>0, SumsNat DEF Minters
<1>6. /\ AmountOf(Minters)' = AmountOf(Minters) + a /\ AmountOf(Burners)' = AmountOf(Burners)
      /\ \A e \in Epochs : FeesOf(Payers(e))' = FeesOf(Payers(e))
  <2>1. AmountOf(Minters \cup {r}) = AmountOf(Minters) + a
    BY <1>0, <1>2, <1>3, <1>5, RunsSum
  <2> QED BY <1>1, <1>2, <2>1, SumsNext
<1>7. /\ ledger'.minted <= AmountOf(Minters) + a /\ ledger'.burned <= AmountOf(Burners) + 0
      /\ ~stale'.ledger => /\ ~stale.ledger
                           /\ ledger'.minted = ledger.minted + a
                           /\ ledger'.burned = ledger.burned + 0
      /\ stale'.epochs = stale.epochs
  <2>1. "append_minted" \in Labels
    BY DEF Labels
  <2> QED BY <1>0, <1>3, <2>1, LedgerSaved
<1>8. LedgerTallies'
  <2>1. ledger.burned \in Nat /\ ledger'.burned <= AmountOf(Burners)
    BY <1>0, <1>5, <1>7 DEF TypeOK
  <2>2. /\ ~stale.ledger => ledger.minted = AmountOf(Minters) /\ ledger.burned = AmountOf(Burners)
    BY <1>0 DEF Totals, LedgerTallies
  <2>3. ~stale'.ledger => ledger'.minted = AmountOf(Minters) + a /\ ledger'.burned = AmountOf(Burners)
    BY <1>5, <1>7, <2>1, <2>2
  <2> QED BY <1>6, <1>7, <2>1, <2>3 DEF LedgerTallies
<1>9. PoolIsFees'
  <2>1. \A e \in Epochs : /\ pool[e] <= FeesOf(Payers(e))
                          /\ pool[e] = FeesOf(Payers(e)) \/ e \in stale.epochs
    BY <1>0, PoolAs DEF Totals
  <2> QED BY <1>4, <1>6, <1>7, <2>1, PoolNext
<1>10. MintRecords'
  <2>1. MintSnapshots' = MintSnapshots
    BY <1>4 DEF MintSnapshots, RunsOf
  <2>2. MintSnapshots = Minters \ PendingRuns
    BY <1>0 DEF Totals, MintRecords
  <2>3. Minters' \ PendingRuns' = Minters \ PendingRuns
    BY <1>2
  <2> QED BY <2>1, <2>2, <2>3 DEF MintRecords
<1>11. \A q \in Runs : CopyBounded(q)'
  <2>1. SumsGrow
    BY <1>5, <1>6 DEF SumsGrow
  <2> QED BY <1>0, <1>1, <2>1, CopiesNext
<1> QED BY <1>8, <1>9, <1>10, <1>11 DEF Totals

\* Burning: the run joins those that have burned.
LEMMA BurnTotals ==
  ASSUME TotalsInv, \A q \in Runs : FoundNext(q), NEW r \in Runs, RecordBurn(r)
  PROVE  Totals'
<1>0. TypeOK /\ Totals
  BY DEF TotalsInv, Inv
<1>1. /\ UNCHANGED <<req, verdict>> /\ pc[r] = "burn" /\ pc'[r] = "append_burned"
      /\ \A q \in Runs \ {r} : pc'[q] = pc[q]
  BY <1>0, ValueMove
<1>2. /\ Burners' = Burners \cup {r} /\ r \notin Burners /\ Minters' = Minters
      /\ PendingRuns' = PendingRuns /\ \A e \in Epochs : Payers(e)' = Payers(e)
  BY <1>1 DEF Minters, Burners, PendingRuns, Payers, HasMinted, HasBurned, MintOpen, FeePaid
<1>3. PICK b \in Nat : b = req[r].amount /\ SaveLedger(r, "burn", 0, b, "append_burned")
  BY <1>0, RequestType DEF RecordBurn, Amount
<1>4. UNCHANGED <<pool, appended>>
  BY <1>3 DEF SaveLedger, chainVars
<1>5. /\ Burners \in SUBSET Runs
      /\ AmountOf(Minters) \in Nat /\ AmountOf(Burners) \in Nat
      /\ \A e \in Epochs : FeesOf(Payers(e)) \in Nat
  BY <1>0, SumsNat DEF Burners
<1>6. /\ AmountOf(Burners)' = AmountOf(Burners) + b /\ AmountOf(Minters)' = AmountOf(Minters)
      /\ \A e \in Epochs : FeesOf(Payers(e))' = FeesOf(Payers(e))
  <2>1. AmountOf(Burners \cup {r}) = AmountOf(Burners) + b
    BY <1>0, <1>2, <1>3, <1>5, RunsSum
  <2> QED BY <1>1, <1>2, <2>1, SumsNext
<1>7. /\ ledger'.minted <= AmountOf(Minters) + 0 /\ ledger'.burned <= AmountOf(Burners) + b
      /\ ~stale'.ledger => /\ ~stale.ledger
                           /\ ledger'.minted = ledger.minted + 0
                           /\ ledger'.burned = ledger.burned + b
      /\ stale'.epochs = stale.epochs
  <2>1. "append_burned" \in Labels
    BY DEF Labels
  <2> QED BY <1>0, <1>3, <2>1, LedgerSaved
<1>8. LedgerTallies'
  <2>1. ledger.minted \in Nat /\ ledger'.minted <= AmountOf(Minters)
    BY <1>0, <1>5, <1>7 DEF TypeOK
  <2>2. /\ ~stale.ledger => ledger.minted = AmountOf(Minters) /\ ledger.burned = AmountOf(Burners)
    BY <1>0 DEF Totals, LedgerTallies
  <2>3. ~stale'.ledger => ledger'.minted = AmountOf(Minters) /\ ledger'.burned = AmountOf(Burners) + b
    BY <1>5, <1>7, <2>1, <2>2
  <2> QED BY <1>6, <1>7, <2>1, <2>3 DEF LedgerTallies
<1>9. PoolIsFees'
  <2>1. \A e \in Epochs : /\ pool[e] <= FeesOf(Payers(e))
                          /\ pool[e] = FeesOf(Payers(e)) \/ e \in stale.epochs
    BY <1>0, PoolAs DEF Totals
  <2> QED BY <1>4, <1>6, <1>7, <2>1, PoolNext
<1>10. MintRecords'
  BY <1>0, <1>2, <1>4 DEF Totals, MintRecords, MintSnapshots, RunsOf
<1>11. \A q \in Runs : CopyBounded(q)'
  <2>1. SumsGrow
    BY <1>5, <1>6 DEF SumsGrow
  <2> QED BY <1>0, <1>1, <2>1, CopiesNext
<1> QED BY <1>8, <1>9, <1>10, <1>11 DEF Totals

\* Recording the mint: the run leaves those yet to record it.
LEMMA AppendMintedTotals ==
  ASSUME TotalsInv, \A q \in Runs : FoundNext(q), NEW r \in Runs, AppendMinted(r)
  PROVE  Totals'
<1>0. TypeOK /\ Totals
  BY DEF TotalsInv, Inv
<1>1. /\ UNCHANGED <<req, verdict>> /\ pc[r] = "append_minted" /\ pc'[r] = "emission"
      /\ \A q \in Runs \ {r} : pc'[q] = pc[q]
  BY <1>0, ValueMove
<1>2. /\ Minters' = Minters /\ r \in Minters /\ Burners' = Burners
      /\ PendingRuns' = PendingRuns \ {r} /\ \A e \in Epochs : Payers(e)' = Payers(e)
  BY <1>1 DEF Minters, Burners, PendingRuns, Payers, HasMinted, HasBurned, MintOpen, FeePaid
<1>3. /\ UNCHANGED <<ledger, pool, stale>>
      /\ appended' = appended \cup {<<"emission.minted", r>>}
  BY DEF AppendMinted, Recording, Commit, coinVars
<1>4. /\ AmountOf(Minters) \in Nat /\ AmountOf(Burners) \in Nat
      /\ \A e \in Epochs : FeesOf(Payers(e)) \in Nat
  BY <1>0, SumsNat
<1>5. /\ AmountOf(Minters)' = AmountOf(Minters) /\ AmountOf(Burners)' = AmountOf(Burners)
      /\ \A e \in Epochs : FeesOf(Payers(e))' = FeesOf(Payers(e))
  BY <1>1, <1>2, SumsNext
<1>6. LedgerTallies'
  BY <1>0, <1>3, <1>5 DEF Totals, LedgerTallies
<1>7. PoolIsFees'
  <2>1. \A e \in Epochs : /\ pool[e] <= FeesOf(Payers(e))
                          /\ pool[e] = FeesOf(Payers(e)) \/ e \in stale.epochs
    BY <1>0, PoolAs DEF Totals
  <2> QED BY <1>3, <1>5, <2>1, PoolNext
<1>8. MintRecords'
  <2>1. MintSnapshots' = MintSnapshots \cup {r}
    BY <1>3 DEF MintSnapshots, RunsOf
  <2>2. MintSnapshots = Minters \ PendingRuns
    BY <1>0 DEF Totals, MintRecords
  <2> QED BY <1>2, <2>1, <2>2 DEF MintRecords
<1>9. \A q \in Runs : CopyBounded(q)'
  <2>1. SumsGrow
    BY <1>4, <1>5 DEF SumsGrow
  <2> QED BY <1>0, <1>1, <2>1, CopiesNext
<1> QED BY <1>6, <1>7, <1>8, <1>9 DEF Totals

\* Accruing the fee: the run joins those that have paid into its epoch's pool, or stops.
LEMMA AccrueTotals ==
  ASSUME TotalsInv, \A q \in Runs : FoundNext(q), NEW r \in Runs, Accrue(r)
  PROVE  Totals'
<1>0. TypeOK /\ Totals
  BY DEF TotalsInv, Inv
<1>1. /\ UNCHANGED <<req, verdict>> /\ pc[r] = "accrue"
      /\ \A q \in Runs \ {r} : pc'[q] = pc[q]
  BY <1>0, ValueMove
<1>2. UNCHANGED <<ledger, appended>>
  BY DEF Accrue, chainVars
<1>3. CASE UNCHANGED <<pc, pool, stale>>
  <2>1. Neutral
    BY <1>1, <1>2, <1>3 DEF Neutral, Minters, Burners, PendingRuns, MintSnapshots, RunsOf, Payers,
                            HasMinted, HasBurned, MintOpen, FeePaid
  <2> QED BY <1>0, <2>1, NeutralTotals
<1>4. CASE ~UNCHANGED <<pc, pool, stale>>
  <2> DEFINE e == req[r].epoch
             fee == computeFee(req[r].amount)
  <2>1. /\ pc' = [pc EXCEPT ![r] = "burn"]
        /\ pool' = [pool EXCEPT ![e] = IF op[r].loaded.exists
                                       THEN Written(op[r].found.fees + fee, op[r].loaded.fees, @)
                                       ELSE op[r].found.fees + fee]
        /\ stale' = [stale EXCEPT !.epochs = IF Outdated(r) THEN @ \cup {e} ELSE @]
    BY <1>4 DEF Accrue, Goto, Throw, Amount
  <2>2. /\ e \in Epochs /\ fee \in Nat /\ op[r].found.fees \in Nat
        /\ \A x \in Epochs : pool[x] \in Nat
        /\ pc'[r] = "burn"
        /\ stale'.ledger = stale.ledger
        /\ stale'.epochs = IF Outdated(r) THEN stale.epochs \cup {e} ELSE stale.epochs
    <3>1. e \in Epochs /\ fee \in Nat /\ op[r].found.fees \in Nat
      BY <1>0, RequestType, FeeIsNat, OpFields
    <3>2. /\ \A x \in Epochs : pool[x] \in Nat
          /\ pc'[r] = "burn"
          /\ stale'.ledger = stale.ledger
          /\ stale'.epochs = IF Outdated(r) THEN stale.epochs \cup {e} ELSE stale.epochs
      BY <1>0, <2>1 DEF TypeOK
    <3> QED BY <3>1, <3>2
  <2>3. /\ Minters' = Minters /\ Burners' = Burners /\ PendingRuns' = PendingRuns
        /\ \A x \in Epochs \ {e} : Payers(x)' = Payers(x)
        /\ Payers(e)' = Payers(e) \cup {r} /\ r \notin Payers(e) /\ Payers(e) \in SUBSET Runs
    BY <1>1, <2>2 DEF Minters, Burners, PendingRuns, Payers, HasMinted, HasBurned, MintOpen, FeePaid
  <2>4. /\ AmountOf(Minters) \in Nat /\ AmountOf(Burners) \in Nat
        /\ \A x \in Epochs : FeesOf(Payers(x)) \in Nat
    BY <1>0, SumsNat
  <2>5. /\ AmountOf(Minters)' = AmountOf(Minters) /\ AmountOf(Burners)' = AmountOf(Burners)
    BY <1>1, <2>3, SumsNext
  <2>6. ASSUME NEW x \in Epochs
        PROVE  FeesOf(Payers(x))' = FeesOf(Payers(x)) + (IF x = e THEN fee ELSE 0)
    <3>1. FeesOf(Payers(x))' = FeesOf(Payers(x)')
      BY <1>1, SumsNext
    <3>2. CASE x = e
      <4>1. FeesOf(Payers(e) \cup {r}) = FeesOf(Payers(e)) + fee
        BY <1>0, <2>3, RunsSum
      <4>2. Payers(x)' = Payers(e)' /\ Payers(x) = Payers(e)
        BY <1>1, <3>2 DEF Payers
      <4>3. FeesOf(Payers(x)') = FeesOf(Payers(e) \cup {r})
        BY <2>3, <4>2
      <4> QED BY <3>1, <3>2, <4>1, <4>2, <4>3
    <3>3. CASE x # e
      <4>1. Payers(x)' = Payers(x)
        BY <2>3, <3>3
      <4> QED BY <2>4, <3>1, <3>3, <4>1
    <3> QED BY <3>2, <3>3
  <2>7. /\ \A x \in Epochs : /\ pool[x] <= FeesOf(Payers(x))
                             /\ pool[x] = FeesOf(Payers(x)) \/ x \in stale.epochs
        /\ op[r].found.fees <= FeesOf(Payers(e))
    BY <1>0, PoolAs DEF Totals, CopyBounded
  <2>8. /\ pool'[e] = pool[e] \/ pool'[e] = op[r].found.fees + fee
        /\ \A x \in Epochs \ {e} : pool'[x] = pool[x]
    BY <1>0, <2>1, <2>2 DEF TypeOK, Written
  <2>9. ~Outdated(r) => pool'[e] = pool[e] + fee
    <3> SUFFICES ASSUME ~Outdated(r) PROVE pool'[e] = pool[e] + fee
      OBVIOUS
    <3>1. op[r].found = Current(r) /\ op[r].loaded = Current(r)
      BY DEF Outdated
    <3>2. Current(r) = [exists |-> (e \in opened), minted |-> 0, burned |-> 0, fees |-> pool[e], total |-> 0]
      BY <1>1 DEF Current, NoRow
    <3>3. op[r].found.fees = pool[e] /\ op[r].loaded.fees = pool[e]
      BY <3>1, <3>2
    <3>4. \/ pool'[e] = Written(pool[e] + fee, pool[e], pool[e])
          \/ pool'[e] = pool[e] + fee
      BY <1>0, <2>1, <2>2, <3>3 DEF TypeOK
    <3>5. pool[e] \in Nat
      BY <2>2
    <3> HIDE DEF e, fee
    <3> QED BY <2>2, <3>4, <3>5 DEF Written
  <2>10. PoolIsFees'
    <3> SUFFICES ASSUME NEW x \in Epochs
                 PROVE  /\ pool'[x] <= FeesOf(Payers(x))'
                        /\ pool'[x] = FeesOf(Payers(x))' \/ x \in stale'.epochs
      BY PoolNext
    <3>1. /\ pool[x] <= FeesOf(Payers(x)) /\ pool[x] \in Nat /\ FeesOf(Payers(x)) \in Nat
          /\ pool[x] = FeesOf(Payers(x)) \/ x \in stale.epochs
      BY <2>2, <2>4, <2>7
    <3>2. CASE x # e
      <4>1. pool'[x] = pool[x] /\ FeesOf(Payers(x))' = FeesOf(Payers(x)) + 0
        BY <2>6, <2>8, <3>2
      <4>2. x \in stale.epochs => x \in stale'.epochs
        BY <2>2
      <4> QED BY <3>1, <4>1, <4>2
    <3>3. CASE x = e
      <4>1. /\ FeesOf(Payers(x))' = FeesOf(Payers(x)) + fee
            /\ pool'[x] = pool[x] \/ pool'[x] = op[r].found.fees + fee
            /\ op[r].found.fees <= FeesOf(Payers(x))
            /\ ~Outdated(r) => pool'[x] = pool[x] + fee
        BY <2>6, <2>7, <2>8, <2>9, <3>3
      <4>2. x \in stale.epochs \/ Outdated(r) => x \in stale'.epochs
        BY <2>2, <3>3
      <4>3. fee \in Nat /\ op[r].found.fees \in Nat
        BY <2>2
      <4> HIDE DEF e, fee
      <4>4. pool'[x] <= FeesOf(Payers(x))'
        BY <3>1, <4>1, <4>3
      <4>5. pool'[x] = FeesOf(Payers(x))' \/ x \in stale'.epochs
        BY <3>1, <4>1, <4>2, <4>3
      <4> QED BY <4>4, <4>5
    <3> QED BY <3>2, <3>3
  <2>11. LedgerTallies'
    BY <1>0, <1>2, <2>2, <2>5 DEF Totals, LedgerTallies
  <2>12. MintRecords'
    BY <1>0, <1>2, <2>3 DEF Totals, MintRecords, MintSnapshots, RunsOf
  <2>13. \A q \in Runs : CopyBounded(q)'
    <3>1. \A x \in Epochs : FeesOf(Payers(x))' \in Nat /\ FeesOf(Payers(x)) <= FeesOf(Payers(x))'
      <4>1. fee \in Nat
        BY <2>2
      <4> HIDE DEF e, fee
      <4> QED BY <2>4, <2>6, <4>1
    <3>2. SumsGrow
      BY <2>4, <2>5, <3>1 DEF SumsGrow
    <3> QED BY <1>0, <1>1, <3>2, CopiesNext
  <2> QED BY <2>10, <2>11, <2>12, <2>13 DEF Totals
<1> QED BY <1>3, <1>4

-----------------------------------------------------------------------------
(* The theorems about value. *)

\* Every step keeps the totals.
LEMMA TotalsStep == TotalsInv /\ [Next]_vars => TotalsInv'
<1> SUFFICES ASSUME TotalsInv, [Next]_vars PROVE TotalsInv'
  OBVIOUS
<1>0. TypeOK /\ PathsOK /\ Totals
  BY DEF TotalsInv, Inv
<1>1. Inv' /\ PathsOK' /\ \A q \in Runs : FoundNext(q)
  BY <1>0, StepInv, PathStep, FoundStep DEF TotalsInv
<1>2. ASSUME Neutral PROVE Totals'
  BY <1>0, <1>1, <1>2, NeutralTotals
<1>3. ASSUME NEW r \in Runs, RecordMint(r) PROVE Totals'
  BY <1>1, <1>3, MintTotals
<1>4. ASSUME NEW r \in Runs, AppendMinted(r) PROVE Totals'
  BY <1>1, <1>4, AppendMintedTotals
<1>5. ASSUME NEW r \in Runs, Accrue(r) PROVE Totals'
  BY <1>1, <1>5, AccrueTotals
<1>6. ASSUME NEW r \in Runs, RecordBurn(r) PROVE Totals'
  BY <1>1, <1>6, BurnTotals
<1>7. Totals'
  BY <1>2, <1>3, <1>4, <1>5, <1>6, ValueKinds, PlainNeutral, OutsideNeutral
<1> QED BY <1>1, <1>7 DEF TotalsInv

\* No run has minted or paid a fee, and the stores are empty.
LEMMA TotalsInit == Init => TotalsInv
<1> SUFFICES ASSUME Init PROVE TotalsInv
  OBVIOUS
<1>1. Inv /\ PathsOK
  BY InitInv DEF Init, PathsOK, PathOK, Decided
<1>2. /\ Minters = {} /\ Burners = {} /\ PendingRuns = {} /\ MintSnapshots = {}
      /\ \A e \in Epochs : Payers(e) = {}
  BY DEF Init, Minters, Burners, PendingRuns, MintSnapshots, RunsOf, Payers, HasMinted, HasBurned,
         MintOpen, FeePaid
<1>3. AmountOf({}) = 0 /\ FeesOf({}) = 0
  BY SumEmpty DEF AmountOf, FeesOf
<1>4. ledger.minted = 0 /\ ledger.burned = 0 /\ \A e \in Epochs : pool[e] = 0
  BY DEF Init
<1>5. LedgerTallies /\ MintRecords /\ PoolIsFees
  BY <1>2, <1>3, <1>4, PoolAs DEF LedgerTallies, MintRecords
<1>6. ASSUME NEW r \in Runs PROVE CopyBounded(r)
  <2>1. op[r].found.minted = 0 /\ op[r].found.burned = 0 /\ op[r].found.fees = 0
    BY DEF Init, NoOp, NoRow
  <2>2. req[r].epoch \in Epochs
    BY <1>1, RequestType DEF Inv
  <2>3. AmountOf(Minters) = 0 /\ AmountOf(Burners) = 0 /\ FeesOf(Payers(req[r].epoch)) = 0
    BY <1>2, <1>3, <2>2
  <2> QED BY <2>1, <2>3 DEF CopyBounded
<1> QED BY <1>1, <1>5, <1>6 DEF TotalsInv, Totals

\* The totals hold in every reachable state.
LEMMA TotalsHold == Spec => []TotalsInv
BY TotalsInit, TotalsStep, PTL DEF Spec

\* The ledger claims no more than the runs minted and burned, and unless a save used an
\* old copy its outstanding supply is what runs between mint and burn, going or stopped,
\* have minted: for every number of runs and every amount.
THEOREM SupplyIsConserved == Spec => []Conservation
<1>1. TotalsInv => Conservation
  <2> SUFFICES ASSUME TotalsInv PROVE Conservation
    OBVIOUS
  <2>1. TypeOK /\ LedgerTallies
    BY DEF TotalsInv, Inv, Totals
  <2>2. /\ ledger.minted <= AmountOf(Minters) /\ ledger.burned <= AmountOf(Burners)
        /\ ~stale.ledger => ledger.minted = ledger.burned + AmountOf(OpenRuns)
    BY <2>1, MintedOrOpen DEF LedgerTallies
  <2> QED BY <2>2, Zenon DEF Conservation, SumOver, Amount, AmountOf, Minters, Burners, OpenRuns
<1> QED BY <1>1, TotalsHold, PTL

\* What was recorded as minted is never more than was minted, and unless a save of the
\* ledger used an old copy the chain trails the ledger by what is yet to be recorded.
THEOREM ChainTrailsLedger == Spec => []LedgerAheadOfChain
<1>1. TotalsInv => LedgerAheadOfChain
  <2> SUFFICES ASSUME TotalsInv PROVE LedgerAheadOfChain
    OBVIOUS
  <2>1. TypeOK /\ LedgerTallies /\ MintSnapshots = Minters \ PendingRuns
    BY DEF TotalsInv, Inv, Totals, MintRecords
  <2>2. /\ MintSnapshots \in SUBSET Runs /\ PendingRuns \in SUBSET Runs
        /\ MintSnapshots \cap PendingRuns = {} /\ Minters = MintSnapshots \cup PendingRuns
    BY <2>1 DEF MintSnapshots, PendingRuns, RunsOf, Minters, HasMinted, MintOpen
  <2>3. AmountOf(MintSnapshots \cup PendingRuns) = AmountOf(MintSnapshots) + AmountOf(PendingRuns)
    BY <2>1, <2>2, AmountUnion
  <2>4. AmountOf(Minters) = AmountOf(MintSnapshots) + AmountOf(PendingRuns)
    BY <2>2, <2>3, Zenon
  <2>5. AmountOf(MintSnapshots) \in Nat /\ AmountOf(PendingRuns) \in Nat
    <3>1. CASE Runs = {}
      BY <2>2, <3>1, SumEmpty DEF AmountOf
    <3>2. CASE Runs # {}
      BY <2>1, <2>2, <3>2, RunsSum
    <3> QED BY <3>1, <3>2
  <2>6. /\ AmountOf(MintSnapshots) <= AmountOf(Minters)
        /\ ~stale.ledger => ledger.minted = AmountOf(MintSnapshots) + AmountOf(PendingRuns)
    BY <2>1, <2>4, <2>5 DEF LedgerTallies
  <2> QED BY <2>6, Zenon DEF LedgerAheadOfChain, SumOver, Amount, AmountOf, Minters, MintSnapshots,
                             PendingRuns
<1> QED BY <1>1, TotalsHold, PTL

\* No epoch's pool holds a fee twice or one that no run paid, and it holds them all
\* unless an accrual saved an old copy of its row.
THEOREM PoolsAreFees == Spec => []PoolIsFees
<1>1. TotalsInv => PoolIsFees
  BY DEF TotalsInv, Totals
<1> QED BY <1>1, TotalsHold, PTL

-----------------------------------------------------------------------------
(* What the Eye reports. *)

\* Amounts are positive, so the sum is 0 only if no run has an open mint.
LEMMA NothingOpen ==
  ASSUME TypeOK
  PROVE  AmountOf(OpenRuns) = 0 <=> OpenRuns = {}
<1> DEFINE f == [x \in OpenRuns |-> req[x].amount]
<1>1. IsFiniteSet(OpenRuns)
  <2>1. OpenRuns \in SUBSET Runs
    BY DEF OpenRuns
  <2> QED BY <2>1, FiniteAssumption, FS_Subset
<1>2. \A x \in OpenRuns : f[x] \in Nat /\ f[x] # 0
  BY DEF OpenRuns, TypeOK, Request
<1>3. ASSUME NEW y \in OpenRuns PROVE AmountOf(OpenRuns) # 0
  <2> HIDE DEF f
  <2>1. f[y] <= SumFunctionOnSet(f, OpenRuns) /\ SumFunctionOnSet(f, OpenRuns) \in Nat
    BY <1>1, <1>2, SumNat
  <2>2. SumFunctionOnSet(f, OpenRuns) # 0
    BY <1>2, <2>1
  <2> QED BY <2>2 DEF AmountOf, f
<1>4. ASSUME OpenRuns = {} PROVE AmountOf(OpenRuns) = 0
  BY <1>4, SumEmpty DEF AmountOf
<1> QED BY <1>3, <1>4

\* A run leaves the comparison on what the ledger is at that step.
LEMMA LeavesCompare ==
  ASSUME TypeOK, [Next]_vars, NEW r \in Runs, pc[r] = "compare", pc'[r] # "compare"
  PROVE  CompareSupply(r)
<1>1. ASSUME NEW q \in Runs, RecordMint(q) \/ AppendMinted(q) \/ Accrue(q) \/ RecordBurn(q) PROVE FALSE
  BY <1>1, ValueMove
<1>2. ASSUME Restart \/ UNCHANGED vars PROVE FALSE
  BY <1>2 DEF Restart, vars, runVars
<1>3. ASSUME NEW q \in Runs, PlainStep(q) PROVE CompareSupply(r)
  <2>1. PICK next \in Labels : Moves(q, next)
    BY <1>3, PlainMove
  <2>2. q = r
    BY <2>1 DEF Moves, TypeOK
  <2>3. ~CompareSupply(r) => pc' = pc
    <3>1. CASE CaptureStep(r) \/ WitnessStep(r) \/ AppendVerdict(r) \/ AppendBurned(r)
      BY <3>1 DEF CaptureStep, Initiate, TaskAssignment, StageTransition, ExecutionComplete,
           CaptureVerdict, Reject, CaptureEmission, FinalStatus, Capture, WitnessStep,
           WitnessInitiation, RefuseInadmissible, WitnessAssignment, WitnessVerdict, WitnessMint,
           WitnessBurn, WitnessFinal, WitnessDrift, Witness, AppendVerdict, AppendBurned, Recording,
           At
    <3>2. CASE DecisionStep(r) \/ ReadStep(r) \/ Conflict(r) \/ Fail(r)
      BY <3>2 DEF DecisionStep, Arrive, Admit, Lookup, Evaluate, Gate, ReadStep, Draft, Find, Load,
           LoadVerdict, Conflict, Fail, Throw, At
    <3>3. CASE \/ Resolve(r) \/ Register(r) \/ RecordRegistration(r) \/ RecordExecution(r)
               \/ SaveVerdict(r)
      BY <3>3 DEF Resolve, Register, RecordRegistration, RecordExecution, SaveVerdict, Saving,
           Working, At
    <3> QED BY <1>3, <2>2, <3>1, <3>2, <3>3 DEF PlainStep
  <2> QED BY <2>3
<1> QED BY <1>1, <1>2, <1>3, ValueKinds

\* While no save was stale, the Eye reports drift exactly when some run has an open mint.
LEMMA DriftReported == TotalsInv /\ [Next]_vars => DriftStep
<1> SUFFICES ASSUME TotalsInv, [Next]_vars, NEW r \in Runs, pc[r] = "compare", pc'[r] # "compare",
                    ~stale.ledger
             PROVE  pc'[r] = "drift" <=> \E q \in Runs : MintOpen(q)
  BY DEF DriftStep
<1>1. TypeOK /\ LedgerTallies
  BY DEF TotalsInv, Inv, Totals
<1>2. CompareSupply(r)
  BY <1>1, LeavesCompare
<1>3. pc'[r] = IF ledger.minted = ledger.burned THEN "done" ELSE "drift"
  BY <1>1, <1>2 DEF CompareSupply, Goto, TypeOK
<1>4. ledger.minted = ledger.burned <=> AmountOf(OpenRuns) = 0
  BY <1>1, MintedOrOpen DEF LedgerTallies
<1>5. OpenRuns = {} <=> ~\E q \in Runs : MintOpen(q)
  BY DEF OpenRuns
<1> QED BY <1>1, <1>3, <1>4, <1>5, NothingOpen

\* Unless a save of the ledger used an old copy, compareSupply finds drift exactly when
\* some run, going or stopped, has minted what it has not burned.
THEOREM DriftIsAlwaysAnOpenMint == Spec => DriftIsOpenMint
<1>1. TotalsInv /\ [Next]_vars => [DriftStep]_vars
  BY DriftReported
<1> QED BY <1>1, TotalsHold, PTL DEF Spec, DriftIsOpenMint

-----------------------------------------------------------------------------
(* Credited work: a run records the completion of its execution before it   *)
(* credits a node, and credits each of its nodes at most once after it.     *)

\* The run has recorded the completion of its execution.
Completed(r) ==
  \/ pc[r] \in Decided \cup {"work", "evaluate"}
  \/ pc[r] = "done" /\ verdict[r] # "none"

\* The run may have credited node n.
Credited(r, n) ==
  /\ Completed(r)
  /\ pc[r] = "work" => \E i \in DOMAIN nodes[r] : i < left[r] /\ nodes[r][i] = n

CompletedRuns == {r \in Runs : Completed(r)}

CreditedRuns(n) == {r \in Runs : Credited(r, n)}

NoDuplicates(s) == \A i, j \in DOMAIN s : s[i] = s[j] => i = j

Distinct ==
  /\ \A r \in Runs : NoDuplicates(req[r].nodeIds) /\ NoDuplicates(nodes[r])
  /\ NoDuplicates(roster)

\* The run is in its loop over the nodes, stopped there or not.
Looping(r) == pc[r] = "work" /\ left[r] <= Len(nodes[r])

\* The copy of a node's row that a run adds to claims no more than was credited.
CopyCredited(r) ==
  Looping(r) => op[r].found.total <= Cardinality(CreditedRuns(nodes[r][left[r]]))

WorkInv ==
  /\ Inv
  /\ PathsOK
  /\ Distinct
  /\ RunsOf(appended, "execution_complete") = CompletedRuns
  /\ \A n \in Nodes : work[n] <= Cardinality(CreditedRuns(n))
  /\ \A r \in Runs : CopyCredited(r)

\* The sets of runs are finite, and credited runs have completed.
LEMMA RunSetsFinite ==
  /\ IsFiniteSet(CompletedRuns) /\ Cardinality(CompletedRuns) \in Nat
  /\ \A n : /\ IsFiniteSet(CreditedRuns(n)) /\ Cardinality(CreditedRuns(n)) \in Nat
            /\ CreditedRuns(n) \subseteq CompletedRuns
            /\ Cardinality(CreditedRuns(n)) <= Cardinality(CompletedRuns)
<1>1. CompletedRuns \in SUBSET Runs
  BY DEF CompletedRuns
<1>2. IsFiniteSet(CompletedRuns) /\ Cardinality(CompletedRuns) \in Nat
  BY <1>1, FiniteAssumption, FS_Subset, FS_CardinalityType
<1>3. ASSUME NEW n
      PROVE  /\ IsFiniteSet(CreditedRuns(n)) /\ Cardinality(CreditedRuns(n)) \in Nat
             /\ CreditedRuns(n) \subseteq CompletedRuns
             /\ Cardinality(CreditedRuns(n)) <= Cardinality(CompletedRuns)
  <2>1. CreditedRuns(n) \in SUBSET CompletedRuns
    BY DEF CreditedRuns, CompletedRuns, Credited
  <2> QED BY <1>2, <2>1, FS_Subset, FS_CardinalityType
<1> QED BY <1>2, <1>3

\* The same of the next state, and how the counts compare.
LEMMA RunSetsFiniteNext ==
  \A n \in Nodes :
    /\ IsFiniteSet(CreditedRuns(n)') /\ Cardinality(CreditedRuns(n)') \in Nat
    /\ CreditedRuns(n) \subseteq CreditedRuns(n)' =>
         Cardinality(CreditedRuns(n)) <= Cardinality(CreditedRuns(n)')
<1>1. \A n \in Nodes : CreditedRuns(n)' \in SUBSET Runs
  BY DEF CreditedRuns
<1> QED BY <1>1, FiniteAssumption, FS_Subset, FS_CardinalityType

\* A node joins a list that it is not in.
LEMMA AppendDistinct ==
  ASSUME NEW S, NEW s \in Seq(S), NEW n \in S, NoDuplicates(s), \A i \in DOMAIN s : s[i] # n
  PROVE  NoDuplicates(Append(s, n))
<1>1. /\ DOMAIN Append(s, n) = 1..(Len(s) + 1) /\ DOMAIN s = 1..Len(s) /\ Len(s) \in Nat
      /\ Append(s, n)[Len(s) + 1] = n
      /\ \A i \in 1..Len(s) : Append(s, n)[i] = s[i]
  OBVIOUS
<1>2. ASSUME NEW i \in 1..(Len(s) + 1), NEW j \in 1..(Len(s) + 1), Append(s, n)[i] = Append(s, n)[j]
      PROVE  i = j
  <2>1. (i = Len(s) + 1 \/ i \in 1..Len(s)) /\ (j = Len(s) + 1 \/ j \in 1..Len(s))
    BY <1>1
  <2> QED BY <1>1, <1>2, <2>1 DEF NoDuplicates
<1> QED BY <1>1, <1>2 DEF NoDuplicates

\* While no count of credited runs falls, the copies stay below them.
LEMMA CopiesCredited ==
  ASSUME WorkInv, TypeOK', \A q \in Runs : FoundNext(q),
         \A q \in Runs :
           Looping(q)' => \/ op'[q].found = NoRow
                          \/ pc[q] = "work" /\ nodes'[q] = nodes[q] /\ left'[q] = left[q],
         \A n \in Nodes : CreditedRuns(n) \subseteq CreditedRuns(n)'
  PROVE  \A q \in Runs : CopyCredited(q)'
<1> SUFFICES ASSUME NEW q \in Runs, Looping(q)'
             PROVE  (op[q].found.total <= Cardinality(CreditedRuns(nodes[q][left[q]])))'
  BY DEF CopyCredited
<1>1. PICK n \in Nodes : n = nodes'[q][left'[q]]
  <2>1. nodes'[q] \in Seq(Nodes) /\ left'[q] \in Nat \ {0}
    BY DEF TypeOK
  <2>2. left'[q] <= Len(nodes'[q])
    BY DEF Looping
  <2> QED BY <2>1, <2>2
<1>2. /\ Cardinality(CreditedRuns(n)) <= Cardinality(CreditedRuns(n)')
      /\ Cardinality(CreditedRuns(n)) \in Nat /\ Cardinality(CreditedRuns(n)') \in Nat
  BY RunSetsFinite, RunSetsFiniteNext
<1>3. op[q].found.total \in Nat /\ work[n] \in Nat /\ work[n] <= Cardinality(CreditedRuns(n))
  BY OpFields DEF WorkInv, Inv, TypeOK
<1>4. op'[q].found.total <= Cardinality(CreditedRuns(n)')
  <2>1. CASE op'[q].found = NoRow
    BY <1>2, <2>1 DEF NoRow
  <2>2. CASE pc[q] = "work" /\ nodes'[q] = nodes[q] /\ left'[q] = left[q]
    <3>1. Looping(q) /\ n = nodes[q][left[q]]
      BY <1>1, <2>2 DEF Looping
    <3>2. op[q].found.total <= Cardinality(CreditedRuns(n))
      BY <3>1 DEF WorkInv, CopyCredited
    <3>3. Current(q).total = work[n]
      BY <2>2, <3>1 DEF Current, Node, NoRow
    <3>4. \/ op'[q].found = op[q].found \/ op'[q].found = NoRow \/ op'[q].found = Current(q)
      BY DEF FoundNext
    <3>5. NoRow.total = 0
      BY DEF NoRow
    <3> QED BY <1>2, <1>3, <3>2, <3>3, <3>4, <3>5
  <2> QED BY <2>1, <2>2
<1>5. CreditedRuns(nodes[q][left[q]])' = CreditedRuns(n)'
  BY <1>1 DEF CreditedRuns, Credited
<1> QED BY <1>4, <1>5

\* A step that moves one run, completes no execution and credits no node.
KeepsWork(r) ==
  /\ \A q \in Runs \ {r} : /\ pc'[q] = pc[q] /\ verdict'[q] = verdict[q]
                           /\ nodes'[q] = nodes[q] /\ left'[q] = left[q]
  /\ \/ pc'[r] = pc[r] /\ verdict'[r] = verdict[r] /\ nodes'[r] = nodes[r] /\ left'[r] = left[r]
     \/ pc'[r] # "work" /\ (Completed(r)' <=> Completed(r))
  /\ RunsOf(appended', "execution_complete") = RunsOf(appended, "execution_complete")
  /\ \A n \in Nodes : work'[n] <= work[n]

\* Such a step keeps the counts.
LEMMA KeepsWorkInv ==
  ASSUME WorkInv, Inv', PathsOK', Distinct', \A q \in Runs : FoundNext(q), NEW r \in Runs, KeepsWork(r)
  PROVE  WorkInv'
<1>1. ASSUME NEW q \in Runs
      PROVE  /\ Completed(q)' <=> Completed(q)
             /\ \A n \in Nodes : Credited(q, n) => Credited(q, n)'
  <2>1. CASE pc'[q] = pc[q] /\ verdict'[q] = verdict[q] /\ nodes'[q] = nodes[q] /\ left'[q] = left[q]
    <3>1. Completed(q)' <=> Completed(q)
      BY <2>1 DEF Completed
    <3>2. ASSUME NEW n \in Nodes, Credited(q, n) PROVE Credited(q, n)'
      BY <2>1, <3>1, <3>2 DEF Credited
    <3> QED BY <3>1, <3>2
  <2>2. CASE q = r /\ pc'[r] # "work" /\ (Completed(r)' <=> Completed(r))
    <3>1. ASSUME NEW n \in Nodes, Credited(q, n) PROVE Credited(q, n)'
      BY <2>2, <3>1 DEF Credited
    <3> QED BY <2>2, <3>1
  <2> QED BY <2>1, <2>2 DEF KeepsWork
<1>2. CompletedRuns' = CompletedRuns /\ \A n \in Nodes : CreditedRuns(n) \subseteq CreditedRuns(n)'
  BY <1>1 DEF CompletedRuns, CreditedRuns
<1>3. ASSUME NEW n \in Nodes PROVE work'[n] <= Cardinality(CreditedRuns(n)')
  <2>1. work[n] <= Cardinality(CreditedRuns(n)) /\ work'[n] <= work[n]
    BY DEF WorkInv, KeepsWork
  <2>2. work[n] \in Nat /\ work'[n] \in Nat
    BY DEF WorkInv, Inv, TypeOK
  <2> QED BY <1>2, <2>1, <2>2, RunSetsFinite, RunSetsFiniteNext
<1>4. \A q \in Runs :
        Looping(q)' => pc[q] = "work" /\ nodes'[q] = nodes[q] /\ left'[q] = left[q]
  BY DEF KeepsWork, Looping
<1>5. \A q \in Runs : CopyCredited(q)'
  BY <1>2, <1>4, CopiesCredited DEF Inv
<1>6. (RunsOf(appended, "execution_complete") = CompletedRuns)'
  BY <1>2 DEF WorkInv, KeepsWork, RunsOf
<1> QED BY <1>3, <1>5, <1>6 DEF WorkInv

\* Only the completion of its execution takes a run into the loop over its nodes.
LEMMA IntoLoop ==
  ASSUME TypeOK, NEW r \in Runs, PlainStep(r), ~ExecutionComplete(r), pc'[r] = "work"
  PROVE  pc[r] = "work"
<1>0. r \in DOMAIN pc
  BY DEF TypeOK
<1>1. CASE CaptureStep(r)
  BY <1>0, <1>1 DEF CaptureStep, Initiate, TaskAssignment, StageTransition, CaptureVerdict, Reject,
       CaptureEmission, FinalStatus, Capture, Goto
<1>2. CASE WitnessStep(r)
  BY <1>0, <1>2 DEF WitnessStep, WitnessInitiation, RefuseInadmissible, WitnessAssignment,
       WitnessVerdict, WitnessMint, WitnessBurn, WitnessFinal, WitnessDrift, Witness, Goto
<1>3. CASE AppendVerdict(r) \/ AppendBurned(r) \/ DecisionStep(r) \/ Resolve(r)
  BY <1>0, <1>3 DEF AppendVerdict, AppendBurned, Recording, DecisionStep, Arrive, Admit, Lookup,
       Evaluate, Gate, CompareSupply, Resolve, Throw, Goto
<1>4. CASE Register(r) \/ RecordRegistration(r) \/ SaveVerdict(r) \/ RecordExecution(r)
  BY <1>0, <1>4 DEF Register, RecordRegistration, SaveVerdict, RecordExecution, Throw, Goto
<1>5. CASE ReadStep(r) \/ Conflict(r) \/ Fail(r)
  BY <1>5 DEF ReadStep, Draft, Find, Load, LoadVerdict, Conflict, Fail, Throw
<1> QED BY <1>1, <1>2, <1>3, <1>4, <1>5 DEF PlainStep

\* A plain step other than these changes no list of nodes and credits none.
LEMMA PlainLists ==
  ASSUME TypeOK, NEW r \in Runs, PlainStep(r), ~ExecutionComplete(r), ~RecordExecution(r),
         ~Register(r), ~RecordRegistration(r), ~Resolve(r)
  PROVE  UNCHANGED <<req, nodes, left, roster, work>>
<1>1. CASE CaptureStep(r) \/ AppendVerdict(r) \/ AppendBurned(r)
  BY <1>1 DEF CaptureStep, Initiate, TaskAssignment, StageTransition, CaptureVerdict, Reject,
       CaptureEmission, FinalStatus, Capture, AppendVerdict, AppendBurned, Recording, nodeVars
<1>2. CASE WitnessStep(r)
  BY <1>2 DEF WitnessStep, WitnessInitiation, RefuseInadmissible, WitnessAssignment,
       WitnessVerdict, WitnessMint, WitnessBurn, WitnessFinal, WitnessDrift, Witness, nodeVars
<1>3. CASE DecisionStep(r) \/ ReadStep(r) \/ Conflict(r) \/ Fail(r) \/ SaveVerdict(r)
  BY <1>3 DEF DecisionStep, Arrive, Admit, Lookup, Evaluate, Gate, CompareSupply, ReadStep, Draft,
       Find, Load, LoadVerdict, Conflict, Fail, LocalStep, SaveVerdict, nodeVars
<1> QED BY <1>1, <1>2, <1>3 DEF PlainStep

\* What a plain step does to a run's having completed.
LEMMA PlainCompleted ==
  ASSUME TypeOK, PathsOK, NEW r \in Runs, PlainStep(r), ~ExecutionComplete(r)
  PROVE  /\ \A q \in Runs \ {r} : pc'[q] = pc[q] /\ verdict'[q] = verdict[q]
         /\ \/ pc'[r] = pc[r] /\ verdict'[r] = verdict[r]
            \/ pc'[r] # "work" /\ (Completed(r)' <=> Completed(r))
<1>1. CASE UNCHANGED <<pc, verdict>>
  BY <1>1
<1>2. ASSUME NEW next \in Labels, Moves(r, next), <<pc[r], next>> \in PlainEdges
      PROVE  /\ \A q \in Runs \ {r} : pc'[q] = pc[q] /\ verdict'[q] = verdict[q]
             /\ pc'[r] # "work" /\ (Completed(r)' <=> Completed(r))
  <2>1. /\ pc'[r] = next /\ \A q \in Runs \ {r} : pc'[q] = pc[q] /\ verdict'[q] = verdict[q]
        /\ \/ verdict'[r] = verdict[r] /\ <<pc[r], next>> \notin VerdictEdges
           \/ verdict'[r] # "none" /\ <<pc[r], next>> \in VerdictEdges
    BY <1>2 DEF Moves, TypeOK
  <2>2. next # "work"
    <3>1. next = "work" => pc[r] = "work"
      BY <2>1, IntoLoop
    <3>2. ~(<<"work", "work">> \in PlainEdges)
      BY DEF PlainEdges
    <3> QED BY <1>2, <3>1, <3>2
  <2>3. PathOK(r)
    BY DEF PathsOK
  <2>4. Completed(r)' <=> Completed(r)
    <3>1. <<pc[r], next>> \in PlainEdges \ {<<"complete", "work">>}
      BY <1>2, <2>2
    <3> QED BY <2>1, <2>3, <3>1 DEF PathOK, Completed, PlainEdges, VerdictEdges, Undecided, Decided
  <2> QED BY <2>1, <2>2, <2>4
<1> QED BY <1>1, <1>2, PlainMove

\* Steps that complete no execution and credit no node.
LEMMA OtherWork ==
  ASSUME WorkInv, NEW r \in Runs,
         \/ PlainStep(r) /\ ~ExecutionComplete(r) /\ ~RecordExecution(r)
         \/ RecordMint(r) \/ AppendMinted(r) \/ Accrue(r) \/ RecordBurn(r)
  PROVE  KeepsWork(r) /\ Distinct'
<1>0. TypeOK /\ PathsOK /\ Distinct /\ (\A n \in Nodes : work[n] \in Nat)
  BY DEF WorkInv, Inv, TypeOK
<1>1. ASSUME UNCHANGED <<req, nodes, roster>> PROVE Distinct'
  BY <1>0, <1>1 DEF Distinct
<1>2. CASE RecordMint(r) \/ AppendMinted(r) \/ Accrue(r) \/ RecordBurn(r)
  <2>1. UNCHANGED <<req, nodes, left, roster, work>>
    BY <1>2 DEF RecordMint, AppendMinted, Accrue, RecordBurn, SaveLedger, Recording, nodeVars
  <2>2. RunsOf(appended', "execution_complete") = RunsOf(appended, "execution_complete")
    <3>1. CASE AppendMinted(r)
      <4>1. appended' = appended \cup {<<"emission.minted", r>>}
        BY <3>1 DEF AppendMinted, Recording, Commit
      <4>2. "emission.minted" # "execution_complete"
        OBVIOUS
      <4> QED BY <4>1, <4>2 DEF RunsOf
    <3>2. CASE RecordMint(r) \/ Accrue(r) \/ RecordBurn(r)
      BY <3>2 DEF RecordMint, Accrue, RecordBurn, SaveLedger, chainVars, RunsOf
    <3> QED BY <1>2, <3>1, <3>2
  <2>3. /\ UNCHANGED verdict /\ \A q \in Runs \ {r} : pc'[q] = pc[q]
        /\ pc'[r] = pc[r] \/ (pc[r] \in Decided /\ pc'[r] \in Decided)
    BY <1>0, <1>2, ValueMove DEF Decided
  <2>4. pc'[r] = pc[r] \/ (pc'[r] # "work" /\ (Completed(r)' <=> Completed(r)))
    BY <2>3 DEF Completed, Decided
  <2> QED BY <1>0, <1>1, <2>1, <2>2, <2>3, <2>4 DEF KeepsWork
<1>3. CASE PlainStep(r) /\ ~ExecutionComplete(r) /\ ~RecordExecution(r)
  <2>1. /\ \A q \in Runs \ {r} : pc'[q] = pc[q] /\ verdict'[q] = verdict[q]
        /\ \/ pc'[r] = pc[r] /\ verdict'[r] = verdict[r]
           \/ pc'[r] # "work" /\ (Completed(r)' <=> Completed(r))
        /\ RunsOf(appended', "execution_complete") = RunsOf(appended, "execution_complete")
    BY <1>0, <1>3, PlainCompleted, PlainAppends
  <2>2. CASE Resolve(r)
    <3>1. /\ pc[r] = "resolve" /\ pc'[r] \in {"assign", "register"}
          /\ UNCHANGED <<req, roster, work>>
          /\ \A q \in Runs \ {r} : nodes'[q] = nodes[q] /\ left'[q] = left[q]
          /\ nodes'[r] = nodes[r] \/ nodes'[r] = req[r].nodeIds \/ nodes'[r] = roster
      BY <1>0, <2>2 DEF Resolve, At, Goto, LocalStep, nodeVars, TypeOK
    <3>2. Distinct'
      BY <1>0, <3>1 DEF Distinct
    <3> QED BY <1>0, <2>1, <3>1, <3>2 DEF KeepsWork
  <2>3. CASE RecordRegistration(r)
    <3>1. /\ pc'[r] \in {"register", "resolve"} /\ pc[r] = "registered"
          /\ UNCHANGED <<req, nodes, roster, work>> /\ \A q \in Runs \ {r} : left'[q] = left[q]
      BY <1>0, <2>3 DEF RecordRegistration, At, Goto, nodeVars, TypeOK
    <3> QED BY <1>0, <1>1, <2>1, <3>1 DEF KeepsWork
  <2>4. CASE Register(r)
    <3>1. UNCHANGED <<req, nodes, left>> /\ pc[r] = "register"
      BY <2>4 DEF Register, Saving, At
    <3>2. PICK n \in Nodes : n = DefaultNodes[left[r]]
      <4>1. left[r] \in 1..Len(DefaultNodes)
        BY <1>0, <3>1 DEF TypeOK
      <4> QED BY <4>1, RosterAssumption
    <3>3. \/ UNCHANGED <<roster, work>>
          \/ /\ roster' = IF Registered(n) THEN roster ELSE Append(roster, n)
             /\ work' = [work EXCEPT ![n] = Written(0, op[r].loaded.total, work[n])]
      BY <2>4, <3>2 DEF Register, nodeVars
    <3>4. Written(0, op[r].loaded.total, work[n]) \in {0, work[n]}
      BY DEF Written
    <3>5. ASSUME NEW m \in Nodes PROVE work'[m] <= work[m]
      <4>1. work \in [Nodes -> Nat]
        BY <1>0 DEF TypeOK
      <4>2. CASE UNCHANGED work
        BY <1>0, <4>2
      <4>3. CASE work' = [work EXCEPT ![n] = Written(0, op[r].loaded.total, work[n])]
        <5>1. work'[m] = IF m = n THEN Written(0, op[r].loaded.total, work[n]) ELSE work[m]
          BY <4>1, <4>3
        <5> QED BY <1>0, <3>4, <5>1
      <4> QED BY <3>3, <4>2, <4>3
    <3>6. NoDuplicates(roster')
      <4>1. roster \in Seq(Nodes) /\ NoDuplicates(roster)
        BY <1>0 DEF TypeOK, Distinct
      <4>2. CASE roster' = roster
        BY <4>1, <4>2
      <4>3. CASE ~Registered(n) /\ roster' = Append(roster, n)
        BY <4>1, <4>3, AppendDistinct DEF Registered
      <4> QED BY <3>3, <4>2, <4>3
    <3>7. Distinct'
      BY <1>0, <3>1, <3>6 DEF Distinct
    <3> QED BY <2>1, <3>1, <3>5, <3>7 DEF KeepsWork
  <2>5. CASE ~Resolve(r) /\ ~RecordRegistration(r) /\ ~Register(r)
    <3>1. UNCHANGED <<req, nodes, left, roster, work>>
      BY <1>0, <1>3, <2>5, PlainLists
    <3> QED BY <1>0, <1>1, <2>1, <3>1 DEF KeepsWork
  <2> QED BY <2>2, <2>3, <2>4, <2>5
<1> QED BY <1>2, <1>3

\* Recording the completion: the run joins those that have, and has credited no node.
LEMMA CompleteWork ==
  ASSUME WorkInv, Inv', PathsOK', \A q \in Runs : FoundNext(q), NEW r \in Runs, ExecutionComplete(r)
  PROVE  WorkInv'
<1>0. TypeOK /\ Distinct
  BY DEF WorkInv, Inv
<1>1. /\ pc[r] = "complete" /\ pc'[r] = "work" /\ left'[r] = 1
      /\ UNCHANGED <<req, nodes, roster, work, verdict>>
      /\ \A q \in Runs \ {r} : pc'[q] = pc[q] /\ left'[q] = left[q]
      /\ appended' = appended \cup {<<"execution_complete", r>>}
  BY <1>0 DEF ExecutionComplete, Capture, Remember, Commit, At, Goto, TypeOK, nodeVars
<1>2. op'[r].found = NoRow
  <2>1. op'[r] = NoOp
    BY <1>0 DEF ExecutionComplete, Capture, Remember, Commit, TypeOK
  <2> QED BY <2>1 DEF NoOp
<1>3. CompletedRuns' = CompletedRuns \cup {r}
  BY <1>1 DEF CompletedRuns, Completed, Decided
<1>4. (RunsOf(appended, "execution_complete") = CompletedRuns)'
  <2>1. RunsOf(appended', "execution_complete") = RunsOf(appended, "execution_complete") \cup {r}
    BY <1>1 DEF RunsOf
  <2> QED BY <1>3, <2>1 DEF WorkInv, RunsOf
<1>5. ASSUME NEW n \in Nodes PROVE CreditedRuns(n)' = CreditedRuns(n)
  <2>1. ASSUME NEW q \in Runs, q # r PROVE Credited(q, n)' <=> Credited(q, n)
    BY <1>1, <2>1 DEF Credited, Completed
  <2>2. ~Credited(r, n)
    BY <1>1 DEF Credited, Completed, Decided
  <2>3. ~Credited(r, n)'
    <3>1. nodes[r] \in Seq(Nodes)
      BY <1>0 DEF TypeOK
    <3>2. \A i \in DOMAIN nodes[r] : ~(i < 1)
      BY <3>1
    <3> QED BY <1>1, <3>2 DEF Credited
  <2> QED BY <2>1, <2>2, <2>3 DEF CreditedRuns
<1>6. \A n \in Nodes : work'[n] <= Cardinality(CreditedRuns(n)')
  BY <1>1, <1>5 DEF WorkInv
<1>7. Distinct'
  BY <1>0, <1>1 DEF Distinct
<1>8. \A q \in Runs : CopyCredited(q)'
  <2>1. \A q \in Runs :
          Looping(q)' => \/ op'[q].found = NoRow
                         \/ pc[q] = "work" /\ nodes'[q] = nodes[q] /\ left'[q] = left[q]
    BY <1>1, <1>2 DEF Looping
  <2> QED BY <1>5, <2>1, CopiesCredited DEF Inv
<1> QED BY <1>4, <1>6, <1>7, <1>8 DEF WorkInv

\* Crediting a node: the run joins those that have credited it, since no node is twice
\* in its list, and the copy it adds to counted only the others.
LEMMA CreditWork ==
  ASSUME WorkInv, Inv', PathsOK', \A q \in Runs : FoundNext(q), NEW r \in Runs, RecordExecution(r)
  PROVE  WorkInv'
<1>0. TypeOK /\ Distinct /\ UNCHANGED <<req, nodes, roster, verdict, pc, appended>>
  BY DEF WorkInv, Inv, RecordExecution, chainVars
<1>1. Distinct'
  BY <1>0 DEF Distinct
<1>2. pc[r] = "work" /\ left[r] <= Len(nodes[r]) /\ Looping(r)
  BY DEF RecordExecution, Working, At, Looping
<1>3. nodes[r] \in Seq(Nodes) /\ left[r] \in Nat \ {0} /\ left[r] \in DOMAIN nodes[r]
  BY <1>0, <1>2 DEF TypeOK
<1>4. PICK m \in Nodes : m = nodes[r][left[r]]
  BY <1>3
<1>5. /\ work' = [work EXCEPT ![m] = Written(op[r].found.total + 1, op[r].loaded.total, work[m])]
      /\ left'[r] = left[r] + 1 /\ \A q \in Runs \ {r} : left'[q] = left[q]
      /\ op'[r].found = NoRow
  <2>1. op' = [op EXCEPT ![r] = NoOp]
    BY DEF RecordExecution, Saving
  <2>2. op'[r].found = NoRow
    BY <1>0, <2>1 DEF TypeOK, NoOp
  <2>3. left' = [left EXCEPT ![r] = left[r] + 1]
    BY DEF RecordExecution
  <2>4. work' = [work EXCEPT ![m] = Written(op[r].found.total + 1, op[r].loaded.total, work[m])]
    BY <1>4 DEF RecordExecution
  <2> QED BY <1>0, <2>2, <2>3, <2>4 DEF TypeOK
<1>6. \A q \in Runs : Completed(q)' <=> Completed(q)
  BY <1>0 DEF Completed
<1>7. (RunsOf(appended, "execution_complete") = CompletedRuns)'
  <2>1. CompletedRuns' = CompletedRuns
    BY <1>6 DEF CompletedRuns
  <2> QED BY <1>0, <2>1 DEF WorkInv, RunsOf
<1>8. ASSUME NEW n \in Nodes, NEW q \in Runs, Credited(q, n) PROVE Credited(q, n)'
  <2>1. CASE q = r
    <3>1. PICK i \in DOMAIN nodes[r] : i < left[r] /\ nodes[r][i] = n
      BY <1>2, <1>8, <2>1 DEF Credited
    <3>2. i < left'[r]
      BY <1>3, <1>5, <3>1
    <3> QED BY <1>0, <1>6, <1>8, <2>1, <3>1, <3>2 DEF Credited
  <2>2. CASE q # r
    BY <1>0, <1>5, <1>6, <1>8, <2>2 DEF Credited
  <2> QED BY <2>1, <2>2
<1>9. \A n \in Nodes : CreditedRuns(n) \subseteq CreditedRuns(n)'
  BY <1>8 DEF CreditedRuns
<1>10. r \notin CreditedRuns(m) /\ r \in CreditedRuns(m)'
  <2>1. ASSUME NEW i \in DOMAIN nodes[r], i < left[r] PROVE nodes[r][i] # m
    BY <1>0, <1>3, <1>4, <2>1 DEF Distinct, NoDuplicates
  <2>2. r \notin CreditedRuns(m)
    BY <1>2, <2>1 DEF CreditedRuns, Credited
  <2>3. Completed(r)'
    BY <1>2, <1>6 DEF Completed
  <2>4. left[r] < left'[r] /\ left[r] \in DOMAIN nodes'[r] /\ nodes'[r][left[r]] = m
    BY <1>0, <1>3, <1>4, <1>5
  <2>5. Credited(r, m)'
    BY <2>3, <2>4 DEF Credited
  <2> QED BY <2>2, <2>5 DEF CreditedRuns
<1>11. Cardinality(CreditedRuns(m)) + 1 <= Cardinality(CreditedRuns(m)')
  <2>1. CreditedRuns(m) \cup {r} \in SUBSET CreditedRuns(m)'
    BY <1>9, <1>10
  <2>2. Cardinality(CreditedRuns(m) \cup {r}) = Cardinality(CreditedRuns(m)) + 1
    BY <1>10, RunSetsFinite, FS_AddElement
  <2>3. Cardinality(CreditedRuns(m) \cup {r}) <= Cardinality(CreditedRuns(m)')
    BY <2>1, RunSetsFiniteNext, FS_Subset
  <2> QED BY <2>2, <2>3
<1>12. ASSUME NEW n \in Nodes PROVE work'[n] <= Cardinality(CreditedRuns(n)')
  <2>0. work[n] \in Nat /\ work[n] <= Cardinality(CreditedRuns(n)) /\ op[r].found.total \in Nat
    BY <1>0, OpFields DEF WorkInv, TypeOK
  <2>1. Cardinality(CreditedRuns(n)) <= Cardinality(CreditedRuns(n)')
    BY <1>9, RunSetsFiniteNext
  <2>2. CASE n # m
    <3>1. work'[n] = work[n]
      BY <1>0, <1>5, <2>2 DEF TypeOK
    <3> QED BY <2>0, <2>1, <3>1, RunSetsFinite, RunSetsFiniteNext
  <2>3. CASE n = m
    <3>1. work'[n] = op[r].found.total + 1 \/ work'[n] = work[n]
      BY <1>0, <1>5, <2>3 DEF TypeOK, Written
    <3>2. op[r].found.total <= Cardinality(CreditedRuns(m))
      BY <1>2, <1>4 DEF WorkInv, CopyCredited
    <3> QED BY <1>11, <2>0, <2>1, <2>3, <3>1, <3>2, RunSetsFinite, RunSetsFiniteNext
  <2> QED BY <2>2, <2>3
<1>13. \A q \in Runs : CopyCredited(q)'
  <2>1. \A q \in Runs :
          Looping(q)' => \/ op'[q].found = NoRow
                         \/ pc[q] = "work" /\ nodes'[q] = nodes[q] /\ left'[q] = left[q]
    BY <1>0, <1>5 DEF Looping
  <2> QED BY <1>9, <2>1, CopiesCredited DEF Inv
<1> QED BY <1>1, <1>7, <1>12, <1>13 DEF WorkInv

\* Every step keeps credited work on record.
LEMMA WorkStep == WorkInv /\ [Next]_vars => WorkInv'
<1> SUFFICES ASSUME WorkInv, [Next]_vars PROVE WorkInv'
  OBVIOUS
<1>0. TypeOK /\ PathsOK
  BY DEF WorkInv, Inv
<1>1. Inv' /\ PathsOK' /\ \A q \in Runs : FoundNext(q)
  BY <1>0, StepInv, PathStep, FoundStep DEF WorkInv
<1>2. ASSUME NEW r \in Runs, KeepsWork(r) /\ Distinct' PROVE WorkInv'
  BY <1>1, <1>2, KeepsWorkInv
<1>3. ASSUME NEW r \in Runs,
             PlainStep(r) \/ RecordMint(r) \/ AppendMinted(r) \/ Accrue(r) \/ RecordBurn(r)
      PROVE  WorkInv'
  BY <1>1, <1>2, <1>3, OtherWork, CompleteWork, CreditWork
<1>4. ASSUME Restart \/ UNCHANGED vars PROVE WorkInv'
  <2>1. UNCHANGED <<pc, req, nodes, left, verdict, appended, roster, work>>
    BY <1>4 DEF Restart, vars, runVars, chainVars, nodeVars
  <2>2. CompletedRuns' = CompletedRuns /\ \A n \in Nodes : CreditedRuns(n)' = CreditedRuns(n)
    BY <2>1 DEF CompletedRuns, CreditedRuns, Credited, Completed
  <2>3. Distinct' /\ (RunsOf(appended, "execution_complete") = CompletedRuns)'
    BY <2>1, <2>2 DEF WorkInv, Distinct, RunsOf
  <2>4. \A n \in Nodes : work'[n] <= Cardinality(CreditedRuns(n)')
    BY <2>1, <2>2 DEF WorkInv
  <2>5. \A q \in Runs :
          Looping(q)' => pc[q] = "work" /\ nodes'[q] = nodes[q] /\ left'[q] = left[q]
    BY <2>1 DEF Looping
  <2>6. \A q \in Runs : CopyCredited(q)'
    BY <1>1, <2>2, <2>5, CopiesCredited DEF Inv
  <2> QED BY <1>1, <2>3, <2>4, <2>6 DEF WorkInv
<1> QED BY <1>3, <1>4, ValueKinds

\* No request names a node twice.
NodesNamedOnce == \A s \in Scenarios, r \in Runs : NoDuplicates(s.requests[r].nodeIds)

\* No run has completed or credited anything.
LEMMA WorkInit == NodesNamedOnce /\ Init => WorkInv
<1> SUFFICES ASSUME NodesNamedOnce, Init PROVE WorkInv
  OBVIOUS
<1>1. Inv /\ PathsOK
  BY InitInv DEF Init, PathsOK, PathOK, Decided
<1>2. Distinct
  <2>1. NoDuplicates(<< >>)
    BY DEF NoDuplicates
  <2>2. \A r \in Runs : NoDuplicates(req[r].nodeIds)
    BY DEF Init, NodesNamedOnce
  <2> QED BY <2>1, <2>2 DEF Init, Distinct
<1>3. CompletedRuns = {} /\ \A n \in Nodes : CreditedRuns(n) = {} /\ work[n] = 0
  BY DEF Init, CompletedRuns, CreditedRuns, Credited, Completed, Decided
<1>4. RunsOf(appended, "execution_complete") = {}
  BY DEF Init, RunsOf
<1>5. ASSUME NEW r \in Runs PROVE CopyCredited(r)
  BY DEF Init, CopyCredited, Looping
<1> QED BY <1>1, <1>2, <1>3, <1>4, <1>5, FS_EmptySet DEF WorkInv

\* When no request names a node twice, no node is ever credited with more executions
\* than completions were recorded, whichever saves of its row overlap or reset it.
THEOREM CreditIsOnRecord ==
  ASSUME NodesNamedOnce
  PROVE  Spec => []WorkOnRecord
<1>1. Init => WorkInv
  BY WorkInit
<1>2. WorkInv => WorkOnRecord
  <2> SUFFICES ASSUME WorkInv, NEW n \in Nodes PROVE work[n] <= Cardinality(CompletedRuns)
    BY DEF WorkOnRecord, WorkInv
  <2>1. work[n] \in Nat /\ work[n] <= Cardinality(CreditedRuns(n))
    BY DEF WorkInv, Inv, TypeOK
  <2> QED BY <2>1, RunSetsFinite
<1> QED BY <1>1, <1>2, WorkStep, PTL DEF Spec
=============================================================================
