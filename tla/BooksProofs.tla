---------------------------- MODULE BooksProofs ----------------------------
(***************************************************************************)
(* Proofs about Books.tla, for any number of calls, nodes and faults, any  *)
(* operations and any gate.  Inv is inductive.                             *)
(***************************************************************************)
EXTENDS OversightProofs

(* The parts of the type invariant, but for those that EyeTyped has. *)

CallsTyped ==
  /\ pc \in [Calls -> Labels]
  /\ op \in [Calls -> Op \cup {NoOp}]
  /\ read \in [Calls -> AnyRow] /\ entity \in [Calls -> AnyRow] /\ loaded \in [Calls -> AnyRow]
  /\ \A c \in Calls : {read[c], entity[c], loaded[c]} \subseteq Rows(Key(c)) \cup {NoRow}
  /\ check \in [Calls -> [volume : Nat, supply : Int]]

MemoryTyped ==
  /\ initialization \in {"none", "find", "save", "ready", "rejected"}
  /\ faults \in 0 .. MaxFaults

BooksTyped ==
  /\ volume \in Nat
  /\ table \in [Keys -> AnyRow] /\ ideal \in [Keys -> AnyRow]
  /\ \A k \in Keys : {table[k], ideal[k]} \subseteq Rows(k) \cup {NoRow}
  /\ activations \subseteq [volume : Nat, supply : Int]
  /\ stale \subseteq Calls

(* The parts of the invariant. *)

Saving(c) == pc[c] \in {"load", "write"}

Writers == LedgerWrites \cup {"isActive", "activate", "register", "recordExecution"}

\* Where a call can be with its operation.
Stage(c) ==
  /\ pc[c] = "new" =>
       op[c] = NoOp /\ read[c] = NoRow /\ entity[c] = NoRow /\ loaded[c] = NoRow
  /\ pc[c] = "ledger" => op[c].name \in LedgerWrites \cup {"compareSupply", "activate"}
  /\ pc[c] = "node" => op[c].name = "recordExecution"
  /\ pc[c] = "index" => op[c].name = "activate"
  /\ pc[c] = "phase" => op[c].name \in {"isActive", "activate"}

\* A call that saves holds what its operation makes of the row it found.  The rows
\* it found are still there; a ledger write was let through by the initialization
\* and holds no more of a tally than the saves will then amount to; who holds an
\* active phase has recorded the activation, and who holds an inactive one has
\* found none.
Saver(c) ==
  /\ op[c].name \in Writers
  /\ entity[c] # NoRow
  /\ entity[c] = Intended(c, read[c])
  /\ read[c] # NoRow => table[Key(c)] # NoRow
  /\ pc[c] = "write" /\ loaded[c] # NoRow => table[Key(c)] # NoRow
  /\ op[c].name = "recordExecution" => read[c] # NoRow
  /\ op[c].name \in LedgerWrites =>
       /\ initialization = "ready"
       /\ \A column \in DOMAIN ZeroLedger :
            entity[c][column] <= Intended(c, ideal["ledger"])[column]
  /\ op[c].name \in {"isActive", "activate"} =>
       /\ entity[c].active = 1 => activations # {}
       /\ entity[c].active = 0 => entity[c] = InactivePhase /\ read[c] = NoRow

CallOK(c) ==
  /\ Stage(c)
  /\ check[c].volume <= volume
  /\ Saving(c) => Saver(c)
  /\ pc[c] = "append" /\ op[c].name = "activate" =>
       entity[c] # NoRow /\ table["phase"] # NoRow /\ Mature(check[c])

\* Rows are never deleted, and the ideal table has the same ones.
RowsStay ==
  /\ \A k \in Keys : table[k] = NoRow <=> ideal[k] = NoRow
  /\ initialization = "ready" => table["ledger"] # NoRow
  /\ initialization = "save" => table["ledger"] = NoRow

BooksOK == RowsStay /\ ExactUnlessStale /\ NothingInvented /\ ActivationJustified

Inv == CallsTyped /\ MemoryTyped /\ BooksTyped /\ BooksOK /\ \A c \in Calls : CallOK(c)
-----------------------------------------------------------------------------
(* Rows. *)

(* The absent row is of no kind, and the rows that the code creates are of theirs. *)
LEMMA RowKinds ==
  /\ NoRow \notin LedgerRow /\ NoRow \notin PhaseRow /\ NoRow \notin NodeRow
  /\ ZeroLedger \in LedgerRow /\ InactivePhase \in PhaseRow /\ FreshNode \in NodeRow
  /\ Rows("ledger") = LedgerRow /\ Rows("phase") = PhaseRow
  /\ \A n \in Nodes : Rows(n) = NodeRow
<1>1. NoRow \notin LedgerRow /\ NoRow \notin PhaseRow /\ NoRow \notin NodeRow
  <2>1. \A row \in LedgerRow : "processMinted" \in DOMAIN row  BY DEF LedgerRow
  <2>2. \A row \in PhaseRow : "active" \in DOMAIN row  BY DEF PhaseRow
  <2>3. \A row \in NodeRow : "total" \in DOMAIN row  BY DEF NodeRow
  <2> QED  BY <2>1, <2>2, <2>3 DEF NoRow
<1>2. ZeroLedger \in LedgerRow /\ InactivePhase \in PhaseRow /\ FreshNode \in NodeRow
  BY DEF ZeroLedger, LedgerRow, InactivePhase, PhaseRow, FreshNode, NodeRow
<1>3. \A n \in Nodes : n # "ledger" /\ n # "phase"
  BY KeysAssumption
<1> QED  BY <1>1, <1>2, <1>3 DEF Rows

(* The operations that write the ledger row, by name. *)
LEMMA LedgerNames == LedgerWrites = {"recordMint", "recordBurn", "recordEarned"}
BY DEF LedgerWrites, LedgerColumn

(* Crediting a column gives a ledger row and lowers no column. *)
LEMMA CreditedRow ==
  ASSUME NEW row \in LedgerRow, NEW name \in LedgerWrites, NEW n \in Nat
  PROVE  /\ Credited(row, LedgerColumn[name], n) \in LedgerRow
         /\ \A column \in DOMAIN ZeroLedger :
              row[column] <= Credited(row, LedgerColumn[name], n)[column]
<1>1. LedgerColumn[name] \in {"processMinted", "processBurned", "earnedRetained"}
  BY DEF LedgerWrites, LedgerColumn
<1>2. DOMAIN ZeroLedger = {"processMinted", "processBurned", "earnedRetained"}
  BY DEF ZeroLedger
<1> QED  BY <1>1, <1>2 DEF Credited, LedgerRow

(* Crediting the same amount preserves the order of two ledger rows. *)
LEMMA CreditedMonotone ==
  ASSUME NEW low \in LedgerRow, NEW high \in LedgerRow, NEW name \in LedgerWrites, NEW n \in Nat,
         \A column \in DOMAIN ZeroLedger : low[column] <= high[column]
  PROVE  \A column \in DOMAIN ZeroLedger :
           Credited(low, LedgerColumn[name], n)[column] <= Credited(high, LedgerColumn[name], n)[column]
<1>1. LedgerColumn[name] \in {"processMinted", "processBurned", "earnedRetained"}
  BY DEF LedgerWrites, LedgerColumn
<1>2. DOMAIN ZeroLedger = {"processMinted", "processBurned", "earnedRetained"}
  BY DEF ZeroLedger
<1> QED  BY <1>1, <1>2 DEF Credited, LedgerRow

(* recordExecution() makes a node row of a node row. *)
LEMMA ExecutedRow ==
  ASSUME NEW row \in NodeRow, NEW success \in {0, 1}
  PROVE  Executed(row, success) \in NodeRow
<1>1. \A s \in Nat, t \in Nat : t # 0 => (60 * s) \div t \in Nat
  OBVIOUS
<1>2. \A s \in Nat, t \in Nat : computeReputation(s, t) \in Nat
  BY <1>1 DEF computeReputation
<1>3. row.successes + success \in Nat /\ row.total + 1 \in Nat
  BY DEF NodeRow
<1>4. computeReputation(row.successes + success, row.total + 1) \in Nat
  BY <1>2, <1>3
<1> QED  BY <1>3, <1>4 DEF Executed, NodeRow

(* What save() leaves is a row of its kind, each column from the entity or from the row; and
   it is the entity when the row was not changed since save() loaded it. *)
LEMMA SavedRow ==
  ASSUME NEW R \in {LedgerRow, PhaseRow, NodeRow}, NEW row \in R \cup {NoRow},
         NEW loaded_ \in R \cup {NoRow}, NEW entity_ \in R,
         loaded_ # NoRow => row # NoRow
  PROVE  /\ Saved(row, loaded_, entity_) \in R
         /\ loaded_ = row => Saved(row, loaded_, entity_) = entity_
         /\ \A column \in DOMAIN entity_ :
              \/ Saved(row, loaded_, entity_)[column] = entity_[column]
              \/ row \in R /\ Saved(row, loaded_, entity_)[column] = row[column]
<1>1. CASE loaded_ = NoRow
  BY <1>1 DEF Saved
<1>2. CASE loaded_ # NoRow
  <2>1. row \in R /\ loaded_ \in R
    BY <1>2
  <2>2. Saved(row, loaded_, entity_) = [column \in DOMAIN row |->
          IF entity_[column] # loaded_[column] THEN entity_[column] ELSE row[column]]
    BY <1>2 DEF Saved
  <2>3. CASE R = LedgerRow
    BY <2>1, <2>2, <2>3 DEF LedgerRow
  <2>4. CASE R = PhaseRow
    BY <2>1, <2>2, <2>4 DEF PhaseRow
  <2>5. CASE R = NodeRow
    BY <2>1, <2>2, <2>5 DEF NodeRow
  <2> QED  BY <2>3, <2>4, <2>5
<1> QED  BY <1>1, <1>2

(* The last part of SavedRow, for one column. *)
LEMMA SavedColumn ==
  ASSUME NEW R \in {LedgerRow, PhaseRow, NodeRow}, NEW row \in R \cup {NoRow},
         NEW loaded_ \in R \cup {NoRow}, NEW entity_ \in R,
         loaded_ # NoRow => row # NoRow, NEW column \in DOMAIN entity_
  PROVE  \/ Saved(row, loaded_, entity_)[column] = entity_[column]
         \/ row \in R /\ Saved(row, loaded_, entity_)[column] = row[column]
BY SavedRow

\* The key of each operation's row.
LEMMA OpKey ==
  ASSUME NEW o \in Op \cup {NoOp}
  PROVE  /\ o.key \in Keys /\ o.amount \in Nat
         /\ o.name \in LedgerWrites \cup {"compareSupply"} => o.key = "ledger"
         /\ o.name \in {"isActive", "activate"} => o.key = "phase"
         /\ o.name \in {"register", "recordExecution"} =>
              o.key \in Nodes /\ o.amount \in {0, 1}
BY DEF Op, NoOp, Keys, LedgerWrites, LedgerColumn

(* Every key has a kind of row, which the absent row is not. *)
LEMMA RowOfKind ==
  ASSUME NEW k \in Keys
  PROVE  /\ Rows(k) \in {LedgerRow, PhaseRow, NodeRow}
         /\ Rows(k) \subseteq AnyRow /\ NoRow \in AnyRow
         /\ NoRow \notin Rows(k)
BY RowKinds DEF Keys, AnyRow

-----------------------------------------------------------------------------
(* What a step of one call leaves to the others. *)

Same(d) ==
  /\ pc'[d] = pc[d] /\ op'[d] = op[d] /\ read'[d] = read[d] /\ entity'[d] = entity[d]
  /\ loaded'[d] = loaded[d] /\ check'[d] = check[d]

\* The state that calls share only grows.
Grows ==
  /\ initialization = "ready" => initialization' = "ready"
  /\ \A k \in Keys : table[k] # NoRow => table'[k] # NoRow
  /\ ideal["ledger"] \in LedgerRow =>
       /\ ideal'["ledger"] \in LedgerRow
       /\ \A column \in DOMAIN ZeroLedger : ideal["ledger"][column] <= ideal'["ledger"][column]
  /\ volume' \in Nat /\ volume <= volume'
  /\ activations \subseteq activations'

(* The key that a call works on is of the kind its operation needs. *)
LEMMA KeyInKeys ==
  ASSUME CallsTyped, NEW c \in Calls
  PROVE  /\ Key(c) \in Keys /\ op[c].amount \in Nat
         /\ op[c].name \in LedgerWrites \cup {"compareSupply"} => Key(c) = "ledger"
         /\ op[c].name \in {"isActive", "activate"} => Key(c) = "phase"
         /\ op[c].name \in {"register", "recordExecution"} =>
              Key(c) \in Nodes /\ op[c].amount \in {0, 1}
BY OpKey DEF CallsTyped, Key

\* The ledger row is there, in both tables, once the initialization is ready.
LEMMA ReadyLedger ==
  ASSUME BooksTyped, RowsStay, initialization = "ready"
  PROVE  table["ledger"] \in LedgerRow /\ ideal["ledger"] \in LedgerRow
BY RowKinds DEF BooksTyped, RowsStay, Keys

(* A call that nothing touched stays sound while the tallies only grow. *)
LEMMA Frame ==
  ASSUME CallsTyped, BooksTyped, RowsStay, NEW d \in Calls, CallOK(d), Same(d), Grows
  PROVE  CallOK(d)'
<1>1. Stage(d)'
  BY DEF CallOK, Stage, Same
<1>2. (check[d].volume <= volume)'
  <2>1. check[d].volume \in Nat /\ volume \in Nat /\ volume' \in Nat
    BY DEF CallsTyped, BooksTyped, Grows
  <2> QED  BY <2>1 DEF CallOK, Same, Grows
<1>3. ASSUME Saving(d)'  PROVE Saver(d)'
  <2>1. Saver(d)
    BY <1>3 DEF Saving, Same, CallOK
  <2>2. \A row : Intended(d, row)' = Intended(d, row)
    BY DEF Intended, Same
  <2>3. Key(d) \in Keys /\ Key(d)' = Key(d)
    BY KeyInKeys DEF Same, Key
  <2>4. (op[d].name \in Writers /\ entity[d] # NoRow)'
    BY <2>1 DEF Saver, Same
  <2>5. (entity[d] = Intended(d, read[d]))'
    BY <2>1, <2>2 DEF Saver, Same, Intended
  <2>6. (/\ read[d] # NoRow => table[Key(d)] # NoRow
         /\ pc[d] = "write" /\ loaded[d] # NoRow => table[Key(d)] # NoRow)'
    BY <2>1, <2>3 DEF Saver, Same, Grows
  <2>7. (op[d].name = "recordExecution" => read[d] # NoRow)'
    BY <2>1 DEF Saver, Same
  <2>8. ASSUME (op[d].name \in LedgerWrites)'
        PROVE  (/\ initialization = "ready"
                /\ \A column \in DOMAIN ZeroLedger :
                     entity[d][column] <= Intended(d, ideal["ledger"])[column])'
    <3>1. op[d].name \in LedgerWrites /\ initialization = "ready"
      BY <2>1, <2>8 DEF Saver, Same
    <3>2. initialization' = "ready"
      BY <3>1 DEF Grows
    <3>3. ideal["ledger"] \in LedgerRow /\ ideal'["ledger"] \in LedgerRow
      BY <3>1, ReadyLedger DEF Grows
    <3>4. \A row : Intended(d, row) = Credited(row, LedgerColumn[op[d].name], op[d].amount)
      BY <3>1, LedgerNames DEF Intended
    <3>5. \A column \in DOMAIN ZeroLedger :
            Intended(d, ideal["ledger"])[column] <= Intended(d, ideal'["ledger"])[column]
      BY <3>1, <3>3, <3>4, KeyInKeys, CreditedMonotone DEF Grows
    <3>6. entity[d] \in LedgerRow
      BY <2>1, <3>1, KeyInKeys, RowKinds DEF Saver, CallsTyped
    <3>7. Intended(d, ideal["ledger"]) \in LedgerRow /\ Intended(d, ideal'["ledger"]) \in LedgerRow
      BY <3>1, <3>3, <3>4, KeyInKeys, CreditedRow
    <3>8. \A column \in DOMAIN ZeroLedger :
            entity[d][column] <= Intended(d, ideal'["ledger"])[column]
      <4>1. \A column \in DOMAIN ZeroLedger : entity[d][column] <= Intended(d, ideal["ledger"])[column]
        BY <2>1, <3>1 DEF Saver
      <4>2. \A row \in LedgerRow : \A column \in DOMAIN ZeroLedger : row[column] \in Nat
        BY DEF LedgerRow, ZeroLedger
      <4> QED  BY <3>5, <3>6, <3>7, <4>1, <4>2
    <3>9. \A column \in DOMAIN ZeroLedger :
            entity'[d][column] <= Credited(ideal'["ledger"], LedgerColumn[op'[d].name], op'[d].amount)[column]
      BY <3>4, <3>8 DEF Same
    <3> QED  BY <2>8, <3>2, <3>9, LedgerNames DEF Intended
  <2>9. (op[d].name \in {"isActive", "activate"} =>
           /\ entity[d].active = 1 => activations # {}
           /\ entity[d].active = 0 => entity[d] = InactivePhase /\ read[d] = NoRow)'
    BY <2>1 DEF Saver, Same, Grows
  <2> QED  BY <2>4, <2>5, <2>6, <2>7, <2>8, <2>9 DEF Saver
<1>4. (pc[d] = "append" /\ op[d].name = "activate" =>
         entity[d] # NoRow /\ table["phase"] # NoRow /\ Mature(check[d]))'
  BY DEF CallOK, Same, Grows, Mature, Keys
<1> QED  BY <1>1, <1>2, <1>3, <1>4 DEF CallOK

\* What a save is meant to make of the row, by operation.
LEMMA IntendedBy ==
  ASSUME NEW c \in Calls, NEW row
  PROVE  /\ op[c].name \in LedgerWrites =>
              Intended(c, row) = Credited(row, LedgerColumn[op[c].name], op[c].amount)
         /\ op[c].name = "recordExecution" => Intended(c, row) = Executed(row, op[c].amount)
         /\ op[c].name = "register" => Intended(c, row) = FreshNode
         /\ op[c].name \in {"isActive", "activate"} =>
              Intended(c, row) = IF entity[c].active = 1 THEN Activated(row, check[c])
                                 ELSE IF row = NoRow THEN InactivePhase ELSE row
BY LedgerNames DEF Intended

(* Forgetting what some calls held preserves their types. *)
LEMMA ForgetTyped ==
  ASSUME CallsTyped, NEW C \in SUBSET Calls, Forget(C), pc' \in [Calls -> Labels]
  PROVE  CallsTyped'
<1>1. NoOp \in Op \cup {NoOp} /\ NoRow \in AnyRow /\ NoCheck \in [volume : Nat, supply : Int]
  BY DEF AnyRow, NoCheck
<1>2. op' \in [Calls -> Op \cup {NoOp}]
  BY <1>1 DEF CallsTyped, Forget
<1>3. read' \in [Calls -> AnyRow] /\ entity' \in [Calls -> AnyRow] /\ loaded' \in [Calls -> AnyRow]
  BY <1>1 DEF CallsTyped, Forget
<1>4. check' \in [Calls -> [volume : Nat, supply : Int]]
  BY <1>1 DEF CallsTyped, Forget
<1>5. ASSUME NEW d \in Calls
      PROVE  ({read[d], entity[d], loaded[d]} \subseteq Rows(Key(d)) \cup {NoRow})'
  <2>1. CASE d \in C
    BY <2>1 DEF Forget
  <2>2. CASE d \notin C
    <3>1. read'[d] = read[d] /\ entity'[d] = entity[d] /\ loaded'[d] = loaded[d] /\ op'[d] = op[d]
      BY <2>2 DEF Forget
    <3> QED  BY <3>1 DEF CallsTyped, Key
  <2> QED  BY <2>1, <2>2
<1> QED  BY <1>2, <1>3, <1>4, <1>5 DEF CallsTyped

(* Leaving for a label changes one call, and clears what it held when it has ended. *)
LEMMA LeaveStep ==
  ASSUME CallsTyped, NEW c \in Calls, NEW label \in Labels, Leave(c, label)
  PROVE  /\ CallsTyped'
         /\ \A d \in Calls \ {c} : Same(d)
         /\ pc'[c] = label
         /\ label \in Ended => op'[c] = NoOp /\ read'[c] = NoRow /\ entity'[c] = NoRow
                               /\ loaded'[c] = NoRow /\ check'[c] = NoCheck
         /\ label \notin Ended => op' = op /\ read' = read /\ entity' = entity
                                  /\ loaded' = loaded /\ check' = check
<1> DEFINE C == IF label \in Ended THEN {c} ELSE {}
<1>1. pc' \in [Calls -> Labels] /\ pc'[c] = label /\ \A d \in Calls \ {c} : pc'[d] = pc[d]
  BY DEF Leave, Goto, CallsTyped
<1>2. Forget(C) /\ C \in SUBSET Calls
  BY DEF Leave
<1>3. CallsTyped'
  BY <1>1, <1>2, ForgetTyped
<1>4. \A d \in Calls \ C : op'[d] = op[d] /\ read'[d] = read[d] /\ entity'[d] = entity[d]
                           /\ loaded'[d] = loaded[d] /\ check'[d] = check[d]
  BY <1>2 DEF Forget
<1>5. \A d \in Calls \ {c} : Same(d)
  BY <1>1, <1>4 DEF Same
<1>6. label \in Ended => op'[c] = NoOp /\ read'[c] = NoRow /\ entity'[c] = NoRow
                         /\ loaded'[c] = NoRow /\ check'[c] = NoCheck
  BY <1>2 DEF Forget
<1>7. ASSUME label \notin Ended
      PROVE  op' = op /\ read' = read /\ entity' = entity /\ loaded' = loaded /\ check' = check
  <2>1. C = {}
    BY <1>7
  <2> HIDE DEF C
  <2> QED  BY <1>2, <2>1 DEF Forget, CallsTyped
<1> QED  BY <1>1, <1>3, <1>5, <1>6, <1>7

\* A call that has ended, or is on its way into the Oversight Ledger, holds nothing
\* that the invariant is about.
LEMMA Idle ==
  ASSUME BooksTyped', NEW c \in Calls, pc'[c] \in Ended \cup {"head", "insert", "commit"},
         check'[c].volume \in Nat, check'[c].volume <= volume'
  PROVE  CallOK(c)'
BY DEF CallOK, Stage, Saving, Ended

(* A call that has ended is sound, whatever it did. *)
LEMMA EndedOK ==
  ASSUME CallsTyped, BooksTyped', NEW c \in Calls, NEW label \in Ended, Leave(c, label)
  PROVE  /\ CallsTyped' /\ CallOK(c)'
         /\ \A d \in Calls \ {c} : Same(d)
<1>1. label \in Labels
  BY DEF Ended, Labels
<1>2. pc'[c] = label /\ check'[c] = NoCheck /\ CallsTyped' /\ \A d \in Calls \ {c} : Same(d)
  BY <1>1, LeaveStep
<1>3. check'[c].volume \in Nat /\ check'[c].volume <= volume'
  BY <1>2 DEF NoCheck, BooksTyped
<1> QED  BY <1>2, <1>3, Idle

\* A step that leaves the books and the chain alone.
LEMMA Quiet ==
  ASSUME BooksTyped, BooksOK, UNCHANGED <<chainVars, bookVars>>,
         initialization = "ready" => initialization' = "ready",
         initialization' = "ready" => table["ledger"] # NoRow,
         initialization' = "save" => table["ledger"] = NoRow
  PROVE  Grows /\ BooksTyped' /\ BooksOK'
<1>1. BooksTyped'
  BY DEF BooksTyped, chainVars, bookVars
<1>2. BooksOK'
  BY DEF BooksOK, RowsStay, ExactUnlessStale, NothingInvented, ActivationJustified, Mature,
         chainVars, bookVars
<1>3. \A row \in LedgerRow : \A column \in DOMAIN ZeroLedger : row[column] <= row[column]
  BY DEF LedgerRow, ZeroLedger
<1>4. Grows
  BY <1>3 DEF Grows, BooksTyped, chainVars, bookVars
<1> QED  BY <1>1, <1>2, <1>4

\* A step that also leaves the initialization alone.
LEMMA Still ==
  ASSUME BooksTyped, BooksOK, UNCHANGED <<initialization, chainVars, bookVars>>
  PROVE  Grows /\ BooksTyped' /\ BooksOK'
<1>1. UNCHANGED initialization /\ UNCHANGED <<chainVars, bookVars>>
  OBVIOUS
<1>2. /\ initialization = "ready" => table["ledger"] # NoRow
      /\ initialization = "save" => table["ledger"] = NoRow
  BY DEF BooksOK, RowsStay
<1> QED  BY <1>1, <1>2, Quiet

\* What a step of call c has to show.
LEMMA OneCall ==
  ASSUME Inv, NEW c \in Calls, CallsTyped', MemoryTyped', BooksTyped', BooksOK', Grows,
         CallOK(c)', \A d \in Calls \ {c} : Same(d)
  PROVE  Inv'
<1>1. CallsTyped /\ BooksTyped /\ RowsStay
  BY DEF Inv, BooksOK
<1>2. \A d \in Calls \ {c} : CallOK(d)'
  BY <1>1, Frame DEF Inv
<1> QED  BY <1>2 DEF Inv

(* The invariant, taken apart. *)
LEMMA InvParts ==
  ASSUME Inv
  PROVE  /\ CallsTyped /\ MemoryTyped /\ BooksTyped /\ BooksOK /\ RowsStay
         /\ \A c \in Calls : CallOK(c)
BY DEF Inv, BooksOK

(* The memory keeps its type when it does not change. *)
LEMMA MemoryStill ==
  ASSUME MemoryTyped, UNCHANGED <<initialization, faults>>
  PROVE  MemoryTyped'
BY DEF MemoryTyped

-----------------------------------------------------------------------------
(* The steps of a call, one lemma each. *)

(* Changing an entity takes the call to save() with the row it found. *)
LEMMA ChangeStep ==
  ASSUME CallsTyped, BooksTyped, NEW c \in Calls, NEW row \in Rows(Key(c)), Change(c, row)
  PROVE  /\ CallsTyped'
         /\ \A d \in Calls \ {c} : Same(d)
         /\ pc'[c] = "load" /\ read'[c] = Row(c) /\ entity'[c] = row
         /\ op' = op /\ loaded' = loaded /\ check' = check
<1>1. Key(c) \in Keys
  BY KeyInKeys
<1>2. Row(c) \in Rows(Key(c)) \cup {NoRow} /\ Row(c) \in AnyRow /\ row \in AnyRow
  BY <1>1, RowOfKind DEF Row, BooksTyped
<1>3. /\ pc' = [pc EXCEPT ![c] = "load"] /\ read' = [read EXCEPT ![c] = Row(c)]
      /\ entity' = [entity EXCEPT ![c] = row] /\ op' = op /\ loaded' = loaded
      /\ check' = check /\ entry' = entry
  BY DEF Change, Goto
<1>4. CallsTyped'
  <2>1. pc' \in [Calls -> Labels] /\ read' \in [Calls -> AnyRow] /\ entity' \in [Calls -> AnyRow]
    BY <1>2, <1>3 DEF CallsTyped, Labels
  <2>2. \A d \in Calls : {read'[d], entity'[d], loaded'[d]} \subseteq Rows(op'[d].key) \cup {NoRow}
    BY <1>2, <1>3 DEF CallsTyped, Key
  <2> QED  BY <1>3, <2>1, <2>2 DEF CallsTyped, Key
<1>5. \A d \in Calls \ {c} : Same(d)
  BY <1>3 DEF Same, CallsTyped
<1> QED  BY <1>3, <1>4, <1>5 DEF CallsTyped

\* After Change, with the books as they were.
LEMMA ChangedOK ==
  ASSUME Inv, NEW c \in Calls, NEW row \in Rows(Key(c)), Change(c, row),
         UNCHANGED <<initialization, chainVars, bookVars>>,
         op[c].name \in Writers, Row(c) # NoRow \/ op[c].name \in {"isActive", "activate"},
         op[c].name \in LedgerWrites =>
           initialization = "ready" /\ row = Credited(Row(c), LedgerColumn[op[c].name], op[c].amount),
         op[c].name = "recordExecution" => row = Executed(Row(c), op[c].amount),
         op[c].name # "register",
         op[c].name \in {"isActive", "activate"} => row = InactivePhase /\ Row(c) = NoRow
  PROVE  CallOK(c)'
<1>1. /\ CallsTyped /\ BooksTyped /\ BooksOK /\ RowsStay /\ CallOK(c)
  BY InvParts
<1>2. /\ pc'[c] = "load" /\ read'[c] = Row(c) /\ entity'[c] = row
      /\ op' = op /\ loaded' = loaded /\ check' = check
  BY <1>1, ChangeStep
<1>3. Key(c) \in Keys /\ row # NoRow
  BY <1>1, KeyInKeys, RowOfKind
<1>4. table' = table /\ ideal' = ideal /\ volume' = volume /\ initialization' = initialization
  BY DEF chainVars, bookVars
<1>5. entity'[c] = Intended(c, read[c])'
  <2>1. CASE op[c].name \in LedgerWrites
    BY <1>2, <2>1, LedgerNames DEF Intended
  <2>2. CASE op[c].name = "recordExecution"
    BY <1>2, <2>2, LedgerNames DEF Intended
  <2>3. CASE op[c].name \in {"isActive", "activate"}
    <3>1. entity'[c].active # 1
      BY <1>2, <2>3 DEF InactivePhase
    <3> QED  BY <1>2, <2>3, <3>1, LedgerNames DEF Intended
  <2> QED  BY <2>1, <2>2, <2>3 DEF Writers
<1>6. ASSUME op[c].name \in LedgerWrites
      PROVE  \A column \in DOMAIN ZeroLedger :
               entity'[c][column] <= Intended(c, ideal["ledger"])'[column]
  <2>1. Key(c) = "ledger" /\ op[c].amount \in Nat
    BY <1>1, <1>6, KeyInKeys
  <2>2. table["ledger"] \in LedgerRow /\ ideal["ledger"] \in LedgerRow
    BY <1>1, <1>6, ReadyLedger
  <2>3. \A column \in DOMAIN ZeroLedger : table["ledger"][column] <= ideal["ledger"][column]
    BY <1>1, <2>2, RowKinds DEF BooksOK, NothingInvented
  <2>4. \A column \in DOMAIN ZeroLedger :
          row[column] <= Credited(ideal["ledger"], LedgerColumn[op[c].name], op[c].amount)[column]
    BY <1>6, <2>1, <2>2, <2>3, CreditedMonotone DEF Row
  <2> QED  BY <1>2, <1>4, <1>6, <2>4, LedgerNames DEF Intended
<1>7. entity'[c].active # 1 \/ op[c].name \notin {"isActive", "activate"}
  BY <1>2 DEF InactivePhase
<1>8. Saver(c)'
  <2>1. (op[c].name \in Writers /\ entity[c] # NoRow)'
    BY <1>2, <1>3
  <2>2. (read[c] # NoRow => table[Key(c)] # NoRow)'
    BY <1>2, <1>4 DEF Row, Key
  <2>3. (pc[c] = "write" /\ loaded[c] # NoRow => table[Key(c)] # NoRow)'
    BY <1>2
  <2>4. (op[c].name = "recordExecution" => read[c] # NoRow)'
    BY <1>2
  <2>5. (op[c].name \in LedgerWrites => initialization = "ready")'
    BY <1>2, <1>4
  <2>6. (op[c].name \in {"isActive", "activate"} =>
           /\ entity[c].active = 1 => activations # {}
           /\ entity[c].active = 0 => entity[c] = InactivePhase /\ read[c] = NoRow)'
    BY <1>2, <1>7
  <2> QED  BY <1>2, <1>5, <1>6, <2>1, <2>2, <2>3, <2>4, <2>5, <2>6 DEF Saver
<1> QED  BY <1>1, <1>2, <1>4, <1>8 DEF CallOK, Stage, Saving

(* The findOne of a ledger write preserves the invariant. *)
LEMMA FindLedgerStep ==
  ASSUME Inv, NEW c \in Calls, FindLedger(c)
  PROVE  Inv'
<1>1. CallsTyped /\ MemoryTyped /\ BooksTyped /\ BooksOK /\ RowsStay
  BY InvParts
<1> DEFINE row == Credited(Row(c), LedgerColumn[op[c].name], op[c].amount)
<1>2. /\ initialization = "ready" /\ op[c].name \in LedgerWrites /\ Change(c, row)
      /\ UNCHANGED <<initialization, chainVars, bookVars>>
      /\ UNCHANGED <<initialization, faults>>
  BY DEF FindLedger, InLedger
<1>3. Key(c) = "ledger" /\ op[c].amount \in Nat
  BY <1>1, <1>2, KeyInKeys
<1>4. Row(c) \in LedgerRow
  BY <1>1, <1>2, <1>3, ReadyLedger DEF Row
<1>5. row \in Rows(Key(c)) /\ Row(c) # NoRow
  BY <1>2, <1>3, <1>4, CreditedRow, RowKinds
<1>6. op[c].name \in Writers /\ op[c].name \notin {"recordExecution", "register", "isActive", "activate"}
  BY <1>2, LedgerNames DEF Writers
<1> HIDE DEF row
<1>7. CallOK(c)'
  <2>1. row = Credited(Row(c), LedgerColumn[op[c].name], op[c].amount)
    BY DEF row
  <2> QED  BY <1>2, <1>5, <1>6, <2>1, ChangedOK
<1>8. CallsTyped' /\ \A d \in Calls \ {c} : Same(d)
  BY <1>1, <1>2, <1>5, ChangeStep
<1>9. Grows /\ BooksTyped' /\ BooksOK' /\ MemoryTyped'
  BY <1>1, <1>2, Still, MemoryStill
<1> QED  BY <1>7, <1>8, <1>9, OneCall

(* The findOne of a node write preserves the invariant. *)
LEMMA FindNodeStep ==
  ASSUME Inv, NEW c \in Calls, FindNode(c)
  PROVE  Inv'
<1>1. CallsTyped /\ MemoryTyped /\ BooksTyped /\ BooksOK /\ RowsStay /\ CallOK(c)
  BY InvParts
<1>2. /\ pc[c] = "node"
      /\ UNCHANGED <<initialization, chainVars, bookVars>>
      /\ UNCHANGED <<initialization, faults>>
  BY DEF FindNode
<1>3. Grows /\ BooksTyped' /\ BooksOK' /\ MemoryTyped'
  BY <1>1, <1>2, Still, MemoryStill
<1>4. CASE Row(c) = NoRow /\ Leave(c, "failed")
  <2>1. "failed" \in Ended
    BY DEF Ended
  <2> QED  BY <1>1, <1>3, <1>4, <2>1, EndedOK, OneCall
<1>5. CASE Row(c) # NoRow /\ Change(c, Executed(Row(c), op[c].amount))
  <2>1. op[c].name = "recordExecution"
    BY <1>1, <1>2 DEF CallOK, Stage
  <2>2. Key(c) \in Nodes /\ op[c].amount \in {0, 1} /\ Key(c) \in Keys
    BY <1>1, <2>1, KeyInKeys
  <2>3. Rows(Key(c)) = NodeRow /\ Row(c) \in NodeRow
    BY <1>1, <1>5, <2>2, RowKinds DEF BooksTyped, Row
  <2>4. Executed(Row(c), op[c].amount) \in Rows(Key(c))
    BY <2>2, <2>3, ExecutedRow
  <2>5. CallOK(c)'
    <3>1. op[c].name \notin LedgerWrites /\ op[c].name \in Writers
      BY <2>1, LedgerNames DEF Writers
    <3> QED  BY <1>2, <1>5, <2>1, <2>4, <3>1, ChangedOK
  <2>6. CallsTyped' /\ \A d \in Calls \ {c} : Same(d)
    BY <1>1, <1>5, <2>4, ChangeStep
  <2> QED  BY <1>3, <2>5, <2>6, OneCall
<1> QED  BY <1>4, <1>5 DEF FindNode

(* The findOne of phase() preserves the invariant. *)
LEMMA FindPhaseStep ==
  ASSUME Inv, NEW c \in Calls, FindPhase(c)
  PROVE  Inv'
<1>1. CallsTyped /\ MemoryTyped /\ BooksTyped /\ BooksOK /\ RowsStay /\ CallOK(c)
  BY InvParts
<1>2. /\ pc[c] = "phase"
      /\ UNCHANGED <<initialization, chainVars, bookVars>>
      /\ UNCHANGED <<initialization, faults>>
  BY DEF FindPhase
<1>3. Grows /\ BooksTyped' /\ BooksOK' /\ MemoryTyped'
  BY <1>1, <1>2, Still, MemoryStill
<1>4. op[c].name \in {"isActive", "activate"} /\ Key(c) = "phase" /\ Key(c) \in Keys
  BY <1>1, <1>2, KeyInKeys DEF CallOK, Stage
<1>5. CASE Row(c) = NoRow /\ Change(c, InactivePhase)
  <2>1. InactivePhase \in Rows(Key(c))
    BY <1>4, RowKinds
  <2>2. op[c].name \in Writers \ (LedgerWrites \cup {"recordExecution", "register"})
    BY <1>4, LedgerNames DEF Writers
  <2>3. CallOK(c)'
    BY <1>2, <1>4, <1>5, <2>1, <2>2, ChangedOK
  <2>4. CallsTyped' /\ \A d \in Calls \ {c} : Same(d)
    BY <1>1, <1>5, <2>1, ChangeStep
  <2> QED  BY <1>3, <2>3, <2>4, OneCall
<1>6. CASE Leave(c, "done")
  <2>1. "done" \in Ended
    BY DEF Ended
  <2> QED  BY <1>1, <1>3, <1>6, <2>1, EndedOK, OneCall
<1>7. CASE /\ Row(c) # NoRow /\ Decision(c, Row(c)) = "append"
           /\ entity' = [entity EXCEPT ![c] = Row(c)]
           /\ Goto(c, "append")
           /\ UNCHANGED <<op, read, loaded, check, entry>>
  <2>1. Mature(check[c])
    BY <1>7 DEF Decision
  <2>2. Row(c) \in AnyRow /\ Row(c) \in Rows(Key(c)) \cup {NoRow}
    BY <1>1, <1>4 DEF BooksTyped, Row
  <2>3. /\ pc' = [pc EXCEPT ![c] = "append"] /\ entity' = [entity EXCEPT ![c] = Row(c)]
        /\ op' = op /\ read' = read /\ loaded' = loaded /\ check' = check /\ entry' = entry
    BY <1>7 DEF Goto
  <2>4. CallsTyped'
    <3>1. pc' \in [Calls -> Labels] /\ entity' \in [Calls -> AnyRow]
      BY <1>1, <2>2, <2>3 DEF CallsTyped, Labels
    <3>2. \A d \in Calls : {read'[d], entity'[d], loaded'[d]} \subseteq Rows(op'[d].key) \cup {NoRow}
      BY <1>1, <2>2, <2>3 DEF CallsTyped, Key
    <3> QED  BY <1>1, <2>3, <3>1, <3>2 DEF CallsTyped, Key
  <2>5. \A d \in Calls \ {c} : Same(d)
    BY <2>3 DEF Same, CallsTyped
  <2>6. CallOK(c)'
    <3>1. pc'[c] = "append" /\ entity'[c] = Row(c)
      BY <1>1, <2>3 DEF CallsTyped
    <3>2. table' = table /\ volume' = volume /\ table["phase"] # NoRow
      BY <1>2, <1>4, <1>7 DEF bookVars, chainVars, Row
    <3>3. Mature(check[c])'
      BY <2>1, <2>3 DEF Mature
    <3> QED  BY <1>1, <1>7, <2>3, <3>1, <3>2, <3>3 DEF CallOK, Stage, Saving
  <2> QED  BY <1>3, <2>4, <2>5, <2>6, OneCall
<1> QED  BY <1>5, <1>6, <1>7 DEF FindPhase

\* A call ends, and the books stay as they are.
LEMMA EndStep ==
  ASSUME Inv, NEW c \in Calls, NEW label \in Ended, Leave(c, label),
         UNCHANGED <<initialization, chainVars, bookVars>>, MemoryTyped'
  PROVE  Inv'
<1>1. CallsTyped /\ BooksTyped /\ BooksOK
  BY InvParts
<1>2. Grows /\ BooksTyped' /\ BooksOK'
  BY <1>1, Still
<1> QED  BY <1>1, <1>2, EndedOK, OneCall

\* A call goes on, the rows that it holds and the books stay as they are.
LEMMA GoOn ==
  ASSUME CallsTyped, NEW c \in Calls, NEW label \in Labels, Goto(c, label),
         NEW new \in [volume : Nat, supply : Int], check' = [check EXCEPT ![c] = new],
         op' = op, UNCHANGED rowVars
  PROVE  /\ CallsTyped' /\ \A d \in Calls \ {c} : Same(d)
         /\ pc'[c] = label /\ check'[c] = new /\ op'[c] = op[c] /\ entity'[c] = entity[c]
<1>1. /\ pc' = [pc EXCEPT ![c] = label] /\ op' = op /\ read' = read /\ entity' = entity
      /\ loaded' = loaded
  BY DEF Goto, rowVars
<1>2. CallsTyped'
  <2>1. \A d \in Calls : {read'[d], entity'[d], loaded'[d]} \subseteq Rows(op'[d].key) \cup {NoRow}
    BY <1>1 DEF CallsTyped, Key
  <2> QED  BY <1>1, <2>1 DEF CallsTyped, Key
<1> QED  BY <1>1, <1>2 DEF CallsTyped, Same

(* The arrival of a call preserves the invariant. *)
LEMMA BeginStep ==
  ASSUME Inv, NEW c \in Calls, Begin(c)
  PROVE  Inv'
<1>1. CallsTyped /\ MemoryTyped /\ BooksTyped /\ BooksOK /\ RowsStay /\ CallOK(c)
  BY InvParts
<1>2. /\ pc[c] = "new" /\ read' = read /\ loaded' = loaded /\ check' = check
      /\ UNCHANGED <<initialization, chainVars, bookVars>>
      /\ UNCHANGED <<initialization, faults>>
  BY DEF Begin
<1>3. PICK o \in Ops :
        /\ op' = [op EXCEPT ![c] = o]
        /\ pc' = [pc EXCEPT ![c] = FirstAwait[o.name]]
        /\ entity' = [entity EXCEPT ![c] = IF o.name = "register" THEN FreshNode ELSE @]
  BY DEF Begin, Goto
<1>4. read[c] = NoRow /\ entity[c] = NoRow /\ loaded[c] = NoRow
  BY <1>1, <1>2 DEF CallOK, Stage
<1>5. /\ pc'[c] = FirstAwait[o.name] /\ op'[c] = o /\ read'[c] = NoRow /\ loaded'[c] = NoRow
      /\ entity'[c] = IF o.name = "register" THEN FreshNode ELSE NoRow
  BY <1>1, <1>2, <1>3, <1>4 DEF CallsTyped
<1>6. o \in Op /\ FirstAwait[o.name] \in Labels \ {"insert", "commit"} /\ o.name \in DOMAIN FirstAwait
  BY OpsAssumption, OpName
<1>7. o.name = "register" => FreshNode \in Rows(o.key)
  BY <1>6, OpKey, RowKinds
<1>8. Grows /\ BooksTyped' /\ BooksOK' /\ MemoryTyped'
  BY <1>1, <1>2, Still, MemoryStill
<1>9. CallsTyped'
  <2>1. FreshNode \in AnyRow /\ NoRow \in AnyRow
    BY RowKinds DEF AnyRow
  <2>2. pc' \in [Calls -> Labels] /\ op' \in [Calls -> Op \cup {NoOp}] /\ entity' \in [Calls -> AnyRow]
    BY <1>1, <1>3, <1>6, <2>1 DEF CallsTyped
  <2>3. ASSUME NEW d \in Calls
        PROVE  {read'[d], entity'[d], loaded'[d]} \subseteq Rows(op'[d].key) \cup {NoRow}
    <3>1. CASE d = c
      BY <1>5, <1>7, <3>1
    <3>2. CASE d # c
      BY <1>1, <1>2, <1>3, <3>2 DEF CallsTyped, Key
    <3> QED  BY <3>1, <3>2
  <2> QED  BY <1>1, <1>2, <2>2, <2>3 DEF CallsTyped, Key
<1>10. \A d \in Calls \ {c} : Same(d)
  BY <1>1, <1>2, <1>3 DEF Same, CallsTyped
<1>11. Stage(c)'
  BY <1>5, <1>6, LedgerNames DEF Stage, FirstAwait
<1>12. pc'[c] = "append" => op'[c].name # "activate"
  BY <1>5, <1>6 DEF FirstAwait
<1>13. Saving(c)' => o.name = "register"
  BY <1>5, <1>6 DEF Saving, FirstAwait
<1>14. ASSUME o.name = "register"  PROVE Saver(c)'
  <2>1. FreshNode # NoRow /\ o.name \in Writers /\ o.name \notin LedgerWrites
    BY <1>14, RowKinds, LedgerNames DEF Writers
  <2>2. (entity[c] = Intended(c, read[c]))'
    BY <1>5, <1>14, <2>1 DEF Intended
  <2> QED  BY <1>5, <1>14, <2>1, <2>2 DEF Saver
<1>15. (check[c].volume <= volume)'
  BY <1>1, <1>2 DEF CallOK, chainVars
<1>16. CallOK(c)'
  BY <1>11, <1>12, <1>13, <1>14, <1>15 DEF CallOK
<1> QED  BY <1>8, <1>9, <1>10, <1>16, OneCall

(* Waiting for the initialization preserves the invariant. *)
LEMMA EnsureLedgerStep ==
  ASSUME Inv, NEW c \in Calls, EnsureLedger(c)
  PROVE  Inv'
<1>1. CallsTyped /\ MemoryTyped /\ BooksTyped /\ BooksOK /\ RowsStay /\ CallOK(c)
  BY InvParts
<1>2. UNCHANGED <<chainVars, bookVars>> /\ faults' = faults
  BY DEF EnsureLedger
<1>3. CASE initialization = "none" /\ initialization' = "find" /\ UNCHANGED callVars
  <2>1. Grows /\ BooksTyped' /\ BooksOK'
    BY <1>1, <1>2, <1>3, Quiet
  <2>2. MemoryTyped'
    BY <1>1, <1>2, <1>3 DEF MemoryTyped
  <2>3. CallsTyped' /\ \A d \in Calls : Same(d)
    BY <1>1, <1>3 DEF CallsTyped, Same, callVars, rowVars, Key
  <2>4. CallOK(c)'
    BY <1>1, <2>1, <2>3, Frame
  <2> QED  BY <2>1, <2>2, <2>3, <2>4, OneCall
<1>4. CASE Leave(c, "failed") /\ UNCHANGED initialization
  <2>1. "failed" \in Ended /\ MemoryTyped'
    BY <1>1, <1>2, <1>4 DEF Ended, MemoryTyped
  <2> QED  BY <1>2, <1>4, <2>1, EndStep
<1> QED  BY <1>3, <1>4 DEF EnsureLedger

(* compareSupply() preserves the invariant: it reads the row only. *)
LEMMA CompareSupplyStep ==
  ASSUME Inv, NEW c \in Calls, CompareSupply(c)
  PROVE  Inv'
<1>1. CallsTyped /\ MemoryTyped /\ BooksTyped /\ BooksOK /\ RowsStay /\ CallOK(c)
  BY InvParts
<1>2. /\ UNCHANGED <<initialization, chainVars, bookVars>>
      /\ UNCHANGED <<initialization, faults>>
  BY DEF CompareSupply
<1>3. Grows /\ BooksTyped' /\ BooksOK' /\ MemoryTyped'
  BY <1>1, <1>2, Still, MemoryStill
<1>4. CASE Leave(c, "done")
  <2>1. "done" \in Ended
    BY DEF Ended
  <2> QED  BY <1>2, <1>3, <1>4, <2>1, EndStep
<1>5. CASE Leave(c, "head")
  <2>1. "head" \in Labels /\ "head" \notin Ended
    BY DEF Labels, Ended
  <2>2. CallsTyped' /\ (\A d \in Calls \ {c} : Same(d)) /\ pc'[c] = "head" /\ check' = check
    BY <1>1, <1>5, <2>1, LeaveStep
  <2>3. check'[c].volume \in Nat /\ check'[c].volume <= volume'
    BY <1>1, <1>2, <2>2 DEF CallOK, CallsTyped, chainVars
  <2> QED  BY <1>3, <2>2, <2>3, Idle, OneCall
<1> QED  BY <1>4, <1>5 DEF CompareSupply

(* The supply of a ledger row is an integer. *)
LEMMA SupplyIsInt ==
  ASSUME NEW row \in LedgerRow
  PROVE  totalSupply(row) \in Int
BY DEF LedgerRow, totalSupply

(* Reading the reserve index preserves the invariant. *)
LEMMA ReadIndexStep ==
  ASSUME Inv, NEW c \in Calls, ReadIndex(c)
  PROVE  Inv'
<1>1. CallsTyped /\ MemoryTyped /\ BooksTyped /\ BooksOK /\ RowsStay /\ CallOK(c)
  BY InvParts
<1>2. /\ UNCHANGED <<initialization, chainVars, bookVars>>
      /\ UNCHANGED <<initialization, faults>>
      /\ pc[c] = "index" /\ Goto(c, "ledger") /\ op' = op /\ UNCHANGED rowVars
      /\ check' = [check EXCEPT ![c].volume = volume]
  BY DEF ReadIndex
<1>3. Grows /\ BooksTyped' /\ BooksOK' /\ MemoryTyped'
  BY <1>1, <1>2, Still, MemoryStill
<1> DEFINE new == [check[c] EXCEPT !.volume = volume]
<1>4. new \in [volume : Nat, supply : Int] /\ new.volume = volume /\ check' = [check EXCEPT ![c] = new]
  BY <1>1, <1>2 DEF CallsTyped, BooksTyped
<1>5. "ledger" \in Labels
  BY DEF Labels
<1> HIDE DEF new
<1>6. /\ CallsTyped' /\ \A d \in Calls \ {c} : Same(d)
      /\ pc'[c] = "ledger" /\ check'[c] = new /\ op'[c] = op[c]
  BY <1>1, <1>2, <1>4, <1>5, GoOn
<1>7. op[c].name = "activate"
  BY <1>1, <1>2 DEF CallOK, Stage
<1>8. check'[c].volume <= volume'
  BY <1>1, <1>2, <1>4, <1>6 DEF chainVars, BooksTyped
<1>9. CallOK(c)'
  BY <1>6, <1>7, <1>8 DEF CallOK, Stage, Saving
<1> QED  BY <1>3, <1>6, <1>9, OneCall

(* Reading the supply, and deciding on it, preserves the invariant. *)
LEMMA ReadSupplyStep ==
  ASSUME Inv, NEW c \in Calls, ReadSupply(c)
  PROVE  Inv'
<1>1. CallsTyped /\ MemoryTyped /\ BooksTyped /\ BooksOK /\ RowsStay /\ CallOK(c)
  BY InvParts
<1>2. /\ UNCHANGED <<initialization, chainVars, bookVars>>
      /\ UNCHANGED <<initialization, faults>>
      /\ initialization = "ready" /\ op[c].name = "activate" /\ Goto(c, "phase") /\ op' = op
      /\ UNCHANGED rowVars
      /\ check' = [check EXCEPT ![c].supply = totalSupply(table["ledger"])]
  BY DEF ReadSupply, InLedger
<1>3. Grows /\ BooksTyped' /\ BooksOK' /\ MemoryTyped'
  BY <1>1, <1>2, Still, MemoryStill
<1>4. totalSupply(table["ledger"]) \in Int
  BY <1>1, <1>2, ReadyLedger, SupplyIsInt
<1> DEFINE new == [check[c] EXCEPT !.supply = totalSupply(table["ledger"])]
<1>5. new \in [volume : Nat, supply : Int] /\ new.volume = check[c].volume
      /\ check' = [check EXCEPT ![c] = new]
  BY <1>1, <1>2, <1>4 DEF CallsTyped
<1>6. "phase" \in Labels
  BY DEF Labels
<1> HIDE DEF new
<1>7. Goto(c, "phase") /\ op' = op /\ UNCHANGED rowVars
  BY <1>2
<1>8. /\ CallsTyped' /\ \A d \in Calls \ {c} : Same(d)
      /\ pc'[c] = "phase" /\ check'[c] = new /\ op'[c] = op[c]
  BY <1>1, <1>5, <1>6, <1>7, GoOn
<1>9. check'[c].volume <= volume'
  BY <1>1, <1>2, <1>5, <1>8 DEF chainVars, CallOK
<1>10. CallOK(c)'
  BY <1>2, <1>8, <1>9 DEF CallOK, Stage, Saving
<1> QED  BY <1>3, <1>8, <1>10, OneCall

(* The steps of log() do not touch the rows. *)
LEMMA EyeStep ==
  ASSUME Inv, NEW c \in Calls, ReadHead(c) \/ InsertEntry(c) \/ CommitEntry(c)
  PROVE  Inv'
<1>1. CallsTyped /\ MemoryTyped /\ BooksTyped /\ BooksOK /\ RowsStay /\ CallOK(c)
  BY InvParts
<1>2. /\ UNCHANGED <<initialization, chainVars, bookVars>>
      /\ UNCHANGED <<initialization, faults>>
  BY DEF ReadHead, InsertEntry, CommitEntry
<1>3. Grows /\ BooksTyped' /\ BooksOK' /\ MemoryTyped'
  BY <1>1, <1>2, Still, MemoryStill
<1>4. CASE CommitEntry(c)
  <2>1. "done" \in Ended /\ Leave(c, "done")
    BY <1>4 DEF Ended, CommitEntry
  <2> QED  BY <1>2, <1>3, <2>1, EndStep
<1>5. CASE ReadHead(c) \/ InsertEntry(c)
  <2>1. PICK label \in {"insert", "commit"} : Goto(c, label) /\ op' = op /\ check' = check
                                              /\ UNCHANGED rowVars
    BY <1>5 DEF ReadHead, InsertEntry
  <2>2. label \in Labels /\ check[c] \in [volume : Nat, supply : Int]
        /\ check' = [check EXCEPT ![c] = check[c]]
    BY <1>1, <2>1 DEF Labels, CallsTyped
  <2>3. CallsTyped' /\ (\A d \in Calls \ {c} : Same(d)) /\ pc'[c] = label /\ check'[c] = check[c]
    BY <1>1, <2>1, <2>2, GoOn
  <2>4. check'[c].volume \in Nat /\ check'[c].volume <= volume'
    BY <1>1, <1>2, <2>2, <2>3 DEF CallOK, chainVars
  <2>5. pc'[c] \in Ended \cup {"head", "insert", "commit"}
    BY <2>1, <2>3
  <2>6. CallOK(c)'
    BY <1>3, <2>4, <2>5, Idle
  <2> QED  BY <1>3, <2>3, <2>6, OneCall
<1> QED  BY <1>4, <1>5

(* The SELECT of save() preserves the invariant. *)
LEMMA LoadStep ==
  ASSUME Inv, NEW c \in Calls, Load(c)
  PROVE  Inv'
<1>1. CallsTyped /\ MemoryTyped /\ BooksTyped /\ BooksOK /\ RowsStay /\ CallOK(c)
  BY InvParts
<1>2. /\ UNCHANGED <<initialization, chainVars, bookVars>>
      /\ UNCHANGED <<initialization, faults>>
      /\ pc[c] = "load" /\ op' = op /\ entity' = entity /\ check' = check
      /\ pc' = [pc EXCEPT ![c] = "write"]
      /\ loaded' = [loaded EXCEPT ![c] = Row(c)]
      /\ read' = [read EXCEPT ![c] = IF op[c].name = "register" THEN Row(c) ELSE @]
  BY DEF Load, Goto
<1>3. Grows /\ BooksTyped' /\ BooksOK' /\ MemoryTyped'
  BY <1>1, <1>2, Still, MemoryStill
<1>4. Key(c) \in Keys /\ Row(c) \in Rows(Key(c)) \cup {NoRow} /\ Row(c) \in AnyRow
  BY <1>1, KeyInKeys DEF BooksTyped, Row
<1>5. CallsTyped'
  <2>1. pc' \in [Calls -> Labels] /\ read' \in [Calls -> AnyRow] /\ loaded' \in [Calls -> AnyRow]
    BY <1>1, <1>2, <1>4 DEF CallsTyped, Labels
  <2>2. \A d \in Calls : {read'[d], entity'[d], loaded'[d]} \subseteq Rows(op'[d].key) \cup {NoRow}
    BY <1>1, <1>2, <1>4 DEF CallsTyped, Key
  <2> QED  BY <1>1, <1>2, <2>1, <2>2 DEF CallsTyped, Key
<1>6. \A d \in Calls \ {c} : Same(d)
  BY <1>1, <1>2 DEF Same, CallsTyped
<1>7. /\ pc'[c] = "write" /\ loaded'[c] = Row(c)
      /\ read'[c] = IF op[c].name = "register" THEN Row(c) ELSE read[c]
  BY <1>1, <1>2 DEF CallsTyped
<1>8. Saver(c)
  BY <1>1, <1>2 DEF CallOK, Saving
<1>9. table' = table /\ ideal' = ideal /\ activations' = activations /\ volume' = volume
      /\ initialization' = initialization
  BY <1>2 DEF chainVars, bookVars
<1>10. Saver(c)'
  <2>1. \A row : Intended(c, row)' = Intended(c, row)
    BY <1>2 DEF Intended
  <2>2. (entity[c] = Intended(c, read[c]))'
    <3>1. CASE op[c].name = "register"
      BY <1>2, <1>8, <3>1, LedgerNames DEF Saver, Intended
    <3>2. CASE op[c].name # "register"
      BY <1>2, <1>7, <1>8, <3>2 DEF Saver, Intended
    <3> QED  BY <3>1, <3>2
  <2>3. (read[c] # NoRow => table[Key(c)] # NoRow)'
    BY <1>2, <1>7, <1>8, <1>9 DEF Saver, Key, Row
  <2>4. (pc[c] = "write" /\ loaded[c] # NoRow => table[Key(c)] # NoRow)'
    BY <1>2, <1>7, <1>9 DEF Key, Row
  <2>5. (op[c].name = "recordExecution" => read[c] # NoRow)'
    BY <1>2, <1>7, <1>8 DEF Saver
  <2>6. (op[c].name \in LedgerWrites =>
           /\ initialization = "ready"
           /\ \A column \in DOMAIN ZeroLedger :
                entity[c][column] <= Intended(c, ideal["ledger"])[column])'
    BY <1>2, <1>8, <1>9 DEF Saver, Intended
  <2>7. (op[c].name \in {"isActive", "activate"} =>
           /\ entity[c].active = 1 => activations # {}
           /\ entity[c].active = 0 => entity[c] = InactivePhase /\ read[c] = NoRow)'
    BY <1>2, <1>7, <1>8, <1>9 DEF Saver
  <2> QED  BY <1>2, <1>8, <2>2, <2>3, <2>4, <2>5, <2>6, <2>7 DEF Saver
<1>11. CallOK(c)'
  BY <1>1, <1>2, <1>7, <1>9, <1>10 DEF CallOK, Stage
<1> QED  BY <1>3, <1>5, <1>6, <1>11, OneCall

(* The append of a finalized epoch's margin preserves the invariant. *)
LEMMA AppendVolumeStep ==
  ASSUME Inv, NEW c \in Calls, AppendVolume(c)
  PROVE  Inv'
<1>1. CallsTyped /\ MemoryTyped /\ BooksTyped /\ BooksOK /\ RowsStay /\ CallOK(c)
  BY InvParts
<1>2. /\ volume' = volume + op[c].amount /\ Leave(c, "done") /\ activations' = activations
      /\ table' = table /\ ideal' = ideal /\ stale' = stale
      /\ UNCHANGED <<initialization, faults>> /\ initialization' = initialization
  BY DEF AppendVolume, bookVars
<1>3. op[c].amount \in Nat
  BY <1>1, KeyInKeys
<1>4. volume \in Nat /\ volume' \in Nat /\ volume <= volume'
  BY <1>1, <1>2, <1>3 DEF BooksTyped
<1>5. BooksTyped' /\ MemoryTyped'
  BY <1>1, <1>2, <1>4, MemoryStill DEF BooksTyped
<1>6. Grows
  <2>1. \A row \in LedgerRow : \A column \in DOMAIN ZeroLedger : row[column] <= row[column]
    BY DEF LedgerRow, ZeroLedger
  <2> QED  BY <1>2, <1>4, <2>1 DEF Grows
<1>7. BooksOK'
  <2>1. RowsStay' /\ ExactUnlessStale' /\ NothingInvented'
    BY <1>1, <1>2 DEF BooksOK, RowsStay, ExactUnlessStale, NothingInvented
  <2>2. \A metrics \in activations : metrics.volume <= volume'
    BY <1>1, <1>4 DEF BooksOK, ActivationJustified, BooksTyped
  <2>3. ActivationJustified'
    BY <1>1, <1>2, <2>2 DEF BooksOK, ActivationJustified, Mature
  <2> QED  BY <2>1, <2>3 DEF BooksOK
<1>8. "done" \in Ended
  BY DEF Ended
<1>9. CallsTyped' /\ CallOK(c)' /\ \A d \in Calls \ {c} : Same(d)
  BY <1>1, <1>2, <1>5, <1>8, EndedOK
<1> QED  BY <1>5, <1>6, <1>7, <1>9, OneCall

(* The append of an activation preserves the invariant. *)
LEMMA AppendActivationStep ==
  ASSUME Inv, NEW c \in Calls, AppendActivation(c)
  PROVE  Inv'
<1>1. CallsTyped /\ MemoryTyped /\ BooksTyped /\ BooksOK /\ RowsStay /\ CallOK(c)
  BY InvParts
<1>2. /\ pc[c] = "append" /\ op[c].name = "activate"
      /\ activations' = activations \cup {check[c]} /\ volume' = volume
      /\ table' = table /\ ideal' = ideal /\ stale' = stale
      /\ read' = [read EXCEPT ![c] = entity[c]]
      /\ entity' = [entity EXCEPT ![c] = Activated(@, check[c])]
      /\ pc' = [pc EXCEPT ![c] = "load"]
      /\ op' = op /\ loaded' = loaded /\ check' = check
      /\ initialization' = initialization /\ UNCHANGED <<initialization, faults>>
  BY DEF AppendActivation, bookVars, Goto
<1>3. /\ entity[c] # NoRow /\ table["phase"] # NoRow /\ Mature(check[c])
      /\ check[c].volume <= volume /\ check[c] \in [volume : Nat, supply : Int]
  BY <1>1, <1>2 DEF CallOK, CallsTyped
<1>4. Key(c) = "phase" /\ Key(c) \in Keys
  BY <1>1, <1>2, KeyInKeys
<1>5. /\ Activated(entity[c], check[c]) \in PhaseRow /\ Activated(entity[c], check[c]).active = 1
  BY <1>3 DEF Activated, PhaseRow
<1>6. /\ pc'[c] = "load" /\ read'[c] = entity[c] /\ entity'[c] = Activated(entity[c], check[c])
  BY <1>1, <1>2 DEF CallsTyped
<1>7. BooksTyped' /\ MemoryTyped'
  BY <1>1, <1>2, <1>3, MemoryStill DEF BooksTyped
<1>8. Grows
  <2>1. \A row \in LedgerRow : \A column \in DOMAIN ZeroLedger : row[column] <= row[column]
    BY DEF LedgerRow, ZeroLedger
  <2>2. volume' \in Nat /\ volume <= volume'
    BY <1>1, <1>2 DEF BooksTyped
  <2> QED  BY <1>2, <2>1, <2>2 DEF Grows
<1>9. BooksOK'
  <2>1. RowsStay' /\ ExactUnlessStale' /\ NothingInvented'
    BY <1>1, <1>2 DEF BooksOK, RowsStay, ExactUnlessStale, NothingInvented
  <2>2. ActivationJustified'
    BY <1>1, <1>2, <1>3 DEF BooksOK, ActivationJustified, Mature
  <2> QED  BY <2>1, <2>2 DEF BooksOK
<1>10. CallsTyped'
  <2>1. Rows(Key(c)) = PhaseRow /\ Activated(entity[c], check[c]) \in AnyRow
    BY <1>4, <1>5, RowKinds DEF AnyRow
  <2>2. pc' \in [Calls -> Labels] /\ read' \in [Calls -> AnyRow] /\ entity' \in [Calls -> AnyRow]
    BY <1>1, <1>2, <2>1 DEF CallsTyped, Labels
  <2>3. ASSUME NEW d \in Calls
        PROVE  {read'[d], entity'[d], loaded'[d]} \subseteq Rows(op'[d].key) \cup {NoRow}
    <3>1. CASE d = c
      BY <1>1, <1>2, <1>5, <1>6, <2>1, <3>1 DEF CallsTyped, Key
    <3>2. CASE d # c
      BY <1>1, <1>2, <3>2 DEF CallsTyped, Key
    <3> QED  BY <3>1, <3>2
  <2> QED  BY <1>1, <1>2, <2>2, <2>3 DEF CallsTyped, Key
<1>11. \A d \in Calls \ {c} : Same(d)
  BY <1>1, <1>2 DEF Same, CallsTyped
<1>12. Saver(c)'
  <2>1. op[c].name \in Writers /\ op[c].name \notin LedgerWrites
    BY <1>2, LedgerNames DEF Writers
  <2>2. Activated(entity[c], check[c]) # NoRow
    BY <1>5, RowKinds
  <2>3. (entity[c] = Intended(c, read[c]))'
    BY <1>2, <1>5, <1>6, <2>1 DEF Intended, Activated
  <2>4. (table[Key(c)] # NoRow)'
    BY <1>2, <1>3, <1>4 DEF Key
  <2> QED  BY <1>2, <1>5, <1>6, <2>1, <2>2, <2>3, <2>4 DEF Saver
<1>13. CallOK(c)'
  BY <1>2, <1>3, <1>6, <1>12 DEF CallOK, Stage
<1> QED  BY <1>7, <1>8, <1>9, <1>10, <1>11, <1>13, OneCall

\* A call that saves the ledger is one of the three that write it.
LEMMA LedgerSaver ==
  ASSUME CallsTyped, NEW c \in Calls, op[c].name \in Writers, Key(c) = "ledger"
  PROVE  op[c].name \in LedgerWrites
BY KeyInKeys, KeysAssumption DEF Writers

(* Only isActive() and activate() save the release row. *)
LEMMA PhaseSaver ==
  ASSUME CallsTyped, NEW c \in Calls, op[c].name \in Writers, Key(c) = "phase"
  PROVE  op[c].name \in {"isActive", "activate"}
BY KeyInKeys, KeysAssumption DEF Writers

\* What a save intends is a row of the same key.
LEMMA IntendedRow ==
  ASSUME CallsTyped, BooksTyped, RowsStay, NEW c \in Calls, Saver(c)
  PROVE  Intended(c, ideal[Key(c)]) \in Rows(Key(c))
<1>1. Key(c) \in Keys /\ ideal[Key(c)] \in Rows(Key(c)) \cup {NoRow}
  BY KeyInKeys DEF BooksTyped
<1>2. CASE op[c].name \in LedgerWrites
  <2>1. ideal["ledger"] \in LedgerRow /\ Key(c) = "ledger" /\ op[c].amount \in Nat
    BY <1>2, ReadyLedger, KeyInKeys DEF Saver
  <2> QED  BY <1>2, <2>1, IntendedBy, CreditedRow, RowKinds
<1>3. CASE op[c].name = "recordExecution"
  <2>1. Key(c) \in Nodes /\ op[c].amount \in {0, 1}
    BY <1>3, KeyInKeys
  <2>2. ideal[Key(c)] # NoRow /\ Rows(Key(c)) = NodeRow
    BY <1>1, <1>3, <2>1, RowKinds DEF Saver, RowsStay
  <2> QED  BY <1>1, <1>3, <2>1, <2>2, IntendedBy, ExecutedRow
<1>4. CASE op[c].name = "register"
  <2>1. Key(c) \in Nodes
    BY <1>4, KeyInKeys
  <2> QED  BY <1>4, <2>1, IntendedBy, RowKinds
<1>5. CASE op[c].name \in {"isActive", "activate"}
  <2>1. Key(c) = "phase" /\ Rows(Key(c)) = PhaseRow /\ InactivePhase \in PhaseRow
    BY <1>5, KeyInKeys, RowKinds
  <2>2. \A row : Activated(row, check[c]) \in PhaseRow
    BY DEF Activated, PhaseRow, CallsTyped
  <2> QED  BY <1>1, <1>5, <2>1, <2>2, IntendedBy
<1> QED  BY <1>2, <1>3, <1>4, <1>5 DEF Saver, Writers

\* What a save leaves of its row.
LEMMA WrittenRow ==
  ASSUME CallsTyped, BooksTyped, NEW c \in Calls, Saver(c), Write(c)
  PROVE  LET new == Saved(Row(c), loaded[c], entity[c])
         IN  /\ table' = [table EXCEPT ![Key(c)] = new]
             /\ new \in Rows(Key(c))
             /\ loaded[c] = Row(c) => new = entity[c]
             /\ \A column \in DOMAIN entity[c] :
                  \/ new[column] = entity[c][column]
                  \/ Row(c) \in Rows(Key(c)) /\ new[column] = Row(c)[column]
<1>1. pc[c] = "write" /\ table' = [table EXCEPT ![Key(c)] = Saved(Row(c), loaded[c], entity[c])]
  BY DEF Write, Row
<1>2. Key(c) \in Keys /\ Rows(Key(c)) \in {LedgerRow, PhaseRow, NodeRow}
  BY KeyInKeys, RowOfKind
<1>3. /\ Row(c) \in Rows(Key(c)) \cup {NoRow} /\ loaded[c] \in Rows(Key(c)) \cup {NoRow}
      /\ entity[c] \in Rows(Key(c)) /\ (loaded[c] # NoRow => Row(c) # NoRow)
  BY <1>1, <1>2 DEF Saver, Row, CallsTyped, BooksTyped
<1> DEFINE new == Saved(Row(c), loaded[c], entity[c])
<1>4. /\ new \in Rows(Key(c))
      /\ loaded[c] = Row(c) => new = entity[c]
      /\ \A column \in DOMAIN entity[c] :
           \/ new[column] = entity[c][column]
           \/ Row(c) \in Rows(Key(c)) /\ new[column] = Row(c)[column]
  <2> DEFINE R == Rows(Key(c))
             row == Row(c)
             found == loaded[c]
             held == entity[c]
  <2>1. /\ R \in {LedgerRow, PhaseRow, NodeRow} /\ row \in R \cup {NoRow}
        /\ found \in R \cup {NoRow} /\ held \in R /\ (found # NoRow => row # NoRow)
    BY <1>2, <1>3
  <2> HIDE DEF R, row, found, held
  <2>2. Saved(row, found, held) \in R
    BY <2>1, SavedRow
  <2>3. found = row => Saved(row, found, held) = held
    BY <2>1, SavedRow
  <2>4. ASSUME NEW column \in DOMAIN held
        PROVE  \/ Saved(row, found, held)[column] = held[column]
               \/ row \in R /\ Saved(row, found, held)[column] = row[column]
    BY <2>1, <2>4, SavedColumn
  <2> QED  BY <2>2, <2>3, <2>4 DEF R, row, found, held
<1> QED  BY <1>1, <1>4

(* The INSERT or UPDATE of save() preserves the invariant. *)
LEMMA WriteStep ==
  ASSUME Inv, NEW c \in Calls, Write(c)
  PROVE  Inv'
<1>1. CallsTyped /\ MemoryTyped /\ BooksTyped /\ BooksOK /\ RowsStay /\ CallOK(c)
  BY InvParts
<1> DEFINE k == Key(c)
           new == Saved(Row(c), loaded[c], entity[c])
           meant == Intended(c, ideal[k])
<1>2. /\ pc[c] = "write" /\ ideal' = [ideal EXCEPT ![k] = meant]
      /\ stale' = IF read[c] = loaded[c] /\ read[c] = Row(c) THEN stale ELSE stale \cup {c}
      /\ Leave(c, AfterWrite(c)) /\ UNCHANGED <<initialization, faults>>
      /\ volume' = volume /\ activations' = activations /\ initialization' = initialization
  BY DEF Write, chainVars
<1>3. Saver(c)
  BY <1>1, <1>2 DEF CallOK, Saving
<1>4. /\ table' = [table EXCEPT ![k] = new] /\ new \in Rows(k)
      /\ loaded[c] = Row(c) => new = entity[c]
      /\ \A column \in DOMAIN entity[c] :
           \/ new[column] = entity[c][column]
           \/ Row(c) \in Rows(k) /\ new[column] = Row(c)[column]
  BY <1>1, <1>3, WrittenRow
<1>5. meant \in Rows(k) /\ k \in Keys
  BY <1>1, <1>3, IntendedRow, KeyInKeys
<1>6. new # NoRow /\ meant # NoRow /\ new \in AnyRow /\ meant \in AnyRow
  BY <1>4, <1>5, RowOfKind
<1>7. k = "ledger" => /\ op[c].name \in LedgerWrites /\ initialization = "ready"
                      /\ op[c].amount \in Nat
                      /\ Row(c) \in LedgerRow /\ ideal["ledger"] \in LedgerRow
                      /\ entity[c] \in LedgerRow
                      /\ meant = Credited(ideal["ledger"], LedgerColumn[op[c].name], op[c].amount)
  <2> SUFFICES ASSUME k = "ledger"
               PROVE  /\ op[c].name \in LedgerWrites /\ initialization = "ready"
                      /\ op[c].amount \in Nat
                      /\ Row(c) \in LedgerRow /\ ideal["ledger"] \in LedgerRow
                      /\ entity[c] \in LedgerRow
                      /\ meant = Credited(ideal["ledger"], LedgerColumn[op[c].name], op[c].amount)
    OBVIOUS
  <2>1. op[c].name \in LedgerWrites /\ initialization = "ready" /\ op[c].amount \in Nat
    BY <1>1, <1>3, LedgerSaver, KeyInKeys DEF Saver
  <2>2. Row(c) \in LedgerRow /\ ideal["ledger"] \in LedgerRow
    BY <1>1, <2>1, ReadyLedger DEF Row
  <2>3. entity[c] \in LedgerRow
    BY <1>1, <1>3, RowKinds DEF Saver, CallsTyped
  <2>4. meant = Credited(ideal["ledger"], LedgerColumn[op[c].name], op[c].amount)
    BY <2>1, IntendedBy
  <2> QED  BY <2>1, <2>2, <2>3, <2>4
<1> HIDE DEF new, meant
<1>8. BooksTyped' /\ MemoryTyped'
  <2>1. table' \in [Keys -> AnyRow] /\ ideal' \in [Keys -> AnyRow]
    BY <1>1, <1>2, <1>4, <1>6 DEF BooksTyped
  <2>2. \A j \in Keys : {table'[j], ideal'[j]} \subseteq Rows(j) \cup {NoRow}
    BY <1>1, <1>2, <1>4, <1>5 DEF BooksTyped
  <2>3. stale' \subseteq Calls
    BY <1>1, <1>2 DEF BooksTyped
  <2> QED  BY <1>1, <1>2, <2>1, <2>2, <2>3, MemoryStill DEF BooksTyped
<1>9. /\ \A j \in Keys \ {k} : table'[j] = table[j] /\ ideal'[j] = ideal[j]
      /\ table'[k] = new /\ ideal'[k] = meant
  BY <1>1, <1>2, <1>4, <1>5 DEF BooksTyped
<1>10. "ledger" \in Keys /\ "phase" \in Keys
  BY DEF Keys
<1>11. Grows
  <2>1. volume' \in Nat /\ volume <= volume'
    BY <1>1, <1>2 DEF BooksTyped
  <2>2. CASE k = "ledger"
    <3>1. meant \in LedgerRow /\ \A column \in DOMAIN ZeroLedger : ideal["ledger"][column] <= meant[column]
      BY <1>7, <2>2, CreditedRow
    <3> QED  BY <1>2, <1>6, <1>9, <2>1, <2>2, <3>1 DEF Grows
  <2>3. CASE k # "ledger"
    <3>1. \A row \in LedgerRow : \A column \in DOMAIN ZeroLedger : row[column] <= row[column]
      BY DEF LedgerRow, ZeroLedger
    <3> QED  BY <1>2, <1>6, <1>9, <1>10, <2>1, <2>3, <3>1 DEF Grows
  <2> QED  BY <2>2, <2>3
<1>12. RowsStay'
  BY <1>1, <1>2, <1>6, <1>7, <1>9, <1>10 DEF RowsStay
<1>13. ExactUnlessStale'
  <2> SUFFICES ASSUME stale' = {}  PROVE table' = ideal'
    BY DEF ExactUnlessStale
  <2>1. stale = {} /\ read[c] = loaded[c] /\ read[c] = Row(c)
    BY <1>2
  <2>2. table = ideal
    BY <1>1, <2>1 DEF BooksOK, ExactUnlessStale
  <2>3. entity[c] = Intended(c, Row(c)) /\ Row(c) = ideal[k]
    BY <1>3, <2>1, <2>2 DEF Saver, Row
  <2>4. new = meant
    BY <1>4, <2>1, <2>3 DEF meant
  <2> QED  BY <1>2, <1>4, <2>2, <2>4
<1>14. NothingInvented'
  <2>1. CASE k = "ledger"
    <3>1. ASSUME NEW column \in DOMAIN ZeroLedger  PROVE new[column] <= meant[column]
      <4>1. entity[c][column] <= meant[column]
        BY <1>3, <1>7, <2>1 DEF Saver, meant
      <4>2. Row(c)[column] <= ideal["ledger"][column]
        BY <1>1, <1>7, <2>1, RowKinds DEF BooksOK, NothingInvented, Row
      <4>3. ideal["ledger"][column] <= meant[column] /\ meant \in LedgerRow
        BY <1>7, <2>1, CreditedRow
      <4>4. \A row \in LedgerRow : row[column] \in Nat /\ DOMAIN row = DOMAIN ZeroLedger
        BY DEF LedgerRow, ZeroLedger
      <4>5. Row(c)[column] <= meant[column]
        BY <1>7, <2>1, <4>2, <4>3, <4>4
      <4>6. new[column] = entity[c][column] \/ new[column] = Row(c)[column]
        BY <1>4, <1>7, <2>1, <4>4
      <4> QED  BY <4>1, <4>5, <4>6
    <3> QED  BY <1>9, <2>1, <3>1 DEF NothingInvented
  <2>2. CASE k # "ledger"
    BY <1>1, <1>9, <1>10, <2>2 DEF BooksOK, NothingInvented
  <2> QED  BY <2>1, <2>2
<1>15. ActivationJustified'
  <2>1. table'["phase"] # NoRow /\ table'["phase"].active = 1 => activations # {}
    <3>1. CASE k # "phase"
      BY <1>1, <1>9, <1>10, <3>1 DEF BooksOK, ActivationJustified
    <3>2. CASE k = "phase"
      <4>1. op[c].name \in {"isActive", "activate"}
        BY <1>1, <1>3, <3>2, PhaseSaver DEF Saver
      <4>2. entity[c] \in PhaseRow /\ "active" \in DOMAIN entity[c] /\ Rows(k) = PhaseRow
        <5>1. Rows(k) = PhaseRow /\ entity[c] \in Rows(k)
          BY <1>1, <1>3, <3>2, RowKinds DEF Saver, CallsTyped
        <5>2. \A row \in PhaseRow : "active" \in DOMAIN row
          BY DEF PhaseRow
        <5> QED  BY <5>1, <5>2
      <4>3. new.active = 1 => entity[c].active = 1 \/ (Row(c) \in PhaseRow /\ Row(c).active = 1)
        BY <1>4, <4>2
      <4>4. Row(c) \in PhaseRow /\ Row(c).active = 1 => activations # {}
        BY <1>1, <3>2, RowKinds DEF BooksOK, ActivationJustified, Row
      <4> QED  BY <1>3, <1>9, <3>2, <4>1, <4>3, <4>4 DEF Saver
    <3> QED  BY <3>1, <3>2
  <2> QED  BY <1>1, <1>2, <2>1 DEF BooksOK, ActivationJustified, Mature
<1>16. BooksOK'
  BY <1>12, <1>13, <1>14, <1>15 DEF BooksOK
<1>17. CASE AfterWrite(c) = "done"
  <2>1. "done" \in Ended
    BY DEF Ended
  <2> QED  BY <1>1, <1>2, <1>8, <1>11, <1>16, <1>17, <2>1, EndedOK, OneCall
<1>18. CASE AfterWrite(c) = "append"
  <2>1. "append" \in Labels /\ "append" \notin Ended
    BY DEF Labels, Ended
  <2>2. /\ CallsTyped' /\ \A d \in Calls \ {c} : Same(d)
        /\ pc'[c] = "append" /\ op' = op /\ entity' = entity /\ check' = check
    BY <1>1, <1>2, <1>18, <2>1, LeaveStep
  <2>3. op[c].name = "activate" => Mature(check[c])
    BY <1>18 DEF AfterWrite, Decision
  <2>4. op[c].name = "activate" => table'["phase"] # NoRow
    BY <1>1, <1>6, <1>9, KeyInKeys
  <2>5. CallOK(c)'
    BY <1>1, <1>2, <1>3, <2>2, <2>3, <2>4 DEF CallOK, Stage, Saving, Saver, Mature
  <2> QED  BY <1>8, <1>11, <1>16, <2>2, <2>5, OneCall
<1> QED  BY <1>17, <1>18, AfterWriteLabel

-----------------------------------------------------------------------------
(* The steps of the process. *)

(* A step that leaves all calls alone preserves the invariant if the rows stay sound. *)
LEMMA AllSame ==
  ASSUME Inv, UNCHANGED <<pc, op, read, entity, loaded, check>>, MemoryTyped', BooksTyped', BooksOK',
         Grows
  PROVE  Inv'
<1>1. CallsTyped /\ BooksTyped /\ RowsStay
  BY InvParts
<1>2. CallsTyped' /\ \A d \in Calls : Same(d)
  BY <1>1 DEF CallsTyped, Same, Key
<1>3. \A d \in Calls : CallOK(d)'
  BY <1>1, <1>2, Frame DEF Inv
<1> QED  BY <1>2, <1>3 DEF Inv

(* The initialization preserves the invariant, whether it resolves or rejects. *)
LEMMA InitializationStep ==
  ASSUME Inv, Initialization \/ InitializationRejects
  PROVE  Inv'
<1>1. CallsTyped /\ MemoryTyped /\ BooksTyped /\ BooksOK /\ RowsStay
  BY InvParts
<1>2. UNCHANGED <<pc, op, read, entity, loaded, check>>
  BY DEF Initialization, InitializationFinds, InitializationSaves, InitializationRejects, callVars,
         rowVars
<1>3. CASE InitializationFinds
  <2>1. Grows /\ BooksTyped' /\ BooksOK'
    BY <1>1, <1>3, Quiet DEF InitializationFinds
  <2>2. MemoryTyped'
    BY <1>1, <1>3 DEF MemoryTyped, InitializationFinds
  <2> QED  BY <1>2, <2>1, <2>2, AllSame
<1>4. CASE InitializationRejects
  <2>1. Grows /\ BooksTyped' /\ BooksOK'
    BY <1>1, <1>4, Quiet DEF InitializationRejects
  <2>2. MemoryTyped'
    BY <1>1, <1>4, CallsAssumption DEF MemoryTyped, InitializationRejects
  <2> QED  BY <1>2, <2>1, <2>2, AllSame
<1>5. CASE InitializationSaves
  <2>1. /\ initialization = "save" /\ initialization' = "ready" /\ faults' = faults
        /\ table' = [table EXCEPT !["ledger"] = ZeroLedger]
        /\ ideal' = [ideal EXCEPT !["ledger"] = ZeroLedger]
        /\ volume' = volume /\ activations' = activations /\ stale' = stale
    BY <1>5 DEF InitializationSaves, chainVars
  <2>2. ZeroLedger \in LedgerRow /\ ZeroLedger # NoRow /\ ZeroLedger \in AnyRow
        /\ Rows("ledger") = LedgerRow /\ "ledger" \in Keys /\ "phase" \in Keys
    BY RowKinds DEF AnyRow, Keys
  <2>3. /\ table'["ledger"] = ZeroLedger /\ ideal'["ledger"] = ZeroLedger
        /\ \A j \in Keys \ {"ledger"} : table'[j] = table[j] /\ ideal'[j] = ideal[j]
    BY <1>1, <2>1, <2>2 DEF BooksTyped
  <2>4. BooksTyped' /\ MemoryTyped'
    <3>1. table' \in [Keys -> AnyRow] /\ ideal' \in [Keys -> AnyRow]
      BY <1>1, <2>1, <2>2 DEF BooksTyped
    <3>2. \A j \in Keys : {table'[j], ideal'[j]} \subseteq Rows(j) \cup {NoRow}
      BY <1>1, <2>2, <2>3 DEF BooksTyped
    <3> QED  BY <1>1, <2>1, <3>1, <3>2 DEF BooksTyped, MemoryTyped
  <2>5. BooksOK'
    <3>1. RowsStay'
      BY <1>1, <2>1, <2>2, <2>3 DEF RowsStay
    <3>2. ExactUnlessStale'
      BY <1>1, <2>1 DEF BooksOK, ExactUnlessStale
    <3>3. NothingInvented'
      BY <2>3 DEF NothingInvented, ZeroLedger
    <3>4. ActivationJustified'
      BY <1>1, <2>1, <2>2, <2>3 DEF BooksOK, ActivationJustified, Mature
    <3> QED  BY <3>1, <3>2, <3>3, <3>4 DEF BooksOK
  <2>6. Grows
    <3>1. table["ledger"] = NoRow /\ ideal["ledger"] = NoRow
      BY <1>1, <2>1, <2>2 DEF RowsStay
    <3>2. ideal["ledger"] \notin LedgerRow
      BY <3>1, RowKinds
    <3>3. volume' \in Nat /\ volume <= volume'
      BY <1>1, <2>1 DEF BooksTyped
    <3> QED  BY <2>1, <2>3, <3>1, <3>2, <3>3 DEF Grows
  <2> QED  BY <1>2, <2>4, <2>5, <2>6, AllSame
<1> QED  BY <1>3, <1>4, <1>5 DEF Initialization

(* A restart, which ends all calls, preserves the invariant. *)
LEMMA RestartStep ==
  ASSUME Inv, Restart
  PROVE  Inv'
<1>1. CallsTyped /\ MemoryTyped /\ BooksTyped /\ BooksOK /\ RowsStay /\ \A c \in Calls : CallOK(c)
  BY InvParts
<1>2. /\ faults < MaxFaults /\ faults' = faults + 1 /\ initialization' = "none"
      /\ pc' = [c \in Calls |-> IF Running(c) THEN "failed" ELSE pc[c]]
      /\ Forget({c \in Calls : Running(c)}) /\ UNCHANGED <<chainVars, bookVars>>
  BY DEF Restart
<1>3. MemoryTyped'
  BY <1>1, <1>2, CallsAssumption DEF MemoryTyped
<1>4. BooksTyped' /\ BooksOK'
  BY <1>1, <1>2 DEF BooksTyped, BooksOK, RowsStay, ExactUnlessStale, NothingInvented,
                    ActivationJustified, Mature, chainVars, bookVars
<1>5. CallsTyped'
  <2>1. pc' \in [Calls -> Labels]
    BY <1>1, <1>2 DEF CallsTyped, Labels
  <2> QED  BY <1>1, <1>2, <2>1, ForgetTyped
<1>6. ASSUME NEW c \in Calls  PROVE CallOK(c)'
  <2>1. CASE Running(c)
    <3>1. pc'[c] = "failed" /\ check'[c] = NoCheck
      BY <1>2, <2>1 DEF Forget
    <3>2. check'[c].volume \in Nat /\ check'[c].volume <= volume'
      BY <1>4, <3>1 DEF NoCheck, BooksTyped
    <3> QED  BY <1>4, <3>1, <3>2, Idle DEF Ended
  <2>2. CASE ~Running(c)
    <3>1. /\ pc'[c] = pc[c] /\ op'[c] = op[c] /\ read'[c] = read[c] /\ entity'[c] = entity[c]
          /\ loaded'[c] = loaded[c] /\ check'[c] = check[c] /\ volume' = volume
      BY <1>2, <2>2 DEF Forget, chainVars
    <3>2. pc[c] \in {"new", "done", "failed"}
      BY <2>2 DEF Running, Ended
    <3> QED  BY <1>1, <3>1, <3>2 DEF CallOK, Stage, Saving
  <2> QED  BY <2>1, <2>2
<1> QED  BY <1>3, <1>4, <1>5, <1>6 DEF Inv

(* A failed await preserves the invariant. *)
LEMMA FailStep ==
  ASSUME Inv, NEW c \in Calls, Fail(c) \/ InsertFails(c)
  PROVE  Inv'
<1>1. MemoryTyped
  BY InvParts
<1>2. Leave(c, "failed") /\ UNCHANGED <<initialization, chainVars, bookVars>> /\ "failed" \in Ended
  BY DEF Fail, InsertFails, Ended
<1>3. MemoryTyped'
  BY <1>1, CallsAssumption DEF MemoryTyped, Fail, InsertFails
<1> QED  BY <1>2, <1>3, EndStep

-----------------------------------------------------------------------------
(* Inv is inductive. *)

(* The invariant holds initially, on a fresh and on a used database. *)
LEMMA InitInv == Init => Inv
<1> SUFFICES ASSUME Init  PROVE Inv
  OBVIOUS
<1>1. NoOp \in Op \cup {NoOp} /\ NoRow \in AnyRow /\ "new" \in Labels
      /\ NoCheck \in [volume : Nat, supply : Int] /\ NoCheck.volume = 0
  BY DEF AnyRow, Labels, NoCheck
<1>2. CallsTyped
  BY <1>1 DEF Init, CallsTyped
<1>3. MemoryTyped
  BY CallsAssumption DEF Init, MemoryTyped
<1>4. BooksTyped
  BY DatabasesAssumption DEF Init, BooksTyped
<1>5. BooksOK
  <2>1. RowsStay /\ ExactUnlessStale
    BY DEF Init, RowsStay, ExactUnlessStale
  <2>2. NothingInvented
    <3>1. "ledger" \in Keys /\ Rows("ledger") = LedgerRow
      BY RowKinds DEF Keys
    <3>2. table["ledger"] # NoRow => table["ledger"] \in LedgerRow
      BY <1>4, <3>1 DEF BooksTyped
    <3> QED  BY <3>2 DEF Init, NothingInvented, LedgerRow, ZeroLedger
  <2>3. ActivationJustified
    BY DatabasesAssumption DEF Init, ActivationJustified, InactivePhase
  <2> QED  BY <2>1, <2>2, <2>3 DEF BooksOK
<1>6. \A c \in Calls : CallOK(c)
  BY <1>1 DEF Init, CallOK, Stage, Saving
<1> QED  BY <1>2, <1>3, <1>4, <1>5, <1>6 DEF Inv

(* Every step of a call preserves the invariant. *)
LEMMA StepInv ==
  ASSUME Inv, NEW c \in Calls, Step(c)
  PROVE  Inv'
BY EnsureLedgerStep, FindLedgerStep, CompareSupplyStep, FindNodeStep, ReadIndexStep,
   ReadSupplyStep, FindPhaseStep, AppendActivationStep, LoadStep, FailStep, WriteStep,
   AppendVolumeStep, EyeStep DEF Step

(* The invariant is inductive. *)
LEMMA NextInv == Inv /\ [Next]_vars => Inv'
<1> SUFFICES ASSUME Inv, [Next]_vars  PROVE Inv'
  OBVIOUS
<1>1. CASE \E c \in Calls : Begin(c) \/ Step(c) \/ Fail(c)
  BY <1>1, BeginStep, StepInv, FailStep
<1>2. CASE Initialization \/ InitializationRejects
  BY <1>2, InitializationStep
<1>3. CASE Restart
  BY <1>3, RestartStep
<1>4. CASE UNCHANGED vars
  <2>1. CallsTyped /\ MemoryTyped /\ BooksTyped /\ BooksOK
    BY InvParts
  <2>2. /\ UNCHANGED <<initialization, chainVars, bookVars>> /\ UNCHANGED <<initialization, faults>>
        /\ UNCHANGED <<pc, op, read, entity, loaded, check>>
    BY <1>4 DEF vars, callVars, rowVars
  <2> QED  BY <2>1, <2>2, Still, MemoryStill, AllSame
<1> QED  BY <1>1, <1>2, <1>3, <1>4 DEF Next

-----------------------------------------------------------------------------
(* Theorems. *)

\* The calls, the books and what each call holds of them agree at every step.
THEOREM BooksInvariant == Spec => []Inv
BY InitInv, NextInv, PTL DEF Spec

\* Every variable of the services and of the database keeps its type.
THEOREM TypeCorrect == Spec => []TypeOK
<1>1. Inv /\ EyeInv => TypeOK
  BY DEF Inv, EyeInv, CallsTyped, MemoryTyped, BooksTyped, EyeTyped, TypeOK
<1> QED  BY <1>1, BooksInvariant, EyeInvariant, PTL

\* Unless a save was stale the ledger, the phase and the nodes are what one atomic
\* update per operation would have made them.
THEOREM ExactUnlessStaleHolds == Spec => []ExactUnlessStale
<1>1. Inv => ExactUnlessStale
  BY DEF Inv, BooksOK
<1> QED  BY <1>1, BooksInvariant, PTL

\* Overlapping recordMint, recordBurn and recordEarned lose units and invent none.
THEOREM NothingInventedHolds == Spec => []NothingInvented
<1>1. Inv => NothingInvented
  BY DEF Inv, BooksOK
<1> QED  BY <1>1, BooksInvariant, PTL

\* activate() never leaves an active phase that the chain does not justify.
THEOREM ActivationJustifiedHolds == Spec => []ActivationJustified
<1>1. Inv => ActivationJustified
  BY DEF Inv, BooksOK
<1> QED  BY <1>1, BooksInvariant, PTL

\* The table only changes in a save, or when the initialization makes the ledger row.
LEMMA TableChanges ==
  ASSUME [Next]_vars, table' # table
  PROVE  (\E c \in Calls : Write(c)) \/ InitializationSaves
BY DEF Next, Begin, Step, Fail, EnsureLedger, FindLedger, CompareSupply, FindNode, ReadIndex,
       ReadSupply, FindPhase, AppendActivation, Load, InsertFails, AppendVolume, ReadHead,
       InsertEntry, CommitEntry, Initialization, InitializationFinds, InitializationRejects, Restart,
       vars, bookVars

\* A call behind a rejected initialization does not reach the ledger.
THEOREM RejectedLedgerFrozenHolds == Spec => RejectedLedgerFrozen
<1>1. Inv /\ [Next]_vars => [initialization = "rejected" => table'["ledger"] = table["ledger"]]_vars
  <2> SUFFICES ASSUME Inv, [Next]_vars, initialization = "rejected"
               PROVE  table'["ledger"] = table["ledger"]
    OBVIOUS
  <2>1. CallsTyped /\ BooksTyped /\ \A c \in Calls : CallOK(c)
    BY InvParts
  <2>2. ASSUME NEW c \in Calls, Write(c)  PROVE table'["ledger"] = table["ledger"]
    <3>1. Saver(c)
      BY <2>1, <2>2 DEF CallOK, Saving, Write
    <3>2. Key(c) # "ledger"
      BY <2>1, <3>1, LedgerSaver DEF Saver
    <3> QED  BY <2>1, <2>2, <3>2 DEF Write, BooksTyped, Keys
  <2>3. ~InitializationSaves
    BY DEF InitializationSaves
  <2> QED  BY <2>2, <2>3, TableChanges
<1> QED  BY <1>1, BooksInvariant, PTL DEF Spec, RejectedLedgerFrozen

\* An active phase is only lost to a call that looked for the row before it existed.
THEOREM ActiveUnlessFirstAccessHolds == Spec => ActiveUnlessFirstAccess
<1>1. Inv /\ [Next]_vars =>
        [ table["phase"] # NoRow /\ table["phase"].active = 1 /\ table'["phase"].active = 0
            => \E c \in Calls : LostToFirstAccess(c) ]_vars
  <2> SUFFICES ASSUME Inv, [Next]_vars, table["phase"] # NoRow, table["phase"].active = 1,
                      table'["phase"].active = 0
               PROVE  \E c \in Calls : LostToFirstAccess(c)
    OBVIOUS
  <2>1. CallsTyped /\ BooksTyped /\ (\A c \in Calls : CallOK(c)) /\ "phase" \in Keys
    BY InvParts DEF Keys
  <2>2. table' # table /\ table'["phase"] # table["phase"]
    OBVIOUS
  <2>3. ~InitializationSaves
    BY <2>1, <2>2 DEF InitializationSaves, BooksTyped
  <2>4. PICK c \in Calls : Write(c)
    BY <2>2, <2>3, TableChanges
  <2>5. Saver(c) /\ pc[c] = "write"
    BY <2>1, <2>4 DEF CallOK, Saving, Write
  <2>6. Key(c) = "phase"
    BY <2>1, <2>2, <2>4, KeyInKeys DEF Write, BooksTyped
  <2>7. op[c].name \in {"isActive", "activate"}
    BY <2>1, <2>5, <2>6, PhaseSaver DEF Saver
  <2>8. entity[c] \in PhaseRow
    BY <2>1, <2>5, <2>6, RowKinds DEF Saver, CallsTyped
  <2>9. "active" \in DOMAIN entity[c]
    BY <2>8 DEF PhaseRow
  <2>10. \/ table'["phase"].active = entity[c].active
         \/ table'["phase"].active = table["phase"].active
    BY <2>1, <2>4, <2>5, <2>6, <2>9, WrittenRow DEF Row, BooksTyped
  <2>11. entity[c].active = 0
    BY <2>10
  <2> QED  BY <2>5, <2>7, <2>11 DEF Saver, LostToFirstAccess
<1> QED  BY <1>1, BooksInvariant, PTL DEF Spec, ActiveUnlessFirstAccess
=============================================================================
