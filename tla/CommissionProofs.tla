-------------------------- MODULE CommissionProofs --------------------------
(***************************************************************************)
(* Theorems about Commission.tla.  However accruals and finalizations      *)
(* interleave, fail and restart: a node is paid only for confirmed work,   *)
(* the types hold, receipts and records account for each other, the        *)
(* ledger is never ahead of the receipts, and no fee is invented.  When    *)
(* they come one at a time and none fails: an epoch is settled once, and   *)
(* by exact shares.                                                        *)
(*                                                                         *)
(* First, who is paid.  The receipts alone are not inductive: a payment is *)
(* decided in several steps, from an array in memory that later calls      *)
(* still push to, so the invariant says of each place where a payment is   *)
(* prepared that what is in it is earned.                                  *)
(***************************************************************************)
EXTENDS Commission, SumTheorems

Part == Processes \X Nodes

\* Everything but the ledger and what is held of it.
restVars ==
  <<callVars, finalizerVars, memVars, row, received, booked, afc, finals, faults>>

\* The types that the argument needs.
ShapeOK ==
  /\ stage \in [Calls -> Stages]
  /\ DOMAIN received = Nodes
  /\ weight \in [Finalizers -> [Nodes -> Nat]]
  /\ unpaid \in [Finalizers -> SUBSET Nodes]
  /\ heap \in Seq(Seq(Part))
  /\ current \in 0..Len(heap)
  /\ array \in [Finalizers -> 0..Len(heap)]
  /\ pos \in [Finalizers -> Nat \ {0}]

\* A participation of a confirmed process is one of an accrual that is complete.
HeapEarned ==
  \A h \in DOMAIN heap : \A i \in DOMAIN heap[h] :
    heap[h][i][1] \in Confirmed => Earns(heap[h][i][2])

WeightEarned ==
  \A f \in Finalizers, n \in Nodes : weight[f][n] > 0 => Earns(n)

UnpaidEarned ==
  \A f \in Finalizers : \A n \in unpaid[f] : Earns(n)

WorkInv == ShapeOK /\ HeapEarned /\ WeightEarned /\ UnpaidEarned /\ OnlyConfirmedPaid

-----------------------------------------------------------------------------
\* Reading the ledger, and a save of it by a mint or a burn, change nothing else.
LEMMA LedgerSteps ==
  /\ UNCHANGED vars => UNCHANGED restVars
  /\ \A c : FindLedger(c) \/ LoadLedger(c) \/ SaveOther(c) => UNCHANGED restVars
<1>1. UNCHANGED vars => UNCHANGED restVars
  BY DEF vars, restVars, payVars, ledgerVars
<1>2. ASSUME NEW c, FindLedger(c) \/ LoadLedger(c) \/ SaveOther(c) PROVE UNCHANGED restVars
  BY <1>2 DEF FindLedger, LoadLedger, SaveOther, restVars
<1> QED BY <1>1, <1>2

\* A nonempty set of naturals has its minimum among its members.
LEMMA MinInSet ==
  ASSUME NEW S \in SUBSET Nat, S # {}
  PROVE  Min(S) \in S
<1>1. \E x \in S : \A y \in S : x <= y
  BY LeastNatural
<1> QED BY <1>1 DEF Min

\* What is in a concatenation is in one of its parts.
LEMMA ConcatMember ==
  ASSUME NEW S, NEW s \in Seq(S), NEW t \in Seq(S), NEW i \in DOMAIN (s \o t)
  PROVE  \/ i \in DOMAIN s /\ (s \o t)[i] = s[i]
         \/ \E j \in DOMAIN t : (s \o t)[i] = t[j]
<1>1. i \in 1..(Len(s) + Len(t)) /\ Len(s) \in Nat /\ Len(t) \in Nat
  OBVIOUS
<1>2. CASE i <= Len(s)
  BY <1>1, <1>2
<1>3. CASE i > Len(s)
  <2>1. i - Len(s) \in 1..Len(t)
    BY <1>1, <1>3
  <2>2. (s \o t)[i] = t[i - Len(s)]
    BY <1>1, <1>3
  <2> QED BY <2>1, <2>2
<1> QED BY <1>1, <1>2, <1>3

\* The accruals that are complete stay so.
DoneStays == \A a \in Accruals : stage[a] = "done" => stage'[a] = "done"

\* What is earned stays earned.
LEMMA EarnsStays ==
  ASSUME DoneStays, NEW n, Earns(n)
  PROVE  Earns(n)'
BY DEF DoneStays, Earns

\* No call leaves the end.
LEMMA MovesKeepDone ==
  ASSUME ShapeOK, NEW c \in Calls, NEW here \in Stages, NEW next \in Stages,
         here # "done", stage[c] = here, stage' = [stage EXCEPT ![c] = next]
  PROVE  DoneStays /\ stage' \in [Calls -> Stages]
BY DEF ShapeOK, DoneStays, Calls

\* The initial state satisfies the invariant.
LEMMA WorkInit == Init => WorkInv
<1> SUFFICES ASSUME Init PROVE WorkInv
  OBVIOUS
<1>1. ShapeOK
  <2>1. << >> \in Seq(Seq(Part)) /\ Len(<< >>) = 0
    OBVIOUS
  <2>2. heap \in Seq(Seq(Part)) /\ current \in 0..Len(heap)
    BY <2>1 DEF Init
  <2>3. array \in [Finalizers -> 0..Len(heap)]
    BY <2>1 DEF Init
  <2>4. stage \in [Calls -> Stages] /\ DOMAIN received = Nodes
    BY DEF Init, Stages
  <2>5. weight \in [Finalizers -> [Nodes -> Nat]] /\ unpaid \in [Finalizers -> SUBSET Nodes]
    BY DEF Init
  <2>6. pos \in [Finalizers -> Nat \ {0}]
    BY DEF Init
  <2> QED BY <2>2, <2>3, <2>4, <2>5, <2>6 DEF ShapeOK
<1>2. HeapEarned /\ WeightEarned /\ UnpaidEarned /\ OnlyConfirmedPaid
  BY DEF Init, HeapEarned, WeightEarned, UnpaidEarned, OnlyConfirmedPaid
<1> QED BY <1>1, <1>2 DEF WorkInv

\* A step that keeps the arrays, the weights, the nodes to pay and the receipts
\* preserves the invariant.
LEMMA KeepsWork ==
  ASSUME WorkInv, DoneStays, stage' \in [Calls -> Stages],
         UNCHANGED <<heap, weight, unpaid, received, pos>>,
         current' \in 0..Len(heap), array' \in [Finalizers -> 0..Len(heap)]
  PROVE  WorkInv'
<1>1. \A n : Earns(n) => Earns(n)'
  BY EarnsStays DEF WorkInv
<1>2. ShapeOK'
  BY DEF WorkInv, ShapeOK
<1>3. HeapEarned'
  BY <1>1 DEF WorkInv, HeapEarned
<1>4. WeightEarned'
  BY <1>1 DEF WorkInv, WeightEarned
<1>5. UnpaidEarned'
  BY <1>1 DEF WorkInv, UnpaidEarned
<1>6. OnlyConfirmedPaid'
  BY <1>1 DEF WorkInv, OnlyConfirmedPaid
<1> QED BY <1>2, <1>3, <1>4, <1>5, <1>6 DEF WorkInv

\* The steps that prepare no payment and make none.
QuietStep(c) ==
  \/ c \in Accruals /\ OpenEpoch(c)
  \/ c \in Finalizers /\ ( \/ RequireEpoch(c) \/ AddAfc(c) \/ AppendFinalized(c) \/ Forget(c) )
  \/ LoadRow(c) \/ WriteRow(c) \/ Fail(c)

\* They preserve the invariant.
LEMMA QuietWork ==
  ASSUME WorkInv, NEW c \in Calls, QuietStep(c)
  PROVE  WorkInv'
<1>1. UNCHANGED <<heap, weight, unpaid, received, pos>>
  BY DEF QuietStep, OpenEpoch, RequireEpoch, AddAfc, AppendFinalized, Forget, LoadRow, WriteRow,
         Fail, finalizerVars, memVars, payVars, ledgerVars
<1>2. \/ UNCHANGED stage
      \/ \E next \in Stages : stage[c] # "done" /\ stage' = [stage EXCEPT ![c] = next]
  <2>1. CASE c \in Accruals /\ OpenEpoch(c)
    BY <2>1 DEF OpenEpoch, Starts, At, Goto, Stages
  <2>2. CASE RequireEpoch(c)
    BY <2>2 DEF RequireEpoch, Starts, At, Goto, Stages
  <2>3. CASE AddAfc(c) \/ AppendFinalized(c) \/ Forget(c) \/ LoadRow(c)
    BY <2>3 DEF AddAfc, AppendFinalized, Forget, LoadRow, At, Goto, Stages
  <2>4. CASE WriteRow(c)
    BY <2>4 DEF WriteRow, At, Goto, Stages
  <2>5. CASE Fail(c)
    BY <2>5 DEF Fail
  <2> QED BY <2>1, <2>2, <2>3, <2>4, <2>5 DEF QuietStep
<1>3. DoneStays /\ stage' \in [Calls -> Stages]
  <2>1. CASE UNCHANGED stage
    BY <2>1 DEF WorkInv, ShapeOK, DoneStays
  <2>2. ASSUME NEW next \in Stages, stage[c] # "done", stage' = [stage EXCEPT ![c] = next]
        PROVE  DoneStays /\ stage' \in [Calls -> Stages]
    <3>1. stage[c] \in Stages
      BY DEF WorkInv, ShapeOK
    <3> QED BY <2>2, <3>1, MovesKeepDone DEF WorkInv
  <2> QED BY <1>2, <2>1, <2>2
<1>4. current' \in 0..Len(heap)
  <2>1. current \in 0..Len(heap) /\ 0 \in 0..Len(heap)
    BY DEF WorkInv, ShapeOK
  <2>2. current' = current \/ current' = 0
    BY DEF QuietStep, OpenEpoch, RequireEpoch, AddAfc, AppendFinalized, Forget, LoadRow, WriteRow,
           Fail, memVars
  <2> QED BY <2>1, <2>2
<1>5. array' \in [Finalizers -> 0..Len(heap)]
  <2>1. array' = array \/ (c \in Finalizers /\ array' = [array EXCEPT ![c] = current])
    BY DEF QuietStep, OpenEpoch, RequireEpoch, AddAfc, AppendFinalized, Forget, LoadRow, WriteRow,
           Fail, finalizerVars
  <2> QED BY <2>1 DEF WorkInv, ShapeOK
<1> QED BY <1>1, <1>3, <1>4, <1>5, KeepsWork

\* An accrual pushes its participants when it is complete.
LEMMA PushWork ==
  ASSUME WorkInv, NEW a \in Accruals, Push(a)
  PROVE  WorkInv'
<1>1. a \in Calls /\ stage' = [stage EXCEPT ![a] = "done"] /\ stage[a] = "push"
  BY DEF Push, At, Goto, Calls
<1>2. DoneStays /\ stage' \in [Calls -> Stages] /\ stage'[a] = "done"
  BY <1>1, MovesKeepDone DEF WorkInv, ShapeOK, Stages
<1>3. \A n : Earns(n) => Earns(n)'
  BY <1>2, EarnsStays
<1>4. UNCHANGED <<weight, unpaid, received, pos, array>>
  BY DEF Push, finalizerVars, payVars, ledgerVars
<1>5. Parts[a] \in Seq(Part) /\ heap \in Seq(Seq(Part)) /\ current \in 0..Len(heap)
  BY PartsAssumption DEF Part, WorkInv, ShapeOK
<1>6. \A i \in DOMAIN Parts[a] : Parts[a][i][1] \in Confirmed => Earns(Parts[a][i][2])'
  BY <1>2 DEF Earns
<1>7. /\ heap' \in Seq(Seq(Part))
      /\ Len(heap) <= Len(heap')
      /\ current' \in 0..Len(heap')
      /\ HeapEarned'
  <2>1. CASE current = 0
    <3>1. heap' = Append(heap, Parts[a]) /\ current' = Len(heap) + 1
      BY <2>1 DEF Push
    <3>2. heap' \in Seq(Seq(Part)) /\ Len(heap') = Len(heap) + 1
      BY <3>1, <1>5
    <3>3. ASSUME NEW h \in DOMAIN heap', NEW i \in DOMAIN heap'[h], heap'[h][i][1] \in Confirmed
          PROVE  Earns(heap[h][i][2])'
      <4>1. CASE h = Len(heap) + 1
        <5>1. heap'[h] = Parts[a]
          BY <4>1, <3>1, <1>5
        <5> QED BY <5>1, <3>3, <1>6
      <4>2. CASE h # Len(heap) + 1
        <5>1. h \in DOMAIN heap /\ heap'[h] = heap[h]
          BY <4>2, <3>1, <3>2, <1>5
        <5> QED BY <5>1, <3>3, <1>3 DEF WorkInv, HeapEarned
      <4> QED BY <4>1, <4>2
    <3>4. HeapEarned'
      BY <3>3 DEF HeapEarned
    <3> QED BY <3>1, <3>2, <3>4, <1>5
  <2>2. CASE current # 0
    <3>1. heap' = [heap EXCEPT ![current] = @ \o Parts[a]] /\ current' = current
      BY <2>2 DEF Push
    <3>2. current \in DOMAIN heap /\ heap[current] \in Seq(Part)
      BY <2>2, <1>5
    <3>3. heap[current] \o Parts[a] \in Seq(Part)
      BY <3>2, <1>5
    <3>4. heap' \in Seq(Seq(Part)) /\ Len(heap') = Len(heap) /\ DOMAIN heap' = DOMAIN heap
      BY <3>1, <3>2, <3>3, <1>5
    <3>5. ASSUME NEW h \in DOMAIN heap', NEW i \in DOMAIN heap'[h], heap'[h][i][1] \in Confirmed
          PROVE  Earns(heap[h][i][2])'
      <4>1. CASE h # current
        <5>1. h \in DOMAIN heap /\ heap'[h] = heap[h]
          BY <4>1, <3>1, <3>4
        <5> QED BY <5>1, <3>5, <1>3 DEF WorkInv, HeapEarned
      <4>2. CASE h = current
        <5>1. heap'[h] = heap[current] \o Parts[a]
          BY <4>2, <3>1, <3>2
        <5>2. \/ i \in DOMAIN heap[current] /\ heap'[h][i] = heap[current][i]
              \/ \E j \in DOMAIN Parts[a] : heap'[h][i] = Parts[a][j]
          BY <5>1, <3>2, <1>5, <3>5, ConcatMember
        <5> QED BY <5>2, <3>2, <3>5, <1>3, <1>6 DEF WorkInv, HeapEarned
      <4> QED BY <4>1, <4>2
    <3>6. HeapEarned'
      BY <3>5 DEF HeapEarned
    <3> QED BY <3>1, <3>4, <3>6, <1>5
  <2> QED BY <2>1, <2>2
<1>8. array' \in [Finalizers -> 0..Len(heap')]
  <2>1. \A f \in Finalizers : array[f] \in 0..Len(heap')
    BY <1>5, <1>7 DEF WorkInv, ShapeOK
  <2> QED BY <2>1, <1>4 DEF WorkInv, ShapeOK
<1>9. ShapeOK'
  BY <1>2, <1>4, <1>7, <1>8 DEF WorkInv, ShapeOK
<1>10. WeightEarned' /\ UnpaidEarned' /\ OnlyConfirmedPaid'
  BY <1>3, <1>4 DEF WorkInv, WeightEarned, UnpaidEarned, OnlyConfirmedPaid
<1> QED BY <1>7, <1>9, <1>10 DEF WorkInv

\* A weight grows only by a confirmed participation of the array.
LEMMA WeighWork ==
  ASSUME WorkInv, NEW f \in Finalizers, Weigh(f)
  PROVE  WorkInv'
<1> DEFINE part == Participation(f)[pos[f]]
<1>1. UNCHANGED <<stage, heap, current, array, unpaid, received>>
  BY DEF Weigh, callVars, memVars, payVars, ledgerVars
<1>2. array[f] \in DOMAIN heap /\ Participation(f) = heap[array[f]]
      /\ pos[f] \in DOMAIN heap[array[f]] /\ part \in Part
  BY DEF Weigh, Participation, WorkInv, ShapeOK
<1>3. part[1] \in Confirmed => Earns(part[2])
  BY <1>2 DEF WorkInv, HeapEarned
<1>4. part[2] \in Nodes
  BY <1>2 DEF Part
<1>5. \A n : Earns(n) => Earns(n)'
  BY <1>1 DEF Earns
<1>6. weight' = [weight EXCEPT ![f][part[2]] = @ + IF part[1] \in Confirmed THEN 1 ELSE 0]
  BY DEF Weigh
<1> HIDE DEF part
<1>7. weight' \in [Finalizers -> [Nodes -> Nat]]
  BY <1>4, <1>6 DEF WorkInv, ShapeOK
<1>8. pos' \in [Finalizers -> Nat \ {0}]
  BY DEF Weigh, WorkInv, ShapeOK
<1>9. ASSUME NEW g \in Finalizers, NEW n \in Nodes, weight'[g][n] > 0
      PROVE  Earns(n)
  <2>1. CASE g = f /\ n = part[2] /\ part[1] \in Confirmed
    BY <2>1, <1>3
  <2>2. CASE ~(g = f /\ n = part[2] /\ part[1] \in Confirmed)
    <3>1. weight'[g][n] = weight[g][n]
      BY <2>2, <1>4, <1>6 DEF WorkInv, ShapeOK
    <3> QED BY <3>1, <1>9 DEF WorkInv, WeightEarned
  <2> QED BY <2>1, <2>2
<1>10. WeightEarned'
  BY <1>5, <1>9 DEF WeightEarned
<1>11. ShapeOK'
  BY <1>1, <1>7, <1>8 DEF WorkInv, ShapeOK
<1>12. HeapEarned' /\ UnpaidEarned' /\ OnlyConfirmedPaid'
  BY <1>1, <1>5 DEF WorkInv, HeapEarned, UnpaidEarned, OnlyConfirmedPaid
<1> QED BY <1>10, <1>11, <1>12 DEF WorkInv

\* The nodes to pay are those with a weight.
LEMMA WeighedWork ==
  ASSUME WorkInv, NEW f \in Finalizers, Weighed(f)
  PROVE  WorkInv'
<1>1. UNCHANGED <<heap, current, array, pos, weight, received>>
  BY DEF Weighed, memVars, payVars, ledgerVars
<1>2. DoneStays /\ stage' \in [Calls -> Stages]
  <2>1. f \in Calls /\ stage[f] = "weigh" /\ stage' = [stage EXCEPT ![f] = "pay"]
    BY DEF Weighed, At, Goto, Calls
  <2> QED BY <2>1, MovesKeepDone DEF WorkInv, Stages
<1>3. \A n : Earns(n) => Earns(n)'
  BY <1>2, EarnsStays
<1>4. unpaid' = [unpaid EXCEPT ![f] = {n \in Nodes : weight[f][n] > 0}]
  BY DEF Weighed
<1>5. unpaid' \in [Finalizers -> SUBSET Nodes]
  BY <1>4 DEF WorkInv, ShapeOK
<1>6. ASSUME NEW g \in Finalizers, NEW n \in unpaid'[g]
      PROVE  Earns(n)
  <2>1. CASE g = f
    <3>1. n \in Nodes /\ weight[f][n] > 0
      BY <2>1, <1>4 DEF WorkInv, ShapeOK
    <3> QED BY <3>1 DEF WorkInv, WeightEarned
  <2>2. CASE g # f
    <3>1. n \in unpaid[g]
      BY <2>2, <1>4 DEF WorkInv, ShapeOK
    <3> QED BY <3>1 DEF WorkInv, UnpaidEarned
  <2> QED BY <2>1, <2>2
<1>7. UnpaidEarned'
  BY <1>3, <1>6 DEF UnpaidEarned
<1>8. ShapeOK'
  BY <1>1, <1>2, <1>5 DEF WorkInv, ShapeOK
<1>9. HeapEarned' /\ WeightEarned' /\ OnlyConfirmedPaid'
  BY <1>1, <1>3 DEF WorkInv, HeapEarned, WeightEarned, OnlyConfirmedPaid
<1> QED BY <1>7, <1>8, <1>9 DEF WorkInv

\* A receipt is for a node that was to be paid.
LEMMA ReceiveWork ==
  ASSUME WorkInv, NEW f \in Finalizers, Receive(f)
  PROVE  WorkInv'
<1>1. UNCHANGED <<heap, current, array, pos, weight, unpaid>>
  BY DEF Receive, memVars, finalizerVars
<1>2. DoneStays /\ stage' \in [Calls -> Stages]
  <2>1. f \in Calls /\ stage[f] = "pay" /\ stage' = [stage EXCEPT ![f] = "earn"]
    BY DEF Receive, At, Goto, Calls
  <2> QED BY <2>1, MovesKeepDone DEF WorkInv, Stages
<1>3. \A n : Earns(n) => Earns(n)'
  BY <1>2, EarnsStays
<1>4. Min(unpaid[f]) \in unpaid[f] /\ Min(unpaid[f]) \in Nodes
  <2>1. unpaid[f] \in SUBSET Nodes
    BY DEF WorkInv, ShapeOK
  <2>2. unpaid[f] \in SUBSET Nat /\ unpaid[f] # {}
    BY <2>1, NodeAssumption DEF Receive
  <2> QED BY <2>1, <2>2, MinInSet
<1>5. Earns(Min(unpaid[f]))
  BY <1>4 DEF WorkInv, UnpaidEarned
<1>6. PICK v : received' = [received EXCEPT ![Min(unpaid[f])] = v]
  BY DEF Receive
<1> DEFINE m == Min(unpaid[f])
<1> HIDE DEF m
<1>7. DOMAIN received' = Nodes /\ \A n \in Nodes : n # m => received'[n] = received[n]
  BY <1>6 DEF WorkInv, ShapeOK, m
<1>8. ASSUME NEW n \in Nodes, received'[n] > 0
      PROVE  Earns(n)
  <2>1. CASE n = m
    BY <2>1, <1>5 DEF m
  <2>2. CASE n # m
    BY <2>2, <1>7, <1>8 DEF WorkInv, OnlyConfirmedPaid
  <2> QED BY <2>1, <2>2
<1>9. OnlyConfirmedPaid'
  BY <1>3, <1>8 DEF OnlyConfirmedPaid
<1>10. ShapeOK'
  BY <1>1, <1>2, <1>7 DEF WorkInv, ShapeOK
<1>11. HeapEarned' /\ WeightEarned' /\ UnpaidEarned'
  BY <1>1, <1>3 DEF WorkInv, HeapEarned, WeightEarned, UnpaidEarned
<1> QED BY <1>9, <1>10, <1>11 DEF WorkInv

\* Booking a payment takes its node off the list.
LEMMA EarnWork ==
  ASSUME WorkInv, NEW f \in Finalizers, Earn(f)
  PROVE  WorkInv'
<1>1. UNCHANGED <<heap, current, array, pos, weight, received>>
  BY DEF Earn, memVars
<1>2. DoneStays /\ stage' \in [Calls -> Stages]
  <2>1. f \in Calls /\ stage[f] = "earn" /\ stage' = [stage EXCEPT ![f] = "pay"]
    BY DEF Earn, At, Goto, Calls
  <2> QED BY <2>1, MovesKeepDone DEF WorkInv, Stages
<1>3. \A n : Earns(n) => Earns(n)'
  BY <1>2, EarnsStays
<1>4. PICK m : unpaid' = [unpaid EXCEPT ![f] = @ \ {m}]
  BY DEF Earn
<1>5. unpaid' \in [Finalizers -> SUBSET Nodes]
  BY <1>4 DEF WorkInv, ShapeOK
<1>6. \A g \in Finalizers : unpaid'[g] \subseteq unpaid[g]
  BY <1>4 DEF WorkInv, ShapeOK
<1>7. UnpaidEarned'
  BY <1>3, <1>6 DEF WorkInv, UnpaidEarned
<1>8. ShapeOK'
  BY <1>1, <1>2, <1>5 DEF WorkInv, ShapeOK
<1>9. HeapEarned' /\ WeightEarned' /\ OnlyConfirmedPaid'
  BY <1>1, <1>3 DEF WorkInv, HeapEarned, WeightEarned, OnlyConfirmedPaid
<1> QED BY <1>7, <1>8, <1>9 DEF WorkInv

\* A restart, which forgets the arrays, and a stuttering step.
LEMMA OutsideWork ==
  ASSUME WorkInv, Restart \/ UNCHANGED restVars
  PROVE  WorkInv'
<1>1. UNCHANGED <<stage, heap, weight, unpaid, received, pos, array>>
  BY DEF Restart, restVars, callVars, finalizerVars, memVars, payVars, ledgerVars
<1>2. DoneStays /\ stage' \in [Calls -> Stages]
  BY <1>1 DEF DoneStays, WorkInv, ShapeOK
<1>3. current' \in 0..Len(heap)
  <2>1. current \in 0..Len(heap) /\ 0 \in 0..Len(heap)
    BY DEF WorkInv, ShapeOK
  <2>2. current' = current \/ current' = 0
    BY DEF Restart, restVars, memVars
  <2> QED BY <2>1, <2>2
<1>4. array' \in [Finalizers -> 0..Len(heap)]
  BY <1>1 DEF WorkInv, ShapeOK
<1> QED BY <1>1, <1>2, <1>3, <1>4, KeepsWork

\* Every step preserves the invariant.
LEMMA WorkStep == WorkInv /\ [Next]_vars => WorkInv'
<1> SUFFICES ASSUME WorkInv, [Next]_vars PROVE WorkInv'
  OBVIOUS
<1>1. \/ \E c \in Calls : QuietStep(c)
      \/ \E a \in Accruals : Push(a)
      \/ \E f \in Finalizers : Weigh(f) \/ Weighed(f) \/ Receive(f) \/ Earn(f)
      \/ Restart \/ UNCHANGED restVars
  BY LedgerSteps DEF Next, Continue, QuietStep, Calls
<1> QED BY <1>1, QuietWork, PushWork, WeighWork, WeighedWork, ReceiveWork, EarnWork, OutsideWork

\* However accrue() and finalizeEpoch() interleave, fail and restart, a node has
\* received a payment only if it took part in a confirmed process whose fee has
\* been accrued.
THEOREM PaidForConfirmedWork == Spec => []OnlyConfirmedPaid
<1>1. WorkInv => OnlyConfirmedPaid
  BY DEF WorkInv
<1> QED BY <1>1, WorkInit, WorkStep, PTL DEF Spec

-----------------------------------------------------------------------------
(* Types.  That a payment is a number needs that its divisor, the total    *)
(* weight, is not zero: a node is to be paid only if it has a weight.      *)

FinalRecord == [totalFees : Nat, operationalMargin : Int, paid : Nat]

WeightsBehind ==
  \A f \in Finalizers : \A n \in unpaid[f] : weight[f][n] > 0

PaysSomeone ==
  \A f \in Finalizers : stage[f] = "earn" => unpaid[f] # {}

RowsTyped ==
  entity \in [Calls -> EpochRow] /\ seen \in [Calls -> EpochRow] /\ row \in EpochRow

BooksTyped ==
  /\ halted \subseteq Calls /\ faults \in Nat
  /\ paid \in [Finalizers -> Nat] /\ received \in [Nodes -> Nat]
  /\ booked \in Nat /\ afc \in Int /\ finals \in Seq(FinalRecord)

LedgerTyped ==
  copy \in [Finalizers \cup Savers -> Copy] /\ earned \in Nat /\ stale \in BOOLEAN

TypesInv == WorkInv /\ RowsTyped /\ BooksTyped /\ WeightsBehind /\ PaysSomeone

(* The inductive form of the type invariant gives the one that the runs check. *)
LEMMA TypesGiveTypeOK == TypesInv /\ LedgerTyped => TypeOK
<1> SUFFICES ASSUME TypesInv, LedgerTyped PROVE TypeOK
  OBVIOUS
<1>1. pos \in [Finalizers -> Nat]
  BY DEF TypesInv, WorkInv, ShapeOK
<1> QED BY <1>1 DEF TypesInv, WorkInv, ShapeOK, RowsTyped, BooksTyped, LedgerTyped, PaysSomeone,
           TypeOK, FinalRecord, Part

\* An update of the row gives a row, whose columns are the entity's or its own.
LEMMA UpdatedRow ==
  ASSUME row \in EpochRow, NEW s \in EpochRow, NEW e \in EpochRow
  PROVE  /\ Updated(s, e) \in EpochRow
         /\ Updated(s, e).totalFees \in {row.totalFees, e.totalFees}
         /\ Updated(s, e).status = IF e.status # s.status THEN e.status ELSE row.status
BY DEF Updated, EpochRow, Columns

(* The absent epoch row and the one that an accrual creates are epoch rows. *)
LEMMA EpochTypes == NoEpoch \in EpochRow /\ NewEpoch \in EpochRow
BY DEF NoEpoch, NewEpoch, Epoch, EpochRow, Statuses

\* The payment that a call is making is a number, to a node.
LEMMA AmountType ==
  ASSUME TypesInv, NEW f \in Finalizers, unpaid[f] # {}
  PROVE  Amount(f) \in Nat /\ Min(unpaid[f]) \in unpaid[f] /\ Min(unpaid[f]) \in Nodes
<1> DEFINE m == Min(unpaid[f])
           total == entity[f].totalFees
<1>1. m \in unpaid[f] /\ m \in Nodes
  <2>1. unpaid[f] \in SUBSET Nodes
    BY DEF TypesInv, WorkInv, ShapeOK
  <2>2. unpaid[f] \in SUBSET Nat
    BY <2>1, NodeAssumption
  <2> QED BY <2>1, <2>2, MinInSet
<1>2. weight[f] \in [Nodes -> Nat] /\ weight[f][m] > 0
  BY <1>1 DEF TypesInv, WorkInv, ShapeOK, WeightsBehind
<1>3. TotalWeight(weight[f]) \in Nat /\ weight[f][m] <= TotalWeight(weight[f])
  <2>1. \A x \in Nodes : weight[f][x] \in Nat
    BY <1>2
  <2> QED BY <1>1, <2>1, FiniteAssumption, SumNat DEF TotalWeight
<1>4. Distributable(total) \in Nat
  <2>1. total \in Nat
    BY DEF TypesInv, RowsTyped, EpochRow, Calls
  <2> QED BY <2>1 DEF Distributable
<1>5. weight[f][m] \in Nat /\ TotalWeight(weight[f]) # 0
  BY <1>1, <1>2, <1>3
<1>6. ASSUME NEW a \in Nat, NEW b \in Nat, NEW d \in Nat, d # 0 PROVE (a * b) \div d \in Nat
  <2>1. a * b \in Nat
    OBVIOUS
  <2> QED BY <1>6, <2>1
<1>7. Amount(f) = (weight[f][m] * Distributable(total)) \div TotalWeight(weight[f])
  BY DEF Amount, PaymentToNode
<1> HIDE DEF m, total
<1>8. Amount(f) \in Nat
  BY <1>3, <1>4, <1>5, <1>6, <1>7
<1> QED BY <1>1, <1>8 DEF m

\* The initial state is well typed.
LEMMA TypesInit == Init => TypesInv
<1> SUFFICES ASSUME Init PROVE TypesInv
  OBVIOUS
<1>1. WorkInv
  BY WorkInit
<1>2. RowsTyped
  BY EpochTypes DEF Init, RowsTyped
<1>3. BooksTyped
  <2>1. << >> \in Seq(FinalRecord)
    OBVIOUS
  <2> QED BY <2>1 DEF Init, BooksTyped
<1>4. WeightsBehind /\ PaysSomeone
  BY DEF Init, WeightsBehind, PaysSomeone, Calls
<1> QED BY <1>1, <1>2, <1>3, <1>4 DEF TypesInv

\* Opening, loading and writing keep rows rows.
LEMMA RowStepTypes ==
  ASSUME TypesInv, NEW c \in Calls, (c \in Accruals /\ OpenEpoch(c)) \/ LoadRow(c) \/ WriteRow(c)
  PROVE  RowsTyped' /\ BooksTyped' /\ WeightsBehind' /\ PaysSomeone'
<1>0. RowsTyped /\ BooksTyped /\ WeightsBehind /\ PaysSomeone /\ stage \in [Calls -> Stages]
  BY DEF TypesInv, WorkInv, ShapeOK
<1>1. UNCHANGED <<paid, received, booked, afc, finals, faults, weight, unpaid>>
  BY DEF OpenEpoch, LoadRow, WriteRow, finalizerVars, payVars, ledgerVars
<1>2. halted' \subseteq Calls
  BY <1>0 DEF OpenEpoch, LoadRow, WriteRow, BooksTyped
<1>3. BooksTyped' /\ WeightsBehind'
  BY <1>0, <1>1, <1>2 DEF BooksTyped, WeightsBehind
<1>4. PaysSomeone'
  <2>1. stage' = stage \/ \E l \in {"load", "write", "push", "append"} : stage' = [stage EXCEPT ![c] = l]
    BY DEF OpenEpoch, LoadRow, WriteRow, Goto
  <2>2. \A f \in Finalizers : f \in Calls /\ (stage'[f] = "earn" => stage[f] = "earn")
    BY <1>0, <2>1 DEF Calls
  <2> QED BY <1>0, <1>1, <2>2 DEF PaysSomeone
<1>5. CASE c \in Accruals /\ OpenEpoch(c)
  <2> DEFINE e == IF row = NoEpoch THEN NewEpoch ELSE row
  <2>1. entity' = [entity EXCEPT ![c] = [e EXCEPT !.totalFees = @ + Fee[c]]] /\ UNCHANGED <<seen, row>>
    BY <1>5 DEF OpenEpoch
  <2>2. e \in EpochRow /\ Fee[c] \in Nat
    BY <1>0, <1>5, EpochTypes, FeeAssumption DEF RowsTyped
  <2> HIDE DEF e
  <2>3. [e EXCEPT !.totalFees = @ + Fee[c]] \in EpochRow
    BY <2>2 DEF EpochRow
  <2> QED BY <1>0, <1>3, <1>4, <2>1, <2>3 DEF RowsTyped
<1>6. CASE LoadRow(c)
  BY <1>0, <1>3, <1>4, <1>6 DEF LoadRow, RowsTyped
<1>7. CASE WriteRow(c)
  <2>1. UNCHANGED <<entity, seen>> /\ row' \in {row, entity[c], Updated(seen[c], entity[c])}
    BY <1>7 DEF WriteRow
  <2>2. row' \in EpochRow
    BY <1>0, <2>1, UpdatedRow DEF RowsTyped
  <2> QED BY <1>0, <1>3, <1>4, <2>1, <2>2 DEF RowsTyped
<1> QED BY <1>5, <1>6, <1>7

\* The steps of a finalization.
LEMMA FinalizerStepTypes ==
  ASSUME TypesInv, NEW f \in Finalizers,
         \/ RequireEpoch(f) \/ Weigh(f) \/ Weighed(f) \/ Receive(f) \/ Earn(f) \/ AddAfc(f)
         \/ AppendFinalized(f) \/ Forget(f)
  PROVE  RowsTyped' /\ BooksTyped' /\ WeightsBehind' /\ PaysSomeone'
<1>0. /\ RowsTyped /\ BooksTyped /\ WeightsBehind /\ PaysSomeone
      /\ stage \in [Calls -> Stages] /\ f \in Calls /\ Finalizers \subseteq Calls
      /\ weight \in [Finalizers -> [Nodes -> Nat]] /\ unpaid \in [Finalizers -> SUBSET Nodes]
  BY DEF TypesInv, WorkInv, ShapeOK, Calls
<1>1. halted' = halted /\ faults' = faults
  BY DEF RequireEpoch, Weigh, Weighed, Receive, Earn, AddAfc, AppendFinalized, Forget, callVars
<1>2. CASE RequireEpoch(f)
  <2>1. /\ entity' = entity \/ entity' = [entity EXCEPT ![f] = row]
        /\ UNCHANGED <<seen, row, paid, received, booked, afc, finals, weight, unpaid>>
        /\ \E l \in {"done", "weigh"} : stage' = [stage EXCEPT ![f] = l]
    BY <1>2 DEF RequireEpoch, Goto, payVars, ledgerVars
  <2>2. RowsTyped' /\ BooksTyped' /\ WeightsBehind'
    BY <1>0, <1>1, <2>1 DEF RowsTyped, BooksTyped, WeightsBehind
  <2>3. \A g \in Finalizers : stage'[g] = "earn" => stage[g] = "earn"
    BY <1>0, <2>1
  <2> QED BY <1>0, <2>1, <2>2, <2>3 DEF PaysSomeone
<1>3. CASE Weigh(f)
  <2>1. UNCHANGED <<stage, entity, seen, row, paid, received, booked, afc, finals, unpaid>>
    BY <1>3 DEF Weigh, callVars, payVars, ledgerVars
  <2>2. RowsTyped' /\ BooksTyped' /\ PaysSomeone'
    BY <1>0, <1>1, <2>1 DEF RowsTyped, BooksTyped, PaysSomeone
  <2>3. \A g \in Finalizers, n \in Nodes : weight[g][n] > 0 => weight'[g][n] > 0
    <3> DEFINE part == Participation(f)[pos[f]]
    <3>1. PICK k \in Nat : weight' = [weight EXCEPT ![f][part[2]] = @ + k]
      BY <1>3 DEF Weigh
    <3> HIDE DEF part
    <3> QED BY <1>0, <3>1
  <2>4. WeightsBehind'
    BY <1>0, <2>1, <2>3 DEF WeightsBehind
  <2> QED BY <2>2, <2>4
<1>4. CASE Weighed(f)
  <2>1. /\ UNCHANGED <<entity, seen, row, paid, received, booked, afc, finals, weight>>
        /\ unpaid' = [unpaid EXCEPT ![f] = {n \in Nodes : weight[f][n] > 0}]
        /\ stage' = [stage EXCEPT ![f] = "pay"]
    BY <1>4 DEF Weighed, Goto, payVars, ledgerVars
  <2>2. RowsTyped' /\ BooksTyped'
    BY <1>0, <1>1, <2>1 DEF RowsTyped, BooksTyped
  <2>3. WeightsBehind'
    BY <1>0, <2>1 DEF WeightsBehind
  <2>4. \A g \in Finalizers : stage'[g] = "earn" => stage[g] = "earn" /\ unpaid'[g] = unpaid[g]
    BY <1>0, <2>1
  <2> QED BY <1>0, <2>2, <2>3, <2>4 DEF PaysSomeone
<1>5. CASE Receive(f)
  <2>1. /\ UNCHANGED <<entity, seen, row, paid, booked, afc, finals, weight, unpaid>>
        /\ unpaid[f] # {}
        /\ received' = [received EXCEPT ![Min(unpaid[f])] = @ + Amount(f)]
        /\ stage' = [stage EXCEPT ![f] = "earn"]
    BY <1>5 DEF Receive, Goto, finalizerVars, ledgerVars
  <2>2. Amount(f) \in Nat /\ Min(unpaid[f]) \in Nodes
    BY <2>1, AmountType
  <2>3. received' \in [Nodes -> Nat]
    BY <1>0, <2>1, <2>2 DEF BooksTyped
  <2>4. RowsTyped' /\ BooksTyped' /\ WeightsBehind'
    BY <1>0, <1>1, <2>1, <2>3 DEF RowsTyped, BooksTyped, WeightsBehind
  <2>5. \A g \in Finalizers : stage'[g] = "earn" => g = f \/ stage[g] = "earn"
    BY <1>0, <2>1
  <2> QED BY <1>0, <2>1, <2>4, <2>5 DEF PaysSomeone
<1>6. CASE Earn(f)
  <2>1. /\ UNCHANGED <<entity, seen, row, received, afc, finals, weight>>
        /\ stage[f] = "earn"
        /\ booked' = booked + Amount(f) /\ paid' = [paid EXCEPT ![f] = @ + Amount(f)]
        /\ unpaid' = [unpaid EXCEPT ![f] = @ \ {Min(unpaid[f])}]
        /\ stage' = [stage EXCEPT ![f] = "pay"]
    BY <1>6 DEF Earn, At, Goto
  <2>2. Amount(f) \in Nat
    BY <1>0, <2>1, AmountType DEF PaysSomeone
  <2>3. booked' \in Nat /\ paid' \in [Finalizers -> Nat]
    BY <1>0, <2>1, <2>2 DEF BooksTyped
  <2>4. RowsTyped' /\ BooksTyped'
    BY <1>0, <1>1, <2>1, <2>3 DEF RowsTyped, BooksTyped
  <2>5. WeightsBehind'
    BY <1>0, <2>1 DEF WeightsBehind
  <2>6. \A g \in Finalizers : stage'[g] = "earn" => stage[g] = "earn" /\ unpaid'[g] = unpaid[g]
    BY <1>0, <2>1
  <2> QED BY <1>0, <2>4, <2>5, <2>6 DEF PaysSomeone
<1>7. CASE AddAfc(f)
  <2>1. /\ UNCHANGED <<seen, row, received, booked, paid, finals, weight, unpaid>>
        /\ afc' = afc + AllocatedMargin(f)
        /\ entity' = [entity EXCEPT ![f] =
             Epoch(entity[f].totalFees, "finalized", AllocatedMargin(f), paid[f])]
        /\ stage' = [stage EXCEPT ![f] = "load"]
    BY <1>7 DEF AddAfc, Goto, finalizerVars, ledgerVars
  <2>2. entity[f].totalFees \in Nat /\ paid[f] \in Nat /\ AllocatedMargin(f) \in Int
    BY <1>0 DEF RowsTyped, BooksTyped, EpochRow, AllocatedMargin
  <2>3. Epoch(entity[f].totalFees, "finalized", AllocatedMargin(f), paid[f]) \in EpochRow
    BY <2>2 DEF Epoch, EpochRow, Statuses
  <2>4. RowsTyped' /\ BooksTyped' /\ WeightsBehind'
    BY <1>0, <1>1, <2>1, <2>2, <2>3 DEF RowsTyped, BooksTyped, WeightsBehind
  <2>5. \A g \in Finalizers : stage'[g] = "earn" => stage[g] = "earn"
    BY <1>0, <2>1
  <2> QED BY <1>0, <2>1, <2>4, <2>5 DEF PaysSomeone
<1>8. CASE AppendFinalized(f)
  <2> DEFINE x == [totalFees |-> entity[f].totalFees, paid |-> paid[f],
                   operationalMargin |-> AllocatedMargin(f)]
  <2>1. /\ UNCHANGED <<entity, seen, row, received, booked, afc, paid, weight, unpaid>>
        /\ finals' = Append(finals, x)
        /\ stage' = [stage EXCEPT ![f] = "forget"]
    BY <1>8 DEF AppendFinalized, Goto, finalizerVars, payVars, ledgerVars
  <2>2. x \in FinalRecord
    BY <1>0 DEF RowsTyped, BooksTyped, EpochRow, AllocatedMargin, FinalRecord
  <2> HIDE DEF x
  <2>3. finals' \in Seq(FinalRecord)
    BY <1>0, <2>1, <2>2 DEF BooksTyped
  <2>4. RowsTyped' /\ BooksTyped' /\ WeightsBehind'
    BY <1>0, <1>1, <2>1, <2>3 DEF RowsTyped, BooksTyped, WeightsBehind
  <2>5. \A g \in Finalizers : stage'[g] = "earn" => stage[g] = "earn"
    BY <1>0, <2>1
  <2> QED BY <1>0, <2>1, <2>4, <2>5 DEF PaysSomeone
<1>9. CASE Forget(f)
  <2>1. /\ UNCHANGED <<entity, seen, row, received, booked, afc, paid, finals, weight, unpaid>>
        /\ stage' = [stage EXCEPT ![f] = "done"]
    BY <1>9 DEF Forget, Goto, finalizerVars, payVars, ledgerVars
  <2>2. RowsTyped' /\ BooksTyped' /\ WeightsBehind'
    BY <1>0, <1>1, <2>1 DEF RowsTyped, BooksTyped, WeightsBehind
  <2>3. \A g \in Finalizers : stage'[g] = "earn" => stage[g] = "earn"
    BY <1>0, <2>1
  <2> QED BY <1>0, <2>1, <2>2, <2>3 DEF PaysSomeone
<1> QED BY <1>2, <1>3, <1>4, <1>5, <1>6, <1>7, <1>8, <1>9

\* Every step keeps the types.
LEMMA TypesStep == TypesInv /\ [Next]_vars => TypesInv'
<1> SUFFICES ASSUME TypesInv, [Next]_vars PROVE TypesInv'
  OBVIOUS
<1>1. WorkInv'
  BY WorkStep DEF TypesInv
<1>2. ASSUME NEW a \in Accruals, Push(a)
      PROVE  RowsTyped' /\ BooksTyped' /\ WeightsBehind' /\ PaysSomeone'
  <2>1. /\ UNCHANGED <<entity, seen, row, halted, faults, paid, received, booked, afc, finals,
                       weight, unpaid>>
        /\ stage' = [stage EXCEPT ![a] = "done"]
    BY <1>2 DEF Push, Goto, finalizerVars, payVars, ledgerVars
  <2>2. \A g \in Finalizers : stage'[g] = "earn" => stage[g] = "earn"
    BY <2>1 DEF TypesInv, WorkInv, ShapeOK, Calls
  <2> QED BY <2>1, <2>2 DEF TypesInv, RowsTyped, BooksTyped, WeightsBehind, PaysSomeone
<1>3. ASSUME (\E c \in Calls : Fail(c)) \/ Restart \/ UNCHANGED restVars
      PROVE  RowsTyped' /\ BooksTyped' /\ WeightsBehind' /\ PaysSomeone'
  <2>1. UNCHANGED <<stage, entity, seen, row, paid, received, booked, afc, finals, weight, unpaid>>
    BY <1>3 DEF Fail, Restart, restVars, callVars, finalizerVars, payVars, ledgerVars
  <2>2. halted' \subseteq Calls /\ faults' \in Nat
    BY <1>3 DEF Fail, Restart, restVars, callVars, InFlight, TypesInv, BooksTyped
  <2> QED BY <2>1, <2>2 DEF TypesInv, RowsTyped, BooksTyped, WeightsBehind, PaysSomeone
<1>4. \/ \E c \in Calls : (c \in Accruals /\ OpenEpoch(c)) \/ LoadRow(c) \/ WriteRow(c)
      \/ \E a \in Accruals : Push(a)
      \/ \E f \in Finalizers :
           \/ RequireEpoch(f) \/ Weigh(f) \/ Weighed(f) \/ Receive(f) \/ Earn(f) \/ AddAfc(f)
           \/ AppendFinalized(f) \/ Forget(f)
      \/ (\E c \in Calls : Fail(c)) \/ Restart \/ UNCHANGED restVars
  BY LedgerSteps DEF Next, Continue, Calls
<1>5. RowsTyped' /\ BooksTyped' /\ WeightsBehind' /\ PaysSomeone'
  BY <1>2, <1>3, <1>4, RowStepTypes, FinalizerStepTypes
<1> QED BY <1>1, <1>5 DEF TypesInv

(* The types are invariant. *)
LEMMA TypesHold == Spec => []TypesInv
BY TypesInit, TypesStep, PTL DEF Spec

-----------------------------------------------------------------------------
(* The ledger.  What a call holds of the column is something that had been *)
(* booked, so a save writes back too little or the exact sum, never more.  *)

Holders == Finalizers \cup Savers

EarnedBehind ==
  /\ earned <= booked
  /\ stale \/ earned = booked
  /\ \A c \in Holders : copy[c].found <= booked

LedgerInv == LedgerTyped /\ EarnedBehind

\* Initially nothing is booked, and no call holds a copy.
LEMMA LedgerInit == Init => LedgerInv
<1> SUFFICES ASSUME Init PROVE LedgerInv
  OBVIOUS
<1>1. NoCopy \in Copy /\ NoCopy.found = 0
  BY DEF NoCopy, Copy
<1>2. copy \in [Holders -> Copy] /\ \A c \in Holders : copy[c].found = 0
  BY <1>1 DEF Init, Holders
<1>3. earned = 0 /\ booked = 0 /\ stale \in BOOLEAN
  BY DEF Init
<1>4. LedgerTyped
  BY <1>2, <1>3 DEF LedgerTyped, Holders
<1>5. earned <= booked /\ earned = booked /\ \A c \in Holders : copy[c].found <= booked
  BY <1>2, <1>3
<1> QED BY <1>4, <1>5, Zenon DEF LedgerInv, EarnedBehind

\* A save of the ledger, which books an amount.
LEMMA SaveLedger ==
  ASSUME LedgerInv, booked \in Nat, NEW c \in Holders, NEW amount \in Nat,
         SaveEarned(c, amount), booked' = booked + amount
  PROVE  LedgerInv'
<1>0. /\ copy \in [Holders -> Copy] /\ earned \in Nat /\ stale \in BOOLEAN
      /\ earned <= booked /\ (stale \/ earned = booked)
      /\ \A d \in Holders : copy[d].found <= booked
  BY DEF LedgerInv, LedgerTyped, EarnedBehind, Holders
<1>1. PICK x \in Nat, y \in Nat : x = copy[c].found /\ y = copy[c].loaded /\ x <= booked
  BY <1>0 DEF Copy
<1>2. /\ earned' = IF x + amount = y THEN earned ELSE x + amount
      /\ stale' = (stale \/ x # earned \/ y # earned)
      /\ copy' = [copy EXCEPT ![c] = NoCopy]
  BY <1>1 DEF SaveEarned
<1>3. NoCopy \in Copy /\ NoCopy.found = 0
  BY DEF NoCopy, Copy
<1>4. copy' \in [Holders -> Copy] /\ \A d \in Holders : copy'[d].found <= booked'
  <2>1. copy' \in [Holders -> Copy]
    BY <1>0, <1>2, <1>3
  <2>2. ASSUME NEW d \in Holders PROVE copy'[d].found <= booked'
    <3>1. copy[d] \in Copy /\ copy[d].found \in Nat /\ copy[d].found <= booked
      BY <1>0 DEF Copy
    <3>2. CASE d = c
      BY <1>0, <1>2, <1>3, <3>2
    <3>3. CASE d # c
      <4>1. copy'[d] = copy[d]
        BY <1>0, <1>2, <3>3
      <4> QED BY <3>1, <4>1
    <3> QED BY <3>2, <3>3
  <2> QED BY <2>1, <2>2
<1>5. earned' \in Nat /\ earned' <= booked'
  BY <1>0, <1>1, <1>2
<1>6. stale' \in BOOLEAN /\ (stale' \/ (~stale /\ x = earned /\ y = earned))
  BY <1>0, <1>2, Zenon
<1>7. stale' \/ earned' = booked'
  <2>1. ASSUME ~stale, x = earned, y = earned PROVE earned' = booked'
    BY <1>0, <1>1, <1>2, <2>1
  <2> QED BY <1>6, <2>1, Zenon
<1> QED BY <1>4, <1>5, <1>6, <1>7 DEF LedgerInv, LedgerTyped, EarnedBehind, Holders

\* A read of the ledger.
LEMMA ReadLedger ==
  ASSUME LedgerInv, booked \in Nat, NEW c \in Holders, FindLedger(c) \/ LoadLedger(c)
  PROVE  LedgerInv'
<1>0. /\ copy \in [Holders -> Copy] /\ earned \in Nat /\ stale \in BOOLEAN
      /\ earned <= booked /\ (stale \/ earned = booked)
      /\ \A d \in Holders : copy[d].found <= booked
  BY DEF LedgerInv, LedgerTyped, EarnedBehind, Holders
<1>1. UNCHANGED <<earned, booked, stale>>
  BY DEF FindLedger, LoadLedger
<1>2. \E x \in Copy : copy' = [copy EXCEPT ![c] = x] /\ x.found <= booked
  <2>1. CASE FindLedger(c)
    <3>1. PICK x : x = [step |-> "found", found |-> earned, loaded |-> 0]
      OBVIOUS
    <3>2. x \in Copy /\ x.found <= booked
      BY <1>0, <3>1 DEF Copy
    <3>3. copy' = [copy EXCEPT ![c] = x]
      BY <2>1, <3>1 DEF FindLedger
    <3> QED BY <3>2, <3>3
  <2>2. CASE LoadLedger(c)
    <3>1. PICK x : x = [step |-> "loaded", found |-> copy[c].found, loaded |-> earned]
      OBVIOUS
    <3>2. copy[c].found \in Nat /\ copy[c].found <= booked
      BY <1>0 DEF Copy
    <3>3. x \in Copy /\ x.found <= booked
      BY <1>0, <3>1, <3>2 DEF Copy
    <3>4. copy' = [copy EXCEPT ![c] = x]
      BY <2>2, <3>1 DEF LoadLedger
    <3> QED BY <3>3, <3>4
  <2> QED BY <2>1, <2>2
<1>3. copy' \in [Holders -> Copy] /\ \A d \in Holders : copy'[d].found <= booked
  <2>1. PICK x \in Copy : copy' = [copy EXCEPT ![c] = x] /\ x.found <= booked
    BY <1>2
  <2>2. \A d \in Holders : copy'[d] = x \/ copy'[d] = copy[d]
    BY <1>0, <2>1
  <2> QED BY <1>0, <2>1, <2>2
<1> QED BY <1>0, <1>1, <1>3 DEF LedgerInv, LedgerTyped, EarnedBehind, Holders

\* Every step keeps the ledger behind what was booked.
LEMMA LedgerStep == TypesInv /\ LedgerInv /\ [Next]_vars => LedgerInv'
<1> SUFFICES ASSUME TypesInv, LedgerInv, [Next]_vars PROVE LedgerInv'
  OBVIOUS
<1>0. booked \in Nat
  BY DEF TypesInv, BooksTyped
<1>1. ASSUME UNCHANGED ledgerVars PROVE LedgerInv'
  BY <1>1 DEF ledgerVars, LedgerInv, LedgerTyped, EarnedBehind
<1>2. ASSUME NEW f \in Finalizers, Earn(f) PROVE LedgerInv'
  <2>1. SaveEarned(f, Amount(f)) /\ booked' = booked + Amount(f) /\ f \in Holders
    BY <1>2 DEF Earn, Holders
  <2>2. Amount(f) \in Nat
    <3>1. unpaid[f] # {}
      BY <1>2 DEF Earn, At, TypesInv, PaysSomeone
    <3> QED BY <3>1, AmountType
  <2> QED BY <1>0, <2>1, <2>2, SaveLedger
<1>3. ASSUME NEW c \in Savers, SaveOther(c) PROVE LedgerInv'
  <2>1. SaveEarned(c, 0) /\ booked' = booked + 0 /\ c \in Holders
    BY <1>0, <1>3 DEF SaveOther, Holders
  <2> QED BY <1>0, <2>1, SaveLedger
<1>4. ASSUME Restart PROVE LedgerInv'
  <2>1. NoCopy \in Copy /\ NoCopy.found = 0
    BY DEF NoCopy, Copy
  <2>2. UNCHANGED <<earned, booked, stale>> /\ copy' = [c \in Holders |-> NoCopy]
    BY <1>4 DEF Restart, Holders
  <2>3. copy' \in [Holders -> Copy] /\ \A c \in Holders : copy'[c].found = 0
    BY <2>1, <2>2
  <2> QED BY <1>0, <2>2, <2>3 DEF LedgerInv, LedgerTyped, EarnedBehind, Holders
<1>5. ASSUME NEW c \in Calls,
             \/ OpenEpoch(c) \/ LoadRow(c) \/ WriteRow(c) \/ Push(c) \/ RequireEpoch(c)
             \/ Weigh(c) \/ Weighed(c) \/ Receive(c) \/ AddAfc(c) \/ AppendFinalized(c)
             \/ Forget(c) \/ Fail(c)
      PROVE  UNCHANGED ledgerVars
  BY <1>5 DEF OpenEpoch, LoadRow, WriteRow, Push, RequireEpoch, Weigh, Weighed, Receive, AddAfc,
              AppendFinalized, Forget, Fail, payVars
<1>6. UNCHANGED vars => UNCHANGED ledgerVars
  BY DEF vars, payVars
<1>7. \/ \E c \in Holders : FindLedger(c) \/ LoadLedger(c)
      \/ \E f \in Finalizers : Earn(f)
      \/ \E c \in Savers : SaveOther(c)
      \/ Restart \/ UNCHANGED ledgerVars
  BY <1>5, <1>6 DEF Next, Continue, Calls, Holders
<1> QED BY <1>0, <1>1, <1>2, <1>3, <1>4, <1>7, ReadLedger

(* The ledger is behind what was booked, or equal to it. *)
LEMMA LedgerHolds == Spec => []LedgerInv
<1>1. Init => TypesInv /\ LedgerInv
  BY TypesInit, LedgerInit
<1>2. TypesInv /\ LedgerInv /\ [Next]_vars => TypesInv' /\ LedgerInv'
  BY TypesStep, LedgerStep
<1> QED BY <1>1, <1>2, PTL DEF Spec

\* The stores and the calls always hold values of their types; in particular no
\* share is ever divided by a total weight of zero.
THEOREM TypeCorrect == Spec => []TypeOK
<1>1. LedgerInv => LedgerTyped
  BY DEF LedgerInv
<1> QED BY <1>1, TypesHold, LedgerHolds, TypesGiveTypeOK, PTL

-----------------------------------------------------------------------------
(* The books: receipts, earnings, the AFC accruals and the records of      *)
(* finalizations, each compared with a sum over the calls in between.      *)

Earning == {f \in Finalizers : stage[f] = "earn"}

Unrecorded == {f \in Finalizers : stage[f] \in {"pay", "earn", "load", "write", "append"}}

PastAfc == {f \in Finalizers : stage[f] \in {"load", "write", "append"}}

AmountBy(S) == SumFunctionOnSet([x \in S |-> Amount(x)], S)

PaidBy(S) == SumFunctionOnSet([x \in S |-> paid[x]], S)

MarginBy(S) == SumFunctionOnSet([x \in S |-> AllocatedMargin(x)], S)

FinalPaid == SumFunctionOnSet([i \in DOMAIN finals |-> finals[i].paid], DOMAIN finals)

FinalMargin == SumFunctionOnSet([i \in DOMAIN finals |-> finals[i].operationalMargin], DOMAIN finals)

Receipts == SumFunctionOnSet([n \in Nodes |-> received[n]], Nodes)

\* A call has paid nothing before it starts to pay.
NothingPaidYet ==
  \A f \in Finalizers : stage[f] \in {"new", "weigh"} => paid[f] = 0

ReceiptsExact == Receipts = booked + AmountBy(Earning)

AuditExact ==
  booked = FinalPaid + PaidBy(Unrecorded) /\ afc = FinalMargin + MarginBy(PastAfc)

BooksInv == TypesInv /\ NothingPaidYet /\ ReceiptsExact /\ AuditExact

\* What the sums range over is finite, and what they add are integers.
LEMMA BooksSums ==
  ASSUME TypesInv
  PROVE  /\ IsFiniteSet(Earning) /\ IsFiniteSet(Unrecorded) /\ IsFiniteSet(PastAfc)
         /\ \A f \in Earning : Amount(f) \in Nat
         /\ \A f \in Finalizers : paid[f] \in Nat /\ AllocatedMargin(f) \in Int
         /\ AmountBy(Earning) \in Int /\ PaidBy(Unrecorded) \in Int /\ MarginBy(PastAfc) \in Int
         /\ FinalPaid \in Int /\ FinalMargin \in Int /\ Receipts \in Int
         /\ booked \in Int /\ afc \in Int
<1>0. IsFiniteSet(Finalizers)
  <2>1. Finalizers \in SUBSET Calls
    BY DEF Calls
  <2> QED BY <2>1, FiniteAssumption, FS_Subset
<1>1. IsFiniteSet(Earning) /\ IsFiniteSet(Unrecorded) /\ IsFiniteSet(PastAfc)
  <2>1. Earning \in SUBSET Finalizers /\ Unrecorded \in SUBSET Finalizers /\ PastAfc \in SUBSET Finalizers
    BY DEF Earning, Unrecorded, PastAfc
  <2> QED BY <1>0, <2>1, FS_Subset
<1>2. \A f \in Earning : Amount(f) \in Nat
  BY AmountType DEF Earning, TypesInv, PaysSomeone
<1>3. \A f \in Finalizers : paid[f] \in Nat /\ AllocatedMargin(f) \in Int
  BY DEF TypesInv, BooksTyped, RowsTyped, EpochRow, AllocatedMargin, Calls
<1>4. AmountBy(Earning) \in Int
  <2> DEFINE g == [x \in Earning |-> Amount(x)]
  <2>1. IntOn(g, Earning)
    BY <1>2 DEF IntOn
  <2> HIDE DEF g
  <2>2. SumFunctionOnSet(g, Earning) \in Int
    BY <1>1, <2>1, SumInt
  <2> QED BY <2>2 DEF AmountBy, g
<1>5. PaidBy(Unrecorded) \in Int
  <2> DEFINE g == [x \in Unrecorded |-> paid[x]]
  <2>1. IntOn(g, Unrecorded)
    BY <1>3 DEF IntOn, Unrecorded
  <2> HIDE DEF g
  <2>2. SumFunctionOnSet(g, Unrecorded) \in Int
    BY <1>1, <2>1, SumInt
  <2> QED BY <2>2 DEF PaidBy, g
<1>6. MarginBy(PastAfc) \in Int
  <2> DEFINE g == [x \in PastAfc |-> AllocatedMargin(x)]
  <2>1. IntOn(g, PastAfc)
    BY <1>3 DEF IntOn, PastAfc
  <2> HIDE DEF g
  <2>2. SumFunctionOnSet(g, PastAfc) \in Int
    BY <1>1, <2>1, SumInt
  <2> QED BY <2>2 DEF MarginBy, g
<1>7. FinalPaid \in Int /\ FinalMargin \in Int
  <2> DEFINE g == [i \in DOMAIN finals |-> finals[i].paid]
             h == [i \in DOMAIN finals |-> finals[i].operationalMargin]
  <2>1. finals \in Seq(FinalRecord)
    BY DEF TypesInv, BooksTyped
  <2>2. IntOn(g, DOMAIN finals) /\ IntOn(h, DOMAIN finals)
    <3>1. \A i \in DOMAIN finals : finals[i] \in FinalRecord
      BY <2>1
    <3>2. \A i \in DOMAIN finals : finals[i].paid \in Int /\ finals[i].operationalMargin \in Int
      BY <3>1 DEF FinalRecord
    <3> QED BY <3>2 DEF IntOn
  <2>3. IsFiniteSet(DOMAIN finals)
    <3>1. DOMAIN finals = 1..Len(finals) /\ Len(finals) \in Int
      BY <2>1
    <3> QED BY <3>1, FS_Interval
  <2> HIDE DEF g, h
  <2>4. SumFunctionOnSet(g, DOMAIN finals) \in Int /\ SumFunctionOnSet(h, DOMAIN finals) \in Int
    BY <2>2, <2>3, SumInt
  <2> QED BY <2>4 DEF FinalPaid, FinalMargin, g, h
<1>8. Receipts \in Int
  <2> DEFINE g == [n \in Nodes |-> received[n]]
  <2>1. IntOn(g, Nodes)
    BY DEF IntOn, TypesInv, BooksTyped
  <2> HIDE DEF g
  <2>2. SumFunctionOnSet(g, Nodes) \in Int
    BY <2>1, FiniteAssumption, SumInt
  <2> QED BY <2>2 DEF Receipts, g
<1>9. booked \in Int /\ afc \in Int
  BY DEF TypesInv, BooksTyped
<1> QED BY <1>1, <1>2, <1>3, <1>4, <1>5, <1>6, <1>7, <1>8, <1>9

-----------------------------------------------------------------------------
\* No call enters or leaves the middle of a payment.
LEMMA QuietReceipts ==
  ASSUME BooksInv, UNCHANGED <<received, booked>>, Earning' = Earning,
         \A g \in Earning : weight'[g] = weight[g] /\ unpaid'[g] = unpaid[g] /\ entity'[g] = entity[g]
  PROVE  ReceiptsExact'
<1> DEFINE a == [x \in Earning |-> Amount(x)]
           b == [x \in Earning' |-> Amount(x)']
<1>1. \A g \in Earning : Amount(g)' = Amount(g)
  BY DEF Amount
<1>2. a = b
  BY <1>1
<1>3. AmountBy(Earning)' = AmountBy(Earning)
  BY <1>2, Zenon DEF AmountBy
<1>4. Receipts' = Receipts
  BY Zenon DEF Receipts
<1> QED BY <1>3, <1>4 DEF BooksInv, ReceiptsExact, AuditExact

\* No call enters or leaves the time between its payments and its record.
LEMMA QuietAudit ==
  ASSUME BooksInv, UNCHANGED <<booked, afc, finals>>, Unrecorded' = Unrecorded, PastAfc' = PastAfc,
         \A g \in Unrecorded : paid'[g] = paid[g],
         \A g \in PastAfc : AllocatedMargin(g)' = AllocatedMargin(g)
  PROVE  AuditExact'
<1>1. PaidBy(Unrecorded)' = PaidBy(Unrecorded)
  <2>1. [x \in Unrecorded' |-> paid'[x]] = [x \in Unrecorded |-> paid[x]]
    OBVIOUS
  <2> QED BY <2>1, Zenon DEF PaidBy
<1>2. MarginBy(PastAfc)' = MarginBy(PastAfc)
  <2>1. [x \in PastAfc' |-> AllocatedMargin(x)'] = [x \in PastAfc |-> AllocatedMargin(x)]
    OBVIOUS
  <2> QED BY <2>1, Zenon DEF MarginBy
<1>3. FinalPaid' = FinalPaid /\ FinalMargin' = FinalMargin
  BY Zenon DEF FinalPaid, FinalMargin
<1> QED BY <1>1, <1>2, <1>3 DEF BooksInv, ReceiptsExact, AuditExact

\* The steps that only move a call, or its row, or its weights.
LEMMA QuietBooks ==
  ASSUME BooksInv,
         \/ \E c \in Calls : (c \in Accruals /\ OpenEpoch(c)) \/ LoadRow(c) \/ WriteRow(c)
         \/ \E a \in Accruals : Push(a)
         \/ \E f \in Finalizers : RequireEpoch(f) \/ Weigh(f) \/ Forget(f)
         \/ (\E c \in Calls : Fail(c)) \/ Restart \/ UNCHANGED restVars
  PROVE  ReceiptsExact' /\ AuditExact' /\ NothingPaidYet'
<1>0. /\ stage \in [Calls -> Stages] /\ Finalizers \subseteq Calls /\ Accruals \subseteq Calls
      /\ Accruals \cap Finalizers = {}
      /\ entity \in [Calls -> EpochRow] /\ weight \in [Finalizers -> [Nodes -> Nat]]
  BY CallAssumption DEF BooksInv, TypesInv, WorkInv, ShapeOK, RowsTyped, Calls
<1>1. UNCHANGED <<received, booked, afc, finals, paid, unpaid>>
  BY DEF OpenEpoch, LoadRow, WriteRow, Push, RequireEpoch, Weigh, Forget, Fail, Restart, restVars,
         callVars, finalizerVars, payVars, ledgerVars
<1>2. \/ UNCHANGED stage
      \/ \E c \in Calls, l \in Stages :
           /\ stage' = [stage EXCEPT ![c] = l]
           /\ c \in Finalizers =>
                <<stage[c], l>> \in { <<"new", "done">>, <<"new", "weigh">>, <<"load", "write">>,
                                      <<"write", "append">>, <<"forget", "done">> }
  <2>1. ASSUME NEW c \in Calls, (c \in Accruals /\ OpenEpoch(c)) \/ LoadRow(c) \/ WriteRow(c)
        PROVE  \/ UNCHANGED stage
               \/ \E l \in Stages :
                    /\ stage' = [stage EXCEPT ![c] = l]
                    /\ c \in Finalizers =>
                         <<stage[c], l>> \in { <<"load", "write">>, <<"write", "append">> }
    BY <1>0, <2>1 DEF OpenEpoch, LoadRow, WriteRow, Goto, At, Stages
  <2>2. ASSUME NEW a \in Accruals, Push(a)
        PROVE  /\ stage' = [stage EXCEPT ![a] = "done"] /\ "done" \in Stages
               /\ a \in Calls /\ a \notin Finalizers
    BY <1>0, <2>2 DEF Push, Goto, Stages
  <2>3. ASSUME NEW f \in Finalizers, RequireEpoch(f) \/ Weigh(f) \/ Forget(f)
        PROVE  \/ UNCHANGED stage
               \/ \E l \in Stages :
                    /\ stage' = [stage EXCEPT ![f] = l]
                    /\ <<stage[f], l>> \in { <<"new", "done">>, <<"new", "weigh">>, <<"forget", "done">> }
    BY <2>3 DEF RequireEpoch, Weigh, Forget, Starts, Goto, At, Stages, callVars
  <2>4. ASSUME (\E c \in Calls : Fail(c)) \/ Restart \/ UNCHANGED restVars PROVE UNCHANGED stage
    BY <2>4 DEF Fail, Restart, restVars, callVars
  <2> QED BY <1>0, <2>1, <2>2, <2>3, <2>4
<1>3. Earning' = Earning /\ Unrecorded' = Unrecorded /\ PastAfc' = PastAfc
  BY <1>0, <1>2 DEF Earning, Unrecorded, PastAfc
<1>4. NothingPaidYet'
  <2>1. \A f \in Finalizers : stage'[f] \in {"new", "weigh"} => stage[f] \in {"new", "weigh"}
    BY <1>0, <1>2
  <2> QED BY <1>1, <2>1 DEF BooksInv, NothingPaidYet
<1>5. \A g \in Finalizers : entity'[g] = entity[g] \/ stage[g] = "new"
  <2>1. \/ entity' = entity
        \/ \E c \in Calls : \E e : entity' = [entity EXCEPT ![c] = e] /\ (c \in Accruals \/ stage[c] = "new")
    BY DEF OpenEpoch, LoadRow, WriteRow, Push, RequireEpoch, Weigh, Forget, Fail, Restart, restVars,
           callVars, Starts, At, Calls
  <2> QED BY <1>0, <2>1
<1>6. \A g \in Finalizers : weight'[g] = weight[g] \/ stage[g] = "weigh"
  <2>1. \/ weight' = weight
        \/ \E f \in Finalizers : \E w : weight' = [weight EXCEPT ![f] = w] /\ stage[f] = "weigh"
    <3>1. ASSUME NEW f \in Finalizers, Weigh(f)
          PROVE  \E w : weight' = [weight EXCEPT ![f] = w] /\ stage[f] = "weigh"
      <4> DEFINE n == Participation(f)[pos[f]][2]
      <4>1. /\ stage[f] = "weigh"
            /\ \E k : weight' = [weight EXCEPT ![f] = [weight[f] EXCEPT ![n] = @ + k]]
        BY <3>1 DEF Weigh, At
      <4> QED BY <4>1
    <3>2. ASSUME ~\E f \in Finalizers : Weigh(f) PROVE weight' = weight
      BY <3>2 DEF OpenEpoch, LoadRow, WriteRow, Push, RequireEpoch, Forget, Fail, Restart, restVars,
           finalizerVars
    <3> QED BY <3>1, <3>2
  <2> QED BY <1>0, <2>1
<1>7. ReceiptsExact'
  <2>1. \A g \in Earning : weight'[g] = weight[g] /\ unpaid'[g] = unpaid[g] /\ entity'[g] = entity[g]
    BY <1>1, <1>5, <1>6 DEF Earning
  <2> QED BY <1>1, <1>3, <2>1, QuietReceipts
<1>8. AuditExact'
  <2>1. \A g \in PastAfc : AllocatedMargin(g)' = AllocatedMargin(g)
    BY <1>1, <1>5 DEF PastAfc, AllocatedMargin
  <2> QED BY <1>1, <1>3, <2>1, QuietAudit
<1> QED BY <1>4, <1>7, <1>8

\* A receipt: f enters the middle of a payment.
LEMMA ReceiveBooks ==
  ASSUME BooksInv, NEW f \in Finalizers, Receive(f)
  PROVE  ReceiptsExact' /\ AuditExact' /\ NothingPaidYet'
<1>0. /\ TypesInv /\ stage \in [Calls -> Stages] /\ Finalizers \subseteq Calls
      /\ received \in [Nodes -> Nat] /\ stage[f] = "pay" /\ unpaid[f] # {}
      /\ stage' = [stage EXCEPT ![f] = "earn"]
      /\ received' = [received EXCEPT ![Min(unpaid[f])] = @ + Amount(f)]
      /\ UNCHANGED <<entity, weight, unpaid, paid, booked, afc, finals>>
  BY DEF BooksInv, TypesInv, WorkInv, ShapeOK, BooksTyped, Calls, Receive, At, Goto, finalizerVars,
         ledgerVars
<1>1. PICK m \in Nodes : m = Min(unpaid[f])
  BY <1>0, AmountType
<1>2. Amount(f) \in Nat
  BY <1>0, AmountType
<1>3. \A g \in Finalizers : stage'[g] = IF g = f THEN "earn" ELSE stage[g]
  BY <1>0
<1>4. Receipts' = Receipts + Amount(f)
  <2> DEFINE a == [n \in Nodes |-> received[n]]
             b == [n \in Nodes |-> received'[n]]
  <2>1. received' = [received EXCEPT ![m] = @ + Amount(f)]
    BY <1>0, <1>1
  <2>2. IntOn(a, Nodes) /\ IntOn(b, Nodes)
    BY <1>0, <1>2, <2>1 DEF IntOn
  <2>3. \A n \in Nodes \ {m} : b[n] = a[n]
    BY <1>0, <2>1
  <2>4. b[m] = a[m] + Amount(f) /\ a[m] \in Int
    BY <1>0, <2>1
  <2>5. SumFunctionOnSet(a, Nodes) \in Int
    <3> HIDE DEF a, b
    <3> QED BY <2>2, FiniteAssumption, SumInt
  <2>6. SumFunctionOnSet(b, Nodes) = SumFunctionOnSet(a, Nodes) - a[m] + b[m]
    <3> HIDE DEF a, b
    <3> QED BY <2>2, <2>3, FiniteAssumption, SumChange
  <2>7. Receipts = SumFunctionOnSet(a, Nodes) /\ Receipts' = SumFunctionOnSet(b, Nodes)
    BY Zenon DEF Receipts
  <2> HIDE DEF a, b
  <2> QED BY <1>2, <2>4, <2>5, <2>6, <2>7
<1>5. AmountBy(Earning)' = AmountBy(Earning) + Amount(f)
  <2> DEFINE a == [x \in Earning |-> Amount(x)]
             b == [x \in Earning' |-> Amount(x)']
  <2>1. Earning' = Earning \cup {f} /\ f \notin Earning
    BY <1>0, <1>3 DEF Earning
  <2>2. \A x \in Finalizers : Amount(x)' = Amount(x)
    BY <1>0 DEF Amount
  <2>3. \A x \in Earning : Amount(x) \in Nat /\ x \in Finalizers
    BY <1>0, BooksSums DEF Earning
  <2>4. IntOn(b, Earning \cup {f}) /\ b[f] = Amount(f)
    BY <1>2, <2>1, <2>2, <2>3 DEF IntOn
  <2>5. \A x \in Earning : b[x] = a[x]
    BY <2>1, <2>2, <2>3
  <2>6. SumFunctionOnSet(b, Earning \cup {f}) = SumFunctionOnSet(a, Earning) + b[f]
    <3> HIDE DEF a, b
    <3> QED BY <1>0, <2>1, <2>4, <2>5, BooksSums, SumGrow
  <2>7. AmountBy(Earning) = SumFunctionOnSet(a, Earning) /\ AmountBy(Earning)' = SumFunctionOnSet(b, Earning')
    BY Zenon DEF AmountBy
  <2> HIDE DEF a, b
  <2> QED BY <2>1, <2>4, <2>6, <2>7
<1>6. ReceiptsExact'
  <2>1. Receipts = booked + AmountBy(Earning) /\ AmountBy(Earning) \in Int /\ booked \in Int
    BY <1>0, BooksSums DEF BooksInv, ReceiptsExact, AuditExact
  <2>2. Receipts' = booked' + AmountBy(Earning)'
    BY <1>0, <1>2, <1>4, <1>5, <2>1
  <2> QED BY <2>2 DEF ReceiptsExact, AuditExact
<1>7. AuditExact'
  <2>1. Unrecorded' = Unrecorded /\ PastAfc' = PastAfc
    BY <1>0, <1>3 DEF Unrecorded, PastAfc
  <2>2. \A g \in PastAfc : AllocatedMargin(g)' = AllocatedMargin(g)
    BY <1>0 DEF AllocatedMargin
  <2> QED BY <1>0, <2>1, <2>2, QuietAudit
<1>8. NothingPaidYet'
  BY <1>0, <1>3 DEF BooksInv, NothingPaidYet
<1> QED BY <1>6, <1>7, <1>8

\* The payment is booked: f leaves the middle of a payment.
LEMMA EarnBooks ==
  ASSUME BooksInv, NEW f \in Finalizers, Earn(f)
  PROVE  ReceiptsExact' /\ AuditExact' /\ NothingPaidYet'
<1>0. /\ TypesInv /\ stage \in [Calls -> Stages] /\ Finalizers \subseteq Calls
      /\ paid \in [Finalizers -> Nat] /\ unpaid \in [Finalizers -> SUBSET Nodes]
      /\ stage[f] = "earn" /\ unpaid[f] # {}
      /\ stage' = [stage EXCEPT ![f] = "pay"]
      /\ booked' = booked + Amount(f)
      /\ paid' = [paid EXCEPT ![f] = @ + Amount(f)]
      /\ unpaid' = [unpaid EXCEPT ![f] = @ \ {Min(unpaid[f])}]
      /\ UNCHANGED <<entity, weight, received, afc, finals>>
  BY DEF BooksInv, TypesInv, WorkInv, ShapeOK, BooksTyped, PaysSomeone, Calls, Earn, At, Goto
<1>1. Amount(f) \in Nat
  BY <1>0, AmountType
<1>2. \A g \in Finalizers : stage'[g] = IF g = f THEN "pay" ELSE stage[g]
  BY <1>0
<1>3. AmountBy(Earning)' = AmountBy(Earning) - Amount(f)
  <2> DEFINE a == [x \in Earning |-> Amount(x)]
             b == [x \in Earning' |-> Amount(x)']
  <2>1. Earning' = Earning \ {f} /\ f \in Earning
    BY <1>0, <1>2 DEF Earning
  <2>2. \A x \in Finalizers \ {f} : Amount(x)' = Amount(x)
    <3>1. \A x \in Finalizers \ {f} : unpaid'[x] = unpaid[x]
      BY <1>0
    <3> QED BY <1>0, <3>1 DEF Amount
  <2>3. IntOn(a, Earning) /\ a[f] = Amount(f)
    BY <1>0, <2>1, BooksSums DEF IntOn
  <2>4. \A x \in Earning \ {f} : b[x] = a[x]
    BY <2>1, <2>2 DEF Earning
  <2>5. SumFunctionOnSet(b, Earning \ {f}) = SumFunctionOnSet(a, Earning) - a[f]
    <3> HIDE DEF a, b
    <3>1. IsFiniteSet(Earning) /\ f \in Earning
      BY <1>0, <2>1, BooksSums
    <3> QED BY <2>3, <2>4, <3>1, SumShrink
  <2>6. AmountBy(Earning) = SumFunctionOnSet(a, Earning) /\ AmountBy(Earning)' = SumFunctionOnSet(b, Earning')
    BY Zenon DEF AmountBy
  <2> HIDE DEF a, b
  <2> QED BY <2>1, <2>3, <2>5, <2>6
<1>4. PaidBy(Unrecorded)' = PaidBy(Unrecorded) + Amount(f)
  <2> DEFINE a == [x \in Unrecorded |-> paid[x]]
             b == [x \in Unrecorded' |-> paid'[x]]
  <2>1. Unrecorded' = Unrecorded /\ f \in Unrecorded /\ Unrecorded \subseteq Finalizers
    BY <1>0, <1>2 DEF Unrecorded
  <2>2. IntOn(a, Unrecorded) /\ IntOn(b, Unrecorded)
    BY <1>0, <1>1, <2>1 DEF IntOn
  <2>3. \A x \in Unrecorded \ {f} : b[x] = a[x]
    BY <1>0, <2>1
  <2>4. b[f] = a[f] + Amount(f) /\ a[f] \in Int
    BY <1>0, <2>1
  <2>5. SumFunctionOnSet(b, Unrecorded) = SumFunctionOnSet(a, Unrecorded) - a[f] + b[f]
    <3> HIDE DEF a, b
    <3> QED BY <1>0, <2>1, <2>2, <2>3, BooksSums, SumChange
  <2>6. PaidBy(Unrecorded) = SumFunctionOnSet(a, Unrecorded) /\ PaidBy(Unrecorded)' = SumFunctionOnSet(b, Unrecorded')
    BY Zenon DEF PaidBy
  <2>7. PaidBy(Unrecorded) \in Int
    BY <1>0, BooksSums
  <2> HIDE DEF a, b
  <2> QED BY <1>1, <2>1, <2>4, <2>5, <2>6, <2>7
<1>5. MarginBy(PastAfc)' = MarginBy(PastAfc) /\ FinalPaid' = FinalPaid /\ FinalMargin' = FinalMargin
  <2>1. PastAfc' = PastAfc /\ \A x \in PastAfc : AllocatedMargin(x)' = AllocatedMargin(x)
    BY <1>0, <1>2 DEF PastAfc, AllocatedMargin
  <2>2. [x \in PastAfc' |-> AllocatedMargin(x)'] = [x \in PastAfc |-> AllocatedMargin(x)]
    BY <2>1
  <2>3. MarginBy(PastAfc)' = MarginBy(PastAfc)
    BY <2>1, <2>2, Zenon DEF MarginBy
  <2> QED BY <1>0, <2>3, Zenon DEF FinalPaid, FinalMargin
<1>6. ReceiptsExact'
  <2>1. Receipts = booked + AmountBy(Earning) /\ AmountBy(Earning) \in Int /\ booked \in Int
    BY <1>0, BooksSums DEF BooksInv, ReceiptsExact, AuditExact
  <2>2. Receipts' = Receipts
    BY <1>0, Zenon DEF Receipts
  <2>3. Receipts' = booked' + AmountBy(Earning)'
    BY <1>0, <1>1, <1>3, <2>1, <2>2
  <2> QED BY <2>3 DEF ReceiptsExact, AuditExact
<1>7. AuditExact'
  <2>1. /\ booked = FinalPaid + PaidBy(Unrecorded) /\ afc = FinalMargin + MarginBy(PastAfc)
        /\ FinalPaid \in Int /\ PaidBy(Unrecorded) \in Int
    BY <1>0, BooksSums DEF BooksInv, ReceiptsExact, AuditExact
  <2>2. booked' = FinalPaid' + PaidBy(Unrecorded)'
    BY <1>0, <1>1, <1>4, <1>5, <2>1
  <2>3. afc' = FinalMargin' + MarginBy(PastAfc)'
    BY <1>0, <1>5, <2>1
  <2> QED BY <2>2, <2>3 DEF ReceiptsExact, AuditExact
<1>8. NothingPaidYet'
  <2>1. \A g \in Finalizers : stage'[g] \in {"new", "weigh"} => stage[g] \in {"new", "weigh"} /\ paid'[g] = paid[g]
    BY <1>0, <1>2
  <2> QED BY <2>1 DEF BooksInv, NothingPaidYet
<1> QED BY <1>6, <1>7, <1>8

\* The weighing ends: f joins the calls that pay, and has paid nothing.
LEMMA WeighedBooks ==
  ASSUME BooksInv, NEW f \in Finalizers, Weighed(f)
  PROVE  ReceiptsExact' /\ AuditExact' /\ NothingPaidYet'
<1>0. /\ TypesInv /\ stage \in [Calls -> Stages] /\ Finalizers \subseteq Calls
      /\ unpaid \in [Finalizers -> SUBSET Nodes] /\ stage[f] = "weigh"
      /\ stage' = [stage EXCEPT ![f] = "pay"]
      /\ unpaid' = [unpaid EXCEPT ![f] = {n \in Nodes : weight[f][n] > 0}]
      /\ UNCHANGED <<entity, weight, paid, received, booked, afc, finals>>
  BY DEF BooksInv, TypesInv, WorkInv, ShapeOK, Calls, Weighed, At, Goto, payVars, ledgerVars
<1>1. \A g \in Finalizers : stage'[g] = IF g = f THEN "pay" ELSE stage[g]
  BY <1>0
<1>2. paid[f] = 0
  BY <1>0 DEF BooksInv, NothingPaidYet
<1>3. PaidBy(Unrecorded)' = PaidBy(Unrecorded)
  <2> DEFINE a == [x \in Unrecorded |-> paid[x]]
             b == [x \in Unrecorded' |-> paid'[x]]
  <2>1. Unrecorded' = Unrecorded \cup {f} /\ f \notin Unrecorded
    BY <1>0, <1>1 DEF Unrecorded
  <2>2. IntOn(b, Unrecorded \cup {f}) /\ b[f] = 0
    <3>1. \A x \in Unrecorded \cup {f} : x \in Finalizers /\ paid[x] \in Nat
      BY <1>0, BooksSums DEF Unrecorded
    <3> QED BY <1>0, <1>2, <2>1, <3>1 DEF IntOn
  <2>3. \A x \in Unrecorded : b[x] = a[x]
    BY <1>0, <2>1
  <2>4. SumFunctionOnSet(b, Unrecorded \cup {f}) = SumFunctionOnSet(a, Unrecorded) + b[f]
    <3> HIDE DEF a, b
    <3> QED BY <1>0, <2>1, <2>2, <2>3, BooksSums, SumGrow
  <2>5. PaidBy(Unrecorded) = SumFunctionOnSet(a, Unrecorded) /\ PaidBy(Unrecorded)' = SumFunctionOnSet(b, Unrecorded')
    BY Zenon DEF PaidBy
  <2>6. PaidBy(Unrecorded) \in Int
    BY <1>0, BooksSums
  <2> HIDE DEF a, b
  <2> QED BY <2>1, <2>2, <2>4, <2>5, <2>6
<1>4. MarginBy(PastAfc)' = MarginBy(PastAfc) /\ FinalPaid' = FinalPaid /\ FinalMargin' = FinalMargin
  <2>1. PastAfc' = PastAfc /\ \A x \in PastAfc : AllocatedMargin(x)' = AllocatedMargin(x)
    BY <1>0, <1>1 DEF PastAfc, AllocatedMargin
  <2>2. [x \in PastAfc' |-> AllocatedMargin(x)'] = [x \in PastAfc |-> AllocatedMargin(x)]
    BY <2>1
  <2>3. MarginBy(PastAfc)' = MarginBy(PastAfc)
    BY <2>1, <2>2, Zenon DEF MarginBy
  <2> QED BY <1>0, <2>3, Zenon DEF FinalPaid, FinalMargin
<1>5. AuditExact'
  BY <1>0, <1>3, <1>4 DEF BooksInv, ReceiptsExact, AuditExact
<1>6. ReceiptsExact'
  <2>1. Earning' = Earning /\ f \notin Earning
    BY <1>0, <1>1 DEF Earning
  <2>2. \A g \in Earning : weight'[g] = weight[g] /\ unpaid'[g] = unpaid[g] /\ entity'[g] = entity[g]
    BY <1>0, <2>1 DEF Earning
  <2> QED BY <1>0, <2>1, <2>2, QuietReceipts
<1>7. NothingPaidYet'
  BY <1>0, <1>1 DEF BooksInv, NothingPaidYet
<1> QED BY <1>5, <1>6, <1>7

\* The rest goes to the AFC: f joins the calls past it.
LEMMA AddAfcBooks ==
  ASSUME BooksInv, NEW f \in Finalizers, AddAfc(f)
  PROVE  ReceiptsExact' /\ AuditExact' /\ NothingPaidYet'
<1>0. /\ TypesInv /\ stage \in [Calls -> Stages] /\ Finalizers \subseteq Calls
      /\ entity \in [Calls -> EpochRow] /\ stage[f] = "pay"
      /\ stage' = [stage EXCEPT ![f] = "load"]
      /\ afc' = afc + AllocatedMargin(f)
      /\ entity' = [entity EXCEPT ![f] =
           Epoch(entity[f].totalFees, "finalized", AllocatedMargin(f), paid[f])]
      /\ UNCHANGED <<weight, unpaid, paid, received, booked, finals>>
  BY DEF BooksInv, TypesInv, WorkInv, ShapeOK, RowsTyped, Calls, AddAfc, At, Goto, finalizerVars,
         ledgerVars
<1>1. \A g \in Finalizers : stage'[g] = IF g = f THEN "load" ELSE stage[g]
  BY <1>0
<1>2. \A g \in Finalizers : AllocatedMargin(g)' = AllocatedMargin(g)
  <2>1. \A g \in Finalizers : entity'[g].totalFees = entity[g].totalFees
    BY <1>0 DEF Epoch
  <2> QED BY <1>0, <2>1 DEF AllocatedMargin
<1>3. AllocatedMargin(f) \in Int
  BY <1>0, BooksSums
<1>4. MarginBy(PastAfc)' = MarginBy(PastAfc) + AllocatedMargin(f)
  <2> DEFINE a == [x \in PastAfc |-> AllocatedMargin(x)]
             b == [x \in PastAfc' |-> AllocatedMargin(x)']
  <2>1. PastAfc' = PastAfc \cup {f} /\ f \notin PastAfc
    BY <1>0, <1>1 DEF PastAfc
  <2>2. IntOn(b, PastAfc \cup {f}) /\ b[f] = AllocatedMargin(f)
    <3>1. \A x \in PastAfc \cup {f} : x \in Finalizers /\ AllocatedMargin(x) \in Int
      BY <1>0, BooksSums DEF PastAfc
    <3> QED BY <1>2, <2>1, <3>1 DEF IntOn
  <2>3. \A x \in PastAfc : b[x] = a[x]
    BY <1>2, <2>1 DEF PastAfc
  <2>4. SumFunctionOnSet(b, PastAfc \cup {f}) = SumFunctionOnSet(a, PastAfc) + b[f]
    <3> HIDE DEF a, b
    <3>1. IsFiniteSet(PastAfc) /\ f \notin PastAfc
      BY <1>0, <2>1, BooksSums
    <3> QED BY <2>2, <2>3, <3>1, SumGrow
  <2>5. MarginBy(PastAfc) = SumFunctionOnSet(a, PastAfc) /\ MarginBy(PastAfc)' = SumFunctionOnSet(b, PastAfc')
    BY Zenon DEF MarginBy
  <2> HIDE DEF a, b
  <2> QED BY <2>1, <2>2, <2>4, <2>5
<1>5. PaidBy(Unrecorded)' = PaidBy(Unrecorded) /\ FinalPaid' = FinalPaid /\ FinalMargin' = FinalMargin
  <2>1. Unrecorded' = Unrecorded
    BY <1>0, <1>1 DEF Unrecorded
  <2> QED BY <1>0, <2>1, Zenon DEF PaidBy, FinalPaid, FinalMargin
<1>6. AuditExact'
  <2>1. /\ booked = FinalPaid + PaidBy(Unrecorded) /\ afc = FinalMargin + MarginBy(PastAfc)
        /\ FinalMargin \in Int /\ MarginBy(PastAfc) \in Int
    BY <1>0, BooksSums DEF BooksInv, ReceiptsExact, AuditExact
  <2>2. afc' = FinalMargin' + MarginBy(PastAfc)'
    BY <1>0, <1>3, <1>4, <1>5, <2>1
  <2> QED BY <1>0, <1>5, <2>1, <2>2 DEF ReceiptsExact, AuditExact
<1>7. ReceiptsExact'
  <2>1. Earning' = Earning /\ f \notin Earning
    BY <1>0, <1>1 DEF Earning
  <2>2. \A g \in Earning : weight'[g] = weight[g] /\ unpaid'[g] = unpaid[g] /\ entity'[g] = entity[g]
    BY <1>0, <2>1 DEF Earning
  <2> QED BY <1>0, <2>1, <2>2, QuietReceipts
<1>8. NothingPaidYet'
  BY <1>0, <1>1 DEF BooksInv, NothingPaidYet
<1> QED BY <1>6, <1>7, <1>8

\* A record more: the sums over the records grow by its columns.
LEMMA OneRecordMore ==
  ASSUME finals \in Seq(FinalRecord), NEW x \in FinalRecord, finals' = Append(finals, x)
  PROVE  FinalPaid' = FinalPaid + x.paid /\ FinalMargin' = FinalMargin + x.operationalMargin
<1> DEFINE a == [i \in DOMAIN finals |-> finals[i].paid]
           b == [i \in DOMAIN finals' |-> finals'[i].paid]
           c == [i \in DOMAIN finals |-> finals[i].operationalMargin]
           d == [i \in DOMAIN finals' |-> finals'[i].operationalMargin]
<1>1. PICK k \in Nat : k = Len(finals) + 1
  OBVIOUS
<1>2. PICK D : D = DOMAIN finals
  OBVIOUS
<1>3. DOMAIN finals' = D \cup {k} /\ k \notin D /\ IsFiniteSet(D)
  <2>1. D = 1..Len(finals) /\ Len(finals) \in Int
    BY <1>2
  <2>2. IsFiniteSet(D)
    BY <2>1, FS_Interval
  <2>3. DOMAIN finals' = 1..(Len(finals) + 1)
    OBVIOUS
  <2> QED BY <1>1, <2>1, <2>2, <2>3
<1>4. finals'[k] = x /\ \A i \in D : finals'[i] = finals[i] /\ finals[i] \in FinalRecord
  BY <1>1, <1>2
<1>5. \A i \in D \cup {k} : finals'[i].paid \in Int /\ finals'[i].operationalMargin \in Int
  <2>1. \A r \in FinalRecord : r.paid \in Int /\ r.operationalMargin \in Int
    BY DEF FinalRecord
  <2>2. \A i \in D \cup {k} : finals'[i] \in FinalRecord
    <3> HIDE DEF FinalRecord
    <3> QED BY <1>4
  <2> QED BY <2>1, <2>2
<1>6. /\ IntOn(b, D \cup {k}) /\ IntOn(d, D \cup {k})
      /\ b[k] = x.paid /\ d[k] = x.operationalMargin
  BY <1>3, <1>4, <1>5 DEF IntOn
<1>7. \A i \in D : b[i] = a[i] /\ d[i] = c[i]
  BY <1>2, <1>3, <1>4
<1>8. /\ FinalPaid = SumFunctionOnSet(a, D) /\ FinalPaid' = SumFunctionOnSet(b, DOMAIN finals')
      /\ FinalMargin = SumFunctionOnSet(c, D) /\ FinalMargin' = SumFunctionOnSet(d, DOMAIN finals')
  BY <1>2, Zenon DEF FinalPaid, FinalMargin
<1> HIDE DEF a, b, c, d
<1>9. SumFunctionOnSet(b, D \cup {k}) = SumFunctionOnSet(a, D) + b[k]
  BY <1>3, <1>6, <1>7, SumGrow
<1>10. SumFunctionOnSet(d, D \cup {k}) = SumFunctionOnSet(c, D) + d[k]
  BY <1>3, <1>6, <1>7, SumGrow
<1> QED BY <1>3, <1>6, <1>8, <1>9, <1>10

\* The finalization is recorded: f leaves the calls that are not.
LEMMA AppendBooks ==
  ASSUME BooksInv, NEW f \in Finalizers, AppendFinalized(f)
  PROVE  ReceiptsExact' /\ AuditExact' /\ NothingPaidYet'
<1>0. /\ TypesInv /\ stage \in [Calls -> Stages] /\ Finalizers \subseteq Calls
      /\ finals \in Seq(FinalRecord) /\ stage[f] = "append"
      /\ stage' = [stage EXCEPT ![f] = "forget"]
      /\ finals' = Append(finals, [totalFees |-> entity[f].totalFees, paid |-> paid[f],
                                   operationalMargin |-> AllocatedMargin(f)])
      /\ UNCHANGED <<entity, weight, unpaid, paid, received, booked, afc>>
  BY DEF BooksInv, TypesInv, WorkInv, ShapeOK, BooksTyped, Calls, AppendFinalized, At, Goto,
         finalizerVars, payVars, ledgerVars
<1>1. \A g \in Finalizers : stage'[g] = IF g = f THEN "forget" ELSE stage[g]
  BY <1>0
<1>2. paid[f] \in Nat /\ AllocatedMargin(f) \in Int /\ entity[f].totalFees \in Nat
  BY <1>0, BooksSums DEF TypesInv, RowsTyped, EpochRow
<1>3. FinalPaid' = FinalPaid + paid[f] /\ FinalMargin' = FinalMargin + AllocatedMargin(f)
  <2>1. PICK x : x = [totalFees |-> entity[f].totalFees, paid |-> paid[f],
                      operationalMargin |-> AllocatedMargin(f)]
    OBVIOUS
  <2>2. x \in FinalRecord /\ x.paid = paid[f] /\ x.operationalMargin = AllocatedMargin(f)
    BY <1>2, <2>1 DEF FinalRecord
  <2>3. finals' = Append(finals, x)
    BY <1>0, <2>1
  <2> QED BY <1>0, <2>2, <2>3, OneRecordMore
<1>4. PaidBy(Unrecorded)' = PaidBy(Unrecorded) - paid[f]
  <2> DEFINE a == [x \in Unrecorded |-> paid[x]]
             b == [x \in Unrecorded' |-> paid'[x]]
  <2>1. Unrecorded' = Unrecorded \ {f} /\ f \in Unrecorded
    BY <1>0, <1>1 DEF Unrecorded
  <2>2. IntOn(a, Unrecorded) /\ a[f] = paid[f]
    BY <1>0, <2>1, BooksSums DEF IntOn, Unrecorded
  <2>3. \A x \in Unrecorded \ {f} : b[x] = a[x]
    BY <1>0, <2>1
  <2>4. SumFunctionOnSet(b, Unrecorded \ {f}) = SumFunctionOnSet(a, Unrecorded) - a[f]
    <3> HIDE DEF a, b
    <3>1. IsFiniteSet(Unrecorded) /\ f \in Unrecorded
      BY <1>0, <2>1, BooksSums
    <3> QED BY <2>2, <2>3, <3>1, SumShrink
  <2>5. PaidBy(Unrecorded) = SumFunctionOnSet(a, Unrecorded) /\ PaidBy(Unrecorded)' = SumFunctionOnSet(b, Unrecorded')
    BY Zenon DEF PaidBy
  <2> HIDE DEF a, b
  <2> QED BY <2>1, <2>2, <2>4, <2>5
<1>5. MarginBy(PastAfc)' = MarginBy(PastAfc) - AllocatedMargin(f)
  <2> DEFINE a == [x \in PastAfc |-> AllocatedMargin(x)]
             b == [x \in PastAfc' |-> AllocatedMargin(x)']
  <2>1. PastAfc' = PastAfc \ {f} /\ f \in PastAfc
    BY <1>0, <1>1 DEF PastAfc
  <2>2. IntOn(a, PastAfc) /\ a[f] = AllocatedMargin(f)
    BY <1>0, <2>1, BooksSums DEF IntOn, PastAfc
  <2>3. \A x \in PastAfc \ {f} : b[x] = a[x]
    BY <1>0, <2>1 DEF AllocatedMargin
  <2>4. SumFunctionOnSet(b, PastAfc \ {f}) = SumFunctionOnSet(a, PastAfc) - a[f]
    <3> HIDE DEF a, b
    <3>1. IsFiniteSet(PastAfc) /\ f \in PastAfc
      BY <1>0, <2>1, BooksSums
    <3> QED BY <2>2, <2>3, <3>1, SumShrink
  <2>5. MarginBy(PastAfc) = SumFunctionOnSet(a, PastAfc) /\ MarginBy(PastAfc)' = SumFunctionOnSet(b, PastAfc')
    BY Zenon DEF MarginBy
  <2> HIDE DEF a, b
  <2> QED BY <2>1, <2>2, <2>4, <2>5
<1>6. AuditExact'
  <2>1. /\ booked = FinalPaid + PaidBy(Unrecorded) /\ afc = FinalMargin + MarginBy(PastAfc)
        /\ FinalPaid \in Int /\ PaidBy(Unrecorded) \in Int
        /\ FinalMargin \in Int /\ MarginBy(PastAfc) \in Int
    BY <1>0, BooksSums DEF BooksInv, ReceiptsExact, AuditExact
  <2>2. booked' = booked /\ afc' = afc
    BY <1>0
  <2>3. booked' = FinalPaid' + PaidBy(Unrecorded)'
    BY <1>2, <1>3, <1>4, <2>1, <2>2
  <2>4. afc' = FinalMargin' + MarginBy(PastAfc)'
    BY <1>2, <1>3, <1>5, <2>1, <2>2
  <2> QED BY <2>3, <2>4 DEF ReceiptsExact, AuditExact
<1>7. ReceiptsExact'
  <2>1. Earning' = Earning
    BY <1>0, <1>1 DEF Earning
  <2> QED BY <1>0, <2>1, QuietReceipts
<1>8. NothingPaidYet'
  BY <1>0, <1>1 DEF BooksInv, NothingPaidYet
<1> QED BY <1>6, <1>7, <1>8

\* Initially nothing is received, earned, accrued or recorded.
LEMMA BooksInit == Init => BooksInv
<1> SUFFICES ASSUME Init PROVE BooksInv
  OBVIOUS
<1>0. TypesInv
  BY TypesInit
<1>1. Earning = {} /\ Unrecorded = {} /\ PastAfc = {} /\ DOMAIN finals = {}
  BY DEF Init, Earning, Unrecorded, PastAfc, Calls
<1>2. AmountBy(Earning) = 0 /\ PaidBy(Unrecorded) = 0 /\ MarginBy(PastAfc) = 0
  BY <1>1, SumEmpty DEF AmountBy, PaidBy, MarginBy
<1>3. FinalPaid = 0 /\ FinalMargin = 0
  BY <1>1, SumEmpty DEF FinalPaid, FinalMargin
<1>4. Receipts = 0
  <2> DEFINE a == [n \in Nodes |-> received[n]]
  <2>1. \A n \in Nodes : a[n] = 0
    BY DEF Init
  <2> HIDE DEF a
  <2>2. SumFunctionOnSet(a, Nodes) = 0
    BY <2>1, FiniteAssumption, SumZero
  <2> QED BY <2>2 DEF Receipts, a
<1>5. booked = 0 /\ afc = 0 /\ NothingPaidYet
  BY DEF Init, NothingPaidYet
<1>6. ReceiptsExact /\ AuditExact
  BY <1>2, <1>3, <1>4, <1>5 DEF ReceiptsExact, AuditExact
<1> QED BY <1>0, <1>5, <1>6 DEF BooksInv

\* Every step keeps the books.
LEMMA BooksStep == BooksInv /\ [Next]_vars => BooksInv'
<1> SUFFICES ASSUME BooksInv, [Next]_vars PROVE BooksInv'
  OBVIOUS
<1>1. TypesInv'
  BY TypesStep DEF BooksInv
<1>2. \/ \E f \in Finalizers : Receive(f) \/ Earn(f) \/ Weighed(f) \/ AddAfc(f) \/ AppendFinalized(f)
      \/ \/ \E c \in Calls : (c \in Accruals /\ OpenEpoch(c)) \/ LoadRow(c) \/ WriteRow(c)
         \/ \E a \in Accruals : Push(a)
         \/ \E f \in Finalizers : RequireEpoch(f) \/ Weigh(f) \/ Forget(f)
         \/ (\E c \in Calls : Fail(c)) \/ Restart \/ UNCHANGED restVars
  BY LedgerSteps DEF Next, Continue, Calls
<1>3. ReceiptsExact' /\ AuditExact' /\ NothingPaidYet'
  BY <1>2, QuietBooks, ReceiveBooks, EarnBooks, WeighedBooks, AddAfcBooks, AppendBooks
<1> QED BY <1>1, <1>3 DEF BooksInv

(* The books are invariant. *)
LEMMA BooksHold == Spec => []BooksInv
BY BooksInit, BooksStep, PTL DEF Spec

\* The sums of the properties are those of the invariant.
LEMMA BooksSumsAs ==
  /\ TotalReceived = Receipts
  /\ SumOver(Earning, Amount) = AmountBy(Earning)
  /\ SumOver(Unrecorded, LAMBDA f : paid[f]) = PaidBy(Unrecorded)
  /\ SumOver(PastAfc, AllocatedMargin) = MarginBy(PastAfc)
  /\ TotalFinal(LAMBDA x : x.paid) = FinalPaid
  /\ TotalFinal(LAMBDA x : x.operationalMargin) = FinalMargin
<1>1. TotalReceived = Receipts
  BY Zenon DEF TotalReceived, SumOver, Receipts
<1>2. /\ SumOver(Earning, Amount) = AmountBy(Earning)
      /\ SumOver(PastAfc, AllocatedMargin) = MarginBy(PastAfc)
  BY Zenon DEF SumOver, AmountBy, MarginBy
<1>3. SumOver(Unrecorded, LAMBDA f : paid[f]) = PaidBy(Unrecorded)
  BY Zenon DEF SumOver, PaidBy
<1>4. /\ TotalFinal(LAMBDA x : x.paid) = FinalPaid
      /\ TotalFinal(LAMBDA x : x.operationalMargin) = FinalMargin
  BY Zenon DEF TotalFinal, SumOver, FinalPaid, FinalMargin
<1> QED BY <1>1, <1>2, <1>3, <1>4

\* However calls of accrue() and finalizeEpoch() interleave with each other and with
\* the ledger's other saves, fail and restart: what the ledger says was earned, and
\* the payments caught between receivePayment() and recordEarned(), are covered by
\* receipts, and equal them as long as no save of the ledger used an old copy.
THEOREM ReceiptsAreBooked == Spec => []ReceiptsBooked
<1>1. BooksInv /\ LedgerInv => ReceiptsBooked
  <2> SUFFICES ASSUME BooksInv, LedgerInv PROVE ReceiptsBooked
    OBVIOUS
  <2>1. /\ Receipts = booked + AmountBy(Earning) /\ booked \in Int /\ AmountBy(Earning) \in Int
        /\ earned \in Int /\ earned <= booked
    BY BooksSums DEF BooksInv, ReceiptsExact, LedgerInv, LedgerTyped, EarnedBehind
  <2>2. stale \/ earned = booked
    BY DEF LedgerInv, EarnedBehind
  <2>3. earned + AmountBy(Earning) <= Receipts
    BY <2>1
  <2>4. stale \/ earned + AmountBy(Earning) = Receipts
    BY <2>1, <2>2
  <2>5. ReceiptsBooked <=> /\ earned + SumOver(Earning, Amount) <= TotalReceived
                           /\ stale \/ earned + SumOver(Earning, Amount) = TotalReceived
    BY Zenon DEF ReceiptsBooked, Earning
  <2> QED BY <2>3, <2>4, <2>5, BooksSumsAs, Zenon
<1> QED BY <1>1, BooksHold, LedgerHolds, PTL

\* However they do, each unit received by a node or accrued to the AFC belongs to one
\* record of a finalization, or to one call that has not reached its record.
THEOREM PaymentsAreAttributed == Spec => []AuditTrail
<1>1. BooksInv => AuditTrail
  <2> SUFFICES ASSUME BooksInv PROVE AuditTrail
    OBVIOUS
  <2>1. Receipts = FinalPaid + PaidBy(Unrecorded) + AmountBy(Earning)
    BY DEF BooksInv, ReceiptsExact, AuditExact
  <2>2. afc = FinalMargin + MarginBy(PastAfc)
    BY DEF BooksInv, AuditExact
  <2>3. PastAfc = Unrecorded \ {f \in Finalizers : stage[f] \in {"pay", "earn"}}
    BY DEF PastAfc, Unrecorded
  <2>4. AuditTrail <=>
          /\ TotalReceived = TotalFinal(LAMBDA x : x.paid)
               + SumOver(Unrecorded, LAMBDA f : paid[f]) + SumOver(Earning, Amount)
          /\ afc = TotalFinal(LAMBDA x : x.operationalMargin) + SumOver(PastAfc, AllocatedMargin)
    BY <2>3, Zenon DEF AuditTrail, Earning, Unrecorded
  <2> QED BY <2>1, <2>2, <2>4, BooksSumsAs, Zenon
<1> QED BY <1>1, BooksHold, PTL

-----------------------------------------------------------------------------
(* The pool.  A call works on a copy of the row, and writes back a total    *)
(* that may be old: the bound has to hold of every copy, and an accrual's   *)
(* copy is ahead of the saved fees by its own.                              *)

FeesOf(S) == SumFunctionOnSet([a \in S |-> Fee[a]], S)

CopiesBacked ==
  /\ row.totalFees <= FeesOf(Accrued)
  /\ \A f \in Finalizers : entity[f].totalFees <= FeesOf(Accrued)
  /\ \A a \in Accruals :
       stage[a] \in {"load", "write"} => entity[a].totalFees <= FeesOf(Accrued) + Fee[a]

FeesInv == TypesInv /\ CopiesBacked

\* The fees of a set of accruals are a natural number.
LEMMA FeesNat ==
  ASSUME NEW S \in SUBSET Accruals
  PROVE  FeesOf(S) \in Nat /\ IsFiniteSet(S)
<1> DEFINE g == [a \in S |-> Fee[a]]
<1>1. IsFiniteSet(S)
  <2>1. S \in SUBSET Calls
    BY DEF Calls
  <2> QED BY <2>1, FiniteAssumption, FS_Subset
<1>2. \A a \in S : g[a] \in Nat
  BY FeeAssumption
<1> HIDE DEF g
<1>3. SumFunctionOnSet(g, S) \in Nat
  BY <1>1, <1>2, SumNat
<1> QED BY <1>1, <1>3 DEF FeesOf, g

\* One accrual more adds its fee.
LEMMA FeesAdd ==
  ASSUME NEW S \in SUBSET Accruals, NEW a \in Accruals, a \notin S
  PROVE  FeesOf(S \cup {a}) = FeesOf(S) + Fee[a]
<1> DEFINE g == [x \in S |-> Fee[x]]
           h == [x \in S \cup {a} |-> Fee[x]]
<1>1. IsFiniteSet(S)
  BY FeesNat
<1>2. IntOn(h, S \cup {a}) /\ h[a] = Fee[a] /\ \A x \in S : h[x] = g[x]
  BY FeeAssumption DEF IntOn
<1> HIDE DEF g, h
<1>3. SumFunctionOnSet(h, S \cup {a}) = SumFunctionOnSet(g, S) + h[a]
  BY <1>1, <1>2, SumGrow
<1> QED BY <1>2, <1>3, Zenon DEF FeesOf, g, h

\* The types that the lemmas below use.
LEMMA FeesTypes ==
  ASSUME FeesInv
  PROVE  /\ stage \in [Calls -> Stages] /\ entity \in [Calls -> EpochRow]
         /\ Accruals \subseteq Calls /\ Finalizers \subseteq Calls
         /\ \A c \in Calls : entity[c].totalFees \in Nat
         /\ row.totalFees \in Nat /\ FeesOf(Accrued) \in Nat
         /\ \A a \in Accruals : Fee[a] \in Nat
<1>1. Accrued \in SUBSET Accruals
  BY DEF Accrued
<1>2. stage \in [Calls -> Stages] /\ entity \in [Calls -> EpochRow] /\ row \in EpochRow
  BY DEF FeesInv, TypesInv, RowsTyped, WorkInv, ShapeOK
<1>3. \A e \in EpochRow : e.totalFees \in Nat
  BY DEF EpochRow
<1>4. FeesOf(Accrued) \in Nat
  BY <1>1, FeesNat
<1> QED BY <1>2, <1>3, <1>4, FeeAssumption DEF Calls

\* An accrual takes the row's total and adds its fee.
LEMMA OpenFees ==
  ASSUME FeesInv, NEW a \in Accruals, OpenEpoch(a)
  PROVE  CopiesBacked'
<1> USE FeesTypes
<1> DEFINE e == IF row = NoEpoch THEN NewEpoch ELSE row
<1>1. /\ stage' = [stage EXCEPT ![a] = "load"] /\ stage[a] = "new" /\ row' = row
      /\ entity' = [entity EXCEPT ![a] = [e EXCEPT !.totalFees = @ + Fee[a]]]
  BY DEF OpenEpoch, Starts, At, Goto
<1>2. e \in EpochRow /\ e.totalFees <= FeesOf(Accrued)
  <2>1. NewEpoch.totalFees = 0
    BY DEF NewEpoch, Epoch
  <2> QED BY <2>1, EpochTypes DEF FeesInv, CopiesBacked, TypesInv, RowsTyped
<1> HIDE DEF e
<1>3. entity'[a].totalFees <= FeesOf(Accrued) + Fee[a]
  <2>1. entity'[a].totalFees = e.totalFees + Fee[a] /\ e.totalFees \in Nat
    BY <1>1, <1>2 DEF EpochRow
  <2> QED BY <1>2, <2>1
<1>4. Accrued' = Accrued
  BY <1>1 DEF Accrued
<1>5. \A c \in Calls \ {a} : entity'[c] = entity[c] /\ stage'[c] = stage[c]
  BY <1>1
<1>6. FeesOf(Accrued)' = FeesOf(Accrued)
  BY <1>4, Zenon DEF FeesOf
<1>7. \A f \in Finalizers : f \in Calls \ {a}
  BY CallAssumption
<1> QED BY <1>1, <1>3, <1>5, <1>6, <1>7 DEF FeesInv, CopiesBacked

\* A call writes its copy.
LEMMA WriteFees ==
  ASSUME FeesInv, NEW c \in Calls, WriteRow(c)
  PROVE  CopiesBacked'
<1> USE FeesTypes
<1>1. entity' = entity /\ stage[c] = "write"
  BY DEF WriteRow, At
<1>2. CASE row' = row /\ stage' = stage
  <2>1. FeesOf(Accrued)' = FeesOf(Accrued)
    BY <1>2, Zenon DEF FeesOf, Accrued
  <2> QED BY <1>1, <1>2, <2>1 DEF FeesInv, CopiesBacked
<1>3. ASSUME row' \in {entity[c], Updated(seen[c], entity[c])},
             stage' = [stage EXCEPT ![c] = IF c \in Accruals THEN "push" ELSE "append"]
      PROVE  CopiesBacked'
  <2>1. row'.totalFees \in {row.totalFees, entity[c].totalFees}
    BY <1>3, UpdatedRow DEF FeesInv, TypesInv, RowsTyped
  <2>2. CASE c \in Accruals
    <3>1. Accrued' = Accrued \cup {c} /\ c \notin Accrued /\ Accrued \in SUBSET Accruals
      BY <1>1, <1>3, <2>2 DEF Accrued
    <3>2. FeesOf(Accrued)' = FeesOf(Accrued) + Fee[c]
      <4>1. FeesOf(Accrued \cup {c}) = FeesOf(Accrued) + Fee[c]
        BY <2>2, <3>1, FeesAdd
      <4>2. FeesOf(Accrued)' = FeesOf(Accrued \cup {c})
        BY <3>1, Zenon DEF FeesOf
      <4> QED BY <4>1, <4>2
    <3>3. entity[c].totalFees <= FeesOf(Accrued) + Fee[c]
      BY <1>1, <2>2 DEF FeesInv, CopiesBacked
    <3>4. \A a \in Accruals : stage'[a] \in {"load", "write"} => stage[a] \in {"load", "write"}
      BY <1>3, <2>2
    <3>5. row'.totalFees <= FeesOf(Accrued)'
      BY <2>1, <2>2, <3>2, <3>3 DEF FeesInv, CopiesBacked
    <3>6. \A f \in Finalizers : entity'[f].totalFees <= FeesOf(Accrued)'
      BY <1>1, <2>2, <3>2 DEF FeesInv, CopiesBacked
    <3>7. \A a \in Accruals : stage'[a] \in {"load", "write"} => entity'[a].totalFees <= FeesOf(Accrued)' + Fee[a]
      BY <1>1, <2>2, <3>2, <3>4 DEF FeesInv, CopiesBacked
    <3> QED BY <3>5, <3>6, <3>7 DEF CopiesBacked
  <2>3. CASE c \notin Accruals
    <3>1. Accrued' = Accrued /\ c \in Finalizers /\ \A a \in Accruals : stage'[a] = stage[a]
      BY <1>3, <2>3 DEF Accrued, Calls
    <3>2. FeesOf(Accrued)' = FeesOf(Accrued)
      BY <3>1, Zenon DEF FeesOf
    <3> QED BY <1>1, <2>1, <3>1, <3>2 DEF FeesInv, CopiesBacked
  <2> QED BY <2>2, <2>3
<1> QED BY <1>2, <1>3 DEF WriteRow, Goto

\* A step that saves no row and gives no call a larger total.
LEMMA QuietFees ==
  ASSUME FeesInv, row' = row, Accrued' = Accrued,
         \A a \in Accruals : stage'[a] \in {"load", "write"} => stage[a] \in {"load", "write"},
         \A a \in Accruals : entity'[a] = entity[a],
         \A f \in Finalizers : entity'[f].totalFees \in {entity[f].totalFees, row.totalFees}
  PROVE  CopiesBacked'
<1>1. FeesOf(Accrued)' = FeesOf(Accrued)
  BY Zenon DEF FeesOf
<1> QED BY <1>1 DEF FeesInv, CopiesBacked

\* The steps of a finalization, but for its save.
LEMMA FinalizerFees ==
  ASSUME FeesInv, NEW f \in Finalizers,
         \/ RequireEpoch(f) \/ Weigh(f) \/ Weighed(f) \/ Receive(f) \/ Earn(f) \/ AddAfc(f)
         \/ AppendFinalized(f) \/ Forget(f)
  PROVE  CopiesBacked'
<1> USE FeesTypes
<1>1. f \in Calls /\ f \notin Accruals /\ \A a \in Accruals : a \in Calls
  BY CallAssumption
<1>2. /\ row' = row
      /\ stage' = stage \/ \E l : stage' = [stage EXCEPT ![f] = l]
  BY DEF RequireEpoch, Weigh, Weighed, Receive, Earn, AddAfc, AppendFinalized, Forget, Goto, callVars
<1>3. \A a \in Accruals : stage'[a] = stage[a]
  BY <1>1, <1>2
<1>4. \/ entity' = entity \/ entity' = [entity EXCEPT ![f] = row]
      \/ entity' = [entity EXCEPT ![f] =
           Epoch(entity[f].totalFees, "finalized", AllocatedMargin(f), paid[f])]
  BY DEF RequireEpoch, Weigh, Weighed, Receive, Earn, AddAfc, AppendFinalized, Forget, callVars
<1>5. \A a \in Accruals : entity'[a] = entity[a]
  BY <1>1, <1>4
<1>6. \A g \in Finalizers : entity'[g].totalFees \in {entity[g].totalFees, row.totalFees}
  BY <1>1, <1>4 DEF Epoch
<1>7. Accrued' = Accrued
  BY <1>3 DEF Accrued
<1> QED BY <1>2, <1>3, <1>5, <1>6, <1>7, QuietFees

\* Loading, pushing and stopping.
LEMMA OtherFees ==
  ASSUME FeesInv,
         \/ \E c \in Calls : LoadRow(c)
         \/ \E a \in Accruals : Push(a)
         \/ (\E c \in Calls : Fail(c)) \/ Restart \/ UNCHANGED restVars
  PROVE  CopiesBacked'
<1> USE FeesTypes
<1>1. row' = row /\ entity' = entity
  BY DEF LoadRow, Push, Fail, Restart, restVars, callVars
<1>2. \/ stage' = stage
      \/ \E c \in Calls : stage[c] = "load" /\ stage' = [stage EXCEPT ![c] = "write"]
      \/ \E a \in Accruals : stage[a] = "push" /\ stage' = [stage EXCEPT ![a] = "done"]
  BY DEF LoadRow, Push, Fail, Restart, restVars, callVars, At, Goto
<1>3. \A a \in Accruals : stage'[a] \in {"load", "write"} => stage[a] \in {"load", "write"}
  BY <1>2
<1>4. Accrued' = Accrued
  BY <1>2 DEF Accrued
<1> QED BY <1>1, <1>3, <1>4, QuietFees

\* Initially there are no fees.
LEMMA FeesInit == Init => FeesInv
<1> SUFFICES ASSUME Init PROVE FeesInv
  OBVIOUS
<1>1. NoEpoch.totalFees = 0
  BY DEF NoEpoch, Epoch
<1>2. row = NoEpoch /\ \A c \in Calls : entity[c] = NoEpoch /\ stage[c] = "new"
  BY DEF Init
<1>3. FeesOf(Accrued) \in Nat
  BY FeesNat DEF Accrued
<1> QED BY <1>1, <1>2, <1>3, TypesInit DEF FeesInv, CopiesBacked, Calls

\* Every step keeps the copies backed by saved fees.
LEMMA FeesStep == FeesInv /\ [Next]_vars => FeesInv'
<1> SUFFICES ASSUME FeesInv, [Next]_vars PROVE FeesInv'
  OBVIOUS
<1>1. TypesInv'
  BY TypesStep DEF FeesInv
<1>2. \/ \E a \in Accruals : OpenEpoch(a)
      \/ \E c \in Calls : WriteRow(c)
      \/ \E f \in Finalizers :
           \/ RequireEpoch(f) \/ Weigh(f) \/ Weighed(f) \/ Receive(f) \/ Earn(f) \/ AddAfc(f)
           \/ AppendFinalized(f) \/ Forget(f)
      \/ \/ \E c \in Calls : LoadRow(c)
         \/ \E a \in Accruals : Push(a)
         \/ (\E c \in Calls : Fail(c)) \/ Restart \/ UNCHANGED restVars
  BY LedgerSteps DEF Next, Continue, Calls
<1>3. CopiesBacked'
  BY <1>2, OpenFees, WriteFees, FinalizerFees, OtherFees
<1> QED BY <1>1, <1>3 DEF FeesInv

\* Racing accruals and finalizations overwrite each other's totals (the row is
\* read, changed in memory and saved), yet the pool never exceeds the fees of the
\* accruals whose save() went through.
THEOREM PoolIsBacked == Spec => []NoFeeInvented
<1>1. FeesInv => NoFeeInvented
  BY Zenon DEF FeesInv, CopiesBacked, NoFeeInvented, FeesOf, SumOver
<1> QED BY <1>1, FeesInit, FeesStep, PTL DEF Spec

-----------------------------------------------------------------------------
(* Calls one at a time.  Without overlap and faults at most one call is     *)
(* under way, none stops, the row that a save() has selected is the row,    *)
(* and its status says how far the epoch is.                                *)

Busy(c) == stage[c] \notin {"new", "done"}

Alone == halted = {} /\ \A c, d \in Calls : Busy(c) /\ Busy(d) => c = d

StatusAt(c) ==
  /\ stage[c] = "write" => seen[c] = row
  /\ c \in Accruals /\ stage[c] \in {"load", "write"} =>
       entity[c].status = IF row = NoEpoch THEN "open" ELSE row.status
  /\ c \in Finalizers /\ stage[c] \in {"weigh", "pay", "earn", "load", "write"} => row.status = "open"
  /\ c \in Finalizers /\ stage[c] \in {"load", "write"} => entity[c].status = "finalized"
  /\ c \in Finalizers /\ stage[c] = "append" => row.status = "finalized" /\ finals = << >>

SettledSoFar ==
  /\ Len(finals) <= 1
  /\ row.status # "finalized" => finals = << >>
  /\ \A i \in DOMAIN finals : finals[i].totalFees = finals[i].paid + finals[i].operationalMargin

SerialInv == BooksInv /\ Alone /\ (\A c \in Calls : StatusAt(c)) /\ SettledSoFar

\* One call moves, and no other is under way.
LEMMA OneMoves ==
  ASSUME SerialInv, ~Overlap, NEW c \in Calls, Starts(c) \/ Busy(c), halted' = halted,
         stage' = stage \/ \E l : stage' = [stage EXCEPT ![c] = l], StatusAt(c)'
  PROVE  Alone' /\ \A d \in Calls : StatusAt(d)'
<1>0. stage \in [Calls -> Stages] /\ halted = {}
  BY DEF SerialInv, BooksInv, TypesInv, WorkInv, ShapeOK, Alone
<1>1. \A d \in Calls \ {c} : ~Busy(d)
  BY <1>0 DEF SerialInv, Alone, Starts, InFlight, Busy
<1>2. \A d \in Calls \ {c} : stage'[d] \in {"new", "done"}
  BY <1>0, <1>1 DEF Busy
<1>3. Alone'
  BY <1>0, <1>2 DEF Alone, Busy
<1>4. \A d \in Calls \ {c} : StatusAt(d)'
  BY <1>2 DEF StatusAt
<1> QED BY <1>3, <1>4

\* A save: of an accrual it keeps the status, of a finalization it closes the epoch.
LEMMA WriteSerial ==
  ASSUME SerialInv, NEW c \in Calls, WriteRow(c)
  PROVE  /\ halted' = halted /\ StatusAt(c)' /\ SettledSoFar'
         /\ \E l : stage' = [stage EXCEPT ![c] = l]
<1>0. /\ stage \in [Calls -> Stages] /\ stage[c] = "write" /\ seen[c] = row /\ StatusAt(c)
      /\ row \in EpochRow /\ seen[c] \in EpochRow /\ entity[c] \in EpochRow
      /\ UNCHANGED <<entity, seen, finals>>
  BY DEF SerialInv, BooksInv, TypesInv, RowsTyped, WorkInv, ShapeOK, WriteRow, At, StatusAt
<1>1. /\ halted' = halted
      /\ stage' = [stage EXCEPT ![c] = IF c \in Accruals THEN "push" ELSE "append"]
      /\ row' = IF row = NoEpoch THEN entity[c] ELSE Updated(seen[c], entity[c])
  BY <1>0 DEF WriteRow, Goto
<1>2. row'.status = entity[c].status
  BY <1>0, <1>1, UpdatedRow
<1>3. NoEpoch.status = "none"
  BY DEF NoEpoch, Epoch
<1>4. CASE c \in Accruals
  <2>1. row'.status = IF row = NoEpoch THEN "open" ELSE row.status
    BY <1>0, <1>2, <1>4 DEF StatusAt
  <2>2. SettledSoFar'
    BY <1>0, <1>3, <2>1 DEF SerialInv, SettledSoFar
  <2>3. StatusAt(c)'
    <3>1. stage'[c] = "push"
      BY <1>0, <1>1, <1>4
    <3> QED BY <3>1 DEF StatusAt
  <2> QED BY <1>1, <2>2, <2>3
<1>5. CASE c \notin Accruals
  <2>1. c \in Finalizers /\ row.status = "open" /\ row'.status = "finalized" /\ stage'[c] = "append"
    BY <1>0, <1>1, <1>2, <1>5 DEF StatusAt, Calls
  <2>2. finals = << >>
    BY <2>1 DEF SerialInv, SettledSoFar
  <2>3. SettledSoFar'
    BY <1>0, <2>1 DEF SerialInv, SettledSoFar
  <2>4. StatusAt(c)'
    BY <1>0, <1>5, <2>1, <2>2 DEF StatusAt
  <2> QED BY <1>1, <2>3, <2>4
<1> QED BY <1>4, <1>5

\* The record of a finalization is the only one, and its columns add up.
LEMMA AppendSerial ==
  ASSUME SerialInv, NEW f \in Finalizers, AppendFinalized(f)
  PROVE  /\ halted' = halted /\ StatusAt(f)' /\ SettledSoFar'
         /\ \E l : stage' = [stage EXCEPT ![f] = l]
<1> DEFINE x == [totalFees |-> entity[f].totalFees, paid |-> paid[f],
                 operationalMargin |-> AllocatedMargin(f)]
<1>0. /\ stage \in [Calls -> Stages] /\ f \in Calls /\ stage[f] = "append" /\ StatusAt(f)
      /\ halted' = halted /\ row' = row
      /\ stage' = [stage EXCEPT ![f] = "forget"] /\ finals' = Append(finals, x)
  BY DEF SerialInv, BooksInv, TypesInv, WorkInv, ShapeOK, AppendFinalized, At, Goto, Calls
<1>1. x.totalFees = x.paid + x.operationalMargin
  BY DEF SerialInv, BooksInv, TypesInv, RowsTyped, BooksTyped, EpochRow, AllocatedMargin, Calls
<1> HIDE DEF x
<1>2. row.status = "finalized" /\ finals = << >>
  BY <1>0 DEF StatusAt
<1>3. finals' = <<x>>
  BY <1>0, <1>2
<1>4. SettledSoFar'
  <2>1. Len(finals') = 1 /\ DOMAIN finals' = {1} /\ finals'[1] = x
    BY <1>3
  <2> QED BY <1>0, <1>1, <1>2, <2>1 DEF SettledSoFar
<1>5. StatusAt(f)'
  <2>1. stage'[f] = "forget"
    BY <1>0
  <2> QED BY <2>1 DEF StatusAt
<1> QED BY <1>0, <1>4, <1>5

\* The other steps of a call leave the row and the records alone.
LEMMA CallSerial ==
  ASSUME SerialInv, NEW c \in Calls,
         \/ c \in Accruals /\ (OpenEpoch(c) \/ Push(c))
         \/ LoadRow(c)
         \/ c \in Finalizers /\ ( \/ RequireEpoch(c) \/ Weigh(c) \/ Weighed(c) \/ Receive(c)
                                  \/ Earn(c) \/ AddAfc(c) \/ Forget(c) )
  PROVE  /\ halted' = halted /\ StatusAt(c)' /\ SettledSoFar'
         /\ stage' = stage \/ \E l : stage' = [stage EXCEPT ![c] = l]
         /\ Starts(c) \/ Busy(c)
<1>0. /\ stage \in [Calls -> Stages] /\ entity \in [Calls -> EpochRow] /\ seen \in [Calls -> EpochRow]
      /\ StatusAt(c) /\ row \in EpochRow /\ (c \in Accruals => c \notin Finalizers)
  BY CallAssumption DEF SerialInv, BooksInv, TypesInv, RowsTyped, WorkInv, ShapeOK
<1>1. /\ UNCHANGED <<halted, row, finals>>
      /\ stage' = stage \/ \E l : stage' = [stage EXCEPT ![c] = l]
      /\ Starts(c) \/ Busy(c)
  BY DEF OpenEpoch, Push, LoadRow, RequireEpoch, Weigh, Weighed, Receive, Earn, AddAfc, Forget, Goto,
         callVars, At, Busy
<1>2. SettledSoFar'
  BY <1>1 DEF SerialInv, SettledSoFar
<1>3. CASE c \in Accruals /\ OpenEpoch(c)
  <2> DEFINE e == IF row = NoEpoch THEN NewEpoch ELSE row
  <2>1. /\ stage'[c] = "load"
        /\ entity' = [entity EXCEPT ![c] = [e EXCEPT !.totalFees = @ + Fee[c]]]
    BY <1>0, <1>3 DEF OpenEpoch, Goto
  <2>2. e \in EpochRow /\ e.status = IF row = NoEpoch THEN "open" ELSE row.status
    <3>1. NewEpoch.status = "open"
      BY DEF NewEpoch, Epoch
    <3> QED BY <1>0, <3>1, EpochTypes
  <2> HIDE DEF e
  <2>3. entity'[c].status = e.status
    BY <1>0, <2>1, <2>2 DEF EpochRow
  <2>4. StatusAt(c)'
    BY <1>0, <1>1, <1>3, <2>1, <2>2, <2>3 DEF StatusAt
  <2> QED BY <1>1, <1>2, <2>4
<1>4. CASE LoadRow(c)
  <2>1. stage[c] = "load" /\ stage'[c] = "write" /\ seen'[c] = row /\ entity' = entity
    BY <1>0, <1>4 DEF LoadRow, At, Goto
  <2>2. StatusAt(c)'
    BY <1>0, <1>1, <2>1 DEF StatusAt
  <2> QED BY <1>1, <1>2, <2>2
<1>5. CASE c \in Finalizers /\ AddAfc(c)
  <2>1. /\ stage[c] = "pay" /\ stage'[c] = "load"
        /\ entity'[c] = Epoch(entity[c].totalFees, "finalized", AllocatedMargin(c), paid[c])
    BY <1>0, <1>5 DEF AddAfc, At, Goto
  <2>2. entity'[c].status = "finalized"
    BY <2>1 DEF Epoch
  <2>3. StatusAt(c)'
    BY <1>0, <1>1, <1>5, <2>1, <2>2 DEF StatusAt
  <2> QED BY <1>1, <1>2, <2>3
<1>6. CASE c \in Finalizers /\ (RequireEpoch(c) \/ Weigh(c) \/ Weighed(c) \/ Receive(c) \/ Earn(c))
  <2>1. stage'[c] = "done" \/ (stage'[c] \in {"weigh", "pay", "earn"} /\ row.status = "open")
    BY <1>0, <1>6 DEF RequireEpoch, Weigh, Weighed, Receive, Earn, At, Goto, callVars, StatusAt
  <2>2. StatusAt(c)'
    BY <1>0, <1>1, <1>6, <2>1 DEF StatusAt
  <2> QED BY <1>1, <1>2, <2>2
<1>7. CASE (c \in Accruals /\ Push(c)) \/ (c \in Finalizers /\ Forget(c))
  <2>1. stage'[c] = "done"
    BY <1>0, <1>7 DEF Push, Forget, Goto
  <2>2. StatusAt(c)'
    BY <2>1 DEF StatusAt
  <2> QED BY <1>1, <1>2, <2>2
<1> QED BY <1>3, <1>4, <1>5, <1>6, <1>7

\* Initially no call is under way, and there is no epoch.
LEMMA SerialInit == Init => SerialInv
<1> SUFFICES ASSUME Init PROVE SerialInv
  OBVIOUS
<1>1. finals = << >> /\ \A c \in Calls : stage[c] = "new"
  BY DEF Init
<1>2. Alone /\ \A c \in Calls : StatusAt(c)
  BY <1>1 DEF Init, Alone, Busy, StatusAt
<1>3. SettledSoFar
  BY <1>1 DEF SettledSoFar
<1> QED BY <1>2, <1>3, BooksInit DEF SerialInv

\* Every step keeps the calls apart and the status in step with the records.
LEMMA SerialStep ==
  ASSUME ~Overlap, MaxFaults = 0
  PROVE  SerialInv /\ [Next]_vars => SerialInv'
<1> SUFFICES ASSUME SerialInv, [Next]_vars PROVE SerialInv'
  OBVIOUS
<1>1. BooksInv'
  BY BooksStep DEF SerialInv
<1>2. CASE UNCHANGED restVars
  BY <1>1, <1>2 DEF SerialInv, Alone, Busy, StatusAt, SettledSoFar, restVars, callVars
<1>3. ~Restart /\ \A c \in Calls : ~Fail(c)
  <2>1. faults \in Nat
    BY DEF SerialInv, BooksInv, TypesInv, BooksTyped
  <2> QED BY <2>1 DEF Restart, Fail
<1>4. ASSUME NEW c \in Calls, WriteRow(c)
      PROVE  Alone' /\ (\A d \in Calls : StatusAt(d)') /\ SettledSoFar'
  <2>1. Busy(c)
    BY <1>4 DEF WriteRow, At, Busy
  <2> QED BY <1>4, <2>1, WriteSerial, OneMoves
<1>5. ASSUME NEW f \in Finalizers, AppendFinalized(f)
      PROVE  Alone' /\ (\A d \in Calls : StatusAt(d)') /\ SettledSoFar'
  <2>1. Busy(f) /\ f \in Calls
    BY <1>5 DEF AppendFinalized, At, Busy, Calls
  <2> QED BY <1>5, <2>1, AppendSerial, OneMoves
<1>6. ASSUME NEW c \in Calls,
             \/ c \in Accruals /\ (OpenEpoch(c) \/ Push(c))
             \/ LoadRow(c)
             \/ c \in Finalizers /\ ( \/ RequireEpoch(c) \/ Weigh(c) \/ Weighed(c) \/ Receive(c)
                                      \/ Earn(c) \/ AddAfc(c) \/ Forget(c) )
      PROVE  Alone' /\ (\A d \in Calls : StatusAt(d)') /\ SettledSoFar'
  BY <1>6, CallSerial, OneMoves
<1>7. CASE Next
  <2>1. \/ Alone' /\ (\A d \in Calls : StatusAt(d)') /\ SettledSoFar'
        \/ UNCHANGED restVars
    BY <1>3, <1>4, <1>5, <1>6, <1>7, LedgerSteps DEF Next, Continue, Calls
  <2> QED BY <1>1, <1>2, <2>1 DEF SerialInv
<1> QED BY <1>2, <1>7, LedgerSteps

FinalTotal == SumFunctionOnSet([i \in DOMAIN finals |-> finals[i].totalFees], DOMAIN finals)

\* When no call is under way, what was received and accrued is what was settled.
LEMMA SettledWhenIdle ==
  ASSUME SerialInv, InFlight = {}
  PROVE  Receipts + afc = FinalTotal
<1>0. TypesInv /\ ReceiptsExact /\ AuditExact /\ finals \in Seq(FinalRecord)
  BY DEF SerialInv, BooksInv, TypesInv, BooksTyped
<1>1. Earning = {} /\ Unrecorded = {} /\ PastAfc = {}
  <2>1. \A c \in Calls : stage[c] \in {"new", "done"}
    BY DEF SerialInv, Alone, InFlight
  <2> QED BY <2>1 DEF Earning, Unrecorded, PastAfc, Calls
<1>2. AmountBy(Earning) = 0 /\ PaidBy(Unrecorded) = 0 /\ MarginBy(PastAfc) = 0
  BY <1>1, SumEmpty DEF AmountBy, PaidBy, MarginBy
<1>3. Receipts = FinalPaid /\ afc = FinalMargin
  BY <1>0, <1>2, BooksSums DEF ReceiptsExact, AuditExact
<1>4. FinalTotal = FinalPaid + FinalMargin
  <2> DEFINE a == [i \in DOMAIN finals |-> finals[i].paid]
             b == [i \in DOMAIN finals |-> finals[i].operationalMargin]
             t == [i \in DOMAIN finals |-> finals[i].totalFees]
  <2>1. \A r \in FinalRecord : r.paid \in Int /\ r.operationalMargin \in Int
    BY DEF FinalRecord
  <2>2. \A i \in DOMAIN finals : finals[i] \in FinalRecord
    BY <1>0
  <2>3. IntOn(a, DOMAIN finals) /\ IntOn(b, DOMAIN finals)
    BY <2>1, <2>2 DEF IntOn
  <2>4. \A i \in DOMAIN finals : t[i] = a[i] + b[i]
    BY DEF SerialInv, SettledSoFar
  <2>5. IsFiniteSet(DOMAIN finals)
    <3>1. DOMAIN finals = 1..Len(finals) /\ Len(finals) \in Int
      BY <1>0
    <3> QED BY <3>1, FS_Interval
  <2> HIDE DEF a, b, t
  <2>6. SumFunctionOnSet(t, DOMAIN finals) = SumFunctionOnSet(a, DOMAIN finals) + SumFunctionOnSet(b, DOMAIN finals)
    BY <2>3, <2>4, <2>5, SumAdd
  <2> QED BY <2>6, Zenon DEF FinalTotal, FinalPaid, FinalMargin, a, b, t
<1> QED BY <1>3, <1>4

\* When the caller runs accrue() and finalizeEpoch() one at a time and no call
\* fails, an epoch is settled once, and between calls what the nodes received and
\* the AFC accrued is the recorded total, for any fees, nodes and participations.
THEOREM SerialEpochSettledOnce ==
  ASSUME ~Overlap, MaxFaults = 0
  PROVE  Spec => []SettledOnce
<1>1. SerialInv => SettledOnce
  <2> SUFFICES ASSUME SerialInv PROVE SettledOnce
    OBVIOUS
  <2>1. TotalReceived = Receipts /\ TotalFinal(LAMBDA x : x.totalFees) = FinalTotal
    BY Zenon DEF TotalReceived, SumOver, Receipts, TotalFinal, FinalTotal
  <2>2. Len(finals) <= 1
    BY DEF SerialInv, SettledSoFar
  <2> QED BY <2>1, <2>2, SettledWhenIdle DEF SettledOnce
<1> QED BY <1>1, SerialInit, SerialStep, PTL DEF Spec

-----------------------------------------------------------------------------
(* Who gets how much.  Without overlap and faults a finalization weighs the *)
(* first participation array, which is then complete: what it has weighed   *)
(* is a prefix of it, and what it has paid are the shares of the nodes that *)
(* are no longer on its list.  Afterwards neither array nor receipts change.*)

Settling == {"weigh", "pay", "earn", "load", "write", "append"}

\* The positions up to k of confirmed participations, and those of node n.
Positions(parts, k) == {i \in 1..k : parts[i][1] \in Confirmed}

PositionsOf(parts, k, n) == {i \in 1..k : parts[i][1] \in Confirmed /\ parts[i][2] = n}

\* What f has weighed is the array up to its position.
Counted(f) ==
  /\ pos[f] <= Len(heap[1]) + 1
  /\ \A n \in Nodes : weight[f][n] = Cardinality(PositionsOf(heap[1], pos[f] - 1, n))

\* The nodes that f has paid.
Got(f, n) ==
  /\ stage[f] # "weigh" /\ weight[f][n] > 0
  /\ n \notin unpaid[f] \/ (stage[f] = "earn" /\ n = Min(unpaid[f]))

Share(f, n) == PaymentToNode(weight[f], n, entity[f].totalFees)

ShareAt(f) ==
  /\ stage[f] = "new" => pos[f] = 1 /\ \A n \in Nodes : weight[f][n] = 0
  /\ stage[f] \in Settling =>
       /\ array[f] = 1 /\ current = 1 /\ Len(heap) = 1
       /\ Counted(f)
       /\ \A n \in Nodes : received[n] = IF Got(f, n) THEN Share(f, n) ELSE 0
  /\ stage[f] \in Settling \ {"weigh"} => pos[f] = Len(heap[1]) + 1
  /\ stage[f] \in {"load", "write", "append"} => unpaid[f] = {}
  /\ stage[f] = "forget" => row.status = "finalized"

\* An open epoch has one array, as soon as its first accrual is through; a settled
\* one has lost it from the map.
Arrays ==
  /\ row.status = "none" => row = NoEpoch /\ heap = << >> /\ current = 0
  /\ row.status = "open" =>
       \/ Len(heap) = 1 /\ current = 1
       \/ heap = << >> /\ current = 0 /\ \E a \in Accruals : stage[a] = "push"
  /\ \A a \in Accruals : stage[a] = "push" => row.status # "none"
  /\ finals # << >> /\ (\A f \in Finalizers : stage[f] # "forget") => current # 1

NonePaid ==
  row.status # "finalized" /\ (\A f \in Finalizers : stage[f] \notin Settling) =>
    \A n \in Nodes : received[n] = 0

\* The share of node n by its confirmed participations, rounded down.
ShareOf(parts, n, total) ==
  IF Count(parts, n) = 0 THEN 0
  ELSE (Count(parts, n) * Distributable(total)) \div SumFunctionOnSet([m \in Nodes |-> Count(parts, m)], Nodes)

\* Once an epoch is settled, each node has received its share, rounded down, of
\* 75% of the recorded pool, by the array that the epoch had then.
SharesPaid ==
  finals # << >> =>
    /\ heap # << >>
    /\ \A n \in Nodes : received[n] = ShareOf(heap[1], n, finals[1].totalFees)

SharesOK == (\A f \in Finalizers : ShareAt(f)) /\ Arrays /\ NonePaid /\ SharesPaid

ShareInv == SerialInv /\ SharesOK

\* The confirmed participations of an array.
WorkIn(parts) == Cardinality(Positions(parts, Len(parts)))

\* The positions are finite in number.
LEMMA PositionsFinite ==
  ASSUME NEW parts, NEW k \in Nat, NEW n
  PROVE  /\ IsFiniteSet(Positions(parts, k)) /\ Cardinality(Positions(parts, k)) \in Nat
         /\ IsFiniteSet(PositionsOf(parts, k, n)) /\ Cardinality(PositionsOf(parts, k, n)) \in Nat
<1>1. IsFiniteSet(1..k)
  BY FS_Interval
<1>2. Positions(parts, k) \in SUBSET (1..k) /\ PositionsOf(parts, k, n) \in SUBSET (1..k)
  BY DEF Positions, PositionsOf
<1>3. IsFiniteSet(Positions(parts, k)) /\ IsFiniteSet(PositionsOf(parts, k, n))
  BY <1>1, <1>2, FS_Subset
<1> QED BY <1>3, FS_CardinalityType

\* One more position adds one, if it is of confirmed work (and of the node).
LEMMA PositionsStep ==
  ASSUME NEW parts, NEW k \in Nat, NEW n
  PROVE  /\ Cardinality(Positions(parts, k + 1)) =
              Cardinality(Positions(parts, k)) + IF parts[k + 1][1] \in Confirmed THEN 1 ELSE 0
         /\ Cardinality(PositionsOf(parts, k + 1, n)) =
              Cardinality(PositionsOf(parts, k, n))
                + IF parts[k + 1][1] \in Confirmed /\ parts[k + 1][2] = n THEN 1 ELSE 0
<1>1. 1..(k + 1) = (1..k) \cup {k + 1} /\ k + 1 \notin 1..k
  OBVIOUS
<1>2. Positions(parts, k + 1) =
        IF parts[k + 1][1] \in Confirmed THEN Positions(parts, k) \cup {k + 1} ELSE Positions(parts, k)
  BY <1>1, Zenon DEF Positions
<1>3. PositionsOf(parts, k + 1, n) =
        IF parts[k + 1][1] \in Confirmed /\ parts[k + 1][2] = n
        THEN PositionsOf(parts, k, n) \cup {k + 1} ELSE PositionsOf(parts, k, n)
  BY <1>1, Zenon DEF PositionsOf
<1>4. k + 1 \notin Positions(parts, k) /\ k + 1 \notin PositionsOf(parts, k, n)
  BY <1>1 DEF Positions, PositionsOf
<1>5. /\ Cardinality(Positions(parts, k) \cup {k + 1}) = Cardinality(Positions(parts, k)) + 1
      /\ Cardinality(PositionsOf(parts, k, n) \cup {k + 1}) = Cardinality(PositionsOf(parts, k, n)) + 1
  BY <1>4, PositionsFinite, FS_AddElement
<1>6. Cardinality(Positions(parts, k)) \in Nat /\ Cardinality(PositionsOf(parts, k, n)) \in Nat
  BY PositionsFinite
<1>7. CASE parts[k + 1][1] \in Confirmed
  <2>1. Positions(parts, k + 1) = Positions(parts, k) \cup {k + 1}
    BY <1>2, <1>7
  <2>2. CASE parts[k + 1][2] = n
    <3>1. PositionsOf(parts, k + 1, n) = PositionsOf(parts, k, n) \cup {k + 1}
      BY <1>3, <1>7, <2>2
    <3> QED BY <1>5, <1>7, <2>1, <2>2, <3>1
  <2>3. CASE parts[k + 1][2] # n
    <3>1. PositionsOf(parts, k + 1, n) = PositionsOf(parts, k, n)
      BY <1>3, <2>3
    <3>2. Cardinality(PositionsOf(parts, k + 1, n)) = Cardinality(PositionsOf(parts, k, n)) + 0
      BY <1>6, <3>1
    <3> QED BY <1>5, <1>7, <2>1, <2>3, <3>2
  <2> QED BY <2>2, <2>3
<1>8. CASE parts[k + 1][1] \notin Confirmed
  BY <1>2, <1>3, <1>6, <1>8
<1> QED BY <1>7, <1>8

\* No positions, no work.
LEMMA NoPositions ==
  ASSUME NEW parts, NEW n
  PROVE  Cardinality(Positions(parts, 0)) = 0 /\ Cardinality(PositionsOf(parts, 0, n)) = 0
<1>1. Positions(parts, 0) = {} /\ PositionsOf(parts, 0, n) = {}
  BY DEF Positions, PositionsOf
<1> QED BY <1>1, FS_EmptySet

CountTo(parts, k) == [n \in Nodes |-> Cardinality(PositionsOf(parts, k, n))]

\* Each confirmed participation is of one node: the counts of the nodes add up.
LEMMA CountsAddUp ==
  ASSUME NEW parts \in Seq(Part), NEW m \in 0..Len(parts)
  PROVE  SumFunctionOnSet(CountTo(parts, m), Nodes) = Cardinality(Positions(parts, m))
<1> DEFINE H == {k \in Nat : k <= Len(parts) =>
                   SumFunctionOnSet(CountTo(parts, k), Nodes) = Cardinality(Positions(parts, k))}
<1>0. IsFiniteSet(Nodes)
  BY FiniteAssumption
<1>1. \A k \in Nat : IntOn(CountTo(parts, k), Nodes)
  <2>1. ASSUME NEW k \in Nat, NEW n \in Nodes PROVE CountTo(parts, k)[n] \in Int
    <3>1. Cardinality(PositionsOf(parts, k, n)) \in Nat
      BY PositionsFinite
    <3> QED BY <3>1 DEF CountTo
  <2> QED BY <2>1 DEF IntOn
<1>2. ASSUME NEW k \in Nat, \A j \in Nat : j < k => j \in H PROVE k \in H
  <2>1. CASE k = 0
    <3>1. \A n \in Nodes : CountTo(parts, k)[n] = 0
      BY <2>1, NoPositions DEF CountTo
    <3>2. SumFunctionOnSet(CountTo(parts, k), Nodes) = 0
      BY <3>1, <1>0, SumZero
    <3> QED BY <2>1, <3>2, NoPositions
  <2>2. CASE k # 0 /\ k <= Len(parts)
    <3> DEFINE j == k - 1
               c == CountTo(parts, j)
               d == CountTo(parts, k)
    <3>1. j \in Nat /\ j + 1 = k /\ k \in DOMAIN parts
      BY <2>2
    <3>2. SumFunctionOnSet(c, Nodes) = Cardinality(Positions(parts, j)) /\ Cardinality(Positions(parts, j)) \in Nat
      <4>1. j \in H /\ j <= Len(parts)
        BY <1>2, <2>2, <3>1
      <4> QED BY <4>1, <3>1, PositionsFinite
    <3>3. parts[k] \in Part /\ parts[k][2] \in Nodes
      BY <3>1 DEF Part
    <3>4. \A n \in Nodes : d[n] = c[n] + IF parts[k][1] \in Confirmed /\ parts[k][2] = n THEN 1 ELSE 0
      BY <3>1, PositionsStep DEF CountTo
    <3>5. Cardinality(Positions(parts, k)) =
            Cardinality(Positions(parts, j)) + IF parts[k][1] \in Confirmed THEN 1 ELSE 0
      BY <3>1, PositionsStep
    <3>6. IntOn(c, Nodes) /\ IntOn(d, Nodes)
      BY <1>1, <3>1
    <3> HIDE DEF c, d, j
    <3>7. SumFunctionOnSet(d, Nodes) =
            SumFunctionOnSet(c, Nodes) + IF parts[k][1] \in Confirmed THEN 1 ELSE 0
      <4>1. \A n \in Nodes \ {parts[k][2]} : d[n] = c[n]
        BY <3>4, <3>6 DEF IntOn
      <4>2. SumFunctionOnSet(d, Nodes) =
              SumFunctionOnSet(c, Nodes) - c[parts[k][2]] + d[parts[k][2]]
        BY <1>0, <3>3, <3>6, <4>1, SumChange
      <4>3. c[parts[k][2]] \in Int
        BY <3>3, <3>6 DEF IntOn
      <4>4. d[parts[k][2]] = c[parts[k][2]] + IF parts[k][1] \in Confirmed THEN 1 ELSE 0
        BY <3>3, <3>4
      <4>5. SumFunctionOnSet(c, Nodes) \in Int
        BY <3>2
      <4>6. CASE parts[k][1] \in Confirmed
        BY <4>2, <4>3, <4>4, <4>5, <4>6
      <4>7. CASE parts[k][1] \notin Confirmed
        BY <4>2, <4>3, <4>4, <4>5, <4>7
      <4> QED BY <4>6, <4>7
    <3> QED BY <3>2, <3>5, <3>7 DEF d
  <2> QED BY <2>1, <2>2
<1> HIDE DEF H
<1>3. H = Nat
  <2>1. H \in SUBSET Nat
    BY DEF H
  <2> QED BY <1>2, <2>1, AllNaturals
<1> QED BY <1>3 DEF H

\* Count, and the work of an array, in terms of positions.
LEMMA CountsAs ==
  ASSUME NEW parts \in Seq(Part)
  PROVE  /\ \A n : Count(parts, n) = Cardinality(PositionsOf(parts, Len(parts), n))
         /\ [n \in Nodes |-> Count(parts, n)] = CountTo(parts, Len(parts))
         /\ SumFunctionOnSet([n \in Nodes |-> Count(parts, n)], Nodes) = WorkIn(parts)
         /\ WorkIn(parts) \in Nat
<1>1. DOMAIN parts = 1..Len(parts) /\ Len(parts) \in Nat /\ Len(parts) \in 0..Len(parts)
  OBVIOUS
<1>2. \A n : Count(parts, n) = Cardinality(PositionsOf(parts, Len(parts), n))
  BY <1>1 DEF Count, PositionsOf
<1>3. [n \in Nodes |-> Count(parts, n)] = CountTo(parts, Len(parts))
  BY <1>2 DEF CountTo
<1>4. SumFunctionOnSet([n \in Nodes |-> Count(parts, n)], Nodes) = WorkIn(parts)
  <2>1. SumFunctionOnSet(CountTo(parts, Len(parts)), Nodes) = Cardinality(Positions(parts, Len(parts)))
    BY <1>1, CountsAddUp
  <2> QED BY <1>3, <2>1, Zenon DEF WorkIn
<1>5. WorkIn(parts) \in Nat
  BY <1>1, PositionsFinite DEF WorkIn
<1> QED BY <1>2, <1>3, <1>4, <1>5

\* Joined arrays hold no more work than the two.
LEMMA WorkJoins ==
  ASSUME NEW s \in Seq(Part), NEW t \in Seq(Part)
  PROVE  WorkIn(s \o t) <= WorkIn(s) + WorkIn(t)
<1> DEFINE S == Positions(s, Len(s))
           T == Positions(t, Len(t))
           J == Positions(s \o t, Len(s \o t))
           M == J \ S
           g == [i \in M |-> i - Len(s)]
<1>1. Len(s) \in Nat /\ Len(t) \in Nat /\ Len(s \o t) = Len(s) + Len(t)
  OBVIOUS
<1>2. IsFiniteSet(S) /\ IsFiniteSet(T) /\ IsFiniteSet(J)
  <2>1. ASSUME NEW parts, NEW k \in Nat PROVE IsFiniteSet(Positions(parts, k))
    BY PositionsFinite
  <2>2. Len(s \o t) \in Nat
    BY <1>1
  <2> QED BY <1>1, <2>1, <2>2
<1>3. \A i \in M : i \in Nat /\ i - Len(s) \in T
  <2> SUFFICES ASSUME NEW i \in M PROVE i \in Nat /\ i - Len(s) \in T
    OBVIOUS
  <2>1. i \in 1..(Len(s) + Len(t)) /\ (s \o t)[i][1] \in Confirmed /\ i \notin S
    BY <1>1 DEF Positions
  <2>2. CASE i <= Len(s)
    <3>1. (s \o t)[i] = s[i] /\ i \in 1..Len(s)
      BY <2>1, <2>2, <1>1
    <3> QED BY <2>1, <3>1 DEF Positions
  <2>3. CASE i > Len(s)
    <3>1. (s \o t)[i] = t[i - Len(s)] /\ i - Len(s) \in 1..Len(t)
      BY <2>1, <2>3, <1>1
    <3> QED BY <2>1, <3>1 DEF Positions
  <2> QED BY <2>1, <2>2, <2>3, <1>1
<1>4. g \in Injection(M, T)
  BY <1>1, <1>3 DEF Injection, IsInjective
<1> HIDE DEF S, T, J, g
<1>5. IsFiniteSet(M) /\ Cardinality(M) <= Cardinality(T)
  BY <1>2, <1>4, FS_Injection
<1>6. Cardinality(J) <= Cardinality(S) + Cardinality(M)
  <2>1. J \in SUBSET (S \cup M)
    OBVIOUS
  <2>2. IsFiniteSet(S \cup M) /\ Cardinality(S \cup M) = Cardinality(S) + Cardinality(M) - Cardinality(S \cap M)
    BY <1>2, <1>5, FS_Union
  <2>3. Cardinality(J) <= Cardinality(S \cup M)
    BY <2>1, <2>2, FS_Subset
  <2>4. IsFiniteSet(S \cap M)
    BY <1>2, FS_Intersection
  <2> QED BY <1>2, <1>5, <2>2, <2>3, <2>4, FS_CardinalityType
<1>7. Cardinality(S) \in Nat /\ Cardinality(T) \in Nat /\ Cardinality(M) \in Nat /\ Cardinality(J) \in Nat
  BY <1>2, <1>5, FS_CardinalityType
<1>8. Cardinality(J) <= Cardinality(S) + Cardinality(T)
  BY <1>5, <1>6, <1>7
<1> QED BY <1>8 DEF WorkIn, S, T, J

-----------------------------------------------------------------------------
\* The types, as the steps below use them.
LEMMA ShareTypes ==
  ASSUME ShareInv
  PROVE  /\ stage \in [Calls -> Stages] /\ weight \in [Finalizers -> [Nodes -> Nat]]
         /\ unpaid \in [Finalizers -> SUBSET Nodes] /\ pos \in [Finalizers -> Nat \ {0}]
         /\ array \in [Finalizers -> 0..Len(heap)] /\ heap \in Seq(Seq(Part))
         /\ current \in 0..Len(heap) /\ row \in EpochRow /\ entity \in [Calls -> EpochRow]
         /\ received \in [Nodes -> Nat] /\ finals \in Seq(FinalRecord)
         /\ halted = {} /\ Finalizers \subseteq Calls /\ Accruals \subseteq Calls
         /\ \A f \in Finalizers : f \notin Accruals
BY CallAssumption DEF ShareInv, SerialInv, BooksInv, TypesInv, WorkInv, ShapeOK, RowsTyped, BooksTyped,
   Alone, Calls

\* While one call moves, the others stay where they are, at rest.
LEMMA OthersRest ==
  ASSUME ShareInv, ~Overlap, NEW c \in Calls, Starts(c) \/ Busy(c),
         stage' = stage \/ \E l : stage' = [stage EXCEPT ![c] = l]
  PROVE  \A d \in Calls \ {c} : stage[d] \in {"new", "done"} /\ stage'[d] = stage[d]
<1>1. stage \in [Calls -> Stages] /\ halted = {}
  BY ShareTypes
<1>2. \A d \in Calls \ {c} : ~Busy(d)
  BY <1>1 DEF ShareInv, SerialInv, Alone, Starts, InFlight, Busy
<1> QED BY <1>1, <1>2 DEF Busy

\* A finalization at rest, whose counters nobody touches, stays sound.
LEMMA RestShare ==
  ASSUME NEW f \in Finalizers, ShareAt(f), stage[f] \in {"new", "done"}, stage'[f] = stage[f],
         pos'[f] = pos[f], weight'[f] = weight[f]
  PROVE  ShareAt(f)'
BY DEF ShareAt, Settling

\* A step of an accrual leaves the finalizations at rest.
LEMMA AccrualShares ==
  ASSUME ShareInv, ~Overlap, NEW a \in Accruals, Starts(a) \/ Busy(a),
         \E l : stage' = [stage EXCEPT ![a] = l], UNCHANGED <<pos, weight, received, finals>>
  PROVE  /\ \A f \in Finalizers : ShareAt(f)'
         /\ \A f \in Finalizers : stage[f] \in {"new", "done"} /\ stage'[f] = stage[f]
         /\ \A b \in Accruals \ {a} : stage[b] # "push" /\ stage'[b] # "push"
<1>1. a \in Calls /\ \A f \in Finalizers : f \in Calls \ {a}
  BY ShareTypes
<1>2. \A d \in Calls \ {a} : stage[d] \in {"new", "done"} /\ stage'[d] = stage[d]
  BY <1>1, OthersRest
<1>3. ASSUME NEW f \in Finalizers PROVE ShareAt(f)'
  BY <1>1, <1>2, RestShare DEF ShareInv, SharesOK
<1> QED BY <1>1, <1>2, <1>3, ShareTypes

\* Opening the epoch and selecting its row change no store.
LEMMA ReadingShares ==
  ASSUME ShareInv, ~Overlap, NEW a \in Accruals, OpenEpoch(a) \/ LoadRow(a)
  PROVE  SharesOK'
<1>0. stage \in [Calls -> Stages] /\ a \in Calls
  BY ShareTypes
<1>1. /\ \E l \in {"load", "write"} : stage' = [stage EXCEPT ![a] = l]
      /\ UNCHANGED <<pos, weight, received, finals, heap, current, row>>
      /\ Starts(a) \/ Busy(a)
      /\ stage[a] \in {"new", "load"}
  BY DEF OpenEpoch, LoadRow, Goto, finalizerVars, memVars, payVars, ledgerVars, At, Starts, Busy
<1>2. stage'[a] # "push" /\ stage[a] # "push"
  BY <1>0, <1>1
<1>3. /\ \A f \in Finalizers : ShareAt(f)'
      /\ \A f \in Finalizers : stage'[f] = stage[f]
      /\ \A b \in Accruals : stage[b] # "push" /\ stage'[b] # "push"
  BY <1>1, <1>2, AccrualShares
<1>4. Arrays'
  BY <1>1, <1>3 DEF ShareInv, SharesOK, Arrays
<1>5. NonePaid' /\ SharesPaid'
  BY <1>1, <1>3 DEF ShareInv, SharesOK, NonePaid, SharesPaid
<1> QED BY <1>3, <1>4, <1>5 DEF SharesOK

\* The save of an accrual opens the epoch if there was none, and keeps its status.
LEMMA AccrualSaves ==
  ASSUME ShareInv, ~Overlap, NEW a \in Accruals, WriteRow(a)
  PROVE  SharesOK'
<1>0. /\ stage \in [Calls -> Stages] /\ a \in Calls /\ row \in EpochRow /\ entity[a] \in EpochRow
      /\ stage[a] = "write" /\ seen[a] = row
      /\ entity[a].status = IF row = NoEpoch THEN "open" ELSE row.status
  <2>1. stage[a] = "write"
    BY DEF WriteRow, At
  <2> QED BY <2>1, ShareTypes DEF ShareInv, SerialInv, StatusAt
<1>1. /\ stage' = [stage EXCEPT ![a] = "push"] /\ Busy(a)
      /\ UNCHANGED <<pos, weight, received, finals, heap, current>>
      /\ row' = IF row = NoEpoch THEN entity[a] ELSE Updated(seen[a], entity[a])
  BY <1>0 DEF WriteRow, Goto, finalizerVars, memVars, payVars, ledgerVars, Busy
<1>2. row'.status = IF row = NoEpoch THEN "open" ELSE row.status
  BY <1>0, <1>1, UpdatedRow
<1>3. /\ \A f \in Finalizers : ShareAt(f)'
      /\ \A f \in Finalizers : stage'[f] = stage[f]
      /\ \A b \in Accruals \ {a} : stage[b] # "push" /\ stage'[b] # "push"
      /\ stage'[a] = "push" /\ stage[a] # "push"
  BY <1>0, <1>1, AccrualShares
<1>4. Arrays'
  <2>0. row.status = "none" => row = NoEpoch
    BY DEF ShareInv, SharesOK, Arrays
  <2>1. row'.status # "none"
    BY <1>2, <2>0
  <2>2. row'.status = "open" =>
          \/ Len(heap) = 1 /\ current = 1
          \/ heap = << >> /\ current = 0
    <3>1. NoEpoch.status = "none"
      BY DEF NoEpoch, Epoch
    <3> QED BY <1>2, <3>1 DEF ShareInv, SharesOK, Arrays
  <2>3. finals # << >> /\ (\A f \in Finalizers : stage[f] # "forget") => current # 1
    BY DEF ShareInv, SharesOK, Arrays
  <2> QED BY <1>1, <1>3, <2>1, <2>2, <2>3 DEF Arrays
<1>5. NonePaid'
  <2>1. row'.status # "finalized" => row.status # "finalized"
    <3>1. NoEpoch.status = "none"
      BY DEF NoEpoch, Epoch
    <3> QED BY <1>2, <3>1
  <2> QED BY <1>1, <1>3, <2>1 DEF ShareInv, SharesOK, NonePaid
<1>6. SharesPaid'
  BY <1>1 DEF ShareInv, SharesOK, SharesPaid
<1> QED BY <1>3, <1>4, <1>5, <1>6 DEF SharesOK

\* An accrual pushes to the epoch's array, or, once that is settled, to another.
LEMMA PushShares ==
  ASSUME ShareInv, ~Overlap, NEW a \in Accruals, Push(a)
  PROVE  SharesOK'
<1>0. /\ stage \in [Calls -> Stages] /\ a \in Calls /\ heap \in Seq(Seq(Part))
      /\ current \in 0..Len(heap) /\ stage[a] = "push" /\ Parts[a] \in Seq(Part)
  BY ShareTypes, PartsAssumption DEF Push, At, Part
<1>1. /\ stage' = [stage EXCEPT ![a] = "done"] /\ Busy(a)
      /\ UNCHANGED <<pos, weight, received, finals, row>>
  BY <1>0 DEF Push, Goto, finalizerVars, payVars, ledgerVars, Busy
<1>2. /\ \A f \in Finalizers : ShareAt(f)'
      /\ \A f \in Finalizers : stage[f] # "forget" /\ stage'[f] = stage[f]
      /\ \A b \in Accruals : stage'[b] # "push"
  <2>1. stage'[a] = "done"
    BY <1>0, <1>1
  <2> QED BY <1>1, <2>1, AccrualShares
<1>3. /\ heap # << >> /\ current # 1 => heap' # << >> /\ heap'[1] = heap[1] /\ current' # 1
      /\ Len(heap) = 1 /\ current = 1 => Len(heap') = 1 /\ current' = 1
      /\ heap = << >> => Len(heap') = 1 /\ current' = 1
  <2>1. CASE current = 0
    <3>1. heap' = Append(heap, Parts[a]) /\ current' = Len(heap) + 1
      BY <2>1 DEF Push
    <3>2. Len(heap') = Len(heap) + 1 /\ \A h \in 1..Len(heap) : heap'[h] = heap[h]
      BY <1>0, <3>1
    <3>3. heap # << >> => 1 \in 1..Len(heap) /\ Len(heap) # 0
      BY <1>0
    <3>4. heap' # << >>
      BY <1>0, <3>1
    <3> QED BY <1>0, <2>1, <3>1, <3>2, <3>3, <3>4
  <2>2. CASE current # 0
    <3>1. heap' = [heap EXCEPT ![current] = @ \o Parts[a]] /\ current' = current
      BY <2>2 DEF Push
    <3>2. current \in 1..Len(heap) /\ heap # << >>
      BY <1>0, <2>2
    <3>3. heap[current] \o Parts[a] \in Seq(Part)
      BY <1>0, <3>2
    <3>4. heap' \in Seq(Seq(Part)) /\ Len(heap') = Len(heap) /\ (current # 1 => heap'[1] = heap[1])
      BY <1>0, <3>1, <3>2, <3>3
    <3> QED BY <1>0, <3>1, <3>2, <3>4
  <2> QED BY <2>1, <2>2
<1>4. row.status # "none"
  BY <1>0 DEF ShareInv, SharesOK, Arrays
<1>5. finals # << >> => current # 1 /\ heap # << >>
  BY <1>2 DEF ShareInv, SharesOK, Arrays, SharesPaid
<1>6. Arrays'
  <2>1. row.status = "open" => Len(heap') = 1 /\ current' = 1
    BY <1>3 DEF ShareInv, SharesOK, Arrays
  <2>2. finals # << >> => current' # 1
    BY <1>3, <1>5
  <2> QED BY <1>1, <1>2, <1>4, <2>1, <2>2 DEF Arrays
<1>7. NonePaid'
  BY <1>1, <1>2 DEF ShareInv, SharesOK, NonePaid
<1>8. SharesPaid'
  BY <1>1, <1>3, <1>5 DEF ShareInv, SharesOK, SharesPaid
<1> QED BY <1>2, <1>6, <1>7, <1>8 DEF SharesOK

\* A step of a finalization between its start and its save: only its own part of
\* the invariant is at stake.
LEMMA SettlingStep ==
  ASSUME ShareInv, ~Overlap, NEW f \in Finalizers, Starts(f) \/ Busy(f),
         row.status = "open", Len(heap) = 1, current = 1,
         NEW l \in Settling, stage' = [stage EXCEPT ![f] = l],
         UNCHANGED <<row, finals, heap, current>>,
         \A g \in Finalizers \ {f} : pos'[g] = pos[g] /\ weight'[g] = weight[g],
         ShareAt(f)'
  PROVE  SharesOK'
<1>0. stage \in [Calls -> Stages] /\ f \in Calls /\ stage'[f] = l
  BY ShareTypes
<1>1. \A d \in Calls \ {f} : stage[d] \in {"new", "done"} /\ stage'[d] = stage[d]
  BY <1>0, OthersRest
<1>2. \A g \in Finalizers : ShareAt(g)'
  <2>1. ASSUME NEW g \in Finalizers \ {f} PROVE ShareAt(g)'
    <3>1. g \in Calls \ {f}
      BY ShareTypes
    <3> QED BY <1>1, <3>1, RestShare DEF ShareInv, SharesOK
  <2> QED BY <2>1
<1>3. finals = << >>
  BY DEF ShareInv, SerialInv, SettledSoFar
<1>4. \A a \in Accruals : stage'[a] # "push"
  <2>1. \A a \in Accruals : a \in Calls \ {f}
    BY ShareTypes
  <2> QED BY <1>1, <2>1
<1>5. Arrays'
  BY <1>3, <1>4 DEF Arrays
<1>6. NonePaid'
  BY <1>0 DEF NonePaid
<1>7. SharesPaid'
  BY <1>3 DEF SharesPaid
<1> QED BY <1>2, <1>5, <1>6, <1>7 DEF SharesOK

\* What holds of a finalization that is under way and has not saved the row.
LEMMA SettlingFacts ==
  ASSUME ShareInv, NEW f \in Finalizers, stage[f] \in Settling
  PROVE  /\ array[f] = 1 /\ current = 1 /\ Len(heap) = 1 /\ Counted(f) /\ Busy(f)
         /\ Participation(f) = heap[1] /\ heap[1] \in Seq(Part)
         /\ \A n \in Nodes : received[n] = IF Got(f, n) THEN Share(f, n) ELSE 0
         /\ stage[f] # "append" => row.status = "open"
<1>1. /\ array[f] = 1 /\ current = 1 /\ Len(heap) = 1 /\ Counted(f)
      /\ \A n \in Nodes : received[n] = IF Got(f, n) THEN Share(f, n) ELSE 0
  BY DEF ShareInv, SharesOK, ShareAt
<1>2. Busy(f)
  BY DEF Busy, Settling
<1>3. Participation(f) = heap[1]
  BY <1>1 DEF Participation
<1>4. heap[1] \in Seq(Part)
  <2>1. heap \in Seq(Seq(Part))
    BY ShareTypes
  <2> QED BY <1>1, <2>1
<1>5. stage[f] # "append" => row.status = "open"
  <2>1. f \in Calls
    BY ShareTypes
  <2> QED BY <2>1 DEF ShareInv, SerialInv, StatusAt, Settling
<1> QED BY <1>1, <1>2, <1>3, <1>4, <1>5

\* A finalization of an open epoch starts on its complete array, before any payment.
LEMMA RequireShares ==
  ASSUME ShareInv, ~Overlap, NEW f \in Finalizers, RequireEpoch(f)
  PROVE  SharesOK'
<1>0. stage \in [Calls -> Stages] /\ f \in Calls /\ stage[f] = "new" /\ Starts(f)
  BY ShareTypes DEF RequireEpoch, Starts, At
<1>1. UNCHANGED <<row, finals, heap, current, pos, weight, received>>
  BY DEF RequireEpoch, memVars, payVars, ledgerVars
<1>2. \E l : stage' = [stage EXCEPT ![f] = l]
  BY DEF RequireEpoch, Goto
<1>3. \A d \in Calls \ {f} : stage[d] \in {"new", "done"} /\ stage'[d] = stage[d]
  BY <1>0, <1>2, OthersRest
<1>4. CASE row.status # "open"
  <2>1. stage'[f] = "done"
    BY <1>0, <1>4 DEF RequireEpoch, Goto
  <2>2. ASSUME NEW g \in Finalizers PROVE ShareAt(g)'
    <3>1. CASE g = f
      BY <2>1, <3>1 DEF ShareAt, Settling
    <3>2. CASE g # f
      <4>1. g \in Calls \ {f}
        BY <3>2, ShareTypes
      <4> QED BY <1>1, <1>3, <4>1, RestShare DEF ShareInv, SharesOK
    <3> QED BY <3>1, <3>2
  <2>3. \A g \in Finalizers : stage[g] \in {"new", "done"} /\ stage'[g] \in {"new", "done"}
    BY <1>0, <1>3, <2>1, ShareTypes
  <2>4. \A a \in Accruals : stage'[a] = stage[a]
    BY <1>3, ShareTypes
  <2>5. Arrays'
    BY <1>1, <1>4, <2>3, <2>4 DEF ShareInv, SharesOK, Arrays
  <2>6. NonePaid'
    BY <1>1, <2>3 DEF ShareInv, SharesOK, NonePaid, Settling
  <2>7. SharesPaid'
    BY <1>1 DEF ShareInv, SharesOK, SharesPaid
  <2> QED BY <2>2, <2>5, <2>6, <2>7 DEF SharesOK
<1>5. CASE row.status = "open"
  <2>1. stage' = [stage EXCEPT ![f] = "weigh"] /\ array' = [array EXCEPT ![f] = current]
    BY <1>5 DEF RequireEpoch, Goto
  <2>2. Len(heap) = 1 /\ current = 1
    <3>1. \A a \in Accruals : stage[a] # "push"
      <4>1. \A a \in Accruals : a \in Calls \ {f}
        BY ShareTypes
      <4> QED BY <1>3, <4>1
    <3> QED BY <1>5, <3>1 DEF ShareInv, SharesOK, Arrays
  <2>3. \A n \in Nodes : received[n] = 0
    <3>1. \A g \in Finalizers : stage[g] \notin Settling
      BY <1>0, <1>3, ShareTypes DEF Settling
    <3> QED BY <1>5, <3>1 DEF ShareInv, SharesOK, NonePaid
  <2>4. pos[f] = 1 /\ \A n \in Nodes : weight[f][n] = 0
    BY <1>0 DEF ShareInv, SharesOK, ShareAt
  <2>5. Counted(f)'
    <3>1. Len(heap[1]) \in Nat
      <4>1. heap \in Seq(Seq(Part))
        BY ShareTypes
      <4> QED BY <2>2, <4>1
    <3>2. \A n : Cardinality(PositionsOf(heap[1], 0, n)) = 0
      BY NoPositions
    <3>3. pos[f] - 1 = 0
      BY <2>4
    <3>4. pos'[f] = pos[f] /\ weight'[f] = weight[f] /\ heap' = heap
      BY <1>1
    <3>5. pos[f] <= Len(heap[1]) + 1
      BY <2>4, <3>1
    <3> QED BY <2>4, <3>2, <3>3, <3>4, <3>5 DEF Counted
  <2>6. ShareAt(f)'
    <3>1. stage'[f] = "weigh" /\ array'[f] = 1
      BY <1>0, <2>1, <2>2, ShareTypes
    <3>2. \A n \in Nodes : received'[n] = 0 /\ ~Got(f, n)'
      BY <1>1, <2>3, <3>1 DEF Got
    <3> QED BY <1>1, <2>2, <2>5, <3>1, <3>2 DEF ShareAt, Settling
  <2>7. "weigh" \in Settling
    BY DEF Settling
  <2> QED BY <1>0, <1>1, <1>5, <2>1, <2>2, <2>6, <2>7, SettlingStep
<1> QED BY <1>4, <1>5

\* The weights count one position more.
LEMMA WeighShares ==
  ASSUME ShareInv, ~Overlap, NEW f \in Finalizers, Weigh(f)
  PROVE  SharesOK'
<1>0. /\ stage \in [Calls -> Stages] /\ f \in Calls /\ stage[f] = "weigh" /\ "weigh" \in Settling
      /\ weight \in [Finalizers -> [Nodes -> Nat]] /\ pos \in [Finalizers -> Nat \ {0}]
  BY ShareTypes DEF Weigh, At, Settling
<1>1. /\ array[f] = 1 /\ current = 1 /\ Len(heap) = 1 /\ Counted(f) /\ Busy(f)
      /\ Participation(f) = heap[1] /\ heap[1] \in Seq(Part)
      /\ (\A n \in Nodes : received[n] = IF Got(f, n) THEN Share(f, n) ELSE 0)
      /\ row.status = "open"
  BY <1>0, SettlingFacts
<1>2. UNCHANGED <<stage, array, heap, current, row, finals, received>>
  BY DEF Weigh, callVars, memVars, payVars, ledgerVars
<1>3. PICK part : part = heap[1][pos[f]]
  OBVIOUS
<1>4. /\ pos[f] <= Len(heap[1])
      /\ weight' = [weight EXCEPT ![f][part[2]] = @ + IF part[1] \in Confirmed THEN 1 ELSE 0]
      /\ pos' = [pos EXCEPT ![f] = @ + 1]
  BY <1>1, <1>3 DEF Weigh
<1>5. PICK k \in Nat : pos[f] = k + 1
  <2>1. pos[f] - 1 \in Nat /\ pos[f] = (pos[f] - 1) + 1
    BY <1>0
  <2> QED BY <2>1
<1>6. Counted(f)'
  <2>1. pos'[f] = (k + 1) + 1 /\ pos'[f] - 1 = k + 1 /\ pos[f] - 1 = k
    BY <1>0, <1>4, <1>5
  <2>2. pos'[f] <= Len(heap[1]) + 1
    BY <1>1, <1>4, <1>5, <2>1
  <2>3. ASSUME NEW n \in Nodes
        PROVE  weight'[f][n] = Cardinality(PositionsOf(heap[1], k + 1, n))
    <3>1. weight[f][n] = Cardinality(PositionsOf(heap[1], k, n))
      BY <1>1, <2>1 DEF Counted
    <3>2. Cardinality(PositionsOf(heap[1], k + 1, n)) =
            weight[f][n] + IF part[1] \in Confirmed /\ part[2] = n THEN 1 ELSE 0
      BY <1>3, <1>5, <3>1, PositionsStep
    <3>3. weight'[f][n] = weight[f][n] + IF part[1] \in Confirmed /\ part[2] = n THEN 1 ELSE 0
      <4>1. weight[f] \in [Nodes -> Nat] /\ weight[f][n] \in Nat
        BY <1>0
      <4>2. CASE part[2] = n
        BY <1>0, <1>4, <4>1, <4>2
      <4>3. CASE part[2] # n
        BY <1>0, <1>4, <4>1, <4>3
      <4> QED BY <4>2, <4>3
    <3> QED BY <3>2, <3>3
  <2> QED BY <1>2, <2>1, <2>2, <2>3 DEF Counted
<1>7. ShareAt(f)'
  <2>1. stage'[f] = "weigh"
    BY <1>0, <1>2
  <2>2. \A n \in Nodes : received'[n] = 0 /\ ~Got(f, n)'
    BY <1>0, <1>1, <1>2, <2>1 DEF Got
  <2> QED BY <1>1, <1>2, <1>6, <2>1, <2>2 DEF ShareAt, Settling
<1>8. stage' = [stage EXCEPT ![f] = "weigh"]
  BY <1>0, <1>2
<1>9. \A g \in Finalizers \ {f} : pos'[g] = pos[g] /\ weight'[g] = weight[g]
  BY <1>0, <1>4
<1> QED BY <1>0, <1>1, <1>2, <1>7, <1>8, <1>9, SettlingStep

\* When the iteration ends, every position is counted and nobody is paid yet.
LEMMA WeighedShares ==
  ASSUME ShareInv, ~Overlap, NEW f \in Finalizers, Weighed(f)
  PROVE  SharesOK'
<1>0. /\ stage \in [Calls -> Stages] /\ f \in Calls /\ stage[f] = "weigh" /\ "weigh" \in Settling
      /\ weight \in [Finalizers -> [Nodes -> Nat]] /\ pos \in [Finalizers -> Nat \ {0}]
      /\ unpaid \in [Finalizers -> SUBSET Nodes] /\ "pay" \in Settling
  BY ShareTypes DEF Weighed, At, Settling
<1>1. /\ array[f] = 1 /\ current = 1 /\ Len(heap) = 1 /\ Counted(f) /\ Busy(f)
      /\ Participation(f) = heap[1] /\ heap[1] \in Seq(Part)
      /\ (\A n \in Nodes : received[n] = IF Got(f, n) THEN Share(f, n) ELSE 0)
      /\ row.status = "open"
  BY <1>0, SettlingFacts
<1>2. /\ UNCHANGED <<array, heap, current, row, finals, received, weight, pos>>
      /\ stage' = [stage EXCEPT ![f] = "pay"]
      /\ unpaid' = [unpaid EXCEPT ![f] = {n \in Nodes : weight[f][n] > 0}]
      /\ pos[f] > Len(heap[1])
  BY <1>1 DEF Weighed, Goto, memVars, payVars, ledgerVars
<1>3. stage'[f] = "pay" /\ unpaid'[f] = {n \in Nodes : weight[f][n] > 0}
  BY <1>0, <1>2
<1>4. pos[f] = Len(heap[1]) + 1
  <2>1. Len(heap[1]) \in Nat /\ pos[f] \in Nat
    BY <1>0, <1>1
  <2>2. pos[f] <= Len(heap[1]) + 1
    BY <1>1 DEF Counted
  <2> QED BY <1>2, <2>1, <2>2
<1>5. Counted(f)'
  BY <1>1, <1>2 DEF Counted
<1>6. \A n \in Nodes : received'[n] = 0 /\ ~Got(f, n)'
  BY <1>0, <1>1, <1>2, <1>3 DEF Got
<1>7. ShareAt(f)'
  BY <1>1, <1>2, <1>3, <1>4, <1>5, <1>6 DEF ShareAt, Settling
<1> QED BY <1>0, <1>1, <1>2, <1>7, SettlingStep

\* A payment is the share of the node that it is for.
LEMMA ReceiveShares ==
  ASSUME ShareInv, ~Overlap, NEW f \in Finalizers, Receive(f)
  PROVE  SharesOK'
<1>0. /\ stage \in [Calls -> Stages] /\ f \in Calls /\ stage[f] = "pay" /\ "pay" \in Settling
      /\ weight \in [Finalizers -> [Nodes -> Nat]] /\ "earn" \in Settling
      /\ received \in [Nodes -> Nat] /\ unpaid[f] # {} /\ TypesInv
  BY ShareTypes DEF Receive, At, Settling, ShareInv, SerialInv, BooksInv
<1>1. /\ array[f] = 1 /\ current = 1 /\ Len(heap) = 1 /\ Counted(f) /\ Busy(f)
      /\ (\A n \in Nodes : received[n] = IF Got(f, n) THEN Share(f, n) ELSE 0)
      /\ row.status = "open"
  BY <1>0, SettlingFacts
<1>2. PICK m : m = Min(unpaid[f])
  OBVIOUS
<1>3. m \in unpaid[f] /\ m \in Nodes /\ Amount(f) \in Nat /\ weight[f][m] > 0
  <2>1. m \in unpaid[f] /\ m \in Nodes /\ Amount(f) \in Nat
    BY <1>0, <1>2, AmountType
  <2> QED BY <1>0, <2>1 DEF TypesInv, WeightsBehind
<1>4. /\ UNCHANGED <<array, heap, current, row, finals, weight, pos, unpaid, entity>>
      /\ stage' = [stage EXCEPT ![f] = "earn"]
      /\ received' = [received EXCEPT ![m] = @ + Amount(f)]
  BY <1>2 DEF Receive, Goto, memVars, finalizerVars
<1>5. stage'[f] = "earn" /\ Amount(f) = Share(f, m)
  <2>1. stage'[f] = "earn"
    BY <1>0, <1>4
  <2> QED BY <1>2, <2>1, Zenon DEF Amount, Share
<1>6. /\ \A n \in Nodes : Share(f, n)' = Share(f, n)
      /\ \A n \in Nodes : Got(f, n)' <=> Got(f, n) \/ n = m
      /\ ~Got(f, m)
  <2>1. weight'[f] = weight[f] /\ unpaid'[f] = unpaid[f] /\ entity'[f] = entity[f]
    BY <1>4
  <2>2. \A n \in Nodes : Share(f, n)' = Share(f, n)
    BY <2>1, Zenon DEF Share, PaymentToNode, Distributable, TotalWeight
  <2>3. ~Got(f, m)
    BY <1>0, <1>3 DEF Got
  <2>4. \A n \in Nodes : Got(f, n)' <=> Got(f, n) \/ n = m
    BY <1>0, <1>2, <1>3, <1>5, <2>1 DEF Got
  <2> QED BY <2>2, <2>3, <2>4
<1>7. ASSUME NEW n \in Nodes
      PROVE  received'[n] = IF Got(f, n)' THEN Share(f, n)' ELSE 0
  <2>1. CASE n = m
    <3>1. received[m] = 0
      BY <1>1, <1>3, <1>6
    <3>2. received'[m] = 0 + Amount(f)
      BY <1>0, <1>3, <1>4, <3>1
    <3> QED BY <1>3, <1>5, <1>6, <2>1, <3>2
  <2>2. CASE n # m
    <3>1. received'[n] = received[n]
      BY <1>0, <1>4, <2>2
    <3> QED BY <1>1, <1>6, <2>2, <3>1
  <2> QED BY <2>1, <2>2
<1>8. Counted(f)'
  BY <1>1, <1>4 DEF Counted
<1>9. ShareAt(f)'
  <2>1. pos[f] = Len(heap[1]) + 1
    BY <1>0 DEF ShareInv, SharesOK, ShareAt
  <2> QED BY <1>1, <1>4, <1>5, <1>7, <1>8, <2>1 DEF ShareAt, Settling
<1> QED BY <1>0, <1>1, <1>4, <1>9, SettlingStep

\* Booking it takes the node from the list.
LEMMA EarnShares ==
  ASSUME ShareInv, ~Overlap, NEW f \in Finalizers, Earn(f)
  PROVE  SharesOK'
<1>0. /\ stage \in [Calls -> Stages] /\ f \in Calls /\ stage[f] = "earn" /\ "earn" \in Settling
      /\ unpaid \in [Finalizers -> SUBSET Nodes] /\ "pay" \in Settling
  BY ShareTypes DEF Earn, At, Settling
<1>1. /\ array[f] = 1 /\ current = 1 /\ Len(heap) = 1 /\ Counted(f) /\ Busy(f)
      /\ (\A n \in Nodes : received[n] = IF Got(f, n) THEN Share(f, n) ELSE 0)
      /\ row.status = "open"
  BY <1>0, SettlingFacts
<1>2. PICK m : m = Min(unpaid[f])
  OBVIOUS
<1>3. /\ UNCHANGED <<array, heap, current, row, finals, weight, pos, received, entity>>
      /\ stage' = [stage EXCEPT ![f] = "pay"]
      /\ unpaid' = [unpaid EXCEPT ![f] = @ \ {m}]
  BY <1>2 DEF Earn, Goto, memVars
<1>4. stage'[f] = "pay" /\ unpaid'[f] = unpaid[f] \ {m}
  BY <1>0, <1>3
<1>5. \A n \in Nodes : (Got(f, n)' <=> Got(f, n)) /\ Share(f, n)' = Share(f, n)
  <2>1. weight'[f] = weight[f] /\ entity'[f] = entity[f]
    BY <1>3
  <2>2. \A n \in Nodes : Share(f, n)' = Share(f, n)
    BY <2>1, Zenon DEF Share, PaymentToNode, Distributable, TotalWeight
  <2>3. \A n \in Nodes : Got(f, n)' <=> Got(f, n)
    BY <1>0, <1>2, <1>4, <2>1 DEF Got
  <2> QED BY <2>2, <2>3
<1>6. Counted(f)'
  BY <1>1, <1>3 DEF Counted
<1>7. ShareAt(f)'
  <2>1. pos[f] = Len(heap[1]) + 1
    BY <1>0 DEF ShareInv, SharesOK, ShareAt
  <2> QED BY <1>1, <1>3, <1>4, <1>5, <1>6, <2>1 DEF ShareAt, Settling
<1> QED BY <1>0, <1>1, <1>3, <1>7, SettlingStep

\* The AFC accrual and the first half of the save leave the receipts alone.
LEMMA ClosingShares ==
  ASSUME ShareInv, ~Overlap, NEW f \in Finalizers, AddAfc(f) \/ LoadRow(f)
  PROVE  SharesOK'
<1>0. /\ stage \in [Calls -> Stages] /\ f \in Calls /\ stage[f] \in {"pay", "load"}
      /\ stage[f] \in Settling /\ entity \in [Calls -> EpochRow]
  BY ShareTypes DEF AddAfc, LoadRow, At, Settling
<1>1. /\ array[f] = 1 /\ current = 1 /\ Len(heap) = 1 /\ Counted(f) /\ Busy(f)
      /\ (\A n \in Nodes : received[n] = IF Got(f, n) THEN Share(f, n) ELSE 0)
      /\ row.status = "open"
  BY <1>0, SettlingFacts
<1>2. UNCHANGED <<array, heap, current, row, finals, weight, pos, received, unpaid>>
  BY DEF AddAfc, LoadRow, memVars, finalizerVars, payVars, ledgerVars
<1>3. PICK l \in {"load", "write"} : stage' = [stage EXCEPT ![f] = l]
  BY DEF AddAfc, LoadRow, Goto
<1>4. stage'[f] = l /\ l \in Settling /\ unpaid[f] = {}
  <2>1. unpaid[f] = {}
    <3>1. CASE AddAfc(f)
      BY <3>1 DEF AddAfc
    <3>2. CASE LoadRow(f)
      BY <3>2 DEF LoadRow, At, ShareInv, SharesOK, ShareAt
    <3> QED BY <3>1, <3>2
  <2> QED BY <1>0, <1>3, <2>1 DEF Settling
<1>5. entity'[f].totalFees = entity[f].totalFees
  <2>1. CASE AddAfc(f)
    <3>1. entity'[f] = Epoch(entity[f].totalFees, "finalized", AllocatedMargin(f), paid[f])
      BY <1>0, <2>1 DEF AddAfc
    <3> QED BY <3>1 DEF Epoch
  <2>2. CASE LoadRow(f)
    BY <2>2 DEF LoadRow
  <2> QED BY <2>1, <2>2
<1>6. \A n \in Nodes : (Got(f, n)' <=> Got(f, n)) /\ Share(f, n)' = Share(f, n)
  <2>1. weight'[f] = weight[f] /\ unpaid'[f] = unpaid[f]
    BY <1>2
  <2>2. \A n \in Nodes : Share(f, n)' = Share(f, n)
    BY <1>5, <2>1, Zenon DEF Share, PaymentToNode, Distributable, TotalWeight
  <2>3. \A n \in Nodes : Got(f, n)' <=> Got(f, n)
    BY <1>0, <1>3, <1>4, <2>1 DEF Got
  <2> QED BY <2>2, <2>3
<1>7. Counted(f)'
  BY <1>1, <1>2 DEF Counted
<1>8. ShareAt(f)'
  <2>1. pos[f] = Len(heap[1]) + 1
    BY <1>0 DEF ShareInv, SharesOK, ShareAt
  <2> QED BY <1>1, <1>2, <1>3, <1>4, <1>6, <1>7, <2>1 DEF ShareAt, Settling
<1> QED BY <1>0, <1>1, <1>2, <1>3, <1>4, <1>8, SettlingStep

\* The save of a finalization closes the epoch.
LEMMA CloseShares ==
  ASSUME ShareInv, ~Overlap, NEW f \in Finalizers, WriteRow(f)
  PROVE  SharesOK'
<1>0. /\ stage \in [Calls -> Stages] /\ f \in Calls /\ f \notin Accruals /\ stage[f] = "write"
      /\ stage[f] \in Settling /\ row \in EpochRow /\ entity[f] \in EpochRow
  BY ShareTypes DEF WriteRow, At, Settling
<1>1. /\ array[f] = 1 /\ current = 1 /\ Len(heap) = 1 /\ Counted(f) /\ Busy(f)
      /\ (\A n \in Nodes : received[n] = IF Got(f, n) THEN Share(f, n) ELSE 0)
      /\ row.status = "open"
  BY <1>0, SettlingFacts
<1>2. seen[f] = row /\ entity[f].status = "finalized" /\ finals = << >>
  BY <1>0, <1>1 DEF ShareInv, SerialInv, StatusAt, SettledSoFar
<1>3. /\ UNCHANGED <<array, heap, current, finals, weight, pos, received, unpaid, entity>>
      /\ stage' = [stage EXCEPT ![f] = "append"]
      /\ row' = IF row = NoEpoch THEN entity[f] ELSE Updated(seen[f], entity[f])
  BY <1>0, <1>2 DEF WriteRow, Goto, memVars, finalizerVars, payVars, ledgerVars
<1>4. row'.status = "finalized"
  BY <1>0, <1>2, <1>3, UpdatedRow
<1>5. stage'[f] = "append" /\ unpaid[f] = {} /\ pos[f] = Len(heap[1]) + 1
  BY <1>0, <1>3 DEF ShareInv, SharesOK, ShareAt
<1>6. \A n \in Nodes : (Got(f, n)' <=> Got(f, n)) /\ Share(f, n)' = Share(f, n)
  <2>1. weight'[f] = weight[f] /\ entity'[f] = entity[f] /\ unpaid'[f] = unpaid[f]
    BY <1>3
  <2>2. \A n \in Nodes : Share(f, n)' = Share(f, n)
    BY <2>1, Zenon DEF Share, PaymentToNode, Distributable, TotalWeight
  <2>3. \A n \in Nodes : Got(f, n)' <=> Got(f, n)
    BY <1>0, <1>5, <2>1 DEF Got
  <2> QED BY <2>2, <2>3
<1>7. Counted(f)'
  BY <1>1, <1>3 DEF Counted
<1>8. ShareAt(f)'
  BY <1>1, <1>3, <1>5, <1>6, <1>7 DEF ShareAt, Settling
<1>9. \A d \in Calls \ {f} : stage[d] \in {"new", "done"} /\ stage'[d] = stage[d]
  BY <1>0, <1>1, <1>3, OthersRest
<1>10. \A g \in Finalizers : ShareAt(g)'
  <2>1. ASSUME NEW g \in Finalizers \ {f} PROVE ShareAt(g)'
    <3>1. g \in Calls \ {f}
      BY ShareTypes
    <3> QED BY <1>3, <1>9, <3>1, RestShare DEF ShareInv, SharesOK
  <2> QED BY <1>8, <2>1
<1>11. Arrays' /\ NonePaid' /\ SharesPaid'
  BY <1>2, <1>3, <1>4 DEF Arrays, NonePaid, SharesPaid
<1> QED BY <1>10, <1>11 DEF SharesOK

\* When a finalization records its totals, every node has its share of them.
LEMMA RecordShares ==
  ASSUME ShareInv, ~Overlap, NEW f \in Finalizers, AppendFinalized(f)
  PROVE  SharesOK'
<1>0. /\ stage \in [Calls -> Stages] /\ f \in Calls /\ stage[f] = "append" /\ stage[f] \in Settling
      /\ weight \in [Finalizers -> [Nodes -> Nat]]
  BY ShareTypes DEF AppendFinalized, At, Settling
<1>1. /\ Len(heap) = 1 /\ Counted(f) /\ Busy(f) /\ heap[1] \in Seq(Part)
      /\ \A n \in Nodes : received[n] = IF Got(f, n) THEN Share(f, n) ELSE 0
  BY <1>0, SettlingFacts
<1>2. unpaid[f] = {} /\ pos[f] = Len(heap[1]) + 1
  BY <1>0 DEF ShareInv, SharesOK, ShareAt
<1>3. row.status = "finalized" /\ finals = << >>
  BY <1>0 DEF ShareInv, SerialInv, StatusAt
<1>4. /\ UNCHANGED <<heap, current, row, received, weight, pos>>
      /\ stage' = [stage EXCEPT ![f] = "forget"]
      /\ Len(finals') = 1 /\ finals'[1].totalFees = entity[f].totalFees
  <2>1. PICK x : x = [totalFees |-> entity[f].totalFees, paid |-> paid[f],
                      operationalMargin |-> AllocatedMargin(f)]
    OBVIOUS
  <2>2. finals' = Append(finals, x) /\ x.totalFees = entity[f].totalFees
    BY <2>1 DEF AppendFinalized
  <2>3. finals' = <<x>>
    BY <1>3, <2>2
  <2>4. Len(finals') = 1 /\ finals'[1] = x
    BY <2>3
  <2>5. /\ UNCHANGED <<heap, current, row, received, weight, pos>>
        /\ stage' = [stage EXCEPT ![f] = "forget"]
    BY DEF AppendFinalized, Goto, memVars, finalizerVars, payVars, ledgerVars
  <2> QED BY <2>2, <2>4, <2>5
<1>5. stage'[f] = "forget"
  BY <1>0, <1>4
<1>6. weight[f] = [n \in Nodes |-> Count(heap[1], n)]
  <2>1. pos[f] - 1 = Len(heap[1])
    BY <1>1, <1>2
  <2>2. \A n \in Nodes : weight[f][n] = Count(heap[1], n)
    BY <1>1, <2>1, CountsAs DEF Counted
  <2> QED BY <1>0, <2>2
<1>7. ASSUME NEW n \in Nodes
      PROVE  received[n] = ShareOf(heap[1], n, entity[f].totalFees)
  <2>1. weight[f][n] = Count(heap[1], n) /\ weight[f][n] \in Nat
    BY <1>0, <1>6
  <2>2. Got(f, n) <=> Count(heap[1], n) # 0
    BY <1>0, <1>2, <2>1 DEF Got
  <2>3. Share(f, n) = (Count(heap[1], n) * Distributable(entity[f].totalFees))
                        \div SumFunctionOnSet([m \in Nodes |-> Count(heap[1], m)], Nodes)
    BY <1>6, <2>1, Zenon DEF Share, PaymentToNode, TotalWeight
  <2> QED BY <1>1, <2>2, <2>3 DEF ShareOf
<1>8. SharesPaid'
  <2>1. ASSUME NEW n \in Nodes
        PROVE  ShareOf(heap[1], n, entity[f].totalFees) = ShareOf(heap'[1], n, finals'[1].totalFees)
    BY <1>4
  <2>2. \A n \in Nodes : received'[n] = ShareOf(heap'[1], n, finals'[1].totalFees)
    BY <1>4, <1>7, <2>1
  <2>3. heap # << >>
    BY <1>1
  <2> QED BY <1>4, <2>2, <2>3, Zenon DEF SharesPaid, ShareOf, Count, Distributable
<1>9. \A d \in Calls \ {f} : stage[d] \in {"new", "done"} /\ stage'[d] = stage[d]
  BY <1>0, <1>1, <1>4, OthersRest
<1>10. \A g \in Finalizers : ShareAt(g)'
  <2>1. ASSUME NEW g \in Finalizers \ {f} PROVE ShareAt(g)'
    <3>1. g \in Calls \ {f}
      BY ShareTypes
    <3> QED BY <1>4, <1>9, <3>1, RestShare DEF ShareInv, SharesOK
  <2>2. ShareAt(f)'
    BY <1>3, <1>4, <1>5 DEF ShareAt, Settling
  <2> QED BY <2>1, <2>2
<1>11. Arrays' /\ NonePaid'
  BY <1>3, <1>4, <1>5 DEF Arrays, NonePaid
<1> QED BY <1>8, <1>10, <1>11 DEF SharesOK

\* A settled epoch loses its array from the map.
LEMMA ForgetShares ==
  ASSUME ShareInv, ~Overlap, NEW f \in Finalizers, Forget(f)
  PROVE  SharesOK'
<1>0. stage \in [Calls -> Stages] /\ f \in Calls /\ stage[f] = "forget" /\ Busy(f)
  BY ShareTypes DEF Forget, At, Busy
<1>1. /\ UNCHANGED <<heap, row, received, weight, pos, finals>>
      /\ stage' = [stage EXCEPT ![f] = "done"] /\ current' = 0
  BY DEF Forget, Goto, finalizerVars, payVars, ledgerVars
<1>2. stage'[f] = "done"
  BY <1>0, <1>1
<1>3. \A d \in Calls \ {f} : stage[d] \in {"new", "done"} /\ stage'[d] = stage[d]
  BY <1>0, <1>1, OthersRest
<1>4. \A g \in Finalizers : ShareAt(g)'
  <2>1. ASSUME NEW g \in Finalizers \ {f} PROVE ShareAt(g)'
    <3>1. g \in Calls \ {f}
      BY ShareTypes
    <3> QED BY <1>1, <1>3, <3>1, RestShare DEF ShareInv, SharesOK
  <2>2. ShareAt(f)'
    BY <1>2 DEF ShareAt, Settling
  <2> QED BY <2>1, <2>2
<1>5. SharesPaid'
  BY <1>1 DEF ShareInv, SharesOK, SharesPaid
<1>6. row.status = "finalized"
  BY <1>0 DEF ShareInv, SharesOK, ShareAt
<1>7. Arrays' /\ NonePaid'
  <2>1. \A a \in Accruals : stage'[a] # "push"
    <3>1. \A a \in Accruals : a \in Calls \ {f}
      BY ShareTypes
    <3> QED BY <1>3, <3>1
  <2> QED BY <1>1, <1>6, <2>1 DEF Arrays, NonePaid
<1> QED BY <1>4, <1>5, <1>7 DEF SharesOK

\* Initially nothing has been accrued, weighed or paid.
LEMMA ShareInit == Init => ShareInv
<1> SUFFICES ASSUME Init PROVE ShareInv
  OBVIOUS
<1>1. /\ \A c \in Calls : stage[c] = "new"
      /\ \A f \in Finalizers : f \in Calls /\ pos[f] = 1 /\ \A n \in Nodes : weight[f][n] = 0
      /\ row = NoEpoch /\ heap = << >> /\ current = 0 /\ finals = << >>
      /\ \A n \in Nodes : received[n] = 0
  BY DEF Init, Calls
<1>2. \A f \in Finalizers : ShareAt(f)
  BY <1>1 DEF ShareAt, Settling
<1>3. Arrays
  <2>1. NoEpoch.status = "none"
    BY DEF NoEpoch, Epoch
  <2>2. \A a \in Accruals : stage[a] = "new"
    BY <1>1 DEF Calls
  <2> QED BY <1>1, <2>1, <2>2 DEF Arrays
<1>4. NonePaid /\ SharesPaid
  BY <1>1 DEF NonePaid, SharesPaid
<1> QED BY <1>2, <1>3, <1>4, SerialInit DEF ShareInv, SharesOK

\* Every step keeps the shares.
LEMMA ShareStep ==
  ASSUME ~Overlap, MaxFaults = 0
  PROVE  ShareInv /\ [Next]_vars => ShareInv'
<1> SUFFICES ASSUME ShareInv, [Next]_vars PROVE ShareInv'
  OBVIOUS
<1>1. SerialInv'
  BY SerialStep DEF ShareInv
<1>2. CASE UNCHANGED restVars
  <2>1. UNCHANGED <<stage, pos, weight, array, unpaid, entity, heap, current, row, received, finals>>
    BY <1>2 DEF restVars, callVars, finalizerVars, memVars, payVars, ledgerVars
  <2>2. \A f \in Finalizers : ShareAt(f)'
    <3>1. ASSUME NEW f \in Finalizers PROVE ShareAt(f)'
      <4>1. ShareAt(f)
        BY DEF ShareInv, SharesOK
      <4>2. \A n \in Nodes : (Got(f, n)' <=> Got(f, n)) /\ Share(f, n)' = Share(f, n)
        BY <2>1, Zenon DEF Got, Share, PaymentToNode, Distributable, TotalWeight
      <4>3. Counted(f)' <=> Counted(f)
        BY <2>1 DEF Counted
      <4> QED BY <2>1, <4>1, <4>2, <4>3 DEF ShareAt
    <3> QED BY <3>1
  <2>3. Arrays' /\ NonePaid' /\ SharesPaid'
    BY <2>1 DEF ShareInv, SharesOK, Arrays, NonePaid, SharesPaid
  <2> QED BY <1>1, <2>2, <2>3 DEF ShareInv, SharesOK
<1>3. ~Restart /\ \A c \in Calls : ~Fail(c)
  <2>1. faults \in Nat
    BY DEF ShareInv, SerialInv, BooksInv, TypesInv, BooksTyped
  <2> QED BY <2>1 DEF Restart, Fail
<1>4. ASSUME NEW a \in Accruals, OpenEpoch(a) \/ LoadRow(a) \/ WriteRow(a) \/ Push(a)
      PROVE  SharesOK'
  BY <1>4, ReadingShares, AccrualSaves, PushShares
<1>5. ASSUME NEW f \in Finalizers, RequireEpoch(f) \/ Weigh(f) \/ Weighed(f) \/ Receive(f) \/ Earn(f)
      PROVE  SharesOK'
  BY <1>5, RequireShares, WeighShares, WeighedShares, ReceiveShares, EarnShares
<1>6. ASSUME NEW f \in Finalizers,
             AddAfc(f) \/ LoadRow(f) \/ WriteRow(f) \/ AppendFinalized(f) \/ Forget(f)
      PROVE  SharesOK'
  BY <1>6, ClosingShares, CloseShares, RecordShares, ForgetShares
<1>7. CASE Next
  <2>1. SharesOK' \/ UNCHANGED restVars
    BY <1>3, <1>4, <1>5, <1>6, <1>7, LedgerSteps DEF Next, Continue, Calls
  <2> QED BY <1>1, <1>2, <2>1 DEF ShareInv
<1> QED BY <1>2, <1>7, LedgerSteps

\* When calls come one at a time and none fails, each node has received, once the
\* epoch is settled, its share of 75% of the recorded pool by its confirmed
\* participations, rounded down; and no later call changes that.  For any fees.
THEOREM SerialSharesPaid ==
  ASSUME ~Overlap, MaxFaults = 0
  PROVE  Spec => []SharesPaid
<1>1. ShareInv => SharesPaid
  BY DEF ShareInv, SharesOK
<1> QED BY <1>1, ShareInit, ShareStep, PTL DEF Spec

-----------------------------------------------------------------------------
(* Exact shares.  A share is rounded unless the total weight divides 75% of *)
(* the pool.  Total weights are bounded by the work that the accruals bring.*)

\* The confirmed participations of all accruals, and of those that are complete.
WorkExpected == SumFunctionOnSet([a \in Accruals |-> WorkIn(Parts[a])], Accruals)

WorkBrought ==
  SumFunctionOnSet([a \in Accruals |-> IF stage[a] = "done" THEN WorkIn(Parts[a]) ELSE 0], Accruals)

\* No array holds more confirmed work than the complete accruals brought.
ArraysBounded == \A h \in DOMAIN heap : WorkIn(heap[h]) <= WorkBrought

\* 75% of t is a multiple of every total weight that can occur.
Divides(t) == \A k \in 1..WorkExpected : \E q \in 0..t : 3 * t = 4 * (k * q)

SharesExact == \A a \in Accruals : Divides(Fee[a])

PoolsDivide ==
  /\ Divides(row.totalFees)
  /\ \A c \in Calls : Divides(entity[c].totalFees)
  /\ \A i \in DOMAIN finals : Divides(finals[i].totalFees)

ExactInv == TypesInv /\ ArraysBounded /\ PoolsDivide

\* The work of each accrual is a number, and so are the sums.
LEMMA WorkTypes ==
  /\ \A a \in Accruals : WorkIn(Parts[a]) \in Nat
  /\ WorkExpected \in Nat /\ WorkBrought \in Nat /\ WorkBrought <= WorkExpected
<1> DEFINE w == [a \in Accruals |-> WorkIn(Parts[a])]
           b == [a \in Accruals |-> IF stage[a] = "done" THEN WorkIn(Parts[a]) ELSE 0]
<1>1. ASSUME NEW a \in Accruals PROVE WorkIn(Parts[a]) \in Nat
  <2>1. Parts[a] \in Seq(Part)
    BY PartsAssumption DEF Part
  <2> QED BY <2>1, CountsAs
<1>2. IsFiniteSet(Accruals)
  <2>1. Accruals \in SUBSET Calls
    BY DEF Calls
  <2> QED BY <2>1, FiniteAssumption, FS_Subset
<1>3. \A a \in Accruals : w[a] \in Nat /\ b[a] \in Nat /\ b[a] <= w[a]
  BY <1>1
<1>4. IntOn(w, Accruals) /\ IntOn(b, Accruals)
  BY <1>3 DEF IntOn
<1> HIDE DEF w, b
<1>5. SumFunctionOnSet(w, Accruals) \in Nat /\ SumFunctionOnSet(b, Accruals) \in Nat
  BY <1>2, <1>3, SumNat
<1>6. SumFunctionOnSet(b, Accruals) <= SumFunctionOnSet(w, Accruals)
  BY <1>2, <1>3, <1>4, SumMonotone
<1>7. WorkExpected = SumFunctionOnSet(w, Accruals) /\ WorkBrought = SumFunctionOnSet(b, Accruals)
  BY Zenon DEF WorkExpected, WorkBrought, w, b
<1> QED BY <1>1, <1>5, <1>6, <1>7

\* An accrual that completes brings its work.
LEMMA WorkComes ==
  ASSUME TypesInv, NEW a \in Accruals, stage[a] = "push", stage' = [stage EXCEPT ![a] = "done"]
  PROVE  WorkBrought' = WorkBrought + WorkIn(Parts[a])
<1>0. stage \in [Calls -> Stages] /\ Accruals \subseteq Calls /\ IsFiniteSet(Accruals)
  <2>1. Accruals \in SUBSET Calls
    BY DEF Calls
  <2> QED BY <2>1, FiniteAssumption, FS_Subset DEF TypesInv, WorkInv, ShapeOK
<1>1. PICK b : b = [c \in Accruals |-> IF stage[c] = "done" THEN WorkIn(Parts[c]) ELSE 0]
  OBVIOUS
<1>2. PICK d : d = [c \in Accruals |-> IF stage'[c] = "done" THEN WorkIn(Parts[c]) ELSE 0]
  OBVIOUS
<1>3. WorkBrought = SumFunctionOnSet(b, Accruals) /\ WorkBrought' = SumFunctionOnSet(d, Accruals)
  BY <1>1, <1>2, Zenon DEF WorkBrought
<1>4. stage'[a] = "done" /\ \A c \in Accruals \ {a} : stage'[c] = stage[c]
  BY <1>0
<1>5. b[a] = 0 /\ d[a] = WorkIn(Parts[a]) /\ \A c \in Accruals \ {a} : d[c] = b[c]
  BY <1>1, <1>2, <1>4
<1>6. IntOn(b, Accruals) /\ IntOn(d, Accruals)
  BY <1>1, <1>2, WorkTypes DEF IntOn
<1>7. SumFunctionOnSet(d, Accruals) = SumFunctionOnSet(b, Accruals) - b[a] + d[a]
  BY <1>0, <1>5, <1>6, SumChange
<1>8. WorkBrought \in Nat /\ WorkIn(Parts[a]) \in Nat
  BY WorkTypes
<1> QED BY <1>3, <1>5, <1>7, <1>8

\* A push adds the accrual's work to one array at most.
LEMMA PushBounded ==
  ASSUME TypesInv, ArraysBounded, NEW a \in Accruals, Push(a)
  PROVE  ArraysBounded'
<1>0. /\ heap \in Seq(Seq(Part)) /\ current \in 0..Len(heap) /\ Parts[a] \in Seq(Part)
      /\ stage[a] = "push" /\ stage' = [stage EXCEPT ![a] = "done"]
  BY PartsAssumption DEF TypesInv, WorkInv, ShapeOK, Part, Push, At, Goto
<1>1. WorkBrought' = WorkBrought + WorkIn(Parts[a])
  BY <1>0, WorkComes
<1>2. WorkBrought \in Nat /\ WorkIn(Parts[a]) \in Nat
  BY WorkTypes
<1>3. ASSUME NEW h \in DOMAIN heap
      PROVE  WorkIn(heap[h]) \in Nat /\ WorkIn(heap[h]) <= WorkBrought
  <2>1. heap[h] \in Seq(Part)
    BY <1>0
  <2> QED BY <2>1, CountsAs DEF ArraysBounded
<1>4. ASSUME NEW h \in DOMAIN heap' PROVE WorkIn(heap'[h]) <= WorkBrought'
  <2>1. CASE current = 0
    <3>1. heap' = Append(heap, Parts[a])
      BY <2>1 DEF Push
    <3>2. \/ h \in DOMAIN heap /\ heap'[h] = heap[h]
          \/ heap'[h] = Parts[a]
      BY <1>0, <3>1
    <3> QED BY <1>1, <1>2, <1>3, <3>2
  <2>2. CASE current # 0
    <3>1. heap' = [heap EXCEPT ![current] = @ \o Parts[a]]
      BY <2>2 DEF Push
    <3>2. current \in DOMAIN heap /\ heap[current] \in Seq(Part) /\ h \in DOMAIN heap
      BY <1>0, <2>2, <3>1
    <3>3. CASE h = current
      <4>1. heap'[h] = heap[current] \o Parts[a]
        BY <3>1, <3>2, <3>3
      <4>2. WorkIn(heap[current] \o Parts[a]) <= WorkIn(heap[current]) + WorkIn(Parts[a])
        BY <1>0, <3>2, WorkJoins
      <4>3. heap[current] \o Parts[a] \in Seq(Part)
        BY <1>0, <3>2
      <4>4. WorkIn(heap[current] \o Parts[a]) \in Nat
        BY <4>3, CountsAs
      <4> QED BY <1>1, <1>2, <1>3, <3>2, <4>1, <4>2, <4>4
    <3>4. CASE h # current
      <4>1. heap'[h] = heap[h]
        BY <3>1, <3>2, <3>4
      <4> QED BY <1>1, <1>2, <1>3, <3>2, <4>1
    <3> QED BY <3>3, <3>4
  <2> QED BY <2>1, <2>2
<1>5. ASSUME NEW h \in DOMAIN heap' PROVE (WorkIn(heap[h]) <= WorkBrought)'
  BY <1>4, Zenon DEF WorkIn, Positions
<1> QED BY <1>5 DEF ArraysBounded

\* No other step pushes or completes an accrual.
LEMMA OthersBounded ==
  ASSUME TypesInv, ArraysBounded, heap' = heap,
         \A a \in Accruals : stage'[a] = "done" <=> stage[a] = "done"
  PROVE  ArraysBounded'
<1>1. [a \in Accruals |-> IF stage'[a] = "done" THEN WorkIn(Parts[a]) ELSE 0] =
        [a \in Accruals |-> IF stage[a] = "done" THEN WorkIn(Parts[a]) ELSE 0]
  OBVIOUS
<1>2. WorkBrought' = WorkBrought
  BY <1>1, Zenon DEF WorkBrought
<1> QED BY <1>2, Zenon DEF ArraysBounded, WorkIn, Positions

\* Multiples: none and the sum of two.
LEMMA DividesSums ==
  /\ Divides(0)
  /\ \A x, y \in Nat : Divides(x) /\ Divides(y) => Divides(x + y)
<1>0. WorkExpected \in Nat
  BY WorkTypes
<1>1. Divides(0)
  <2> SUFFICES ASSUME NEW k \in 1..WorkExpected PROVE \E q \in 0..0 : 3 * 0 = 4 * (k * q)
    BY DEF Divides
  <2>1. k \in Nat
    BY <1>0
  <2> WITNESS 0 \in 0..0
  <2> QED BY <2>1
<1>2. ASSUME NEW x \in Nat, NEW y \in Nat, Divides(x), Divides(y) PROVE Divides(x + y)
  <2> SUFFICES ASSUME NEW k \in 1..WorkExpected
               PROVE  \E q \in 0..(x + y) : 3 * (x + y) = 4 * (k * q)
    BY DEF Divides
  <2>1. PICK q \in 0..x : 3 * x = 4 * (k * q)
    BY <1>2 DEF Divides
  <2>2. PICK r \in 0..y : 3 * y = 4 * (k * r)
    BY <1>2 DEF Divides
  <2>3. k \in Nat /\ q \in Nat /\ r \in Nat /\ q + r \in 0..(x + y)
    BY <1>0
  <2>4. k * (q + r) = k * q + k * r /\ k * q \in Nat /\ k * r \in Nat
    BY <2>3
  <2>5. 3 * (x + y) = 4 * (k * (q + r))
    BY <2>1, <2>2, <2>4
  <2> QED BY <2>3, <2>5
<1> QED BY <1>1, <1>2

\* A save leaves a total that some copy had.
LEMMA SaveDivides ==
  ASSUME TypesInv, PoolsDivide, NEW c \in Calls, WriteRow(c)
  PROVE  PoolsDivide'
<1>1. entity' = entity /\ finals' = finals
  BY DEF WriteRow
<1>2. row \in EpochRow /\ entity[c] \in EpochRow /\ seen[c] \in EpochRow
  BY DEF TypesInv, RowsTyped
<1>3. row' = row \/ row' = entity[c] \/ row' = Updated(seen[c], entity[c])
  BY DEF WriteRow
<1>4. row'.totalFees \in {row.totalFees, entity[c].totalFees}
  BY <1>2, <1>3, UpdatedRow
<1>5. Divides(row'.totalFees)
  BY <1>4 DEF PoolsDivide
<1>6. \A i \in DOMAIN finals' : Divides(finals'[i].totalFees)
  BY <1>1 DEF PoolsDivide
<1>7. \A d \in Calls : Divides(entity'[d].totalFees)
  BY <1>1 DEF PoolsDivide
<1> QED BY <1>5, <1>6, <1>7, Zenon DEF PoolsDivide, Divides, WorkExpected, WorkIn, Positions

\* An accrual adds its fee to the total of a row, or of none.
LEMMA OpenDivides ==
  ASSUME TypesInv, PoolsDivide, SharesExact, NEW a \in Accruals, OpenEpoch(a)
  PROVE  PoolsDivide'
<1>0. row \in EpochRow /\ entity \in [Calls -> EpochRow] /\ a \in Calls /\ Fee[a] \in Nat
  BY FeeAssumption DEF TypesInv, RowsTyped, Calls
<1>1. PICK e : e = IF row = NoEpoch THEN NewEpoch ELSE row
  OBVIOUS
<1>2. e \in EpochRow /\ e.totalFees \in Nat /\ Divides(e.totalFees)
  <2>1. NewEpoch.totalFees = 0
    BY DEF NewEpoch, Epoch
  <2>2. e \in EpochRow
    BY <1>0, <1>1, EpochTypes
  <2>3. e.totalFees \in Nat
    BY <2>2 DEF EpochRow
  <2> QED BY <1>1, <2>1, <2>2, <2>3, DividesSums DEF PoolsDivide
<1>3. /\ UNCHANGED <<row, finals>>
      /\ entity' = [entity EXCEPT ![a] = [e EXCEPT !.totalFees = @ + Fee[a]]]
  BY <1>1 DEF OpenEpoch
<1>4. entity'[a].totalFees = e.totalFees + Fee[a]
  <2>1. PICK v : v = [e EXCEPT !.totalFees = @ + Fee[a]]
    OBVIOUS
  <2>2. v.totalFees = e.totalFees + Fee[a]
    BY <1>2, <2>1 DEF EpochRow
  <2>3. entity' = [entity EXCEPT ![a] = v]
    BY <1>3, <2>1, Zenon
  <2> QED BY <1>0, <2>2, <2>3
<1>5. Divides(entity'[a].totalFees)
  BY <1>0, <1>2, <1>4, DividesSums DEF SharesExact
<1>6. \A d \in Calls : Divides(entity'[d].totalFees)
  BY <1>0, <1>3, <1>5 DEF PoolsDivide
<1>7. Divides(row'.totalFees) /\ \A i \in DOMAIN finals' : Divides(finals'[i].totalFees)
  BY <1>3 DEF PoolsDivide
<1> QED BY <1>6, <1>7, Zenon DEF PoolsDivide, Divides, WorkExpected, WorkIn, Positions

\* A finalization works on the total of the row, and records it.
LEMMA FinalizerDivides ==
  ASSUME TypesInv, PoolsDivide, NEW f \in Finalizers,
         RequireEpoch(f) \/ AddAfc(f) \/ AppendFinalized(f)
  PROVE  PoolsDivide'
<1>0. entity \in [Calls -> EpochRow] /\ f \in Calls /\ finals \in Seq(FinalRecord)
  BY DEF TypesInv, RowsTyped, BooksTyped, Calls
<1>1. row' = row
  BY DEF RequireEpoch, AddAfc, AppendFinalized
<1>2. \A d \in Calls : Divides(entity'[d].totalFees)
  <2>1. CASE RequireEpoch(f)
    <3>1. entity' = entity \/ entity' = [entity EXCEPT ![f] = row]
      BY <2>1 DEF RequireEpoch
    <3> QED BY <1>0, <3>1 DEF PoolsDivide
  <2>2. CASE AddAfc(f)
    <3>1. PICK v : v = Epoch(entity[f].totalFees, "finalized", AllocatedMargin(f), paid[f])
      OBVIOUS
    <3>2. v.totalFees = entity[f].totalFees
      BY <3>1 DEF Epoch
    <3>3. entity' = [entity EXCEPT ![f] = v]
      BY <2>2, <3>1, Zenon DEF AddAfc
    <3> QED BY <1>0, <3>2, <3>3 DEF PoolsDivide
  <2>3. CASE AppendFinalized(f)
    BY <2>3 DEF AppendFinalized, PoolsDivide
  <2> QED BY <2>1, <2>2, <2>3
<1>3. \A i \in DOMAIN finals' : Divides(finals'[i].totalFees)
  <2>1. CASE RequireEpoch(f) \/ AddAfc(f)
    <3>1. finals' = finals
      BY <2>1 DEF RequireEpoch, AddAfc
    <3> QED BY <3>1 DEF PoolsDivide
  <2>2. CASE AppendFinalized(f)
    <3>1. PICK x : x = [totalFees |-> entity[f].totalFees, paid |-> paid[f],
                        operationalMargin |-> AllocatedMargin(f)]
      OBVIOUS
    <3>2. x.totalFees = entity[f].totalFees
      BY <3>1
    <3>3. finals' = Append(finals, x)
      BY <2>2, <3>1, Zenon DEF AppendFinalized
    <3>4. ASSUME NEW i \in DOMAIN finals' PROVE Divides(finals'[i].totalFees)
      <4>1. (i \in DOMAIN finals /\ finals'[i] = finals[i]) \/ finals'[i] = x
        BY <1>0, <3>3
      <4> QED BY <1>0, <3>2, <4>1 DEF PoolsDivide
    <3> QED BY <3>4
  <2> QED BY <2>1, <2>2
<1>4. Divides(row'.totalFees)
  BY <1>1 DEF PoolsDivide
<1> QED BY <1>2, <1>3, <1>4, Zenon DEF PoolsDivide, Divides, WorkExpected, WorkIn, Positions

\* The other steps touch neither the row, nor an entity, nor a record.
LEMMA OthersDivide ==
  ASSUME PoolsDivide, UNCHANGED <<row, entity, finals>>
  PROVE  PoolsDivide'
<1>1. /\ Divides(row'.totalFees) /\ (\A c \in Calls : Divides(entity'[c].totalFees))
      /\ \A i \in DOMAIN finals' : Divides(finals'[i].totalFees)
  BY DEF PoolsDivide
<1> QED BY <1>1, Zenon DEF PoolsDivide, Divides, WorkExpected, WorkIn, Positions

\* Initially there is no array and no fee.
LEMMA ExactInit == Init => ExactInv
<1> SUFFICES ASSUME Init PROVE ExactInv
  OBVIOUS
<1>1. /\ row = NoEpoch /\ (\A c \in Calls : entity[c] = NoEpoch) /\ finals = << >> /\ heap = << >>
  BY DEF Init
<1>2. NoEpoch.totalFees = 0
  BY DEF NoEpoch, Epoch
<1>3. PoolsDivide
  BY <1>1, <1>2, DividesSums DEF PoolsDivide
<1>4. ArraysBounded
  BY <1>1 DEF ArraysBounded
<1> QED BY <1>3, <1>4, TypesInit DEF ExactInv

\* Every step keeps the bound and the multiples.
LEMMA ExactStep ==
  ASSUME SharesExact
  PROVE  ExactInv /\ [Next]_vars => ExactInv'
<1> SUFFICES ASSUME ExactInv, [Next]_vars PROVE ExactInv'
  OBVIOUS
<1>0. TypesInv /\ ArraysBounded /\ PoolsDivide /\ stage \in [Calls -> Stages]
  BY DEF ExactInv, TypesInv, WorkInv, ShapeOK
<1>1. TypesInv'
  BY <1>0, TypesStep
<1>2. ASSUME NEW a \in Accruals, Push(a) PROVE ExactInv'
  <2>1. UNCHANGED <<row, entity, finals>>
    BY <1>2 DEF Push
  <2> QED BY <1>0, <1>1, <1>2, <2>1, PushBounded, OthersDivide DEF ExactInv
<1>3. ASSUME NEW c \in Calls,
             \/ c \in Accruals /\ OpenEpoch(c)
             \/ WriteRow(c) \/ LoadRow(c) \/ Fail(c)
             \/ c \in Finalizers /\ ( \/ RequireEpoch(c) \/ Weigh(c) \/ Weighed(c) \/ Receive(c)
                                      \/ Earn(c) \/ AddAfc(c) \/ AppendFinalized(c) \/ Forget(c) )
      PROVE  ExactInv'
  <2>1. heap' = heap
    BY <1>3 DEF OpenEpoch, WriteRow, LoadRow, Fail, RequireEpoch, Weigh, Weighed, Receive, Earn, AddAfc,
               AppendFinalized, Forget, memVars
  <2>2. \/ stage' = stage
        \/ \E l : stage' = [stage EXCEPT ![c] = l] /\ (c \in Accruals => l # "done" /\ stage[c] # "done")
    <3>1. c \in Accruals => c \notin Finalizers
      BY CallAssumption
    <3> QED BY <1>3, <3>1 DEF OpenEpoch, WriteRow, LoadRow, Fail, RequireEpoch, Weigh, Weighed, Receive,
               Earn, AddAfc, AppendFinalized, Forget, Goto, callVars, Starts, At
  <2>3. \A a \in Accruals : stage'[a] = "done" <=> stage[a] = "done"
    <3>1. \A a \in Accruals : a \in Calls
      BY DEF Calls
    <3> QED BY <1>0, <2>2, <3>1
  <2>4. ArraysBounded'
    BY <1>0, <2>1, <2>3, OthersBounded
  <2>5. PoolsDivide'
    <3>1. CASE LoadRow(c) \/ Fail(c) \/ Weigh(c) \/ Weighed(c) \/ Receive(c) \/ Earn(c) \/ Forget(c)
      <4>1. UNCHANGED <<row, entity, finals>>
        BY <3>1 DEF LoadRow, Fail, Weigh, Weighed, Receive, Earn, Forget, callVars
      <4> QED BY <1>0, <4>1, OthersDivide
    <3>2. CASE c \in Accruals /\ OpenEpoch(c)
      BY <1>0, <3>2, OpenDivides
    <3>3. CASE WriteRow(c)
      BY <1>0, <3>3, SaveDivides
    <3>4. CASE c \in Finalizers /\ (RequireEpoch(c) \/ AddAfc(c) \/ AppendFinalized(c))
      BY <1>0, <3>4, FinalizerDivides
    <3> QED BY <1>3, <3>1, <3>2, <3>3, <3>4
  <2> QED BY <1>1, <2>4, <2>5 DEF ExactInv
<1>4. CASE Restart \/ UNCHANGED restVars
  <2>1. UNCHANGED <<row, entity, finals, heap, stage>>
    BY <1>4 DEF Restart, restVars, callVars, memVars
  <2>2. ArraysBounded'
    BY <1>0, <2>1, OthersBounded
  <2> QED BY <1>0, <1>1, <2>1, <2>2, OthersDivide DEF ExactInv
<1>5. \/ \E a \in Accruals : Push(a)
      \/ \E c \in Calls :
           \/ c \in Accruals /\ OpenEpoch(c)
           \/ WriteRow(c) \/ LoadRow(c) \/ Fail(c)
           \/ c \in Finalizers /\ ( \/ RequireEpoch(c) \/ Weigh(c) \/ Weighed(c) \/ Receive(c)
                                    \/ Earn(c) \/ AddAfc(c) \/ AppendFinalized(c) \/ Forget(c) )
      \/ Restart \/ UNCHANGED restVars
  BY LedgerSteps DEF Next, Continue, Calls
<1> QED BY <1>2, <1>3, <1>4, <1>5

\* A quotient without remainder.
LEMMA ExactQuotient ==
  ASSUME NEW k \in Nat \ {0}, NEW z \in Nat
  PROVE  (k * z) \div k = z
OBVIOUS

\* When calls come one at a time and none fails, and 75% of each fee is a multiple
\* of every total weight that the accruals allow, each node of a settled epoch has
\* received exactly its share by its confirmed participations, and keeps it.
THEOREM SerialSharesAreFair ==
  ASSUME ~Overlap, MaxFaults = 0, SharesExact
  PROVE  Spec => []FairShares
<1>1. ShareInv /\ ExactInv => FairShares
  <2> SUFFICES ASSUME ShareInv, ExactInv, finals # << >>, NEW n \in Nodes
               PROVE  received[n] * SumOver(Nodes, LAMBDA m : Count(heap[1], m)) =
                        Count(heap[1], n) * Distributable(finals[1].totalFees)
    BY Zenon DEF FairShares
  <2>0. PICK k : k = WorkIn(heap[1])
    OBVIOUS
  <2>1. heap # << >> /\ received[n] = ShareOf(heap[1], n, finals[1].totalFees)
    BY DEF ShareInv, SharesOK, SharesPaid
  <2>2. 1 \in DOMAIN heap /\ heap[1] \in Seq(Part)
    <3>1. heap \in Seq(Seq(Part))
      BY ShareTypes
    <3> QED BY <2>1, <3>1
  <2>3. /\ SumFunctionOnSet([m \in Nodes |-> Count(heap[1], m)], Nodes) = k /\ k \in Nat
        /\ Count(heap[1], n) \in Nat /\ Count(heap[1], n) <= k
    <3>1. PICK g : g = [m \in Nodes |-> Count(heap[1], m)]
      OBVIOUS
    <3>2. SumFunctionOnSet(g, Nodes) = k /\ k \in Nat
      BY <2>0, <2>2, <3>1, CountsAs, Zenon
    <3>3. \A m \in Nodes : g[m] \in Nat
      <4>1. Len(heap[1]) \in Nat
        BY <2>2
      <4>2. ASSUME NEW m \in Nodes PROVE Count(heap[1], m) \in Nat
        <5>1. Cardinality(PositionsOf(heap[1], Len(heap[1]), m)) \in Nat
          BY <4>1, PositionsFinite
        <5>2. Count(heap[1], m) = Cardinality(PositionsOf(heap[1], Len(heap[1]), m))
          BY <2>2, CountsAs
        <5> QED BY <5>1, <5>2
      <4> QED BY <3>1, <4>2
    <3>4. IsFiniteSet(Nodes)
      BY FiniteAssumption
    <3>5. \A m \in Nodes : g[m] <= SumFunctionOnSet(g, Nodes)
      BY <3>3, <3>4, SumNat
    <3>6. g[n] = Count(heap[1], n)
      BY <3>1
    <3>7. g[n] \in Nat /\ g[n] <= SumFunctionOnSet(g, Nodes)
      BY <3>3, <3>5
    <3> QED BY <3>1, <3>2, <3>6, <3>7
  <2>4. SumOver(Nodes, LAMBDA m : Count(heap[1], m)) = k
    BY <2>3, Zenon DEF SumOver
  <2>5. PICK t : t = finals[1].totalFees
    OBVIOUS
  <2>6. t \in Nat /\ Divides(t) /\ k <= WorkExpected
    <3>1. finals \in Seq(FinalRecord) /\ 1 \in DOMAIN finals
      BY ShareTypes
    <3>2. finals[1] \in FinalRecord
      BY <3>1
    <3>3. t \in Nat
      BY <2>5, <3>2 DEF FinalRecord
    <3>4. Divides(t)
      BY <2>5, <3>1 DEF ExactInv, PoolsDivide
    <3>5. k <= WorkBrought
      BY <2>0, <2>2 DEF ExactInv, ArraysBounded
    <3> QED BY <2>3, <3>3, <3>4, <3>5, WorkTypes
  <2>7. CASE Count(heap[1], n) = 0
    <3>1. received[n] = 0
      BY <2>1, <2>7 DEF ShareOf
    <3>2. Distributable(t) \in Int
      BY <2>6 DEF Distributable
    <3>3. 0 * k = 0 /\ 0 * Distributable(t) = 0
      BY <2>3, <3>2
    <3> QED BY <2>4, <2>5, <2>7, <3>1, <3>3
  <2>8. CASE Count(heap[1], n) # 0
    <3>1. k \in Nat \ {0} /\ k \in 1..WorkExpected
      BY <2>3, <2>6, <2>8, WorkTypes
    <3>2. PICK q \in 0..t : 3 * t = 4 * (k * q)
      BY <2>6, <3>1 DEF Divides
    <3>3. received[n] = (Count(heap[1], n) * Distributable(t)) \div k
      BY <2>1, <2>3, <2>5, <2>8 DEF ShareOf
    <3>4. ((Count(heap[1], n) * Distributable(t)) \div k) * k = Count(heap[1], n) * Distributable(t)
      <4>1. PICK c \in Nat : c = Count(heap[1], n)
        BY <2>3
      <4>2. q \in Nat /\ t \in Nat
        BY <2>6
      <4>3. k * q \in Nat /\ c * q \in Nat /\ k \in Nat \ {0}
        BY <3>1, <4>1, <4>2
      <4>4. Distributable(t) = k * q
        BY <3>2, <4>2, <4>3 DEF Distributable
      <4>5. c * (k * q) = k * (c * q) /\ k * (c * q) = (c * q) * k
        BY <4>1, <4>2, <4>3
      <4>6. (k * (c * q)) \div k = c * q
        BY <4>3, ExactQuotient
      <4> QED BY <4>1, <4>4, <4>5, <4>6
    <3> QED BY <2>4, <2>5, <3>3, <3>4
  <2> QED BY <2>7, <2>8
<1> QED BY <1>1, ShareInit, ShareStep, ExactInit, ExactStep, PTL DEF Spec
=============================================================================
