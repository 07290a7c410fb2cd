-------------------------- MODULE NodeChainProofs --------------------------
(***************************************************************************)
(* What holds of NodeChain.tla for every set of appenders, event types and *)
(* payloads and every MaxHeight: for any interleaving (TypeOK, NoGaps,     *)
(* SettledImmutable), and when appends do not overlap (ChainIntact,        *)
(* AppendOnly, and the implementation of AppendOnlyLog).                   *)
(***************************************************************************)
EXTENDS NodeChain, TLAPS

\* NoGaps with the height named, which is what the induction needs.
Contiguous ==
  \E n \in Nat :
    /\ DOMAIN table = 1..n
    /\ \A a \in InFlight : claim[a] \in 1..(n + 1)

\* save() updates only a row that is there.
UpdatesExist ==
  \A a \in Appenders : stage[a] = "update" => claim[a] \in DOMAIN table

Inv == TypeOK /\ Contiguous /\ UpdatesExist

\* The highest sequenceId of a chain of n snapshots is n.
LEMMA MaxOfInterval ==
  ASSUME NEW n \in Nat \ {0}
  PROVE  Max(1..n) = n
BY DEF Max

\* The head of a chain of n snapshots is the n-th.
LEMMA HeadOfInterval ==
  ASSUME NEW n \in Nat, DOMAIN table = 1..n
  PROVE  HeadSeq = n
<1>1. CASE n = 0
  BY <1>1 DEF HeadSeq
<1>2. CASE n # 0
  BY <1>2, MaxOfInterval DEF HeadSeq
<1> QED BY <1>1, <1>2

\* A drafted snapshot has all columns, with the values append() gives them.
LEMMA SnapshotIsRow ==
  ASSUME NEW e, NEW p, NEW h, NEW s
  PROVE  /\ IsRow(Snapshot(e, p, h, s))
         /\ Snapshot(e, p, h, s)["eventType"] = e
         /\ Snapshot(e, p, h, s)["payload"] = p
         /\ Snapshot(e, p, h, s)["prevHash"] = h
         /\ Snapshot(e, p, h, s)["hash"] = sha256(p, h, s)
BY DEF Snapshot, IsRow, Columns

-----------------------------------------------------------------------------
(* The steps that end an append: each leaves the table alone or writes the *)
(* one row that the append claimed.                                        *)

\* Ending an append that leaves the table as it is keeps the invariant.
LEMMA EndUnchanged ==
  ASSUME Inv, NEW a \in Appenders, Ends(a), UNCHANGED table
  PROVE  Inv'
<1>1. PICK n \in Nat : /\ DOMAIN table = 1..n
                       /\ \A b \in InFlight : claim[b] \in 1..(n + 1)
  BY DEF Inv, Contiguous
<1>2. /\ InFlight' = InFlight \ {a}
      /\ \A b \in InFlight' : claim'[b] = claim[b] /\ draft'[b] = draft[b]
  BY DEF Inv, TypeOK, Ends, InFlight
<1>3. TypeOK'
  <2>1. /\ stage' \in [Appenders -> {"idle", "drafted", "insert", "update"}]
        /\ claim' \in [Appenders -> Nat]
        /\ diff' \in [Appenders -> SUBSET Columns]
        /\ DOMAIN draft' = Appenders
    BY DEF Inv, TypeOK, Ends
  <2>2. \A b \in InFlight' : /\ IsRow(draft[b])
                             /\ draft[b]["eventType"] \in EventTypes
                             /\ draft[b]["payload"] \in Payloads
    BY <1>2 DEF Inv, TypeOK
  <2>3. \A b \in InFlight' : /\ IsRow(draft'[b])
                             /\ draft'[b]["eventType"] \in EventTypes
                             /\ draft'[b]["payload"] \in Payloads
    BY <1>2, <2>2
  <2> QED BY <2>1, <2>3 DEF Inv, TypeOK
<1>4. Contiguous'
  BY <1>1, <1>2 DEF Contiguous
<1>5. UpdatesExist'
  BY DEF Inv, TypeOK, UpdatesExist, Ends
<1> QED BY <1>3, <1>4, <1>5 DEF Inv

\* So does ending an append that writes a well-formed row at its claim.
LEMMA EndWritten ==
  ASSUME Inv, NEW a \in InFlight, Ends(a),
         NEW row, IsRow(row), row["eventType"] \in EventTypes, row["payload"] \in Payloads,
         table' = Put(table, claim[a], row)
  PROVE  Inv'
<1>1. PICK n \in Nat : /\ DOMAIN table = 1..n
                       /\ \A b \in InFlight : claim[b] \in 1..(n + 1)
  BY DEF Inv, Contiguous
<1>2. /\ InFlight' = InFlight \ {a}
      /\ \A b \in InFlight' : claim'[b] = claim[b] /\ draft'[b] = draft[b]
  BY DEF Inv, TypeOK, Ends, InFlight
<1>3. /\ DOMAIN table' = (1..n) \cup {claim[a]}
      /\ table'[claim[a]] = row
      /\ \A k \in DOMAIN table : k # claim[a] => table'[k] = table[k]
  BY <1>1 DEF Put
<1>4. claim[a] \in 1..(n + 1)
  BY <1>1
<1>5. TypeOK'
  <2>1. /\ stage' \in [Appenders -> {"idle", "drafted", "insert", "update"}]
        /\ claim' \in [Appenders -> Nat]
        /\ diff' \in [Appenders -> SUBSET Columns]
        /\ DOMAIN draft' = Appenders
    BY DEF Inv, TypeOK, Ends, InFlight
  <2>2. \A b \in InFlight' : /\ IsRow(draft[b])
                             /\ draft[b]["eventType"] \in EventTypes
                             /\ draft[b]["payload"] \in Payloads
    BY <1>2 DEF Inv, TypeOK
  <2>3. \A b \in InFlight' : /\ IsRow(draft'[b])
                             /\ draft'[b]["eventType"] \in EventTypes
                             /\ draft'[b]["payload"] \in Payloads
    BY <1>2, <2>2
  <2>4. DOMAIN table' \subseteq Nat
    BY <1>3, <1>4
  <2>5. \A s \in DOMAIN table' : /\ IsRow(table'[s])
                                 /\ table'[s]["eventType"] \in EventTypes
                                 /\ table'[s]["payload"] \in Payloads
    <3> TAKE s \in DOMAIN table'
    <3>1. CASE s = claim[a]
      BY <1>3, <3>1
    <3>2. CASE s # claim[a]
      <4>1. s \in DOMAIN table /\ table'[s] = table[s]
        BY <1>1, <1>3, <3>2
      <4> QED BY <4>1 DEF Inv, TypeOK
    <3> QED BY <3>1, <3>2
  <2> QED BY <1>3, <2>1, <2>3, <2>4, <2>5 DEF TypeOK
<1>6. Contiguous'
  <2>1. CASE claim[a] \in 1..n
    <3>1. DOMAIN table' = 1..n
      BY <1>3, <2>1
    <3> QED BY <1>1, <1>2, <3>1 DEF Contiguous
  <2>2. CASE claim[a] = n + 1
    <3>1. DOMAIN table' = 1..(n + 1)
      BY <1>3, <2>2
    <3>2. \A b \in InFlight' : claim'[b] \in 1..((n + 1) + 1)
      BY <1>1, <1>2
    <3> QED BY <3>1, <3>2 DEF Contiguous
  <2> QED BY <1>4, <2>1, <2>2
<1>7. UpdatesExist'
  BY <1>1, <1>3 DEF Inv, TypeOK, UpdatesExist, Ends, InFlight
<1> QED BY <1>5, <1>6, <1>7 DEF Inv

-----------------------------------------------------------------------------
\* The empty chain satisfies the invariant.
LEMMA InitInv == Init => Inv
<1> SUFFICES ASSUME Init PROVE Inv
  OBVIOUS
<1>1. DOMAIN table = 1..0 /\ InFlight = {}
  BY DEF Init, InFlight
<1>3. TypeOK
  BY <1>1 DEF Init, TypeOK
<1>4. Contiguous
  BY <1>1 DEF Contiguous
<1>5. UpdatesExist
  BY DEF Init, UpdatesExist
<1> QED BY <1>3, <1>4, <1>5 DEF Inv

\* Drafting a snapshot claims a sequenceId of the chain or the next one.
LEMMA ReadHeadInv ==
  ASSUME Inv, NEW a \in Appenders, NEW e \in EventTypes, NEW p \in Payloads,
         ReadHead(a, e, p)
  PROVE  Inv'
<1>1. PICK n \in Nat : /\ DOMAIN table = 1..n
                       /\ \A b \in InFlight : claim[b] \in 1..(n + 1)
  BY DEF Inv, Contiguous
<1>2. NextSeq = n + 1
  BY <1>1, HeadOfInterval DEF NextSeq
<1> DEFINE row == Snapshot(e, p, HeadHash, NextSeq)
<1>3. IsRow(row) /\ row["eventType"] = e /\ row["payload"] = p
  BY SnapshotIsRow
<1> HIDE DEF row
<1>4. /\ stage' = [stage EXCEPT ![a] = "drafted"]
      /\ claim' = [claim EXCEPT ![a] = n + 1]
      /\ draft' = [draft EXCEPT ![a] = row]
      /\ UNCHANGED <<table, diff>>
  BY <1>2 DEF ReadHead, row
<1>5. /\ InFlight' = InFlight \cup {a}
      /\ claim'[a] = n + 1 /\ draft'[a] = row
      /\ \A b \in InFlight' : b # a => b \in InFlight /\ claim'[b] = claim[b] /\ draft'[b] = draft[b]
  BY <1>4 DEF Inv, TypeOK, InFlight
<1>6. TypeOK'
  <2>1. /\ stage' \in [Appenders -> {"idle", "drafted", "insert", "update"}]
        /\ claim' \in [Appenders -> Nat]
        /\ diff' \in [Appenders -> SUBSET Columns]
        /\ DOMAIN draft' = Appenders
    BY <1>4 DEF Inv, TypeOK
  <2>2. \A b \in InFlight' : /\ IsRow(draft'[b])
                             /\ draft'[b]["eventType"] \in EventTypes
                             /\ draft'[b]["payload"] \in Payloads
    <3> TAKE b \in InFlight'
    <3>1. CASE b = a
      BY <1>3, <1>5, <3>1
    <3>2. CASE b # a
      <4>1. b \in InFlight /\ draft'[b] = draft[b]
        BY <1>5, <3>2
      <4> QED BY <4>1 DEF Inv, TypeOK
    <3> QED BY <3>1, <3>2
  <2> QED BY <1>4, <2>1, <2>2 DEF Inv, TypeOK
<1>7. Contiguous'
  <2>1. \A b \in InFlight' : claim'[b] \in 1..(n + 1)
    BY <1>1, <1>5
  <2> QED BY <1>1, <1>4, <2>1 DEF Contiguous
<1>8. UpdatesExist'
  BY <1>4 DEF Inv, TypeOK, UpdatesExist
<1> QED BY <1>6, <1>7, <1>8 DEF Inv

\* The first half of save() chooses UPDATE only for a row that exists.
LEMMA LoadInv ==
  ASSUME Inv, NEW a \in Appenders, Load(a)
  PROVE  Inv'
<1>1. stage' \in [Appenders -> {"idle", "drafted", "insert", "update"}]
  BY DEF Inv, TypeOK, Load
<1>2. diff' \in [Appenders -> SUBSET Columns]
  BY DEF Inv, TypeOK, Load, Changed
<1>3. InFlight' = InFlight /\ UNCHANGED <<table, claim, draft>>
  BY DEF Inv, TypeOK, Load, InFlight
<1>4. TypeOK'
  BY <1>1, <1>2, <1>3 DEF Inv, TypeOK
<1>5. Contiguous'
  BY <1>3 DEF Inv, Contiguous
<1>6. UpdatesExist'
  BY <1>3 DEF Inv, TypeOK, UpdatesExist, Load
<1> QED BY <1>4, <1>5, <1>6 DEF Inv

\* INSERT extends the chain by exactly its next sequenceId.
LEMMA InsertInv ==
  ASSUME Inv, NEW a \in Appenders, Insert(a)
  PROVE  Inv'
<1>1. a \in InFlight
  BY DEF Insert, InFlight
<1>2. IsRow(draft[a]) /\ draft[a]["eventType"] \in EventTypes /\ draft[a]["payload"] \in Payloads
  BY <1>1 DEF Inv, TypeOK
<1>3. Ends(a) /\ table' = Put(table, claim[a], draft[a])
  BY DEF Insert
<1> QED BY <1>1, <1>2, <1>3, EndWritten

\* UPDATE overwrites a row of the chain, and the row keeps its columns.
LEMMA UpdateInv ==
  ASSUME Inv, NEW a \in Appenders, Update(a)
  PROVE  Inv'
<1>1. a \in InFlight /\ claim[a] \in DOMAIN table
  BY DEF Update, InFlight, Inv, UpdatesExist
<1> DEFINE row == Patch(table[claim[a]], draft[a], diff[a])
<1>2. /\ draft[a]["eventType"] \in EventTypes /\ draft[a]["payload"] \in Payloads
      /\ table[claim[a]]["eventType"] \in EventTypes /\ table[claim[a]]["payload"] \in Payloads
  BY <1>1 DEF Inv, TypeOK
<1>3. IsRow(row) /\ row["eventType"] \in EventTypes /\ row["payload"] \in Payloads
  BY <1>2 DEF Patch, IsRow, Columns
<1>4. Ends(a) /\ table' = Put(table, claim[a], row)
  BY DEF Update
<1> QED BY <1>1, <1>3, <1>4, EndWritten

\* Every step of append() preserves the invariant.
LEMMA StepInv == Inv /\ [Next]_vars => Inv'
<1> SUFFICES ASSUME Inv, [Next]_vars PROVE Inv'
  OBVIOUS
<1>1. CASE UNCHANGED vars
  BY <1>1 DEF vars, Inv, TypeOK, Contiguous, UpdatesExist, InFlight
<1>2. ASSUME NEW a \in Appenders, NEW e \in EventTypes, NEW p \in Payloads, ReadHead(a, e, p)
      PROVE Inv'
  BY <1>2, ReadHeadInv
<1>3. ASSUME NEW a \in Appenders, Load(a) PROVE Inv'
  BY <1>3, LoadInv
<1>4. ASSUME NEW a \in Appenders, Insert(a) PROVE Inv'
  BY <1>4, InsertInv
<1>5. ASSUME NEW a \in Appenders, Conflict(a) PROVE Inv'
  BY <1>5, EndUnchanged DEF Conflict
<1>6. ASSUME NEW a \in Appenders, Update(a) PROVE Inv'
  BY <1>6, UpdateInv
<1>7. ASSUME NEW a \in Appenders, Abort(a) PROVE Inv'
  BY <1>7, EndUnchanged DEF Abort
<1> QED BY <1>1, <1>2, <1>3, <1>4, <1>5, <1>6, <1>7 DEF Next

\* The invariant holds in every reachable state.
LEMMA Invariance == Spec => []Inv
BY InitInv, StepInv, PTL DEF Spec

\* Rows are always well formed, with the event type and payload of some append().
THEOREM TypeCorrect == Spec => []TypeOK
<1>1. Inv => TypeOK
  BY DEF Inv
<1> QED BY <1>1, Invariance, PTL

\* The sequenceIds are 1, 2, 3, ... without a gap, however appends overlap or fail.
THEOREM SequenceHasNoGaps == Spec => []NoGaps
<1>1. Inv => NoGaps
  BY HeadOfInterval DEF Inv, Contiguous, NoGaps
<1> QED BY <1>1, Invariance, PTL

-----------------------------------------------------------------------------
(* Settled snapshots. *)

\* A transaction that ends without writing leaves settled snapshots alone.
LEMMA SettledEndUnchanged ==
  ASSUME Inv, NEW a \in Appenders, Ends(a), UNCHANGED table
  PROVE  SettledStep
BY DEF Inv, TypeOK, SettledStep, Unclaimed, InFlight, Ends

\* A transaction that writes touches only the row it has claimed.
LEMMA SettledEndWritten ==
  ASSUME Inv, NEW a \in InFlight, Ends(a), NEW row, table' = Put(table, claim[a], row)
  PROVE  SettledStep
<1> SUFFICES ASSUME NEW s \in DOMAIN table, Unclaimed(s)
             PROVE s \in DOMAIN table' /\ table'[s] = table[s] /\ Unclaimed(s)'
  BY DEF SettledStep
<1>1. s # claim[a]
  BY DEF Unclaimed
<1>2. s \in DOMAIN table' /\ table'[s] = table[s]
  BY <1>1 DEF Put
<1>3. Unclaimed(s)'
  BY DEF Inv, TypeOK, Unclaimed, InFlight, Ends
<1> QED BY <1>2, <1>3

\* No step changes a settled snapshot.
LEMMA SettledByStep == Inv /\ [Next]_vars => SettledStep
<1> SUFFICES ASSUME Inv, [Next]_vars PROVE SettledStep
  OBVIOUS
<1>1. CASE UNCHANGED vars
  BY <1>1 DEF vars, SettledStep, Unclaimed, InFlight
<1>2. ASSUME NEW a \in Appenders, NEW e \in EventTypes, NEW p \in Payloads, ReadHead(a, e, p)
      PROVE SettledStep
  <2>1. PICK n \in Nat : DOMAIN table = 1..n
    BY DEF Inv, Contiguous
  <2>2. NextSeq \notin DOMAIN table
    BY <2>1, HeadOfInterval DEF NextSeq
  <2>3. /\ table' = table
        /\ \A b \in InFlight' :
             \/ b \in InFlight /\ claim'[b] = claim[b]
             \/ claim'[b] = NextSeq
    BY <1>2 DEF ReadHead, Inv, TypeOK, InFlight
  <2> QED BY <2>2, <2>3 DEF SettledStep, Unclaimed
<1>3. ASSUME NEW a \in Appenders, Load(a) PROVE SettledStep
  BY <1>3 DEF Load, Inv, TypeOK, SettledStep, Unclaimed, InFlight
<1>4. ASSUME NEW a \in Appenders, Insert(a) PROVE SettledStep
  BY <1>4, SettledEndWritten DEF Insert, InFlight
<1>5. ASSUME NEW a \in Appenders, Conflict(a) PROVE SettledStep
  BY <1>5, SettledEndUnchanged DEF Conflict
<1>6. ASSUME NEW a \in Appenders, Update(a) PROVE SettledStep
  BY <1>6, SettledEndWritten DEF Update, InFlight
<1>7. ASSUME NEW a \in Appenders, Abort(a) PROVE SettledStep
  BY <1>7, SettledEndUnchanged DEF Abort
<1> QED BY <1>1, <1>2, <1>3, <1>4, <1>5, <1>6, <1>7 DEF Next

\* A snapshot that no append in flight has drafted a row for never changes again.
THEOREM SettledSnapshotsAreFinal == Spec => SettledImmutable
BY Invariance, SettledByStep, PTL DEF Spec, SettledImmutable
-----------------------------------------------------------------------------
(* One append at a time. *)

\* The append in flight is alone, and its draft is the successor of the head.
Alone ==
  /\ \A a, b \in InFlight : a = b
  /\ \A a \in InFlight :
       /\ stage[a] # "update"
       /\ claim[a] = NextSeq
       /\ draft[a]["prevHash"] = HeadHash
       /\ draft[a]["hash"] = sha256(draft[a]["payload"], HeadHash, NextSeq)

SerialInv == Inv /\ Alone /\ ChainIntact

\* On a chain without gaps a snapshot links to the one numbered just below it.
LEMMA ExpectedPrevBelow ==
  ASSUME NEW t, NEW n \in Nat, DOMAIN t = 1..n, NEW s \in 1..(n + 1)
  PROVE  ExpectedPrev(t, s) = IF s = 1 THEN Genesis ELSE t[s - 1]["hash"]
<1> DEFINE before == {k \in DOMAIN t : k < s}
<1>1. before = 1..(s - 1)
  OBVIOUS
<1>2. CASE s = 1
  BY <1>1, <1>2 DEF ExpectedPrev
<1>3. CASE s # 1
  <2>1. s - 1 \in Nat \ {0} /\ before # {}
    BY <1>1, <1>3
  <2>2. Max(before) = s - 1
    BY <1>1, <2>1, MaxOfInterval
  <2> QED BY <1>3, <2>1, <2>2 DEF ExpectedPrev
<1> QED BY <1>2, <1>3

\* The hash that append() links to is the one reconstruct() will expect.
LEMMA HeadHashBelow ==
  ASSUME NEW n \in Nat, DOMAIN table = 1..n
  PROVE  HeadHash = ExpectedPrev(table, n + 1) /\ NextSeq = n + 1
<1>1. HeadSeq = n
  BY HeadOfInterval
<1>2. ExpectedPrev(table, n + 1) = IF n + 1 = 1 THEN Genesis ELSE table[n]["hash"]
  BY ExpectedPrevBelow
<1>3. HeadHash = IF n = 0 THEN Genesis ELSE table[n]["hash"]
  BY <1>1 DEF HeadHash
<1> QED BY <1>1, <1>2, <1>3 DEF NextSeq

\* The empty chain satisfies the invariant of serial appends.
LEMMA SerialInit == Init => SerialInv
BY InitInv DEF Init, SerialInv, Alone, InFlight, ChainIntact, Reconstructs

\* Adding the drafted successor of the head keeps the chain reconstructible.
LEMMA SerialInsert ==
  ASSUME SerialInv, NEW a \in Appenders, Insert(a)
  PROVE  ChainIntact' /\ AppendOnlyStep
<1>1. PICK n \in Nat : DOMAIN table = 1..n
  BY DEF SerialInv, Inv, Contiguous
<1>2. a \in InFlight
  BY DEF Insert, InFlight
<1>3. /\ claim[a] = n + 1
      /\ draft[a]["prevHash"] = ExpectedPrev(table, n + 1)
      /\ draft[a]["hash"] = sha256(draft[a]["payload"], ExpectedPrev(table, n + 1), n + 1)
  BY <1>1, <1>2, HeadHashBelow DEF SerialInv, Alone
<1>4. /\ DOMAIN table' = 1..(n + 1)
      /\ table'[n + 1] = draft[a]
      /\ \A s \in 1..n : table'[s] = table[s]
  BY <1>1, <1>3 DEF Insert, Put
<1>5. ASSUME NEW s \in 1..(n + 1)
      PROVE  ExpectedPrev(table', s) = ExpectedPrev(table, s)
  <2>1. ExpectedPrev(table, s) = IF s = 1 THEN Genesis ELSE table[s - 1]["hash"]
    BY <1>1, ExpectedPrevBelow
  <2>2. /\ n + 1 \in Nat
        /\ s \in 1..((n + 1) + 1)
    OBVIOUS
  <2>3. ExpectedPrev(table', s) = IF s = 1 THEN Genesis ELSE table'[s - 1]["hash"]
    BY <1>4, <2>2, ExpectedPrevBelow
  <2>4. s # 1 => table'[s - 1] = table[s - 1]
    BY <1>4
  <2> QED BY <2>1, <2>3, <2>4
<1>6. ASSUME NEW s \in DOMAIN table' PROVE Sound(table', s)
  <2>1. CASE s = n + 1
    BY <1>3, <1>4, <1>5, <2>1 DEF Sound
  <2>2. CASE s # n + 1
    <3>1. s \in 1..n /\ s \in DOMAIN table
      BY <1>1, <1>4, <2>2
    <3>2. Sound(table, s)
      BY <3>1 DEF SerialInv, ChainIntact, Reconstructs
    <3>3. ExpectedPrev(table', s) = ExpectedPrev(table, s) /\ table'[s] = table[s]
      BY <1>4, <1>5, <3>1
    <3> QED BY <3>2, <3>3 DEF Sound
  <2> QED BY <2>1, <2>2
<1>7. ChainIntact'
  BY <1>6 DEF ChainIntact, Reconstructs
<1>8. AppendOnlyStep
  BY <1>1, <1>4 DEF AppendOnlyStep
<1> QED BY <1>7, <1>8

\* When the one append in flight ends, none is in flight.
LEMMA SerialEnd ==
  ASSUME SerialInv, NEW a \in InFlight, Ends(a)
  PROVE  Alone'
<1>1. InFlight' = {}
  BY DEF SerialInv, Inv, TypeOK, Alone, Ends, InFlight
<1> QED BY <1>1 DEF Alone

\* The append that starts is alone, and has drafted a sound successor of the head.
LEMMA SerialReadHead ==
  ASSUME SerialInv, Overlap = FALSE, NEW a \in Appenders,
         NEW e \in EventTypes, NEW p \in Payloads, ReadHead(a, e, p)
  PROVE  Alone'
<1>1. InFlight' = {a} /\ UNCHANGED table
  BY DEF SerialInv, Inv, TypeOK, ReadHead, InFlight
<1>2. HeadHash' = HeadHash /\ NextSeq' = NextSeq
  BY <1>1 DEF HeadHash, NextSeq, HeadSeq
<1>3. /\ stage'[a] = "drafted" /\ claim'[a] = NextSeq
      /\ draft'[a] = Snapshot(e, p, HeadHash, NextSeq)
  BY DEF SerialInv, Inv, TypeOK, ReadHead
<1>4. /\ draft'[a]["payload"] = p
      /\ draft'[a]["prevHash"] = HeadHash
      /\ draft'[a]["hash"] = sha256(p, HeadHash, NextSeq)
  BY <1>3, SnapshotIsRow
<1> QED BY <1>1, <1>2, <1>3, <1>4 DEF Alone

\* The head has not moved since it was read, so save() chooses INSERT.
LEMMA SerialLoad ==
  ASSUME SerialInv, NEW a \in Appenders, Load(a)
  PROVE  Alone'
<1>1. PICK n \in Nat : DOMAIN table = 1..n
  BY DEF SerialInv, Inv, Contiguous
<1>2. a \in InFlight
  BY DEF Load, InFlight
<1>3. claim[a] \notin DOMAIN table
  BY <1>1, <1>2, HeadHashBelow DEF SerialInv, Alone
<1>4. /\ stage' = [stage EXCEPT ![a] = "insert"]
      /\ UNCHANGED <<table, claim, draft>>
  BY <1>3 DEF Load
<1>5. InFlight' = InFlight /\ \A b \in InFlight' : stage'[b] # "update"
  BY <1>2, <1>4 DEF SerialInv, Inv, TypeOK, Alone, InFlight
<1>6. HeadHash' = HeadHash /\ NextSeq' = NextSeq
  BY <1>4 DEF HeadHash, NextSeq, HeadSeq
<1> QED BY <1>4, <1>5, <1>6 DEF SerialInv, Alone

\* Every step of serial appends preserves their invariant and every snapshot.
LEMMA SerialStep ==
  ASSUME Overlap = FALSE, SerialInv, [Next]_vars
  PROVE  SerialInv' /\ AppendOnlyStep
<1>0. Inv'
  BY StepInv DEF SerialInv
<1>a. table' = table => ChainIntact' /\ AppendOnlyStep
  BY DEF SerialInv, ChainIntact, AppendOnlyStep
<1>1. CASE UNCHANGED vars
  BY <1>0, <1>1, <1>a DEF vars, SerialInv, Alone, InFlight, HeadHash, NextSeq, HeadSeq
<1>2. ASSUME NEW a \in Appenders, NEW e \in EventTypes, NEW p \in Payloads, ReadHead(a, e, p)
      PROVE  SerialInv' /\ AppendOnlyStep
  <2>1. UNCHANGED table
    BY <1>2 DEF ReadHead
  <2> QED BY <1>0, <1>2, <1>a, <2>1, SerialReadHead DEF SerialInv
<1>3. ASSUME NEW a \in Appenders, Load(a)
      PROVE  SerialInv' /\ AppendOnlyStep
  <2>1. UNCHANGED table
    BY <1>3 DEF Load
  <2> QED BY <1>0, <1>3, <1>a, <2>1, SerialLoad DEF SerialInv
<1>4. ASSUME NEW a \in Appenders, Insert(a)
      PROVE  SerialInv' /\ AppendOnlyStep
  <2>1. a \in InFlight /\ Ends(a)
    BY <1>4 DEF Insert, InFlight
  <2> QED BY <1>0, <1>4, <2>1, SerialInsert, SerialEnd DEF SerialInv
<1>5. ASSUME NEW a \in Appenders, Conflict(a) \/ Abort(a)
      PROVE  SerialInv' /\ AppendOnlyStep
  <2>1. a \in InFlight /\ Ends(a) /\ UNCHANGED table
    BY <1>5 DEF Conflict, Abort, InFlight
  <2> QED BY <1>0, <1>a, <2>1, SerialEnd DEF SerialInv
<1>6. ASSUME NEW a \in Appenders, Update(a)
      PROVE  FALSE
  BY <1>6 DEF Update, SerialInv, Alone, InFlight
<1> QED BY <1>1, <1>2, <1>3, <1>4, <1>5, <1>6 DEF Next

\* The invariant of serial appends holds in every reachable state.
LEMMA SerialInvariance ==
  ASSUME Overlap = FALSE
  PROVE  Spec => []SerialInv
<1>1. SerialInv /\ [Next]_vars => SerialInv'
  BY SerialStep
<1> QED BY <1>1, SerialInit, PTL DEF Spec

\* When appends do not overlap, reconstruct() always finds the chain intact.
THEOREM SerialChainIntact ==
  ASSUME Overlap = FALSE
  PROVE  Spec => []ChainIntact
<1>1. SerialInv => ChainIntact
  BY DEF SerialInv
<1> QED BY <1>1, SerialInvariance, PTL

\* When appends do not overlap, no appended snapshot is ever changed or removed.
THEOREM SerialAppendOnly ==
  ASSUME Overlap = FALSE
  PROVE  Spec => AppendOnly
<1>1. SerialInv /\ [Next]_vars => AppendOnlyStep
  BY SerialStep
<1> QED BY <1>1, SerialInvariance, PTL DEF Spec, AppendOnly
-----------------------------------------------------------------------------
(* The refinement of AppendOnlyLog. *)

Event(row) == [eventType |-> row["eventType"], payload |-> row["payload"]]

\* The refinement mapping on a chain without gaps.
LEMMA RecordedOfInterval ==
  ASSUME NEW n \in Nat, DOMAIN table = 1..n
  PROVE  Recorded = [s \in 1..n |-> Event(table[s])]
BY HeadOfInterval DEF Recorded, Event

\* An insertion records the drafted event at the end of the log.
LEMMA InsertRecords ==
  ASSUME SerialInv, NEW a \in Appenders, Insert(a)
  PROVE  Log!LogNext
<1>1. PICK n \in Nat : DOMAIN table = 1..n
  BY DEF SerialInv, Inv, Contiguous
<1>2. a \in InFlight
  BY DEF Insert, InFlight
<1>3. claim[a] = n + 1
  BY <1>1, <1>2, HeadHashBelow DEF SerialInv, Alone
<1>4. /\ DOMAIN table' = 1..(n + 1)
      /\ table'[n + 1] = draft[a]
      /\ \A s \in 1..n : table'[s] = table[s]
  BY <1>1, <1>3 DEF Insert, Put
<1>5. Event(draft[a]) \in [eventType : EventTypes, payload : Payloads]
  BY <1>2 DEF SerialInv, Inv, TypeOK, Event
<1>6. \A s \in DOMAIN table : Event(table[s]) \in [eventType : EventTypes, payload : Payloads]
  BY DEF SerialInv, Inv, TypeOK, Event
<1>7. Recorded = [s \in 1..n |-> Event(table[s])]
  BY <1>1, RecordedOfInterval
<1>8. Recorded' = [s \in 1..(n + 1) |-> Event(table'[s])]
  <2>1. HeadSeq' = n + 1
    <3>1. Max(1..(n + 1)) = n + 1
      BY MaxOfInterval
    <3> QED BY <1>4, <3>1 DEF HeadSeq
  <2> QED BY <2>1 DEF Recorded, Event
<1>9. Recorded' = Append(Recorded, Event(draft[a]))
  <2>1. /\ Recorded \in Seq([eventType : EventTypes, payload : Payloads])
        /\ Len(Recorded) = n
    BY <1>1, <1>6, <1>7
  <2>2. Recorded' = [s \in 1..(n + 1) |-> IF s = n + 1 THEN Event(draft[a]) ELSE Recorded[s]]
    BY <1>4, <1>7, <1>8
  <2> QED BY <2>1, <2>2
<1> QED BY <1>5, <1>9 DEF Log!LogNext, Log!Record

\* Every step of serial appends records one event in the log, or none.
LEMMA SerialRefinement ==
  ASSUME Overlap = FALSE, SerialInv, [Next]_vars
  PROVE  [Log!LogNext]_Recorded
<1>1. CASE UNCHANGED table
  BY <1>1 DEF Recorded, HeadSeq
<1>2. ASSUME NEW a \in Appenders, Insert(a) PROVE Log!LogNext
  BY <1>2, InsertRecords
<1>3. ASSUME NEW a \in Appenders, Update(a) PROVE FALSE
  BY <1>3 DEF Update, SerialInv, Alone, InFlight
<1>4. CASE UNCHANGED vars
  BY <1>1, <1>4 DEF vars
<1>5. ASSUME NEW a \in Appenders,
             Load(a) \/ Conflict(a) \/ Abort(a) \/ \E e \in EventTypes, p \in Payloads : ReadHead(a, e, p)
      PROVE  UNCHANGED table
  BY <1>5 DEF Load, Conflict, Abort, ReadHead
<1> QED BY <1>1, <1>2, <1>3, <1>4, <1>5 DEF Next

\* When appends do not overlap, NodeChain implements the append-only log.
THEOREM SerialImplementsLog ==
  ASSUME Overlap = FALSE
  PROVE  Spec => ImplementsLog
<1>1. Init => Log!LogInit
  <2> SUFFICES ASSUME Init PROVE Recorded = << >>
    BY DEF Log!LogInit
  <2>1. DOMAIN table = 1..0
    BY DEF Init
  <2> QED BY <2>1, RecordedOfInterval
<1>2. SerialInv /\ [Next]_vars => [Log!LogNext]_Recorded
  BY SerialRefinement
<1> QED BY <1>1, <1>2, SerialInvariance, PTL DEF Spec, ImplementsLog, Log!LogSpec
=============================================================================
