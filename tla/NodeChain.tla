----------------------------- MODULE NodeChain -----------------------------
(***************************************************************************)
(* NodeChainService (src/nodechain/nodechain.service.ts): the hash-linked  *)
(* system of record.  append() runs in one READ COMMITTED transaction:     *)
(*                                                                         *)
(*   ReadHead   SELECT the row with the highest sequenceId, and draft its  *)
(*              successor from it;                                         *)
(*   Load       the first half of TypeORM's save(): SELECT the row that    *)
(*              has the draft's primary key, and note the columns in which *)
(*              the draft differs from it;                                 *)
(*   Insert, Conflict, Update                                              *)
(*              the second half of save() and the commit: INSERT if Load   *)
(*              found no row (which the primary key refuses if one has     *)
(*              appeared since), otherwise UPDATE the noted columns.       *)
(*                                                                         *)
(* Other appends can run between these steps, since READ COMMITTED takes   *)
(* no lock on the head.  A write and its commit are one step: a concurrent *)
(* writer of the same key waits for the first one to commit.               *)
(*                                                                         *)
(* The timestamp column is left out: neither the hash nor reconstruct()    *)
(* reads it.                                                               *)
(***************************************************************************)
EXTENDS Naturals, Sequences, FiniteSetsExt

CONSTANTS
  Appenders,    \* the calls of append() that can be in flight
  EventTypes,
  Payloads,
  MaxHeight,    \* bound: no append starts on a chain of this many snapshots
  Overlap       \* FALSE: an append starts only when no other is in flight

ASSUME HeightAssumption == MaxHeight \in Nat \ {0}
ASSUME OverlapAssumption == Overlap \in BOOLEAN

VARIABLES
  table,   \* execution_snapshots: sequenceId -> row
  stage,   \* where each append is in its transaction
  claim,   \* the sequenceId each append in flight has drafted a row for
  draft,   \* that row
  diff     \* the columns its save() will UPDATE

vars == <<table, stage, claim, draft, diff>>

Columns == {"eventType", "payload", "prevHash", "hash"}

\* sha256 without collisions: a digest is the tuple of what was hashed.
sha256(payload, prevHash, sequenceId) == <<payload, prevHash, sequenceId>>

Genesis == << >>

NoRow == [c \in Columns |-> Genesis]

Snapshot(eventType, payload, prevHash, sequenceId) ==
  [c \in Columns |->
     CASE c = "eventType" -> eventType
       [] c = "payload"   -> payload
       [] c = "prevHash"  -> prevHash
       [] c = "hash"      -> sha256(payload, prevHash, sequenceId)]

-----------------------------------------------------------------------------
(* The read operations. *)

\* The sequenceId of latest(), or 0 when the chain is empty.
HeadSeq == IF DOMAIN table = {} THEN 0 ELSE Max(DOMAIN table)

\* Mutation: links to the hash the head itself links to.
HeadHashSkipped ==
  IF DOMAIN table = {} THEN Genesis ELSE table[HeadSeq]["prevHash"]

HeadHash == IF DOMAIN table = {} THEN Genesis ELSE table[HeadSeq]["hash"]

\* The hash that reconstruct() expects the snapshot at s to link to: that of
\* the snapshot listed before it.
ExpectedPrev(t, s) ==
  LET before == {k \in DOMAIN t : k < s}
  IN  IF before = {} THEN Genesis ELSE t[Max(before)]["hash"]

Sound(t, s) ==
  /\ t[s]["prevHash"] = ExpectedPrev(t, s)
  /\ t[s]["hash"] = sha256(t[s]["payload"], ExpectedPrev(t, s), s)

\* reconstruct().ok
Reconstructs(t) == \A s \in DOMAIN t : Sound(t, s)

-----------------------------------------------------------------------------
(* TypeORM's save() of a row with a primary key: UPDATE writes the columns *)
(* in which the entity differed from the row that was loaded.              *)

Changed(row, entity) == {c \in Columns : row[c] # entity[c]}

\* Mutation: REPLACE instead of UPDATE, the other columns are dropped.
PatchReplaces(row, entity, columns) == [c \in columns |-> entity[c]]

Patch(row, entity, columns) ==
  [c \in Columns |-> IF c \in columns THEN entity[c] ELSE row[c]]

Put(t, s, row) == [k \in DOMAIN t \cup {s} |-> IF k = s THEN row ELSE t[k]]

-----------------------------------------------------------------------------
Init ==
  /\ table = << >>
  /\ stage = [a \in Appenders |-> "idle"]
  /\ claim = [a \in Appenders |-> 0]
  /\ draft = [a \in Appenders |-> NoRow]
  /\ diff = [a \in Appenders |-> {}]

InFlight == {a \in Appenders : stage[a] # "idle"}

\* Mutation: sequenceIds are reserved for the appends in flight.
NextSeqReserved == HeadSeq + 1 + Cardinality(InFlight)

\* Mutation: off by one, the head's own sequenceId.
NextSeqOfHead == IF HeadSeq = 0 THEN 1 ELSE HeadSeq

NextSeq == HeadSeq + 1

ReadHead(a, eventType, payload) ==
  /\ stage[a] = "idle"
  /\ Overlap \/ InFlight = {}
  /\ HeadSeq < MaxHeight
  /\ stage' = [stage EXCEPT ![a] = "drafted"]
  /\ claim' = [claim EXCEPT ![a] = NextSeq]
  /\ draft' = [draft EXCEPT ![a] = Snapshot(eventType, payload, HeadHash, NextSeq)]
  /\ UNCHANGED <<table, diff>>

Load(a) ==
  /\ stage[a] = "drafted"
  /\ \/ /\ claim[a] \notin DOMAIN table
        /\ stage' = [stage EXCEPT ![a] = "insert"]
        /\ UNCHANGED diff
     \/ /\ claim[a] \in DOMAIN table
        /\ stage' = [stage EXCEPT ![a] = "update"]
        /\ diff' = [diff EXCEPT ![a] = Changed(table[claim[a]], draft[a])]
  /\ UNCHANGED <<table, claim, draft>>

\* The transaction of a ends, committed or rolled back.
Ends(a) ==
  /\ stage' = [stage EXCEPT ![a] = "idle"]
  /\ claim' = [claim EXCEPT ![a] = 0]
  /\ draft' = [draft EXCEPT ![a] = NoRow]
  /\ diff' = [diff EXCEPT ![a] = {}]

Insert(a) ==
  /\ stage[a] = "insert"
  /\ claim[a] \notin DOMAIN table
  /\ table' = Put(table, claim[a], draft[a])
  /\ Ends(a)

\* INSERT violates the primary key: the transaction is rolled back, append() throws.
Conflict(a) ==
  /\ stage[a] = "insert"
  /\ claim[a] \in DOMAIN table
  /\ Ends(a)
  /\ UNCHANGED table

Update(a) ==
  /\ stage[a] = "update"
  /\ table' = Put(table, claim[a], Patch(table[claim[a]], draft[a], diff[a]))
  /\ Ends(a)

\* The database fails or the process stops: the transaction is rolled back.
Abort(a) ==
  /\ stage[a] # "idle"
  /\ Ends(a)
  /\ UNCHANGED table

Next ==
  \E a \in Appenders :
    \/ \E e \in EventTypes, p \in Payloads : ReadHead(a, e, p)
    \/ Load(a)
    \/ Insert(a)
    \/ Conflict(a)
    \/ Update(a)
    \/ Abort(a)

Spec == Init /\ [][Next]_vars

-----------------------------------------------------------------------------
(* Properties of every interleaving. *)

IsRow(r) == DOMAIN r = Columns

\* Rows have all columns; event types and payloads are ones a caller passed.
TypeOK ==
  /\ DOMAIN table \subseteq Nat
  /\ \A s \in DOMAIN table :
       /\ IsRow(table[s])
       /\ table[s]["eventType"] \in EventTypes
       /\ table[s]["payload"] \in Payloads
  /\ stage \in [Appenders -> {"idle", "drafted", "insert", "update"}]
  /\ claim \in [Appenders -> Nat]
  /\ diff \in [Appenders -> SUBSET Columns]
  /\ DOMAIN draft = Appenders
  /\ \A a \in InFlight :
       /\ IsRow(draft[a])
       /\ draft[a]["eventType"] \in EventTypes
       /\ draft[a]["payload"] \in Payloads

\* Whatever append() calls overlap, conflict or fail, the sequenceIds stay
\* 1, 2, 3, ... without a gap, and an append in flight has drafted a row for
\* one of them or for the next (the sequence monotonicity that the comment
\* on append() promises).
NoGaps ==
  /\ DOMAIN table = 1..HeadSeq
  /\ \A a \in InFlight : claim[a] \in 1..(HeadSeq + 1)

\* No append in flight has a row for sequenceId s.
Unclaimed(s) == \A a \in InFlight : claim[a] # s

\* A snapshot that no append in flight has drafted a row for is final: no
\* step of append() changes or removes it, or ever drafts a row for it again.
SettledStep ==
  \A s \in DOMAIN table :
    Unclaimed(s) => /\ s \in DOMAIN table'
                    /\ table'[s] = table[s]
                    /\ Unclaimed(s)'

SettledImmutable == [][SettledStep]_vars

(* Properties that hold when appends do not overlap. *)

\* reconstruct() never reports a break (I-NC-2, hash continuity).
ChainIntact == Reconstructs(table)

\* No snapshot that has been appended is changed or removed (I-NC-1, I8).
AppendOnlyStep ==
  \A s \in DOMAIN table : s \in DOMAIN table' /\ table'[s] = table[s]

AppendOnly == [][AppendOnlyStep]_vars

\* The recorded events, as a caller of list() sees them.
Recorded ==
  [s \in 1..HeadSeq |-> [eventType |-> table[s]["eventType"],
                        payload |-> table[s]["payload"]]]

Log == INSTANCE AppendOnlyLog
         WITH log <- Recorded,
              Events <- [eventType : EventTypes, payload : Payloads]

\* The chain implements an append-only log.
ImplementsLog == Log!LogSpec
=============================================================================
