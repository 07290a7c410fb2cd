-------------------------- MODULE OversightProofs --------------------------
(***************************************************************************)
(* Proofs about the Oversight Ledger of Books.tla, for any number of calls *)
(* and faults.                                                             *)
(*                                                                         *)
(* What verifyLog() sees does not say enough of the entries being written: *)
(* EyeInv adds that an entry in flight links to a committed one, that its  *)
(* id is its own and later than all that it can link to, and that its time *)
(* is not past the clock of the process that is writing it.                *)
(***************************************************************************)
EXTENDS Books, WellFoundedInduction, TLAPS

EyeTyped ==
  /\ pc \in [Calls -> Labels]
  /\ entry \in [Calls -> Entry]
  /\ entries \subseteq Entry
  /\ clock \in Nat /\ boot \in Nat /\ nextId \in Nat \ {0}

Ids == {e.id : e \in entries}

LogOK ==
  /\ \A e \in entries :
       /\ 0 < e.id /\ e.id < nextId
       /\ e.prev \in Ids \cup {0} /\ e.prev < e.id
       /\ e.boot <= boot /\ (e.boot = boot => e.time <= clock)
  /\ \A e, f \in entries : e.id = f.id => e = f

InFlight(c) == pc[c] \in {"insert", "commit"}

FlightOK(c) ==
  /\ InFlight(c) =>
       /\ entry[c].prev \in Ids \cup {0}
       /\ entry[c].boot = boot /\ entry[c].time <= clock
       /\ \A f \in entries : f.id = entry[c].prev /\ f.boot = boot => f.time < entry[c].time
  /\ pc[c] = "commit" =>
       /\ 0 < entry[c].id /\ entry[c].id < nextId
       /\ entry[c].id \notin Ids /\ entry[c].prev < entry[c].id
       /\ \A d \in Calls \ {c} : pc[d] = "commit" => entry[d].id # entry[c].id

EyeInv == EyeTyped /\ LogOK /\ LinksFollowTheClock /\ \A c \in Calls : FlightOK(c)

-----------------------------------------------------------------------------
(* Sets of naturals. *)

(* A nonempty set of naturals has a least element. *)
LEMMA LeastExists ==
  ASSUME NEW S \in SUBSET Nat, S # {}
  PROVE  \E x \in S : \A y \in S : x <= y
<1> DEFINE Less == {ss \in Nat \X Nat : ss[1] < ss[2]}
<1>1. IsWellFoundedOn(Less, Nat)
  BY NatLessThanWellFounded DEF OpToRel
<1>2. PICK x \in S : \A y \in S : <<y, x>> \notin Less
  <2> HIDE DEF Less
  <2> QED  BY <1>1, WFMin
<1>3. ASSUME NEW y \in S  PROVE x <= y
  <2>1. x \in Nat /\ y \in Nat /\ <<y, x>> \in Nat \X Nat
    OBVIOUS
  <2>2. ~(y < x)
    BY <1>2, <2>1
  <2> QED  BY <2>1, <2>2
<1> QED  BY <1>3

\* A nonempty set of naturals with a bound has its maximum.
LEMMA MaxOfBounded ==
  ASSUME NEW S \in SUBSET Nat, S # {}, NEW b \in Nat, \A s \in S : s <= b
  PROVE  Max(S) \in S /\ \A y \in S : y <= Max(S)
<1> DEFINE T == {b - s : s \in S}
<1>1. T \in SUBSET Nat /\ T # {}
  <2>1. \A s \in S : b - s \in Nat
    OBVIOUS
  <2> QED  BY <2>1
<1>2. PICK t \in T : \A u \in T : t <= u
  <2> HIDE DEF T
  <2> QED  BY <1>1, LeastExists
<1>3. PICK x \in S : t = b - x
  OBVIOUS
<1>4. ASSUME NEW y \in S  PROVE x >= y
  <2>1. b - x <= b - y
    BY <1>2, <1>3
  <2> QED  BY <2>1
<1>5. \E z \in S : \A y \in S : z >= y
  BY <1>4
<1>6. Max(S) \in S /\ \A y \in S : Max(S) >= y
  BY <1>5 DEF Max
<1>7. \A y \in S : Max(S) \in Nat /\ y \in Nat
  BY <1>6
<1> QED  BY <1>6, <1>7

-----------------------------------------------------------------------------
(* What verifyLog() sees. *)

Before(e) == {f.id : f \in {g \in entries : g.id < e.id}} \cup {0}

(* The ids before an entry have a largest one, and its link is among them. *)
LEMMA LastBefore ==
  ASSUME EyeTyped, LogOK, NEW e \in entries
  PROVE  /\ Max(Before(e)) \in Before(e) /\ \A y \in Before(e) : y <= Max(Before(e))
         /\ Before(e) \subseteq Nat /\ \A y \in Before(e) : y < e.id
         /\ e.prev \in Before(e)
<1>1. e.id \in Nat /\ 0 < e.id /\ e.prev \in Nat /\ \A g \in entries : g.id \in Nat
  BY DEF EyeTyped, LogOK, Entry
<1>2. Before(e) \in SUBSET Nat /\ Before(e) # {} /\ \A y \in Before(e) : y <= e.id
  BY <1>1 DEF Before
<1>3. \A y \in Before(e) : y < e.id
  BY <1>1 DEF Before
<1>4. e.prev \in Before(e)
  BY DEF LogOK, Ids, Before
<1> QED  BY <1>1, <1>2, <1>3, <1>4, MaxOfBounded

(* verifyLog() finds a break exactly when two entries link to the same one. *)
LEMMA ForkFromInv ==
  ASSUME EyeTyped, LogOK
  PROVE  ForkIsTheOnlyBreak
<1>1. VerifyLog <=> \A e \in entries : e.prev = Max(Before(e))
  BY DEF VerifyLog, Before
<1>2. \A e \in entries : e.id \in Nat /\ e.prev \in Nat
  BY DEF EyeTyped, Entry
\* A link to the entry before it is the only link to that entry.
<1>3. ASSUME \A e \in entries : e.prev = Max(Before(e)),
             NEW e \in entries, NEW f \in entries, e.prev = f.prev
      PROVE  e = f
  <2>1. ASSUME NEW g \in entries, NEW h \in entries, g.id < h.id  PROVE g.prev < h.prev
    <3>1. g.id \in Before(h)
      BY <2>1 DEF Before
    <3>2. g.id <= h.prev
      BY <1>3, <3>1, LastBefore
    <3>3. g.prev < g.id
      BY DEF LogOK
    <3> QED  BY <1>2, <3>2, <3>3
  <2>2. ~(e.id < f.id) /\ ~(f.id < e.id)
    BY <1>2, <1>3, <2>1
  <2>3. e.id = f.id
    BY <1>2, <2>2
  <2> QED  BY <2>3 DEF LogOK
\* The first entry that links further back shares its link with an earlier one.
<1>4. ASSUME \A e, f \in entries : e.prev = f.prev => e = f,
             NEW x \in entries, x.prev # Max(Before(x))
      PROVE  FALSE
  <2> DEFINE Bad == {e \in entries : e.prev # Max(Before(e))}
  <2> DEFINE BadIds == {e.id : e \in Bad}
  <2>1. BadIds \in SUBSET Nat /\ BadIds # {}
    BY <1>2, <1>4
  <2>2. PICK i \in BadIds : \A j \in BadIds : i <= j
    <3> HIDE DEF BadIds
    <3> QED  BY <2>1, LeastExists
  <2>3. PICK e \in Bad : e.id = i
    OBVIOUS
  <2>4. \A g \in entries : g.id < e.id => g.prev = Max(Before(g))
    <3> SUFFICES ASSUME NEW g \in entries, g.id < e.id, g.prev # Max(Before(g))  PROVE FALSE
      OBVIOUS
    <3>1. g.id \in BadIds
      OBVIOUS
    <3>2. e.id <= g.id
      BY <2>2, <2>3, <3>1
    <3> QED  BY <1>2, <3>2
  <2>5. e \in entries /\ e.prev # Max(Before(e))
    OBVIOUS
  <2> HIDE DEF Bad, BadIds
  <2> DEFINE Between == {y \in Before(e) : e.prev < y}
  <2>6. Max(Before(e)) \in Between /\ Between \in SUBSET Nat
    BY <1>2, <2>5, LastBefore
  <2>7. PICK s \in Between : \A y \in Between : s <= y
    <3> HIDE DEF Between
    <3> QED  BY <2>6, LeastExists
  <2>8. s \in Nat /\ e.prev < s /\ s < e.id /\ s \in Before(e)
    BY <2>5, <2>6, <2>7, LastBefore
  <2>9. PICK g \in entries : g.id = s
    BY <1>2, <2>5, <2>8 DEF Before
  <2>10. g.prev = Max(Before(g))
    BY <2>4, <2>8, <2>9
  <2>11. e.prev \in Before(g)
    <3>1. e.prev \in Before(e)
      BY <2>5, LastBefore
    <3> QED  BY <2>8, <2>9, <3>1 DEF Before
  <2>12. e.prev <= g.prev /\ g.prev \in Before(g) /\ g.prev < s
    BY <2>9, <2>10, <2>11, LastBefore
  <2>13. ~(e.prev < g.prev)
    <3> SUFFICES ASSUME e.prev < g.prev  PROVE FALSE
      OBVIOUS
    <3>1. g.prev \in Before(e)
      BY <1>2, <2>5, <2>8, <2>9, <2>12 DEF Before
    <3>2. s <= g.prev
      BY <2>7, <3>1
    <3> QED  BY <1>2, <2>8, <2>12, <3>2
  <2>14. e.prev = g.prev
    BY <1>2, <2>5, <2>12, <2>13
  <2>15. e = g
    BY <1>4, <2>5, <2>14
  <2> QED  BY <1>2, <2>5, <2>8, <2>9, <2>15
<1> QED  BY <1>1, <1>3, <1>4 DEF ForkIsTheOnlyBreak

-----------------------------------------------------------------------------
(* Steps. *)

\* A step that leaves the log alone, and every entry that stays in flight.
LEMMA EyeQuiet ==
  ASSUME EyeInv, UNCHANGED <<eyeVars, boot>>,
         pc' \in [Calls -> Labels], entry' \in [Calls -> Entry],
         \A c \in Calls : InFlight(c)' => pc'[c] = pc[c] /\ entry'[c] = entry[c]
  PROVE  EyeInv'
<1>1. clock' = clock /\ entries' = entries /\ nextId' = nextId /\ boot' = boot
  BY DEF eyeVars
<1>2. EyeTyped' /\ LogOK' /\ LinksFollowTheClock'
  BY <1>1 DEF EyeInv, EyeTyped, LogOK, LinksFollowTheClock, Ids
<1>3. ASSUME NEW c \in Calls  PROVE FlightOK(c)'
  <2>1. FlightOK(c) /\ Ids' = Ids
    BY <1>1 DEF EyeInv, Ids
  <2>2. \A d \in Calls : pc'[d] = "commit" => pc[d] = "commit" /\ entry'[d] = entry[d]
    BY DEF InFlight
  <2>3. InFlight(c)' => pc'[c] = pc[c] /\ entry'[c] = entry[c] /\ InFlight(c)
    BY DEF InFlight
  <2> QED  BY <1>1, <2>1, <2>2, <2>3 DEF FlightOK, InFlight
<1> QED  BY <1>2, <1>3 DEF EyeInv

(* A call that leaves without writing the log preserves the invariant. *)
LEMMA LeaveQuiet ==
  ASSUME EyeInv, UNCHANGED <<eyeVars, boot>>, NEW c \in Calls,
         NEW label \in Labels \ {"insert", "commit"}, Leave(c, label)
  PROVE  EyeInv'
<1> DEFINE C == IF label \in Ended THEN {c} ELSE {}
<1>1. pc' = [pc EXCEPT ![c] = label] /\ entry' = [d \in Calls |-> IF d \in C THEN NoEntry ELSE entry[d]]
  BY DEF Leave, Goto, Forget
<1>2. pc' \in [Calls -> Labels] /\ entry' \in [Calls -> Entry]
  BY <1>1 DEF EyeInv, EyeTyped, NoEntry, Entry
<1>3. \A d \in Calls : InFlight(d)' => pc'[d] = pc[d] /\ entry'[d] = entry[d]
  BY <1>1 DEF InFlight, EyeInv, EyeTyped
<1> QED  BY <1>2, <1>3, EyeQuiet

(* A call that moves on outside log() preserves the invariant. *)
LEMMA GotoQuiet ==
  ASSUME EyeInv, UNCHANGED <<eyeVars, boot>>, NEW c \in Calls, entry' = entry,
         NEW label \in Labels \ {"insert", "commit"}, Goto(c, label)
  PROVE  EyeInv'
<1>1. pc' \in [Calls -> Labels] /\ \A d \in Calls : InFlight(d)' => pc'[d] = pc[d]
  BY DEF EyeInv, EyeTyped, Goto, InFlight
<1> QED  BY <1>1, EyeQuiet DEF EyeInv, EyeTyped

(* A step that touches neither the log nor its writers preserves the invariant. *)
LEMMA StayQuiet ==
  ASSUME EyeInv, UNCHANGED <<eyeVars, boot>>, UNCHANGED <<pc, entry>>
  PROVE  EyeInv'
BY EyeQuiet DEF EyeInv, EyeTyped

(* The head of the log is the id of a committed entry, or 0 for GENESIS. *)
LEMMA HeadFacts ==
  ASSUME EyeTyped, LogOK
  PROVE  Head \in Ids \cup {0} /\ Head \in Nat
<1> DEFINE S == Ids \cup {0}
<1>1. S \in SUBSET Nat /\ S # {} /\ \A s \in S : s <= nextId
  BY DEF EyeTyped, LogOK, Ids, Entry
<1>2. nextId \in Nat
  BY DEF EyeTyped
<1>3. Head = Max(S)
  BY DEF Head, Ids
<1> HIDE DEF S
<1>4. Max(S) \in S
  BY <1>1, <1>2, MaxOfBounded
<1> QED  BY <1>1, <1>3, <1>4 DEF S

(* Reading the head preserves the invariant. *)
LEMMA ReadHeadEye ==
  ASSUME EyeInv, NEW c \in Calls, ReadHead(c)
  PROVE  EyeInv'
<1> DEFINE new == [id |-> 0, prev |-> Head, time |-> clock + 1, boot |-> boot]
<1>1. /\ clock' = clock + 1 /\ entries' = entries /\ nextId' = nextId /\ boot' = boot
      /\ entry' = [entry EXCEPT ![c] = new] /\ pc' = [pc EXCEPT ![c] = "insert"]
  BY DEF ReadHead, Goto
<1>2. EyeTyped /\ LogOK /\ LinksFollowTheClock /\ \A d \in Calls : FlightOK(d)
  BY DEF EyeInv
<1>3. Head \in Ids \cup {0} /\ Head \in Nat
  BY <1>2, HeadFacts
<1>4. new \in Entry
  BY <1>2, <1>3 DEF EyeTyped, Entry
<1>5. EyeTyped'
  BY <1>1, <1>2, <1>4 DEF EyeTyped, Labels
<1>6. LogOK' /\ LinksFollowTheClock'
  <2>1. \A e \in entries : e.time \in Nat
    BY <1>2 DEF EyeTyped, Entry
  <2>2. \A e \in entries : e.boot = boot => e.time <= clock + 1
    BY <1>2, <2>1 DEF LogOK, EyeTyped
  <2> QED  BY <1>1, <1>2, <2>2 DEF LogOK, LinksFollowTheClock, Ids
<1>7. FlightOK(c)'
  <2>1. pc'[c] = "insert" /\ entry'[c] = new
    BY <1>1, <1>2 DEF EyeTyped
  <2>2. \A f \in entries : f.boot = boot => f.time < clock + 1
    BY <1>2 DEF LogOK, EyeTyped, Entry
  <2>3. Ids' = Ids
    BY <1>1 DEF Ids
  <2>4. new.prev = Head /\ new.boot = boot /\ new.time = clock + 1
    OBVIOUS
  <2>5. clock + 1 <= clock + 1
    BY <1>2 DEF EyeTyped
  <2> HIDE DEF new
  <2> QED  BY <1>1, <1>3, <2>1, <2>2, <2>3, <2>4, <2>5 DEF FlightOK, InFlight
<1>8. ASSUME NEW d \in Calls \ {c}  PROVE FlightOK(d)'
  <2>1. pc'[d] = pc[d] /\ entry'[d] = entry[d] /\ FlightOK(d) /\ Ids' = Ids
    BY <1>1, <1>2 DEF EyeTyped, Ids
  <2>2. \A b \in Calls : pc'[b] = "commit" => pc[b] = "commit" /\ entry'[b] = entry[b]
    BY <1>1, <1>2 DEF EyeTyped
  <2>3. InFlight(d) => entry[d].time <= clock + 1
    BY <1>2, <2>1 DEF FlightOK, EyeTyped, Entry
  <2> QED  BY <1>1, <2>1, <2>2, <2>3 DEF FlightOK, InFlight
<1> QED  BY <1>5, <1>6, <1>7, <1>8 DEF EyeInv

(* The INSERT, which draws an id, preserves the invariant. *)
LEMMA InsertEntryEye ==
  ASSUME EyeInv, NEW c \in Calls, InsertEntry(c)
  PROVE  EyeInv'
<1>1. /\ clock' = clock /\ entries' = entries /\ nextId' = nextId + 1 /\ boot' = boot
      /\ entry' = [entry EXCEPT ![c].id = nextId] /\ pc' = [pc EXCEPT ![c] = "commit"]
      /\ pc[c] = "insert"
  BY DEF InsertEntry, Goto
<1>2. EyeTyped /\ LogOK /\ LinksFollowTheClock /\ \A d \in Calls : FlightOK(d)
  BY DEF EyeInv
<1>3. /\ entry'[c] \in Entry /\ entry'[c].id = nextId /\ entry'[c].prev = entry[c].prev
      /\ entry'[c].boot = entry[c].boot /\ entry'[c].time = entry[c].time
      /\ pc'[c] = "commit" /\ entry[c] \in Entry
      /\ \A d \in Calls \ {c} : entry'[d] = entry[d] /\ pc'[d] = pc[d]
  BY <1>1, <1>2 DEF EyeTyped, Entry
<1>4. EyeTyped'
  <2>1. entry' \in [Calls -> Entry] /\ pc' \in [Calls -> Labels]
    BY <1>1, <1>2, <1>3 DEF EyeTyped, Labels
  <2> QED  BY <1>1, <1>2, <2>1 DEF EyeTyped
<1>5. Ids' = Ids /\ nextId \notin Ids /\ \A i \in Ids \cup {0} : i \in Nat /\ i < nextId
  BY <1>1, <1>2 DEF Ids, LogOK, EyeTyped, Entry
<1>6. LogOK' /\ LinksFollowTheClock'
  BY <1>1, <1>2, <1>5 DEF LogOK, LinksFollowTheClock, EyeTyped, Entry
<1>7. FlightOK(c)'
  <2>1. /\ entry[c].prev \in Ids \cup {0} /\ entry[c].boot = boot /\ entry[c].time <= clock
        /\ \A f \in entries : f.id = entry[c].prev /\ f.boot = boot => f.time < entry[c].time
    BY <1>1, <1>2 DEF FlightOK, InFlight
  <2>2. 0 < nextId /\ nextId < nextId' /\ entry[c].prev < nextId
    BY <1>1, <1>2, <1>5, <2>1 DEF EyeTyped
  <2>3. \A d \in Calls \ {c} : pc'[d] = "commit" => entry'[d].id # nextId
    BY <1>2, <1>3 DEF FlightOK, EyeTyped, Entry
  <2> QED  BY <1>1, <1>3, <1>5, <2>1, <2>2, <2>3 DEF FlightOK
<1>8. ASSUME NEW d \in Calls \ {c}  PROVE FlightOK(d)'
  <2>1. pc'[d] = pc[d] /\ entry'[d] = entry[d] /\ FlightOK(d)
    BY <1>2, <1>3
  <2>2. pc[d] = "commit" => entry[d].id < nextId /\ entry[d].id # nextId /\ entry[d].id < nextId'
    BY <1>1, <1>2, <2>1 DEF FlightOK, EyeTyped, Entry
  <2>3. \A b \in Calls \ {d} : pc[d] = "commit" /\ pc'[b] = "commit" => entry'[b].id # entry[d].id
    BY <1>3, <2>1, <2>2 DEF FlightOK
  <2> QED  BY <1>1, <1>5, <2>1, <2>2, <2>3 DEF FlightOK, InFlight
<1> QED  BY <1>4, <1>6, <1>7, <1>8 DEF EyeInv

(* The commit, which makes an entry visible, preserves the invariant. *)
LEMMA CommitEntryEye ==
  ASSUME EyeInv, NEW c \in Calls, CommitEntry(c)
  PROVE  EyeInv'
<1>1. /\ clock' = clock /\ entries' = entries \cup {entry[c]} /\ nextId' = nextId /\ boot' = boot
      /\ entry' = [d \in Calls |-> IF d = c THEN NoEntry ELSE entry[d]]
      /\ pc' = [pc EXCEPT ![c] = "done"] /\ pc[c] = "commit"
  BY DEF CommitEntry, Leave, Goto, Forget, Ended
<1>2. EyeTyped /\ LogOK /\ LinksFollowTheClock /\ \A d \in Calls : FlightOK(d)
  BY DEF EyeInv
<1> DEFINE new == entry[c]
<1>3. /\ new \in Entry /\ new.prev \in Ids \cup {0} /\ new.boot = boot /\ new.time <= clock
      /\ 0 < new.id /\ new.id < nextId /\ new.id \notin Ids /\ new.prev < new.id
      /\ \A f \in entries : f.id = new.prev /\ f.boot = boot => f.time < new.time
      /\ \A d \in Calls \ {c} : pc[d] = "commit" => entry[d].id # new.id
  BY <1>1, <1>2 DEF FlightOK, InFlight, EyeTyped
<1>4. EyeTyped'
  <2>1. NoEntry \in Entry /\ "done" \in Labels
    BY DEF NoEntry, Entry, Labels
  <2> QED  BY <1>1, <1>2, <1>3, <2>1 DEF EyeTyped
<1>5. Ids' = Ids \cup {new.id}
  BY <1>1 DEF Ids
<1>6. \A e \in entries : e.prev # new.id /\ e.id # new.id
  BY <1>2, <1>3 DEF LogOK, Ids, EyeTyped, Entry
<1>7. LogOK'
  <2>1. ASSUME NEW e \in entries'
        PROVE  /\ 0 < e.id /\ e.id < nextId
               /\ e.prev \in Ids' \cup {0} /\ e.prev < e.id
               /\ e.boot <= boot /\ (e.boot = boot => e.time <= clock)
    <3>1. CASE e \in entries
      BY <1>2, <1>5, <3>1 DEF LogOK
    <3>2. CASE e = new
      <4>1. boot <= boot
        BY <1>2 DEF EyeTyped
      <4> HIDE DEF new
      <4> QED  BY <1>3, <1>5, <3>2, <4>1
    <3> QED  BY <1>1, <3>1, <3>2
  <2>2. \A e, f \in entries' : e.id = f.id => e = f
    BY <1>1, <1>2, <1>6 DEF LogOK
  <2> QED  BY <1>1, <2>1, <2>2 DEF LogOK
<1>8. LinksFollowTheClock'
  <2>1. ASSUME NEW e \in entries', NEW f \in entries', e.prev = f.id, e.boot = f.boot
        PROVE  e.time > f.time
    <3>1. f \in entries
      BY <1>1, <1>3, <1>6, <2>1 DEF Entry
    <3>2. CASE e \in entries
      BY <1>2, <2>1, <3>1, <3>2 DEF LinksFollowTheClock
    <3>3. CASE e = new
      <4>1. f.time < new.time /\ f.time \in Nat /\ new.time \in Nat
        BY <1>2, <1>3, <2>1, <3>1, <3>3 DEF EyeTyped, Entry
      <4> QED  BY <3>3, <4>1
    <3> QED  BY <1>1, <3>2, <3>3
  <2> QED  BY <2>1 DEF LinksFollowTheClock
<1>9. ASSUME NEW d \in Calls  PROVE FlightOK(d)'
  <2>1. CASE d = c
    BY <1>1, <1>2, <2>1 DEF FlightOK, InFlight, EyeTyped
  <2>2. CASE d # c
    <3>1. pc'[d] = pc[d] /\ entry'[d] = entry[d] /\ FlightOK(d)
      BY <1>1, <1>2, <2>2 DEF EyeTyped
    <3>2. \A b \in Calls : pc'[b] = "commit" => b # c /\ pc[b] = "commit" /\ entry'[b] = entry[b]
      BY <1>1, <1>2 DEF EyeTyped
    <3>3. InFlight(d) => entry[d].prev # new.id /\ entry[d].prev \in Ids' \cup {0}
      BY <1>3, <1>5, <3>1 DEF FlightOK, Entry
    <3>4. pc[d] = "commit" => entry[d].id \notin Ids'
      BY <1>3, <1>5, <2>2, <3>1 DEF FlightOK
    <3>5. InFlight(d) => \A f \in entries' : f.id = entry[d].prev /\ f.boot = boot => f.time < entry[d].time
      BY <1>1, <3>1, <3>3 DEF FlightOK
    <3> QED  BY <1>1, <3>1, <3>2, <3>3, <3>4, <3>5 DEF FlightOK, InFlight
  <2> QED  BY <2>1, <2>2
<1> QED  BY <1>4, <1>7, <1>8, <1>9 DEF EyeInv

(* A restart, which drops the entries in flight, preserves the invariant. *)
LEMMA RestartEye ==
  ASSUME EyeInv, Restart
  PROVE  EyeInv'
<1>1. /\ clock' = 0 /\ entries' = entries /\ nextId' = nextId /\ boot' = boot + 1
      /\ entry' = [c \in Calls |-> IF c \in {d \in Calls : Running(d)} THEN NoEntry ELSE entry[c]]
      /\ pc' = [c \in Calls |-> IF Running(c) THEN "failed" ELSE pc[c]]
  BY DEF Restart, Forget
<1>2. EyeTyped /\ LogOK /\ LinksFollowTheClock /\ \A d \in Calls : FlightOK(d)
  BY DEF EyeInv
<1>3. EyeTyped'
  <2>1. NoEntry \in Entry /\ "failed" \in Labels
    BY DEF NoEntry, Entry, Labels
  <2>2. pc' \in [Calls -> Labels] /\ entry' \in [Calls -> Entry]
    BY <1>1, <1>2, <2>1 DEF EyeTyped
  <2> QED  BY <1>1, <1>2, <2>2 DEF EyeTyped
<1>4. LogOK' /\ LinksFollowTheClock'
  <2>1. \A e \in entries : e.boot \in Nat /\ e.boot <= boot + 1 /\ e.boot # boot + 1
    BY <1>2 DEF LogOK, EyeTyped, Entry
  <2> QED  BY <1>1, <1>2, <2>1 DEF LogOK, LinksFollowTheClock, Ids
<1>5. \A c \in Calls : ~InFlight(c)'
  BY <1>1 DEF InFlight, Running, Ended
<1> QED  BY <1>3, <1>4, <1>5 DEF EyeInv, FlightOK, InFlight

(* Every operation starts outside log()'s transaction. *)
LEMMA OpName ==
  ASSUME NEW o \in Op
  PROVE  o.name \in DOMAIN FirstAwait /\ FirstAwait[o.name] \in Labels \ {"insert", "commit"}
BY DEF Op, FirstAwait, LedgerWrites, LedgerColumn, Labels

(* The arrival of a call preserves the invariant. *)
LEMMA BeginEye ==
  ASSUME EyeInv, NEW c \in Calls, Begin(c)
  PROVE  EyeInv'
<1>1. PICK o \in Ops : Goto(c, FirstAwait[o.name])
  BY DEF Begin
<1>2. FirstAwait[o.name] \in Labels \ {"insert", "commit"}
  BY OpsAssumption, OpName
<1>3. entry' = entry /\ UNCHANGED <<eyeVars, boot>>
  BY DEF Begin
<1> QED  BY <1>1, <1>2, <1>3, GotoQuiet

(* After a save, and after a decision, a call appends or is done. *)
LEMMA AfterWriteLabel ==
  ASSUME NEW c \in Calls
  PROVE  AfterWrite(c) \in {"append", "done"} /\ \A row : Decision(c, row) \in {"append", "done"}
BY DEF AfterWrite, Decision

(* Every step of a call preserves the invariant. *)
LEMMA StepEye ==
  ASSUME EyeInv, NEW c \in Calls, Step(c)
  PROVE  EyeInv'
<1> DEFINE Quiet == Labels \ {"insert", "commit"}
<1>0. {"ledger", "node", "index", "phase", "load", "write", "append", "head", "done", "failed"}
        \subseteq Quiet
  BY DEF Labels
<1> HIDE DEF Quiet
<1>1. CASE EnsureLedger(c)
  <2>1. UNCHANGED <<eyeVars, boot>>
    BY <1>1 DEF EnsureLedger
  <2>2. CASE UNCHANGED callVars
    BY <2>1, <2>2, StayQuiet DEF callVars
  <2>3. CASE Leave(c, "failed")
    BY <1>0, <2>1, <2>3, LeaveQuiet DEF Quiet
  <2> QED  BY <1>1, <2>2, <2>3 DEF EnsureLedger
<1>2. CASE FindLedger(c)
  BY <1>0, <1>2, GotoQuiet DEF FindLedger, Change, Quiet
<1>3. CASE CompareSupply(c)
  <2>1. PICK label \in {"done", "head"} : Leave(c, label) /\ UNCHANGED <<eyeVars, boot>>
    BY <1>3 DEF CompareSupply
  <2> QED  BY <1>0, <2>1, LeaveQuiet DEF Quiet
<1>4. CASE FindNode(c)
  <2>1. UNCHANGED <<eyeVars, boot>>
    BY <1>4 DEF FindNode
  <2>2. CASE Leave(c, "failed")
    BY <1>0, <2>1, <2>2, LeaveQuiet DEF Quiet
  <2>3. CASE Change(c, Executed(Row(c), op[c].amount))
    BY <1>0, <2>1, <2>3, GotoQuiet DEF Change, Quiet
  <2> QED  BY <1>4, <2>2, <2>3 DEF FindNode
<1>5. CASE ReadIndex(c)
  BY <1>0, <1>5, GotoQuiet DEF ReadIndex, Quiet
<1>6. CASE ReadSupply(c)
  BY <1>0, <1>6, GotoQuiet DEF ReadSupply, Quiet
<1>7. CASE FindPhase(c)
  <2>1. UNCHANGED <<eyeVars, boot>>
    BY <1>7 DEF FindPhase
  <2>2. CASE Change(c, InactivePhase)
    BY <1>0, <2>1, <2>2, GotoQuiet DEF Change, Quiet
  <2>3. CASE Leave(c, "done")
    BY <1>0, <2>1, <2>3, LeaveQuiet DEF Quiet
  <2>4. CASE Goto(c, "append") /\ entry' = entry
    BY <1>0, <2>1, <2>4, GotoQuiet DEF Quiet
  <2> QED  BY <1>7, <2>2, <2>3, <2>4 DEF FindPhase
<1>8. CASE AppendActivation(c)
  BY <1>0, <1>8, GotoQuiet DEF AppendActivation, Quiet
<1>9. CASE Load(c)
  BY <1>0, <1>9, GotoQuiet DEF Load, Quiet
<1>10. CASE InsertFails(c)
  BY <1>0, <1>10, LeaveQuiet DEF InsertFails, Quiet
<1>11. CASE Write(c)
  <2>1. AfterWrite(c) \in Quiet
    BY <1>0, AfterWriteLabel
  <2> QED  BY <1>11, <2>1, LeaveQuiet DEF Write, Quiet
<1>12. CASE AppendVolume(c)
  BY <1>0, <1>12, LeaveQuiet DEF AppendVolume, Quiet
<1>13. CASE ReadHead(c)
  BY <1>13, ReadHeadEye
<1>14. CASE InsertEntry(c)
  BY <1>14, InsertEntryEye
<1>15. CASE CommitEntry(c)
  BY <1>15, CommitEntryEye
<1> QED  BY <1>1, <1>2, <1>3, <1>4, <1>5, <1>6, <1>7, <1>8, <1>9, <1>10, <1>11, <1>12, <1>13,
            <1>14, <1>15 DEF Step

(* The invariant holds initially. *)
LEMMA InitEye == Init => EyeInv
<1> SUFFICES ASSUME Init  PROVE EyeInv
  OBVIOUS
<1>1. NoEntry \in Entry /\ "new" \in Labels
  BY DEF NoEntry, Entry, Labels
<1>2. EyeTyped
  BY <1>1 DEF Init, EyeTyped
<1>3. LogOK /\ LinksFollowTheClock
  BY DEF Init, LogOK, LinksFollowTheClock
<1>4. \A c \in Calls : FlightOK(c)
  BY DEF Init, FlightOK, InFlight
<1> QED  BY <1>2, <1>3, <1>4 DEF EyeInv

(* The invariant is inductive. *)
LEMMA NextEye == EyeInv /\ [Next]_vars => EyeInv'
<1> SUFFICES ASSUME EyeInv, [Next]_vars  PROVE EyeInv'
  OBVIOUS
<1>1. CASE \E c \in Calls : Begin(c)
  BY <1>1, BeginEye
<1>2. CASE \E c \in Calls : Step(c)
  BY <1>2, StepEye
<1>3. CASE \E c \in Calls : Fail(c)
  <2>1. PICK c \in Calls : Leave(c, "failed") /\ UNCHANGED <<eyeVars, boot>>
    BY <1>3 DEF Fail
  <2>2. "failed" \in Labels \ {"insert", "commit"}
    BY DEF Labels
  <2> QED  BY <2>1, <2>2, LeaveQuiet
<1>4. CASE Initialization \/ InitializationRejects
  <2>1. UNCHANGED <<eyeVars, boot>> /\ UNCHANGED callVars
    BY <1>4 DEF Initialization, InitializationFinds, InitializationSaves, InitializationRejects
  <2> QED  BY <2>1, StayQuiet DEF callVars
<1>5. CASE Restart
  BY <1>5, RestartEye
<1>6. CASE UNCHANGED vars
  BY <1>6, StayQuiet DEF vars, callVars
<1> QED  BY <1>1, <1>2, <1>3, <1>4, <1>5, <1>6 DEF Next

-----------------------------------------------------------------------------
(* Theorems. *)

\* What is in flight and what is committed agree at every step.
THEOREM EyeInvariant == Spec => []EyeInv
BY InitEye, NextEye, PTL DEF Spec

\* However calls of log() overlap, fail, and lose ids, verifyLog() reports a break
\* exactly when two entries link to the same one.
THEOREM ForkIsTheOnlyBreakHolds == Spec => []ForkIsTheOnlyBreak
<1>1. EyeInv => ForkIsTheOnlyBreak
  BY ForkFromInv DEF EyeInv
<1> QED  BY <1>1, EyeInvariant, PTL

\* An entry is later than the one it links to, unless the clock restarted between.
THEOREM LinksFollowTheClockHolds == Spec => []LinksFollowTheClock
<1>1. EyeInv => LinksFollowTheClock
  BY DEF EyeInv
<1> QED  BY <1>1, EyeInvariant, PTL
=============================================================================
