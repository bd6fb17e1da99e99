-------------------------- MODULE IntegrityProofs ---------------------------
(***************************************************************************)
(* Proofs about what the store can show of its past.  AuditJournal: the    *)
(* links of the journal, and its verification without keys and under them. *)
(* SignedTransitions: a label is the one its newest record signs, and the  *)
(* ledger replays, for any number of connections.  Erasure: what was       *)
(* erased stays erased, for any number of callers, rollbacks and restores. *)
(* RollbackRepair: a repair contains its fault and its reversal restores.  *)
(***************************************************************************)
EXTENDS MCIntegrity, SequenceTheorems, FiniteSetTheorems, WellFoundedInduction, TLAPS

-----------------------------------------------------------------------------
(* AuditJournal.                                                           *)

Steps == {"closed", "idle", "read", "insert"}

\* The store was never given a key.
Unkeyed ==
    /\ canary = NoKey /\ marker = NoKey /\ bodies = NoKey
    /\ at \in [Clients -> Steps]
    /\ mine = [p \in Clients |-> NoKey]

\* What a client is about to link to is a hash of the journal.
PrevIsStored ==
    \A p \in Clients :
        at[p] = "insert" => buf[p].prev \in {Genesis} \cup {journal[j].hash : j \in Rowids}

IInv == TypeOK /\ Unkeyed /\ PrevIsStored /\ Extends

-----------------------------------------------------------------------------
(* The order of the chain.                                                 *)

\* A non-empty set of natural numbers has a least element.
LEMMA Least ==
    ASSUME NEW T, T \subseteq Nat, T # {}
    PROVE  \E x \in T : \A y \in T : x <= y
<1> DEFINE R == {ss \in Nat \X Nat : ss[1] < ss[2]}
<1>1. IsWellFoundedOn(R, Nat)
  BY NatLessThanWellFounded DEF OpToRel
<1>2. \A x, y \in Nat : y < x => <<y, x>> \in R
  OBVIOUS
<1> HIDE DEF R
<1>3. PICK x \in T : \A y \in T : ~ (<<y, x>> \in R)
  BY <1>1, WFMin
<1>4. \A y \in T : ~ (y < x)
  BY <1>2, <1>3
<1>5. \A y \in T : x <= y
  <2> TAKE y \in T
  <2>1. x \in Nat /\ y \in Nat
    OBVIOUS
  <2> QED
    BY <2>1, <1>4
<1> QED
  BY <1>5

\* Last(S) is a row of S: among the rows with the newest time there is one with the
\* largest rowid.
LEMMA LastInSet ==
    ASSUME journal \in Seq(Row), NEW S, S \subseteq Rowids, S # {}
    PROVE  Last(S) \in S
<1> USE JournalAssumption
<1> DEFINE A == {MaxTime - journal[i].when : i \in S}
<1>0. \A i \in S : i \in 1 .. Len(journal) /\ journal[i].when \in Times
  <2> TAKE i \in S
  <2>1. i \in 1 .. Len(journal)
    BY DEF Rowids
  <2>2. journal[i] \in Row
    BY <2>1
  <2> QED
    BY <2>1, <2>2 DEF Row
<1>1. A \subseteq Nat /\ A # {}
  BY <1>0 DEF Times
<1>2. PICK a \in A : \A b \in A : a <= b
  BY <1>1, Least
<1>3. PICK m \in S : a = MaxTime - journal[m].when
  BY <1>2
<1>4. \A i \in S : journal[i].when <= journal[m].when
  <2> TAKE i \in S
  <2>1. MaxTime - journal[i].when \in A
    OBVIOUS
  <2>2. MaxTime - journal[m].when <= MaxTime - journal[i].when
    BY <2>1, <1>2, <1>3
  <2> QED
    BY <2>2, <1>0 DEF Times
<1> DEFINE N == {i \in S : journal[i].when = journal[m].when}
           B == {Len(journal) - i : i \in N}
<1>5. B \subseteq Nat /\ B # {}
  BY <1>0
<1>6. PICK c \in B : \A b \in B : c <= b
  BY <1>5, Least
<1>7. PICK n \in N : c = Len(journal) - n
  BY <1>6
<1>8. \A i \in N : i <= n
  <2> TAKE i \in N
  <2>1. Len(journal) - i \in B
    OBVIOUS
  <2>2. Len(journal) - n <= Len(journal) - i
    BY <2>1, <1>6, <1>7
  <2> QED
    BY <2>2, <1>0
<1>9. \A j \in S \ {n} : Before(j, n)
  BY <1>0, <1>4, <1>7, <1>8 DEF Before, Times
<1> QED
  BY <1>7, <1>9 DEF Last

\* The hash a link to a set of rows starts from.
LEMMA LastHashStored ==
    ASSUME journal \in Seq(Row)
    PROVE  /\ LastHash(Rowids) \in {Genesis} \cup {journal[j].hash : j \in Rowids}
           /\ LastHash(Rowids) \in Seq(Link)
<1>1. CASE Rowids = {}
  BY <1>1 DEF LastHash, Genesis
<1>2. CASE Rowids # {}
  <2>1. Last(Rowids) \in Rowids
    BY <1>2, LastInSet
  <2>3. journal[Last(Rowids)] \in Row
    BY <2>1 DEF Rowids
  <2>2. journal[Last(Rowids)].hash \in Seq(Link)
    BY <2>3 DEF Row
  <2> QED
    BY <1>2, <2>1, <2>2 DEF LastHash
<1> QED
  BY <1>1, <1>2

-----------------------------------------------------------------------------
(* Appending, for any number of clients.                                   *)

\* The row an append inserts is a row.
LEMMA InsertedRow ==
    ASSUME TypeOK, NEW p \in Clients, NEW key \in AllKeys, Len(journal) < MaxRows
    PROVE  [when |-> buf[p].when, payload |-> Text, commit |-> Text,
            hash |-> Mac(key, buf[p].prev, Len(journal) + 1, buf[p].when, Text)] \in Row
<1>1. buf[p].when \in Times /\ buf[p].prev \in Seq(Link)
  BY DEF TypeOK, Buffer
<1>2. Len(journal) + 1 \in Ids
  BY JournalAssumption DEF TypeOK, Ids
<1>3. [key |-> key, id |-> Len(journal) + 1, when |-> buf[p].when, commit |-> Text] \in Link
  BY <1>1, <1>2 DEF Link
<1>4. Mac(key, buf[p].prev, Len(journal) + 1, buf[p].when, Text) \in Seq(Link)
  BY <1>1, <1>3 DEF Mac
<1> QED
  BY <1>1, <1>4 DEF Row

\* A step that appends nothing and changes no hash keeps the links.
LEMMA SameLinks ==
    ASSUME Extends, journal \in Seq(Row), journal' \in Seq(Row),
           Rowids' = Rowids,
           \A i \in Rowids : /\ journal'[i].hash = journal[i].hash
                             /\ journal'[i].when = journal[i].when
                             /\ journal'[i].commit = journal[i].commit
    PROVE  Extends'
<1> SUFFICES ASSUME NEW i \in Rowids
             PROVE  \E prev \in {Genesis} \cup {journal'[j].hash : j \in 1 .. i - 1} :
                       journal'[i].hash = Mac(NoKey, prev, i, journal'[i].when, journal'[i].commit)
  BY DEF Extends, Mac, Genesis
<1>1. PICK prev \in {Genesis} \cup {journal[j].hash : j \in 1 .. i - 1} :
         journal[i].hash = Mac(NoKey, prev, i, journal[i].when, journal[i].commit)
  BY DEF Extends
<1>2. \A j \in 1 .. i - 1 : j \in Rowids
  BY DEF Rowids
<1>3. prev \in {Genesis} \cup {journal'[j].hash : j \in 1 .. i - 1}
  BY <1>1, <1>2
<1> QED
  BY <1>1, <1>3

\* Init establishes the invariant.
LEMMA InitLinks == Init => IInv
<1> SUFFICES ASSUME Init PROVE IInv
  OBVIOUS
<1> USE JournalAssumption
<1>1. NoBuffer \in Buffer
  BY DEF NoBuffer, Buffer, Genesis, Times, AllKeys
<1>2. TypeOK
  BY <1>1 DEF Init, TypeOK, AllKeys, Times
<1>3. Unkeyed
  BY DEF Init, Unkeyed, Steps
<1>4. PrevIsStored
  BY DEF Init, PrevIsStored
<1>5. Extends
  BY DEF Init, Extends, Rowids
<1> QED
  BY <1>2, <1>3, <1>4, <1>5 DEF IInv

\* The rows stay as they are.
LEMMA UnchangedLinks ==
    ASSUME Extends, journal' = journal
    PROVE  Extends'
  BY DEF Extends, Rowids, Mac, Genesis

\* A client that moves to another step, with a buffer of its own.
LEMMA Moving ==
    ASSUME TypeOK, NEW p \in Clients, NEW step \in Steps, NEW b \in Buffer, Goto(p, step, b)
    PROVE  /\ at' \in [Clients -> {"closed", "idle", "read", "insert", "convert", "rehash",
                                   "activate", "rotate"}]
           /\ buf' \in [Clients -> Buffer]
           /\ (at \in [Clients -> Steps]) => at' \in [Clients -> Steps]
           /\ at'[p] = step /\ buf'[p] = b
           /\ \A q \in Clients \ {p} : at'[q] = at[q] /\ buf'[q] = buf[q]
  BY DEF Goto, TypeOK, Steps

\* A read that does not fail finds the newest hash.
LEMMA ReadFinds ==
    ASSUME TypeOK, NEW p \in Clients, ReadPrev(p), ReadsSucceed
    PROVE  Goto(p, "insert", [buf[p] EXCEPT !.prev = LastHash(Rowids)])
  <1>1. PICK h \in {LastHash(Rowids), Genesis} : Goto(p, "insert", [buf[p] EXCEPT !.prev = h])
    BY DEF ReadPrev
  <1>2. at[p] = "read" /\ at'[p] = "insert" /\ buf'[p].prev = h
    BY <1>1 DEF ReadPrev, Goto, TypeOK, Buffer
  <1>3. h = LastHash(Rowids)
    BY <1>2 DEF ReadsSucceed, LastHash
  <1>4. QED
    BY <1>1, <1>3

\* Every step of a store without keys preserves the invariant.
LEMMA NextLinks ==
    ASSUME Keys = {}, IInv, [Next]_vars
    PROVE  IInv'
<1> USE JournalAssumption
<1>1. TypeOK /\ Unkeyed /\ PrevIsStored /\ Extends
  BY DEF IInv
<1>2. NoBuffer \in Buffer
  BY DEF NoBuffer, Buffer, Genesis, Times, AllKeys
<1>3. NoKey \in AllKeys
  BY DEF AllKeys
<1>4. CASE UNCHANGED vars
  <2>1. TypeOK'
    BY <1>1, <1>4 DEF TypeOK, vars, store
  <2>2. Unkeyed'
    BY <1>1, <1>4 DEF Unkeyed, vars, store
  <2>3. PrevIsStored'
    BY <1>1, <1>4 DEF PrevIsStored, Rowids, Genesis, vars, store
  <2>4. Extends'
    BY <1>1, <1>4, UnchangedLinks DEF vars
  <2> QED
    BY <2>1, <2>2, <2>3, <2>4 DEF IInv
<1>5. CASE Tick
  <2>1. TypeOK'
    BY <1>1, <1>5 DEF TypeOK, Tick, store
  <2>2. Unkeyed'
    BY <1>1, <1>5 DEF Unkeyed, Tick, store
  <2>3. PrevIsStored'
    BY <1>1, <1>5 DEF PrevIsStored, Rowids, Genesis, Tick, store
  <2>4. Extends'
    BY <1>1, <1>5, UnchangedLinks DEF Tick
  <2> QED
    BY <2>1, <2>2, <2>3, <2>4 DEF IInv
<1>6. ASSUME NEW p \in Clients, Stamp(p) PROVE IInv'
  <2>1. [NoBuffer EXCEPT !.when = clock] \in Buffer
    BY <1>1, <1>2 DEF TypeOK, Buffer
  <2>2. Goto(p, "read", [NoBuffer EXCEPT !.when = clock]) /\ "read" \in Steps
    BY <1>6 DEF Stamp, Steps
  <2>3. UNCHANGED <<clock, journal, canary, store, mine>>
    BY <1>6 DEF Stamp
  <2>4. TypeOK'
    BY <1>1, <2>1, <2>2, <2>3, Moving DEF TypeOK, store
  <2>5. Unkeyed'
    BY <1>1, <2>1, <2>2, <2>3, Moving DEF Unkeyed, store
  <2>6. PrevIsStored'
    BY <1>1, <2>1, <2>2, <2>3, Moving DEF PrevIsStored, Rowids, Genesis
  <2>7. Extends'
    BY <1>1, <2>3, UnchangedLinks
  <2> QED
    BY <2>4, <2>5, <2>6, <2>7 DEF IInv
<1>7. ASSUME NEW p \in Clients, ReadPrev(p) PROVE IInv'
  <2>8. PICK h \in {LastHash(Rowids), Genesis} : Goto(p, "insert", [buf[p] EXCEPT !.prev = h])
    BY <1>7 DEF ReadPrev
  <2> DEFINE b == [buf[p] EXCEPT !.prev = h]
  <2>9. LastHash(Rowids) \in {Genesis} \cup {journal[j].hash : j \in Rowids}
        /\ LastHash(Rowids) \in Seq(Link)
    BY <1>1, LastHashStored DEF TypeOK
  <2>10. Genesis \in Seq(Link)
    BY DEF Genesis
  <2>0. h \in {Genesis} \cup {journal[j].hash : j \in Rowids} /\ h \in Seq(Link)
    BY <2>9, <2>10
  <2>1. b \in Buffer /\ b.prev = h
    BY <1>1, <2>0 DEF TypeOK, Buffer
  <2>2. Goto(p, "insert", b) /\ "insert" \in Steps
    BY <2>8 DEF Steps
  <2>3. UNCHANGED <<clock, journal, canary, store, mine>>
    BY <1>7 DEF ReadPrev
  <2> HIDE DEF b
  <2>4. TypeOK'
    BY <1>1, <2>1, <2>2, <2>3, Moving DEF TypeOK, store
  <2>5. Unkeyed'
    BY <1>1, <2>1, <2>2, <2>3, Moving DEF Unkeyed, store
  <2>6. PrevIsStored'
    BY <1>1, <2>0, <2>1, <2>2, <2>3, Moving DEF PrevIsStored, Rowids, Genesis
  <2>7. Extends'
    BY <1>1, <2>3, UnchangedLinks
  <2> QED
    BY <2>4, <2>5, <2>6, <2>7 DEF IInv
<1>8. ASSUME NEW p \in Clients, Insert(p) PROVE IInv'
  <2> DEFINE r == [when |-> buf[p].when, payload |-> Text, commit |-> Text,
                   hash |-> Mac(NoKey, buf[p].prev, Len(journal) + 1, buf[p].when, Text)]
             n == Len(journal) + 1
  <2>1. mine[p] = NoKey
    BY <1>1 DEF Unkeyed
  <2>2. journal' = Append(journal, r) /\ Len(journal) < MaxRows /\ at[p] = "insert"
    BY <1>8, <2>1 DEF Insert
  <2>3. r \in Row
    BY <1>1, <1>3, <2>2, InsertedRow
  <2>4. Goto(p, "idle", NoBuffer) /\ "idle" \in Steps
    BY <1>8 DEF Insert, Steps
  <2>5. UNCHANGED <<clock, canary, store, mine>>
    BY <1>8 DEF Insert
  <2>6. journal \in Seq(Row) /\ Len(journal) \in Nat /\ MaxRows \in Nat /\ Len(journal) <= MaxRows
    BY <1>1 DEF TypeOK
  <2>7. r.when = buf[p].when /\ r.commit = Text
        /\ r.hash = Mac(NoKey, buf[p].prev, n, buf[p].when, Text)
    OBVIOUS
  <2> HIDE DEF r
  <2>8. /\ journal' \in Seq(Row) /\ Len(journal') = n /\ n <= MaxRows
        /\ \A i \in 1 .. Len(journal) : journal'[i] = journal[i]
        /\ journal'[n] = r
    BY <2>2, <2>3, <2>6
  <2>9. TypeOK'
    BY <1>1, <1>2, <2>4, <2>5, <2>8, Moving DEF TypeOK, store
  <2>10. Unkeyed'
    BY <1>1, <1>2, <2>4, <2>5, Moving DEF Unkeyed, store
  <2>11. Rowids' = 1 .. n /\ Rowids = 1 .. Len(journal) /\ Rowids \subseteq Rowids'
    BY <2>6, <2>8 DEF Rowids
  <2>12. PrevIsStored'
    <3> SUFFICES ASSUME NEW q \in Clients, at'[q] = "insert"
                 PROVE  buf'[q].prev \in {Genesis} \cup {journal'[j].hash : j \in Rowids'}
      BY DEF PrevIsStored, Genesis
    <3>1. q # p /\ at[q] = "insert" /\ buf'[q] = buf[q]
      BY <1>1, <1>2, <2>4, Moving
    <3>2. buf[q].prev \in {Genesis} \cup {journal[j].hash : j \in Rowids}
      BY <1>1, <3>1 DEF PrevIsStored
    <3> QED
      BY <3>1, <3>2, <2>8, <2>11
  <2>13. Extends'
    <3> SUFFICES ASSUME NEW i \in 1 .. n
                 PROVE  \E prev \in {Genesis} \cup {journal'[j].hash : j \in 1 .. i - 1} :
                           journal'[i].hash = Mac(NoKey, prev, i, journal'[i].when, journal'[i].commit)
      BY <2>11 DEF Extends, Mac, Genesis
    <3>1. \A j \in 1 .. i - 1 : journal'[j] = journal[j]
      BY <2>6, <2>8
    <3>2. CASE i = n
      <4>1. buf[p].prev \in {Genesis} \cup {journal[j].hash : j \in 1 .. Len(journal)}
        BY <1>1, <2>2, <2>11 DEF PrevIsStored
      <4>2. buf[p].prev \in {Genesis} \cup {journal'[j].hash : j \in 1 .. i - 1}
        BY <4>1, <3>1, <3>2, <2>6
      <4> QED
        BY <4>2, <3>2, <2>7, <2>8
    <3>3. CASE i # n
      <4>1. i \in Rowids /\ journal'[i] = journal[i]
        BY <3>3, <2>6, <2>8, <2>11
      <4>2. PICK prev \in {Genesis} \cup {journal[j].hash : j \in 1 .. i - 1} :
               journal[i].hash = Mac(NoKey, prev, i, journal[i].when, journal[i].commit)
        BY <1>1, <4>1 DEF Extends
      <4>3. prev \in {Genesis} \cup {journal'[j].hash : j \in 1 .. i - 1}
        BY <4>2, <3>1
      <4> QED
        BY <4>1, <4>2, <4>3
    <3> QED
      BY <3>2, <3>3
  <2> QED
    BY <2>9, <2>10, <2>12, <2>13 DEF IInv
<1>9. ASSUME NEW p \in Clients, NEW i \in Rowids, Redact(p, i) PROVE IInv'
  <2> DEFINE r == [journal[i] EXCEPT !.payload = Gone]
  <2>1. journal \in Seq(Row) /\ i \in 1 .. Len(journal) /\ journal[i] \in Row
    BY <1>1 DEF TypeOK, Rowids
  <2>2. r \in Row /\ r.hash = journal[i].hash /\ r.when = journal[i].when /\ r.commit = journal[i].commit
    BY <2>1 DEF Row
  <2>3. journal' = [journal EXCEPT ![i] = r]
    BY <1>9 DEF Redact
  <2>4. UNCHANGED <<clock, canary, store, at, mine, buf>>
    BY <1>9 DEF Redact
  <2> HIDE DEF r
  <2>5. journal' \in Seq(Row) /\ Len(journal') = Len(journal) /\ Rowids' = Rowids
    BY <2>1, <2>2, <2>3 DEF Rowids
  <2>6. \A j \in Rowids : /\ journal'[j].hash = journal[j].hash
                          /\ journal'[j].when = journal[j].when
                          /\ journal'[j].commit = journal[j].commit
    BY <2>1, <2>2, <2>3 DEF Rowids
  <2>7. TypeOK'
    BY <1>1, <2>4, <2>5 DEF TypeOK, store
  <2>8. Unkeyed'
    BY <1>1, <2>4 DEF Unkeyed, store
  <2>9. PrevIsStored'
    BY <1>1, <2>4, <2>5, <2>6 DEF PrevIsStored, Genesis
  <2>10. Extends'
    BY <1>1, <2>1, <2>5, <2>6, SameLinks
  <2> QED
    BY <2>7, <2>8, <2>9, <2>10 DEF IInv
<1>10. ASSUME NEW p \in Clients, OpenPlain(p) PROVE IInv'
  <2>2. Goto(p, "idle", NoBuffer) /\ "idle" \in Steps
    BY <1>10 DEF OpenPlain, Steps
  <2>3. UNCHANGED <<clock, journal, canary, store, mine>>
    BY <1>10 DEF OpenPlain
  <2>4. TypeOK'
    BY <1>1, <1>2, <2>2, <2>3, Moving DEF TypeOK, store
  <2>5. Unkeyed'
    BY <1>1, <1>2, <2>2, <2>3, Moving DEF Unkeyed, store
  <2>6. PrevIsStored'
    BY <1>1, <1>2, <2>2, <2>3, Moving DEF PrevIsStored, Rowids, Genesis
  <2>7. Extends'
    BY <1>1, <2>3, UnchangedLinks
  <2> QED
    BY <2>4, <2>5, <2>6, <2>7 DEF IInv
<1>11. ASSUME NEW p \in Clients, Stop(p) PROVE IInv'
  <2>1. mine' = mine
    BY <1>1, <1>11 DEF Stop, Unkeyed
  <2>2. Goto(p, "closed", NoBuffer) /\ "closed" \in Steps
    BY <1>11 DEF Stop, Steps
  <2>3. UNCHANGED <<clock, journal, canary, store>>
    BY <1>11 DEF Stop
  <2>4. TypeOK'
    BY <1>1, <1>2, <2>1, <2>2, <2>3, Moving DEF TypeOK, store
  <2>5. Unkeyed'
    BY <1>1, <1>2, <2>1, <2>2, <2>3, Moving DEF Unkeyed, store
  <2>6. PrevIsStored'
    BY <1>1, <1>2, <2>2, <2>3, Moving DEF PrevIsStored, Rowids, Genesis
  <2>7. Extends'
    BY <1>1, <2>3, UnchangedLinks
  <2> QED
    BY <2>4, <2>5, <2>6, <2>7 DEF IInv
<1>12. \A p \in Clients : ~ (\/ Convert(p) \/ RehashRow(p) \/ StoreCanary(p) \/ Activate(p)
                             \/ RotateCommit(p) \/ RotateFail(p))
  <2> SUFFICES ASSUME NEW p \in Clients
               PROVE  at[p] \notin {"convert", "rehash", "activate", "rotate"}
    BY DEF Convert, RehashRow, StoreCanary, Activate, RotateCommit, RotateFail
  <2> QED
    BY <1>1 DEF Unkeyed, Steps
<1> QED
  BY <1>4, <1>5, <1>6, <1>7, <1>8, <1>9, <1>10, <1>11, <1>12 DEF Next

\* journal_with_conn and purge, on a store without a key: whatever the number of clients, rows
\* and clock steps, every row covers its own tuple and extends an earlier row.
THEOREM LinksHold == ASSUME Keys = {} PROVE Spec => [](Extends /\ LinksResolve)
<1>1. Init => IInv
  BY InitLinks
<1>2. IInv /\ [Next]_vars => IInv'
  BY NextLinks
<1>3. IInv => Extends /\ LinksResolve
  BY DEF IInv, LinksResolve
<1> QED
  BY <1>1, <1>2, <1>3, PTL DEF Spec

-----------------------------------------------------------------------------
(* One client, and a clock that does not go back.                          *)

\* The hash after the first n rows.
Tip(n) == IF n = 0 THEN Genesis ELSE journal[n].hash

\* Rows are in the order of their times, and no later than the clock.
Sorted ==
    /\ \A i, j \in Rowids : i < j => journal[i].when <= journal[j].when
    /\ \A i \in Rowids : journal[i].when <= clock

\* An append under way has stamped its event after every row and before now, and links to
\* the newest row.
Latest ==
    \A p \in Clients :
        /\ at[p] \in {"read", "insert"} =>
              /\ buf[p].when <= clock
              /\ \A i \in Rowids : journal[i].when <= buf[p].when
        /\ at[p] = "insert" => buf[p].prev = Tip(Len(journal))

\* Every row links to the row before it.
Chained ==
    \A i \in Rowids :
        /\ journal[i].payload # Gone => journal[i].commit = journal[i].payload
        /\ journal[i].hash = Mac(NoKey, Tip(i - 1), i, journal[i].when, journal[i].commit)

SInv == IInv /\ Sorted /\ Latest /\ Chained

\* When rows are in the order of their times, Before is the order of the rowids.
LEMMA BeforeIsRowid ==
    ASSUME journal \in Seq(Row), Sorted, NEW i \in Rowids, NEW j \in Rowids
    PROVE  Before(j, i) <=> j < i
<1>1. journal[i] \in Row /\ journal[j] \in Row /\ i \in Nat /\ j \in Nat
  BY DEF Rowids
<1>2. journal[i].when \in Int /\ journal[j].when \in Int
  BY <1>1, JournalAssumption DEF Row, Times
<1>3. /\ i < j => journal[i].when <= journal[j].when
      /\ j < i => journal[j].when <= journal[i].when
  BY DEF Sorted
<1> QED
  BY <1>1, <1>2, <1>3 DEF Before

\* The last of the first m rows is row m.
LEMMA LastOfPrefix ==
    ASSUME journal \in Seq(Row), Sorted, NEW m \in Nat, m <= Len(journal)
    PROVE  LastHash(1 .. m) = Tip(m)
<1>0. Rowids = 1 .. Len(journal) /\ Len(journal) \in Nat
  BY DEF Rowids
<1>1. CASE m = 0
  BY <1>1 DEF LastHash, Tip
<1>2. CASE m # 0
  <2>1. m \in 1 .. m /\ 1 .. m \subseteq Rowids /\ 1 .. m # {}
    <3>1. m \in 1 .. m
      BY <1>2
    <3>2. \A i \in 1 .. m : i \in 1 .. Len(journal)
      BY <1>0
    <3> QED
      BY <3>1, <3>2, <1>0
  <2>2. \A j \in (1 .. m) \ {m} : Before(j, m)
    BY <2>1, BeforeIsRowid
  <2>3. \A i \in 1 .. m : (\A j \in (1 .. m) \ {i} : Before(j, i)) => i = m
    <3> SUFFICES ASSUME NEW i \in 1 .. m, \A j \in (1 .. m) \ {i} : Before(j, i), i # m
                 PROVE  FALSE
      OBVIOUS
    <3>1. Before(m, i)
      BY <2>1
    <3>2. m < i
      BY <3>1, <2>1, BeforeIsRowid
    <3> QED
      BY <3>2
  <2>4. Last(1 .. m) = m
    BY <2>1, <2>2, <2>3 DEF Last
  <2> QED
    BY <1>2, <2>1, <2>4 DEF LastHash, Tip
<1> QED
  BY <1>1, <1>2

\* The invariant says that the chain verifies.
LEMMA ChainedVerifies ==
    ASSUME SInv
    PROVE  Verifies(NoKey)
<1>1. journal \in Seq(Row) /\ canary = NoKey
  BY DEF SInv, IInv, TypeOK, Unkeyed
<1>2. ASSUME NEW i \in Rowids
      PROVE  LastHash({j \in Rowids : Before(j, i)}) = Tip(i - 1)
  <2>1. i \in 1 .. Len(journal) /\ Rowids = 1 .. Len(journal) /\ Len(journal) \in Nat
    BY <1>1 DEF Rowids
  <2>2. \A j \in Rowids : Before(j, i) <=> j < i
    BY <1>1, BeforeIsRowid DEF SInv
  <2>3. {j \in Rowids : Before(j, i)} = 1 .. (i - 1)
    BY <2>1, <2>2
  <2>4. i - 1 \in Nat /\ i - 1 <= Len(journal)
    BY <2>1
  <2> QED
    BY <1>1, <2>3, <2>4, LastOfPrefix DEF SInv
<1> QED
  BY <1>1, <1>2 DEF Verifies, SInv, Chained

\* One client on a store without a key and a clock that does not go back: every step
\* preserves the invariant.
LEMMA NextSerial ==
    ASSUME NEW c, Clients = {c}, Keys = {}, ClockSteps \subseteq Nat, SInv, [Next]_vars,
           [ReadsSucceed]_vars
    PROVE  SInv'
<1> USE JournalAssumption
<1>1. IInv /\ Sorted /\ Latest /\ Chained /\ TypeOK /\ Unkeyed
  BY DEF SInv, IInv
<1>2. IInv'
  BY <1>1, NextLinks
<1>3. clock \in Nat /\ journal \in Seq(Row) /\ Len(journal) \in Nat
      /\ Rowids = 1 .. Len(journal) /\ \A i \in Rowids : journal[i] \in Row /\ journal[i].when \in Nat
  <2>1. clock \in Nat /\ journal \in Seq(Row) /\ Len(journal) \in Nat
    BY <1>1 DEF TypeOK, Times
  <2>2. Rowids = 1 .. Len(journal)
    BY <2>1 DEF Rowids
  <2>3. \A i \in Rowids : journal[i] \in Row
    BY <2>1, <2>2
  <2> QED
    BY <2>1, <2>2, <2>3 DEF Row, Times
<1>4. ASSUME journal' = journal PROVE Chained'
  BY <1>1, <1>4 DEF Chained, Rowids, Tip, Mac, Genesis
<1>5. ASSUME journal' = journal, clock' = clock PROVE Sorted'
  BY <1>1, <1>5 DEF Sorted, Rowids
<1>6. CASE UNCHANGED vars
  <2>1. Latest'
    BY <1>1, <1>6 DEF vars, store, Latest, Rowids, Tip, Genesis
  <2> QED
    BY <1>2, <1>4, <1>5, <1>6, <2>1 DEF SInv, vars
<1>7. CASE Tick
  <2>1. journal' = journal /\ at' = at /\ buf' = buf
    BY <1>7 DEF Tick
  <2>6. PICK d \in Nat : clock' = clock + d
    BY <1>7 DEF Tick
  <2>2. clock' \in Nat /\ clock <= clock'
    BY ONLY <1>3, <2>6
  <2>3. Sorted'
    BY <1>1, <1>3, <2>1, <2>2 DEF Sorted, Rowids
  <2>4. \A p \in Clients : buf[p].when \in Nat
    BY <1>1 DEF TypeOK, Buffer, Times
  <2>5. Latest'
    BY <1>1, <1>3, <2>1, <2>2, <2>4 DEF Latest, Rowids, Tip, Genesis
  <2> QED
    BY <1>2, <1>4, <2>1, <2>3, <2>5 DEF SInv
<1>8. ASSUME NEW p \in Clients, NEW step \in Steps, NEW b \in Buffer, Goto(p, step, b)
      PROVE  /\ at'[p] = step /\ buf'[p] = b
             /\ \A q \in Clients : q = p
  BY <1>1, <1>8, Moving
<1>9. NoBuffer \in Buffer /\ Steps = {"closed", "idle", "read", "insert"}
  BY DEF NoBuffer, Buffer, Genesis, Times, AllKeys, Steps
<1>10. ASSUME NEW p \in Clients, Stamp(p) PROVE SInv'
  <2> DEFINE b == [NoBuffer EXCEPT !.when = clock]
  <2>1. b \in Buffer /\ b.when = clock
    BY <1>1, <1>9 DEF TypeOK, Buffer, NoBuffer
  <2>2. Goto(p, "read", b) /\ journal' = journal /\ clock' = clock
    BY <1>10 DEF Stamp
  <2> HIDE DEF b
  <2>3. Latest'
    BY <1>1, <1>3, <1>8, <1>9, <2>1, <2>2 DEF Latest, Sorted, Rowids
  <2> QED
    BY <1>2, <1>4, <1>5, <2>2, <2>3 DEF SInv
<1>11. ASSUME NEW p \in Clients, ReadPrev(p), ReadsSucceed PROVE SInv'
  <2> DEFINE b == [buf[p] EXCEPT !.prev = LastHash(Rowids)]
  <2>0. LastHash(Rowids) \in Seq(Link)
    BY <1>3, LastHashStored
  <2>1. b \in Buffer /\ b.when = buf[p].when /\ b.prev = LastHash(Rowids)
    BY <1>1, <2>0 DEF TypeOK, Buffer
  <2>2. Goto(p, "insert", b) /\ journal' = journal /\ clock' = clock /\ at[p] = "read"
    BY <1>1, <1>11, ReadFinds DEF ReadPrev
  <2> HIDE DEF b
  <2>3. LastHash(Rowids) = Tip(Len(journal))
    BY <1>1, <1>3, LastOfPrefix
  <2>4. Tip(Len(journal))' = Tip(Len(journal))
    BY <2>2 DEF Tip, Genesis
  <2>5. Latest'
    BY <1>1, <1>3, <1>8, <1>9, <2>1, <2>2, <2>3, <2>4 DEF Latest, Rowids
  <2> QED
    BY <1>2, <1>4, <1>5, <2>2, <2>5 DEF SInv
<1>12. ASSUME NEW p \in Clients, Insert(p) PROVE SInv'
  <2> DEFINE r == [when |-> buf[p].when, payload |-> Text, commit |-> Text,
                   hash |-> Mac(NoKey, buf[p].prev, Len(journal) + 1, buf[p].when, Text)]
             n == Len(journal) + 1
  <2>1. mine[p] = NoKey
    BY <1>1 DEF Unkeyed
  <2>2. journal' = Append(journal, r) /\ Len(journal) < MaxRows /\ at[p] = "insert"
        /\ Goto(p, "idle", NoBuffer) /\ clock' = clock
    BY <1>12, <2>1 DEF Insert
  <2>3. r \in Row
    BY <1>1, <2>2, InsertedRow DEF AllKeys
  <2>4. r.when = buf[p].when /\ r.commit = Text /\ r.payload = Text
        /\ r.hash = Mac(NoKey, buf[p].prev, n, buf[p].when, Text)
    OBVIOUS
  <2> HIDE DEF r
  <2>5. /\ Rowids' = 1 .. n
        /\ \A i \in Rowids : journal'[i] = journal[i]
        /\ journal'[n] = r
    BY <1>3, <2>2, <2>3 DEF Rowids
  <2>6. buf[p].when \in Nat /\ buf[p].when <= clock /\ buf[p].prev = Tip(Len(journal))
        /\ \A i \in Rowids : journal[i].when <= buf[p].when
    BY <1>1, <2>2 DEF Latest, TypeOK, Buffer, Times
  <2>7. Sorted'
    <3>1. \A i \in 1 .. n : journal'[i].when <= clock
      <4> TAKE i \in 1 .. n
      <4>1. CASE i = n
        BY ONLY <2>4, <2>5, <2>6, <4>1
      <4>2. CASE i # n
        <5>1. i \in Rowids
          BY ONLY <1>3, <4>2, i \in 1 .. n DEF n
        <5> QED
          BY ONLY <1>1, <2>5, <5>1 DEF Sorted
      <4> QED
        BY <4>1, <4>2
    <3>2. \A i, j \in 1 .. n : i < j => journal'[i].when <= journal'[j].when
      <4> TAKE i, j \in 1 .. n
      <4> HAVE i < j
      <4>1. i \in Rowids /\ journal'[i] = journal[i]
        BY <1>3, <2>5
      <4>2. CASE j = n
        BY <4>1, <4>2, <2>4, <2>5, <2>6
      <4>3. CASE j # n
        <5>1. j \in Rowids /\ journal'[j] = journal[j]
          BY <1>3, <2>5, <4>3
        <5> QED
          BY <1>1, <4>1, <5>1 DEF Sorted
      <4> QED
        BY <4>2, <4>3
    <3> QED
      BY <2>2, <2>5, <3>1, <3>2 DEF Sorted
  <2>8. Latest'
    BY <1>8, <1>9, <2>2 DEF Latest
  <2>9. Chained'
    <3> SUFFICES ASSUME NEW i \in 1 .. n
                 PROVE  /\ journal'[i].payload # Gone => journal'[i].commit = journal'[i].payload
                        /\ journal'[i].hash = Mac(NoKey, (IF i - 1 = 0 THEN Genesis ELSE journal'[i - 1].hash),
                                                  i, journal'[i].when, journal'[i].commit)
      BY <2>5 DEF Chained, Tip, Genesis, Mac, Gone
    <3>1. (IF i - 1 = 0 THEN Genesis ELSE journal'[i - 1].hash) = Tip(i - 1)
      BY <1>3, <2>5 DEF Tip
    <3>2. CASE i = n
      <4>1. i - 1 = Len(journal)
        BY <1>3, <3>2
      <4> QED
        BY <3>1, <3>2, <4>1, <2>4, <2>5, <2>6
    <3>3. CASE i # n
      <4>1. i \in Rowids /\ journal'[i] = journal[i]
        BY <1>3, <2>5, <3>3
      <4> QED
        BY <1>1, <3>1, <4>1 DEF Chained
    <3> QED
      BY <3>2, <3>3
  <2> QED
    BY <1>2, <2>7, <2>8, <2>9 DEF SInv
<1>13. ASSUME NEW p \in Clients, NEW i \in Rowids, Redact(p, i) PROVE SInv'
  <2> DEFINE r == [journal[i] EXCEPT !.payload = Gone]
  <2>1. r.hash = journal[i].hash /\ r.when = journal[i].when /\ r.commit = journal[i].commit
        /\ r.payload = Gone
    BY <1>3 DEF Row
  <2>2. journal' = [journal EXCEPT ![i] = r] /\ at' = at /\ buf' = buf /\ clock' = clock
    BY <1>13 DEF Redact
  <2> HIDE DEF r
  <2>3. Len(journal') = Len(journal) /\ Rowids' = Rowids
    BY <1>3, <2>2 DEF Rowids
  <2>4. \A j \in Rowids : /\ journal'[j].hash = journal[j].hash
                          /\ journal'[j].when = journal[j].when
                          /\ journal'[j].commit = journal[j].commit
                          /\ journal'[j].payload \in {journal[j].payload, Gone}
    BY <1>3, <2>1, <2>2
  <2>5. Sorted'
    BY <1>1, <2>2, <2>3, <2>4 DEF Sorted
  <2>6. \A m \in 0 .. Len(journal) :
           (IF m = 0 THEN Genesis ELSE journal'[m].hash) = Tip(m)
    BY <1>3, <2>4 DEF Tip
  <2>7. Latest'
    <3>1. Tip(Len(journal))' = Tip(Len(journal))
      BY <1>3, <2>3, <2>6 DEF Tip, Genesis
    <3> QED
      BY <1>1, <2>2, <2>3, <2>4, <3>1 DEF Latest
  <2>8. Chained'
    <3> SUFFICES ASSUME NEW j \in Rowids
                 PROVE  /\ journal'[j].payload # Gone => journal'[j].commit = journal'[j].payload
                        /\ journal'[j].hash = Mac(NoKey, (IF j - 1 = 0 THEN Genesis ELSE journal'[j - 1].hash),
                                                  j, journal'[j].when, journal'[j].commit)
      BY <2>3 DEF Chained, Tip, Genesis, Mac, Gone
    <3>1. (IF j - 1 = 0 THEN Genesis ELSE journal'[j - 1].hash) = Tip(j - 1)
      BY <1>3, <2>6
    <3> QED
      BY <1>1, <2>4, <3>1 DEF Chained
  <2> QED
    BY <1>2, <2>5, <2>7, <2>8 DEF SInv
<1>14. ASSUME NEW p \in Clients, OpenPlain(p) \/ Stop(p) PROVE SInv'
  <2>1. journal' = journal /\ clock' = clock
        /\ \E step \in {"idle", "closed"} : Goto(p, step, NoBuffer)
    BY <1>14 DEF OpenPlain, Stop
  <2>2. Latest'
    BY <1>8, <1>9, <2>1 DEF Latest
  <2> QED
    BY <1>2, <1>4, <1>5, <2>1, <2>2 DEF SInv
<1>15. \A p \in Clients : ~ (\/ Convert(p) \/ RehashRow(p) \/ StoreCanary(p) \/ Activate(p)
                             \/ RotateCommit(p) \/ RotateFail(p))
  <2> SUFFICES ASSUME NEW p \in Clients
               PROVE  at[p] \notin {"convert", "rehash", "activate", "rotate"}
    BY DEF Convert, RehashRow, StoreCanary, Activate, RotateCommit, RotateFail
  <2> QED
    BY <1>1 DEF Unkeyed, Steps
<1> QED
  BY <1>6, <1>7, <1>10, <1>11, <1>12, <1>13, <1>14, <1>15 DEF Next

\* journal_with_conn and verify_audit_chain: on a store without a key that one client writes
\* under a clock that does not go back, the chain verifies in every state, crashes between the
\* statements of an append and redactions included, as long as its reads of the newest hash
\* succeed.
THEOREM SerialVerifies ==
    ASSUME NEW c, Clients = {c}, Keys = {}, ClockSteps \subseteq Nat
    PROVE  Spec /\ [][ReadsSucceed]_vars => [](Verifies(NoKey) /\ FreshChainVerifies)
<1>1. Init => SInv
  <2> SUFFICES ASSUME Init PROVE SInv
    OBVIOUS
  <2>1. Rowids = {}
    BY DEF Init, Rowids
  <2>2. Latest
    BY <2>1 DEF Init, Latest
  <2> QED
    BY <2>1, <2>2, InitLinks DEF SInv, Sorted, Chained
<1>2. SInv /\ [Next]_vars /\ [ReadsSucceed]_vars => SInv'
  BY NextSerial
<1>3. SInv => Verifies(NoKey) /\ FreshChainVerifies
  BY ChainedVerifies DEF FreshChainVerifies
<1> QED
  BY <1>1, <1>2, <1>3, PTL DEF Spec

-----------------------------------------------------------------------------
(* The journal under keys, with one process at a time.  The chain of a store
   with a canary is linked with its key; without one it is linked without a
   key, or a rehash has begun and some row is keyed.                       *)

AllSteps == {"closed", "idle", "read", "insert", "convert", "rehash", "activate", "rotate"}

\* The hash of the first n rows of J, and the link of a row under key k.
TipOf(J, n) == IF n = 0 THEN Genesis ELSE J[n].hash
LinkHolds(J, k, i) == J[i].hash = Mac(k, TipOf(J, i - 1), i, J[i].when, J[i].commit)
Linked(J, k) == \A i \in DOMAIN J : LinkHolds(J, k, i)

\* The payload that a row still has is the one it commits to.
Committed == \A i \in Rowids : journal[i].payload # Gone => journal[i].commit = journal[i].payload

\* A rehash of J with key k that still has to do todo and goes on from prev.
Rehashing(J, k, todo, prev) ==
    /\ todo \subseteq DOMAIN J
    /\ \A i \in todo, j \in DOMAIN J : i < j => j \in todo
    /\ \A i \in DOMAIN J \ todo : LinkHolds(J, k, i)
    /\ \A n \in 0 .. Len(J) : n \notin todo /\ (n = Len(J) \/ n + 1 \in todo) => prev = TipOf(J, n)

\* What the steps of client p rest on.
Rests(p) ==
    /\ at[p] = "closed" => mine[p] = NoKey
    /\ at[p] \in {"read", "insert"} =>
          buf[p].when <= clock /\ \A i \in Rowids : journal[i].when <= buf[p].when
    /\ at[p] = "insert" => buf[p].prev = TipOf(journal, Len(journal))
    /\ at[p] = "rehash" => Rehashing(journal, mine[p], buf[p].todo, buf[p].prev)
    /\ at[p] \in {"idle", "read", "insert", "activate", "rotate"} => mine[p] = canary
    /\ at[p] \in {"convert", "rehash", "activate", "rotate"} => mine[p] # NoKey /\ marker = NoKey
    /\ at[p] = "convert" => canary \in {NoKey, mine[p]} /\ bodies \in {NoKey, mine[p]}
    /\ at[p] = "rehash" => canary = NoKey /\ bodies = mine[p]
    /\ at[p] = "rotate" => buf[p].to # NoKey

\* A canary means that the bodies and the chain have its key.  Without one the
\* chain is as it was appended, or a rehash has begun.
StoreAgrees ==
    /\ canary # NoKey => bodies = canary /\ Linked(journal, canary)
    /\ marker # NoKey => marker = canary
    /\ canary = NoKey => Linked(journal, NoKey) \/ ~UnkeyedRows

Alone == \A p, q \in Clients : at[p] # "closed" /\ at[q] # "closed" => p = q

KeyedInv == TypeOK /\ Sorted /\ Committed /\ StoreAgrees /\ \A p \in Clients : Rests(p)

KeyedConstants == KeepsKey /\ HasEntities /\ ClockSteps \subseteq Nat

LEMMA JournalRows ==
    ASSUME TypeOK
    PROVE  /\ clock \in Nat /\ journal \in Seq(Row) /\ Len(journal) \in Nat
           /\ Rowids = 1 .. Len(journal) /\ DOMAIN journal = 1 .. Len(journal)
           /\ \A i \in 1 .. Len(journal) :
                 /\ journal[i] \in Row /\ journal[i].when \in Nat /\ i \in Ids
                 /\ journal[i].commit \in {Text, Gone} /\ journal[i].hash \in Seq(Link)
                 /\ journal[i].when \in Times
  <1>1. clock \in Nat /\ journal \in Seq(Row) /\ Len(journal) \in Nat /\ Len(journal) <= MaxRows
    BY JournalAssumption DEF TypeOK, Times
  <1>2. Rowids = 1 .. Len(journal) /\ DOMAIN journal = 1 .. Len(journal)
    BY <1>1 DEF Rowids
  <1>3. \A i \in 1 .. Len(journal) : journal[i] \in Row /\ i \in Ids
    BY <1>1, <1>2, JournalAssumption DEF Ids
  <1>4. QED
    BY <1>1, <1>2, <1>3, JournalAssumption DEF Row, Times

\* A chain that is linked with a key verifies with it.
LEMMA LinkedVerifies ==
    ASSUME TypeOK, Sorted, Committed, NEW k, Linked(journal, k), canary # NoKey => k # NoKey
    PROVE  Verifies(k)
  <1>1. ASSUME NEW i \in Rowids
        PROVE  LastHash({j \in Rowids : Before(j, i)}) = TipOf(journal, i - 1)
    <2>1. i \in 1 .. Len(journal) /\ Rowids = 1 .. Len(journal) /\ Len(journal) \in Nat
          /\ journal \in Seq(Row)
      BY JournalRows
    <2>2. \A j \in Rowids : Before(j, i) <=> j < i
      BY <2>1, BeforeIsRowid
    <2>3. {j \in Rowids : Before(j, i)} = 1 .. (i - 1)
      BY <2>1, <2>2
    <2>4. i - 1 \in Nat /\ i - 1 <= Len(journal)
      BY <2>1
    <2>5. LastHash(1 .. (i - 1)) = Tip(i - 1)
      BY <2>1, <2>4, LastOfPrefix
    <2>6. QED
      BY <2>3, <2>5 DEF Tip, TipOf
  <1>2. QED
    BY <1>1 DEF Verifies, Committed, Linked, LinkHolds, Rowids

\* The first row of a set has the smallest rowid.
LEMMA FirstIsLeast ==
    ASSUME TypeOK, Sorted, NEW S, S \subseteq Rowids, S # {}
    PROVE  First(S) \in S /\ \A j \in S : First(S) <= j
  <1>1. Rowids = 1 .. Len(journal) /\ Len(journal) \in Nat /\ journal \in Seq(Row)
    BY JournalRows
  <1>2. S \subseteq Nat
    BY <1>1
  <1>3. PICK m \in S : \A j \in S : m <= j
    BY <1>2, Least
  <1>4. \A j \in S \ {m} : Before(m, j)
    <2> SUFFICES ASSUME NEW j \in S, j # m PROVE Before(m, j)
      OBVIOUS
    <2>1. m < j
      BY <1>2, <1>3
    <2>2. QED
      BY <1>1, <2>1, BeforeIsRowid
  <1>5. First(S) \in S /\ \A j \in S \ {First(S)} : Before(First(S), j)
    BY <1>3, <1>4 DEF First
  <1>6. QED
    <2> SUFFICES ASSUME NEW j \in S PROVE First(S) <= j
      BY <1>5
    <2>1. First(S) \in Nat /\ j \in Nat
      BY <1>2, <1>5
    <2>2. CASE j = First(S)
      BY <2>1, <2>2
    <2>3. CASE j # First(S)
      <3>1. Before(First(S), j)
        BY <1>5, <2>3
      <3>2. QED
        BY <1>1, <1>5, <2>1, <3>1, BeforeIsRowid
    <2>4. QED
      BY <2>2, <2>3

\* What the link of row n is in a rehash of all rows.
NewLink(key, n) == [key |-> key, id |-> n, when |-> journal[n].when, commit |-> Commitment(n)]

LEMMA RehashedIs ==
    ASSUME TypeOK, Sorted, NEW key, NEW i \in Rowids
    PROVE  Rehashed(key, i) = [n \in 1 .. i |-> NewLink(key, n)]
  <1>1. Rowids = 1 .. Len(journal) /\ Len(journal) \in Nat /\ journal \in Seq(Row) /\ i \in Nat
    BY JournalRows
  <1> DEFINE upto == {j \in Rowids : j = i \/ Before(j, i)}
             nth(n) == CHOOSE j \in upto : Cardinality({k \in upto : k = j \/ Before(k, j)}) = n
  <1>2. \A j, k \in Rowids : Before(j, k) <=> j < k
    BY <1>1, BeforeIsRowid
  <1>3. upto = 1 .. i
    BY <1>1, <1>2
  <1>4. ASSUME NEW j \in 1 .. i
        PROVE  Cardinality({k \in upto : k = j \/ Before(k, j)}) = j
    <2>1. {k \in upto : k = j \/ Before(k, j)} = 1 .. j
      BY <1>1, <1>2, <1>3
    <2>2. Cardinality(1 .. j) = j
      BY <1>1, FS_Interval
    <2>3. QED
      BY <2>1, <2>2
  <1>5. \A n \in 1 .. i : nth(n) = n
    <2> SUFFICES ASSUME NEW n \in 1 .. i PROVE nth(n) = n
      OBVIOUS
    <2>1. n \in upto /\ Cardinality({k \in upto : k = n \/ Before(k, n)}) = n
      BY <1>3, <1>4
    <2>2. \A j \in upto : Cardinality({k \in upto : k = j \/ Before(k, j)}) = n => j = n
      BY <1>3, <1>4
    <2>3. QED
      BY <2>1, <2>2
  <1>6. Cardinality(upto) = i
    <2>1. i >= 1 /\ i \in Int /\ 1 \in Int
      BY <1>1
    <2>2. Cardinality(1 .. i) = i
      BY <2>1, FS_Interval
    <2>3. QED
      BY <1>3, <2>2
  <1>7. Rehashed(key, i) =
            [n \in 1 .. Cardinality(upto) |->
               [key |-> key, id |-> nth(n), when |-> journal[nth(n)].when,
                commit |-> Commitment(nth(n))]]
    BY DEF Rehashed
  <1> HIDE DEF nth, upto
  <1>8. QED
    BY <1>5, <1>6, <1>7 DEF NewLink

LEMMA KeyedInit == Init => KeyedInv /\ \A p \in Clients : at[p] = "closed"
  <1> SUFFICES ASSUME Init PROVE KeyedInv /\ \A p \in Clients : at[p] = "closed"
    OBVIOUS
  <1>1. journal = <<>> /\ Rowids = {} /\ \A p \in Clients : at[p] = "closed" /\ mine[p] = NoKey
    BY DEF Init, Rowids
  <1>2. TypeOK
    BY InitLinks DEF IInv
  <1>3. Sorted /\ Committed /\ StoreAgrees
    BY <1>1 DEF Init, Sorted, Committed, StoreAgrees, Linked
  <1>4. \A p \in Clients : Rests(p)
    BY <1>1 DEF Rests
  <1>5. QED
    BY <1>1, <1>2, <1>3, <1>4 DEF KeyedInv

\* The step of a client that stays open, with the others closed.
LEMMA OthersRest ==
    ASSUME KeyedInv, Alone', NEW p \in Clients, at'[p] # "closed", Rests(p)',
           \A q \in Clients \ {p} : at'[q] = at[q] /\ mine'[q] = mine[q]
    PROVE  \A q \in Clients : Rests(q)'
  <1> SUFFICES ASSUME NEW q \in Clients, q # p PROVE Rests(q)'
    OBVIOUS
  <1>1. at'[q] = "closed" /\ mine'[q] = NoKey
    BY DEF Alone, KeyedInv, Rests
  <1>2. QED
    BY <1>1 DEF Rests

\* The types of a client that moves.
LEMMA MovesTyped ==
    ASSUME TypeOK, NEW p \in Clients, NEW step \in AllSteps, NEW b \in Buffer, Goto(p, step, b)
    PROVE  /\ at' \in [Clients -> AllSteps] /\ buf' \in [Clients -> Buffer]
           /\ at'[p] = step /\ buf'[p] = b
           /\ \A q \in Clients \ {p} : at'[q] = at[q] /\ buf'[q] = buf[q]
  BY DEF Goto, TypeOK, AllSteps

LEMMA BufferTypes ==
    /\ NoBuffer \in Buffer
    /\ \A t \in Times : [NoBuffer EXCEPT !.when = t] \in Buffer /\ [NoBuffer EXCEPT !.when = t].when = t
    /\ \A k \in AllKeys : [NoBuffer EXCEPT !.to = k] \in Buffer /\ [NoBuffer EXCEPT !.to = k].to = k
    /\ \A T \in SUBSET Ids : /\ [NoBuffer EXCEPT !.todo = T] \in Buffer
                             /\ [NoBuffer EXCEPT !.todo = T].todo = T
                             /\ [NoBuffer EXCEPT !.todo = T].prev = Genesis
  <1>1. /\ 0 \in Times /\ {} \in SUBSET Ids /\ NoKey \in AllKeys /\ Genesis \in Seq(Link)
        /\ NoBuffer = [when |-> 0, prev |-> Genesis, todo |-> {}, to |-> NoKey]
    BY JournalAssumption, EmptySeq DEF NoBuffer, Genesis, Times, AllKeys
  <1>2. NoBuffer \in Buffer
    BY <1>1 DEF Buffer
  <1>3. ASSUME NEW t \in Times
        PROVE  [NoBuffer EXCEPT !.when = t] \in Buffer /\ [NoBuffer EXCEPT !.when = t].when = t
    BY <1>1 DEF Buffer
  <1>4. ASSUME NEW k \in AllKeys
        PROVE  [NoBuffer EXCEPT !.to = k] \in Buffer /\ [NoBuffer EXCEPT !.to = k].to = k
    BY <1>1 DEF Buffer
  <1>5. ASSUME NEW T \in SUBSET Ids
        PROVE  /\ [NoBuffer EXCEPT !.todo = T] \in Buffer
               /\ [NoBuffer EXCEPT !.todo = T].todo = T
               /\ [NoBuffer EXCEPT !.todo = T].prev = Genesis
    BY <1>1 DEF Buffer
  <1>6. QED
    BY <1>2, <1>3, <1>4, <1>5

\* Steps that leave the journal and the canary alone.
LEMMA SameJournal ==
    ASSUME KeyedInv, journal' = journal, clock' \in Nat, clock <= clock', canary' = canary,
           bodies' = bodies \/ canary = NoKey, marker' \in {marker, NoKey, canary}
    PROVE  Sorted' /\ Committed' /\ StoreAgrees' /\ Rowids' = Rowids
  <1>1. clock \in Nat /\ \A i \in Rowids : journal[i].when \in Nat
    BY JournalRows DEF KeyedInv
  <1>2. Sorted'
    BY <1>1 DEF KeyedInv, Sorted, Rowids
  <1>3. Committed' /\ Rowids' = Rowids
    BY DEF KeyedInv, Committed, Rowids
  <1>4. UnkeyedRows' = UnkeyedRows
    BY DEF UnkeyedRows, Rowids
  <1>5. StoreAgrees'
    BY <1>4 DEF KeyedInv, StoreAgrees
  <1>6. QED
    BY <1>2, <1>3, <1>5

LEMMA TickKeyed ==
    ASSUME KeyedConstants, KeyedInv, Tick
    PROVE  KeyedInv'
  <1>1. UNCHANGED <<journal, canary, marker, bodies, at, mine, buf>> /\ clock' \in Times
    BY DEF Tick, store
  <1>2. clock' \in Nat /\ clock \in Nat /\ clock <= clock'
    BY JournalRows DEF Tick, KeyedInv, KeyedConstants, Times
  <1>3. TypeOK'
    BY <1>1 DEF KeyedInv, TypeOK
  <1>4. Sorted' /\ Committed' /\ StoreAgrees' /\ Rowids' = Rowids
    BY <1>1, <1>2, SameJournal
  <1>5. \A p \in Clients : buf[p].when \in Nat
    BY JournalAssumption DEF KeyedInv, TypeOK, Buffer, Times
  <1>6. \A p \in Clients : Rests(p)'
    BY <1>1, <1>2, <1>4, <1>5 DEF KeyedInv, Rests
  <1>7. QED
    BY <1>3, <1>4, <1>6 DEF KeyedInv

LEMMA StopKeyed ==
    ASSUME KeyedInv, NEW p \in Clients, Stop(p)
    PROVE  KeyedInv'
  <1>1. /\ UNCHANGED <<journal, canary, marker, bodies, clock>>
        /\ mine' = [mine EXCEPT ![p] = NoKey] /\ Goto(p, "closed", NoBuffer)
    BY DEF Stop, store
  <1>2. mine \in [Clients -> AllKeys] /\ NoKey \in AllKeys
    BY DEF KeyedInv, TypeOK, AllKeys
  <1>3. /\ at' \in [Clients -> AllSteps] /\ buf' \in [Clients -> Buffer] /\ at'[p] = "closed"
        /\ \A q \in Clients \ {p} : at'[q] = at[q] /\ buf'[q] = buf[q]
    BY <1>1, MovesTyped, BufferTypes DEF KeyedInv, AllSteps
  <1>4. TypeOK'
    BY <1>1, <1>2, <1>3 DEF KeyedInv, TypeOK, AllSteps
  <1>5. Sorted' /\ Committed' /\ StoreAgrees' /\ Rowids' = Rowids
    BY <1>1, SameJournal, JournalRows DEF KeyedInv
  <1>6. \A q \in Clients : Rests(q)'
    <2> SUFFICES ASSUME NEW q \in Clients PROVE Rests(q)'
      OBVIOUS
    <2>1. CASE q = p
      BY <1>1, <1>2, <1>3, <2>1 DEF Rests
    <2>2. CASE q # p
      <3>1. at'[q] = at[q] /\ buf'[q] = buf[q] /\ mine'[q] = mine[q]
        BY <1>1, <1>2, <1>3, <2>2
      <3>2. QED
        BY <1>1, <1>5, <3>1 DEF KeyedInv, Rests
    <2>3. QED
      BY <2>1, <2>2
  <1>7. QED
    BY <1>4, <1>5, <1>6 DEF KeyedInv

\* journal_with_conn until its INSERT.
LEMMA AppendKeyed ==
    ASSUME KeyedInv, Alone', NEW p \in Clients, Stamp(p) \/ ReadPrev(p), ReadsSucceed
    PROVE  KeyedInv'
  <1>1. UNCHANGED <<journal, canary, marker, bodies, clock, mine>>
    BY DEF Stamp, ReadPrev, store
  <1>2. Sorted' /\ Committed' /\ StoreAgrees' /\ Rowids' = Rowids
    BY <1>1, SameJournal, JournalRows DEF KeyedInv
  <1>3. /\ at' \in [Clients -> AllSteps] /\ buf' \in [Clients -> Buffer]
        /\ \A q \in Clients \ {p} : at'[q] = at[q] /\ buf'[q] = buf[q]
        /\ at'[p] # "closed" /\ Rests(p)'
    <2>1. CASE Stamp(p)
      <3> DEFINE b == [NoBuffer EXCEPT !.when = clock]
      <3>1. Goto(p, "read", b) /\ at[p] = "idle"
        BY <2>1 DEF Stamp
      <3>2. b \in Buffer /\ b.when = clock
        BY BufferTypes DEF KeyedInv, TypeOK
      <3> HIDE DEF b
      <3>3. /\ at' \in [Clients -> AllSteps] /\ buf' \in [Clients -> Buffer]
            /\ at'[p] = "read" /\ buf'[p] = b
            /\ \A q \in Clients \ {p} : at'[q] = at[q] /\ buf'[q] = buf[q]
        BY <3>1, <3>2, MovesTyped DEF KeyedInv, AllSteps
      <3>4. clock <= clock
        BY JournalRows DEF KeyedInv
      <3>5. Rests(p)'
        BY <1>1, <1>2, <3>1, <3>2, <3>3, <3>4 DEF KeyedInv, Rests, Sorted
      <3>6. QED
        BY <3>3, <3>5
    <2>2. CASE ReadPrev(p)
      <3> DEFINE b == [buf[p] EXCEPT !.prev = LastHash(Rowids)]
      <3>1. Goto(p, "insert", b) /\ at[p] = "read"
        BY <2>2, ReadFinds DEF ReadPrev, KeyedInv
      <3>2. LastHash(Rowids) \in Seq(Link)
        BY LastHashStored, JournalRows DEF KeyedInv
      <3>3. b \in Buffer /\ b.when = buf[p].when /\ b.prev = LastHash(Rowids)
        BY <3>2 DEF KeyedInv, TypeOK, Buffer
      <3>4. LastHash(Rowids) = TipOf(journal, Len(journal))
        <4>1. Rowids = 1 .. Len(journal) /\ Len(journal) \in Nat /\ journal \in Seq(Row)
          BY JournalRows DEF KeyedInv
        <4>2. LastHash(1 .. Len(journal)) = Tip(Len(journal))
          BY <4>1, LastOfPrefix DEF KeyedInv
        <4>3. QED
          BY <4>1, <4>2 DEF Tip, TipOf
      <3> HIDE DEF b
      <3>5. /\ at' \in [Clients -> AllSteps] /\ buf' \in [Clients -> Buffer]
            /\ at'[p] = "insert" /\ buf'[p] = b
            /\ \A q \in Clients \ {p} : at'[q] = at[q] /\ buf'[q] = buf[q]
        BY <3>1, <3>3, MovesTyped DEF KeyedInv, AllSteps
      <3>6. Rests(p)'
        BY <1>1, <1>2, <3>1, <3>3, <3>4, <3>5 DEF KeyedInv, Rests
      <3>7. QED
        BY <3>5, <3>6
    <2>3. QED
      BY <2>1, <2>2
  <1>4. TypeOK'
    BY <1>1, <1>3 DEF KeyedInv, TypeOK, AllSteps
  <1>5. QED
    BY <1>1, <1>2, <1>3, <1>4, OthersRest DEF KeyedInv

\* Opening, activating and beginning a rotation, which leave the journal alone.
LEMMA OpenKeyedInv ==
    ASSUME KeyedConstants, KeyedInv, Alone', NEW p \in Clients,
           \/ OpenPlain(p) \/ Activate(p) \/ RotateFail(p)
           \/ \E k \in Keys : OpenKeyed(p, k) \/ RotateBegin(p, k)
    PROVE  KeyedInv'
  <1>1. UNCHANGED <<journal, canary, bodies, clock>> /\ mine \in [Clients -> AllKeys]
        /\ Keys \subseteq AllKeys /\ NoKey \notin Keys
    BY JournalAssumption
       DEF OpenPlain, Activate, RotateFail, OpenKeyed, RotateBegin, store, KeyedInv, TypeOK, AllKeys
  <1> DEFINE Opened ==
        /\ at' \in [Clients -> AllSteps] /\ buf' \in [Clients -> Buffer]
        /\ \A q \in Clients \ {p} : at'[q] = at[q] /\ buf'[q] = buf[q] /\ mine'[q] = mine[q]
        /\ mine' \in [Clients -> AllKeys] /\ marker' \in AllKeys
        /\ marker' \in {marker, NoKey, canary}
        /\ at'[p] # "closed" /\ Rests(p)'
  <1>2. Opened
    <2>1. CASE OpenPlain(p) \/ Activate(p) \/ RotateFail(p)
      <3>1. Goto(p, "idle", NoBuffer) /\ mine' = mine
        BY <2>1 DEF OpenPlain, Activate, RotateFail
      <3>2. /\ at' \in [Clients -> AllSteps] /\ buf' \in [Clients -> Buffer]
            /\ at'[p] = "idle"
            /\ \A q \in Clients \ {p} : at'[q] = at[q] /\ buf'[q] = buf[q]
        BY <3>1, MovesTyped, BufferTypes DEF KeyedInv, AllSteps
      <3>3. mine[p] = canary
        BY <2>1 DEF OpenPlain, Activate, RotateFail, KeyedInv, Rests, KeyedConstants
      <3>4. marker' \in {marker, canary}
        BY <2>1, <3>3 DEF OpenPlain, Activate, RotateFail, store
      <3>5. QED
        BY <1>1, <3>1, <3>2, <3>3, <3>4 DEF Rests, KeyedInv, TypeOK
    <2>2. ASSUME NEW k \in Keys, OpenKeyed(p, k)
          PROVE  Opened
      <3>1. /\ Goto(p, "convert", NoBuffer) /\ mine' = [mine EXCEPT ![p] = k]
            /\ marker' = NoKey /\ (IF marker # NoKey THEN marker = k ELSE bodies \in {NoKey, k})
        BY <2>2 DEF OpenKeyed
      <3>2. /\ at' \in [Clients -> AllSteps] /\ buf' \in [Clients -> Buffer]
            /\ at'[p] = "convert"
            /\ \A q \in Clients \ {p} : at'[q] = at[q] /\ buf'[q] = buf[q]
        BY <3>1, MovesTyped, BufferTypes DEF KeyedInv, AllSteps
      <3>3. mine'[p] = k /\ mine' \in [Clients -> AllKeys]
            /\ \A q \in Clients \ {p} : mine'[q] = mine[q]
        BY <1>1, <3>1
      <3>4. canary \in {NoKey, k} /\ bodies \in {NoKey, k}
        BY <1>1, <3>1 DEF KeyedInv, StoreAgrees
      <3>5. Rests(p)'
        BY <1>1, <3>1, <3>2, <3>3, <3>4 DEF Rests
      <3>6. NoKey \in AllKeys
        BY DEF AllKeys
      <3>7. QED
        BY <3>1, <3>2, <3>3, <3>5, <3>6
    <2>3. ASSUME NEW k \in Keys, RotateBegin(p, k)
          PROVE  Opened
      <3> DEFINE b == [NoBuffer EXCEPT !.to = k]
      <3>1. Goto(p, "rotate", b) /\ mine' = mine /\ marker' = NoKey /\ at[p] = "idle" /\ mine[p] # NoKey
        BY <2>3 DEF RotateBegin
      <3>2. b \in Buffer /\ b.to = k
        BY <1>1, BufferTypes
      <3> HIDE DEF b
      <3>3. /\ at' \in [Clients -> AllSteps] /\ buf' \in [Clients -> Buffer]
            /\ at'[p] = "rotate" /\ buf'[p] = b
            /\ \A q \in Clients \ {p} : at'[q] = at[q] /\ buf'[q] = buf[q]
        BY <3>1, <3>2, MovesTyped DEF KeyedInv, AllSteps
      <3>4. Rests(p)'
        BY <1>1, <3>1, <3>2, <3>3 DEF KeyedInv, Rests
      <3>5. NoKey \in AllKeys
        BY DEF AllKeys
      <3>6. QED
        BY <1>1, <3>1, <3>3, <3>4, <3>5
    <2>4. QED
      BY <2>1, <2>2, <2>3
  <1>3. TypeOK'
    BY <1>1, <1>2 DEF KeyedInv, TypeOK, AllSteps
  <1>4. Sorted' /\ Committed' /\ StoreAgrees' /\ Rowids' = Rowids
    BY <1>1, <1>2, SameJournal, JournalRows DEF KeyedInv
  <1>5. QED
    BY <1>2, <1>3, <1>4, OthersRest DEF KeyedInv

\* encrypt_plaintext_records, and the decision to rehash.
LEMMA ConvertKeyed ==
    ASSUME KeyedConstants, KeyedInv, Alone', NEW p \in Clients, Convert(p) \/ StoreCanary(p)
    PROVE  KeyedInv'
  <1>1. UNCHANGED <<journal, clock, mine, marker>> /\ mine \in [Clients -> AllKeys] /\ mine[p] # NoKey
        /\ mine[p] \in AllKeys
    BY DEF Convert, StoreCanary, store, KeyedInv, TypeOK, Rests
  <1>2. Rowids' = Rowids /\ Rowids \subseteq Ids /\ DOMAIN journal = Rowids /\ Len(journal) \in Nat
        /\ Rowids = 1 .. Len(journal)
    BY <1>1, JournalRows DEF KeyedInv, Rowids
  <1>3. Sorted' /\ Committed' /\ UnkeyedRows' = UnkeyedRows
    BY <1>1 DEF KeyedInv, Sorted, Committed, UnkeyedRows, Rowids
  <1> DEFINE Converted ==
        /\ at' \in [Clients -> AllSteps] /\ buf' \in [Clients -> Buffer]
        /\ \A q \in Clients \ {p} : at'[q] = at[q] /\ buf'[q] = buf[q]
        /\ canary' \in AllKeys /\ bodies' \in AllKeys
        /\ at'[p] # "closed" /\ Rests(p)' /\ StoreAgrees'
  <1>4. ASSUME Convert(p) PROVE Converted
    <2>1. at[p] = "convert" /\ bodies' = mine[p] /\ canary' = canary
          /\ canary \in {NoKey, mine[p]} /\ canary \in AllKeys /\ marker = NoKey
      BY <1>4 DEF Convert, KeyedConstants, KeyedInv, Rests, TypeOK
    <2>2. StoreAgrees'
      BY <1>1, <1>3, <2>1 DEF KeyedInv, StoreAgrees
    <2>3. CASE canary = mine[p]
      <3>1. Goto(p, "activate", NoBuffer)
        BY <1>4, <2>3 DEF Convert
      <3>2. /\ at' \in [Clients -> AllSteps] /\ buf' \in [Clients -> Buffer] /\ at'[p] = "activate"
            /\ \A q \in Clients \ {p} : at'[q] = at[q] /\ buf'[q] = buf[q]
        BY <3>1, MovesTyped, BufferTypes DEF KeyedInv, AllSteps
      <3>3. Rests(p)'
        BY <1>1, <2>1, <2>3, <3>2 DEF Rests
      <3>4. QED
        BY <1>1, <2>1, <2>2, <3>2, <3>3
    <2>4. CASE canary # mine[p]
      <3> DEFINE b == [NoBuffer EXCEPT !.todo = Rowids]
      <3>1. Goto(p, "rehash", b)
        BY <1>4, <2>4 DEF Convert
      <3>2. b \in Buffer /\ b.todo = Rowids /\ b.prev = Genesis
        BY <1>2, BufferTypes
      <3> HIDE DEF b
      <3>3. /\ at' \in [Clients -> AllSteps] /\ buf' \in [Clients -> Buffer] /\ at'[p] = "rehash"
            /\ buf'[p] = b
            /\ \A q \in Clients \ {p} : at'[q] = at[q] /\ buf'[q] = buf[q]
        BY <3>1, <3>2, MovesTyped DEF KeyedInv, AllSteps
      <3>4. Rehashing(journal, mine[p], b.todo, b.prev)
        <4>1. \A n \in 0 .. Len(journal) : n \notin Rowids => n = 0
          BY <1>2
        <4>2. QED
          BY <1>2, <3>2, <4>1 DEF Rehashing, TipOf
      <3>5. Rests(p)'
        BY <1>1, <2>1, <2>4, <3>3, <3>4 DEF Rests
      <3>6. QED
        BY <1>1, <2>1, <2>2, <3>3, <3>5
    <2>5. QED
      BY <2>3, <2>4
  <1>5. ASSUME StoreCanary(p) PROVE Converted
    <2>1. at[p] = "rehash" /\ buf[p].todo = {} /\ canary' = mine[p] /\ bodies' = bodies
          /\ Goto(p, "activate", NoBuffer)
      BY <1>5 DEF StoreCanary, store
    <2>2. bodies = mine[p] /\ canary = NoKey /\ Rehashing(journal, mine[p], {}, buf[p].prev)
          /\ marker = NoKey
      BY <2>1 DEF KeyedInv, Rests, StoreAgrees
    <2>3. Linked(journal, mine[p])
      BY <2>2 DEF Rehashing, Linked
    <2>4. StoreAgrees'
      BY <1>1, <2>1, <2>2, <2>3 DEF StoreAgrees
    <2>5. /\ at' \in [Clients -> AllSteps] /\ buf' \in [Clients -> Buffer] /\ at'[p] = "activate"
          /\ \A q \in Clients \ {p} : at'[q] = at[q] /\ buf'[q] = buf[q]
      BY <2>1, MovesTyped, BufferTypes DEF KeyedInv, AllSteps
    <2>6. Rests(p)'
      BY <1>1, <2>1, <2>2, <2>5 DEF Rests
    <2>7. QED
      BY <1>1, <2>1, <2>2, <2>4, <2>5, <2>6
  <1>6. Converted
    BY <1>4, <1>5
  <1>7. TypeOK'
    BY <1>1, <1>6 DEF KeyedInv, TypeOK, AllSteps
  <1>8. \A q \in Clients : Rests(q)'
    BY <1>1, <1>6, OthersRest
  <1>9. QED
    BY <1>3, <1>6, <1>7, <1>8 DEF KeyedInv

\* A redaction keeps what the chain covers.
LEMMA RedactKeyed ==
    ASSUME KeyedInv, NEW p \in Clients, NEW i \in Rowids, Redact(p, i)
    PROVE  KeyedInv'
  <1>1. UNCHANGED <<canary, marker, bodies, clock, at, mine, buf>>
    BY DEF Redact, store
  <1>2. /\ Rowids = 1 .. Len(journal) /\ Len(journal) \in Nat /\ journal \in Seq(Row)
        /\ DOMAIN journal = Rowids /\ \A j \in Rowids : journal[j] \in Row
    BY JournalRows DEF KeyedInv
  <1> DEFINE r == [journal[i] EXCEPT !.payload = Gone]
  <1>3. r \in Row /\ r.hash = journal[i].hash /\ r.when = journal[i].when
        /\ r.commit = journal[i].commit /\ r.payload = Gone
    BY <1>2 DEF Row
  <1>4. journal' = [journal EXCEPT ![i] = r]
    BY DEF Redact
  <1> HIDE DEF r
  <1>5. journal' \in Seq(Row) /\ Len(journal') = Len(journal) /\ DOMAIN journal' = DOMAIN journal
        /\ Rowids' = Rowids
    BY <1>2, <1>3, <1>4 DEF Rowids
  <1>6. \A j \in Rowids : /\ journal'[j].hash = journal[j].hash
                          /\ journal'[j].when = journal[j].when
                          /\ journal'[j].commit = journal[j].commit
                          /\ journal'[j].payload \in {journal[j].payload, Gone}
    BY <1>2, <1>3, <1>4
  <1>7. TypeOK'
    BY <1>1, <1>5 DEF KeyedInv, TypeOK
  <1>8. Sorted' /\ Committed'
    BY <1>1, <1>5, <1>6 DEF KeyedInv, Sorted, Committed
  <1>9. \A n \in 0 .. Len(journal) : TipOf(journal', n) = TipOf(journal, n)
    BY <1>2, <1>6 DEF TipOf
  <1>10. \A k : \A j \in Rowids : LinkHolds(journal', k, j) <=> LinkHolds(journal, k, j)
    <2> SUFFICES ASSUME NEW k, NEW j \in Rowids
                 PROVE  LinkHolds(journal', k, j) <=> LinkHolds(journal, k, j)
      OBVIOUS
    <2>1. j - 1 \in 0 .. Len(journal)
      BY <1>2
    <2>2. QED
      BY <1>6, <1>9, <2>1 DEF LinkHolds
  <1>11. \A k : Linked(journal', k) <=> Linked(journal, k)
    BY <1>2, <1>5, <1>10 DEF Linked
  <1>12. UnkeyedRows' <=> UnkeyedRows
    BY <1>5, <1>6 DEF UnkeyedRows
  <1>13. StoreAgrees'
    BY <1>1, <1>11, <1>12 DEF KeyedInv, StoreAgrees
  <1>14. \A k, T, h : Rehashing(journal, k, T, h) => Rehashing(journal', k, T, h)
    BY <1>2, <1>5, <1>9, <1>10 DEF Rehashing
  <1>15. TipOf(journal', Len(journal')) = TipOf(journal, Len(journal))
    BY <1>2, <1>5, <1>9
  <1>16. \A q \in Clients : Rests(q)'
    BY <1>1, <1>5, <1>6, <1>14, <1>15 DEF KeyedInv, Rests
  <1>17. QED
    BY <1>7, <1>8, <1>13, <1>16 DEF KeyedInv

LEMMA InsertKeyed ==
    ASSUME KeyedInv, Alone', NEW p \in Clients, Insert(p)
    PROVE  KeyedInv'
  <1> DEFINE n == Len(journal) + 1
             r == [when |-> buf[p].when, payload |-> Text, commit |-> Text,
                   hash |-> Mac(mine[p], buf[p].prev, n, buf[p].when, Text)]
  <1>1. /\ UNCHANGED <<canary, marker, bodies, clock, mine>> /\ at[p] = "insert"
        /\ Len(journal) < MaxRows /\ Goto(p, "idle", NoBuffer)
        /\ journal' = Append(journal, r)
    BY DEF Insert, store
  <1>2. /\ Rowids = 1 .. Len(journal) /\ Len(journal) \in Nat /\ journal \in Seq(Row)
        /\ DOMAIN journal = Rowids /\ clock \in Nat /\ \A j \in Rowids : journal[j].when \in Nat
    BY JournalRows DEF KeyedInv
  <1>3. mine[p] = canary /\ canary \in AllKeys /\ buf[p].when \in Nat /\ buf[p].when <= clock
        /\ buf[p].prev = TipOf(journal, Len(journal))
        /\ \A i \in Rowids : journal[i].when <= buf[p].when
    BY <1>1, JournalAssumption DEF KeyedInv, Rests, TypeOK, Buffer, Times
  <1>4. r \in Row
    BY <1>1, <1>3, InsertedRow DEF KeyedInv
  <1>5. r.when = buf[p].when /\ r.payload = Text /\ r.commit = Text
        /\ r.hash = Mac(canary, TipOf(journal, n - 1), n, r.when, r.commit)
    BY <1>2, <1>3
  <1> HIDE DEF r
  <1>6. /\ journal' \in Seq(Row) /\ Len(journal') = n /\ DOMAIN journal' = 1 .. n
        /\ Rowids' = 1 .. n /\ \A i \in Rowids : journal'[i] = journal[i]
        /\ journal'[n] = r
    BY <1>1, <1>2, <1>4 DEF Rowids
  <1>7. /\ at' \in [Clients -> AllSteps] /\ buf' \in [Clients -> Buffer] /\ at'[p] = "idle"
        /\ \A q \in Clients \ {p} : at'[q] = at[q]
    BY <1>1, MovesTyped, BufferTypes DEF KeyedInv, AllSteps
  <1>8. TypeOK'
    <2>1. Len(journal') <= MaxRows
      BY <1>1, <1>2, <1>6, JournalAssumption
    <2>2. QED
      BY <1>1, <1>6, <1>7, <2>1 DEF KeyedInv, TypeOK, AllSteps
  <1>9. \A i \in 1 .. n : i = n \/ i \in Rowids
    BY <1>2
  <1>10. Sorted'
    <2>1. \A i \in 1 .. n : journal'[i].when <= clock
      BY <1>3, <1>5, <1>6, <1>9 DEF KeyedInv, Sorted
    <2>2. ASSUME NEW i \in 1 .. n, NEW j \in 1 .. n, i < j
          PROVE  journal'[i].when <= journal'[j].when
      <3>1. i \in Rowids
        BY <1>2, <2>2
      <3>2. CASE j = n
        BY <1>3, <1>5, <1>6, <3>1, <3>2
      <3>3. CASE j \in Rowids
        BY <1>6, <2>2, <3>1, <3>3 DEF KeyedInv, Sorted
      <3>4. QED
        BY <1>9, <3>2, <3>3
    <2>3. QED
      BY <1>1, <1>6, <2>1, <2>2 DEF Sorted
  <1>11. Committed'
    BY <1>5, <1>6, <1>9 DEF KeyedInv, Committed
  <1>12. \A m \in 0 .. Len(journal) : TipOf(journal', m) = TipOf(journal, m)
    BY <1>2, <1>6 DEF TipOf
  <1>13. Linked(journal, canary) => Linked(journal', canary)
    <2> SUFFICES ASSUME Linked(journal, canary), NEW i \in 1 .. n
                 PROVE  LinkHolds(journal', canary, i)
      BY <1>6 DEF Linked
    <2>1. i - 1 \in 0 .. Len(journal)
      BY <1>2
    <2>2. CASE i = n
      BY <1>5, <1>6, <1>12, <2>1, <2>2 DEF LinkHolds
    <2>3. CASE i \in Rowids
      BY <1>2, <1>6, <1>12, <2>1, <2>3 DEF LinkHolds, Linked
    <2>4. QED
      BY <1>9, <2>2, <2>3
  <1>14. ~UnkeyedRows => ~UnkeyedRows'
    BY <1>2, <1>6 DEF UnkeyedRows
  <1>15. StoreAgrees'
    BY <1>1, <1>13, <1>14 DEF KeyedInv, StoreAgrees
  <1>16. Rests(p)'
    BY <1>1, <1>3, <1>7 DEF Rests
  <1>17. \A q \in Clients : Rests(q)'
    BY <1>1, <1>7, <1>16, OthersRest
  <1>18. QED
    BY <1>8, <1>10, <1>11, <1>15, <1>17 DEF KeyedInv

\* One UPDATE of the rehash extends the part of the chain that is under the new
\* key by the next row, and from then on some row is keyed.
LEMMA RehashRowKeyed ==
    ASSUME KeyedInv, Alone', NEW p \in Clients, RehashRow(p)
    PROVE  KeyedInv'
  <1> DEFINE T == buf[p].todo
             f == First(T)
             com == Commitment(f)
             h == Mac(mine[p], buf[p].prev, f, journal[f].when, com)
             r == [journal[f] EXCEPT !.hash = h, !.commit = com]
  <1>1. /\ UNCHANGED <<canary, marker, bodies, clock, at, mine>>
        /\ at[p] = "rehash" /\ T # {}
    BY DEF RehashRow, store
  <1>2. /\ Rowids = 1 .. Len(journal) /\ Len(journal) \in Nat /\ journal \in Seq(Row)
        /\ DOMAIN journal = Rowids
        /\ \A j \in Rowids : journal[j] \in Row /\ j \in Ids /\ journal[j].when \in Times
    BY JournalRows DEF KeyedInv
  <1>3. /\ canary = NoKey /\ bodies = mine[p] /\ mine[p] # NoKey /\ mine[p] \in AllKeys
        /\ marker = NoKey /\ Rehashing(journal, mine[p], T, buf[p].prev) /\ buf[p] \in Buffer
    BY <1>1 DEF KeyedInv, Rests, TypeOK
  <1>4. T \subseteq Rowids
    BY <1>2, <1>3 DEF Rehashing
  <1>5. f \in T /\ f \in Rowids /\ \A j \in T : f <= j
    BY <1>1, <1>4, FirstIsLeast DEF KeyedInv
  <1>6. com \in {Text, Gone} /\ (journal[f].payload # Gone => com = journal[f].payload)
    BY <1>2, <1>5 DEF Commitment, Row
  <1>7. h \in Seq(Link)
    <2>1. [key |-> mine[p], id |-> f, when |-> journal[f].when, commit |-> com] \in Link
      BY <1>2, <1>3, <1>5, <1>6 DEF Link
    <2>2. buf[p].prev \in Seq(Link)
      BY <1>3 DEF Buffer
    <2>3. QED
      BY <2>1, <2>2 DEF Mac
  <1>8. f - 1 \in 0 .. Len(journal) /\ f - 1 \notin T /\ (f - 1) + 1 \in T
    BY <1>2, <1>5
  <1>9. buf[p].prev = TipOf(journal, f - 1)
    BY <1>3, <1>8 DEF Rehashing
  <1>10. /\ r \in Row /\ r.hash = h /\ r.commit = com /\ r.when = journal[f].when
         /\ r.payload = journal[f].payload
    BY <1>2, <1>5, <1>6, <1>7 DEF Row
  <1>11. journal' = [journal EXCEPT ![f] = r]
         /\ buf' = [buf EXCEPT ![p] = [buf[p] EXCEPT !.prev = h, !.todo = T \ {f}]]
    BY DEF RehashRow
  <1>12. /\ buf' \in [Clients -> Buffer] /\ buf'[p].prev = h /\ buf'[p].todo = T \ {f}
    <2> DEFINE b == [buf[p] EXCEPT !.prev = h, !.todo = T \ {f}]
    <2>1. b \in Buffer /\ b.prev = h /\ b.todo = T \ {f}
      BY <1>3, <1>7 DEF Buffer
    <2> HIDE DEF b
    <2>2. buf' = [buf EXCEPT ![p] = b]
      BY <1>11 DEF b
    <2>3. QED
      BY <2>1, <2>2 DEF KeyedInv, TypeOK
  <1>13. h = Mac(mine[p], TipOf(journal, f - 1), f, r.when, r.commit)
    BY <1>9, <1>10
  <1> HIDE DEF r, h, com, f, T
  <1>14. /\ journal' \in Seq(Row) /\ Len(journal') = Len(journal) /\ DOMAIN journal' = Rowids
         /\ Rowids' = Rowids /\ journal'[f] = r
         /\ \A j \in Rowids \ {f} : journal'[j] = journal[j]
    BY <1>2, <1>5, <1>10, <1>11 DEF Rowids
  <1>15. TypeOK'
    BY <1>1, <1>12, <1>14 DEF KeyedInv, TypeOK
  <1>16. \A j \in Rowids : journal'[j].when = journal[j].when
    BY <1>10, <1>14
  <1>17. Sorted'
    BY <1>1, <1>14, <1>16 DEF KeyedInv, Sorted
  <1>18. Committed'
    BY <1>6, <1>10, <1>14 DEF KeyedInv, Committed
  <1>19. ~UnkeyedRows'
    <2>1. h[Len(h)].key = mine[p] /\ Len(h) \in DOMAIN h
      <3> DEFINE l == [key |-> mine[p], id |-> f, when |-> r.when, commit |-> r.commit]
                 t == TipOf(journal, f - 1)
      <3>1. h = Append(t, l)
        BY <1>13 DEF Mac
      <3>2. l.key = mine[p]
        OBVIOUS
      <3>3. t \in Seq(Link) /\ l \in Link
        <4>1. buf[p].prev \in Seq(Link)
          BY <1>3 DEF Buffer
        <4>2. QED
          BY <1>2, <1>3, <1>5, <1>6, <1>9, <1>10, <4>1 DEF Link
      <3> HIDE DEF l, t
      <3>4. QED
        BY <3>1, <3>2, <3>3
    <2>2. QED
      BY <1>3, <1>5, <1>10, <1>14, <2>1 DEF UnkeyedRows
  <1>20. StoreAgrees'
    BY <1>1, <1>3, <1>19 DEF KeyedInv, StoreAgrees
  <1>21. Rehashing(journal', mine[p], T \ {f}, h)
    <2>1. T \ {f} \subseteq DOMAIN journal'
      BY <1>4, <1>14
    <2>2. \A i \in T \ {f}, j \in DOMAIN journal' : i < j => j \in T \ {f}
      <3> SUFFICES ASSUME NEW i \in T \ {f}, NEW j \in Rowids, i < j PROVE j \in T /\ j # f
        BY <1>14
      <3>1. j \in T
        BY <1>2, <1>3 DEF Rehashing
      <3>2. QED
        BY <1>2, <1>4, <1>5, <3>1
    <2>3. \A n \in 0 .. f - 1 : TipOf(journal', n) = TipOf(journal, n)
      BY <1>2, <1>5, <1>14 DEF TipOf
    <2>4. ASSUME NEW i \in Rowids, i \notin T \/ i = f PROVE LinkHolds(journal', mine[p], i)
      <3>1. CASE i = f
        <4>1. f - 1 \in 0 .. f - 1
          BY <1>2, <1>5
        <4>2. QED
          BY <1>10, <1>13, <1>14, <2>3, <3>1, <4>1 DEF LinkHolds
      <3>2. CASE i # f
        <4>1. i \notin T /\ LinkHolds(journal, mine[p], i)
          BY <1>2, <1>3, <2>4, <3>2 DEF Rehashing
        <4>2. i < f
          <5>1. ~ (f < i)
            BY <1>2, <1>3, <1>5, <4>1 DEF Rehashing
          <5>2. QED
            BY <1>2, <1>5, <3>2, <5>1
        <4>3. i - 1 \in 0 .. f - 1
          BY <1>2, <1>5, <4>2
        <4>4. QED
          BY <1>14, <2>3, <3>2, <4>1, <4>3 DEF LinkHolds
      <3>3. QED
        BY <3>1, <3>2
    <2>5. ASSUME NEW n \in 0 .. Len(journal), n \notin T \ {f},
                 n = Len(journal) \/ n + 1 \in T \ {f}
          PROVE  h = TipOf(journal', n)
      <3>0. n \in Int /\ f \in Int /\ Len(journal) \in Int /\ f <= Len(journal)
        BY <1>2, <1>5
      <3>1. ~ (n < f)
        <4>0. SUFFICES ASSUME n < f PROVE FALSE
          OBVIOUS
        <4>1. n < Len(journal)
          BY <3>0, <4>0
        <4>2. n + 1 \in T /\ n + 1 # f
          BY <2>5, <3>0, <4>1
        <4>3. f <= n + 1
          BY <1>5, <4>2
        <4>4. n + 1 <= f
          BY <3>0, <4>0
        <4>5. QED
          BY <3>0, <4>2, <4>3, <4>4
      <3>2. ~ (f < n)
        <4> SUFFICES ASSUME f < n PROVE FALSE
          OBVIOUS
        <4>1. n \in Rowids
          BY <1>2, <1>5
        <4>2. n \in T
          BY <1>2, <1>3, <1>5, <4>1 DEF Rehashing
        <4>3. n # f
          BY <3>0
        <4>4. QED
          BY <2>5, <4>2, <4>3
      <3>3. n = f
        BY <3>0, <3>1, <3>2
      <3>4. QED
        BY <1>2, <1>5, <1>10, <1>14, <3>3 DEF TipOf
    <2>6. QED
      BY <1>14, <2>1, <2>2, <2>4, <2>5 DEF Rehashing
  <1>22. Rests(p)'
    BY <1>1, <1>3, <1>12, <1>21 DEF Rests
  <1>23. \A q \in Clients : Rests(q)'
    BY <1>1, <1>22, OthersRest
  <1>24. QED
    BY <1>15, <1>17, <1>18, <1>20, <1>23 DEF KeyedInv

\* The transaction of a rotation puts every row under the new key.
LEMMA RotateCommitKeyed ==
    ASSUME KeyedConstants, KeyedInv, Alone', NEW p \in Clients, RotateCommit(p)
    PROVE  KeyedInv'
  <1> DEFINE to == buf[p].to
             new(i) == [journal[i] EXCEPT !.hash = Rehashed(to, i), !.commit = Commitment(i)]
  <1>1. /\ at[p] = "rotate" /\ bodies' = to /\ canary' = to /\ UNCHANGED <<clock, marker>>
        /\ mine' = [mine EXCEPT ![p] = to] /\ Goto(p, "activate", NoBuffer)
        /\ journal' = [i \in Rowids |-> new(i)]
    BY DEF RotateCommit, KeyedConstants
  <1>2. /\ Rowids = 1 .. Len(journal) /\ Len(journal) \in Nat /\ journal \in Seq(Row)
        /\ DOMAIN journal = Rowids
        /\ \A j \in Rowids : journal[j] \in Row /\ j \in Ids /\ journal[j].when \in Times
    BY JournalRows DEF KeyedInv
  <1>3. to \in AllKeys /\ to # NoKey /\ mine \in [Clients -> AllKeys] /\ mine[p] # NoKey
        /\ mine[p] = canary /\ marker = NoKey
    BY <1>1 DEF KeyedInv, Rests, TypeOK, Buffer
  <1>4. ASSUME NEW i \in Rowids
        PROVE  /\ Rehashed(to, i) = [n \in 1 .. i |-> NewLink(to, n)]
               /\ Rehashed(to, i) \in Seq(Link)
               /\ Commitment(i) \in {Text, Gone}
               /\ journal[i].payload # Gone => Commitment(i) = journal[i].payload
    <2>1. Rehashed(to, i) = [n \in 1 .. i |-> NewLink(to, n)]
      BY RehashedIs DEF KeyedInv
    <2>2. \A n \in Rowids : Commitment(n) \in {Text, Gone}
      BY <1>2 DEF Commitment, Row
    <2>3. \A n \in 1 .. i : NewLink(to, n) \in Link
      BY <1>2, <1>3, <2>2 DEF NewLink, Link
    <2>4. i \in Nat
      BY <1>2
    <2>5. [n \in 1 .. i |-> NewLink(to, n)] \in Seq(Link)
      BY <2>3, <2>4
    <2>6. QED
      BY <2>1, <2>2, <2>5 DEF Commitment
  <1>5. \A i \in Rowids : /\ new(i) \in Row /\ new(i).hash = Rehashed(to, i)
                          /\ new(i).commit = Commitment(i)
                          /\ new(i).when = journal[i].when /\ new(i).payload = journal[i].payload
    BY <1>2, <1>4 DEF Row
  <1> HIDE DEF new, to
  <1>6. /\ journal' \in Seq(Row) /\ Len(journal') = Len(journal) /\ DOMAIN journal' = Rowids
        /\ Rowids' = Rowids /\ \A i \in Rowids : journal'[i] = new(i)
    <2>1. journal' \in Seq(Row) /\ Len(journal') = Len(journal) /\ DOMAIN journal' = Rowids
      BY <1>1, <1>2, <1>5
    <2>2. QED
      BY <1>1, <2>1 DEF Rowids
  <1>7. /\ at' \in [Clients -> AllSteps] /\ buf' \in [Clients -> Buffer] /\ at'[p] = "activate"
        /\ \A q \in Clients \ {p} : at'[q] = at[q]
    BY <1>1, MovesTyped, BufferTypes DEF KeyedInv, AllSteps
  <1>8. /\ mine' \in [Clients -> AllKeys] /\ mine'[p] = to
        /\ \A q \in Clients \ {p} : mine'[q] = mine[q]
    BY <1>1, <1>3
  <1>9. TypeOK'
    BY <1>1, <1>3, <1>6, <1>7, <1>8 DEF KeyedInv, TypeOK, AllSteps
  <1>10. Sorted' /\ Committed'
    BY <1>1, <1>4, <1>5, <1>6 DEF KeyedInv, Sorted, Committed
  <1>11. Linked(journal', to)
    <2> SUFFICES ASSUME NEW i \in Rowids PROVE LinkHolds(journal', to, i)
      BY <1>6 DEF Linked
    <2> DEFINE l == NewLink(to, i)
    <2>1. l = [key |-> to, id |-> i, when |-> journal'[i].when, commit |-> journal'[i].commit]
      BY <1>5, <1>6 DEF NewLink
    <2>2. i \in Nat /\ i >= 1
      BY <1>2
    <2>3. TipOf(journal', i - 1) = [n \in 1 .. i - 1 |-> NewLink(to, n)]
      <3>1. CASE i = 1
        BY <3>1 DEF TipOf, Genesis
      <3>2. CASE i # 1
        <4>1. i - 1 \in Rowids /\ i - 1 # 0
          BY <1>2, <3>2
        <4>2. QED
          BY <1>4, <1>5, <1>6, <4>1 DEF TipOf
      <3>3. QED
        BY <3>1, <3>2
    <2>4. journal'[i].hash = [n \in 1 .. i |-> NewLink(to, n)]
      BY <1>4, <1>5, <1>6
    <2>5. \A n \in 1 .. i : NewLink(to, n) \in Link
      <3>1. \A n \in 1 .. i : n \in Rowids
        BY <1>2
      <3>2. \A n \in Rowids : Commitment(n) \in {Text, Gone}
        BY <1>4
      <3>3. QED
        BY <1>2, <1>3, <3>1, <3>2 DEF NewLink, Link
    <2>6. Append([n \in 1 .. i - 1 |-> NewLink(to, n)], l) = [n \in 1 .. i |-> NewLink(to, n)]
      <3> DEFINE s == [n \in 1 .. i - 1 |-> NewLink(to, n)]
                 u == [n \in 1 .. i |-> NewLink(to, n)]
      <3>1. s \in Seq(Link) /\ Len(s) = i - 1 /\ u \in Seq(Link) /\ Len(u) = i /\ l \in Link
        BY <2>2, <2>5
      <3>2. Append(s, l) \in Seq(Link) /\ Len(Append(s, l)) = i
        BY <2>2, <3>1
      <3>3. \A n \in 1 .. i : Append(s, l)[n] = u[n]
        <4> SUFFICES ASSUME NEW n \in 1 .. i PROVE Append(s, l)[n] = u[n]
          OBVIOUS
        <4>1. CASE n = i
          <5>1. u[i] = l
            BY <2>2
          <5> HIDE DEF s, u, l
          <5>2. Append(s, l)[Len(s) + 1] = l /\ Len(s) + 1 = i
            BY <2>2, <3>1
          <5>3. QED
            BY <4>1, <5>1, <5>2
        <4>2. CASE n # i
          <5>1. n \in 1 .. i - 1
            BY <2>2, <4>2
          <5>2. s[n] = u[n]
            BY <2>2, <5>1
          <5> HIDE DEF s, u, l
          <5>3. Append(s, l)[n] = s[n]
            BY <3>1, <5>1
          <5>4. QED
            BY <5>2, <5>3
        <4>3. QED
          BY <4>1, <4>2
      <3> HIDE DEF s, u, l
      <3>4. QED
        BY <3>1, <3>2, <3>3, SeqEqual DEF s, u
    <2>7. QED
      BY <2>1, <2>3, <2>4, <2>6 DEF LinkHolds, Mac
  <1>12. StoreAgrees'
    BY <1>1, <1>3, <1>11 DEF KeyedInv, StoreAgrees
  <1>13. Rests(p)'
    BY <1>1, <1>3, <1>7, <1>8 DEF Rests
  <1>14. \A q \in Clients : Rests(q)'
    BY <1>7, <1>8, <1>13, OthersRest
  <1>15. QED
    BY <1>9, <1>10, <1>12, <1>14 DEF KeyedInv

LEMMA KeyedStutter ==
    ASSUME KeyedInv, UNCHANGED vars
    PROVE  KeyedInv'
  <1>1. UNCHANGED <<clock, journal, canary, marker, bodies, at, mine, buf>>
    BY DEF vars, store
  <1>2. TypeOK' /\ Sorted' /\ Committed' /\ Rowids' = Rowids
    BY <1>1 DEF KeyedInv, TypeOK, Sorted, Committed, Rowids
  <1>3. StoreAgrees'
    BY <1>1 DEF KeyedInv, StoreAgrees, UnkeyedRows, Rowids
  <1>4. \A p \in Clients : Rests(p)'
    BY <1>1, <1>2 DEF KeyedInv, Rests
  <1>5. QED
    BY <1>2, <1>3, <1>4 DEF KeyedInv

LEMMA KeyedStep ==
    ASSUME KeyedConstants, KeyedInv, Alone', [Next]_vars, [ReadsSucceed]_vars
    PROVE  KeyedInv'
  <1>1. CASE Tick
    BY <1>1, TickKeyed
  <1>2. ASSUME NEW p \in Clients, NEW i \in Rowids, Redact(p, i)
        PROVE  KeyedInv'
    BY <1>2, RedactKeyed
  <1>3. ASSUME NEW p \in Clients, Stamp(p) \/ ReadPrev(p) \/ Insert(p), ReadsSucceed
        PROVE  KeyedInv'
    BY <1>3, AppendKeyed, InsertKeyed
  <1>4. ASSUME NEW p \in Clients, NEW k \in Keys, OpenKeyed(p, k) \/ RotateBegin(p, k)
        PROVE  KeyedInv'
    BY <1>4, OpenKeyedInv
  <1>5. ASSUME NEW p \in Clients, OpenPlain(p) \/ Activate(p) \/ RotateFail(p)
        PROVE  KeyedInv'
    BY <1>5, OpenKeyedInv
  <1>6. ASSUME NEW p \in Clients, Convert(p) \/ StoreCanary(p)
        PROVE  KeyedInv'
    BY <1>6, ConvertKeyed
  <1>7. ASSUME NEW p \in Clients, RehashRow(p) \/ RotateCommit(p)
        PROVE  KeyedInv'
    BY <1>7, RehashRowKeyed, RotateCommitKeyed
  <1>8. ASSUME NEW p \in Clients, Stop(p)
        PROVE  KeyedInv'
    BY <1>8, StopKeyed
  <1>9. CASE UNCHANGED vars
    BY <1>9, KeyedStutter
  <1>10. QED
    BY <1>1, <1>2, <1>3, <1>4, <1>5, <1>6, <1>7, <1>8, <1>9 DEF Next

LEMMA KeyedMeans ==
    ASSUME KeyedInv
    PROVE  CanaryMeansKeyed /\ FreshChainVerifies
  <1>1. CanaryMeansKeyed
    BY LinkedVerifies DEF KeyedInv, StoreAgrees, CanaryMeansKeyed
  <1>2. FreshChainVerifies
    BY LinkedVerifies DEF KeyedInv, StoreAgrees, FreshChainVerifies
  <1>3. QED
    BY <1>1, <1>2

\* set_encryption and rotate_encryption_key: as long as one process at a time has
\* the store open and its reads succeed, a stored canary means that the whole chain verifies with its
\* key, in every state that a crash can leave behind, for every number of rows,
\* keys, rotations and openings.
THEOREM CanaryNeverLies ==
    ASSUME KeyedConstants
    PROVE  Spec /\ []Alone /\ [][ReadsSucceed]_vars => []CanaryMeansKeyed
  <1>1. Init => KeyedInv
    BY KeyedInit
  <1>2. KeyedInv /\ Alone' /\ [Next]_vars /\ [ReadsSucceed]_vars => KeyedInv'
    BY KeyedStep
  <1>3. KeyedInv => CanaryMeansKeyed
    BY KeyedMeans
  <1>4. QED
    BY <1>1, <1>2, <1>3, PTL DEF Spec

\* journal_with_conn, in the scenarios with one client and keys: a chain without a
\* canary that no rehash has touched verifies without a key, whatever openings,
\* failed rotations and crashes came before.
THEOREM FreshChainsVerify ==
    ASSUME KeyedConstants
    PROVE  MCSpec => []FreshChainVerifiesAlone
  <1> DEFINE AloneInv == scenario \in Clients => KeyedInv
             mcVars == <<scenario, vars, ledgerVars, repairVars, vaultVars>>
  <1>1. MCInit => AloneInv
    BY KeyedInit DEF MCInit
  <1>2. AloneInv /\ [MCNext]_mcVars => AloneInv'
    <2> SUFFICES ASSUME AloneInv, [MCNext]_mcVars, scenario' \in Clients PROVE KeyedInv'
      OBVIOUS
    <2>1. scenario' = scenario /\ KeyedInv
      BY DEF MCNext
    <2>2. \/ UNCHANGED vars
          \/ Next /\ ReadsSucceed /\ \A p \in Clients \ {scenario} : at'[p] = "closed"
      BY <2>1 DEF MCNext
    <2>3. CASE UNCHANGED vars
      BY <2>1, <2>3, KeyedStutter
    <2>4. CASE Next /\ ReadsSucceed /\ \A p \in Clients \ {scenario} : at'[p] = "closed"
      <3>1. Alone'
        BY <2>4 DEF Alone
      <3>2. QED
        BY <2>1, <2>4, <3>1, KeyedStep
    <2>5. QED
      BY <2>2, <2>3, <2>4
  <1>3. AloneInv => FreshChainVerifiesAlone
    BY KeyedMeans DEF FreshChainVerifiesAlone
  <1>4. QED
    BY <1>1, <1>2, <1>3, PTL DEF MCSpec

-----------------------------------------------------------------------------
(* Greatest numbers.                                                       *)

LEMMA GreatestBounded ==
    ASSUME NEW b \in Nat, NEW T, T \subseteq 0 .. b, T # {}
    PROVE  \E x \in T : \A y \in T : y <= x
  <1> DEFINE D == {b - x : x \in T}
  <1>1. D \subseteq Nat /\ D # {}
    <2>1. \A x \in T : b - x \in Nat
      OBVIOUS
    <2>2. QED
      BY <2>1
  <1>2. PICK d \in D : \A e \in D : d <= e
    BY <1>1, Least
  <1>3. PICK x \in T : d = b - x
    BY <1>2
  <1>4. ASSUME NEW y \in T PROVE y <= x
    <2>1. b - x <= b - y
      BY <1>2, <1>3
    <2>2. x \in Int /\ y \in Int /\ b \in Int
      OBVIOUS
    <2>3. QED
      BY ONLY <2>1, <2>2
  <1>5. QED
    BY <1>4

\* Of the finite sets without a greatest element the smallest would keep none
\* when it loses one.
LEMMA GreatestOfFinite ==
    ASSUME NEW T, IsFiniteSet(T), T \subseteq Nat, T # {}
    PROVE  \E x \in T : \A y \in T : y <= x
  <1> DEFINE HasNone(S) == ~ \E x \in S : \A y \in S : y <= x
             Sizes == {Cardinality(S) : S \in {U \in SUBSET T : U # {} /\ HasNone(U)}}
  <1> SUFFICES ASSUME HasNone(T) PROVE FALSE
    OBVIOUS
  <1>1. Sizes \subseteq Nat
    <2>1. \A S \in SUBSET T : Cardinality(S) \in Nat
      BY FS_Subset, FS_CardinalityType
    <2>2. QED
      BY <2>1
  <1>2. Cardinality(T) \in Sizes
    OBVIOUS
  <1>3. PICK n \in Sizes : \A m \in Sizes : n <= m
    BY <1>1, <1>2, Least
  <1>4. PICK S \in SUBSET T : S # {} /\ HasNone(S) /\ n = Cardinality(S)
    BY <1>3
  <1>5. IsFiniteSet(S)
    BY FS_Subset
  <1>6. PICK a \in S : TRUE
    BY <1>4
  <1>7. IsFiniteSet(S \ {a}) /\ Cardinality(S \ {a}) = n - 1
    BY <1>4, <1>5, <1>6, FS_RemoveElement
  <1>8. CASE S \ {a} = {}
    <2>1. S = {a} /\ a \in Nat
      BY <1>6, <1>8
    <2>2. QED
      BY <1>4, <2>1
  <1>9. CASE S \ {a} # {} /\ HasNone(S \ {a})
    <2>1. n - 1 \in Sizes /\ n \in Nat
      BY <1>1, <1>7, <1>9
    <2>2. QED
      BY <1>3, <2>1
  <1>10. CASE ~ HasNone(S \ {a})
    <2>1. PICK x \in S \ {a} : \A y \in S \ {a} : y <= x
      BY <1>10
    <2>2. x \in Nat /\ a \in Nat /\ S \subseteq Nat
      BY <1>6
    <2>3. CASE a <= x
      <3>1. \A y \in S : y <= x
        BY <2>1, <2>3
      <3>2. QED
        BY <1>4, <2>1, <3>1
    <2>4. CASE x <= a
      <3>1. \A y \in S : y <= a
        BY <2>1, <2>2, <2>4
      <3>2. QED
        BY <1>4, <1>6, <3>1
    <2>5. QED
      BY <2>2, <2>3, <2>4
  <1>11. QED
    BY <1>8, <1>9, <1>10

-----------------------------------------------------------------------------
(* SignedTransitions.                                                      *)

SignedRecord ==
    [node: Nodes, old: Transitions!Contents, new: Transitions!Contents, epoch: Nat,
     seed: Seeds \cup {NoSeed}, prev: Nat, when: 0 .. MaxWall]
SignerSteps == {"score", "key", "predecessor", "stamp", "insert", "label"}
SignerCall == [step: SignerSteps, kind: {"label", "score"}, rec: SignedRecord]

LedgerTyped ==
    /\ wall \in 0 .. MaxWall
    /\ seedOf \in [Epochs -> Seeds \cup {NoSeed}]
    /\ ledger \in Seq(SignedRecord)
    /\ label \in [Nodes -> [level: Transitions!Contents, of: Nat]]
    /\ score \in [Nodes -> Transitions!Contents]
    /\ call \in [Clients -> SignerCall \cup {Transitions!Idle}]

\* A call about to write its label has inserted the record for it.
LabelsAuthorized ==
    \A c \in Clients : call[c].step = "label" =>
        /\ call[c].rec.prev \in DOMAIN ledger
        /\ ledger[call[c].rec.prev].node = call[c].rec.node
        /\ ledger[call[c].rec.prev].new = call[c].rec.new

LabelInv == LedgerTyped /\ LabelsAuthorized /\ Transitions!LabelIsSigned

\* A call that has read its key has the seed its epoch has.
KeysKept ==
    /\ \A i \in DOMAIN ledger : /\ ledger[i].epoch \in Transitions!Registered
                                /\ ledger[i].seed = seedOf[ledger[i].epoch]
    /\ \A c \in Clients : call[c].step \in {"predecessor", "stamp", "insert"} =>
          /\ call[c].rec.epoch \in Transitions!Registered
          /\ call[c].rec.seed = seedOf[call[c].rec.epoch]

\* The predecessors are the rowids before, in the order of the timestamps.
RecordsChained ==
    \A i \in DOMAIN ledger :
        /\ ledger[i].prev = i - 1 /\ ledger[i].when <= wall
        /\ \A j \in DOMAIN ledger : j < i => ledger[j].when <= ledger[i].when

\* A call extends a stored record, and its time is not before that record's.
CallsChained ==
    \A c \in Clients :
        /\ call[c].step \in {"stamp", "insert"} => call[c].rec.prev \in 0 .. Len(ledger)
        /\ call[c].step = "insert" =>
              /\ call[c].rec.when <= wall
              /\ call[c].rec.prev > 0 => ledger[call[c].rec.prev].when <= call[c].rec.when

ReplayInv == LabelInv /\ KeysKept /\ RecordsChained /\ CallsChained

SignerConstants ==
    /\ Epochs \subseteq Nat /\ IsFiniteSet(Epochs)
    /\ NoSeed \notin Seeds /\ MaxWall \in Nat

\* latest_epoch: the newest epoch is one that is registered.
LEMMA LatestRegistered ==
    ASSUME SignerConstants, Transitions!Registered # {}
    PROVE  Transitions!Latest \in Transitions!Registered
  <1>1. Transitions!Registered \subseteq Epochs
    BY DEF Transitions!Registered
  <1>2. IsFiniteSet(Transitions!Registered) /\ Transitions!Registered \subseteq Nat
    BY <1>1, FS_Subset DEF SignerConstants
  <1>3. \E e \in Transitions!Registered : \A d \in Transitions!Registered : d <= e
    BY <1>2, GreatestOfFinite
  <1>4. QED
    BY <1>3 DEF Transitions!Latest

\* The newest record, in the order of the timestamps and then the rowids, is
\* a stored one.
LEMMA NewestStored ==
    ASSUME SignerConstants, LedgerTyped
    PROVE  Transitions!Newest \in 0 .. Len(ledger)
  <1>1. Len(ledger) \in Nat /\ DOMAIN ledger = 1 .. Len(ledger)
    BY DEF LedgerTyped
  <1>2. CASE ledger = <<>>
    BY <1>1, <1>2 DEF Transitions!Newest
  <1>3. CASE ledger # <<>>
    <2> DEFINE W == {ledger[i].when : i \in DOMAIN ledger}
    <2>1. \A i \in DOMAIN ledger : ledger[i].when \in 0 .. MaxWall
      <3>1. \A i \in DOMAIN ledger : ledger[i] \in SignedRecord
        BY DEF LedgerTyped
      <3>2. QED
        BY <3>1 DEF SignedRecord
    <2>2. 1 \in DOMAIN ledger
      BY <1>1, <1>3, EmptySeq DEF LedgerTyped
    <2>3. W \subseteq 0 .. MaxWall /\ W # {}
      BY <2>1, <2>2
    <2>4. PICK w \in W : \A v \in W : v <= w
      BY <2>3, GreatestBounded DEF SignerConstants
    <2> DEFINE L == {i \in DOMAIN ledger : ledger[i].when = w}
    <2>5. L \subseteq 0 .. Len(ledger) /\ L # {}
      BY <1>1, <2>4
    <2>6. PICK i \in L : \A j \in L : j <= i
      BY <1>1, <2>5, GreatestBounded
    <2>7. ASSUME NEW j \in DOMAIN ledger \ {i}
          PROVE  Transitions!Older(j, i)
      <3>1. ledger[j].when <= w /\ ledger[j].when \in 0 .. MaxWall /\ w \in 0 .. MaxWall
        BY <2>1, <2>3, <2>4
      <3>2. ledger[j].when = w => j < i
        BY <1>1, <2>6
      <3>3. QED
        BY <2>6, <3>1, <3>2 DEF Transitions!Older, SignerConstants
    <2>8. i \in DOMAIN ledger
      BY <2>6
    <2>9. Transitions!Newest \in DOMAIN ledger
      BY <1>3, <2>7, <2>8 DEF Transitions!Newest
    <2>10. QED
      BY <1>1, <2>9
  <1>4. QED
    BY <1>2, <1>3

LEMMA LabelInitInv == SignerConstants /\ Transitions!Init => LabelInv
  <1> SUFFICES ASSUME SignerConstants, Transitions!Init PROVE LabelInv
    OBVIOUS
  <1>1. LedgerTyped
    BY DEF SignerConstants, Transitions!Init, LedgerTyped, Transitions!Contents,
           Transitions!Unlabelled
  <1>2. LabelsAuthorized
    BY DEF Transitions!Init, LabelsAuthorized, Transitions!Idle
  <1>3. Transitions!LabelIsSigned
    BY DEF Transitions!Init, Transitions!LabelIsSigned, Transitions!Unlabelled
  <1>4. QED
    BY <1>1, <1>2, <1>3 DEF LabelInv

\* The step of one call that writes neither the ledger nor a label.
SignerMoves(c, q) ==
    /\ q \in SignerCall \cup {Transitions!Idle} /\ q.step # "label"
    /\ call' = [call EXCEPT ![c] = q]
    /\ score' \in [Nodes -> Transitions!Contents]
    /\ UNCHANGED <<wall, seedOf, ledger, label>>

LEMMA MovePreservesLabels ==
    ASSUME LabelInv, NEW c \in Clients, NEW q, SignerMoves(c, q)
    PROVE  LabelInv'
  <1>1. LedgerTyped'
    BY DEF LabelInv, LedgerTyped, SignerMoves
  <1>2. \A d \in Clients : call'[d].step = "label" => d # c /\ call'[d] = call[d]
    BY DEF LabelInv, LedgerTyped, SignerMoves
  <1>3. LabelsAuthorized'
    BY <1>2 DEF LabelInv, LabelsAuthorized, SignerMoves
  <1>4. Transitions!LabelIsSigned'
    BY DEF LabelInv, Transitions!LabelIsSigned, SignerMoves
  <1>5. QED
    BY <1>1, <1>3, <1>4 DEF LabelInv

LEMMA DraftTyped ==
    ASSUME SignerConstants, NEW n \in Nodes, NEW old \in Transitions!Contents,
           NEW new \in Transitions!Contents
    PROVE  Transitions!Draft(n, old, new) \in SignedRecord
  BY DEF SignerConstants, Transitions!Draft, SignedRecord

LEMMA LabelCallMoves ==
    ASSUME SignerConstants, LabelInv, NEW c \in Clients, NEW n \in Nodes, NEW l \in Levels,
           Transitions!LabelCall(c, n, l)
    PROVE  \E q : SignerMoves(c, q) /\ q.step = "key"
  <1> DEFINE q == [step |-> "key", kind |-> "label",
                   rec |-> Transitions!Draft(n, label[n].level, l)]
  <1>1. label[n].level \in Transitions!Contents /\ l \in Transitions!Contents
    BY DEF LabelInv, LedgerTyped, Transitions!Contents
  <1>2. q \in SignerCall /\ q.step = "key"
    BY <1>1, DraftTyped DEF SignerCall, SignerSteps
  <1>3. call' = [call EXCEPT ![c] = q] /\ UNCHANGED <<wall, seedOf, ledger, label, score>>
    BY DEF Transitions!LabelCall, Transitions!Go
  <1> HIDE DEF q
  <1>4. QED
    BY <1>2, <1>3 DEF SignerMoves, LabelInv, LedgerTyped

LEMMA ScoreCallMoves ==
    ASSUME SignerConstants, LabelInv, NEW c \in Clients, NEW n \in Nodes, NEW v \in Scores,
           Transitions!ScoreCall(c, n, v)
    PROVE  \E q : SignerMoves(c, q) /\ q.step = "score"
  <1> DEFINE q == [step |-> "score", kind |-> "score",
                   rec |-> Transitions!Draft(n, score[n], v)]
  <1>1. score[n] \in Transitions!Contents /\ v \in Transitions!Contents
    BY DEF LabelInv, LedgerTyped, Transitions!Contents
  <1>2. q \in SignerCall /\ q.step = "score"
    BY <1>1, DraftTyped DEF SignerCall, SignerSteps
  <1>3. call' = [call EXCEPT ![c] = q] /\ UNCHANGED <<wall, seedOf, ledger, label, score>>
    BY DEF Transitions!ScoreCall, Transitions!Go
  <1> HIDE DEF q
  <1>4. QED
    BY <1>2, <1>3 DEF SignerMoves, LabelInv, LedgerTyped

LEMMA BusyTyped ==
    ASSUME LedgerTyped, NEW c \in Clients, call[c].step # "idle"
    PROVE  call[c] \in SignerCall /\ call[c].rec \in SignedRecord
  BY DEF LedgerTyped, SignerCall, Transitions!Idle

LEMMA ScoreWriteMoves ==
    ASSUME LabelInv, NEW c \in Clients, Transitions!ScoreWrite(c)
    PROVE  \E q : SignerMoves(c, q) /\ q.step = "key"
  <1> DEFINE q == [call[c] EXCEPT !.step = "key"]
  <1>1. call[c] \in SignerCall /\ call[c].rec \in SignedRecord
    BY BusyTyped DEF Transitions!ScoreWrite, Transitions!Does, LabelInv
  <1>2. q \in SignerCall /\ q.step = "key"
    BY <1>1 DEF SignerCall, SignerSteps
  <1>3. /\ call' = [call EXCEPT ![c] = q] /\ UNCHANGED <<wall, seedOf, ledger, label>>
        /\ score' = [score EXCEPT ![call[c].rec.node] = call[c].rec.new]
    BY DEF Transitions!ScoreWrite, Transitions!Go
  <1>4. score' \in [Nodes -> Transitions!Contents]
    BY <1>1, <1>3 DEF LabelInv, LedgerTyped, SignedRecord
  <1> HIDE DEF q
  <1>5. QED
    BY <1>2, <1>3, <1>4 DEF SignerMoves

LEMMA SignerStopMoves ==
    ASSUME LabelInv, NEW c \in Clients, Transitions!Stop(c),
           UNCHANGED <<wall, seedOf, ledger, label, score>>
    PROVE  SignerMoves(c, Transitions!Idle)
  BY DEF Transitions!Stop, Transitions!Go, SignerMoves, Transitions!Idle, LabelInv, LedgerTyped

LEMMA ReadKeyMoves ==
    ASSUME SignerConstants, LabelInv, NEW c \in Clients, Transitions!ReadKey(c)
    PROVE  \E q : /\ SignerMoves(c, q) /\ q.step = "predecessor"
                  /\ q.rec.epoch \in Transitions!Registered /\ q.rec.seed = seedOf[q.rec.epoch]
  <1> DEFINE e == Transitions!Latest
             s == seedOf[e]
             rec == [call[c].rec EXCEPT !.epoch = e, !.seed = s]
             q == [call[c] EXCEPT !.step = "predecessor", !.rec = rec]
  <1>1. call[c] \in SignerCall /\ call[c].rec \in SignedRecord
    BY BusyTyped DEF Transitions!ReadKey, Transitions!Does, LabelInv
  <1>2. e \in Transitions!Registered
    BY LatestRegistered DEF Transitions!ReadKey
  <1>3. e \in Nat /\ s \in Seeds \cup {NoSeed}
    BY <1>2 DEF SignerConstants, Transitions!Registered, LabelInv, LedgerTyped
  <1>4. /\ call' = [call EXCEPT ![c] = [call[c] EXCEPT !.step = "predecessor",
                                            !.rec.epoch = e, !.rec.seed = s]]
        /\ UNCHANGED <<wall, seedOf, ledger, label, score>>
    BY DEF Transitions!ReadKey, Transitions!Go
  <1> HIDE DEF e, s
  <1>5. rec \in SignedRecord /\ rec.epoch = e /\ rec.seed = s
    BY <1>1, <1>3 DEF SignedRecord
  <1>6. [call[c] EXCEPT !.step = "predecessor", !.rec.epoch = e, !.rec.seed = s] = q
    BY <1>1 DEF SignerCall, SignedRecord
  <1>7. q \in SignerCall /\ q.step = "predecessor" /\ q.rec = rec
    BY <1>1, <1>5 DEF SignerCall, SignerSteps
  <1> HIDE DEF q, rec
  <1>8. SignerMoves(c, q)
    BY <1>4, <1>6, <1>7 DEF SignerMoves, LabelInv, LedgerTyped
  <1>9. q.rec.epoch \in Transitions!Registered /\ q.rec.seed = seedOf[q.rec.epoch]
    BY <1>2, <1>5, <1>7 DEF s
  <1>10. QED
    BY <1>7, <1>8, <1>9

LEMMA ReadPredecessorMoves ==
    ASSUME SignerConstants, LabelInv, NEW c \in Clients, Transitions!ReadPredecessor(c)
    PROVE  \E q : /\ SignerMoves(c, q) /\ q.step = "stamp" /\ q.rec.prev = Transitions!Newest
                  /\ q.rec.epoch = call[c].rec.epoch /\ q.rec.seed = call[c].rec.seed
  <1> DEFINE p == Transitions!Newest
             rec == [call[c].rec EXCEPT !.prev = p]
             q == [call[c] EXCEPT !.step = "stamp", !.rec = rec]
  <1>1. call[c] \in SignerCall /\ call[c].rec \in SignedRecord
    BY BusyTyped DEF Transitions!ReadPredecessor, Transitions!Does, LabelInv
  <1>2. p \in Nat
    BY NewestStored DEF LabelInv
  <1>3. /\ call' = [call EXCEPT ![c] = [call[c] EXCEPT !.step = "stamp", !.rec.prev = p]]
        /\ UNCHANGED <<wall, seedOf, ledger, label, score>>
    BY DEF Transitions!ReadPredecessor, Transitions!Go
  <1> HIDE DEF p
  <1>4. /\ rec \in SignedRecord /\ rec.prev = p
        /\ rec.epoch = call[c].rec.epoch /\ rec.seed = call[c].rec.seed
    BY <1>1, <1>2 DEF SignedRecord
  <1>5. [call[c] EXCEPT !.step = "stamp", !.rec.prev = p] = q
    BY <1>1 DEF SignerCall, SignedRecord
  <1>6. q \in SignerCall /\ q.step = "stamp" /\ q.rec = rec
    BY <1>1, <1>4 DEF SignerCall, SignerSteps
  <1> HIDE DEF q, rec
  <1>7. SignerMoves(c, q)
    BY <1>3, <1>5, <1>6 DEF SignerMoves, LabelInv, LedgerTyped
  <1>8. QED
    BY <1>4, <1>6, <1>7 DEF p

LEMMA StampMoves ==
    ASSUME LabelInv, NEW c \in Clients, Transitions!Stamp(c)
    PROVE  \E q : /\ SignerMoves(c, q) /\ q.step = "insert"
                  /\ q.rec.prev = call[c].rec.prev /\ q.rec.when = wall
                  /\ q.rec.epoch = call[c].rec.epoch /\ q.rec.seed = call[c].rec.seed
  <1> DEFINE rec == [call[c].rec EXCEPT !.when = wall]
             q == [call[c] EXCEPT !.step = "insert", !.rec = rec]
  <1>1. call[c] \in SignerCall /\ call[c].rec \in SignedRecord
    BY BusyTyped DEF Transitions!Stamp, Transitions!Does, LabelInv
  <1>2. wall \in 0 .. MaxWall
    BY DEF LabelInv, LedgerTyped
  <1>3. /\ call' = [call EXCEPT ![c] = [call[c] EXCEPT !.step = "insert", !.rec.when = wall]]
        /\ UNCHANGED <<wall, seedOf, ledger, label, score>>
    BY DEF Transitions!Stamp, Transitions!Go
  <1>4. /\ rec \in SignedRecord /\ rec.prev = call[c].rec.prev /\ rec.when = wall
        /\ rec.epoch = call[c].rec.epoch /\ rec.seed = call[c].rec.seed
    BY <1>1, <1>2 DEF SignedRecord
  <1>5. [call[c] EXCEPT !.step = "insert", !.rec.when = wall] = q
    BY <1>1 DEF SignerCall, SignedRecord
  <1>6. q \in SignerCall /\ q.step = "insert" /\ q.rec = rec
    BY <1>1, <1>4 DEF SignerCall, SignerSteps
  <1> HIDE DEF q, rec
  <1>7. SignerMoves(c, q)
    BY <1>3, <1>5, <1>6 DEF SignerMoves, LabelInv, LedgerTyped
  <1>8. QED
    BY <1>4, <1>6, <1>7

\* What the insert of a record does.
LEMMA InsertResult ==
    ASSUME LabelInv, NEW c \in Clients, Transitions!Insert(c)
    PROVE  LET k == Len(ledger) + 1 IN
           /\ call[c] \in SignerCall /\ call[c].rec \in SignedRecord /\ call[c].step = "insert"
           /\ ~Transitions!Taken(call[c].rec.prev)
           /\ ledger' \in Seq(SignedRecord) /\ Len(ledger') = k
           /\ DOMAIN ledger' = DOMAIN ledger \cup {k} /\ k \notin DOMAIN ledger
           /\ DOMAIN ledger = 1 .. Len(ledger) /\ Len(ledger) \in Nat
           /\ \A i \in DOMAIN ledger : ledger'[i] = ledger[i]
           /\ ledger'[k] = call[c].rec
           /\ UNCHANGED <<wall, seedOf, label, score>>
           /\ \E q \in SignerCall \cup {Transitions!Idle} :
                 /\ call' = [call EXCEPT ![c] = q] /\ q.step \in {"label", "idle"}
                 /\ q.step = "label" =>
                       /\ q.rec.prev = k
                       /\ q.rec.node = call[c].rec.node /\ q.rec.new = call[c].rec.new
  <1> DEFINE k == Len(ledger) + 1
             rec == [call[c].rec EXCEPT !.prev = k]
             q == [call[c] EXCEPT !.step = "label", !.rec = rec]
  <1>1. call[c] \in SignerCall /\ call[c].rec \in SignedRecord /\ call[c].step = "insert"
    BY BusyTyped DEF Transitions!Insert, Transitions!Does, LabelInv
  <1>2. /\ ledger' = Append(ledger, call[c].rec) /\ ~Transitions!Taken(call[c].rec.prev)
        /\ UNCHANGED <<wall, seedOf, label, score>>
        /\ \/ call' = [call EXCEPT ![c] = [call[c] EXCEPT !.step = "label", !.rec.prev = k]]
           \/ call' = [call EXCEPT ![c] = Transitions!Idle]
    BY DEF Transitions!Insert, Transitions!Go, Transitions!Stop
  <1>3. /\ ledger' \in Seq(SignedRecord) /\ Len(ledger') = k
        /\ DOMAIN ledger' = DOMAIN ledger \cup {k} /\ k \notin DOMAIN ledger
        /\ DOMAIN ledger = 1 .. Len(ledger) /\ Len(ledger) \in Nat
        /\ \A i \in DOMAIN ledger : ledger'[i] = ledger[i]
        /\ ledger'[k] = call[c].rec
    BY <1>1, <1>2 DEF LabelInv, LedgerTyped
  <1>4. k \in Nat
    BY <1>3
  <1> HIDE DEF k
  <1>5. /\ rec \in SignedRecord /\ rec.prev = k
        /\ rec.node = call[c].rec.node /\ rec.new = call[c].rec.new
    BY <1>1, <1>4 DEF SignedRecord
  <1>6. [call[c] EXCEPT !.step = "label", !.rec.prev = k] = q
    BY <1>1 DEF SignerCall, SignedRecord
  <1>7. q \in SignerCall /\ q.step = "label" /\ q.rec = rec
    BY <1>1, <1>5 DEF SignerCall, SignerSteps
  <1> HIDE DEF q, rec
  <1>8. \E r \in SignerCall \cup {Transitions!Idle} :
                 /\ call' = [call EXCEPT ![c] = r] /\ r.step \in {"label", "idle"}
                 /\ r.step = "label" =>
                       /\ r.rec.prev = k
                       /\ r.rec.node = call[c].rec.node /\ r.rec.new = call[c].rec.new
    <2>1. CASE call' = [call EXCEPT ![c] = [call[c] EXCEPT !.step = "label", !.rec.prev = k]]
      BY <1>5, <1>6, <1>7, <2>1
    <2>2. CASE call' = [call EXCEPT ![c] = Transitions!Idle]
      <3>1. Transitions!Idle.step = "idle"
        BY DEF Transitions!Idle
      <3>2. QED
        BY <2>2, <3>1
    <2>3. QED
      BY <1>2, <2>1, <2>2
  <1>9. QED
    BY <1>1, <1>2, <1>3, <1>8 DEF k

LEMMA InsertPreservesLabels ==
    ASSUME LabelInv, NEW c \in Clients, Transitions!Insert(c)
    PROVE  LabelInv'
  <1> DEFINE k == Len(ledger) + 1
  <1>1. /\ ledger' \in Seq(SignedRecord)
        /\ DOMAIN ledger' = DOMAIN ledger \cup {k}
        /\ \A i \in DOMAIN ledger : ledger'[i] = ledger[i]
        /\ ledger'[k] = call[c].rec
        /\ UNCHANGED <<wall, seedOf, label, score>>
    BY InsertResult
  <1>2. PICK q \in SignerCall \cup {Transitions!Idle} :
                 /\ call' = [call EXCEPT ![c] = q]
                 /\ q.step = "label" =>
                       /\ q.rec.prev = k
                       /\ q.rec.node = call[c].rec.node /\ q.rec.new = call[c].rec.new
    BY InsertResult
  <1> HIDE DEF k
  <1>3. LedgerTyped'
    BY <1>1, <1>2 DEF LabelInv, LedgerTyped
  <1>4. \A d \in Clients : (d = c /\ call'[d] = q) \/ call'[d] = call[d]
    BY <1>2 DEF LabelInv, LedgerTyped
  <1>5. LabelsAuthorized'
    BY <1>1, <1>2, <1>4 DEF LabelInv, LabelsAuthorized
  <1>6. Transitions!LabelIsSigned'
    BY <1>1 DEF LabelInv, Transitions!LabelIsSigned
  <1>7. QED
    BY <1>3, <1>5, <1>6 DEF LabelInv

LEMMA WriteLabelPreserves ==
    ASSUME LabelInv, NEW c \in Clients, Transitions!WriteLabel(c)
    PROVE  /\ LabelInv' /\ UNCHANGED <<wall, seedOf, ledger, score>>
           /\ call' = [call EXCEPT ![c] = Transitions!Idle]
  <1> DEFINE new == [level |-> call[c].rec.new, of |-> call[c].rec.prev]
  <1>1. call[c] \in SignerCall /\ call[c].rec \in SignedRecord /\ call[c].step = "label"
    BY BusyTyped DEF Transitions!WriteLabel, Transitions!Does, LabelInv
  <1>2. /\ label' = [label EXCEPT ![call[c].rec.node] = new]
        /\ call' = [call EXCEPT ![c] = Transitions!Idle]
        /\ UNCHANGED <<wall, seedOf, ledger, score>>
    BY DEF Transitions!WriteLabel, Transitions!Stop, Transitions!Go
  <1>3. /\ call[c].rec.node \in Nodes
        /\ new \in [level: Transitions!Contents, of: Nat]
    BY <1>1 DEF SignedRecord
  <1>4. /\ new.of \in DOMAIN ledger /\ ledger[new.of].node = call[c].rec.node
        /\ ledger[new.of].new = new.level
    BY <1>1 DEF LabelInv, LabelsAuthorized
  <1> HIDE DEF new
  <1>5. LedgerTyped'
    BY <1>2, <1>3 DEF LabelInv, LedgerTyped
  <1>6. \A d \in Clients : call'[d].step = "label" => d # c /\ call'[d] = call[d]
    BY <1>2 DEF LabelInv, LedgerTyped, Transitions!Idle
  <1>7. LabelsAuthorized'
    BY <1>2, <1>6 DEF LabelInv, LabelsAuthorized
  <1>8. Transitions!LabelIsSigned'
    BY <1>2, <1>3, <1>4 DEF LabelInv, LedgerTyped, Transitions!LabelIsSigned
  <1>9. QED
    BY <1>2, <1>5, <1>7, <1>8 DEF LabelInv

LEMMA TickRegisterPreserve ==
    ASSUME SignerConstants, LabelInv,
           Transitions!Tick \/ \E e \in Epochs, s \in Seeds : Transitions!Register(e, s)
    PROVE  LabelInv'
  <1>1. UNCHANGED <<ledger, label, score, call>>
    BY DEF Transitions!Tick, Transitions!Register
  <1>2. wall' \in 0 .. MaxWall /\ seedOf' \in [Epochs -> Seeds \cup {NoSeed}]
    BY DEF Transitions!Tick, Transitions!Register, LabelInv, LedgerTyped
  <1>3. QED
    BY <1>1, <1>2 DEF LabelInv, LedgerTyped, LabelsAuthorized, Transitions!LabelIsSigned

LEMMA LabelStepInv ==
    SignerConstants /\ LabelInv /\ [Transitions!Next]_(Transitions!vars) => LabelInv'
  <1> SUFFICES ASSUME SignerConstants, LabelInv, [Transitions!Next]_(Transitions!vars)
               PROVE  LabelInv'
    OBVIOUS
  <1>1. CASE UNCHANGED Transitions!vars
    BY <1>1 DEF Transitions!vars, LabelInv, LedgerTyped, LabelsAuthorized,
                Transitions!LabelIsSigned
  <1>2. ASSUME NEW c \in Clients, \E q : SignerMoves(c, q)
        PROVE  LabelInv'
    BY <1>2, MovePreservesLabels
  <1>3. ASSUME NEW c \in Clients, NEW n \in Nodes,
               \/ \E l \in Levels : Transitions!LabelCall(c, n, l)
               \/ \E v \in Scores : Transitions!ScoreCall(c, n, v)
        PROVE  LabelInv'
    BY <1>2, <1>3, LabelCallMoves, ScoreCallMoves
  <1>4. ASSUME NEW c \in Clients,
               \/ Transitions!ScoreWrite(c) \/ Transitions!ReadKey(c)
               \/ Transitions!ReadPredecessor(c) \/ Transitions!Stamp(c)
        PROVE  LabelInv'
    BY <1>2, <1>4, ScoreWriteMoves, ReadKeyMoves, ReadPredecessorMoves, StampMoves
  <1>5. ASSUME NEW c \in Clients,
               Transitions!ReadNoKey(c) \/ Transitions!InsertFails(c) \/ Transitions!Abort(c)
        PROVE  LabelInv'
    <2>1. Transitions!Stop(c) /\ UNCHANGED <<wall, seedOf, ledger, label, score>>
      BY <1>5 DEF Transitions!ReadNoKey, Transitions!InsertFails, Transitions!Abort
    <2>2. QED
      BY <1>2, <2>1, SignerStopMoves
  <1>6. QED
    BY <1>1, <1>3, <1>4, <1>5, TickRegisterPreserve, InsertPreservesLabels, WriteLabelPreserves
       DEF Transitions!Next

\* set_poison_label: for any number of connections, entities and epochs, any
\* clock and any registration of keys, every label rests on a stored record
\* for this entity and this level, whichever of two racing calls wrote last.
THEOREM LabelsAreSigned ==
    ASSUME SignerConstants
    PROVE  Transitions!Spec => []LabelIsSigned
  <1>1. LabelInv => Transitions!LabelIsSigned
    BY DEF LabelInv
  <1>2. QED
    BY <1>1, LabelInitInv, LabelStepInv, PTL DEF Transitions!Spec, LabelIsSigned

LEMMA LedgerEntries ==
    ASSUME LedgerTyped
    PROVE  /\ Len(ledger) \in Nat /\ DOMAIN ledger = 1 .. Len(ledger)
           /\ \A i \in DOMAIN ledger :
                 /\ ledger[i].when \in Int /\ ledger[i].prev \in Nat /\ ledger[i].epoch \in Nat
           /\ wall \in Int
  <1>1. \A i \in DOMAIN ledger : ledger[i] \in SignedRecord
    BY DEF LedgerTyped
  <1>2. Len(ledger) \in Nat /\ DOMAIN ledger = 1 .. Len(ledger) /\ wall \in Int
    BY DEF LedgerTyped
  <1>3. QED
    BY <1>1, <1>2 DEF SignedRecord

\* In a chained ledger the order of the replay is that of the rowids.
LEMMA ReplayOrder ==
    ASSUME LedgerTyped, RecordsChained
    PROVE  \A i, j \in DOMAIN ledger : Transitions!Older(j, i) <=> j < i
  <1> TAKE i, j \in DOMAIN ledger
  <1>1. i \in Nat /\ j \in Nat /\ ledger[i].when \in Int /\ ledger[j].when \in Int
    BY LedgerEntries
  <1>2. (j < i => ledger[j].when <= ledger[i].when) /\ (i < j => ledger[i].when <= ledger[j].when)
    BY DEF RecordsChained
  <1>3. CASE j < i
    BY <1>1, <1>2, <1>3 DEF Transitions!Older
  <1>4. CASE i < j
    BY <1>1, <1>2, <1>4 DEF Transitions!Older
  <1>5. CASE i = j
    BY <1>1, <1>5 DEF Transitions!Older
  <1>6. QED
    BY <1>1, <1>3, <1>4, <1>5

LEMMA NewestIsLast ==
    ASSUME SignerConstants, LedgerTyped, RecordsChained
    PROVE  Transitions!Newest = Len(ledger)
  <1>1. Len(ledger) \in Nat /\ DOMAIN ledger = 1 .. Len(ledger)
    BY LedgerEntries
  <1>2. CASE ledger = <<>>
    BY <1>2 DEF Transitions!Newest
  <1>3. CASE ledger # <<>>
    <2> DEFINE n == Len(ledger)
    <2>1. n \in DOMAIN ledger
      BY <1>1, <1>3, EmptySeq DEF LedgerTyped
    <2>2. \A j \in DOMAIN ledger \ {n} : Transitions!Older(j, n)
      BY <1>1, <2>1, ReplayOrder
    <2>3. ASSUME NEW i \in DOMAIN ledger, \A j \in DOMAIN ledger \ {i} : Transitions!Older(j, i)
          PROVE  i = n
      <3>1. SUFFICES ASSUME i # n PROVE FALSE
        OBVIOUS
      <3>2. Transitions!Older(n, i)
        BY <2>1, <2>3, <3>1
      <3>3. n < i
        BY <2>1, <3>2, ReplayOrder
      <3>4. QED
        BY <1>1, <3>3
    <2>4. Transitions!Newest =
            CHOOSE i \in DOMAIN ledger : \A j \in DOMAIN ledger \ {i} : Transitions!Older(j, i)
      BY <1>3 DEF Transitions!Newest
    <2> HIDE DEF n
    <2>5. Transitions!Newest = n
      BY <2>1, <2>2, <2>3, <2>4
    <2>6. QED
      BY <2>5 DEF n
  <1>4. QED
    BY <1>2, <1>3

LEMMA RunningIsBefore ==
    ASSUME LedgerTyped, RecordsChained, NEW i \in DOMAIN ledger
    PROVE  Transitions!Running(i) = i - 1
  <1>1. Len(ledger) \in Nat /\ DOMAIN ledger = 1 .. Len(ledger) /\ i \in Nat
    BY LedgerEntries
  <1>2. Transitions!Before(i) = {j \in DOMAIN ledger : j < i}
    BY ReplayOrder DEF Transitions!Before
  <1>3. CASE i = 1
    <2>1. Transitions!Before(i) = {}
      BY <1>1, <1>2, <1>3
    <2>2. QED
      BY <1>3, <2>1 DEF Transitions!Running
  <1>4. CASE i # 1
    <2> DEFINE p == i - 1
               B == Transitions!Before(i)
    <2>1. p \in B /\ B \subseteq DOMAIN ledger
      BY <1>1, <1>2, <1>4
    <2>2. \A k \in B \ {p} : Transitions!Older(k, p)
      BY <1>1, <1>2, <2>1, ReplayOrder
    <2>3. ASSUME NEW j \in B, \A k \in B \ {j} : Transitions!Older(k, j)
          PROVE  j = p
      <3>1. SUFFICES ASSUME j # p PROVE FALSE
        OBVIOUS
      <3>2. Transitions!Older(p, j)
        BY <2>1, <2>3, <3>1
      <3>3. p < j /\ j < i /\ j \in Nat
        BY <1>1, <1>2, <2>1, <3>2, ReplayOrder
      <3>4. QED
        BY <1>1, <3>3
    <2>4. Transitions!Running(i) = CHOOSE j \in B : \A k \in B \ {j} : Transitions!Older(k, j)
      BY <2>1 DEF Transitions!Running
    <2> HIDE DEF p, B
    <2>5. Transitions!Running(i) = p
      BY <2>1, <2>2, <2>3, <2>4
    <2>6. QED
      BY <2>5 DEF p
  <1>5. QED
    BY <1>3, <1>4

LEMMA ReplayInvReplays == ReplayInv => Transitions!LedgerReplays
  BY RunningIsBefore
     DEF ReplayInv, LabelInv, KeysKept, RecordsChained, Transitions!LedgerReplays, Transitions!Replays

LEMMA ReplayInitInv == SignerConstants /\ Transitions!Init => ReplayInv
  <1> SUFFICES ASSUME SignerConstants, Transitions!Init PROVE ReplayInv
    OBVIOUS
  <1>1. LabelInv
    BY LabelInitInv
  <1>2. \A c \in Clients : call[c].step = "idle"
    BY DEF Transitions!Init, Transitions!Idle
  <1>3. DOMAIN ledger = {}
    BY DEF Transitions!Init
  <1>4. QED
    BY <1>1, <1>2, <1>3 DEF ReplayInv, KeysKept, RecordsChained, CallsChained

\* What a call must have read to be at its step.
CallKept(q) ==
    /\ q.step \in {"predecessor", "stamp", "insert"} =>
          q.rec.epoch \in Transitions!Registered /\ q.rec.seed = seedOf[q.rec.epoch]
    /\ q.step \in {"stamp", "insert"} => q.rec.prev \in 0 .. Len(ledger)
    /\ q.step = "insert" =>
          /\ q.rec.when <= wall
          /\ q.rec.prev > 0 => ledger[q.rec.prev].when <= q.rec.when

LEMMA CallsKept ==
    ASSUME ReplayInv, NEW c \in Clients
    PROVE  CallKept(call[c])
  BY DEF ReplayInv, KeysKept, CallsChained, CallKept

LEMMA MovePreservesReplay ==
    ASSUME ReplayInv, NEW c \in Clients, NEW q, SignerMoves(c, q), CallKept(q)
    PROVE  ReplayInv'
  <1>1. LabelInv'
    BY MovePreservesLabels DEF ReplayInv
  <1>2. \A d \in Clients : call'[d] = call[d] \/ call'[d] = q
    BY DEF ReplayInv, LabelInv, LedgerTyped, SignerMoves
  <1>3. UNCHANGED <<wall, seedOf, ledger>> /\ Transitions!Registered' = Transitions!Registered
    BY DEF SignerMoves, Transitions!Registered
  <1>4. \A d \in Clients : CallKept(call'[d])
    BY <1>2, CallsKept
  <1>5. KeysKept' /\ RecordsChained' /\ CallsChained'
    BY <1>3, <1>4 DEF ReplayInv, KeysKept, RecordsChained, CallsChained, CallKept
  <1>6. QED
    BY <1>1, <1>5 DEF ReplayInv

LEMMA TickPreservesReplay ==
    ASSUME SignerConstants, (ClockSteps \ {0}) \subseteq Nat, ReplayInv, Transitions!Tick
    PROVE  ReplayInv'
  <1>1. LabelInv'
    BY TickRegisterPreserve DEF ReplayInv
  <1>2. wall <= wall' /\ wall \in Int /\ wall' \in Int /\ UNCHANGED <<seedOf, ledger, call>>
    BY DEF Transitions!Tick, ReplayInv, LabelInv, LedgerTyped
  <1>3. Transitions!Registered' = Transitions!Registered
    BY <1>2 DEF Transitions!Registered
  <1>4. KeysKept'
    BY <1>2, <1>3 DEF ReplayInv, KeysKept
  <1>5. RecordsChained'
    BY <1>2, LedgerEntries DEF ReplayInv, LabelInv, RecordsChained
  <1>6. CallsChained'
    <2>1. \A c \in Clients : call[c].step = "insert" => call[c].rec.when \in Int
      BY BusyTyped DEF ReplayInv, LabelInv, SignedRecord
    <2>2. QED
      BY <1>2, <2>1 DEF ReplayInv, CallsChained
  <1>7. QED
    BY <1>1, <1>4, <1>5, <1>6 DEF ReplayInv

\* register_signer_epoch refuses another seed for an epoch it has.
LEMMA RegisterPreservesReplay ==
    ASSUME SignerConstants, ~MayReplace, ReplayInv, NEW e \in Epochs, NEW s \in Seeds,
           Transitions!Register(e, s)
    PROVE  ReplayInv'
  <1>1. LabelInv'
    BY TickRegisterPreserve DEF ReplayInv
  <1>2. UNCHANGED <<wall, ledger, call>>
    BY DEF Transitions!Register
  <1>3. \A d \in Transitions!Registered : d \in Transitions!Registered' /\ seedOf'[d] = seedOf[d]
    BY DEF Transitions!Register, Transitions!Registered, SignerConstants, ReplayInv, LabelInv,
           LedgerTyped
  <1>4. KeysKept' /\ RecordsChained' /\ CallsChained'
    BY <1>2, <1>3 DEF ReplayInv, KeysKept, RecordsChained, CallsChained
  <1>5. QED
    BY <1>1, <1>4 DEF ReplayInv

\* The index lets a record in only after the last one.
LEMMA InsertPreservesReplay ==
    ASSUME ReplayInv, NEW c \in Clients, Transitions!Insert(c)
    PROVE  ReplayInv'
  <1> DEFINE n == Len(ledger)
             k == Len(ledger) + 1
             rec == call[c].rec
  <1>1. LabelInv'
    BY InsertPreservesLabels DEF ReplayInv
  <1>2. /\ rec \in SignedRecord /\ call[c].step = "insert" /\ ~Transitions!Taken(rec.prev)
        /\ Len(ledger') = k /\ n \in Nat
        /\ DOMAIN ledger' = DOMAIN ledger \cup {k} /\ k \notin DOMAIN ledger
        /\ DOMAIN ledger = 1 .. n
        /\ \A i \in DOMAIN ledger : ledger'[i] = ledger[i]
        /\ ledger'[k] = rec
        /\ UNCHANGED <<wall, seedOf>>
    BY InsertResult DEF ReplayInv
  <1>3. PICK q \in SignerCall \cup {Transitions!Idle} :
            call' = [call EXCEPT ![c] = q] /\ q.step \in {"label", "idle"}
    BY InsertResult DEF ReplayInv
  <1>4. CallKept(call[c])
    BY CallsKept
  <1>5. rec.prev \in 0 .. n
    BY <1>2, <1>4 DEF CallKept
  <1>6. rec.prev = n
    <2>1. \A i \in 1 .. n : ledger[i].prev = i - 1
      BY <1>2 DEF ReplayInv, RecordsChained
    <2>2. \A i \in 1 .. n : ledger[i].prev # rec.prev
      BY <1>2 DEF Transitions!Taken
    <2>3. CASE rec.prev # n
      <3>1. rec.prev + 1 \in 1 .. n
        BY <1>2, <1>5, <2>3
      <3>2. ledger[rec.prev + 1].prev = (rec.prev + 1) - 1
        BY <2>1, <3>1
      <3>3. QED
        BY <1>5, <2>2, <3>1, <3>2
    <2>4. QED
      BY <2>3
  <1>7. rec.when <= wall /\ (n > 0 => ledger[n].when <= rec.when) /\ rec.when \in Int /\ wall \in Int
    <2>1. rec.when \in Int /\ wall \in Int
      BY <1>2 DEF SignedRecord, ReplayInv, LabelInv, LedgerTyped
    <2>2. QED
      BY <1>2, <1>4, <1>6, <2>1 DEF CallKept
  <1>8. rec.epoch \in Transitions!Registered /\ rec.seed = seedOf[rec.epoch]
    BY <1>2, <1>4 DEF CallKept
  <1>9. \A d \in Clients :
            call'[d].step \in {"predecessor", "stamp", "insert"} => call'[d] = call[d]
    BY <1>3 DEF ReplayInv, LabelInv, LedgerTyped
  <1>10. Transitions!Registered' = Transitions!Registered
    BY <1>2 DEF Transitions!Registered
  <1> HIDE DEF n, k, rec
  <1>11. KeysKept'
    BY <1>2, <1>8, <1>9, <1>10 DEF ReplayInv, KeysKept
  <1>12. k = n + 1
    BY DEF n, k
  <1>13. \A i \in 1 .. n : ledger[i].when \in Int /\ (ledger[i].when <= ledger[n].when \/ i = n)
    BY <1>2, LedgerEntries DEF ReplayInv, LabelInv, RecordsChained
  <1>14. \A i \in 1 .. n : ledger[i].when <= rec.when
    BY <1>2, <1>7, <1>13
  <1>15. RecordsChained'
    <2> SUFFICES ASSUME NEW i \in DOMAIN ledger'
                 PROVE  /\ ledger'[i].prev = i - 1 /\ ledger'[i].when <= wall
                        /\ \A j \in DOMAIN ledger' : j < i => ledger'[j].when <= ledger'[i].when
      BY <1>2 DEF RecordsChained
    <2>1. CASE i = k
      BY <1>2, <1>6, <1>7, <1>12, <1>14, <2>1
    <2>2. CASE i # k
      BY <1>2, <1>12, <2>2 DEF ReplayInv, RecordsChained
    <2>3. QED
      BY <2>1, <2>2
  <1>16. CallsChained'
    <2> SUFFICES ASSUME NEW d \in Clients
                 PROVE  /\ call'[d].step \in {"stamp", "insert"} =>
                              call'[d].rec.prev \in 0 .. Len(ledger')
                        /\ call'[d].step = "insert" =>
                              /\ call'[d].rec.when <= wall
                              /\ call'[d].rec.prev > 0 =>
                                    ledger'[call'[d].rec.prev].when <= call'[d].rec.when
      BY <1>2 DEF CallsChained
    <2>1. CASE call'[d].step \in {"stamp", "insert"}
      <3>1. call'[d] = call[d] /\ CallKept(call[d])
        BY <1>9, <2>1, CallsKept
      <3>2. call[d].rec.prev \in 0 .. n
        BY <2>1, <3>1 DEF CallKept, n
      <3>3. call[d].rec.prev > 0 => ledger'[call[d].rec.prev] = ledger[call[d].rec.prev]
        BY <1>2, <3>2
      <3>4. QED
        BY <1>2, <1>12, <3>1, <3>2, <3>3 DEF CallKept
    <2>2. QED
      BY <2>1
  <1>17. QED
    BY <1>1, <1>11, <1>15, <1>16 DEF ReplayInv

LEMMA WriteLabelPreservesReplay ==
    ASSUME ReplayInv, NEW c \in Clients, Transitions!WriteLabel(c)
    PROVE  ReplayInv'
  <1>1. /\ LabelInv' /\ UNCHANGED <<wall, seedOf, ledger, score>>
        /\ call' = [call EXCEPT ![c] = Transitions!Idle]
    BY WriteLabelPreserves DEF ReplayInv
  <1>2. Transitions!Registered' = Transitions!Registered
    BY <1>1 DEF Transitions!Registered
  <1>3. \A d \in Clients : call'[d].step # "idle" => call'[d] = call[d]
    BY <1>1 DEF ReplayInv, LabelInv, LedgerTyped, Transitions!Idle
  <1>4. \A d \in Clients : call'[d].step # "idle" => CallKept(call'[d])
    BY <1>3, CallsKept
  <1>5. KeysKept' /\ RecordsChained' /\ CallsChained'
    BY <1>1, <1>2, <1>3 DEF ReplayInv, KeysKept, RecordsChained, CallsChained
  <1>6. QED
    BY <1>1, <1>5 DEF ReplayInv

LEMMA ReplayStepInv ==
    SignerConstants /\ ~MayReplace /\ (ClockSteps \ {0}) \subseteq Nat
      /\ ReplayInv /\ [Transitions!Next]_(Transitions!vars) => ReplayInv'
  <1> SUFFICES ASSUME SignerConstants, ~MayReplace, (ClockSteps \ {0}) \subseteq Nat,
                      ReplayInv, [Transitions!Next]_(Transitions!vars)
               PROVE  ReplayInv'
    OBVIOUS
  <1>1. CASE UNCHANGED Transitions!vars
    <2>1. LabelInv'
      BY LabelStepInv DEF ReplayInv
    <2>2. Transitions!Registered' = Transitions!Registered
      BY <1>1 DEF Transitions!Registered, Transitions!vars
    <2>3. QED
      BY <1>1, <2>1, <2>2 DEF Transitions!vars, ReplayInv, KeysKept, RecordsChained, CallsChained
  <1>2. LabelInv
    BY DEF ReplayInv
  <1>3. ASSUME NEW c \in Clients, \E q : SignerMoves(c, q) /\ CallKept(q)
        PROVE  ReplayInv'
    BY <1>3, MovePreservesReplay
  <1>4. ASSUME NEW c \in Clients, \E q : SignerMoves(c, q) /\ q.step \in {"key", "score", "idle"}
        PROVE  ReplayInv'
    BY <1>3, <1>4 DEF CallKept
  <1>5. ASSUME NEW c \in Clients, NEW n \in Nodes,
               \/ \E l \in Levels : Transitions!LabelCall(c, n, l)
               \/ \E v \in Scores : Transitions!ScoreCall(c, n, v)
        PROVE  ReplayInv'
    BY <1>2, <1>4, <1>5, LabelCallMoves, ScoreCallMoves
  <1>6. ASSUME NEW c \in Clients, Transitions!ScoreWrite(c)
        PROVE  ReplayInv'
    BY <1>2, <1>4, <1>6, ScoreWriteMoves
  <1>7. ASSUME NEW c \in Clients, Transitions!ReadKey(c)
        PROVE  ReplayInv'
    BY <1>2, <1>3, <1>7, ReadKeyMoves DEF CallKept
  <1>8. ASSUME NEW c \in Clients, Transitions!ReadPredecessor(c)
        PROVE  ReplayInv'
    <2>1. PICK q : /\ SignerMoves(c, q) /\ q.step = "stamp" /\ q.rec.prev = Transitions!Newest
                   /\ q.rec.epoch = call[c].rec.epoch /\ q.rec.seed = call[c].rec.seed
      BY <1>2, <1>8, ReadPredecessorMoves
    <2>2. call[c].step = "predecessor" /\ CallKept(call[c])
      BY <1>8, CallsKept DEF Transitions!ReadPredecessor, Transitions!Does
    <2>3. q.rec.prev \in 0 .. Len(ledger)
      BY <1>2, <2>1, NewestStored DEF LabelInv
    <2>4. CallKept(q)
      BY <2>1, <2>2, <2>3 DEF CallKept
    <2>5. QED
      BY <1>3, <2>1, <2>4
  <1>9. ASSUME NEW c \in Clients, Transitions!Stamp(c)
        PROVE  ReplayInv'
    <2>1. PICK q : /\ SignerMoves(c, q) /\ q.step = "insert"
                   /\ q.rec.prev = call[c].rec.prev /\ q.rec.when = wall
                   /\ q.rec.epoch = call[c].rec.epoch /\ q.rec.seed = call[c].rec.seed
      BY <1>2, <1>9, StampMoves
    <2>2. call[c].step = "stamp" /\ CallKept(call[c])
      BY <1>9, CallsKept DEF Transitions!Stamp, Transitions!Does
    <2>3. q.rec.prev \in 0 .. Len(ledger) /\ wall \in Int
      BY <2>1, <2>2, LedgerEntries DEF CallKept, ReplayInv, LabelInv
    <2>4. q.rec.prev > 0 => ledger[q.rec.prev].when <= wall
      BY <2>3, LedgerEntries DEF ReplayInv, LabelInv, RecordsChained
    <2>5. CallKept(q)
      BY <2>1, <2>2, <2>3, <2>4 DEF CallKept
    <2>6. QED
      BY <1>3, <2>1, <2>5
  <1>10. ASSUME NEW c \in Clients,
               Transitions!ReadNoKey(c) \/ Transitions!InsertFails(c) \/ Transitions!Abort(c)
        PROVE  ReplayInv'
    <2>1. Transitions!Stop(c) /\ UNCHANGED <<wall, seedOf, ledger, label, score>>
      BY <1>10 DEF Transitions!ReadNoKey, Transitions!InsertFails, Transitions!Abort
    <2>2. SignerMoves(c, Transitions!Idle) /\ Transitions!Idle.step = "idle"
      BY <1>2, <2>1, SignerStopMoves DEF Transitions!Idle
    <2>3. QED
      BY <1>4, <2>2
  <1>11. QED
    BY <1>1, <1>5, <1>6, <1>7, <1>8, <1>9, <1>10, TickPreservesReplay, RegisterPreservesReplay,
       InsertPreservesReplay, WriteLabelPreservesReplay DEF Transitions!Next

\* verify_transition_chain: for any number of connections and any interleaving
\* of their statements, while the clock does not go back and no epoch is given
\* another seed, every record is signed with the seed of its epoch and names
\* the record before it in the order of the replay.
THEOREM LedgerAlwaysReplays ==
    ASSUME SignerConstants, ~MayReplace, ClockSteps \subseteq Nat
    PROVE  Transitions!Spec => []LedgerReplays
  <1>1. ClockSteps \ {0} \subseteq Nat
    OBVIOUS
  <1>2. QED
    BY <1>1, ReplayInitInv, ReplayStepInv, ReplayInvReplays, PTL
       DEF Transitions!Spec, LedgerReplays

-----------------------------------------------------------------------------
(* Erasure.                                                                *)

\* The steps of a remember, or of a release, up to its transaction.
GateSteps == {"live", "overlay", "tombstones", "lookup", "write"}

\* What a call carries, and what it has made sure of by its step, under the
\* mandates S.
TaskKept(q, S) ==
    /\ "step" \in DOMAIN q
    /\ q.step \in {"assert", "erase"} => "value" \in DOMAIN q
    /\ q.step \in GateSteps => {"value", "override", "barred"} \subseteq DOMAIN q
    /\ q.step \in {"copy", "snapshot"} => {"covers", "overlay"} \subseteq DOMAIN q
    /\ q.step = "erase" => q.value \in S
    /\ q.step \in GateSteps => q.barred \subseteq S
    /\ q.step \in {"tombstones", "lookup", "write"} /\ ~q.override => q.value \notin q.barred
    /\ q.step \in {"copy", "snapshot"} => q.covers \subseteq S /\ (~q.overlay => q.covers = {})

\* Every promise has its mandate, in the sidecar and in that of every backup.
ErasureInv ==
    /\ DOMAIN task = Clients
    /\ promised \subseteq sidecar
    /\ \A c \in Clients : TaskKept(task[c], sidecar)
    /\ \A b \in copies : b.covers \subseteq b.sidecar

LEMMA ErasureInitInv == Governance!Init => ErasureInv
  BY DEF Governance!Init, Governance!Idle, ErasureInv, TaskKept, GateSteps

LEMMA IdleKept == ASSUME NEW S PROVE TaskKept(Governance!Idle, S)
  BY DEF Governance!Idle, TaskKept, GateSteps

\* A mandate more keeps what the calls have made sure of.
LEMMA MandatesKeepTasks ==
    ASSUME NEW q, NEW S, NEW T, S \subseteq T, TaskKept(q, S)
    PROVE  TaskKept(q, T)
  BY DEF TaskKept

\* A step of one call, under mandates that are never withdrawn.
LEMMA CallerStepInv ==
    ASSUME ErasureInv, NEW c \in Clients, NEW q, task' = [task EXCEPT ![c] = q],
           TaskKept(q, sidecar'), sidecar \subseteq sidecar', promised' \subseteq sidecar',
           copies' = copies
    PROVE  ErasureInv'
  <1>1. ASSUME NEW d \in Clients PROVE TaskKept(task'[d], sidecar')
    <2>1. CASE d = c
      BY <2>1 DEF ErasureInv
    <2>2. CASE d # c
      BY <2>2, MandatesKeepTasks DEF ErasureInv
    <2>3. QED
      BY <2>1, <2>2
  <1>2. QED
    BY <1>1 DEF ErasureInv

\* A step of one call that leaves the mandates and the promises alone.
LEMMA CallerMovesInv ==
    ASSUME ErasureInv, NEW c \in Clients, NEW q, Governance!Go(c, q), TaskKept(q, sidecar),
           UNCHANGED <<sidecar, copies, promised>>
    PROVE  ErasureInv'
  <1>1. promised \subseteq sidecar
    BY DEF ErasureInv
  <1>2. QED
    BY <1>1, CallerStepInv DEF Governance!Go

LEMMA CallerStopsInv ==
    ASSUME ErasureInv, NEW c \in Clients, Governance!Stop(c),
           UNCHANGED <<sidecar, copies, promised>>
    PROVE  ErasureInv'
  BY CallerMovesInv, IdleKept DEF Governance!Stop

LEMMA RememberCallInv ==
    ASSUME ErasureInv, NEW c \in Clients, NEW f, NEW v, NEW override,
           Governance!RememberCall(c, f, v, override) , override \in BOOLEAN
    PROVE  ErasureInv'
  <1> DEFINE q == [step |-> IF override THEN "lookup" ELSE "overlay", fact |-> f, value |-> v,
                   id |-> 0, new |-> calls + 1, held |-> FALSE, override |-> override,
                   barred |-> promised]
  <1>1. Governance!Go(c, q) /\ UNCHANGED <<sidecar, copies, promised>>
    BY DEF Governance!RememberCall, Governance!Call
  <1>2. q.step \in {"lookup", "overlay"} /\ (q.step = "lookup" => q.override)
        /\ q.barred = promised /\ {"step", "value", "override", "barred"} \subseteq DOMAIN q
    OBVIOUS
  <1> HIDE DEF q
  <1>3. TaskKept(q, sidecar)
    BY <1>2 DEF TaskKept, ErasureInv, GateSteps
  <1>4. QED
    BY <1>1, <1>3, CallerMovesInv

LEMMA ReleaseCallInv ==
    ASSUME ErasureInv, NEW c \in Clients, NEW h, Governance!ReleaseCall(c, h)
    PROVE  ErasureInv'
  <1> DEFINE q == [step |-> "live", fact |-> h.fact, value |-> h.value, id |-> 0,
                   new |-> calls + 1, held |-> TRUE, override |-> FALSE, barred |-> promised]
  <1>1. Governance!Go(c, q) /\ UNCHANGED <<sidecar, copies, promised>>
    BY DEF Governance!ReleaseCall, Governance!Call
  <1>2. TaskKept(q, sidecar)
    BY DEF TaskKept, ErasureInv, GateSteps
  <1>3. QED
    BY <1>1, <1>2, CallerMovesInv

\* The gate and the lookup: the fields it reads are the ones the call carries.
LEMMA GateInv ==
    ASSUME ErasureInv, NEW c \in Clients,
           \/ Governance!IsErased(c) \/ Governance!IsRejected(c) \/ Governance!IsLive(c)
           \/ Governance!Lookup(c)
    PROVE  ErasureInv'
  <1>1. UNCHANGED <<sidecar, copies, promised>> /\ TaskKept(task[c], sidecar)
    BY DEF Governance!IsErased, Governance!IsRejected, Governance!IsLive, Governance!Lookup,
           ErasureInv
  <1>2. CASE Governance!Stop(c)
    BY <1>1, <1>2, CallerStopsInv
  <1>3. CASE Governance!IsErased(c) /\ ~Governance!Stop(c)
    <2> DEFINE q == [task[c] EXCEPT !.step = "tombstones"]
    <2>1. Governance!Go(c, q) /\ task[c].step = "overlay" /\ task[c].value \notin sidecar
      BY <1>3 DEF Governance!IsErased, Governance!Step, Governance!Does
    <2>2. TaskKept(q, sidecar)
      BY <1>1, <2>1 DEF TaskKept, GateSteps
    <2>3. QED
      BY <1>1, <2>1, <2>2, CallerMovesInv
  <1>4. CASE Governance!IsRejected(c) /\ ~Governance!Stop(c)
    <2> DEFINE q == [task[c] EXCEPT !.step = "lookup"]
    <2>1. Governance!Go(c, q) /\ task[c].step = "tombstones"
      BY <1>4 DEF Governance!IsRejected, Governance!Step, Governance!Does
    <2>2. TaskKept(q, sidecar)
      BY <1>1, <2>1 DEF TaskKept, GateSteps
    <2>3. QED
      BY <1>1, <2>1, <2>2, CallerMovesInv
  <1>5. CASE Governance!IsLive(c) /\ ~Governance!Stop(c)
    <2> DEFINE q == [task[c] EXCEPT !.step = "overlay"]
    <2>1. Governance!Go(c, q) /\ task[c].step = "live"
      BY <1>5 DEF Governance!IsLive, Governance!Step, Governance!Does
    <2>2. TaskKept(q, sidecar)
      BY <1>1, <2>1 DEF TaskKept, GateSteps
    <2>3. QED
      BY <1>1, <2>1, <2>2, CallerMovesInv
  <1>6. CASE Governance!Lookup(c)
    <2> DEFINE q == [task[c] EXCEPT !.step = "write", !.id = vault.row[task[c].fact].id]
    <2>1. Governance!Go(c, q) /\ task[c].step = "lookup"
      BY <1>6 DEF Governance!Lookup, Governance!Does
    <2>2. TaskKept(q, sidecar)
      BY <1>1, <2>1 DEF TaskKept, GateSteps
    <2>3. QED
      BY <1>1, <2>1, <2>2, CallerMovesInv
  <1>7. QED
    BY <1>2, <1>3, <1>4, <1>5, <1>6

\* The write, and the steps that follow it or need no more of the mandates.
LEMMA WriteInv ==
    ASSUME ErasureInv, NEW c \in Clients,
           \/ Governance!Hold(c) \/ Governance!Insert(c) \/ Governance!Update(c)
           \/ Governance!Reject(c) \/ Governance!Redact(c) \/ Governance!DeleteHeld(c)
           \/ Governance!Abort(c)
    PROVE  ErasureInv'
  <1>1. UNCHANGED <<sidecar, copies, promised>> /\ TaskKept(task[c], sidecar)
    BY DEF Governance!Hold, Governance!Insert, Governance!Update, Governance!Reject,
           Governance!Redact, Governance!DeleteHeld, Governance!Abort, ErasureInv
  <1>2. CASE Governance!Stop(c)
    BY <1>1, <1>2, CallerStopsInv
  <1>3. ASSUME NEW s \in {"delete", "mandate"}, Governance!Step(c, s) PROVE ErasureInv'
    <2> DEFINE q == [task[c] EXCEPT !.step = s]
    <2>1. Governance!Go(c, q)
      BY <1>3 DEF Governance!Step
    <2>2. TaskKept(q, sidecar)
      BY <1>1 DEF TaskKept, GateSteps
    <2>3. QED
      BY <1>1, <2>1, <2>2, CallerMovesInv
  <1>4. Governance!Stop(c) \/ Governance!Step(c, "delete") \/ Governance!Step(c, "mandate")
    BY DEF Governance!Hold, Governance!Insert, Governance!Update, Governance!AfterWrite,
           Governance!Reject, Governance!Redact, Governance!DeleteHeld, Governance!Abort
  <1>5. QED
    BY <1>2, <1>3, <1>4

LEMMA OtherCallsInv ==
    ASSUME ErasureInv, NEW c \in Clients, NEW f, NEW v, NEW expiring,
           \/ Governance!RejectCall(c, f, v, expiring) \/ Governance!EraseCall(c, f)
           \/ Governance!RedactCall(c, f)
    PROVE  ErasureInv'
  <1>1. UNCHANGED <<sidecar, copies, promised>>
    BY DEF Governance!RejectCall, Governance!EraseCall, Governance!RedactCall
  <1>2. CASE Governance!RejectCall(c, f, v, expiring)
    <2> DEFINE q == [step |-> "reject", fact |-> f, value |-> v, expiring |-> expiring]
    <2>1. Governance!Go(c, q)
      BY <1>2 DEF Governance!RejectCall, Governance!Call
    <2>2. TaskKept(q, sidecar)
      BY DEF TaskKept, GateSteps
    <2>3. QED
      BY <1>1, <2>1, <2>2, CallerMovesInv
  <1>3. CASE Governance!EraseCall(c, f)
    <2> DEFINE q == [step |-> "assert", fact |-> f, id |-> vault.row[f].id,
                     value |-> vault.row[f].value]
    <2>1. Governance!Go(c, q)
      BY <1>3 DEF Governance!EraseCall, Governance!Call
    <2>2. TaskKept(q, sidecar)
      BY DEF TaskKept, GateSteps
    <2>3. QED
      BY <1>1, <2>1, <2>2, CallerMovesInv
  <1>4. CASE Governance!RedactCall(c, f)
    <2> DEFINE q == [step |-> "redact", fact |-> f, id |-> vault.row[f].id]
    <2>1. Governance!Go(c, q)
      BY <1>4 DEF Governance!RedactCall, Governance!Call
    <2>2. TaskKept(q, sidecar)
      BY DEF TaskKept, GateSteps
    <2>3. QED
      BY <1>1, <2>1, <2>2, CallerMovesInv
  <1>5. QED
    BY <1>2, <1>3, <1>4

\* The mandate comes before the promise: of a rejection in one step, of an
\* erasure one step earlier.
LEMMA PromiseInv ==
    ASSUME ~Whole, ErasureInv, NEW c \in Clients,
           \/ Governance!RejectMandate(c) \/ Governance!AssertErasure(c) \/ Governance!Erase(c)
    PROVE  ErasureInv'
  <1>1. TaskKept(task[c], sidecar) /\ promised \subseteq sidecar
    BY DEF ErasureInv
  <1>2. CASE Governance!RejectMandate(c)
    <2>1. /\ task' = [task EXCEPT ![c] = Governance!Idle] /\ copies' = copies
          /\ sidecar' = sidecar \cup {task[c].value} /\ promised' = promised \cup {task[c].value}
      BY <1>2 DEF Governance!RejectMandate, Governance!Stop, Governance!Go
    <2>2. QED
      BY <1>1, <2>1, IdleKept, CallerStepInv
  <1>3. CASE Governance!AssertErasure(c)
    <2> DEFINE q == [task[c] EXCEPT !.step = "erase"]
    <2>1. /\ task' = [task EXCEPT ![c] = q] /\ copies' = copies /\ promised' = promised
          /\ sidecar' = sidecar \cup {task[c].value} /\ task[c].step = "assert"
      BY <1>3 DEF Governance!AssertErasure, Governance!Step, Governance!Go, Governance!Does
    <2>2. TaskKept(q, sidecar')
      BY <1>1, <2>1 DEF TaskKept, GateSteps
    <2>3. QED
      BY <1>1, <2>1, <2>2, CallerStepInv
  <1>4. CASE Governance!Erase(c)
    <2>1. /\ task' = [task EXCEPT ![c] = Governance!Idle] /\ copies' = copies
          /\ sidecar' = sidecar /\ task[c].step = "erase"
          /\ promised' \subseteq promised \cup {task[c].value}
      BY <1>4 DEF Governance!Erase, Governance!Stop, Governance!Go, Governance!Does
    <2>2. task[c].value \in sidecar
      BY <1>1, <2>1 DEF TaskKept
    <2>3. QED
      BY <1>1, <2>1, <2>2, IdleKept, CallerStepInv
  <1>5. QED
    BY <1>2, <1>3, <1>4

\* A backup copies a sidecar that holds every promise made before it began;
\* if there was no sidecar then, there was no promise.
LEMMA BackupInv ==
    ASSUME ErasureInv, NEW c \in Clients,
           \/ Governance!BackupCall(c) \/ Governance!CopyStore(c) \/ Governance!CopySidecar(c)
    PROVE  ErasureInv'
  <1>1. TaskKept(task[c], sidecar) /\ promised \subseteq sidecar
    BY DEF ErasureInv
  <1>2. CASE Governance!BackupCall(c)
    <2> DEFINE q == [step |-> "copy", overlay |-> sidecar # {}, vault |-> vault,
                     covers |-> promised]
    <2>1. Governance!Go(c, q) /\ UNCHANGED <<sidecar, copies, promised>>
      BY <1>2 DEF Governance!BackupCall, Governance!Call
    <2>2. /\ q.step = "copy" /\ q.covers = promised /\ (~q.overlay => sidecar = {})
          /\ {"step", "covers", "overlay"} \subseteq DOMAIN q
      OBVIOUS
    <2> HIDE DEF q
    <2>3. TaskKept(q, sidecar)
      BY <1>1, <2>2 DEF TaskKept, GateSteps
    <2>4. QED
      BY <2>1, <2>3, CallerMovesInv
  <1>3. CASE Governance!CopyStore(c)
    <2> DEFINE q == [task[c] EXCEPT !.step = "snapshot", !.vault = vault]
    <2>1. Governance!Go(c, q) /\ UNCHANGED <<sidecar, copies, promised>> /\ task[c].step = "copy"
      BY <1>3 DEF Governance!CopyStore, Governance!Does
    <2>2. TaskKept(q, sidecar)
      BY <1>1, <2>1 DEF TaskKept, GateSteps
    <2>3. QED
      BY <2>1, <2>2, CallerMovesInv
  <1>4. CASE Governance!CopySidecar(c)
    <2> DEFINE b == [vault |-> task[c].vault, covers |-> task[c].covers,
                     sidecar |-> IF task[c].overlay THEN sidecar ELSE {}]
    <2>1. /\ task' = [task EXCEPT ![c] = Governance!Idle] /\ copies' = copies \cup {b}
          /\ UNCHANGED <<sidecar, promised>> /\ task[c].step = "snapshot"
      BY <1>4 DEF Governance!CopySidecar, Governance!Stop, Governance!Go, Governance!Does
    <2>2. b.covers = task[c].covers /\ b.sidecar = IF task[c].overlay THEN sidecar ELSE {}
      OBVIOUS
    <2>3. b.covers \subseteq b.sidecar
      BY <1>1, <2>1, <2>2 DEF TaskKept
    <2> HIDE DEF b
    <2>4. \A d \in Clients : TaskKept(task'[d], sidecar')
      BY <2>1, IdleKept DEF ErasureInv
    <2>5. QED
      BY <2>1, <2>3, <2>4 DEF ErasureInv
  <1>5. QED
    BY <1>2, <1>3, <1>4

\* Rolling back leaves the sidecar; restoring takes the promises of the backup
\* with its sidecar.
LEMMA RecoveryInv ==
    ASSUME ErasureInv, NEW b \in copies, Governance!RollBack(b) \/ Governance!Restore(b)
    PROVE  ErasureInv'
  <1>1. \A c \in Clients : task[c].step = "idle"
    BY DEF Governance!RollBack, Governance!Restore, Governance!Quiet, Governance!Does
  <1>2. \A c \in Clients : TaskKept(task[c], sidecar')
    BY <1>1 DEF ErasureInv, TaskKept, GateSteps
  <1>3. promised' \subseteq sidecar' /\ UNCHANGED <<task, copies>>
    BY DEF Governance!RollBack, Governance!Restore, ErasureInv
  <1>4. QED
    BY <1>2, <1>3 DEF ErasureInv

LEMMA ErasureStepInv ==
    ~Whole /\ ErasureInv /\ [Governance!Next]_(Governance!vars) => ErasureInv'
  <1> SUFFICES ASSUME ~Whole, ErasureInv, [Governance!Next]_(Governance!vars)
               PROVE  ErasureInv'
    OBVIOUS
  <1>1. CASE UNCHANGED <<sidecar, copies, task, promised>>
    BY <1>1 DEF ErasureInv
  <1>2. ASSUME NEW t \in vault.tombs, Governance!Lapse(t) PROVE ErasureInv'
    BY <1>1, <1>2 DEF Governance!Lapse
  <1>3. ASSUME NEW h \in vault.held, Governance!Discard(h) PROVE ErasureInv'
    BY <1>1, <1>3 DEF Governance!Discard
  <1>4. CASE UNCHANGED Governance!vars
    BY <1>1, <1>4 DEF Governance!vars
  <1>5. QED
    BY <1>2, <1>3, <1>4, RememberCallInv, ReleaseCallInv, GateInv, WriteInv, OtherCallsInv,
       PromiseInv, BackupInv, RecoveryInv DEF Governance!Next

\* erase_entity, reject_value, restore_backup: for any number of callers, facts,
\* values and backups, a value whose erasure or permanent rejection was
\* confirmed is not served, and no call that began afterwards takes it past the
\* gate without the override.  ~Whole: the promise is for the value that the
\* call reports.
THEOREM ErasedStaysErased ==
    ASSUME ~Whole
    PROVE  Governance!Spec => []ErasureHolds
  <1>1. ErasureInv => Governance!ErasureHolds
    BY DEF ErasureInv, TaskKept, Governance!ErasureHolds, Governance!Served, Governance!Does
  <1>2. QED
    BY <1>1, ErasureInitInv, ErasureStepInv, PTL DEF Governance!Spec, ErasureHolds

-----------------------------------------------------------------------------
(* RollbackRepair.                                                         *)

Statuses == {"active", "deprecated", "quarantined"}
Table == [Rows -> [status: Statuses, links: [Rows -> Nat], by: Rows \cup {NoRow}]]
Downing == [row: Rows, prior: Statuses]
Cut == [row: Rows, links: [Rows -> Nat]]
Plan == [id: Nat, downed: SUBSET Downing, severed: SUBSET Cut]
Entry == [id: Nat, faulty: SUBSET Rows, before: Table,
          state: {"running", "done", "reversing"}, touched: SUBSET Rows]

ScanCall == [step: {"links", "superseded"}, id: Nat, faulty: SUBSET Rows, scan: SUBSET Rows,
             now: Rows \cup {NoRow}, found: SUBSET [row: Rows, sources: SUBSET Rows]]
ExecuteCall == [step: {"execute", "quarantine", "sever"}, id: Nat, faulty: SUBSET Rows,
                tomb: SUBSET Rows, keep: SUBSET Rows, downed: SUBSET Downing,
                severed: SUBSET Cut, read: {<<>>} \cup Downing \cup Cut]
ReverseCall == [step: {"restore", "relink"}, id: Nat, up: SUBSET Downing, relink: SUBSET Cut,
                read: {<<>>} \cup Cut]

GraphsTyped ==
    \A g \in Graphs : g.links \in [Rows -> [Rows -> Nat]] /\ g.by \in [Rows -> Rows \cup {NoRow}]

RowsOf(D) == {d.row : d \in D}

\* What a repair x has written down is what it found, in the rows that nothing
\* else has touched.
Recorded(x, D, S) ==
    /\ \A d \in D : d.row \notin x.touched => d.prior = x.before[d.row].status
    /\ \A s \in S : s.row \notin x.touched =>
            s.links = Repair!Removed(x.before[s.row].links, x.faulty)
    /\ RowsOf(D) \cap RowsOf(S) = {}

\* The row that a repair x makes of row e: of D quarantined, of S unlinked.
Left(x, D, S, e, row) ==
    /\ row.by = x.before[e].by
    /\ row.status = IF e \in RowsOf(D) THEN "quarantined" ELSE x.before[e].status
    /\ row.links = IF e \in RowsOf(S) THEN Repair!Kept(x.before[e].links, x.faulty)
                   ELSE x.before[e].links

\* The row that a reversal which stopped leaves of it.
Half(x, D, S, e, row) ==
    /\ e \notin RowsOf(S)
    /\ row.by = x.before[e].by /\ row.links = x.before[e].links
    /\ row.status = x.before[e].status \/ e \in RowsOf(D)

\* Every faulty row is in D, and every row that cites one in D or in S.
Covers(x, D, S) ==
    \A e \in Rows \ x.touched :
        /\ e \in x.faulty => e \in D
        /\ \A f \in x.faulty : x.before[e].links[f] > 0 => e \in D \cup S

\* FaultContained, of one repair and one row.
Contained(x, e, row) ==
    row.status = "active" => e \notin x.faulty /\ \A f \in x.faulty : row.links[f] = 0

\* The calls, with the repair x they are about and the rows rs: the scan has
\* found every row that cites what it has looked at; ...
Scanning(j, x, rs) ==
    /\ j \in ScanCall
    /\ x.state = "running" /\ j.id = x.id /\ j.faulty = x.faulty
    /\ j.scan \subseteq j.faulty /\ (j.step = "superseded" => j.now \in j.scan)
    /\ RowsOf(j.found) \cap j.faulty = {}
    /\ \A e \in Rows \ x.touched :
        /\ rs[e] = x.before[e]
        /\ \A f \in j.faulty :
            /\ e \notin j.faulty /\ rs[e].links[f] > 0
            /\ f \in j.scan => j.step = "superseded" /\ f = j.now
            => e \in RowsOf(j.found)

\* ... the execution has done what it has written down and has the rest to do; ...
Executing(j, x, rs) ==
    /\ j \in ExecuteCall
    /\ x.state = "running" /\ j.id = x.id /\ j.faulty = x.faulty
    /\ Recorded(x, j.downed, j.severed)
    /\ Covers(x, RowsOf(j.downed) \cup j.tomb, RowsOf(j.severed) \cup j.keep)
    /\ j.tomb \cap (j.keep \cup RowsOf(j.downed) \cup RowsOf(j.severed)) = {}
    /\ j.keep \cap (RowsOf(j.downed) \cup RowsOf(j.severed)) = {}
    /\ \A e \in Rows \ x.touched : Left(x, j.downed, j.severed, e, rs[e])
    /\ j.step = "quarantine" =>
        /\ j.read \in Downing /\ j.read.row \in j.tomb
        /\ j.read.row \notin x.touched => j.read.prior = x.before[j.read.row].status
    /\ j.step = "sever" =>
        /\ j.read \in Cut /\ j.read.row \in j.keep
        /\ j.read.row \notin x.touched => j.read.links = x.before[j.read.row].links

\* ... the reversal of the plan p has restored what is no longer on its lists.
Reversing(j, x, p, rs) ==
    /\ j \in ReverseCall
    /\ x.state = "reversing" /\ j.id = x.id /\ p.id = x.id
    /\ j.up \subseteq p.downed /\ j.relink \subseteq p.severed
    /\ j.step = "relink" =>
        /\ j.up = {} /\ j.read \in Cut /\ j.read.row \in RowsOf(p.severed)
        /\ j.read.row \notin x.touched =>
            j.read.links = x.before[j.read.row].links /\ j.read.row \notin RowsOf(j.relink)
    /\ \A e \in Rows \ x.touched :
        /\ rs[e].by = x.before[e].by
        /\ rs[e].status = x.before[e].status \/ e \in RowsOf(j.up)
        /\ \/ j.step = "relink" /\ e = j.read.row
           \/ rs[e].links = IF e \in RowsOf(j.relink)
                            THEN Repair!Kept(x.before[e].links, x.faulty)
                            ELSE x.before[e].links

Top == past[Len(past)]
Resting(j) == j = Repair!Idle /\ (Len(past) > 0 => Top.state # "running")
Works(j) ==
    /\ Len(past) > 0
    /\ \/ Scanning(j, Top, rows) \/ Executing(j, Top, rows)
       \/ \E p \in plans : Reversing(j, Top, p, rows)

\* The repairs are a stack: what touched a later one has touched the earlier.
Stacked ==
    /\ \A i \in DOMAIN past : past[i].id <= begun
    /\ \A i, k \in DOMAIN past : i < k =>
        past[i].state # "running" /\ past[i].id < past[k].id /\ past[k].touched \subseteq past[i].touched
    /\ \A p, q \in plans : p.id <= begun /\ (p.id = q.id => p = q)

\* The row that the repair i left, as the next one found it.
Found(i, e) == IF i = Len(past) THEN rows[e] ELSE past[i + 1].before[e]

Planned(j) ==
    \A p \in plans, i \in DOMAIN past : p.id = past[i].id =>
        /\ past[i].state # "running" /\ Recorded(past[i], p.downed, p.severed)
        /\ i = Len(past) /\ j # Repair!Idle => past[i].state = "reversing"
        /\ i < Len(past) \/ j = Repair!Idle =>
            \A e \in Rows \ past[i].touched :
                /\ past[i].state = "done" => Left(past[i], p.downed, p.severed, e, Found(i, e))
                /\ past[i].state = "reversing" => Half(past[i], p.downed, p.severed, e, Found(i, e))

\* A finished repair contains its fault, now and when the later ones began.
Contains ==
    \A i \in DOMAIN past : past[i].state = "done" => \A e \in Rows \ past[i].touched :
        /\ Contained(past[i], e, rows[e])
        /\ \A k \in DOMAIN past : i < k => Contained(past[i], e, past[k].before[e])

RepairTyped ==
    /\ rows \in Table /\ plans \in SUBSET Plan /\ past \in Seq(Entry) /\ begun \in Nat
    /\ DOMAIN job = Repairers

RepairInv(c) ==
    /\ RepairTyped /\ (Resting(job[c]) \/ Works(job[c]))
    /\ Stacked /\ Planned(job[c]) /\ Contains

\* A repair that something else touched.
Touched(x, T) == [x EXCEPT !.touched = @ \cup T]

LEMMA TouchedEntry ==
    ASSUME NEW x \in Entry, NEW T \in SUBSET Rows
    PROVE  /\ Touched(x, T) \in Entry /\ Touched(x, T).touched = x.touched \cup T
           /\ Touched(x, T).id = x.id /\ Touched(x, T).faulty = x.faulty
           /\ Touched(x, T).before = x.before /\ Touched(x, T).state = x.state
  BY DEF Touched, Entry

LEMMA PastDomain ==
    ASSUME past \in Seq(Entry)
    PROVE  /\ Len(past) \in Nat /\ DOMAIN past = 1 .. Len(past)
           /\ \A i \in DOMAIN past : i \in Nat /\ past[i] \in Entry
           /\ Len(past) > 0 => Len(past) \in DOMAIN past /\ Top \in Entry
  BY DEF Top

\* A function on an initial segment of the numbers is a sequence.
LEMMA SegmentIsSeq ==
    ASSUME NEW S, NEW n \in Nat, NEW f, f \in [1 .. n -> S]
    PROVE  f \in Seq(S) /\ Len(f) = n /\ DOMAIN f = 1 .. n
  <1>1. f \in Seq(S)
    BY SeqDef
  <1>2. QED
    BY <1>1, LenProperties

LEMMA TouchFacts ==
    ASSUME NEW ps \in Seq(Entry), NEW T \in SUBSET Rows
    PROVE  /\ Repair!Touch(ps, T) \in Seq(Entry)
           /\ Len(Repair!Touch(ps, T)) = Len(ps) /\ DOMAIN Repair!Touch(ps, T) = DOMAIN ps
           /\ \A i \in DOMAIN ps : Repair!Touch(ps, T)[i] = Touched(ps[i], T)
  <1>1. Len(ps) \in Nat /\ DOMAIN ps = 1 .. Len(ps) /\ \A i \in DOMAIN ps : ps[i] \in Entry
    OBVIOUS
  <1>2. Repair!Touch(ps, T) = [i \in 1 .. Len(ps) |-> Touched(ps[i], T)]
    BY <1>1 DEF Repair!Touch, Touched
  <1>3. Repair!Touch(ps, T) \in [1 .. Len(ps) -> Entry]
    BY <1>1, <1>2, TouchedEntry
  <1>4. QED
    BY <1>1, <1>2, <1>3, SegmentIsSeq

\* The last repair is found by its id.
LEMMA IndexOfTop ==
    ASSUME past \in Seq(Entry), Stacked, Len(past) > 0
    PROVE  Repair!Known(Top.id) /\ Repair!Index(Top.id) = Len(past)
  <1>1. \A i \in DOMAIN past : past[i].id = Top.id => i = Len(past)
    <2> SUFFICES ASSUME NEW i \in DOMAIN past, i # Len(past)
                 PROVE  past[i].id # Top.id
      OBVIOUS
    <2>1. past[i].id < Top.id /\ past[i].id \in Nat /\ Top.id \in Nat
      BY PastDomain DEF Stacked, Top, Entry
    <2>2. QED
      BY <2>1
  <1>2. Len(past) \in DOMAIN past /\ past[Len(past)].id = Top.id
    BY PastDomain DEF Top
  <1>3. QED
    BY <1>1, <1>2 DEF Repair!Known, Repair!Index

\* The repairs without the last one.
LEMMA WithoutTop ==
    ASSUME past \in Seq(Entry), Stacked, Len(past) > 0
    PROVE  /\ Repair!Without(Top.id) \in Seq(Entry)
           /\ Len(Repair!Without(Top.id)) = Len(past) - 1
           /\ DOMAIN Repair!Without(Top.id) = 1 .. Len(past) - 1
           /\ \A i \in 1 .. Len(past) - 1 : Repair!Without(Top.id)[i] = past[i]
  <1>1. Repair!Known(Top.id) /\ Repair!Index(Top.id) = Len(past)
    BY IndexOfTop
  <1>2. Repair!Without(Top.id) = [i \in 1 .. Len(past) - 1 |-> past[IF i < Len(past) THEN i ELSE i + 1]]
    BY <1>1 DEF Repair!Without
  <1>3. Len(past) - 1 \in Nat /\ \A i \in 1 .. Len(past) - 1 : i < Len(past) /\ past[i] \in Entry
    BY PastDomain
  <1>4. Repair!Without(Top.id) = [i \in 1 .. Len(past) - 1 |-> past[i]]
    BY <1>2, <1>3
  <1>5. Repair!Without(Top.id) \in [1 .. Len(past) - 1 -> Entry]
    BY <1>3, <1>4
  <1>6. QED
    BY <1>3, <1>4, <1>5, SegmentIsSeq

\* The last repair in another state.
LEMMA TopBecomes ==
    ASSUME past \in Seq(Entry), Stacked, Len(past) > 0, NEW s \in {"running", "done", "reversing"},
           Repair!Become(Top.id, s)
    PROVE  /\ past' \in Seq(Entry) /\ Len(past') = Len(past) /\ DOMAIN past' = DOMAIN past
           /\ \A i \in DOMAIN past : i # Len(past) => past'[i] = past[i]
           /\ Top' = [Top EXCEPT !.state = s]
  <1>1. past' = [past EXCEPT ![Len(past)].state = s]
    BY IndexOfTop DEF Repair!Become
  <1>2. Len(past) \in DOMAIN past /\ DOMAIN past = 1 .. Len(past) /\ Len(past) \in Nat
    BY PastDomain
  <1>3. [Top EXCEPT !.state = s] \in Entry
    BY PastDomain DEF Entry
  <1>4. past' = [i \in 1 .. Len(past) |-> IF i = Len(past) THEN [Top EXCEPT !.state = s] ELSE past[i]]
    BY <1>1, <1>2 DEF Top
  <1>5. past' \in [1 .. Len(past) -> Entry]
    BY <1>2, <1>3, <1>4, PastDomain
  <1>6. past' \in Seq(Entry) /\ Len(past') = Len(past) /\ DOMAIN past' = DOMAIN past
    BY <1>2, <1>5, SegmentIsSeq
  <1>7. QED
    BY <1>2, <1>4, <1>6 DEF Top

LEMMA RepairInit ==
    ASSUME GraphsTyped, NEW c \in Repairers, Repair!Init
    PROVE  RepairInv(c)
  <1>1. PICK g \in Graphs :
            rows = [e \in Rows |-> [status |-> "active", links |-> g.links[e], by |-> g.by[e]]]
    BY DEF Repair!Init
  <1>2. rows \in Table
    BY <1>1 DEF GraphsTyped, Table, Statuses
  <1>3. /\ plans = {} /\ past = <<>> /\ begun = 0
        /\ job[c] = Repair!Idle /\ DOMAIN job = Repairers
    BY DEF Repair!Init
  <1>4. past \in Seq(Entry) /\ Len(past) = 0 /\ DOMAIN past = {}
    BY <1>3
  <1>5. QED
    BY <1>2, <1>3, <1>4 DEF RepairInv, RepairTyped, Resting, Stacked, Planned, Contains

\* A step of a call that goes on, which leaves the repairs and the plans alone.
LEMMA CallGoesOn ==
    ASSUME NEW c \in Repairers, RepairInv(c), UNCHANGED <<plans, past, begun>>,
           rows' \in Table, DOMAIN job' = Repairers,
           job[c] # Repair!Idle, job'[c] # Repair!Idle, Works(job[c])',
           \A i \in DOMAIN past : past[i].state = "done" =>
                \A e \in Rows \ past[i].touched : Contained(past[i], e, rows'[e])
    PROVE  RepairInv(c)'
  <1>1. RepairTyped'
    BY DEF RepairInv, RepairTyped
  <1>2. Stacked'
    BY DEF RepairInv, Stacked
  <1>3. Planned(job[c])'
    BY PastDomain DEF RepairInv, RepairTyped, Planned, Found
  <1>4. Contains'
    BY DEF RepairInv, Contains
  <1>5. QED
    BY <1>1, <1>2, <1>3, <1>4 DEF RepairInv

\* What is said of the rows that nothing else has touched stays true when
\* something else touches more of them.
LEMMA TouchKeeps ==
    ASSUME NEW x \in Entry, NEW T \in SUBSET Rows, NEW rs \in Table, NEW rs2 \in Table,
           \A e \in Rows \ T : rs2[e] = rs[e]
    PROVE  /\ \A D, S : Recorded(x, D, S) => Recorded(Touched(x, T), D, S)
           /\ \A D, S, e, row : /\ Left(x, D, S, e, row) <=> Left(Touched(x, T), D, S, e, row)
                                /\ Half(x, D, S, e, row) <=> Half(Touched(x, T), D, S, e, row)
           /\ \A e, row : Contained(x, e, row) <=> Contained(Touched(x, T), e, row)
           /\ \A j : Scanning(j, x, rs) => Scanning(j, Touched(x, T), rs2)
           /\ \A j : Executing(j, x, rs) => Executing(j, Touched(x, T), rs2)
           /\ \A j, p : Reversing(j, x, p, rs) => Reversing(j, Touched(x, T), p, rs2)
  <1> DEFINE y == Touched(x, T)
  <1>1. /\ y.touched = x.touched \cup T /\ y.id = x.id /\ y.faulty = x.faulty
        /\ y.before = x.before /\ y.state = x.state
    BY TouchedEntry
  <1> HIDE DEF y
  <1>2. \A D, S : Recorded(x, D, S) => Recorded(y, D, S)
    BY <1>1 DEF Recorded
  <1>3. \A D, S, e, row : /\ Left(x, D, S, e, row) <=> Left(y, D, S, e, row)
                          /\ Half(x, D, S, e, row) <=> Half(y, D, S, e, row)
    BY <1>1 DEF Left, Half
  <1>4. \A e, row : Contained(x, e, row) <=> Contained(y, e, row)
    BY <1>1 DEF Contained
  <1>5. \A D, S : Covers(x, D, S) => Covers(y, D, S)
    BY <1>1 DEF Covers
  <1>6. \A j : Scanning(j, x, rs) => Scanning(j, y, rs2)
    BY <1>1 DEF Scanning
  <1>7. ASSUME NEW j, Executing(j, x, rs) PROVE Executing(j, y, rs2)
    <2>1. \A e \in Rows \ y.touched : Left(y, j.downed, j.severed, e, rs2[e])
      BY <1>1, <1>3, <1>7 DEF Executing
    <2>2. /\ Recorded(y, j.downed, j.severed)
          /\ Covers(y, RowsOf(j.downed) \cup j.tomb, RowsOf(j.severed) \cup j.keep)
      BY <1>2, <1>5, <1>7 DEF Executing
    <2>3. QED
      BY <1>1, <1>7, <2>1, <2>2 DEF Executing
  <1>8. \A j, p : Reversing(j, x, p, rs) => Reversing(j, y, p, rs2)
    BY <1>1 DEF Reversing
  <1>9. QED
    BY <1>2, <1>3, <1>4, <1>6, <1>7, <1>8 DEF y

\* Another writer changes rows, and a call goes on or stops without a trace in
\* the repairs but the rows it has touched.
LEMMA TouchStep ==
    ASSUME NEW c \in Repairers, RepairInv(c), NEW T \in SUBSET Rows,
           past' = Repair!Touch(past, T), UNCHANGED <<plans, begun, job>>,
           rows' \in Table, \A e \in Rows \ T : rows'[e] = rows[e]
    PROVE  RepairInv(c)'
  <1>1. /\ past \in Seq(Entry) /\ rows \in Table
        /\ Len(past) \in Nat /\ DOMAIN past = 1 .. Len(past)
        /\ \A i \in DOMAIN past : i \in Nat /\ past[i] \in Entry
    BY PastDomain DEF RepairInv, RepairTyped
  <1>2. /\ past' \in Seq(Entry) /\ Len(past') = Len(past) /\ DOMAIN past' = DOMAIN past
        /\ \A i \in DOMAIN past : past'[i] = Touched(past[i], T)
    BY <1>1, TouchFacts
  <1>3. \A i \in DOMAIN past :
            /\ past'[i].touched = past[i].touched \cup T /\ past'[i].id = past[i].id
            /\ past'[i].before = past[i].before /\ past'[i].state = past[i].state
    BY <1>1, <1>2, TouchedEntry
  <1>4. Len(past) > 0 => Top \in Entry /\ Top' = Touched(Top, T) /\ Top'.state = Top.state
    BY <1>1, <1>2, <1>3, PastDomain DEF Top
  <1>5. RepairTyped'
    BY <1>2 DEF RepairInv, RepairTyped
  <1>6. Resting(job[c]) \/ Works(job[c]) => (Resting(job[c]) \/ Works(job[c]))'
    BY <1>1, <1>2, <1>4, TouchKeeps DEF Resting, Works
  <1>7. Stacked'
    BY <1>1, <1>2, <1>3 DEF RepairInv, Stacked
  <1>8. ASSUME NEW i \in DOMAIN past, NEW e \in Rows \ (past[i].touched \cup T)
        PROVE  Found(i, e)' = Found(i, e)
    BY <1>1, <1>2, <1>3 DEF Found
  <1>9. Planned(job[c])'
    <2> SUFFICES ASSUME NEW p \in plans, NEW i \in DOMAIN past, p.id = past[i].id
                 PROVE  /\ past'[i].state # "running"
                        /\ Recorded(past'[i], p.downed, p.severed)
                        /\ i = Len(past) /\ job[c] # Repair!Idle => past'[i].state = "reversing"
                        /\ i < Len(past) \/ job[c] = Repair!Idle =>
                            \A e \in Rows \ past'[i].touched :
                                /\ past'[i].state = "done" =>
                                        Left(past'[i], p.downed, p.severed, e, Found(i, e)')
                                /\ past'[i].state = "reversing" =>
                                        Half(past'[i], p.downed, p.severed, e, Found(i, e)')
      BY <1>2, <1>3 DEF Planned
    <2>1. /\ past[i].state # "running" /\ Recorded(past[i], p.downed, p.severed)
          /\ i = Len(past) /\ job[c] # Repair!Idle => past[i].state = "reversing"
      BY DEF RepairInv, Planned
    <2>2. Recorded(past'[i], p.downed, p.severed)
      BY <1>1, <1>2, <2>1, TouchKeeps
    <2>3. ASSUME i < Len(past) \/ job[c] = Repair!Idle, NEW e \in Rows \ past'[i].touched
          PROVE  /\ past'[i].state = "done" =>
                        Left(past'[i], p.downed, p.severed, e, Found(i, e)')
                 /\ past'[i].state = "reversing" =>
                        Half(past'[i], p.downed, p.severed, e, Found(i, e)')
      <3>1. e \in Rows \ past[i].touched /\ Found(i, e)' = Found(i, e)
        BY <1>3, <1>8
      <3>2. /\ past[i].state = "done" => Left(past[i], p.downed, p.severed, e, Found(i, e))
            /\ past[i].state = "reversing" => Half(past[i], p.downed, p.severed, e, Found(i, e))
        BY <2>3, <3>1 DEF RepairInv, Planned
      <3>3. QED
        BY <1>1, <1>2, <1>3, <3>1, <3>2, TouchKeeps
    <2>4. QED
      BY <1>3, <2>1, <2>2, <2>3
  <1>10. Contains'
    <2> SUFFICES ASSUME NEW i \in DOMAIN past, past[i].state = "done",
                        NEW e \in Rows \ (past[i].touched \cup T)
                 PROVE  /\ Contained(past'[i], e, rows'[e])
                        /\ \A k \in DOMAIN past : i < k => Contained(past'[i], e, past[k].before[e])
      BY <1>2, <1>3 DEF Contains
    <2>1. /\ Contained(past[i], e, rows[e]) /\ rows'[e] = rows[e]
          /\ \A k \in DOMAIN past : i < k => Contained(past[i], e, past[k].before[e])
      BY DEF RepairInv, Contains
    <2>2. QED
      BY <1>1, <1>2, <2>1, TouchKeeps
  <1>11. QED
    BY <1>5, <1>6, <1>7, <1>9, <1>10 DEF RepairInv

\* link, unlink and status changes by other clients.
LEMMA EditStep ==
    ASSUME NEW c \in Repairers, RepairInv(c), NEW e \in Rows,
           \/ \E t \in Rows : Repair!LinkRow(e, t) \/ Repair!UnlinkRow(e, t)
           \/ Repair!Deprecate(e)
    PROVE  RepairInv(c)'
  <1>1. rows \in Table
    BY DEF RepairInv, RepairTyped
  <1>2. PICK row \in [status: Statuses, links: [Rows -> Nat], by: Rows \cup {NoRow}] :
            Repair!Edit(e, row)
    BY <1>1 DEF Repair!LinkRow, Repair!UnlinkRow, Repair!Deprecate, Table, Statuses
  <1>3. /\ rows' = [rows EXCEPT ![e] = row] /\ past' = Repair!Touch(past, {e})
        /\ UNCHANGED <<plans, begun, job>>
    BY <1>2 DEF Repair!Edit
  <1>4. rows' \in Table /\ \A d \in Rows \ {e} : rows'[d] = rows[d]
    BY <1>1, <1>3 DEF Table
  <1>5. {e} \in SUBSET Rows
    OBVIOUS
  <1>6. QED
    BY <1>3, <1>4, <1>5, TouchStep

\* A call with a step other than "idle" is one of the three kinds of work.
LEMMA BusyWorks ==
    ASSUME NEW c \in Repairers, RepairInv(c), job[c].step # "idle"
    PROVE  /\ Works(job[c]) /\ job[c] # Repair!Idle /\ Len(past) > 0 /\ Top \in Entry
           /\ job[c].step \in {"links", "superseded"} => Scanning(job[c], Top, rows)
           /\ job[c].step \in {"execute", "quarantine", "sever"} => Executing(job[c], Top, rows)
           /\ job[c].step \in {"restore", "relink"} =>
                \E p \in plans : Reversing(job[c], Top, p, rows)
  <1>1. Works(job[c]) /\ job[c] # Repair!Idle
    BY DEF RepairInv, Resting, Repair!Idle
  <1>2. Len(past) > 0 /\ Top \in Entry
    BY <1>1, PastDomain DEF Works, RepairInv, RepairTyped
  <1>3. /\ \A j, x, rs : Scanning(j, x, rs) => j.step \in {"links", "superseded"}
        /\ \A j, x, rs : Executing(j, x, rs) => j.step \in {"execute", "quarantine", "sever"}
        /\ \A j, x, p, rs : Reversing(j, x, p, rs) => j.step \in {"restore", "relink"}
    BY DEF Scanning, Executing, Reversing, ScanCall, ExecuteCall, ReverseCall
  <1>4. QED
    BY <1>1, <1>2, <1>3 DEF Works

LEMMA IdleRests ==
    ASSUME NEW c \in Repairers, RepairInv(c), job[c].step = "idle"
    PROVE  Resting(job[c])
  BY DEF RepairInv, Works, Scanning, Executing, Reversing, ScanCall, ExecuteCall, ReverseCall

\* rollback_repair begins: a new repair on top of the others.
LEMMA BeginStep ==
    ASSUME NEW c \in Repairers, RepairInv(c), NEW faulty \in SUBSET Rows,
           Repair!Begin(c, faulty)
    PROVE  RepairInv(c)'
  <1> DEFINE x == [id |-> begun + 1, faulty |-> faulty, before |-> rows,
                   state |-> "running", touched |-> {}]
             j == [step |-> "links", id |-> begun + 1, faulty |-> faulty, scan |-> faulty,
                   now |-> NoRow, found |-> {}]
             n == Len(past)
  <1>1. /\ past \in Seq(Entry) /\ rows \in Table /\ begun \in Nat /\ plans \in SUBSET Plan
        /\ n \in Nat /\ DOMAIN past = 1 .. n /\ DOMAIN job = Repairers
        /\ \A i \in DOMAIN past : i \in Nat /\ past[i] \in Entry
    BY PastDomain DEF RepairInv, RepairTyped
  <1>2. /\ begun' = begun + 1 /\ job' = [job EXCEPT ![c] = j] /\ past' = Append(past, x)
        /\ UNCHANGED <<rows, plans>> /\ job[c].step = "idle"
    BY DEF Repair!Begin, Repair!Go, Repair!Does
  <1>3. x \in Entry /\ j \in ScanCall
    BY <1>1 DEF Entry, ScanCall
  <1>4. /\ past' \in Seq(Entry) /\ Len(past') = n + 1 /\ DOMAIN past' = 1 .. n + 1
        /\ \A i \in 1 .. n : past'[i] = past[i]
        /\ past'[n + 1] = x /\ Top' = x
    BY <1>1, <1>2, <1>3 DEF Top
  <1>5. job'[c] = j /\ DOMAIN job' = Repairers /\ job[c] = Repair!Idle
        /\ (n > 0 => past[n].state # "running")
    BY <1>1, <1>2, IdleRests DEF Resting, Top
  <1>6. /\ x.id = begun + 1 /\ x.faulty = faulty /\ x.before = rows /\ x.state = "running"
        /\ x.touched = {}
        /\ j.step = "links" /\ j.id = begun + 1 /\ j.faulty = faulty /\ j.scan = faulty /\ j.found = {}
    OBVIOUS
  <1> HIDE DEF x, j
  <1>7. RepairTyped'
    BY <1>1, <1>2, <1>4, <1>5 DEF RepairTyped
  <1>8. Works(job[c])'
    <2>1. Scanning(j, x, rows)
      BY <1>3, <1>6 DEF Scanning, RowsOf
    <2>2. QED
      BY <1>1, <1>2, <1>4, <1>5, <2>1 DEF Works
  <1>9. Stacked'
    <2>1. \A i \in 1 .. n : past[i].id <= begun /\ past[i].id \in Nat /\ past[i].state # "running"
      BY <1>1, <1>5 DEF RepairInv, Stacked, Entry
    <2>2. \A i \in DOMAIN past' : past'[i].id <= begun'
      BY <1>1, <1>2, <1>4, <1>6, <2>1
    <2>3. ASSUME NEW i \in DOMAIN past', NEW k \in DOMAIN past', i < k
          PROVE  /\ past'[i].state # "running" /\ past'[i].id < past'[k].id
                 /\ past'[k].touched \subseteq past'[i].touched
      <3>1. CASE k = n + 1
        BY <1>1, <1>4, <1>6, <2>1, <2>3, <3>1
      <3>2. CASE k \in 1 .. n
        BY <1>1, <1>4, <2>3, <3>2 DEF RepairInv, Stacked
      <3>3. QED
        BY <1>1, <1>4, <3>1, <3>2
    <2>4. \A p \in plans : p.id \in Nat
      BY <1>1 DEF Plan
    <2>5. \A p, q \in plans : p.id <= begun + 1 /\ (p.id = q.id => p = q)
      BY <1>1, <2>4 DEF RepairInv, Stacked
    <2>6. QED
      BY <1>2, <2>2, <2>3, <2>5 DEF Stacked
  <1>10. Planned(job[c])'
    <2> SUFFICES ASSUME NEW p \in plans, NEW i \in DOMAIN past', p.id = past'[i].id
                 PROVE  /\ past'[i].state # "running"
                        /\ Recorded(past'[i], p.downed, p.severed)
                        /\ i = Len(past') /\ job'[c] # Repair!Idle => past'[i].state = "reversing"
                        /\ \A e \in Rows \ past'[i].touched :
                                /\ past'[i].state = "done" =>
                                        Left(past'[i], p.downed, p.severed, e, Found(i, e)')
                                /\ past'[i].state = "reversing" =>
                                        Half(past'[i], p.downed, p.severed, e, Found(i, e)')
      BY <1>2 DEF Planned
    <2>1. p.id <= begun /\ p.id \in Nat
      BY <1>1 DEF RepairInv, Stacked, Plan
    <2>2. i \in 1 .. n
      BY <1>1, <1>4, <1>6, <2>1
    <2>3. past'[i] = past[i] /\ i # Len(past') /\ i \in DOMAIN past
      BY <1>1, <1>4, <2>2
    <2>4. ASSUME NEW e \in Rows PROVE Found(i, e)' = Found(i, e)
      BY <1>1, <1>4, <1>6, <2>2 DEF Found
    <2>5. QED
      BY <1>5, <2>3, <2>4 DEF RepairInv, Planned
  <1>11. Contains'
    <2> SUFFICES ASSUME NEW i \in DOMAIN past', past'[i].state = "done",
                        NEW e \in Rows \ past'[i].touched
                 PROVE  /\ Contained(past'[i], e, rows[e])
                        /\ \A k \in DOMAIN past' : i < k => Contained(past'[i], e, past'[k].before[e])
      BY <1>2 DEF Contains
    <2>1. i \in 1 .. n /\ past'[i] = past[i] /\ i \in DOMAIN past
      BY <1>1, <1>4, <1>6
    <2>2. /\ Contained(past[i], e, rows[e])
          /\ \A k \in DOMAIN past : i < k => Contained(past[i], e, past[k].before[e])
      BY <2>1 DEF RepairInv, Contains
    <2>3. ASSUME NEW k \in DOMAIN past', i < k
          PROVE  Contained(past'[i], e, past'[k].before[e])
      BY <1>1, <1>4, <1>6, <2>1, <2>2, <2>3
    <2>4. QED
      BY <2>1, <2>2, <2>3
  <1>12. QED
    BY <1>7, <1>8, <1>9, <1>10, <1>11 DEF RepairInv

LEMMA RowsOfBoth ==
    ASSUME NEW D, NEW E
    PROVE  RowsOf(D \cup E) = RowsOf(D) \cup RowsOf(E)
  BY DEF RowsOf

LEMMA RowsOfOne ==
    ASSUME NEW d
    PROVE  RowsOf({d}) = {d.row}
  BY DEF RowsOf

\* A step that only moves the call on.
LEMMA CallReads ==
    ASSUME NEW c \in Repairers, RepairInv(c), UNCHANGED <<rows, plans, past, begun>>,
           job[c] # Repair!Idle, NEW q, Repair!Go(c, q),
           \/ Scanning(q, Top, rows) \/ Executing(q, Top, rows)
           \/ \E p \in plans : Reversing(q, Top, p, rows)
    PROVE  RepairInv(c)'
  <1>1. DOMAIN job = Repairers /\ rows \in Table /\ Works(job[c])
    BY DEF RepairInv, RepairTyped, Resting
  <1>2. job'[c] = q /\ DOMAIN job' = Repairers
    BY <1>1 DEF Repair!Go
  <1>3. Works(job[c])'
    BY <1>1, <1>2 DEF Works, Top
  <1>4. q # Repair!Idle
    BY DEF Scanning, Executing, Reversing, ScanCall, ExecuteCall, ReverseCall, Repair!Idle
  <1>5. \A i \in DOMAIN past : past[i].state = "done" =>
            \A e \in Rows \ past[i].touched : Contained(past[i], e, rows'[e])
    BY DEF RepairInv, Contains
  <1>6. QED
    BY <1>1, <1>2, <1>3, <1>4, <1>5, CallGoesOn

\* rollback_repair: the dependents by link, of one faulty id.
LEMMA ScanLinksStep ==
    ASSUME NEW c \in Repairers, RepairInv(c), NEW f \in Rows, Repair!ScanLinks(c, f)
    PROVE  RepairInv(c)'
  <1> DEFINE j == job[c]
             new == {e \in Rows \ Repair!Seen(j) : f \in Repair!Cites(e)}
             found == j.found \cup {[row |-> e, sources |-> Repair!Cites(e)] : e \in new}
             q == [j EXCEPT !.step = "superseded", !.now = f, !.found = found]
  <1>1. /\ j.step = "links" /\ f \in j.scan /\ Repair!Go(c, q)
        /\ UNCHANGED <<rows, plans, past, begun>>
    BY DEF Repair!ScanLinks, Repair!Does
  <1>2. Scanning(j, Top, rows) /\ j # Repair!Idle /\ Top \in Entry
    BY <1>1, BusyWorks
  <1>3. j \in ScanCall /\ j.found \in SUBSET [row: Rows, sources: SUBSET Rows]
    BY <1>2 DEF Scanning, ScanCall
  <1>4. found \in SUBSET [row: Rows, sources: SUBSET Rows]
    BY <1>3 DEF Repair!Cites
  <1>5. RowsOf(found) = RowsOf(j.found) \cup new
    <2> HIDE DEF new
    <2> DEFINE more == {[row |-> e, sources |-> Repair!Cites(e)] : e \in new}
    <2>1. \A d \in more : d.row \in new
      OBVIOUS
    <2>2. \A e \in new : \E d \in more : d.row = e
      <3> SUFFICES ASSUME NEW e \in new PROVE \E d \in more : d.row = e
        OBVIOUS
      <3>1. [row |-> e, sources |-> Repair!Cites(e)] \in more
        OBVIOUS
      <3>2. QED
        BY <3>1
    <2> HIDE DEF more
    <2>3. RowsOf(more) = new
      BY <2>1, <2>2 DEF RowsOf
    <2>4. QED
      BY <2>3, RowsOfBoth DEF more
  <1>6. new \cap j.faulty = {} /\ new \subseteq Rows
    BY DEF Repair!Seen
  <1>7. \A e \in Rows : rows[e].links[f] > 0 => e \in RowsOf(j.found) \cup j.faulty \cup new
    BY DEF Repair!Seen, Repair!Cites, RowsOf
  <1> HIDE DEF found, new
  <1>8. /\ q \in ScanCall /\ q.step = "superseded" /\ q.now = f /\ q.found = found
        /\ q.id = j.id /\ q.faulty = j.faulty /\ q.scan = j.scan
    BY <1>3, <1>4 DEF ScanCall
  <1> HIDE DEF q
  <1>9. Scanning(q, Top, rows)
    BY <1>1, <1>2, <1>5, <1>6, <1>7, <1>8 DEF Scanning
  <1>10. QED
    BY <1>1, <1>2, <1>9, CallReads

\* rollback_repair: the dependents by replacement; after the last id the
\* worklist of the execution.
LEMMA ScanSupersededStep ==
    ASSUME NEW c \in Repairers, RepairInv(c), Repair!ScanSuperseded(c)
    PROVE  RepairInv(c)'
  <1> DEFINE j == job[c]
             new == {e \in Rows \ Repair!Seen(j) : rows[e].by = j.now}
             found == j.found \cup {[row |-> e, sources |-> {e}] : e \in new}
             kept == {d.row : d \in {y \in found : ~(y.sources \subseteq j.faulty)}}
             left == j.scan \ {j.now}
             q == [j EXCEPT !.step = "links", !.scan = left, !.found = found]
             r == [step |-> "execute", id |-> j.id, faulty |-> j.faulty,
                   tomb |-> j.faulty \cup ({d.row : d \in found} \ kept), keep |-> kept,
                   downed |-> {}, severed |-> {}, read |-> <<>>]
  <1>1. /\ j.step = "superseded" /\ UNCHANGED <<rows, plans, past, begun>>
        /\ left # {} => Repair!Go(c, q)
        /\ left = {} => Repair!Go(c, r)
    BY DEF Repair!ScanSuperseded, Repair!Does
  <1>2. Scanning(j, Top, rows) /\ j # Repair!Idle /\ Top \in Entry
    BY <1>1, BusyWorks
  <1>3. /\ j \in ScanCall /\ j.found \in SUBSET [row: Rows, sources: SUBSET Rows]
        /\ j.faulty \in SUBSET Rows /\ j.scan \in SUBSET Rows /\ j.id \in Nat
    BY <1>2 DEF Scanning, ScanCall
  <1>4. found \in SUBSET [row: Rows, sources: SUBSET Rows]
    BY <1>3
  <1>5. RowsOf(found) = RowsOf(j.found) \cup new
    <2> HIDE DEF new
    <2> DEFINE more == {[row |-> e, sources |-> {e}] : e \in new}
    <2>1. \A d \in more : d.row \in new
      OBVIOUS
    <2>2. \A e \in new : \E d \in more : d.row = e
      <3> SUFFICES ASSUME NEW e \in new PROVE \E d \in more : d.row = e
        OBVIOUS
      <3>1. [row |-> e, sources |-> {e}] \in more
        OBVIOUS
      <3>2. QED
        BY <3>1
    <2> HIDE DEF more
    <2>3. RowsOf(more) = new
      BY <2>1, <2>2 DEF RowsOf
    <2>4. QED
      BY <2>3, RowsOfBoth DEF more
  <1>6. new \cap j.faulty = {} /\ new \subseteq Rows
    BY DEF Repair!Seen
  <1>7. kept \subseteq RowsOf(found) /\ RowsOf(found) \subseteq Rows
    BY <1>4 DEF RowsOf
  <1>8. r.tomb = j.faulty \cup (RowsOf(found) \ kept)
    BY DEF RowsOf
  <1> HIDE DEF found, new, kept
  <1>9. RowsOf(found) \cap j.faulty = {}
    BY <1>2, <1>5, <1>6 DEF Scanning
  <1>10. \A e \in Rows \ Top.touched : \A f \in j.faulty :
            e \notin j.faulty /\ rows[e].links[f] > 0 /\ f \notin left => e \in RowsOf(found)
    BY <1>1, <1>2, <1>5 DEF Scanning
  <1>11. CASE left # {}
    <2>1. /\ q \in ScanCall /\ q.step = "links" /\ q.now = j.now /\ q.found = found
          /\ q.id = j.id /\ q.faulty = j.faulty /\ q.scan = left
      BY <1>3, <1>4 DEF ScanCall
    <2> HIDE DEF q, left
    <2>2. left \subseteq j.faulty
      BY <1>2 DEF Scanning, left
    <2>3. Scanning(q, Top, rows)
      BY <1>2, <1>9, <1>10, <2>1, <2>2 DEF Scanning
    <2>4. QED
      BY <1>1, <1>2, <1>11, <2>3, CallReads
  <1>12. CASE left = {}
    <2>1. r \in ExecuteCall
      BY <1>3, <1>7, <1>8 DEF ExecuteCall
    <2>2. /\ r.step = "execute" /\ r.id = j.id /\ r.faulty = j.faulty /\ r.keep = kept
          /\ r.downed = {} /\ r.severed = {}
      OBVIOUS
    <2>3. RowsOf(r.downed) = {} /\ RowsOf(r.severed) = {}
      BY <2>2 DEF RowsOf
    <2> HIDE DEF r
    <2>4. /\ Top.state = "running" /\ j.id = Top.id /\ j.faulty = Top.faulty
          /\ \A e \in Rows \ Top.touched : rows[e] = Top.before[e]
      BY <1>2 DEF Scanning
    <2>5. Covers(Top, RowsOf(r.downed) \cup r.tomb, RowsOf(r.severed) \cup r.keep)
      BY <1>8, <1>10, <1>12, <2>2, <2>3, <2>4 DEF Covers
    <2>6. \A e \in Rows \ Top.touched : Left(Top, r.downed, r.severed, e, rows[e])
      BY <2>3, <2>4 DEF Left
    <2>7. Recorded(Top, r.downed, r.severed)
      BY <2>2, <2>3 DEF Recorded
    <2>8. Executing(r, Top, rows)
      BY <1>7, <1>8, <1>9, <2>1, <2>2, <2>3, <2>4, <2>5, <2>6, <2>7 DEF Executing
    <2>9. QED
      BY <1>1, <1>2, <1>12, <2>8, CallReads
  <1>13. QED
    BY <1>11, <1>12

\* The status of a row, before it is quarantined.
LEMMA ReadStatusStep ==
    ASSUME NEW c \in Repairers, RepairInv(c), NEW e \in Rows, Repair!ReadStatus(c, e)
    PROVE  RepairInv(c)'
  <1> DEFINE j == job[c]
             d == [row |-> e, prior |-> rows[e].status]
             q == [j EXCEPT !.step = "quarantine", !.read = d]
  <1>1. /\ j.step = "execute" /\ e \in j.tomb /\ Repair!Go(c, q)
        /\ UNCHANGED <<rows, plans, past, begun>> /\ rows \in Table
    BY DEF Repair!ReadStatus, Repair!Does, RepairInv, RepairTyped
  <1>2. Executing(j, Top, rows) /\ j # Repair!Idle /\ Top \in Entry
    BY <1>1, BusyWorks
  <1>3. d \in Downing /\ d.row = e /\ d.prior = rows[e].status
    BY <1>1 DEF Downing, Table
  <1> HIDE DEF d
  <1>4. j \in ExecuteCall
    BY <1>2 DEF Executing
  <1>5. /\ q \in ExecuteCall /\ q.step = "quarantine" /\ q.read = d /\ q.id = j.id
        /\ q.faulty = j.faulty /\ q.tomb = j.tomb /\ q.keep = j.keep
        /\ q.downed = j.downed /\ q.severed = j.severed
    BY <1>3, <1>4 DEF ExecuteCall
  <1> HIDE DEF q
  <1>6. e \notin Top.touched => d.prior = Top.before[e].status
    BY <1>1, <1>2, <1>3 DEF Executing, Left
  <1>7. Executing(q, Top, rows)
    BY <1>1, <1>2, <1>3, <1>5, <1>6 DEF Executing
  <1>8. QED
    BY <1>1, <1>2, <1>7, CallReads

\* The links of a row, before the faulty ones are severed.
LEMMA ReadLinksStep ==
    ASSUME NEW c \in Repairers, RepairInv(c), NEW e \in Rows, Repair!ReadLinks(c, e)
    PROVE  RepairInv(c)'
  <1> DEFINE j == job[c]
             s == [row |-> e, links |-> rows[e].links]
             q == [j EXCEPT !.step = "sever", !.read = s]
  <1>1. /\ j.step = "execute" /\ e \in j.keep /\ Repair!Go(c, q)
        /\ UNCHANGED <<rows, plans, past, begun>> /\ rows \in Table
    BY DEF Repair!ReadLinks, Repair!Does, RepairInv, RepairTyped
  <1>2. Executing(j, Top, rows) /\ j # Repair!Idle /\ Top \in Entry
    BY <1>1, BusyWorks
  <1>3. s \in Cut /\ s.row = e /\ s.links = rows[e].links
    BY <1>1 DEF Cut, Table
  <1> HIDE DEF s
  <1>4. j \in ExecuteCall
    BY <1>2 DEF Executing
  <1>5. /\ q \in ExecuteCall /\ q.step = "sever" /\ q.read = s /\ q.id = j.id
        /\ q.faulty = j.faulty /\ q.tomb = j.tomb /\ q.keep = j.keep
        /\ q.downed = j.downed /\ q.severed = j.severed
    BY <1>3, <1>4 DEF ExecuteCall
  <1> HIDE DEF q
  <1>6. e \notin Top.touched => s.links = Top.before[e].links
    BY <1>1, <1>2, <1>3 DEF Executing, Left
  <1>7. Executing(q, Top, rows)
    BY <1>1, <1>2, <1>3, <1>5, <1>6 DEF Executing
  <1>8. QED
    BY <1>1, <1>2, <1>7, CallReads

\* A finished repair below one that is under way.
LEMMA BelowTop ==
    ASSUME NEW c \in Repairers, RepairInv(c), Len(past) > 0, Top.state # "done",
           NEW i \in DOMAIN past, past[i].state = "done", NEW e \in Rows \ past[i].touched
    PROVE  /\ e \notin Top.touched /\ past[i] \in Entry
           /\ Contained(past[i], e, rows[e]) /\ Contained(past[i], e, Top.before[e])
  <1>1. Len(past) \in DOMAIN past /\ i < Len(past) /\ past[i] \in Entry
    BY PastDomain DEF RepairInv, RepairTyped, Top
  <1>2. QED
    BY <1>1 DEF RepairInv, Stacked, Contains, Top

\* A row of the worklist is quarantined.
LEMMA QuarantineStep ==
    ASSUME NEW c \in Repairers, RepairInv(c), Repair!Quarantine(c)
    PROVE  RepairInv(c)'
  <1> DEFINE j == job[c]
             d == j.read
             q == [j EXCEPT !.step = "execute", !.tomb = @ \ {d.row},
                            !.downed = @ \cup {d}, !.read = <<>>]
  <1>1. /\ j.step = "quarantine" /\ rows \in Table /\ DOMAIN job = Repairers
        /\ rows' = [rows EXCEPT ![d.row].status = "quarantined"]
        /\ job' = [job EXCEPT ![c] = q] /\ UNCHANGED <<plans, past, begun>>
    BY DEF Repair!Quarantine, Repair!Does, Repair!Go, RepairInv, RepairTyped
  <1>2. Executing(j, Top, rows) /\ j # Repair!Idle /\ Top \in Entry /\ Len(past) > 0
    BY <1>1, BusyWorks
  <1>3. /\ j \in ExecuteCall /\ d \in Downing /\ d.row \in j.tomb /\ d.row \in Rows
        /\ d.row \notin Top.touched => d.prior = Top.before[d.row].status
    BY <1>1, <1>2 DEF Executing, Downing
  <1>4. /\ q \in ExecuteCall /\ q.step = "execute" /\ q.tomb = j.tomb \ {d.row}
        /\ q.downed = j.downed \cup {d} /\ q.id = j.id
        /\ q.faulty = j.faulty /\ q.keep = j.keep /\ q.severed = j.severed
    BY <1>3 DEF ExecuteCall
  <1>5. RowsOf(q.downed) = RowsOf(j.downed) \cup {d.row}
    <2> HIDE DEF q, d
    <2>1. RowsOf({d}) = {d.row} /\ RowsOf(j.downed \cup {d}) = RowsOf(j.downed) \cup RowsOf({d})
      BY RowsOfBoth, RowsOfOne
    <2>2. QED
      BY <1>4, <2>1
  <1>6. /\ rows' \in Table /\ \A e \in Rows : e # d.row => rows'[e] = rows[e]
        /\ rows'[d.row].status = "quarantined" /\ rows'[d.row].links = rows[d.row].links
        /\ rows'[d.row].by = rows[d.row].by
    BY <1>1, <1>3 DEF Table, Statuses
  <1>7. job'[c] = q /\ DOMAIN job' = Repairers
    BY <1>1
  <1> HIDE DEF d, q
  <1>8. Executing(q, Top, rows')
    <2>1. Recorded(Top, q.downed, q.severed)
      BY <1>2, <1>3, <1>4, <1>5 DEF Executing, Recorded
    <2>2. Covers(Top, RowsOf(q.downed) \cup q.tomb, RowsOf(q.severed) \cup q.keep)
      BY <1>2, <1>4, <1>5 DEF Executing, Covers
    <2>3. ASSUME NEW e \in Rows \ Top.touched
          PROVE  Left(Top, q.downed, q.severed, e, rows'[e])
      <3>1. Left(Top, j.downed, j.severed, e, rows[e])
        BY <1>2 DEF Executing
      <3>2. QED
        BY <1>4, <1>5, <1>6, <3>1 DEF Left
    <2>4. QED
      BY <1>2, <1>3, <1>4, <1>5, <2>1, <2>2, <2>3 DEF Executing
  <1>9. Works(job[c])' /\ q # Repair!Idle
    BY <1>1, <1>2, <1>4, <1>7, <1>8 DEF Works, Top, Repair!Idle
  <1>10. \A i \in DOMAIN past : past[i].state = "done" =>
            \A e \in Rows \ past[i].touched : Contained(past[i], e, rows'[e])
    BY <1>6 DEF RepairInv, Contains, Contained
  <1>11. QED
    BY <1>1, <1>2, <1>6, <1>7, <1>9, <1>10, CallGoesOn

\* What sever_faulty_edges keeps and removes.
LEMMA KeptFacts ==
    ASSUME NEW links \in [Rows -> Nat], NEW F \in SUBSET Rows
    PROVE  /\ Repair!Kept(links, F) \in [Rows -> Nat] /\ Repair!Removed(links, F) \in [Rows -> Nat]
           /\ \A t \in Rows : Repair!Kept(links, F)[t] = IF t \in F THEN 0 ELSE links[t]
           /\ \A t \in Rows : Repair!Removed(links, F)[t] = IF t \in F THEN links[t] ELSE 0
           /\ (\A t \in Rows : Repair!Removed(links, F)[t] = 0) => Repair!Kept(links, F) = links
  <1>1. /\ Repair!Kept(links, F) \in [Rows -> Nat] /\ Repair!Removed(links, F) \in [Rows -> Nat]
        /\ \A t \in Rows : Repair!Kept(links, F)[t] = IF t \in F THEN 0 ELSE links[t]
        /\ \A t \in Rows : Repair!Removed(links, F)[t] = IF t \in F THEN links[t] ELSE 0
    BY DEF Repair!Kept, Repair!Removed
  <1>2. ASSUME \A t \in Rows : Repair!Removed(links, F)[t] = 0
        PROVE  Repair!Kept(links, F) = links
    <2>1. \A t \in Rows : Repair!Kept(links, F)[t] = links[t]
      BY <1>1, <1>2
    <2>2. QED
      BY <1>1, <2>1
  <1>3. QED
    BY <1>1, <1>2

\* A row that is kept loses its links to the faulty ones.
LEMMA SeverStep ==
    ASSUME NEW c \in Repairers, RepairInv(c), Repair!Sever(c)
    PROVE  RepairInv(c)'
  <1> DEFINE j == job[c]
             r == j.read
             gone == Repair!Removed(r.links, j.faulty)
             s == [row |-> r.row, links |-> gone]
             q == [j EXCEPT !.step = "execute", !.keep = @ \ {r.row}, !.read = <<>>,
                            !.severed = @ \cup {s}]
  <1>1. /\ j.step = "sever" /\ rows \in Table /\ DOMAIN job = Repairers
        /\ rows' = IF \A t \in Rows : gone[t] = 0 THEN rows
                   ELSE [rows EXCEPT ![r.row].links = Repair!Kept(r.links, j.faulty)]
        /\ job' = [job EXCEPT ![c] = q] /\ UNCHANGED <<plans, past, begun>>
    BY DEF Repair!Sever, Repair!Does, Repair!Go, RepairInv, RepairTyped
  <1>2. Executing(j, Top, rows) /\ j # Repair!Idle /\ Top \in Entry /\ Len(past) > 0
    BY <1>1, BusyWorks
  <1>3. /\ j \in ExecuteCall /\ r \in Cut /\ r.row \in j.keep /\ r.row \in Rows
        /\ r.links \in [Rows -> Nat] /\ j.faulty \in SUBSET Rows /\ j.faulty = Top.faulty
        /\ r.row \notin Top.touched => r.links = Top.before[r.row].links
    BY <1>1, <1>2 DEF Executing, Cut, ExecuteCall
  <1>4. /\ gone \in [Rows -> Nat] /\ Repair!Kept(r.links, j.faulty) \in [Rows -> Nat]
        /\ (\A t \in Rows : gone[t] = 0) => Repair!Kept(r.links, j.faulty) = r.links
        /\ \A t \in Rows : Repair!Kept(r.links, j.faulty)[t] =
                                IF t \in j.faulty THEN 0 ELSE r.links[t]
    BY <1>3, KeptFacts
  <1>5. s \in Cut /\ s.row = r.row /\ s.links = gone
    BY <1>3, <1>4 DEF Cut
  <1> HIDE DEF s, gone
  <1>6. /\ q \in ExecuteCall /\ q.step = "execute" /\ q.keep = j.keep \ {r.row}
        /\ q.severed = j.severed \cup {s} /\ q.id = j.id
        /\ q.faulty = j.faulty /\ q.tomb = j.tomb /\ q.downed = j.downed
    BY <1>3, <1>5 DEF ExecuteCall
  <1>7. RowsOf(q.severed) = RowsOf(j.severed) \cup {r.row}
    <2> HIDE DEF q, r
    <2>1. RowsOf({s}) = {s.row} /\ RowsOf(j.severed \cup {s}) = RowsOf(j.severed) \cup RowsOf({s})
      BY RowsOfBoth, RowsOfOne
    <2>2. QED
      BY <1>5, <1>6, <2>1
  <1>8. job'[c] = q /\ DOMAIN job' = Repairers
    BY <1>1
  <1>9. ASSUME r.row \notin Top.touched PROVE rows[r.row].links = r.links
    <2>1. r.row \notin RowsOf(j.severed)
      BY <1>2, <1>3 DEF Executing
    <2>2. QED
      BY <1>2, <1>3, <1>9, <2>1 DEF Executing, Left
  <1>10. /\ rows' \in Table /\ \A e \in Rows : e # r.row => rows'[e] = rows[e]
         /\ rows'[r.row].status = rows[r.row].status /\ rows'[r.row].by = rows[r.row].by
         /\ r.row \notin Top.touched => rows'[r.row].links = Repair!Kept(r.links, j.faulty)
    <2>1. CASE \A t \in Rows : gone[t] = 0
      BY <1>1, <1>4, <1>9, <2>1
    <2>2. CASE ~ \A t \in Rows : gone[t] = 0
      <3>1. rows' = [rows EXCEPT ![r.row].links = Repair!Kept(r.links, j.faulty)]
        BY <1>1, <2>2
      <3>2. QED
        BY <1>1, <1>3, <1>4, <3>1 DEF Table
    <2>3. QED
      BY <2>1, <2>2
  <1> HIDE DEF q, r
  <1>11. Executing(q, Top, rows')
    <2>1. Recorded(Top, q.downed, q.severed)
      <3>1. r.row \notin RowsOf(j.downed)
        BY <1>2, <1>3 DEF Executing
      <3>2. r.row \notin Top.touched => gone = Repair!Removed(Top.before[r.row].links, Top.faulty)
        BY <1>3 DEF gone, r
      <3>3. Recorded(Top, j.downed, j.severed)
        BY <1>2 DEF Executing
      <3>4. ASSUME NEW y \in q.severed, y.row \notin Top.touched
            PROVE  y.links = Repair!Removed(Top.before[y.row].links, Top.faulty)
        <4>1. CASE y \in j.severed
          BY <3>3, <3>4, <4>1 DEF Recorded
        <4>2. CASE y = s
          BY <1>5, <3>2, <3>4, <4>2
        <4>3. QED
          BY <1>6, <4>1, <4>2
      <3>5. RowsOf(q.downed) \cap RowsOf(q.severed) = {}
        BY <1>6, <1>7, <3>1, <3>3 DEF Recorded
      <3>6. QED
        BY <1>6, <3>3, <3>4, <3>5 DEF Recorded
    <2>2. Covers(Top, RowsOf(q.downed) \cup q.tomb, RowsOf(q.severed) \cup q.keep)
      BY <1>2, <1>6, <1>7 DEF Executing, Covers
    <2>3. ASSUME NEW e \in Rows \ Top.touched
          PROVE  Left(Top, q.downed, q.severed, e, rows'[e])
      <3>1. Left(Top, j.downed, j.severed, e, rows[e])
        BY <1>2 DEF Executing
      <3>2. QED
        BY <1>3, <1>6, <1>7, <1>10, <3>1 DEF Left
    <2>4. QED
      BY <1>2, <1>3, <1>6, <1>7, <2>1, <2>2, <2>3 DEF Executing
  <1>12. Works(job[c])' /\ q # Repair!Idle
    BY <1>1, <1>2, <1>6, <1>8, <1>11 DEF Works, Top, Repair!Idle
  <1>13. ASSUME NEW i \in DOMAIN past, past[i].state = "done", NEW e \in Rows \ past[i].touched
         PROVE  Contained(past[i], e, rows'[e])
    <2>1. /\ e \notin Top.touched /\ past[i] \in Entry
          /\ Contained(past[i], e, rows[e])
      BY <1>2, <1>13, BelowTop DEF Executing
    <2>2. past[i].faulty \in SUBSET Rows
      BY <2>1 DEF Entry
    <2>3. rows'[e].status = rows[e].status /\ \A t \in Rows : rows[e].links[t] = 0 => rows'[e].links[t] = 0
      BY <1>3, <1>4, <1>9, <1>10, <2>1
    <2>4. QED
      BY <2>1, <2>2, <2>3 DEF Contained
  <1>14. QED
    BY <1>1, <1>2, <1>8, <1>10, <1>12, <1>13, CallGoesOn

\* The plan is stored: the repair is done, and its fault contained.
LEMMA StorePlanStep ==
    ASSUME NEW c \in Repairers, RepairInv(c), Repair!StorePlan(c)
    PROVE  RepairInv(c)'
  <1> DEFINE j == job[c]
             n == Len(past)
             p == [id |-> j.id, downed |-> j.downed, severed |-> j.severed]
  <1>1. /\ j.step = "execute" /\ j.tomb = {} /\ j.keep = {} /\ plans' = plans \cup {p}
        /\ Repair!Become(j.id, "done") /\ job' = [job EXCEPT ![c] = Repair!Idle]
        /\ UNCHANGED <<rows, begun>>
    BY DEF Repair!StorePlan, Repair!Does, Repair!Go
  <1>2. /\ rows \in Table /\ DOMAIN job = Repairers /\ past \in Seq(Entry) /\ begun \in Nat
        /\ plans \in SUBSET Plan /\ n \in Nat /\ DOMAIN past = 1 .. n
        /\ \A i \in DOMAIN past : i \in Nat /\ past[i] \in Entry
    BY PastDomain DEF RepairInv, RepairTyped
  <1>3. /\ Executing(j, Top, rows) /\ j # Repair!Idle /\ Top \in Entry /\ n > 0
        /\ n \in DOMAIN past /\ Top = past[n]
    BY <1>1, <1>2, BusyWorks DEF Top
  <1>4. /\ j \in ExecuteCall /\ j.id = Top.id /\ Top.state = "running"
        /\ Recorded(Top, j.downed, j.severed)
        /\ Covers(Top, RowsOf(j.downed), RowsOf(j.severed))
        /\ \A e \in Rows \ Top.touched : Left(Top, j.downed, j.severed, e, rows[e])
    BY <1>1, <1>3 DEF Executing
  <1>5. p \in Plan /\ p.id = Top.id /\ p.downed = j.downed /\ p.severed = j.severed
    BY <1>4 DEF Plan, ExecuteCall
  <1> HIDE DEF p
  <1>6. /\ past' \in Seq(Entry) /\ Len(past') = n /\ DOMAIN past' = DOMAIN past
        /\ \A i \in DOMAIN past : i # n => past'[i] = past[i]
        /\ Top' = [Top EXCEPT !.state = "done"] /\ Top' = past'[n]
    BY <1>1, <1>2, <1>3, <1>4, TopBecomes DEF RepairInv, Top
  <1>7. /\ Top'.state = "done" /\ Top'.id = Top.id /\ Top'.faulty = Top.faulty
        /\ Top'.before = Top.before /\ Top'.touched = Top.touched
    BY <1>3, <1>6 DEF Entry
  <1>8. \A i \in DOMAIN past : past'[i].id = past[i].id /\ past'[i].touched = past[i].touched
                               /\ past'[i].before = past[i].before
    BY <1>3, <1>6, <1>7
  <1>9. job'[c] = Repair!Idle /\ DOMAIN job' = Repairers
    BY <1>1, <1>2
  <1>10. \A q \in plans : q.id # Top.id
    BY <1>3, <1>4 DEF RepairInv, Planned
  <1>11. RepairTyped'
    BY <1>1, <1>2, <1>5, <1>6, <1>9 DEF RepairTyped
  <1>12. Resting(job[c])'
    BY <1>7, <1>9 DEF Resting
  <1>13. Stacked'
    <2>1. Top.id <= begun
      BY <1>3 DEF RepairInv, Stacked
    <2>2. \A q, r \in plans' : q.id <= begun /\ (q.id = r.id => q = r)
      BY <1>1, <1>5, <1>10, <2>1 DEF RepairInv, Stacked
    <2>3. \A i \in DOMAIN past' : past'[i].id <= begun'
      BY <1>1, <1>6, <1>8 DEF RepairInv, Stacked
    <2>4. \A i, k \in DOMAIN past' : i < k =>
            /\ past'[i].state # "running" /\ past'[i].id < past'[k].id
            /\ past'[k].touched \subseteq past'[i].touched
      BY <1>2, <1>6, <1>8 DEF RepairInv, Stacked
    <2>5. QED
      BY <1>1, <2>2, <2>3, <2>4 DEF Stacked
  <1>14. Planned(job[c])'
    <2> SUFFICES ASSUME NEW q \in plans', NEW i \in DOMAIN past, q.id = past'[i].id
                 PROVE  /\ past'[i].state # "running"
                        /\ Recorded(past'[i], q.downed, q.severed)
                        /\ \A e \in Rows \ past'[i].touched :
                                /\ past'[i].state = "done" =>
                                        Left(past'[i], q.downed, q.severed, e, Found(i, e)')
                                /\ past'[i].state = "reversing" =>
                                        Half(past'[i], q.downed, q.severed, e, Found(i, e)')
      BY <1>6, <1>9 DEF Planned
    <2>1. \A e \in Rows : Found(i, e)' = Found(i, e)
      <3>1. i # n => i + 1 \in DOMAIN past
        BY <1>2
      <3>2. QED
        BY <1>1, <1>6, <1>8, <3>1 DEF Found
    <2>2. CASE i = n
      <3>1. q = p
        BY <1>1, <1>3, <1>8, <1>10, <2>2
      <3>2. Recorded(Top', p.downed, p.severed)
        BY <1>4, <1>5, <1>7 DEF Recorded
      <3>3. \A e \in Rows \ Top'.touched : Left(Top', p.downed, p.severed, e, rows[e])
        BY <1>4, <1>5, <1>7 DEF Left
      <3>4. \A e \in Rows : Found(i, e) = rows[e]
        BY <2>2 DEF Found
      <3>5. past'[i] = Top'
        BY <1>6, <2>2
      <3>6. Top'.state # "running" /\ Top'.state # "reversing"
        BY <1>7
      <3>7. QED
        BY <2>1, <3>1, <3>2, <3>3, <3>4, <3>5, <3>6
    <2>3. CASE i # n
      <3>1. /\ past'[i] = past[i] /\ i < n
            /\ q \in plans
        <4>1. past[i].id # Top.id
          BY <1>2, <1>3, <2>3 DEF RepairInv, Stacked, Entry
        <4>2. QED
          BY <1>1, <1>2, <1>5, <1>6, <2>3, <4>1
      <3>2. QED
        BY <2>1, <3>1 DEF RepairInv, Planned
    <2>4. QED
      BY <2>2, <2>3
  <1>15. Contains'
    <2> SUFFICES ASSUME NEW i \in DOMAIN past, past'[i].state = "done",
                        NEW e \in Rows \ past'[i].touched
                 PROVE  /\ Contained(past'[i], e, rows[e])
                        /\ \A k \in DOMAIN past : i < k => Contained(past'[i], e, past'[k].before[e])
      BY <1>1, <1>6 DEF Contains
    <2>1. CASE i = n
      <3>1. /\ e \in Top.faulty => e \in RowsOf(j.downed)
            /\ \A f \in Top.faulty :
                    Top.before[e].links[f] > 0 => e \in RowsOf(j.downed) \cup RowsOf(j.severed)
            /\ Left(Top, j.downed, j.severed, e, rows[e])
        BY <1>4, <1>6, <1>7, <2>1 DEF Covers
      <3>2. /\ Top.faulty \in SUBSET Rows /\ Top.before[e].links \in [Rows -> Nat]
        BY <1>3 DEF Entry, Table
      <3>3. ASSUME rows[e].status = "active"
            PROVE  e \notin Top.faulty /\ \A f \in Top.faulty : rows[e].links[f] = 0
        <4>1. e \notin RowsOf(j.downed)
          BY <3>1, <3>3 DEF Left
        <4>2. CASE e \in RowsOf(j.severed)
          <5>1. rows[e].links = Repair!Kept(Top.before[e].links, Top.faulty)
            BY <3>1, <4>2 DEF Left
          <5>2. QED
            BY <3>1, <3>2, <4>1, <5>1, KeptFacts
        <4>3. CASE e \notin RowsOf(j.severed)
          <5>1. rows[e].links = Top.before[e].links
            BY <3>1, <4>3 DEF Left
          <5>2. \A f \in Top.faulty : ~(Top.before[e].links[f] > 0) /\ Top.before[e].links[f] \in Nat
            BY <3>1, <3>2, <4>1, <4>3
          <5>3. QED
            BY <3>1, <4>1, <5>1, <5>2
        <4>4. QED
          BY <4>2, <4>3
      <3>4. past'[i] = Top' /\ \A k \in DOMAIN past : ~(i < k)
        BY <1>2, <1>6, <2>1
      <3>5. Contained(Top', e, rows[e])
        BY <1>7, <3>3 DEF Contained
      <3>6. QED
        BY <3>4, <3>5
    <2>2. CASE i # n
      <3>1. past'[i] = past[i]
        BY <1>6, <2>2
      <3>2. QED
        BY <1>8, <3>1 DEF RepairInv, Contains
    <2>3. QED
      BY <2>1, <2>2
  <1>16. QED
    BY <1>11, <1>12, <1>13, <1>14, <1>15 DEF RepairInv

\* reverse_rollback_repair begins, with the plan of the last repair.
LEMMA ReverseStep ==
    ASSUME NEW c \in Repairers, RepairInv(c), InOrder, NEW p \in plans, Repair!Reverse(c, p)
    PROVE  RepairInv(c)'
  <1> DEFINE j == [step |-> "restore", id |-> p.id, up |-> p.downed, relink |-> p.severed,
                   read |-> <<>>]
             n == Len(past)
  <1>1. /\ job[c].step = "idle" /\ Repair!Known(p.id) /\ Repair!Index(p.id) = n
        /\ Repair!Become(p.id, "reversing") /\ job' = [job EXCEPT ![c] = j]
        /\ UNCHANGED <<rows, plans, begun>>
    BY DEF Repair!Reverse, Repair!Does, Repair!Go
  <1>2. /\ rows \in Table /\ DOMAIN job = Repairers /\ past \in Seq(Entry) /\ begun \in Nat
        /\ plans \in SUBSET Plan /\ n \in Nat /\ DOMAIN past = 1 .. n
        /\ \A i \in DOMAIN past : i \in Nat /\ past[i] \in Entry
    BY PastDomain DEF RepairInv, RepairTyped
  <1>3. n \in DOMAIN past /\ past[n].id = p.id /\ n > 0 /\ Top = past[n]
    BY <1>1, <1>2 DEF Repair!Known, Repair!Index, Top
  <1>4. job[c] = Repair!Idle /\ Top.state # "running" /\ Top \in Entry /\ p \in Plan
    BY <1>1, <1>2, <1>3, IdleRests DEF Resting
  <1>5. /\ past' \in Seq(Entry) /\ Len(past') = n /\ DOMAIN past' = DOMAIN past
        /\ \A i \in DOMAIN past : i # n => past'[i] = past[i]
        /\ Top' = [Top EXCEPT !.state = "reversing"] /\ Top' = past'[n]
    BY <1>1, <1>2, <1>3, <1>4, TopBecomes DEF RepairInv, Top
  <1>6. /\ Top'.state = "reversing" /\ Top'.id = Top.id /\ Top'.faulty = Top.faulty
        /\ Top'.before = Top.before /\ Top'.touched = Top.touched
    BY <1>4, <1>5 DEF Entry
  <1>7. \A i \in DOMAIN past : past'[i].id = past[i].id /\ past'[i].touched = past[i].touched
                               /\ past'[i].before = past[i].before
    BY <1>3, <1>5, <1>6
  <1>8. /\ j \in ReverseCall /\ j.step = "restore" /\ j.id = p.id /\ j.up = p.downed
        /\ j.relink = p.severed
    BY <1>4 DEF ReverseCall, Plan
  <1> HIDE DEF j
  <1>9. job'[c] = j /\ DOMAIN job' = Repairers /\ j # Repair!Idle
    BY <1>1, <1>2, <1>8 DEF Repair!Idle
  <1>10. RepairTyped'
    BY <1>1, <1>2, <1>5, <1>9 DEF RepairTyped
  <1>11. Recorded(Top, p.downed, p.severed)
    BY <1>3, <1>4 DEF RepairInv, Planned
  <1>12. Works(job[c])'
    <2>1. ASSUME NEW e \in Rows \ Top.touched
          PROVE  /\ rows[e].by = Top.before[e].by
                 /\ rows[e].status = Top.before[e].status \/ e \in RowsOf(p.downed)
                 /\ rows[e].links = IF e \in RowsOf(p.severed)
                                    THEN Repair!Kept(Top.before[e].links, Top.faulty)
                                    ELSE Top.before[e].links
      <3>1. Found(n, e) = rows[e]
        BY DEF Found
      <3>2. \/ Left(Top, p.downed, p.severed, e, rows[e])
            \/ Half(Top, p.downed, p.severed, e, rows[e])
        BY <1>3, <1>4, <3>1 DEF RepairInv, Planned, Entry
      <3>3. QED
        BY <3>2 DEF Left, Half
    <2>2. Reversing(j, Top', p, rows')
      BY <1>1, <1>3, <1>6, <1>8, <2>1 DEF Reversing
    <2>3. QED
      BY <1>1, <1>3, <1>5, <1>9, <2>2 DEF Works
  <1>13. Stacked'
    <2>1. \A i \in DOMAIN past' : past'[i].id <= begun'
      BY <1>1, <1>5, <1>7 DEF RepairInv, Stacked
    <2>2. \A i, k \in DOMAIN past' : i < k =>
            /\ past'[i].state # "running" /\ past'[i].id < past'[k].id
            /\ past'[k].touched \subseteq past'[i].touched
      BY <1>2, <1>5, <1>7 DEF RepairInv, Stacked
    <2>3. QED
      BY <1>1, <2>1, <2>2 DEF RepairInv, Stacked
  <1>14. Planned(job[c])'
    <2> SUFFICES ASSUME NEW q \in plans, NEW i \in DOMAIN past, q.id = past'[i].id
                 PROVE  /\ past'[i].state # "running"
                        /\ Recorded(past'[i], q.downed, q.severed)
                        /\ i = n => past'[i].state = "reversing"
                        /\ i < n => \A e \in Rows \ past'[i].touched :
                                /\ past'[i].state = "done" =>
                                        Left(past'[i], q.downed, q.severed, e, Found(i, e)')
                                /\ past'[i].state = "reversing" =>
                                        Half(past'[i], q.downed, q.severed, e, Found(i, e)')
      BY <1>1, <1>5, <1>9 DEF Planned
    <2>1. CASE i = n
      <3>1. Recorded(Top, q.downed, q.severed)
        BY <1>3, <1>7, <2>1 DEF RepairInv, Planned
      <3>2. Recorded(Top', q.downed, q.severed)
        BY <1>6, <3>1 DEF Recorded
      <3>3. past'[i] = Top' /\ ~(i < n)
        BY <1>2, <1>5, <2>1
      <3>4. Top'.state # "running" /\ Top'.state = "reversing"
        BY <1>6
      <3>5. QED
        BY <3>2, <3>3, <3>4
    <2>2. CASE i # n
      <3>1. past'[i] = past[i] /\ i < n /\ i + 1 \in DOMAIN past
        BY <1>2, <1>5, <2>2
      <3>2. \A e \in Rows : Found(i, e)' = Found(i, e)
        BY <1>5, <1>7, <2>2, <3>1 DEF Found
      <3>3. QED
        BY <2>2, <3>1, <3>2 DEF RepairInv, Planned
    <2>3. QED
      BY <2>1, <2>2
  <1>15. Contains'
    <2> SUFFICES ASSUME NEW i \in DOMAIN past, past'[i].state = "done",
                        NEW e \in Rows \ past'[i].touched
                 PROVE  /\ Contained(past'[i], e, rows[e])
                        /\ \A k \in DOMAIN past : i < k => Contained(past'[i], e, past'[k].before[e])
      BY <1>1, <1>5 DEF Contains
    <2>1. i # n /\ past'[i] = past[i]
      BY <1>5, <1>6
    <2>2. QED
      BY <1>7, <2>1 DEF RepairInv, Contains
  <1>16. QED
    BY <1>10, <1>12, <1>13, <1>14, <1>15 DEF RepairInv

\* A status is restored.
LEMMA RestoreStep ==
    ASSUME NEW c \in Repairers, RepairInv(c), NEW d \in job[c].up, Repair!Restore(c, d)
    PROVE  RepairInv(c)'
  <1> DEFINE j == job[c]
             q == [j EXCEPT !.up = @ \ {d}]
  <1>1. /\ j.step = "restore" /\ d \in j.up /\ rows' = [rows EXCEPT ![d.row].status = d.prior]
        /\ job' = [job EXCEPT ![c] = q] /\ UNCHANGED <<plans, past, begun>>
        /\ rows \in Table /\ DOMAIN job = Repairers /\ plans \in SUBSET Plan
    BY DEF Repair!Restore, Repair!Does, Repair!Go, RepairInv, RepairTyped
  <1>2. j # Repair!Idle /\ Top \in Entry /\ Len(past) > 0
    BY <1>1, BusyWorks
  <1>3. PICK p \in plans : Reversing(j, Top, p, rows)
    BY <1>1, BusyWorks
  <1>4. /\ j \in ReverseCall /\ d \in p.downed /\ d \in Downing /\ d.row \in Rows
        /\ d.prior \in Statuses
    BY <1>1, <1>3 DEF Reversing, Plan, Downing
  <1>5. /\ q \in ReverseCall /\ q.step = "restore" /\ q.up = j.up \ {d} /\ q.id = j.id
        /\ q.relink = j.relink
    BY <1>1, <1>4 DEF ReverseCall
  <1>6. \A e \in Rows : e \in RowsOf(j.up) /\ e # d.row => e \in RowsOf(q.up)
    BY <1>5 DEF RowsOf
  <1>7. /\ rows' \in Table /\ \A e \in Rows : e # d.row => rows'[e] = rows[e]
        /\ rows'[d.row].status = d.prior /\ rows'[d.row].links = rows[d.row].links
        /\ rows'[d.row].by = rows[d.row].by
    BY <1>1, <1>4 DEF Table
  <1>8. job'[c] = q /\ DOMAIN job' = Repairers
    BY <1>1
  <1> HIDE DEF q
  <1>9. d.row \notin Top.touched => d.prior = Top.before[d.row].status
    <2>1. Recorded(Top, p.downed, p.severed)
      BY <1>2, <1>3, PastDomain DEF Reversing, RepairInv, RepairTyped, Planned, Top
    <2>2. QED
      BY <1>4, <2>1 DEF Recorded
  <1>10. Reversing(q, Top, p, rows')
    BY <1>1, <1>3, <1>5, <1>6, <1>7, <1>9 DEF Reversing
  <1>11. Works(job[c])' /\ q # Repair!Idle
    <2>1. Top' = Top /\ Len(past') > 0 /\ p \in plans'
      BY <1>1, <1>2 DEF Top
    <2>2. Reversing(job'[c], Top', p, rows')
      BY <1>8, <1>10, <2>1
    <2>3. QED
      BY <1>5, <2>1, <2>2 DEF Works, Repair!Idle
  <1>12. ASSUME NEW i \in DOMAIN past, past[i].state = "done", NEW e \in Rows \ past[i].touched
         PROVE  Contained(past[i], e, rows'[e])
    <2>1. /\ e \notin Top.touched /\ past[i] \in Entry
          /\ Contained(past[i], e, rows[e]) /\ Contained(past[i], e, Top.before[e])
      BY <1>2, <1>3, <1>12, BelowTop DEF Reversing
    <2>2. CASE e # d.row
      BY <1>7, <2>1, <2>2
    <2>3. CASE e = d.row
      <3>1. rows'[e].status = Top.before[e].status /\ rows'[e].links = rows[e].links
        BY <1>7, <1>9, <2>1, <2>3
      <3>2. \/ rows[e].links = Repair!Kept(Top.before[e].links, Top.faulty)
            \/ rows[e].links = Top.before[e].links
        BY <1>1, <1>3, <2>1 DEF Reversing
      <3>3. /\ Top.before[e].links \in [Rows -> Nat] /\ Top.faulty \in SUBSET Rows
            /\ past[i].faulty \in SUBSET Rows
        BY <1>2, <2>1 DEF Entry, Table
      <3>4. \A t \in Rows : Top.before[e].links[t] = 0 => rows[e].links[t] = 0
        BY <3>2, <3>3, KeptFacts
      <3>5. QED
        BY <2>1, <3>1, <3>3, <3>4 DEF Contained
    <2>4. QED
      BY <2>2, <2>3
  <1>13. QED
    BY <1>1, <1>2, <1>7, <1>8, <1>11, <1>12, CallGoesOn

\* What was severed makes the links whole again.
LEMMA KeptAndRemoved ==
    ASSUME NEW links \in [Rows -> Nat], NEW F \in SUBSET Rows
    PROVE  [t \in Rows |-> Repair!Kept(links, F)[t] + Repair!Removed(links, F)[t]] = links
  <1>1. \A t \in Rows : Repair!Kept(links, F)[t] + Repair!Removed(links, F)[t] = links[t]
    BY KeptFacts
  <1>2. QED
    BY <1>1

\* The links of a row, before the severed ones are added.
LEMMA ReadBackStep ==
    ASSUME NEW c \in Repairers, RepairInv(c), NEW s \in job[c].relink, Repair!ReadBack(c, s)
    PROVE  RepairInv(c)'
  <1> DEFINE j == job[c]
             sum == [t \in Rows |-> rows[s.row].links[t] + s.links[t]]
             r == [row |-> s.row, links |-> sum]
             q == [j EXCEPT !.step = "relink", !.relink = @ \ {s}, !.read = r]
  <1>1. /\ j.step = "restore" /\ j.up = {} /\ s \in j.relink /\ Repair!Go(c, q)
        /\ UNCHANGED <<rows, plans, past, begun>>
        /\ rows \in Table /\ plans \in SUBSET Plan
    BY DEF Repair!ReadBack, Repair!Does, RepairInv, RepairTyped
  <1>2. j # Repair!Idle /\ Top \in Entry /\ Len(past) > 0
    BY <1>1, BusyWorks
  <1>3. PICK p \in plans : Reversing(j, Top, p, rows)
    BY <1>1, BusyWorks
  <1>4. /\ j \in ReverseCall /\ s \in p.severed /\ s \in Cut /\ s.row \in Rows
        /\ s.links \in [Rows -> Nat] /\ j.relink \subseteq p.severed /\ p.severed \subseteq Cut
    BY <1>1, <1>3 DEF Reversing, Plan, Cut
  <1>5. sum \in [Rows -> Nat]
    BY <1>1, <1>4 DEF Table
  <1>6. s.row \in RowsOf(j.relink) /\ s.row \in RowsOf(p.severed)
    BY <1>1, <1>4 DEF RowsOf
  <1>7. Recorded(Top, p.downed, p.severed)
    BY <1>2, <1>3, PastDomain DEF Reversing, RepairInv, RepairTyped, Planned, Top
  <1>8. ASSUME s.row \notin Top.touched
        PROVE  sum = Top.before[s.row].links /\ s.row \notin RowsOf(j.relink \ {s})
    <2>1. /\ s.links = Repair!Removed(Top.before[s.row].links, Top.faulty)
          /\ \A y \in j.relink : y.row = s.row => y.links = s.links
      BY <1>4, <1>7, <1>8 DEF Recorded
    <2>2. rows[s.row].links = Repair!Kept(Top.before[s.row].links, Top.faulty)
      BY <1>1, <1>3, <1>4, <1>6, <1>8 DEF Reversing
    <2>3. Top.before[s.row].links \in [Rows -> Nat] /\ Top.faulty \in SUBSET Rows
      BY <1>2, <1>4 DEF Entry, Table
    <2>4. sum = Top.before[s.row].links
      BY <2>1, <2>2, <2>3, KeptAndRemoved
    <2>5. \A y \in j.relink : y.row = s.row => y = s
      BY <1>4, <2>1 DEF Cut
    <2>6. QED
      BY <2>4, <2>5 DEF RowsOf
  <1>9. \A e \in Rows : e # s.row => (e \in RowsOf(j.relink) <=> e \in RowsOf(j.relink \ {s}))
    BY DEF RowsOf
  <1> HIDE DEF sum
  <1>10. r \in Cut /\ r.row = s.row /\ r.links = sum
    BY <1>4, <1>5 DEF Cut
  <1> HIDE DEF r
  <1>11. /\ q \in ReverseCall /\ q.step = "relink" /\ q.relink = j.relink \ {s} /\ q.read = r
         /\ q.id = j.id /\ q.up = j.up
    BY <1>1, <1>4, <1>10 DEF ReverseCall
  <1> HIDE DEF q
  <1>12. Reversing(q, Top, p, rows)
    BY <1>1, <1>3, <1>6, <1>8, <1>9, <1>10, <1>11 DEF Reversing
  <1>13. QED
    BY <1>1, <1>2, <1>12, CallReads

\* The severed links are written back.
LEMMA RelinkStep ==
    ASSUME NEW c \in Repairers, RepairInv(c), Repair!Relink(c)
    PROVE  RepairInv(c)'
  <1> DEFINE j == job[c]
             r == j.read
             q == [j EXCEPT !.step = "restore", !.read = <<>>]
  <1>1. /\ j.step = "relink" /\ rows' = [rows EXCEPT ![r.row].links = r.links]
        /\ job' = [job EXCEPT ![c] = q] /\ UNCHANGED <<plans, past, begun>>
        /\ rows \in Table /\ DOMAIN job = Repairers /\ plans \in SUBSET Plan
    BY DEF Repair!Relink, Repair!Does, Repair!Go, RepairInv, RepairTyped
  <1>2. j # Repair!Idle /\ Top \in Entry /\ Len(past) > 0
    BY <1>1, BusyWorks
  <1>3. PICK p \in plans : Reversing(j, Top, p, rows)
    BY <1>1, BusyWorks
  <1>4. /\ j \in ReverseCall /\ r \in Cut /\ r.row \in Rows /\ r.links \in [Rows -> Nat]
        /\ j.up = {}
        /\ r.row \notin Top.touched =>
                r.links = Top.before[r.row].links /\ r.row \notin RowsOf(j.relink)
    BY <1>1, <1>3 DEF Reversing, Cut
  <1>5. /\ q \in ReverseCall /\ q.step = "restore" /\ q.id = j.id /\ q.up = j.up
        /\ q.relink = j.relink
    BY <1>4 DEF ReverseCall
  <1>6. /\ rows' \in Table /\ \A e \in Rows : e # r.row => rows'[e] = rows[e]
        /\ rows'[r.row].status = rows[r.row].status /\ rows'[r.row].by = rows[r.row].by
        /\ rows'[r.row].links = r.links
    BY <1>1, <1>4 DEF Table
  <1>7. job'[c] = q /\ DOMAIN job' = Repairers
    BY <1>1
  <1> HIDE DEF q, r
  <1>8. Reversing(q, Top, p, rows')
    BY <1>1, <1>3, <1>4, <1>5, <1>6 DEF Reversing, r
  <1>9. Works(job[c])' /\ q # Repair!Idle
    <2>1. Top' = Top /\ Len(past') > 0 /\ p \in plans'
      BY <1>1, <1>2 DEF Top
    <2>2. Reversing(job'[c], Top', p, rows')
      BY <1>7, <1>8, <2>1
    <2>3. QED
      BY <1>5, <2>1, <2>2 DEF Works, Repair!Idle
  <1>10. ASSUME NEW i \in DOMAIN past, past[i].state = "done", NEW e \in Rows \ past[i].touched
         PROVE  Contained(past[i], e, rows'[e])
    <2>1. /\ e \notin Top.touched /\ past[i] \in Entry
          /\ Contained(past[i], e, rows[e]) /\ Contained(past[i], e, Top.before[e])
      BY <1>2, <1>3, <1>10, BelowTop DEF Reversing
    <2>2. CASE e # r.row
      BY <1>6, <2>1, <2>2
    <2>3. CASE e = r.row
      <3>1. e \notin RowsOf(j.up)
        BY <1>4 DEF RowsOf
      <3>2. rows'[e].status = Top.before[e].status /\ rows'[e].links = Top.before[e].links
        BY <1>3, <1>4, <1>6, <2>1, <2>3, <3>1 DEF Reversing
      <3>3. QED
        BY <2>1, <3>2 DEF Contained
    <2>4. QED
      BY <2>2, <2>3
  <1>11. QED
    BY <1>1, <1>2, <1>6, <1>7, <1>9, <1>10, CallGoesOn

\* The last repair is gone: where neither it nor T is in the way, the rows are
\* as it found them.
LEMMA PopStep ==
    ASSUME NEW c \in Repairers, RepairInv(c), Len(past) > 0, NEW T \in SUBSET Rows,
           past' = Repair!Touch(Repair!Without(Top.id), T), UNCHANGED <<rows, begun>>,
           plans' \subseteq plans, job'[c] = Repair!Idle, DOMAIN job' = Repairers,
           \A e \in Rows \ (Top.touched \cup T) : rows[e] = Top.before[e]
    PROVE  RepairInv(c)'
  <1> DEFINE n == Len(past)
             m == n - 1
  <1>1. /\ past \in Seq(Entry) /\ rows \in Table /\ plans \in SUBSET Plan /\ begun \in Nat
        /\ n \in Nat /\ DOMAIN past = 1 .. n /\ m \in Nat /\ n \in DOMAIN past /\ Top = past[n]
        /\ \A i \in DOMAIN past : i \in Nat /\ past[i] \in Entry
    BY PastDomain DEF RepairInv, RepairTyped, Top
  <1>2. /\ Repair!Without(Top.id) \in Seq(Entry) /\ Len(Repair!Without(Top.id)) = m
        /\ DOMAIN Repair!Without(Top.id) = 1 .. m
        /\ \A i \in 1 .. m : Repair!Without(Top.id)[i] = past[i]
    BY <1>1, WithoutTop DEF RepairInv
  <1>3. /\ past' \in Seq(Entry) /\ Len(past') = m /\ DOMAIN past' = 1 .. m
        /\ \A i \in 1 .. m : past'[i] = Touched(past[i], T)
    BY <1>2, TouchFacts
  <1>4. /\ \A i \in 1 .. m : /\ i \in 1 .. n /\ i + 1 \in 1 .. n /\ i < n /\ i # n
                             /\ i # m => i + 1 \in 1 .. m
        /\ m + 1 = n /\ (m > 0 => m \in 1 .. m)
    <2>1. n \in Nat /\ m = n - 1 /\ m \in Nat
      BY <1>1
    <2> HIDE DEF n, m
    <2>2. QED
      BY <2>1
  <1> HIDE DEF m, n
  <1>5. ASSUME NEW i \in 1 .. m
        PROVE  /\ i \in DOMAIN past /\ i + 1 \in DOMAIN past /\ past[i] \in Entry
               /\ past'[i] = Touched(past[i], T)
               /\ past'[i].touched = past[i].touched \cup T /\ past'[i].id = past[i].id
               /\ past'[i].before = past[i].before /\ past'[i].state = past[i].state
    <2>1. i \in DOMAIN past /\ i + 1 \in DOMAIN past /\ past[i] \in Entry
      BY <1>1, <1>4
    <2>2. past'[i] = Touched(past[i], T)
      BY <1>3
    <2>3. QED
      BY <2>1, <2>2, TouchedEntry
  <1>6. RepairTyped'
    BY <1>1, <1>3 DEF RepairTyped
  <1>7. Resting(job[c])'
    <2>1. ASSUME Len(past') > 0 PROVE Top'.state # "running"
      <3>1. m \in 1 .. m /\ Top' = past'[m]
        BY <1>3, <1>4, <2>1 DEF Top
      <3>2. past[m].state # "running"
        BY <1>1, <1>4, <1>5, <3>1 DEF RepairInv, Stacked
      <3>3. QED
        BY <1>5, <3>1, <3>2
    <2>2. QED
      BY <2>1 DEF Resting
  <1>8. Stacked'
    <2>1. \A i \in DOMAIN past' : past'[i].id <= begun'
      BY <1>3, <1>4, <1>5 DEF RepairInv, Stacked
    <2>2. \A i, k \in DOMAIN past' : i < k =>
            /\ past'[i].state # "running" /\ past'[i].id < past'[k].id
            /\ past'[k].touched \subseteq past'[i].touched
      <3> SUFFICES ASSUME NEW i \in 1 .. m, NEW k \in 1 .. m, i < k
                   PROVE  /\ past'[i].state # "running" /\ past'[i].id < past'[k].id
                          /\ past'[k].touched \subseteq past'[i].touched
        BY <1>3
      <3>1. /\ past[i].state # "running" /\ past[i].id < past[k].id
            /\ past[k].touched \subseteq past[i].touched
        BY <1>5 DEF RepairInv, Stacked
      <3>2. QED
        BY <1>5, <3>1
    <2>3. \A p, q \in plans' : p.id <= begun' /\ (p.id = q.id => p = q)
      BY DEF RepairInv, Stacked
    <2>4. QED
      BY <2>1, <2>2, <2>3 DEF Stacked
  <1>9. ASSUME NEW i \in 1 .. m, NEW e \in Rows \ (past[i].touched \cup T)
        PROVE  Found(i, e)' = Found(i, e)
    <2>1. CASE i = m
      <3>1. e \notin Top.touched
        BY <1>1, <1>4, <1>5 DEF RepairInv, Stacked
      <3>2. Found(i, e)' = rows[e] /\ Found(i, e) = Top.before[e]
        BY <1>1, <1>3, <1>4, <2>1 DEF Found, n
      <3>3. QED
        BY <3>1, <3>2
    <2>2. CASE i # m
      <3>1. i + 1 \in 1 .. m /\ i # n
        BY <1>4, <2>2
      <3>2. QED
        BY <1>3, <1>5, <2>2, <3>1 DEF Found, n
    <2>3. QED
      BY <2>1, <2>2
  <1>10. Planned(job[c])'
    <2> SUFFICES ASSUME NEW p \in plans, NEW i \in 1 .. m, p.id = past[i].id
                 PROVE  /\ past'[i].state # "running"
                        /\ Recorded(past'[i], p.downed, p.severed)
                        /\ \A e \in Rows \ past'[i].touched :
                                /\ past'[i].state = "done" =>
                                        Left(past'[i], p.downed, p.severed, e, Found(i, e)')
                                /\ past'[i].state = "reversing" =>
                                        Half(past'[i], p.downed, p.severed, e, Found(i, e)')
      BY <1>3, <1>5 DEF Planned
    <2>1. /\ past[i].state # "running" /\ Recorded(past[i], p.downed, p.severed)
          /\ \A e \in Rows \ past[i].touched :
                /\ past[i].state = "done" => Left(past[i], p.downed, p.severed, e, Found(i, e))
                /\ past[i].state = "reversing" => Half(past[i], p.downed, p.severed, e, Found(i, e))
      BY <1>4, <1>5 DEF RepairInv, Planned, n
    <2>2. Recorded(past'[i], p.downed, p.severed)
      BY <1>1, <1>5, <2>1, TouchKeeps
    <2>3. ASSUME NEW e \in Rows \ past'[i].touched
          PROVE  /\ past'[i].state = "done" =>
                        Left(past'[i], p.downed, p.severed, e, Found(i, e)')
                 /\ past'[i].state = "reversing" =>
                        Half(past'[i], p.downed, p.severed, e, Found(i, e)')
      <3>1. e \in Rows \ past[i].touched /\ Found(i, e)' = Found(i, e)
        BY <1>5, <1>9
      <3>2. QED
        BY <1>1, <1>5, <2>1, <3>1, TouchKeeps
    <2>4. QED
      BY <1>5, <2>1, <2>2, <2>3
  <1>11. Contains'
    <2> SUFFICES ASSUME NEW i \in DOMAIN past', past'[i].state = "done",
                        NEW e \in Rows \ past'[i].touched
                 PROVE  /\ Contained(past'[i], e, rows'[e])
                        /\ \A k \in DOMAIN past' : i < k => Contained(past'[i], e, past'[k].before[e])
      BY DEF Contains
    <2>1. i \in 1 .. m /\ past[i].state = "done" /\ e \in Rows \ past[i].touched
      BY <1>3, <1>5
    <2>2. /\ Contained(past[i], e, rows[e])
          /\ \A k \in DOMAIN past : i < k => Contained(past[i], e, past[k].before[e])
      BY <1>5, <2>1 DEF RepairInv, Contains
    <2>3. \A row : Contained(past'[i], e, row) <=> Contained(past[i], e, row)
      BY <1>1, <1>5, <2>1, TouchKeeps
    <2>4. QED
      BY <1>3, <1>5, <2>2, <2>3
  <1>12. QED
    BY <1>6, <1>7, <1>8, <1>10, <1>11 DEF RepairInv

LEMMA TouchNothing ==
    ASSUME NEW ps \in Seq(Entry)
    PROVE  Repair!Touch(ps, {}) = ps
  <1>1. \A x \in Entry : Touched(x, {}) = x
    BY DEF Touched, Entry
  <1>2. DOMAIN Repair!Touch(ps, {}) = DOMAIN ps /\ \A i \in DOMAIN ps : Repair!Touch(ps, {})[i] = ps[i]
    BY <1>1, TouchFacts
  <1>3. Repair!Touch(ps, {}) = [i \in DOMAIN ps |-> ps[i]]
    BY <1>2 DEF Repair!Touch
  <1>4. QED
    BY <1>3

\* A reversal that has nothing left to do has restored every row that nothing
\* else has touched.
LEMMA Restored ==
    ASSUME NEW c \in Repairers, RepairInv(c), job[c].step = "restore",
           job[c].up = {}, job[c].relink = {}
    PROVE  /\ Len(past) > 0 /\ job[c].id = Top.id
           /\ \A e \in Rows \ Top.touched : rows[e] = Top.before[e]
  <1>1. Len(past) > 0 /\ Top \in Entry
    BY BusyWorks
  <1>2. PICK p \in plans : Reversing(job[c], Top, p, rows)
    BY BusyWorks
  <1>3. RowsOf(job[c].up) = {} /\ RowsOf(job[c].relink) = {}
    BY DEF RowsOf
  <1>4. ASSUME NEW e \in Rows \ Top.touched PROVE rows[e] = Top.before[e]
    <2>1. /\ rows[e].by = Top.before[e].by /\ rows[e].status = Top.before[e].status
          /\ rows[e].links = Top.before[e].links
      BY <1>2, <1>3 DEF Reversing
    <2>2. /\ rows[e] \in [status: Statuses, links: [Rows -> Nat], by: Rows \cup {NoRow}]
          /\ Top.before[e] \in [status: Statuses, links: [Rows -> Nat], by: Rows \cup {NoRow}]
      BY <1>1 DEF RepairInv, RepairTyped, Table, Entry
    <2>3. QED
      BY <2>1, <2>2
  <1>5. QED
    BY <1>1, <1>2, <1>4 DEF Reversing

LEMMA DeletePlanStep ==
    ASSUME NEW c \in Repairers, RepairInv(c), Repair!DeletePlan(c)
    PROVE  RepairInv(c)'
  <1>1. /\ job[c].step = "restore" /\ job[c].up = {} /\ job[c].relink = {}
        /\ plans' \subseteq plans /\ past' = Repair!Without(job[c].id)
        /\ job' = [job EXCEPT ![c] = Repair!Idle] /\ UNCHANGED <<rows, begun>>
    BY DEF Repair!DeletePlan, Repair!Does, Repair!Go
  <1>2. /\ Len(past) > 0 /\ job[c].id = Top.id
        /\ \A e \in Rows \ Top.touched : rows[e] = Top.before[e]
    BY <1>1, Restored
  <1>3. past' = Repair!Touch(Repair!Without(Top.id), {})
    BY <1>1, <1>2, WithoutTop, TouchNothing DEF RepairInv, RepairTyped
  <1>4. job'[c] = Repair!Idle /\ DOMAIN job' = Repairers /\ {} \in SUBSET Rows
    BY <1>1 DEF RepairInv, RepairTyped
  <1>5. QED
    BY <1>1, <1>2, <1>3, <1>4, PopStep

LEMMA AbortRepairStep ==
    ASSUME NEW c \in Repairers, RepairInv(c), Repair!AbortRepair(c)
    PROVE  RepairInv(c)'
  <1> DEFINE own == past[Repair!Index(job[c].id)]
             changed == own.touched \cup {e \in Rows : rows[e] # own.before[e]}
  <1>1. /\ job[c].step \in {"links", "superseded", "execute", "quarantine", "sever"}
        /\ past' = Repair!Touch(Repair!Without(job[c].id), changed)
        /\ job' = [job EXCEPT ![c] = Repair!Idle] /\ UNCHANGED <<rows, plans, begun>>
    BY DEF Repair!AbortRepair, Repair!Go
  <1>2. Len(past) > 0 /\ Top \in Entry /\ job[c].id = Top.id
    BY <1>1, BusyWorks DEF Scanning, Executing
  <1>3. own = Top
    BY <1>2, IndexOfTop DEF RepairInv, RepairTyped, Top
  <1>4. changed \in SUBSET Rows
    BY <1>2, <1>3 DEF Entry
  <1>5. \A e \in Rows \ (Top.touched \cup changed) : rows[e] = Top.before[e]
    BY <1>3
  <1>6. job'[c] = Repair!Idle /\ DOMAIN job' = Repairers /\ plans' \subseteq plans
    BY <1>1 DEF RepairInv, RepairTyped
  <1> HIDE DEF changed
  <1>7. QED
    BY <1>1, <1>2, <1>4, <1>5, <1>6, PopStep

\* A reversal that stops: the rows it may link twice count as touched.
LEMMA AbortReversalStep ==
    ASSUME NEW c \in Repairers, RepairInv(c), Repair!AbortReversal(c)
    PROVE  RepairInv(c)'
  <1> DEFINE j == job[c]
             plan == CHOOSE p \in plans : p.id = j.id
             T == {r.row : r \in plan.severed}
             n == Len(past)
  <1>1. /\ j.step \in {"restore", "relink"} /\ past' = Repair!Touch(past, T)
        /\ job' = [job EXCEPT ![c] = Repair!Idle] /\ UNCHANGED <<rows, plans, begun>>
    BY DEF Repair!AbortReversal, Repair!Go
  <1>2. /\ past \in Seq(Entry) /\ rows \in Table /\ plans \in SUBSET Plan /\ begun \in Nat
        /\ n \in Nat /\ DOMAIN past = 1 .. n /\ DOMAIN job = Repairers
        /\ \A i \in DOMAIN past : i \in Nat /\ past[i] \in Entry
    BY PastDomain DEF RepairInv, RepairTyped
  <1>3. n > 0 /\ Top \in Entry /\ j # Repair!Idle /\ n \in DOMAIN past /\ Top = past[n]
    BY <1>1, <1>2, BusyWorks DEF Top
  <1>4. PICK p \in plans : Reversing(j, Top, p, rows)
    BY <1>1, BusyWorks
  <1>5. p.id = j.id /\ p.id = Top.id /\ Top.state = "reversing" /\ p \in Plan
    BY <1>2, <1>4 DEF Reversing
  <1>6. plan = p
    BY <1>5 DEF RepairInv, Stacked
  <1>7. T = RowsOf(p.severed) /\ T \in SUBSET Rows
    BY <1>5, <1>6 DEF RowsOf, Plan, Cut
  <1> HIDE DEF T, plan
  <1>8. /\ past' \in Seq(Entry) /\ Len(past') = n /\ DOMAIN past' = DOMAIN past
        /\ \A i \in DOMAIN past : past'[i] = Touched(past[i], T)
    BY <1>1, <1>2, <1>7, TouchFacts
  <1>9. ASSUME NEW i \in DOMAIN past
        PROVE  /\ past'[i].touched = past[i].touched \cup T /\ past'[i].id = past[i].id
               /\ past'[i].before = past[i].before /\ past'[i].state = past[i].state
               /\ \A D, S : Recorded(past[i], D, S) => Recorded(past'[i], D, S)
               /\ \A D, S, e, row : /\ Left(past[i], D, S, e, row) <=> Left(past'[i], D, S, e, row)
                                    /\ Half(past[i], D, S, e, row) <=> Half(past'[i], D, S, e, row)
               /\ \A e, row : Contained(past[i], e, row) <=> Contained(past'[i], e, row)
    <2>1. past'[i] = Touched(past[i], T) /\ past[i] \in Entry
      BY <1>2, <1>8
    <2>2. /\ \A D, S : Recorded(past[i], D, S) => Recorded(past'[i], D, S)
          /\ \A D, S, e, row : /\ Left(past[i], D, S, e, row) <=> Left(past'[i], D, S, e, row)
                               /\ Half(past[i], D, S, e, row) <=> Half(past'[i], D, S, e, row)
          /\ \A e, row : Contained(past[i], e, row) <=> Contained(past'[i], e, row)
      BY <1>2, <1>7, <2>1, TouchKeeps
    <2>3. QED
      BY <1>7, <2>1, <2>2, TouchedEntry
  <1>10. job'[c] = Repair!Idle /\ DOMAIN job' = Repairers
    BY <1>1, <1>2
  <1>11. RepairTyped'
    BY <1>1, <1>2, <1>8, <1>10 DEF RepairTyped
  <1>12. Resting(job[c])'
    <2>1. Top'.state = "reversing"
      BY <1>3, <1>5, <1>8, <1>9 DEF Top
    <2>2. QED
      BY <1>10, <2>1 DEF Resting
  <1>13. Stacked'
    <2>1. \A i \in DOMAIN past' : past'[i].id <= begun'
      BY <1>1, <1>8, <1>9 DEF RepairInv, Stacked
    <2>2. ASSUME NEW i \in DOMAIN past', NEW k \in DOMAIN past', i < k
          PROVE  /\ past'[i].state # "running" /\ past'[i].id < past'[k].id
                 /\ past'[k].touched \subseteq past'[i].touched
      <3>1. /\ past[i].state # "running" /\ past[i].id < past[k].id
            /\ past[k].touched \subseteq past[i].touched
        BY <1>8, <2>2 DEF RepairInv, Stacked
      <3>2. QED
        BY <1>8, <1>9, <3>1
    <2>3. \A q, r \in plans' : q.id <= begun' /\ (q.id = r.id => q = r)
      BY <1>1 DEF RepairInv, Stacked
    <2>4. QED
      BY <2>1, <2>2, <2>3 DEF Stacked
  <1>14. Planned(job[c])'
    <2> SUFFICES ASSUME NEW q \in plans, NEW i \in DOMAIN past, q.id = past[i].id
                 PROVE  /\ past'[i].state # "running"
                        /\ Recorded(past'[i], q.downed, q.severed)
                        /\ \A e \in Rows \ past'[i].touched :
                                /\ past'[i].state = "done" =>
                                        Left(past'[i], q.downed, q.severed, e, Found(i, e)')
                                /\ past'[i].state = "reversing" =>
                                        Half(past'[i], q.downed, q.severed, e, Found(i, e)')
      BY <1>1, <1>8, <1>9, <1>10 DEF Planned
    <2>1. \A e \in Rows : Found(i, e)' = Found(i, e)
      <3>1. i # n => i + 1 \in DOMAIN past
        BY <1>2
      <3>2. QED
        BY <1>1, <1>8, <1>9, <3>1 DEF Found
    <2>2. /\ past[i].state # "running" /\ Recorded(past[i], q.downed, q.severed)
      BY DEF RepairInv, Planned
    <2>3. ASSUME NEW e \in Rows \ past'[i].touched
          PROVE  /\ past[i].state = "done" =>
                        Left(past[i], q.downed, q.severed, e, Found(i, e))
                 /\ past[i].state = "reversing" =>
                        Half(past[i], q.downed, q.severed, e, Found(i, e))
      <3>1. e \in Rows \ past[i].touched /\ e \notin T
        BY <1>9
      <3>2. CASE i # n
        <4>1. i < n
          BY <1>2, <3>2
        <4>2. QED
          BY <3>1, <4>1 DEF RepairInv, Planned
      <3>3. CASE i = n
        <4>1. q = p /\ Found(i, e) = rows[e] /\ past[i] = Top
          BY <1>3, <1>5, <3>3 DEF Found, RepairInv, Stacked
        <4>2. e \notin RowsOf(p.severed) /\ (j.step = "relink" => e # j.read.row)
          BY <1>4, <1>7, <3>1 DEF Reversing
        <4>3. /\ e \notin RowsOf(j.relink) /\ (e \in RowsOf(j.up) => e \in RowsOf(p.downed))
          BY <1>4, <4>2 DEF Reversing, RowsOf
        <4>4. Half(Top, p.downed, p.severed, e, rows[e])
          BY <1>4, <3>1, <4>1, <4>2, <4>3 DEF Reversing, Half
        <4>5. QED
          BY <1>5, <4>1, <4>4
      <3>4. QED
        BY <3>2, <3>3
    <2>4. QED
      BY <1>9, <2>1, <2>2, <2>3
  <1>15. Contains'
    <2> SUFFICES ASSUME NEW i \in DOMAIN past', past'[i].state = "done",
                        NEW e \in Rows \ past'[i].touched
                 PROVE  /\ Contained(past'[i], e, rows'[e])
                        /\ \A k \in DOMAIN past' : i < k => Contained(past'[i], e, past'[k].before[e])
      BY DEF Contains
    <2>1. i \in DOMAIN past /\ past[i].state = "done" /\ e \in Rows \ past[i].touched
      BY <1>8, <1>9
    <2>2. /\ Contained(past[i], e, rows[e])
          /\ \A k \in DOMAIN past : i < k => Contained(past[i], e, past[k].before[e])
      BY <2>1 DEF RepairInv, Contains
    <2>3. QED
      BY <1>1, <1>8, <1>9, <2>1, <2>2
  <1>16. QED
    BY <1>11, <1>12, <1>13, <1>14, <1>15 DEF RepairInv

\* One repairer, and the last repair is reversed first.
RepairConstants(c) == Repairers = {c} /\ InOrder /\ GraphsTyped

LEMMA RepairStep ==
    ASSUME NEW c, RepairConstants(c), RepairInv(c), [Repair!Next]_(Repair!vars)
    PROVE  RepairInv(c)'
  <1> c \in Repairers /\ InOrder /\ \A p \in Repairers : p = c
    BY DEF RepairConstants
  <1>1. CASE UNCHANGED Repair!vars
    BY <1>1 DEF Repair!vars, RepairInv, RepairTyped, Resting, Works, Top, Stacked, Planned, Found,
                Contains
  <1>2. CASE \E e, t \in Rows : Repair!LinkRow(e, t) \/ Repair!UnlinkRow(e, t)
    BY <1>2, EditStep
  <1>3. CASE \E e \in Rows : Repair!Deprecate(e)
    BY <1>3, EditStep
  <1>4. CASE \E faulty \in (SUBSET Rows) \ {{}} : Repair!Begin(c, faulty)
    BY <1>4, BeginStep
  <1>5. CASE \E e \in Rows : Repair!ScanLinks(c, e) \/ Repair!ReadStatus(c, e) \/ Repair!ReadLinks(c, e)
    BY <1>5, ScanLinksStep, ReadStatusStep, ReadLinksStep
  <1>6. CASE Repair!ScanSuperseded(c) \/ Repair!Quarantine(c) \/ Repair!Sever(c) \/ Repair!StorePlan(c)
    BY <1>6, ScanSupersededStep, QuarantineStep, SeverStep, StorePlanStep
  <1>7. CASE \E p \in plans : Repair!Reverse(c, p)
    BY <1>7, ReverseStep
  <1>8. CASE \E r \in job[c].up : Repair!Restore(c, r)
    BY <1>8, RestoreStep
  <1>9. CASE \E r \in job[c].relink : Repair!ReadBack(c, r)
    BY <1>9, ReadBackStep
  <1>10. CASE Repair!Relink(c) \/ Repair!DeletePlan(c) \/ Repair!AbortRepair(c)
              \/ Repair!AbortReversal(c)
    BY <1>10, RelinkStep, DeletePlanStep, AbortRepairStep, AbortReversalStep
  <1>11. QED
    BY <1>1, <1>2, <1>3, <1>4, <1>5, <1>6, <1>7, <1>8, <1>9, <1>10 DEF Repair!Next

LEMMA RepairInvImplies ==
    ASSUME NEW c, RepairConstants(c), RepairInv(c)
    PROVE  ReversalRestores /\ FaultContained
  <1> c \in Repairers /\ \A p \in Repairers : p = c
    BY DEF RepairConstants
  <1>1. ReversalRestores
    <2> SUFFICES ASSUME job[c].step = "restore", job[c].up = {}, job[c].relink = {},
                        NEW e \in Rows \ past[Repair!Index(job[c].id)].touched
                 PROVE  rows[e] = past[Repair!Index(job[c].id)].before[e]
      BY DEF ReversalRestores, Repair!ReversalRestores, Repair!Does
    <2>1. /\ Len(past) > 0 /\ job[c].id = Top.id
          /\ \A d \in Rows \ Top.touched : rows[d] = Top.before[d]
      BY Restored
    <2>2. past[Repair!Index(job[c].id)] = Top
      BY <2>1, IndexOfTop DEF RepairInv, RepairTyped, Top
    <2>3. QED
      BY <2>1, <2>2
  <1>2. FaultContained
    <2> SUFFICES ASSUME NEW i \in DOMAIN past, past[i].state = "done",
                        NEW e \in Rows \ past[i].touched, rows[e].status = "active"
                 PROVE  e \notin past[i].faulty /\ Repair!Cites(e) \cap past[i].faulty = {}
      BY DEF FaultContained, Repair!FaultContained
    <2>1. Contained(past[i], e, rows[e])
      BY DEF RepairInv, Contains
    <2>2. e \notin past[i].faulty /\ \A f \in past[i].faulty : rows[e].links[f] = 0
      BY <2>1 DEF Contained
    <2>3. QED
      BY <2>2 DEF Repair!Cites
  <1>3. QED
    BY <1>1, <1>2

\* reverse_rollback_repair: for any number of rows, links, repairs and
\* reversals, edits by others and calls that stop at any statement, on one
\* connection that reverses the last repair first, a reversal gives every row
\* that nobody else changed the status and the links it had before the repair.
THEOREM ReversalsRestore ==
    ASSUME NEW c, RepairConstants(c)
    PROVE  Repair!Spec => []ReversalRestores
  <1>1. Repair!Init => RepairInv(c)
    BY RepairInit DEF RepairConstants
  <1>2. QED
    BY <1>1, RepairStep, RepairInvImplies, PTL DEF Repair!Spec

\* rollback_repair: under the same conditions, from the end of a repair to its
\* reversal, through the repairs and reversals on top of it, no row is served
\* that is faulty or cites a faulty one, unless somebody else changed the row.
THEOREM FaultsContained ==
    ASSUME NEW c, RepairConstants(c)
    PROVE  Repair!Spec => []FaultContained
  <1>1. Repair!Init => RepairInv(c)
    BY RepairInit DEF RepairConstants
  <1>2. QED
    BY <1>1, RepairStep, RepairInvImplies, PTL DEF Repair!Spec
=============================================================================
