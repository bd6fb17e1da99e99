---------------------------- MODULE TasksProofs -----------------------------
(***************************************************************************)
(* Proofs about the records of tasks.  TaskLineage: the receipts of every  *)
(* lineage are one chain that adds up, for any connections, keys, requests *)
(* and policies.  TaskState: it implements TaskRegister, for any clients,  *)
(* specifications and bases.                                               *)
(***************************************************************************)
EXTENDS MCTasks, SequenceTheorems, TLAPS

-----------------------------------------------------------------------------
(* TaskLineage.                                                            *)

RequestsTyped ==
    /\ req \in [Conns -> Asked \cup Versions \cup {<<>>}]
    /\ \A c \in Conns : at[c] = "commit" => req[c] \in Asked

\* A receipt, and a continuation under way, names a stored lineage.
LinesStored ==
    /\ \A i \in DOMAIN transitions : transitions[i].line \in DOMAIN lineages
    /\ \A c \in Conns : at[c] = "commit" /\ req[c].kind = "continue" =>
           req[c].ref.line \in DOMAIN lineages

HeadsPositive == \A l \in DOMAIN lineages : lineages[l].head \in Nat \ {0}

\* The classes that a lineage remembers are those of its admitted actions.
ClassesRemembered ==
    \A l \in DOMAIN lineages : \A i \in Advances(l) :
        transitions[i].outcome # "denied" =>
            Seen(lineages[l], transitions[i].asked.what.class)

LineageInv ==
    /\ TypeOK /\ RequestsTyped /\ LinesStored /\ HeadsPositive
    /\ LedgerSound /\ ClassesRemembered /\ NoSendAfterRead

LEMMA LineageInitInv == Init => LineageInv
  <1> SUFFICES ASSUME Init PROVE LineageInv
    OBVIOUS
  <1>1. lineages = <<>> /\ transitions = <<>> /\ DOMAIN lineages = {} /\ DOMAIN transitions = {}
    BY DEF Init
  <1>2. TypeOK
    BY <1>1 DEF Init, TypeOK
  <1>3. RequestsTyped /\ LinesStored
    BY <1>1 DEF Init, RequestsTyped, LinesStored
  <1>4. LedgerSound /\ ClassesRemembered /\ NoSendAfterRead /\ HeadsPositive
    BY <1>1 DEF LedgerSound, OneWinner, SpentAddsUp, ChargedOnce, ClassesRemembered,
                NoSendAfterRead, HeadsPositive
  <1>5. QED
    BY <1>2, <1>3, <1>4 DEF LineageInv

\* What a step that appends one receipt leaves of the receipts before it.
LEMMA ReceiptAppended ==
    ASSUME TypeOK, NEW t \in Transition, transitions' = Append(transitions, t)
    PROVE  LET k == Len(transitions) + 1 IN
           /\ transitions' \in Seq(Transition) /\ k \in Nat \ {0}
           /\ DOMAIN transitions' = DOMAIN transitions \cup {k} /\ k \notin DOMAIN transitions
           /\ \A i \in DOMAIN transitions : transitions'[i] = transitions[i]
           /\ transitions'[k] = t
  BY DEF TypeOK

LEMMA RefusedAdvances ==
    ASSUME TypeOK, NEW t \in Transition, transitions' = Append(transitions, t),
           t.outcome \notin Advancing, NEW l
    PROVE  Advances(l)' = Advances(l)
  BY ReceiptAppended DEF Advances

LEMMA AdvancedAdvances ==
    ASSUME TypeOK, NEW t \in Transition, transitions' = Append(transitions, t),
           t.outcome \in Advancing, NEW l
    PROVE  Advances(l)' = IF l = t.line THEN Advances(l) \cup {Len(transitions) + 1}
                          ELSE Advances(l)
  BY ReceiptAppended DEF Advances

\* A step that keeps, of every lineage, what the receipts are compared with.
SameLedgers ==
    /\ DOMAIN lineages' = DOMAIN lineages
    /\ \A l \in DOMAIN lineages :
        /\ lineages'[l].version = lineages[l].version
        /\ lineages'[l].classes = lineages[l].classes
        /\ lineages'[l].spent = lineages[l].spent
        /\ lineages'[l].impact = lineages[l].impact
        /\ lineages'[l].head = lineages[l].head

LEMMA QuietLedger ==
    ASSUME LineageInv, SameLedgers, UNCHANGED transitions
    PROVE  OneWinner' /\ SpentAddsUp' /\ ChargedOnce' /\ ClassesRemembered'
           /\ NoSendAfterRead' /\ HeadsPositive'
  <1>1. \A l : Advances(l)' = Advances(l)
    BY DEF Advances
  <1>2. \A i : Charge(i)' = Charge(i)
    BY DEF Charge
  <1>3. OneWinner'
    BY <1>1 DEF LineageInv, LedgerSound, OneWinner, SameLedgers
  <1>4. SpentAddsUp'
    BY <1>1, <1>2 DEF LineageInv, LedgerSound, SpentAddsUp, SameLedgers
  <1>5. ClassesRemembered'
    BY <1>1 DEF LineageInv, ClassesRemembered, SameLedgers, Seen
  <1>6. QED
    BY <1>1, <1>3, <1>4, <1>5 DEF LineageInv, LedgerSound, ChargedOnce, NoSendAfterRead,
          SameLedgers, HeadsPositive

\* The steps that make no receipt: the lineages are left alone.
LEMMA QuietLineageStep ==
    ASSUME LineageInv, UNCHANGED <<lineages, transitions>>, TypeOK', RequestsTyped',
           \A c \in Conns : at'[c] = "commit" /\ req'[c].kind = "continue" =>
               req'[c].ref.line \in DOMAIN lineages
    PROVE  LineageInv'
  <1>1. SameLedgers
    BY DEF SameLedgers
  <1>2. LinesStored'
    BY DEF LineageInv, LinesStored
  <1>3. QED
    BY <1>1, <1>2, QuietLedger DEF LineageInv, LedgerSound

LEMMA ManifestSteps ==
    ASSUME LineageInv, NEW v \in Versions, AuthoritySet(v) \/ Expire(v)
    PROVE  LineageInv'
  <1>1. TypeOK'
    BY DEF LineageInv, TypeOK, AuthoritySet, Expire
  <1>2. UNCHANGED <<lineages, transitions, at, req>>
    BY DEF AuthoritySet, Expire
  <1>3. QED
    BY <1>1, <1>2, QuietLineageStep DEF LineageInv, RequestsTyped, LinesStored

LEMMA RevokeManifestStep ==
    ASSUME LineageInv, NEW c \in Conns, NEW v \in Versions, RevokeManifest(c, v)
    PROVE  LineageInv'
  <1>1. TypeOK'
    BY DEF LineageInv, TypeOK, RevokeManifest, Goto
  <1>2. /\ UNCHANGED <<lineages, transitions>>
        /\ \A d \in Conns : at'[d] = "commit" => at[d] = "commit" /\ req'[d] = req[d]
        /\ req' \in [Conns -> Asked \cup Versions \cup {<<>>}]
    <2>1. UNCHANGED <<lineages, transitions>>
      BY DEF RevokeManifest
    <2>2. /\ at' = [at EXCEPT ![c] = "revoke_lineages"]
          /\ req' = [req EXCEPT ![c] = v]
      BY DEF RevokeManifest, Goto
    <2>3. QED
      BY <2>1, <2>2 DEF LineageInv, TypeOK, RequestsTyped
  <1>3. QED
    BY <1>1, <1>2, QuietLineageStep DEF LineageInv, RequestsTyped, LinesStored

LEMMA RequestReturns ==
    ASSUME LineageInv, NEW c \in Conns, Return(c)
    PROVE  /\ at' \in [Conns -> {"idle", "revoke_lineages", "commit"}]
           /\ \A d \in Conns : at'[d] = "commit" => at[d] = "commit" /\ req'[d] = req[d]
           /\ req' \in [Conns -> Asked \cup Versions \cup {<<>>}]
  BY DEF LineageInv, TypeOK, RequestsTyped, Return, Goto

LEMMA RequestAnswerStep ==
    ASSUME LineageInv, NEW c \in Conns, Answer(c)
    PROVE  LineageInv'
  <1>1. TypeOK' /\ UNCHANGED <<lineages, transitions>>
    BY RequestReturns DEF LineageInv, TypeOK, Answer
  <1>2. /\ \A d \in Conns : at'[d] = "commit" => at[d] = "commit" /\ req'[d] = req[d]
        /\ req' \in [Conns -> Asked \cup Versions \cup {<<>>}]
    BY RequestReturns DEF Answer
  <1>3. QED
    BY <1>1, <1>2, QuietLineageStep DEF LineageInv, RequestsTyped, LinesStored

LEMMA RevokeLineagesStep ==
    ASSUME LineageInv, NEW c \in Conns, RevokeLineages(c)
    PROVE  LineageInv'
  <1> DEFINE revoked(l) == IF lineages[l].version = req[c]
                           THEN [lineages[l] EXCEPT !.revoked = TRUE] ELSE lineages[l]
  <1>1. /\ lineages' = [l \in DOMAIN lineages |-> revoked(l)]
        /\ UNCHANGED transitions /\ Return(c) /\ UNCHANGED <<manifests, expired>>
    BY DEF RevokeLineages
  <1>2. DOMAIN lineages = 1 .. Len(lineages) /\ Len(lineages) \in Nat
        /\ \A l \in DOMAIN lineages : lineages[l] \in Lineage
    BY DEF LineageInv, TypeOK
  <1>3. \A l \in DOMAIN lineages :
            /\ revoked(l) \in Lineage
            /\ revoked(l).version = lineages[l].version
            /\ revoked(l).classes = lineages[l].classes
            /\ revoked(l).spent = lineages[l].spent
            /\ revoked(l).impact = lineages[l].impact
            /\ revoked(l).head = lineages[l].head
    BY <1>2 DEF Lineage
  <1>4. SameLedgers
    BY <1>1, <1>3 DEF SameLedgers
  <1>5. lineages' \in Seq(Lineage)
    <2> HIDE DEF revoked
    <2>1. lineages' \in [1 .. Len(lineages) -> Lineage]
      BY <1>1, <1>2, <1>3
    <2>2. QED
      BY <1>2, <2>1, SeqDef
  <1>6. TypeOK'
    BY <1>1, <1>5, RequestReturns DEF LineageInv, TypeOK
  <1>7. RequestsTyped' /\ LinesStored'
    BY <1>1, <1>4, RequestReturns DEF LineageInv, RequestsTyped, LinesStored, SameLedgers
  <1>8. QED
    BY <1>1, <1>4, <1>6, <1>7, QuietLedger DEF LineageInv, LedgerSound

LEMMA AskStep ==
    ASSUME LineageInv, NEW c \in Conns, NEW key \in Keys, NEW what \in Requests,
           NEW v \in Versions, NEW kind \in {"new_authorization", "continue"},
           NEW ref \in Known \cup {NoRef}, kind = "continue" => ref \in Known,
           Ask(c, key, kind, ref, what, v)
    PROVE  LineageInv'
  <1> DEFINE q == [key |-> key, kind |-> kind, ref |-> ref, what |-> what, version |-> v]
  <1>1. ref \in [line: Nat, head: Nat]
    BY DEF Known, Refs, NoRef, LineageInv, TypeOK
  <1>2. q \in Asked /\ q.kind = kind /\ q.ref = ref
    BY <1>1 DEF Asked
  <1>3. kind = "continue" => ref.line \in DOMAIN lineages
    BY DEF Known, Refs
  <1>4. /\ at' = [at EXCEPT ![c] = "commit"] /\ req' = [req EXCEPT ![c] = q]
        /\ UNCHANGED <<manifests, expired, lineages, transitions>>
    BY DEF Ask, Goto
  <1> HIDE DEF q
  <1>5. TypeOK'
    BY <1>4 DEF LineageInv, TypeOK
  <1>6. \A d \in Conns : at'[d] = "commit" =>
            (d = c /\ req'[d] = q) \/ (at[d] = "commit" /\ req'[d] = req[d])
    BY <1>4 DEF LineageInv, TypeOK, RequestsTyped
  <1>7. RequestsTyped'
    BY <1>2, <1>4, <1>6 DEF LineageInv, RequestsTyped
  <1>8. QED
    BY <1>7, <1>2, <1>3, <1>4, <1>5, <1>6, QuietLineageStep DEF LineageInv, RequestsTyped, LinesStored

LEMMA NewReceiptChargedOnce ==
    ASSUME LineageInv, NEW t \in Transition, transitions' = Append(transitions, t),
           Earlier(t.asked) = {}
    PROVE  ChargedOnce'
  <1>1. \A i \in DOMAIN transitions : transitions[i].asked.key # t.asked.key
    BY DEF Earlier
  <1>2. QED
    BY <1>1, ReceiptAppended DEF LineageInv, LedgerSound, ChargedOnce

\* A refused continuation: a receipt that no ledger counts.
LEMMA RefuseStep ==
    ASSUME LineageInv, NEW q \in Asked, q.ref.line \in DOMAIN lineages,
           NEW outcome \in {"stale", "revoked"}, Refuse(q, outcome), Earlier(q) = {}
    PROVE  /\ transitions' \in Seq(Transition) /\ lineages' \in Seq(Lineage)
           /\ DOMAIN lineages \subseteq DOMAIN lineages'
           /\ \A i \in DOMAIN transitions' : transitions'[i].line \in DOMAIN lineages'
           /\ OneWinner' /\ SpentAddsUp' /\ ChargedOnce' /\ ClassesRemembered'
           /\ NoSendAfterRead' /\ HeadsPositive'
  <1> DEFINE row0 == lineages[q.ref.line]
             t == [asked |-> q, line |-> q.ref.line, head |-> row0.head, outcome |-> outcome,
                   spent |-> row0.spent, impact |-> row0.impact]
  <1>1. row0 \in Lineage
    BY DEF LineageInv, TypeOK
  <1>2. t \in Transition /\ t.asked = q /\ t.line = q.ref.line /\ t.outcome \notin Advancing
    BY <1>1 DEF Transition, Lineage, Asked, Outcomes, Advancing
  <1>3. transitions' = Append(transitions, t) /\ lineages' = lineages
    BY DEF Refuse, Record
  <1> HIDE DEF row0, t
  <1>4. /\ transitions' \in Seq(Transition)
        /\ \A i \in DOMAIN transitions : i \in DOMAIN transitions' /\ transitions'[i] = transitions[i]
        /\ \A i \in DOMAIN transitions' : transitions'[i].line \in DOMAIN lineages'
    BY <1>2, <1>3, ReceiptAppended DEF LineageInv, LinesStored
  <1>5. \A l : Advances(l)' = Advances(l)
    BY <1>2, <1>3, RefusedAdvances DEF LineageInv
  <1>6. \A l : \A i \in Advances(l) : i \in DOMAIN transitions /\ transitions'[i] = transitions[i]
    BY <1>4 DEF Advances
  <1>7. \A i \in DOMAIN transitions : Charge(i)' = Charge(i)
    BY <1>4 DEF Charge
  <1>8. OneWinner'
    <2> SUFFICES ASSUME NEW l \in DOMAIN lineages
                 PROVE  /\ {transitions'[i].head : i \in Advances(l)} = 1 .. lineages[l].head
                        /\ \A i, j \in Advances(l) :
                              transitions'[i].head = transitions'[j].head => i = j
                        /\ \A i \in Advances(l) : transitions'[i].asked.kind = "continue" =>
                              transitions'[i].asked.ref = [line |-> l, head |-> transitions'[i].head - 1]
      BY <1>3, <1>5 DEF OneWinner
    <2>1. {transitions'[i].head : i \in Advances(l)} = {transitions[i].head : i \in Advances(l)}
      BY <1>6
    <2>2. QED
      BY <1>6, <2>1 DEF LineageInv, LedgerSound, OneWinner
  <1>9. SpentAddsUp'
    BY <1>3, <1>5, <1>6, <1>7 DEF LineageInv, LedgerSound, SpentAddsUp
  <1>10. ChargedOnce'
    BY <1>2, <1>3, NewReceiptChargedOnce
  <1>11. ClassesRemembered' /\ HeadsPositive'
    BY <1>3, <1>5, <1>6 DEF LineageInv, ClassesRemembered, HeadsPositive, Seen
  <1>12. NoSendAfterRead'
    BY <1>3, <1>5, <1>6 DEF LineageInv, NoSendAfterRead
  <1>13. QED
    BY <1>3, <1>4, <1>8, <1>9, <1>10, <1>11, <1>12 DEF LineageInv, TypeOK

\* What a lineage is after an advance, and the receipt of it.
AdvancedTo(q, line, row0, next, t) ==
    /\ lineages' = [l \in DOMAIN lineages \cup {line} |->
                       IF l = line THEN next ELSE lineages[l]]
    /\ transitions' = Append(transitions, t)
    /\ t.asked = q /\ t.line = line /\ t.outcome \in Advancing
    /\ next.version = row0.version /\ next.head = row0.head + 1
    /\ t.head = next.head /\ t.spent = next.spent /\ t.impact = next.impact
    /\ \A class \in Classes : Seen(row0, class) => Seen(next, class)
    /\ \/ /\ t.outcome = "denied" /\ next.spent = row0.spent /\ next.impact = row0.impact
       \/ /\ t.outcome # "denied" /\ Seen(next, q.what.class)
          /\ Composes(row0, q.what, Policy[row0.version])
          /\ next.spent = row0.spent + q.what.cost
          /\ next.impact = row0.impact + q.what.impact
          /\ next.spent <= Policy[row0.version].budget
          /\ next.impact <= Policy[row0.version].impact

LEMMA AdvanceResult ==
    ASSUME NEW q \in Asked, NEW line \in Nat, NEW row0 \in Lineage, q.version = row0.version,
           NEW success \in {"new_authorization", "continued"}, Advance(q, line, row0, success)
    PROVE  \E next \in Lineage, t \in Transition : AdvancedTo(q, line, row0, next, t)
  <1> DEFINE ok == Admitted(row0, q.what, Policy[q.version])
             grown == Applied(row0, q.what)
             base == IF ok THEN grown ELSE row0
             next == [base EXCEPT !.head = @ + 1]
             t == [asked |-> q, line |-> line, head |-> next.head,
                   outcome |-> IF ok THEN success ELSE "denied",
                   spent |-> next.spent, impact |-> next.impact]
  <1>1. /\ lineages' = [l \in DOMAIN lineages \cup {line} |-> IF l = line THEN next ELSE lineages[l]]
        /\ transitions' = Append(transitions, t)
    BY DEF Advance, Record
  <1>2. q.what \in Request /\ q.what.class \in Classes
    BY LineageAssumption DEF Asked, Request
  <1>3. /\ grown \in Lineage /\ grown.version = row0.version /\ grown.head = row0.head
        /\ grown.classes = Append(row0.classes, q.what.class)
        /\ grown.spent = row0.spent + q.what.cost /\ grown.impact = row0.impact + q.what.impact
    <2> DEFINE classes == Append(row0.classes, q.what.class)
               spent == row0.spent + q.what.cost
               impact == row0.impact + q.what.impact
    <2>1. classes \in Seq(Classes) /\ spent \in Nat /\ impact \in Nat
      BY <1>2 DEF Lineage, Request
    <2>2. grown = [row0 EXCEPT !.classes = classes, !.spent = spent, !.impact = impact]
      BY DEF Applied, Lineage
    <2> HIDE DEF classes, spent, impact, grown
    <2>3. /\ grown \in Lineage /\ grown.version = row0.version /\ grown.head = row0.head
          /\ grown.classes = classes /\ grown.spent = spent /\ grown.impact = impact
      BY <2>1, <2>2 DEF Lineage
    <2>4. QED
      BY <2>3 DEF classes, spent, impact
  <1>4. \A class \in Classes : Seen(row0, class) => Seen(grown, class)
    <2>1. row0.classes \in Seq(Classes)
      BY DEF Lineage
    <2>2. \A i \in DOMAIN row0.classes :
            i \in DOMAIN grown.classes /\ grown.classes[i] = row0.classes[i]
      BY <1>2, <1>3, <2>1
    <2>3. QED
      BY <2>2 DEF Seen
  <1>5. Seen(grown, q.what.class)
    <2>1. row0.classes \in Seq(Classes)
      BY DEF Lineage
    <2>2. /\ Len(row0.classes) + 1 \in DOMAIN grown.classes
          /\ grown.classes[Len(row0.classes) + 1] = q.what.class
      BY <1>2, <1>3, <2>1
    <2>3. QED
      BY <2>2 DEF Seen
  <1>6. ok => /\ Composes(row0, q.what, Policy[row0.version])
              /\ grown.spent <= Policy[row0.version].budget
              /\ grown.impact <= Policy[row0.version].impact
    BY <1>3 DEF Admitted
  <1> HIDE DEF ok, grown
  <1>7. /\ base \in Lineage /\ base.version = row0.version /\ base.head = row0.head
        /\ \A class \in Classes : Seen(row0, class) => Seen(base, class)
        /\ ok => base = grown
        /\ ~ok => base = row0
    BY <1>3, <1>4
  <1> HIDE DEF base
  <1>8. /\ next \in Lineage /\ next.version = base.version /\ next.head = base.head + 1
        /\ next.spent = base.spent /\ next.impact = base.impact
        /\ next.classes = base.classes
    BY <1>7 DEF Lineage
  <1>9. \A class \in Classes : Seen(base, class) = Seen(next, class)
    BY <1>8 DEF Seen
  <1> HIDE DEF next
  <1>10. /\ t \in Transition /\ t.asked = q /\ t.line = line /\ t.outcome \in Advancing
         /\ t.head = next.head /\ t.spent = next.spent /\ t.impact = next.impact
         /\ ok => t.outcome # "denied"
         /\ ~ok => t.outcome = "denied"
    BY <1>8 DEF Transition, Lineage, Outcomes, Advancing
  <1> HIDE DEF t
  <1>11. AdvancedTo(q, line, row0, next, t)
    <2>1. CASE ok
      BY <1>1, <1>2, <1>3, <1>5, <1>6, <1>7, <1>8, <1>9, <1>10, <2>1 DEF AdvancedTo
    <2>2. CASE ~ok
      BY <1>1, <1>7, <1>8, <1>9, <1>10, <2>2 DEF AdvancedTo
    <2>3. QED
      BY <2>1, <2>2
  <1>12. QED
    BY <1>8, <1>10, <1>11

\* An advance of a stored lineage, or the first of a new one: the receipt
\* has the next head and adds its charge to that of the head before it.
LEMMA AdvanceStep ==
    ASSUME LineageInv, NEW q \in Asked, Earlier(q) = {},
           NEW line \in DOMAIN lineages \cup {Len(lineages) + 1},
           NEW row0 \in Lineage, q.version = row0.version,
           line \in DOMAIN lineages =>
               row0 = lineages[line] /\ q.ref = [line |-> line, head |-> row0.head],
           line \notin DOMAIN lineages =>
               row0.head = 0 /\ row0.spent = 0 /\ row0.impact = 0 /\ q.kind = "new_authorization",
           NEW success \in {"new_authorization", "continued"}, Advance(q, line, row0, success)
    PROVE  /\ transitions' \in Seq(Transition) /\ lineages' \in Seq(Lineage)
           /\ DOMAIN lineages \subseteq DOMAIN lineages'
           /\ \A i \in DOMAIN transitions' : transitions'[i].line \in DOMAIN lineages'
           /\ OneWinner' /\ SpentAddsUp' /\ ChargedOnce' /\ ClassesRemembered'
           /\ NoSendAfterRead' /\ HeadsPositive'
  <1> DEFINE k == Len(transitions) + 1
             n == Len(lineages)
             old == Advances(line)
             h == row0.head
  <1>1. /\ n \in Nat /\ DOMAIN lineages = 1 .. n /\ line \in Nat
        /\ \A l \in DOMAIN lineages : lineages[l] \in Lineage
        /\ \A i \in DOMAIN transitions : transitions[i] \in Transition
    BY DEF LineageInv, TypeOK
  <1>30. line \in Nat
    BY <1>1
  <1>31. PICK next \in Lineage, t \in Transition : AdvancedTo(q, line, row0, next, t)
    BY <1>30, AdvanceResult
  <1>2. /\ lineages' = [l \in DOMAIN lineages \cup {line} |->
                           IF l = line THEN next ELSE lineages[l]]
        /\ transitions' = Append(transitions, t)
        /\ t.asked = q /\ t.line = line /\ t.outcome \in Advancing
        /\ next.version = row0.version /\ next.head = row0.head + 1
        /\ t.head = next.head /\ t.spent = next.spent /\ t.impact = next.impact
        /\ \A class \in Classes : Seen(row0, class) => Seen(next, class)
        /\ \/ /\ t.outcome = "denied" /\ next.spent = row0.spent /\ next.impact = row0.impact
           \/ /\ t.outcome # "denied" /\ Seen(next, q.what.class)
              /\ Composes(row0, q.what, Policy[row0.version])
              /\ next.spent = row0.spent + q.what.cost
              /\ next.impact = row0.impact + q.what.impact
              /\ next.spent <= Policy[row0.version].budget
              /\ next.impact <= Policy[row0.version].impact
    BY <1>31 DEF AdvancedTo
  <1>3. /\ transitions' \in Seq(Transition) /\ k \in Nat \ {0}
        /\ DOMAIN transitions' = DOMAIN transitions \cup {k} /\ k \notin DOMAIN transitions
        /\ \A i \in DOMAIN transitions : transitions'[i] = transitions[i]
        /\ transitions'[k] = t
    BY <1>2, ReceiptAppended DEF LineageInv
  <1>4. /\ DOMAIN lineages' = DOMAIN lineages \cup {line}
        /\ lineages'[line] = next
        /\ \A l \in DOMAIN lineages \ {line} : lineages'[l] = lineages[l]
    BY <1>2
  <1>5. lineages' \in Seq(Lineage)
    <2>1. lineages' \in [DOMAIN lineages \cup {line} -> Lineage]
      BY <1>1, <1>2
    <2>2. DOMAIN lineages \cup {line} = 1 .. n \/ DOMAIN lineages \cup {line} = 1 .. (n + 1)
      BY <1>1
    <2>3. n + 1 \in Nat
      BY <1>1
    <2>4. QED
      BY <1>1, <2>1, <2>2, <2>3, SeqDef
  <1>6. \A i \in DOMAIN transitions' : transitions'[i].line \in DOMAIN lineages'
    BY <1>2, <1>3, <1>4 DEF LineageInv, LinesStored
  <1>7. /\ Advances(line)' = old \cup {k}
        /\ \A l : l # line => Advances(l)' = Advances(l)
    BY <1>2, AdvancedAdvances DEF LineageInv
  <1>8. /\ \A l : \A i \in Advances(l) :
               i \in DOMAIN transitions /\ transitions'[i] = transitions[i] /\ i # k
        /\ old \subseteq DOMAIN transitions
    BY <1>3 DEF Advances
  <1>9. h \in Nat /\ row0.spent \in Nat /\ row0.impact \in Nat /\ row0.version \in Versions
    BY DEF Lineage
  \* The receipts of the lineage before this one.
  <1>10. line \notin DOMAIN lineages => old = {}
    BY DEF LineageInv, LinesStored, Advances
  <1>11. {transitions[i].head : i \in old} = 1 .. h
    <2>1. CASE line \in DOMAIN lineages
      BY <2>1 DEF LineageInv, LedgerSound, OneWinner
    <2>2. CASE line \notin DOMAIN lineages
      <3>1. old = {} /\ h = 0
        BY <2>2, <1>10
      <3>2. 1 .. h = {}
        BY <3>1
      <3>3. QED
        BY <3>1, <3>2
    <2>3. QED
      BY <2>1, <2>2
  <1>12. /\ \A i, j \in old : transitions[i].head = transitions[j].head => i = j
         /\ \A i \in old : transitions[i].asked.kind = "continue" =>
               transitions[i].asked.ref = [line |-> line, head |-> transitions[i].head - 1]
    <2>1. CASE line \in DOMAIN lineages
      BY <2>1 DEF LineageInv, LedgerSound, OneWinner
    <2>2. CASE line \notin DOMAIN lineages
      BY <2>2, <1>10
    <2>3. QED
      BY <2>1, <2>2
  <1>13. \A i \in old : transitions[i].head \in 1 .. h
    BY <1>11
  <1>14. \A i \in old : transitions[i].head = h =>
            transitions[i].spent = row0.spent /\ transitions[i].impact = row0.impact
    <2>1. CASE line \in DOMAIN lineages
      BY <2>1 DEF LineageInv, LedgerSound, SpentAddsUp
    <2>2. CASE line \notin DOMAIN lineages
      BY <2>2, <1>10
    <2>3. QED
      BY <2>1, <2>2
  <1>15. /\ row0.spent <= Policy[row0.version].budget /\ row0.impact <= Policy[row0.version].impact
         /\ Policy[row0.version].budget \in Nat /\ Policy[row0.version].impact \in Nat
    <2>1. Policy[row0.version].budget \in Nat /\ Policy[row0.version].impact \in Nat
      BY <1>9, LineageAssumption
    <2>2. CASE line \in DOMAIN lineages
      <3>1. h \in 1 .. h
        BY <2>2, <1>9 DEF LineageInv, HeadsPositive
      <3>2. PICK i \in old : transitions[i].head = h
        BY <3>1, <1>11
      <3>3. /\ transitions[i].spent <= Policy[row0.version].budget
            /\ transitions[i].impact <= Policy[row0.version].impact
        BY <2>2 DEF LineageInv, LedgerSound, SpentAddsUp
      <3>4. QED
        BY <2>1, <3>2, <3>3, <1>14
    <2>3. CASE line \notin DOMAIN lineages
      BY <2>1, <2>3
    <2>4. QED
      BY <2>2, <2>3
  <1>16. \A i \in old : transitions[i].outcome # "denied" =>
            Seen(row0, transitions[i].asked.what.class)
    <2>1. CASE line \in DOMAIN lineages
      BY <2>1 DEF LineageInv, ClassesRemembered
    <2>2. CASE line \notin DOMAIN lineages
      BY <2>2, <1>10
    <2>3. QED
      BY <2>1, <2>2
  <1>17. q.what \in Request /\ \A i \in DOMAIN transitions : transitions[i].asked.what \in Request
    BY <1>1, LineageAssumption DEF Asked, Transition
  <1>18. q.kind = "continue" => q.ref = [line |-> line, head |-> h]
    BY DEF Asked
  <1> HIDE DEF k, n, old, h
  <1>19. OneWinner'
    <2> SUFFICES ASSUME NEW l \in DOMAIN lineages'
                 PROVE  /\ {transitions'[i].head : i \in Advances(l)'} = 1 .. lineages'[l].head
                        /\ \A i, j \in Advances(l)' :
                              transitions'[i].head = transitions'[j].head => i = j
                        /\ \A i \in Advances(l)' : transitions'[i].asked.kind = "continue" =>
                              transitions'[i].asked.ref = [line |-> l, head |-> transitions'[i].head - 1]
      BY DEF OneWinner
    <2>1. CASE l # line
      <3>1. l \in DOMAIN lineages /\ lineages'[l] = lineages[l] /\ Advances(l)' = Advances(l)
        BY <2>1, <1>4, <1>7
      <3>2. {transitions'[i].head : i \in Advances(l)} = {transitions[i].head : i \in Advances(l)}
        BY <1>8
      <3>3. QED
        BY <3>1, <3>2, <1>8 DEF LineageInv, LedgerSound, OneWinner
    <2>2. CASE l = line
      <3>1. lineages'[l].head = h + 1 /\ t.head = h + 1
        BY <2>2, <1>2, <1>4 DEF h
      <3>2. {transitions'[i].head : i \in old \cup {k}} = {transitions[i].head : i \in old} \cup {h + 1}
        BY <3>1, <1>3, <1>8 DEF old
      <3>3. (1 .. h) \cup {h + 1} = 1 .. (h + 1)
        BY <1>9
      <3>4. \A i \in old : transitions'[i].head \in 1 .. h
        BY <1>8, <1>13 DEF old
      <3>5. \A i, j \in old \cup {k} : transitions'[i].head = transitions'[j].head => i = j
        <4>1. \A i \in old : transitions'[i].head # transitions'[k].head
          BY <3>1, <3>4, <1>3, <1>9
        <4>2. \A i, j \in old : transitions'[i].head = transitions'[j].head => i = j
          BY <1>8, <1>12 DEF old
        <4>3. QED
          BY <4>1, <4>2
      <3>6. \A i \in old \cup {k} : transitions'[i].asked.kind = "continue" =>
                transitions'[i].asked.ref = [line |-> line, head |-> transitions'[i].head - 1]
        <4>1. t.head - 1 = h
          BY <3>1, <1>9
        <4>2. \A i \in old : transitions'[i].asked.kind = "continue" =>
                transitions'[i].asked.ref = [line |-> line, head |-> transitions'[i].head - 1]
          BY <1>8, <1>12 DEF old
        <4>3. transitions'[k].asked = q /\ transitions'[k].head - 1 = h
          BY <4>1, <1>2, <1>3
        <4>4. QED
          BY <4>2, <4>3, <1>18
      <3>7. QED
        BY <2>2, <3>1, <3>2, <3>3, <3>5, <3>6, <1>7, <1>11
    <2>3. QED
      BY <2>1, <2>2
  <1>20. ChargedOnce'
    BY <1>2, NewReceiptChargedOnce
  <1>21. HeadsPositive'
    BY <1>2, <1>4, <1>9 DEF LineageInv, HeadsPositive, h
  <1>22. ClassesRemembered'
    <2> SUFFICES ASSUME NEW l \in DOMAIN lineages', NEW i \in Advances(l)',
                        transitions'[i].outcome # "denied"
                 PROVE  Seen(lineages'[l], transitions'[i].asked.what.class)
      BY DEF ClassesRemembered, Seen
    <2>1. CASE l # line
      <3>1. l \in DOMAIN lineages /\ lineages'[l] = lineages[l] /\ i \in Advances(l)
        BY <2>1, <1>4, <1>7
      <3>2. QED
        BY <3>1, <1>8 DEF LineageInv, ClassesRemembered
    <2>2. CASE l = line /\ i = k
      BY <2>2, <1>2, <1>3, <1>4
    <2>3. CASE l = line /\ i # k
      <3>1. i \in old /\ transitions'[i] = transitions[i] /\ i \in DOMAIN transitions
        BY <2>3, <1>7, <1>8 DEF old
      <3>2. Seen(row0, transitions[i].asked.what.class) /\ transitions[i].asked.what.class \in Classes
        BY <3>1, <1>16, <1>17 DEF Request
      <3>3. QED
        BY <2>3, <3>1, <3>2, <1>2, <1>4
    <2>4. QED
      BY <2>1, <2>2, <2>3
  <1>23. NoSendAfterRead'
    <2> SUFFICES ASSUME NEW l \in DOMAIN lineages', NEW i \in Advances(l)', NEW j \in Advances(l)',
                        Policy[lineages'[l].version].deny,
                        transitions'[i].outcome # "denied",
                        transitions'[i].asked.what.class = "read",
                        transitions'[j].outcome # "denied",
                        transitions'[j].asked.what.class = "external_send"
                 PROVE  transitions'[j].head < transitions'[i].head
      BY DEF NoSendAfterRead
    <2>1. CASE l # line
      <3>1. l \in DOMAIN lineages /\ lineages'[l] = lineages[l] /\ i \in Advances(l) /\ j \in Advances(l)
        BY <2>1, <1>4, <1>7
      <3>2. QED
        BY <3>1, <1>8 DEF LineageInv, NoSendAfterRead
    <2>2. CASE l = line
      <3>1. i \in old \cup {k} /\ j \in old \cup {k} /\ Policy[row0.version].deny
        BY <2>2, <1>2, <1>4, <1>7
      <3>2. CASE j = k
        <4>1. i # k
          BY <3>2
        <4>2. i \in old /\ transitions'[i] = transitions[i]
          BY <3>1, <4>1, <1>8 DEF old
        <4>3. Seen(row0, "read")
          BY <4>2, <1>16
        <4>4. t.outcome # "denied" /\ q.what.class = "external_send"
          BY <3>2, <1>2, <1>3
        <4>5. Composes(row0, q.what, Policy[row0.version])
          BY <4>4, <1>2
        <4>6. QED
          BY <3>1, <4>3, <4>4, <4>5 DEF Composes
      <3>3. CASE j # k
        <4>1. j \in old /\ transitions'[j] = transitions[j]
          BY <3>1, <3>3, <1>8 DEF old
        <4>2. CASE i = k
          BY <4>1, <4>2, <1>2, <1>3, <1>9, <1>13 DEF h
        <4>3. CASE i # k
          <5>1. i \in old /\ transitions'[i] = transitions[i]
            BY <3>1, <4>3, <1>8 DEF old
          <5>2. line \in DOMAIN lineages /\ lineages[line].version = row0.version
            BY <5>1, <1>10
          <5>3. QED
            BY <3>1, <4>1, <5>1, <5>2 DEF LineageInv, NoSendAfterRead, old
        <4>4. QED
          BY <4>2, <4>3
      <3>4. QED
        BY <3>2, <3>3
    <2>3. QED
      BY <2>1, <2>2
  <1>24. SpentAddsUp'
    <2>1. \A i \in DOMAIN transitions : Charge(i)' = Charge(i)
      BY <1>3 DEF Charge
    <2>2. ASSUME NEW g, g = k
          PROVE  /\ Charge(g)'.spent = IF t.outcome = "denied" THEN 0 ELSE q.what.cost
                 /\ Charge(g)'.impact = IF t.outcome = "denied" THEN 0 ELSE q.what.impact
      BY <2>2, <1>2, <1>3 DEF Charge
    <2>3. t.spent <= Policy[row0.version].budget /\ t.impact <= Policy[row0.version].impact
      BY <1>2, <1>9, <1>15, <1>17 DEF Request
    <2> SUFFICES ASSUME NEW l \in DOMAIN lineages', NEW i \in Advances(l)'
                 PROVE  /\ transitions'[i].head = 1 =>
                              /\ transitions'[i].spent = Charge(i)'.spent
                              /\ transitions'[i].impact = Charge(i)'.impact
                        /\ \A j \in Advances(l)' : transitions'[j].head = transitions'[i].head - 1 =>
                              /\ transitions'[i].spent = transitions'[j].spent + Charge(i)'.spent
                              /\ transitions'[i].impact = transitions'[j].impact + Charge(i)'.impact
                        /\ transitions'[i].head = lineages'[l].head =>
                              /\ transitions'[i].spent = lineages'[l].spent
                              /\ transitions'[i].impact = lineages'[l].impact
                        /\ transitions'[i].spent <= Policy[lineages'[l].version].budget
                        /\ transitions'[i].impact <= Policy[lineages'[l].version].impact
      BY DEF SpentAddsUp
    <2>4. ASSUME NEW m \in DOMAIN lineages, NEW g \in Advances(m)
          PROVE  /\ transitions[g].head = 1 =>
                        /\ transitions[g].spent = Charge(g).spent
                        /\ transitions[g].impact = Charge(g).impact
                 /\ \A j \in Advances(m) : transitions[j].head = transitions[g].head - 1 =>
                        /\ transitions[g].spent = transitions[j].spent + Charge(g).spent
                        /\ transitions[g].impact = transitions[j].impact + Charge(g).impact
                 /\ transitions[g].head = lineages[m].head =>
                        /\ transitions[g].spent = lineages[m].spent
                        /\ transitions[g].impact = lineages[m].impact
                 /\ transitions[g].spent <= Policy[lineages[m].version].budget
                 /\ transitions[g].impact <= Policy[lineages[m].version].impact
      BY DEF LineageInv, LedgerSound, SpentAddsUp
    <2>5. CASE l # line
      <3>1. l \in DOMAIN lineages /\ lineages'[l] = lineages[l] /\ Advances(l)' = Advances(l)
        BY <2>5, <1>4, <1>7
      <3>2. i \in DOMAIN transitions /\ Charge(i)' = Charge(i)
        BY <3>1, <2>1, <1>8
      <3>3. QED
        BY <3>1, <3>2, <2>4, <1>8
    <2>6. CASE l = line /\ i = k
      <3>1. transitions'[i] = t /\ lineages'[l] = next /\ t.head = h + 1
        BY <2>6, <1>2, <1>3, <1>4 DEF h
      <3>2. t.head = 1 => row0.spent = 0 /\ row0.impact = 0
        BY <3>1, <1>9 DEF LineageInv, HeadsPositive, h
      <3>3. ASSUME NEW j \in Advances(l)', transitions'[j].head = transitions'[i].head - 1
            PROVE  transitions'[j].spent = row0.spent /\ transitions'[j].impact = row0.impact
        <4>1. transitions'[j].head = h
          BY <3>1, <3>3, <1>9 DEF h
        <4>2. j # k
          BY <4>1, <3>1, <1>3, <1>9 DEF h
        <4>3. j \in old /\ transitions'[j] = transitions[j]
          BY <2>6, <4>2, <1>7, <1>8 DEF old
        <4>4. QED
          BY <4>1, <4>3, <1>14
      <3>4. t.spent = next.spent /\ t.impact = next.impact /\ next.version = row0.version
        BY <1>2
      <3>5. t.spent = row0.spent + Charge(i)'.spent /\ t.impact = row0.impact + Charge(i)'.impact
        BY <2>2, <2>6, <1>2, <1>9, <1>17 DEF Request
      <3>6. Charge(i)'.spent \in Nat /\ Charge(i)'.impact \in Nat
        BY <2>2, <2>6, <1>17 DEF Request
      <3>7. QED
        BY <2>3, <3>1, <3>2, <3>3, <3>4, <3>5, <3>6
    <2>7. CASE l = line /\ i # k
      <3>1. i \in old /\ i \in DOMAIN transitions /\ transitions'[i] = transitions[i]
            /\ Charge(i)' = Charge(i)
        BY <2>1, <2>7, <1>7, <1>8 DEF old
      <3>2. line \in DOMAIN lineages /\ row0 = lineages[line]
        BY <3>1, <1>10
      <3>3. /\ lineages'[l].head = h + 1 /\ lineages'[l].version = row0.version
            /\ transitions[i].head \in 1 .. h
        BY <2>7, <3>1, <1>2, <1>4, <1>13 DEF h
      <3>4. transitions'[i].head # lineages'[l].head
        BY <3>1, <3>3, <1>9 DEF h
      <3>5. ASSUME NEW j \in Advances(l)', transitions'[j].head = transitions'[i].head - 1
            PROVE  j \in old /\ transitions'[j] = transitions[j]
        <4>1. transitions'[k].head = h + 1
          BY <1>2, <1>3 DEF h
        <4>2. j # k
          BY <3>1, <3>3, <3>5, <4>1, <1>9 DEF h
        <4>3. QED
          BY <2>7, <4>2, <1>7, <1>8 DEF old
      <3>6. QED
        BY <3>1, <3>2, <3>3, <3>4, <3>5, <2>4 DEF old
    <2>8. QED
      BY <2>5, <2>6, <2>7
  <1>25. QED
    BY <1>3, <1>4, <1>5, <1>6, <1>19, <1>20, <1>21, <1>22, <1>23, <1>24

\* Refusal, in the order the code compares: what passes it names the head
\* and was authorized by the manifest of the lineage.
LEMMA RefusalCases ==
    ASSUME NEW q, NEW late
    PROVE  /\ Refusal(q, late) \in {"stale", "revoked", "none"}
           /\ Refusal(q, late) = "none" =>
                 /\ q.ref.head = lineages[q.ref.line].head
                 /\ lineages[q.ref.line].version = q.version
  BY DEF Refusal

LEMMA CommitStep ==
    ASSUME LineageInv, NEW c \in Conns, NEW late \in SUBSET expired, Commit(c, late)
    PROVE  LineageInv'
  <1> DEFINE q == req[c]
  <1>1. /\ at[c] = "commit" /\ Earlier(q) = {} /\ Return(c) /\ UNCHANGED <<manifests, expired>>
        /\ \/ /\ q.kind = "continue"
              /\ IF Refusal(q, late) = "none"
                 THEN Advance(q, q.ref.line, lineages[q.ref.line], "continued")
                 ELSE Refuse(q, Refusal(q, late))
           \/ /\ q.kind = "new_authorization"
              /\ Advance(q, Len(lineages) + 1, Initial(q.version), "new_authorization")
    BY DEF Commit
  <1>2. q \in Asked /\ (q.kind = "continue" => q.ref.line \in DOMAIN lineages)
    BY <1>1 DEF LineageInv, RequestsTyped, LinesStored
  <1>3. /\ DOMAIN lineages = 1 .. Len(lineages) /\ Len(lineages) \in Nat
        /\ \A l \in DOMAIN lineages : lineages[l] \in Lineage
    BY DEF LineageInv, TypeOK
  <1>4. /\ at' \in [Conns -> {"idle", "revoke_lineages", "commit"}]
        /\ \A d \in Conns : at'[d] = "commit" => at[d] = "commit" /\ req'[d] = req[d]
        /\ req' \in [Conns -> Asked \cup Versions \cup {<<>>}]
    BY <1>1, RequestReturns
  <1> HIDE DEF q
  <1>5. /\ transitions' \in Seq(Transition) /\ lineages' \in Seq(Lineage)
        /\ DOMAIN lineages \subseteq DOMAIN lineages'
        /\ \A i \in DOMAIN transitions' : transitions'[i].line \in DOMAIN lineages'
        /\ OneWinner' /\ SpentAddsUp' /\ ChargedOnce' /\ ClassesRemembered'
        /\ NoSendAfterRead' /\ HeadsPositive'
    <2>1. CASE q.kind = "continue" /\ Refusal(q, late) # "none"
      <3>1. Refusal(q, late) \in {"stale", "revoked"}
        BY <2>1, RefusalCases
      <3>2. Refuse(q, Refusal(q, late))
        BY <1>1, <2>1
      <3>3. QED
        BY <1>1, <1>2, <2>1, <3>1, <3>2, RefuseStep
    <2>2. CASE q.kind = "continue" /\ Refusal(q, late) = "none"
      <3> DEFINE line == q.ref.line
                 row0 == lineages[line]
      <3>1. line \in DOMAIN lineages /\ row0 \in Lineage
        BY <1>2, <1>3, <2>2
      <3>2. q.version = row0.version /\ q.ref.head = row0.head
        BY <2>2, RefusalCases
      <3>3. q.ref = [line |-> line, head |-> row0.head]
        BY <1>2, <3>2 DEF Asked
      <3>4. Advance(q, line, row0, "continued")
        BY <1>1, <2>2
      <3> HIDE DEF line, row0
      <3>5. row0 = lineages[line]
        BY DEF row0
      <3>6. QED
        BY <1>1, <1>2, <3>1, <3>2, <3>3, <3>4, <3>5, AdvanceStep
    <2>3. CASE q.kind = "new_authorization"
      <3> DEFINE line == Len(lineages) + 1
                 row0 == Initial(q.version)
      <3>1. /\ row0 \in Lineage /\ row0.version = q.version
            /\ row0.head = 0 /\ row0.spent = 0 /\ row0.impact = 0
        BY <1>2 DEF Initial, Lineage, Asked
      <3>2. line \notin DOMAIN lineages
        BY <1>3
      <3>3. Advance(q, line, row0, "new_authorization")
        BY <1>1, <2>3
      <3>4. line \in DOMAIN lineages \cup {Len(lineages) + 1}
        OBVIOUS
      <3> HIDE DEF line, row0
      <3>5. QED
        BY <1>1, <1>2, <2>3, <3>1, <3>2, <3>3, <3>4, AdvanceStep
    <2>4. QED
      BY <1>1, <2>1, <2>2, <2>3
  <1>6. TypeOK'
    BY <1>1, <1>4, <1>5 DEF LineageInv, TypeOK
  <1>7. RequestsTyped' /\ LinesStored'
    BY <1>4, <1>5 DEF LineageInv, RequestsTyped, LinesStored
  <1>8. QED
    BY <1>5, <1>6, <1>7 DEF LineageInv, LedgerSound

LEMMA LineageStepInv == LineageInv /\ [Next]_vars => LineageInv'
  <1> SUFFICES ASSUME LineageInv, [Next]_vars PROVE LineageInv'
    OBVIOUS
  <1>1. CASE UNCHANGED vars
    <2>1. TypeOK' /\ RequestsTyped' /\ UNCHANGED <<lineages, transitions, at, req>>
      BY <1>1 DEF LineageInv, vars, TypeOK, RequestsTyped
    <2>2. QED
      BY <2>1, QuietLineageStep DEF LineageInv, LinesStored
  <1>2. ASSUME NEW c \in Conns, NEW key \in Keys, NEW what \in Requests, NEW v \in Versions,
               NEW ref \in Known \cup {NoRef}, Ask(c, key, "new_authorization", ref, what, v)
        PROVE  LineageInv'
    BY <1>2, AskStep
  <1>3. ASSUME NEW c \in Conns, NEW key \in Keys, NEW what \in Requests, NEW v \in Versions,
               NEW ref \in Known, Ask(c, key, "continue", ref, what, v)
        PROVE  LineageInv'
    BY <1>3, AskStep
  <1>4. CASE Next
    <2>1. CASE \E v \in Versions : AuthoritySet(v) \/ Expire(v)
      BY <2>1, ManifestSteps
    <2>2. CASE \E c \in Conns : (\E v \in Versions : RevokeManifest(c, v)) \/ RevokeLineages(c)
                                \/ Answer(c) \/ (\E late \in SUBSET expired : Commit(c, late))
      BY <2>2, RevokeManifestStep, RevokeLineagesStep, RequestAnswerStep, CommitStep
    <2>3. QED
      BY <1>2, <1>3, <1>4, <2>1, <2>2 DEF Next
  <1>5. QED
    BY <1>1, <1>4

LEMMA LineageInvariant == Spec => []LineageInv
  BY LineageInitInv, LineageStepInv, PTL DEF Spec

\* action_intent_lineage_path: whatever intents, retries and revocations
\* race, every head of a lineage was made by one receipt, the receipts add
\* up to its budget and stay within it, and no key was charged twice.
THEOREM LineagesSound == Spec => []LedgerSound
  <1>1. LineageInv => LedgerSound
    BY DEF LineageInv
  <1>2. QED
    BY <1>1, LineageInvariant, PTL

\* apply_action: under a policy that denies it no lineage admits a send to
\* the outside after a read it has admitted.
THEOREM SendsPrecedeReads == Spec => []NoSendAfterRead
  <1>1. LineageInv => NoSendAfterRead
    BY DEF LineageInv
  <1>2. QED
    BY <1>1, LineageInvariant, PTL

-----------------------------------------------------------------------------
(* TaskState.                                                              *)

TaskStep == {"idle", "previous", "recall", "resolve", "answer"}
TaskRequest == [spec: Specs, base: 0 .. MaxSequence, evidence: Task!Evidence,
                left: SUBSET Entities, early: BOOLEAN]
Stored == [sequence: 1 .. MaxSequence, spec: Specs, evidence: Task!Evidence]

TaskTyped ==
    /\ row \in Stored \cup {Task!NoRow}
    /\ revision \in [Entities -> 0 .. MaxRevision]
    /\ taskAt \in [Conns -> TaskStep]
    /\ taskReq \in [Conns -> TaskRequest \cup {<<>>}]
    /\ \A c \in Conns : taskAt[c] # "idle" => taskReq[c] \in TaskRequest
    /\ accepted \in Seq(Stored) /\ told \subseteq Stored

Compared(q) ==
    q.base > 0 /\ ~q.early => \E n \in DOMAIN accepted : accepted[n].spec = q.spec

\* The row is the last state that was swapped in.
RowIsLast ==
    /\ row.sequence = Len(accepted)
    /\ accepted # <<>> => row = accepted[Len(accepted)]
OneChain == \A n \in DOMAIN accepted : accepted[n].sequence = n

\* A request that builds on a state and is past the comparison of the
\* specifications has that of a stored state, unless it was let through early.
BasesKnown ==
    \A c \in Conns : taskAt[c] \in {"recall", "resolve"} => Compared(taskReq[c])

\* A request about to be answered made the state it is answered with, and
\* no other has been or will be told that state.
AnswersOwn ==
    /\ \A c \in Conns : taskAt[c] = "answer" =>
        /\ taskReq[c].base + 1 \in DOMAIN accepted
        /\ accepted[taskReq[c].base + 1] = Task!FromRequest(taskReq[c])
        /\ \A d \in Conns \ {c} : taskAt[d] = "answer" => taskReq[d].base # taskReq[c].base
        /\ \A s \in told : s.sequence # taskReq[c].base + 1
    /\ \A s \in told : s.sequence \in DOMAIN accepted /\ accepted[s.sequence] = s

TaskInv == TaskTyped /\ RowIsLast /\ OneChain /\ BasesKnown /\ AnswersOwn

LEMMA RecallTyped ==
    ASSUME TaskTyped, NEW found \in SUBSET Entities
    PROVE  [e \in found |-> revision[e]] \in Task!Evidence
  <1>1. [e \in found |-> revision[e]] \in [found -> 0 .. MaxRevision]
    BY DEF TaskTyped
  <1>2. QED
    BY <1>1 DEF Task!Evidence

LEMMA EvidenceDomain ==
    ASSUME NEW f \in Task!Evidence
    PROVE  DOMAIN f \subseteq Entities
  BY DEF Task!Evidence

LEMMA TaskInitInv == Task!Init => TaskInv
  <1> SUFFICES ASSUME Task!Init PROVE TaskInv
    OBVIOUS
  <1>1. TaskTyped
    BY TaskStateAssumption DEF Task!Init, TaskTyped, TaskStep
  <1>2. RowIsLast /\ OneChain
    BY DEF Task!Init, RowIsLast, OneChain, Task!NoRow
  <1>3. BasesKnown /\ AnswersOwn
    BY DEF Task!Init, BasesKnown, AnswersOwn
  <1>4. QED
    BY <1>1, <1>2, <1>3 DEF TaskInv

\* A step of one request that leaves the task and the told states alone.
QuietStep(c) ==
    /\ UNCHANGED <<row, accepted, told>>
    /\ \E step \in TaskStep \ {"answer"}, q \in TaskRequest \cup {<<>>} :
        /\ Task!Goto(c, step, q)
        /\ step # "idle" =>
            /\ q \in TaskRequest
            /\ step # "previous" => Compared(q)
    /\ Task!Register!Turn

LEMMA QuietPreserves ==
    ASSUME TaskInv, NEW c \in Conns, QuietStep(c),
           revision' \in [Entities -> 0 .. MaxRevision]
    PROVE  TaskInv'
  <1>1. PICK step \in TaskStep \ {"answer"}, q \in TaskRequest \cup {<<>>} :
           /\ Task!Goto(c, step, q)
           /\ step # "idle" =>
               /\ q \in TaskRequest
               /\ step # "previous" => Compared(q)
    BY DEF QuietStep
  <1>2. UNCHANGED <<row, accepted, told>>
    BY DEF QuietStep
  <1>3. taskAt' = [taskAt EXCEPT ![c] = step] /\ taskReq' = [taskReq EXCEPT ![c] = q]
    BY <1>1 DEF Task!Goto
  <1>4. TaskTyped'
    BY <1>1, <1>2, <1>3 DEF TaskInv, TaskTyped, TaskStep
  <1>5. RowIsLast' /\ OneChain'
    BY <1>2 DEF TaskInv, RowIsLast, OneChain
  <1>6. BasesKnown'
    BY <1>1, <1>2, <1>3 DEF TaskInv, TaskTyped, BasesKnown, Compared, TaskStep
  <1>7. AnswersOwn'
    BY <1>1, <1>2, <1>3 DEF TaskInv, TaskTyped, AnswersOwn, TaskStep
  <1>8. QED
    BY <1>4, <1>5, <1>6, <1>7 DEF TaskInv

LEMMA RewritePreserves ==
    ASSUME TaskInv, NEW e \in Entities, Task!Rewrite(e)
    PROVE  TaskInv'
  <1>1. revision' \in [Entities -> 0 .. MaxRevision]
    BY TaskStateAssumption DEF TaskInv, TaskTyped, Task!Rewrite
  <1>2. TaskTyped'
    BY <1>1 DEF TaskInv, TaskTyped, Task!Rewrite
  <1>3. QED
    BY <1>2 DEF TaskInv, Task!Rewrite, RowIsLast, OneChain, BasesKnown, Compared, AnswersOwn

\* A step of one request lets it through early only if there is no state.
LEMMA TurnOf ==
    ASSUME TaskInv, NEW c \in Conns, NEW step, NEW q, Task!Goto(c, step, q),
           UNCHANGED <<accepted, told>>,
           step \in {"recall", "resolve"} /\ q.early => accepted = <<>> \/ c \in Task!Early
    PROVE  Task!Register!Turn
  <1>1. taskAt' = [taskAt EXCEPT ![c] = step] /\ taskReq' = [taskReq EXCEPT ![c] = q]
    BY DEF Task!Goto
  <1>2. ASSUME accepted # <<>>, NEW d \in Task!Early'
        PROVE  d \in Task!Early
    <2>1. d \in Conns /\ taskAt'[d] \in {"recall", "resolve"} /\ taskReq'[d].early
      BY <1>2 DEF Task!Early
    <2>2. CASE d = c
      BY <1>1, <1>2, <2>1, <2>2 DEF TaskInv, TaskTyped
    <2>3. CASE d # c
      BY <1>1, <2>1, <2>3 DEF TaskInv, TaskTyped, Task!Early
    <2>4. QED
      BY <2>2, <2>3
  <1>3. QED
    BY <1>2 DEF Task!Register!Turn

LEMMA AskQuiet ==
    ASSUME TaskInv, NEW c \in Conns, NEW spec \in Specs, NEW base \in 0 .. MaxSequence - 1,
           NEW named \in Task!Evidence, Task!Ask(c, spec, base, named)
    PROVE  QuietStep(c) /\ UNCHANGED revision
  <1> DEFINE q == [spec |-> spec, base |-> base, evidence |-> named, left |-> {},
                   early |-> FALSE]
             step == IF base > 0 THEN "previous" ELSE "recall"
  <1>1. q \in TaskRequest /\ q.base = base /\ ~q.early
    BY TaskStateAssumption DEF TaskRequest
  <1>2. Task!Goto(c, step, q) /\ UNCHANGED <<row, revision, accepted, told>>
    BY DEF Task!Ask
  <1>3. step \in TaskStep \ {"answer"} /\ (step # "previous" => base = 0)
    BY TaskStateAssumption DEF TaskStep
  <1> HIDE DEF q, step
  <1>4. Task!Register!Turn
    BY <1>1, <1>2, TurnOf
  <1>5. QED
    BY <1>1, <1>2, <1>3, <1>4 DEF QuietStep, Compared

LEMMA ReadPreviousQuiet ==
    ASSUME TaskInv, NEW c \in Conns, Task!ReadPrevious(c)
    PROVE  QuietStep(c) /\ UNCHANGED revision
  <1> DEFINE q == [taskReq[c] EXCEPT !.early = (row = Task!NoRow)]
  <1>1. /\ taskReq[c] \in TaskRequest /\ q \in TaskRequest
        /\ q.early = (row = Task!NoRow) /\ q.spec = taskReq[c].spec
    BY DEF Task!ReadPrevious, TaskInv, TaskTyped, TaskRequest
  <1>2. Task!Goto(c, "recall", q) /\ UNCHANGED <<row, revision, accepted, told>>
    BY DEF Task!ReadPrevious
  <1>3. row # Task!NoRow => row.spec = taskReq[c].spec
    BY DEF Task!ReadPrevious
  <1> HIDE DEF q
  <1>4. row # Task!NoRow <=> accepted # <<>>
    BY DEF TaskInv, TaskTyped, RowIsLast, Task!NoRow, Stored
  <1>5. Compared(q)
    <2> SUFFICES ASSUME row # Task!NoRow
                 PROVE  \E n \in DOMAIN accepted : accepted[n].spec = q.spec
      BY <1>1 DEF Compared
    <2>1. Len(accepted) \in DOMAIN accepted /\ row = accepted[Len(accepted)]
      BY <1>4 DEF TaskInv, TaskTyped, RowIsLast
    <2>2. QED
      BY <1>1, <1>3, <2>1
  <1>6. Task!Register!Turn
    BY <1>1, <1>2, <1>4, TurnOf
  <1>7. QED
    BY <1>1, <1>2, <1>5, <1>6 DEF QuietStep, TaskStep

LEMMA RecallQuiet ==
    ASSUME TaskInv, NEW c \in Conns, NEW found \in SUBSET Entities, Task!Recall(c, found)
    PROVE  QuietStep(c) /\ UNCHANGED revision
  <1> DEFINE evidence == IF taskReq[c].evidence = <<>> THEN [e \in found |-> revision[e]]
                         ELSE taskReq[c].evidence
             q == [taskReq[c] EXCEPT !.evidence = evidence, !.left = DOMAIN evidence]
  <1>1. taskReq[c] \in TaskRequest /\ Compared(taskReq[c]) /\ taskAt[c] = "recall"
    BY DEF Task!Recall, TaskInv, TaskTyped, BasesKnown
  <1>2. Task!Goto(c, "resolve", q) /\ UNCHANGED <<row, revision, accepted, told>>
    BY DEF Task!Recall
  <1>3. evidence \in Task!Evidence
    BY <1>1, RecallTyped DEF TaskInv, TaskRequest
  <1>4. DOMAIN evidence \subseteq Entities
    BY <1>3, EvidenceDomain
  <1> HIDE DEF evidence
  <1>5. /\ q \in TaskRequest /\ q.base = taskReq[c].base /\ q.spec = taskReq[c].spec
        /\ q.early = taskReq[c].early
    BY <1>1, <1>3, <1>4 DEF TaskRequest
  <1> HIDE DEF q
  <1>6. Task!Register!Turn
    BY <1>1, <1>2, <1>5, TurnOf DEF Task!Early
  <1>7. QED
    BY <1>1, <1>2, <1>5, <1>6 DEF QuietStep, TaskStep, Compared

LEMMA ResolveQuiet ==
    ASSUME TaskInv, NEW c \in Conns, NEW e \in Entities, Task!Resolve(c, e)
    PROVE  QuietStep(c) /\ UNCHANGED revision
  <1> DEFINE q == [taskReq[c] EXCEPT !.left = @ \ {e}]
  <1>1. taskReq[c] \in TaskRequest /\ Compared(taskReq[c]) /\ taskAt[c] = "resolve"
    BY DEF Task!Resolve, TaskInv, TaskTyped, BasesKnown
  <1>2. Task!Goto(c, "resolve", q) /\ UNCHANGED <<row, revision, accepted, told>>
    BY DEF Task!Resolve
  <1>3. /\ q \in TaskRequest /\ q.base = taskReq[c].base /\ q.spec = taskReq[c].spec
        /\ q.early = taskReq[c].early
    BY <1>1 DEF TaskRequest
  <1> HIDE DEF q
  <1>4. Task!Register!Turn
    BY <1>1, <1>2, <1>3, TurnOf DEF Task!Early
  <1>5. QED
    BY <1>1, <1>2, <1>3, <1>4 DEF QuietStep, TaskStep, Compared

LEMMA FailQuiet ==
    ASSUME TaskInv, NEW c \in Conns, Task!Fail(c)
    PROVE  QuietStep(c) /\ UNCHANGED revision
  <1>1. Task!Goto(c, "idle", <<>>) /\ UNCHANGED <<row, revision, accepted, told>>
    BY DEF Task!Fail, Task!Return
  <1>2. Task!Register!Turn
    BY <1>1, TurnOf
  <1>3. QED
    BY <1>1, <1>2 DEF QuietStep, TaskStep

LEMMA CompareAndSwapStep ==
    ASSUME TaskInv, NEW c \in Conns, Task!CompareAndSwap(c)
    PROVE  TaskInv' /\ Task!Register!Grown
  <1> DEFINE state == Task!FromRequest(taskReq[c])
             n == Len(accepted)
  <1>1. /\ taskReq[c] \in TaskRequest /\ taskReq[c].base = n /\ n \in Nat
        /\ taskReq[c].base < MaxSequence
        /\ n > 0 => taskReq[c].early \/ \E m \in DOMAIN accepted : accepted[m].spec = taskReq[c].spec
        /\ taskAt[c] = "resolve"
    <2>1. /\ taskAt[c] = "resolve" /\ row.sequence = taskReq[c].base
          /\ taskReq[c].base < MaxSequence
      BY DEF Task!CompareAndSwap
    <2>2. taskReq[c] \in TaskRequest
      BY <2>1 DEF TaskInv, TaskTyped
    <2>3. n \in Nat
      BY DEF TaskInv, TaskTyped
    <2>4. row.sequence = n
      BY DEF TaskInv, RowIsLast
    <2>5. QED
      BY <2>1, <2>2, <2>3, <2>4 DEF TaskInv, BasesKnown, Compared
  <1>2. /\ state \in Stored /\ state.sequence = n + 1
        /\ state.spec = taskReq[c].spec
    BY <1>1, TaskStateAssumption DEF Task!FromRequest, TaskRequest, Stored
  <1>3. /\ row' = state /\ accepted' = Append(accepted, state)
        /\ UNCHANGED <<revision, told>>
        /\ taskAt' = [taskAt EXCEPT ![c] = "answer"]
        /\ taskReq' = [taskReq EXCEPT ![c] = taskReq[c]]
    BY DEF Task!CompareAndSwap, Task!Goto
  <1>4. taskReq' = taskReq
    BY <1>3 DEF TaskInv, TaskTyped
  <1>5. /\ accepted \in Seq(Stored) /\ accepted' \in Seq(Stored) /\ Len(accepted') = n + 1
        /\ DOMAIN accepted = 1 .. n /\ DOMAIN accepted' = 1 .. (n + 1)
        /\ \A m \in 1 .. n : accepted'[m] = accepted[m]
        /\ accepted'[n + 1] = state
    BY <1>2, <1>3 DEF TaskInv, TaskTyped
  <1>6. Task!Early' = Task!Early \ {c}
    BY <1>3, <1>4 DEF TaskInv, TaskTyped, Task!Early
  <1> HIDE DEF state, n
  <1>7. TaskTyped'
    BY <1>1, <1>2, <1>3, <1>4, <1>5 DEF TaskInv, TaskTyped, TaskStep
  <1>8. RowIsLast'
    BY <1>1, <1>2, <1>3, <1>5 DEF RowIsLast
  <1>9. OneChain'
    BY <1>1, <1>2, <1>5 DEF TaskInv, OneChain
  <1>10. BasesKnown'
    <2> SUFFICES ASSUME NEW d \in Conns, taskAt'[d] \in {"recall", "resolve"}
                 PROVE  Compared(taskReq[d])'
      BY DEF BasesKnown
    <2>1. taskAt[d] = taskAt'[d] /\ Compared(taskReq[d])
      BY <1>3 DEF TaskInv, TaskTyped, BasesKnown
    <2>2. QED
      BY <1>1, <1>4, <1>5, <2>1 DEF Compared
  <1>11. AnswersOwn'
    <2>1. \A s \in told : s.sequence \in 1 .. n /\ accepted[s.sequence] = s
      BY <1>5 DEF TaskInv, AnswersOwn
    <2>2. \A d \in Conns : taskAt[d] = "answer" =>
            /\ taskReq[d].base + 1 \in 1 .. n
            /\ accepted[taskReq[d].base + 1] = Task!FromRequest(taskReq[d])
            /\ \A e \in Conns \ {d} : taskAt[e] = "answer" => taskReq[e].base # taskReq[d].base
            /\ \A s \in told : s.sequence # taskReq[d].base + 1
      BY <1>5 DEF TaskInv, AnswersOwn
    <2>3. \A s \in told : s.sequence \in 1 .. (n + 1) /\ accepted'[s.sequence] = s
      BY <2>1, <1>1, <1>5
    <2>4. \A d \in Conns : taskAt'[d] = "answer" => d = c \/ taskAt[d] = "answer"
      BY <1>3 DEF TaskInv, TaskTyped
    <2>5. /\ taskReq[c].base + 1 = n + 1
          /\ accepted'[n + 1] = Task!FromRequest(taskReq[c])
      BY <1>1, <1>5 DEF state
    <2>6. ASSUME NEW d \in Conns, taskAt'[d] = "answer"
          PROVE  /\ taskReq[d].base + 1 \in 1 .. (n + 1)
                 /\ accepted'[taskReq[d].base + 1] = Task!FromRequest(taskReq[d])
                 /\ \A e \in Conns \ {d} : taskAt'[e] = "answer" => taskReq[e].base # taskReq[d].base
                 /\ \A s \in told : s.sequence # taskReq[d].base + 1
      <3>1. CASE d = c
        BY <3>1, <1>1, <2>1, <2>2, <2>4, <2>5
      <3>2. CASE d # c
        <4>1. taskAt[d] = "answer"
          BY <2>4, <2>6, <3>2
        <4>2. /\ taskReq[d].base + 1 \in 1 .. n
              /\ accepted[taskReq[d].base + 1] = Task!FromRequest(taskReq[d])
          BY <2>2, <4>1
        <4>3. /\ taskReq[d].base + 1 \in 1 .. (n + 1)
              /\ accepted'[taskReq[d].base + 1] = Task!FromRequest(taskReq[d])
          BY <4>2, <1>1, <1>5
        <4>4. taskReq[d].base \in Nat
          BY <4>1 DEF TaskInv, TaskTyped, TaskRequest
        <4>5. taskReq[d].base # taskReq[c].base
          BY <4>2, <4>4, <1>1
        <4>6. QED
          BY <2>2, <2>4, <4>1, <4>3, <4>5
      <3>3. QED
        BY <3>1, <3>2
    <2>7. QED
      BY <2>3, <2>6, <1>3, <1>4, <1>5 DEF AnswersOwn
  <1>12. Task!Register!Grown
    <2>1. accepted = <<>> <=> n = 0
      BY <1>5 DEF n
    <2>2. \/ accepted = <<>> /\ Task!Early' \subseteq Task!Early
          \/ Task!Register!Specified(state) /\ Task!Early' = Task!Early
          \/ \E client \in Task!Early : Task!Early' = Task!Early \ {client}
      <3>1. CASE c \in Task!Early
        BY <1>6, <3>1
      <3>2. CASE c \notin Task!Early /\ n > 0
        <4>1. ~taskReq[c].early
          BY <1>1, <3>2 DEF Task!Early
        <4>2. QED
          BY <1>1, <1>2, <1>6, <3>2, <4>1 DEF Task!Register!Specified
      <3>3. CASE n = 0
        BY <1>6, <2>1, <3>3
      <3>4. QED
        BY <1>1, <3>1, <3>2, <3>3
    <2>3. Task!Register!Put(state)
      BY <1>2, <1>3, <2>2 DEF Task!Register!Put, n
    <2>4. n + 1 \in DOMAIN accepted' /\ state = accepted'[n + 1]
      BY <1>1, <1>5
    <2>5. QED
      BY <2>3, <2>4 DEF Task!Register!Grown
  <1>13. QED
    BY <1>7, <1>8, <1>9, <1>10, <1>11, <1>12 DEF TaskInv

LEMMA TaskAnswerStep ==
    ASSUME TaskInv, NEW c \in Conns, Task!Answer(c)
    PROVE  TaskInv' /\ (Task!Register!Told \/ UNCHANGED <<accepted, told, Task!Early>>)
  <1> DEFINE state == Task!FromRequest(taskReq[c])
  <1>1. /\ taskAt[c] = "answer" /\ taskReq[c] \in TaskRequest
        /\ taskAt' = [taskAt EXCEPT ![c] = "idle"]
        /\ taskReq' = [taskReq EXCEPT ![c] = <<>>]
        /\ UNCHANGED <<row, revision, accepted>>
        /\ told' = told \cup {state} \/ told' = told
    BY DEF Task!Answer, Task!Return, Task!Goto, TaskInv, TaskTyped
  <1>2. /\ state.sequence = taskReq[c].base + 1
        /\ state.sequence \in DOMAIN accepted /\ accepted[state.sequence] = state
        /\ \A s \in told : s.sequence # state.sequence
    BY <1>1 DEF TaskInv, AnswersOwn, Task!FromRequest
  <1>3. state \in Stored
    BY <1>2 DEF TaskInv, TaskTyped
  <1> HIDE DEF state
  <1>4. TaskTyped'
    BY <1>1, <1>3 DEF TaskInv, TaskTyped, TaskStep
  <1>5. RowIsLast' /\ OneChain'
    BY <1>1 DEF TaskInv, RowIsLast, OneChain
  <1>6. BasesKnown' /\ Task!Early' = Task!Early
    <2>1. BasesKnown'
      BY <1>1 DEF TaskInv, TaskTyped, BasesKnown, Compared
    <2>2. Task!Early' = Task!Early
      BY <1>1 DEF TaskInv, TaskTyped, Task!Early
    <2>3. QED
      BY <2>1, <2>2
  <1>7. AnswersOwn'
    <2>1. \A s \in told' : s.sequence \in DOMAIN accepted /\ accepted[s.sequence] = s
      BY <1>1, <1>2 DEF TaskInv, AnswersOwn
    <2>2. ASSUME NEW d \in Conns, taskAt'[d] = "answer"
          PROVE  /\ d # c /\ taskAt[d] = "answer" /\ taskReq'[d] = taskReq[d]
                 /\ taskReq[d].base # taskReq[c].base /\ taskReq[d].base \in Nat
      BY <1>1, <2>2 DEF TaskInv, TaskTyped, AnswersOwn, TaskRequest
    <2>3. taskReq[c].base \in Nat
      BY <1>1 DEF TaskRequest
    <2>4. \A d \in Conns : taskAt'[d] = "answer" => \A s \in told' : s.sequence # taskReq[d].base + 1
      BY <1>1, <1>2, <2>2, <2>3 DEF TaskInv, AnswersOwn
    <2>5. QED
      BY <1>1, <2>1, <2>2, <2>4 DEF TaskInv, AnswersOwn
  <1>8. CASE told' = told \cup {state}
    <2>1. Task!Register!Tell(state)
      BY <1>1, <1>2, <1>6, <1>8 DEF Task!Register!Tell
    <2>2. QED
      BY <1>4, <1>5, <1>6, <1>7, <1>8, <2>1 DEF TaskInv, Task!Register!Told
  <1>9. CASE told' = told
    BY <1>1, <1>4, <1>5, <1>6, <1>7, <1>9 DEF TaskInv
  <1>10. QED
    BY <1>1, <1>8, <1>9

RegisterStep ==
    [Task!Register!Grown \/ Task!Register!Told \/ Task!Register!Turn]_<<accepted, told, Task!Early>>

LEMMA TaskStepInv ==
    TaskInv /\ [Task!Next]_(Task!vars) =>
        TaskInv' /\ RegisterStep
  <1> SUFFICES ASSUME TaskInv, [Task!Next]_(Task!vars)
               PROVE  TaskInv' /\ RegisterStep
    OBVIOUS
  <1>1. ASSUME NEW c \in Conns, QuietStep(c), UNCHANGED revision
        PROVE  TaskInv' /\ RegisterStep
    BY <1>1, QuietPreserves DEF QuietStep, TaskInv, TaskTyped, RegisterStep
  <1>2. ASSUME NEW e \in Entities, Task!Rewrite(e)
        PROVE  TaskInv' /\ RegisterStep
    BY <1>2, RewritePreserves DEF Task!Rewrite, RegisterStep, Task!Early
  <1>3. ASSUME NEW c \in Conns, NEW spec \in Specs, NEW base \in 0 .. MaxSequence - 1,
               NEW named \in Task!Evidence, Task!Ask(c, spec, base, named)
        PROVE  TaskInv' /\ RegisterStep
    BY <1>1, <1>3, AskQuiet
  <1>4. ASSUME NEW c \in Conns, Task!ReadPrevious(c)
        PROVE  TaskInv' /\ RegisterStep
    BY <1>1, <1>4, ReadPreviousQuiet
  <1>5. ASSUME NEW c \in Conns, NEW found \in SUBSET Entities, Task!Recall(c, found)
        PROVE  TaskInv' /\ RegisterStep
    BY <1>1, <1>5, RecallQuiet
  <1>6. ASSUME NEW c \in Conns, NEW e \in Entities, Task!Resolve(c, e)
        PROVE  TaskInv' /\ RegisterStep
    BY <1>1, <1>6, ResolveQuiet
  <1>7. ASSUME NEW c \in Conns, Task!Fail(c)
        PROVE  TaskInv' /\ RegisterStep
    BY <1>1, <1>7, FailQuiet
  <1>8. CASE UNCHANGED Task!vars
    BY <1>8 DEF Task!vars, TaskInv, TaskTyped, RowIsLast, OneChain, BasesKnown, Compared,
                AnswersOwn, RegisterStep, Task!Early
  <1>9. QED
    BY <1>2, <1>3, <1>4, <1>5, <1>6, <1>7, <1>8, CompareAndSwapStep, TaskAnswerStep
       DEF Task!Next, RegisterStep

\* serve_project_task: for any number of connections and whatever bases they
\* name, every step is one of the register's or leaves it alone, so the stored
\* states are one chain, only a request let through before the first of them
\* brings another specification, and each is told to one client at most, the
\* one that made it.
THEOREM TaskRegisterRefined == Task!Spec => TaskStateImplementsRegister
  <1>1. Task!Init => Task!Register!Init
    BY DEF Task!Init, Task!Register!Init, Task!Early
  <1>2. TaskInv /\ [Task!Next]_(Task!vars) =>
            TaskInv' /\ [Task!Register!Grown \/ Task!Register!Told \/ Task!Register!Turn]_<<accepted, told, Task!Early>>
    BY TaskStepInv DEF RegisterStep
  <1>3. QED
    BY <1>1, <1>2, TaskInitInv, PTL
       DEF Task!Spec, Task!Register!Spec, TaskStateImplementsRegister, Task!ImplementsRegister

=============================================================================
