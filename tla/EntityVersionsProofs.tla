------------------------ MODULE EntityVersionsProofs ------------------------
(***************************************************************************)
(* Proofs about EntityVersions.                                            *)
(*                                                                         *)
(* First, for every set of operations: types, and no empty window and no   *)
(* inverted period is ever stored.  Then, where nothing invalidates or     *)
(* purges: the versions of each workspace partition time, no step rewrites *)
(* the recorded past, and the two temporal reads agree.  Last, with one    *)
(* call at a time: a purge strands no history.                             *)
(***************************************************************************)
EXTENDS MCEntityScenarios, FiniteSetTheorems, NaturalsInduction, WellFoundedInduction, TLAPS

-----------------------------------------------------------------------------
(* Least and greatest elements.                                            *)

\* A nonempty set of naturals has a least element.
LEMMA LeastNat ==
    ASSUME NEW S, S \subseteq Nat, S # {}
    PROVE  Least(S) \in S /\ \A y \in S : Least(S) <= y
<1> DEFINE R == {ss \in Nat \X Nat : ss[1] < ss[2]}
<1>1. IsWellFoundedOn(R, Nat)
  BY NatLessThanWellFounded DEF OpToRel
<1>2. PICK x \in S : \A y \in S : ~(<<y, x>> \in R)
  BY <1>1, WFMin
<1>3. \A y \in S : x <= y
  <2> TAKE y \in S
  <2>1. x \in Nat /\ y \in Nat  OBVIOUS
  <2>2. ~(y < x)  BY <1>2, <2>1
  <2> QED BY <2>1, <2>2
<1> QED BY <1>3 DEF Least

\* A nonempty set with naturals for labels, all at most b, has a member with a
\* greatest label.
LEMMA TopLabel ==
    ASSUME NEW S, S # {}, NEW b \in Nat, NEW f, \A x \in S : f[x] \in Nat /\ f[x] <= b
    PROVE  \E x \in S : \A y \in S : f[y] <= f[x]
<1> DEFINE D == {b - f[x] : x \in S}
<1>1. D \subseteq Nat
  <2> SUFFICES ASSUME NEW x \in S PROVE b - f[x] \in Nat  OBVIOUS
  <2>1. f[x] \in Nat /\ f[x] <= b  OBVIOUS
  <2> QED BY <2>1
<1>2. D # {}  OBVIOUS
<1>3. Least(D) \in D /\ \A d \in D : Least(D) <= d
  <2> HIDE DEF D
  <2> QED BY <1>1, <1>2, LeastNat
<1>4. PICK x \in S : Least(D) = b - f[x]  BY <1>3
<1>5. \A y \in S : f[y] <= f[x]
  <2> TAKE y \in S
  <2>1. b - f[x] <= b - f[y]  BY <1>3, <1>4
  <2>2. f[x] \in Nat /\ f[y] \in Nat  OBVIOUS
  <2> QED BY <2>1, <2>2
<1> QED BY <1>5

\* A nonempty set of naturals that are at most b has a greatest element.
LEMMA GreatestNat ==
    ASSUME NEW S, S \subseteq Nat, S # {}, NEW b \in Nat, \A x \in S : x <= b
    PROVE  Greatest(S) \in S /\ \A y \in S : y <= Greatest(S)
<1> DEFINE f == [x \in S |-> x]
<1>1. \A x \in S : f[x] \in Nat /\ f[x] <= b  OBVIOUS
<1>2. \E x \in S : \A y \in S : f[y] <= f[x]
  <2> HIDE DEF f
  <2> QED BY <1>1, TopLabel
<1>3. \E x \in S : \A y \in S : y <= x  BY <1>2
<1> QED BY <1>3 DEF Greatest
-----------------------------------------------------------------------------
(* What a stored row looks like.                                           *)

Good(v) == v \in Version /\ v.id <= MaxIds /\ (v.to # None => v.from < v.to)
GoodRetired(h) == h \in Retired /\ Good(h.v) /\ h.v.rec < h.inv /\ h.inv <= MaxTime
GoodRows(S) == \A r \in S : Good(r)
GoodHistory(S) == IsFiniteSet(S) /\ \A h \in S : GoodRetired(h)

\* A row that gets a stamp within the bound is a good row of history.
LEMMA GoodSnapshot ==
    ASSUME GoodHistory(hist), clock \in Nat, NEW r, Good(r), Snapshot(r)
    PROVE  GoodHistory(hist') /\ Stamp(r) \in Nat /\ r.rec < Stamp(r) /\ clock <= Stamp(r)
<1> DEFINE h == [v |-> r, inv |-> Stamp(r)]
<1>1. r \in Version /\ r.rec \in Nat  BY DEF Good, Version
<1>2. Stamp(r) \in Nat /\ r.rec < Stamp(r) /\ clock <= Stamp(r) /\ Stamp(r) <= MaxTime
  BY <1>1 DEF Snapshot, Stamp, Later
<1>3. GoodRetired(h)
  BY <1>1, <1>2 DEF GoodRetired, Retired
<1>4. IsFiniteSet(hist \cup {h})
  BY FS_AddElement DEF GoodHistory
<1> QED BY <1>2, <1>3, <1>4 DEF Snapshot, GoodHistory

\* The update branch stores a good row when it does not refuse.
LEMMA GoodUpdate ==
    ASSUME clock \in Nat, NEW r, Good(r), NEW w \in Write, NEW b \in Bodies, ~Refused(r, w)
    PROVE  /\ Good(Updated(r, w, b))
           /\ Updated(r, w, b).ws = r.ws /\ Updated(r, w, b).id = r.id
           /\ Updated(r, w, b).rec = (IF Versioned(r, w) THEN Stamp(r) ELSE r.rec)
           /\ Updated(r, w, b).body = b
<1>1. r \in Version  BY DEF Good
<1>2. /\ r.ws \in Workspaces /\ r.id \in Nat /\ r.from \in Nat /\ r.rec \in Nat
      /\ r.to \in Nat \cup {None} /\ r.archived \in BOOLEAN
  BY <1>1 DEF Version
<1>3. /\ w.body \in Bodies /\ w.status \in Status
      /\ w.from \in Nat \cup {None} /\ w.to \in Nat \cup {None}
  BY DEF Write, Given, Status
<1>4. Stamp(r) \in Nat  BY <1>2 DEF Stamp, Later
<1>5. FromOf(r, w) \in Nat /\ ToOf(r, w) \in Nat \cup {None}
  BY <1>2, <1>3, <1>4 DEF FromOf, ToOf, None
<1>6. ToOf(r, w) # None => FromOf(r, w) < ToOf(r, w)
  <2>1. CASE w.to # None
    <3>1. ToOf(r, w) = w.to  BY <2>1 DEF ToOf
    <3>2. ~(w.to <= FromOf(r, w))  BY <2>1 DEF Refused, Inverted
    <3> QED BY <3>1, <3>2, <1>3, <1>5, <2>1
  <2>2. CASE w.to = None /\ ~Changed(r, w) /\ w.from # None
    <3>1. ToOf(r, w) = r.to /\ FromOf(r, w) = w.from  BY <2>2 DEF ToOf, FromOf
    <3>2. r.to # None => ~(r.to <= w.from)  BY <2>2, <3>1 DEF Refused, Inverted
    <3> QED BY <3>1, <3>2, <1>2, <1>3, <2>2
  <2>3. CASE w.to = None /\ ~Changed(r, w) /\ w.from = None
    <3>1. ToOf(r, w) = r.to /\ FromOf(r, w) = r.from  BY <2>3 DEF ToOf, FromOf
    <3> QED BY <3>1 DEF Good
  <2>4. CASE w.to = None /\ Changed(r, w)
    BY <2>4 DEF ToOf
  <2> QED BY <2>1, <2>2, <2>3, <2>4
<1> DEFINE n == Updated(r, w, b)
<1> DEFINE q == IF Versioned(r, w) THEN Stamp(r) ELSE r.rec
<1>q. q \in Nat  BY <1>2, <1>4
<1>n. n = [r EXCEPT !.body = b, !.status = w.status, !.archived = FALSE,
                    !.from = FromOf(r, w), !.to = ToOf(r, w), !.rec = q]
  BY DEF Updated
<1> HIDE DEF n, q
<1>7. /\ n.ws = r.ws /\ n.id = r.id /\ n.body = b
      /\ n.from = FromOf(r, w) /\ n.to = ToOf(r, w) /\ n.rec = q
  BY <1>1, <1>n DEF Version
<1>8. n \in Version
  BY <1>1, <1>2, <1>3, <1>q, <1>5, <1>n DEF Version
<1>9. n = Updated(r, w, b) /\ q = (IF Versioned(r, w) THEN Stamp(r) ELSE r.rec)  BY DEF n, q
<1>10. Good(n)  BY <1>6, <1>7, <1>8 DEF Good
<1> QED BY <1>7, <1>9, <1>10

\* A set that Before orders and that has bounds has a newest row.
LEMMA NewestRow ==
    ASSUME NEW e, e # {}, \A h \in e : GoodRetired(h)
    PROVE  /\ Newest(e) \in e
           /\ \A g \in e : g.inv <= Newest(e).inv
<1>0. \A h \in e : /\ h.inv \in Nat /\ h.inv <= MaxTime /\ h.v.rec \in Nat /\ h.v.rec <= MaxTime
                   /\ h.v.id \in Nat /\ h.v.id <= MaxIds
  <2> TAKE h \in e
  <2>1. h \in Retired /\ h.v \in Version  BY DEF GoodRetired, Good
  <2>2. h.inv \in Nat /\ h.v.rec \in Nat /\ h.v.id \in Nat  BY <2>1 DEF Retired, Version
  <2>3. h.v.rec < h.inv /\ h.inv <= MaxTime /\ h.v.id <= MaxIds  BY DEF GoodRetired, Good
  <2> QED BY <2>2, <2>3, VersionsAssumption
<1> DEFINE a == [h \in e |-> h.inv]
           b == [h \in e |-> h.v.rec]
           i == [h \in e |-> h.v.id]
<1>1. PICK x \in e : \A y \in e : a[y] <= a[x]
  <2>1. \A y \in e : a[y] \in Nat /\ a[y] <= MaxTime  BY <1>0
  <2> HIDE DEF a
  <2> QED BY <2>1, TopLabel, VersionsAssumption
<1> DEFINE e1 == {h \in e : h.inv = x.inv}
<1>2. PICK y \in e1 : \A z \in e1 : b[z] <= b[y]
  <2>1. \A z \in e1 : b[z] \in Nat /\ b[z] <= MaxTime  BY <1>0
  <2>2. e1 # {}  OBVIOUS
  <2> HIDE DEF b, e1
  <2> QED BY <2>1, <2>2, TopLabel, VersionsAssumption
<1> DEFINE e2 == {h \in e1 : h.v.rec = y.v.rec}
<1>3. PICK z \in e2 : \A u \in e2 : i[u] <= i[z]
  <2>1. \A u \in e2 : i[u] \in Nat /\ i[u] <= MaxIds  BY <1>0
  <2>2. e2 # {}  OBVIOUS
  <2> HIDE DEF i, e2
  <2> QED BY <2>1, <2>2, TopLabel, VersionsAssumption
<1>4. \A g \in e : ~Before(z, g)
  <2> TAKE g \in e
  <2>1. g.inv <= z.inv  BY <1>1, <1>0
  <2>2. g.inv = z.inv => g.v.rec <= z.v.rec  BY <1>2, <1>0
  <2>3. g.inv = z.inv /\ g.v.rec = z.v.rec => g.v.id <= z.v.id  BY <1>3, <1>0
  <2> QED BY <2>1, <2>2, <2>3, <1>0 DEF Before
<1>5. z \in e /\ Newer(z, e) = {}  BY <1>4 DEF Newer
<1>6. Newest(e) \in e /\ Newer(Newest(e), e) = {}  BY <1>5 DEF Newest
<1>7. \A g \in e : ~Before(Newest(e), g)  BY <1>6 DEF Newer
<1>8. \A g \in e : g.inv <= Newest(e).inv
  BY <1>6, <1>7, <1>0 DEF Before
<1> QED BY <1>6, <1>8

\* The tombstone of a set of good rows is a good row that covers exactly the
\* span of the set.
LEMMA GoodTombstone ==
    ASSUME NEW e, e # {}, \A h \in e : GoodRetired(h), NEW w \in Workspaces
    PROVE  LET k == Tombstone(w, e) IN
           /\ GoodRetired(k) /\ k.v.ws = w /\ k.v.body = Digest
           /\ \A h \in e : k.v.rec <= h.v.rec /\ h.inv <= k.inv
           /\ \E h \in e : k.v.rec = h.v.rec
           /\ \E h \in e : k.inv = h.inv
<1> DEFINE k == Tombstone(w, e)
           F == {h.v.from : h \in e}
           Q == {h.v.rec : h \in e}
           I == {h.inv : h \in e}
<1>0. \A h \in e : /\ h.inv \in Nat /\ h.inv <= MaxTime /\ h.v.rec \in Nat /\ h.v.from \in Nat
                   /\ h.v.id \in Nat /\ h.v.id <= MaxIds /\ h.v.rec < h.inv
  <2> TAKE h \in e
  <2>1. h \in Retired /\ h.v \in Version  BY DEF GoodRetired, Good
  <2>2. h.inv \in Nat /\ h.v.rec \in Nat /\ h.v.id \in Nat /\ h.v.from \in Nat  BY <2>1 DEF Retired, Version
  <2>3. h.v.rec < h.inv /\ h.inv <= MaxTime /\ h.v.id <= MaxIds  BY DEF GoodRetired, Good
  <2> QED BY <2>2, <2>3
<1>1. F \subseteq Nat /\ F # {} /\ Q \subseteq Nat /\ Q # {} /\ I \subseteq Nat /\ I # {} /\ \A x \in I : x <= MaxTime
  BY <1>0
<1>2. Least(F) \in Nat
  <2> HIDE DEF F
  <2> QED BY <1>1, LeastNat
<1>3. Least(Q) \in Q /\ \A y \in Q : Least(Q) <= y
  <2> HIDE DEF Q
  <2> QED BY <1>1, LeastNat
<1>4. Greatest(I) \in I /\ \A y \in I : y <= Greatest(I)
  <2> HIDE DEF I
  <2> QED BY <1>1, GreatestNat, VersionsAssumption
<1>5. Newest(e) \in e  BY NewestRow
<1>6. Newest(e).v.id \in Nat /\ Newest(e).v.id <= MaxIds  BY <1>5, <1>0
<1> DEFINE kv == [ws |-> w, id |-> Newest(e).v.id, body |-> Digest, status |-> "compacted",
                  archived |-> FALSE, from |-> Least(F), to |-> None, rec |-> Least(Q)]
<1>7. k = [v |-> kv, inv |-> Greatest(I)]  BY DEF Tombstone
<1>8. kv \in Version
  BY <1>1, <1>2, <1>3, <1>6 DEF Version, Status, None
<1>9. \A h \in e : Least(Q) <= h.v.rec /\ h.inv <= Greatest(I)  BY <1>3, <1>4
<1>10. PICK h0 \in e : Greatest(I) = h0.inv  BY <1>4
<1>11. PICK h1 \in e : Least(Q) = h1.v.rec  BY <1>3
<1>12. Least(Q) < Greatest(I)
  <2>1. Least(Q) \in Nat /\ Least(Q) <= h0.v.rec  BY <1>1, <1>3, <1>9
  <2>2. h0.v.rec \in Nat /\ h0.inv \in Nat /\ h0.v.rec < h0.inv  BY <1>0
  <2> HIDE DEF Q, I
  <2> QED BY <2>1, <2>2, <1>10
<1>13. Greatest(I) \in Nat /\ Greatest(I) <= MaxTime  BY <1>1, <1>4
<1>14. k.v = kv /\ k.inv = Greatest(I)  BY <1>7
<1>15. k \in Retired  BY <1>7, <1>8, <1>13 DEF Retired
<1>16. Good(k.v)  BY <1>14, <1>8, <1>6 DEF Good
<1>17. GoodRetired(k)
  BY <1>14, <1>15, <1>16, <1>12, <1>13 DEF GoodRetired
<1> HIDE DEF k, kv, F, Q, I
<1>18. k.v.ws = w /\ k.v.body = Digest /\ k.v.rec = Least(Q)  BY <1>14 DEF kv
<1> QED BY <1>9, <1>10, <1>11, <1>14, <1>17, <1>18 DEF k

-----------------------------------------------------------------------------
(* The invariant of every set of operations.                               *)

\* A call that is about to write has its arguments and a body to store, and one
\* that is about to insert has checked its period against the stamp it will use.
Remembering == {"called", "mend", "lookup", "insert", "update"}
JobOK(step, j) ==
    /\ step \in Remembering => j.write \in Writes /\ j.body \in Bodies
    /\ step = "insert" =>
          ~Inverted(IF j.write.from = None THEN j.stamp ELSE j.write.from, j.write.to)
Calling ==
    /\ pc \in [Clients -> Steps] /\ job \in [Clients -> Job]
    /\ \A c \in Clients : JobOK(pc[c], job[c])
Sane ==
    /\ clock \in Nat /\ nextId \in Nat
    /\ GoodRows(live) /\ GoodHistory(hist) /\ Calling

\* What the audit keeps, and the bodies that are on their way: each is the body
\* that was given, or a repair of it.
Audited ==
    /\ spans \subseteq Span /\ lossy \subseteq Nat
    /\ \A c \in Clients : pc[c] \in Remembering => Mended(job[c].body, job[c].write.body)
SaneAudit == Sane /\ Audited

\* The call of one client moves on with a proper job.
LEMMA CallingGoto ==
    ASSUME Calling, NEW c \in Clients, NEW step \in Steps, NEW j \in Job, JobOK(step, j),
           Goto(c, step, j)
    PROVE  Calling'
BY DEF Calling, Goto

LEMMA NoJobTyped == NoJob \in Job /\ NoJob.write = NoWrite /\ \A step \in Steps \ Remembering : JobOK(step, NoJob)
BY DEF NoJob, Job, JobOK, Remembering, None, Doomed

LEMMA CallingReturn ==
    ASSUME Calling, NEW c \in Clients, Return(c)
    PROVE  Calling'
BY NoJobTyped, CallingGoto DEF Return, Steps, Remembering

\* A row that is replaced by a good row.
LEMMA GoodReplace ==
    ASSUME GoodRows(live), NEW r, NEW n, Good(n), Replace(r, n)
    PROVE  GoodRows(live')
BY DEF GoodRows, Replace

\* Folding keeps history good.
LEMMA GoodRetention ==
    ASSUME GoodHistory(hist), NEW p, EnforceRetention(p)
    PROVE  GoodHistory(hist')
<1> DEFINE Gone == UNION {Folded(p, w) : w \in Workspaces}
           T == {Tombstone(w, Folded(p, w)) : w \in {x \in Workspaces : Folded(p, x) # {}}}
<1>1. \A w \in Workspaces : Folded(p, w) \subseteq hist
  BY DEF Folded, Evicted, Of
<1>2. IsFiniteSet(T)
  <2> DEFINE Ws == {x \in Workspaces : Folded(p, x) # {}}
  <2>1. IsFiniteSet(Ws)  BY FS_Subset, VersionsAssumption
  <2> DEFINE f == [w \in Ws |-> Tombstone(w, Folded(p, w))]
  <2>2. f \in [Ws -> T] /\ \A k \in T : \E w \in Ws : f[w] = k  OBVIOUS
  <2> HIDE DEF Ws, T, f
  <2>3. f \in Surjection(Ws, T)  BY <2>2 DEF Surjection
  <2> QED BY <2>1, <2>3, FS_Surjection
<1>3. \A k \in T : GoodRetired(k)
  <2> SUFFICES ASSUME NEW w \in Workspaces, Folded(p, w) # {}
               PROVE  GoodRetired(Tombstone(w, Folded(p, w)))  OBVIOUS
  <2>1. \A h \in Folded(p, w) : GoodRetired(h)  BY <1>1 DEF GoodHistory
  <2> QED BY <2>1, GoodTombstone
<1>4. IsFiniteSet(hist \ Gone)  BY FS_Subset DEF GoodHistory
<1>5. hist' = (hist \ Gone) \cup (IF p.tombs THEN T ELSE {})  BY DEF EnforceRetention
<1>6. IsFiniteSet((hist \ Gone) \cup T)
  <2> HIDE DEF Gone, T
  <2> QED BY <1>2, <1>4, FS_Union
<1> HIDE DEF Gone, T
<1>7. IsFiniteSet(hist')
  <2>1. CASE p.tombs  BY <2>1, <1>5, <1>6
  <2>2. CASE ~p.tombs
    <3>1. hist' = hist \ Gone  BY <2>2, <1>5
    <3> QED BY <3>1, <1>4
  <2> QED BY <2>1, <2>2
<1>8. \A h \in hist' : GoodRetired(h)
  BY <1>3, <1>5 DEF GoodHistory
<1> QED BY <1>7, <1>8 DEF GoodHistory

LEMMA InitSane == Init => Sane
<1> SUFFICES ASSUME Init PROVE Sane  OBVIOUS
<1>1. GoodRows(live) /\ GoodHistory(hist)  BY FS_EmptySet DEF Init, GoodRows, GoodHistory
<1>2. Calling  BY NoJobTyped DEF Init, Calling, Steps, Remembering
<1> QED BY <1>1, <1>2 DEF Init, Sane

\* The update branch.
LEMMA SaneUpdate ==
    ASSUME Sane, NEW c \in Clients, Update(c)
    PROVE  Sane'
<1> DEFINE w == job[c].write
           b == job[c].body
<1>1. Calling'  BY CallingReturn DEF Sane, Update
<1>2. clock' = clock /\ nextId' = nextId  BY DEF Update
<1>3. w \in Write /\ b \in Bodies
  BY VersionsAssumption DEF Sane, Calling, JobOK, Remembering, Update
<1>4. GoodRows(live') /\ GoodHistory(hist')
  <2>1. CASE UNCHANGED <<live, hist>>  BY <2>1 DEF Sane
  <2>2. CASE \E r \in ById(job[c].id) :
                /\ ~Refused(r, w) /\ ~Versioned(r, w)
                /\ Replace(r, Updated(r, w, b)) /\ UNCHANGED hist
    <3>1. PICK r \in ById(job[c].id) : ~Refused(r, w) /\ Replace(r, Updated(r, w, b)) /\ hist' = hist
      BY <2>2
    <3>2. Good(r)  BY DEF ById, Sane, GoodRows
    <3> HIDE DEF w, b
    <3>3. Good(Updated(r, w, b))  BY <1>3, <3>1, <3>2, GoodUpdate DEF Sane
    <3> QED BY <3>1, <3>3, GoodReplace DEF Sane
  <2>3. CASE \E r \in ById(job[c].id) :
                /\ ~Refused(r, w) /\ Versioned(r, w)
                /\ Snapshot(r) /\ Replace(r, Updated(r, w, b))
    <3>1. PICK r \in ById(job[c].id) : ~Refused(r, w) /\ Snapshot(r) /\ Replace(r, Updated(r, w, b))
      BY <2>3
    <3>2. Good(r)  BY DEF ById, Sane, GoodRows
    <3> HIDE DEF w, b
    <3>3. Good(Updated(r, w, b))  BY <1>3, <3>1, <3>2, GoodUpdate DEF Sane
    <3>4. GoodRows(live')  BY <3>1, <3>3, GoodReplace DEF Sane
    <3>5. GoodHistory(hist')  BY <3>1, <3>2, GoodSnapshot DEF Sane
    <3> QED BY <3>4, <3>5
  <2> QED BY <2>1, <2>2, <2>3 DEF Update
<1> QED BY <1>1, <1>2, <1>4 DEF Sane

\* Closing a period at t keeps it forward.
LEMMA GoodClose ==
    ASSUME clock \in Nat, NEW r, Good(r), NEW t \in Nat, ~Inverted(r.from, t)
    PROVE  Good([r EXCEPT !.to = t, !.rec = Stamp(r)])
<1> DEFINE n == [r EXCEPT !.to = t, !.rec = Stamp(r)]
<1>1. r \in Version  BY DEF Good
<1>2. r.from \in Nat /\ r.rec \in Nat  BY <1>1 DEF Version
<1>3. Stamp(r) \in Nat  BY <1>2 DEF Stamp, Later
<1>4. n \in Version /\ n.from = r.from /\ n.to = t /\ n.id = r.id  BY <1>1, <1>3 DEF Version
<1>5. r.from < t  BY <1>2 DEF Inverted, None
<1> QED BY <1>4, <1>5 DEF Good

LEMMA SaneClose ==
    ASSUME Sane, NEW c \in Clients, Close(c)
    PROVE  Sane'
<1>0. job[c] \in Job  BY DEF Sane, Calling
<1>1. PICK now \in {job[c].stamp, clock} :
         SetValidTo(c, IF job[c].to = None THEN Later(now, job[c].from + 1) ELSE job[c].to)
  BY DEF Close
<1> DEFINE t == IF job[c].to = None THEN Later(now, job[c].from + 1) ELSE job[c].to
<1>2. t \in Nat  BY <1>0 DEF Job, Later, Sane
<1>3. clock' = clock /\ nextId' = nextId  BY DEF Close
<1>4. SetValidTo(c, t)  BY <1>1
<1> HIDE DEF t
<1>5. JobOK("deprecate", job[c]) /\ "deprecate" \in Steps  BY DEF JobOK, Remembering, Steps
<1>6. Calling'
  BY <1>0, <1>4, <1>5, CallingReturn, CallingGoto DEF SetValidTo, Sane
<1>7. GoodRows(live') /\ GoodHistory(hist')
  <2>1. CASE UNCHANGED <<live, hist>>  BY <2>1 DEF Sane
  <2>2. CASE \E r \in ById(job[c].id) :
                /\ ~Inverted(r.from, t)
                /\ Snapshot(r) /\ Replace(r, [r EXCEPT !.to = t, !.rec = Stamp(r)])
    <3>1. PICK r \in ById(job[c].id) :
             ~Inverted(r.from, t) /\ Snapshot(r) /\ Replace(r, [r EXCEPT !.to = t, !.rec = Stamp(r)])
      BY <2>2
    <3>2. Good(r)  BY DEF ById, Sane, GoodRows
    <3>3. Good([r EXCEPT !.to = t, !.rec = Stamp(r)])  BY <1>2, <3>1, <3>2, GoodClose DEF Sane
    <3>4. GoodRows(live')  BY <3>1, <3>3, GoodReplace DEF Sane
    <3>5. GoodHistory(hist')  BY <3>1, <3>2, GoodSnapshot DEF Sane
    <3> QED BY <3>4, <3>5
  <2> QED BY <2>1, <2>2, <1>4 DEF SetValidTo
<1> QED BY <1>3, <1>6, <1>7 DEF Sane

LEMMA SaneDeprecate ==
    ASSUME Sane, NEW c \in Clients, Deprecate(c)
    PROVE  Sane'
<1>1. Calling'  BY CallingReturn DEF Sane, Deprecate
<1>2. clock' = clock /\ nextId' = nextId  BY DEF Deprecate
<1>3. GoodRows(live') /\ GoodHistory(hist')
  <2>1. CASE UNCHANGED <<live, hist>>  BY <2>1 DEF Sane
  <2>2. CASE \E r \in ById(job[c].id) :
                Snapshot(r) /\ Replace(r, [r EXCEPT !.status = "deprecated", !.rec = Stamp(r)])
    <3>1. PICK r \in ById(job[c].id) :
             Snapshot(r) /\ Replace(r, [r EXCEPT !.status = "deprecated", !.rec = Stamp(r)])
      BY <2>2
    <3>2. Good(r)  BY DEF ById, Sane, GoodRows
    <3>3. Stamp(r) \in Nat /\ GoodHistory(hist')  BY <3>1, <3>2, GoodSnapshot DEF Sane
    <3> DEFINE n == [r EXCEPT !.status = "deprecated", !.rec = Stamp(r)]
    <3>4. n \in Version /\ n.id = r.id /\ n.from = r.from /\ n.to = r.to
      BY <3>2, <3>3 DEF Good, Version, Status
    <3>5. Good(n)  BY <3>2, <3>4 DEF Good
    <3> QED BY <3>1, <3>3, <3>5, GoodReplace DEF Sane
  <2> QED BY <2>1, <2>2 DEF Deprecate
<1> QED BY <1>1, <1>2, <1>3 DEF Sane

LEMMA SaneInsert ==
    ASSUME Sane, NEW c \in Clients, Insert(c)
    PROVE  Sane'
<1> DEFINE w == job[c].write
           from == IF w.from = None THEN job[c].stamp ELSE w.from
           n == [ws |-> w.ws, id |-> nextId, body |-> job[c].body, status |-> w.status, archived |-> FALSE,
                 from |-> from, to |-> w.to, rec |-> job[c].stamp]
<1>1. Calling'  BY CallingReturn DEF Sane, Insert
<1>2. clock' = clock /\ hist' = hist  BY DEF Insert
<1>3. job[c] \in Job /\ JobOK("insert", job[c])  BY DEF Sane, Calling, Insert
<1>4. w \in Write /\ job[c].body \in Bodies /\ ~Inverted(from, w.to)
  BY <1>3, VersionsAssumption DEF JobOK, Remembering
<1>5. job[c].stamp \in Nat  BY <1>3 DEF Job
<1>6. /\ w.ws \in Workspaces /\ job[c].body \in Bodies /\ w.status \in Status
      /\ w.from \in Nat \cup {None} /\ w.to \in Nat \cup {None}
  BY <1>4 DEF Write, Given, Status
<1>7. from \in Nat /\ (w.to # None => from < w.to)
  BY <1>4, <1>5, <1>6 DEF Inverted
<1>8. CASE UNCHANGED <<live, nextId>>  BY <1>1, <1>2, <1>8 DEF Sane
<1>9. CASE nextId <= MaxIds /\ live' = live \cup {n} /\ nextId' = nextId + 1
  <2> HIDE DEF from
  <2>1. n \in Version /\ n.id = nextId /\ n.from = from /\ n.to = w.to
    BY <1>5, <1>6, <1>7 DEF Version, Sane
  <2>2. Good(n)  BY <1>7, <1>9, <2>1 DEF Good
  <2> HIDE DEF n
  <2>3. GoodRows(live')  BY <1>9, <2>2 DEF GoodRows, Sane
  <2> QED BY <1>1, <1>2, <1>9, <2>3 DEF Sane
<1> QED BY <1>8, <1>9 DEF Insert

\* The steps of a call that write nothing.
LEMMA SaneRemember ==
    ASSUME Sane, NEW c \in Clients, Remember(c)
    PROVE  Sane'
<1>1. PICK w \in Writes : Goto(c, "called", [NoJob EXCEPT !.write = w, !.body = w.body, !.stamp = clock])
  BY DEF Remember
<1> DEFINE j == [NoJob EXCEPT !.write = w, !.body = w.body, !.stamp = clock]
<1>0. w.body \in Bodies  BY VersionsAssumption DEF Write
<1>2. j \in Job /\ j.write = w /\ j.body = w.body  BY <1>0, NoJobTyped DEF Job, Sane
<1>3. JobOK("called", j) /\ "called" \in Steps  BY <1>0, <1>2 DEF JobOK, Remembering, Steps
<1> HIDE DEF j
<1>4. Goto(c, "called", j)  BY <1>1 DEF j
<1>5. Calling'  BY <1>2, <1>3, <1>4, CallingGoto DEF Sane
<1> QED BY <1>5 DEF Sane, Remember

LEMMA SaneRepair ==
    ASSUME Sane, NEW c \in Clients, Repair(c)
    PROVE  Sane'
<1> DEFINE b == job[c].body
<1>0. job[c] \in Job /\ job[c].write \in Writes /\ b \in Bodies
  BY DEF Sane, Calling, JobOK, Remembering, Repair
<1>1. Calling'
  <2>1. CASE \E r \in live :
                Goto(c, "mend", [job[c] EXCEPT !.id = r.id, !.body.folded = @ \cup Missing(r.id, b)])
    <3>1. PICK r \in live :
             Goto(c, "mend", [job[c] EXCEPT !.id = r.id, !.body.folded = @ \cup Missing(r.id, b)])
      BY <2>1
    <3>2. r.id \in Nat  BY DEF Sane, GoodRows, Good, Version
    <3> DEFINE j == [job[c] EXCEPT !.id = r.id, !.body.folded = @ \cup Missing(r.id, b)]
    <3>3. Missing(r.id, b) \subseteq Texts  BY DEF Missing
    <3>4. j \in Job /\ j.write = job[c].write /\ j.body \in Bodies
      <4>1. [b EXCEPT !.folded = @ \cup Missing(r.id, b)] \in Bodies  BY <1>0, <3>3 DEF Bodies
      <4>2. j.body = [b EXCEPT !.folded = @ \cup Missing(r.id, b)] /\ j.write = job[c].write
        BY <1>0 DEF Job
      <4>3. j \in Job  BY <1>0, <3>2, <4>1 DEF Job
      <4> QED BY <4>1, <4>2, <4>3
    <3>5. JobOK("mend", j) /\ "mend" \in Steps  BY <1>0, <3>4 DEF JobOK, Remembering, Steps
    <3>6. Goto(c, "mend", j)  BY <3>1
    <3> HIDE DEF j
    <3> QED BY <3>4, <3>5, <3>6, CallingGoto DEF Sane
  <2>2. CASE Goto(c, "lookup", job[c])
    <3>1. JobOK("lookup", job[c]) /\ "lookup" \in Steps  BY <1>0 DEF JobOK, Remembering, Steps
    <3> QED BY <1>0, <2>2, <3>1, CallingGoto DEF Sane
  <2> QED BY <2>1, <2>2 DEF Repair
<1> QED BY <1>1 DEF Sane, Repair

LEMMA SaneClearMark ==
    ASSUME Sane, NEW c \in Clients, ClearMark(c)
    PROVE  Sane'
<1>0. job[c] \in Job /\ job[c].write \in Writes /\ job[c].body \in Bodies
  BY DEF Sane, Calling, JobOK, Remembering, ClearMark
<1> DEFINE j == [job[c] EXCEPT !.id = 0]
<1>1. j \in Job /\ j.write = job[c].write /\ j.body = job[c].body  BY <1>0 DEF Job
<1>2. JobOK("lookup", j) /\ "lookup" \in Steps  BY <1>0, <1>1 DEF JobOK, Remembering, Steps
<1>3. Goto(c, "lookup", j)  BY DEF ClearMark
<1> HIDE DEF j
<1>4. Calling'  BY <1>1, <1>2, <1>3, CallingGoto DEF Sane
<1> QED BY <1>4 DEF Sane, ClearMark

\* The steps of the audit, which leave the rows alone.
LossStep(c) == SpanAudit(c) \/ ReportRefusal(c) \/ ReportSuccess(c) \/ Unmark(c)

LEMMA SaneLoss ==
    ASSUME Sane, spans \subseteq Span, lossy \subseteq Nat, NEW c \in Clients, LossStep(c)
    PROVE  Sane'
<1>1. UNCHANGED <<clock, live, hist, nextId>>
  BY DEF LossStep, SpanAudit, ReportRefusal, ReportSuccess, Unmark
<1>2. Calling'
  <2>1. CASE UNCHANGED <<pc, job>>  BY <2>1 DEF Sane, Calling
  <2>2. CASE Return(c)  BY <2>2, CallingReturn DEF Sane
  <2>3. ASSUME NEW i \in {s.id : s \in spans} \cup lossy, Goto(c, "unmark", [NoJob EXCEPT !.id = i])
        PROVE  Calling'
    <3> DEFINE j == [NoJob EXCEPT !.id = i]
    <3>1. i \in Nat  BY DEF Span
    <3>2. j \in Job  BY <3>1, NoJobTyped DEF Job
    <3>3. JobOK("unmark", j) /\ "unmark" \in Steps  BY DEF JobOK, Remembering, Steps
    <3>4. Goto(c, "unmark", j)  BY <2>3
    <3> HIDE DEF j
    <3> QED BY <3>2, <3>3, <3>4, CallingGoto DEF Sane
  <2> QED BY <2>1, <2>2, <2>3 DEF LossStep, SpanAudit, ReportRefusal, ReportSuccess, Unmark
<1> QED BY <1>1, <1>2 DEF Sane

LEMMA SaneLookup ==
    ASSUME Sane, NEW c \in Clients, Lookup(c)
    PROVE  Sane'
<1> DEFINE w == job[c].write
<1>0. job[c] \in Job /\ w \in Writes /\ job[c].body \in Bodies
  BY DEF Sane, Calling, JobOK, Remembering, Lookup
<1>1. Calling'
  <2>1. CASE \E r \in At(w.ws) : Goto(c, "update", [job[c] EXCEPT !.id = r.id])
    <3>1. PICK r \in At(w.ws) : Goto(c, "update", [job[c] EXCEPT !.id = r.id])  BY <2>1
    <3>2. r.id \in Nat  BY DEF At, Sane, GoodRows, Good, Version
    <3> DEFINE j == [job[c] EXCEPT !.id = r.id]
    <3>3. j \in Job /\ j.write = w /\ j.body = job[c].body  BY <1>0, <3>2 DEF Job
    <3>4. JobOK("update", j) /\ "update" \in Steps  BY <1>0, <3>3 DEF JobOK, Remembering, Steps
    <3>5. Goto(c, "update", j)  BY <3>1
    <3> HIDE DEF j
    <3> QED BY <3>3, <3>4, <3>5, CallingGoto DEF Sane
  <2>2. CASE Return(c)  BY <2>2, CallingReturn DEF Sane
  <2>3. CASE /\ ~Inverted(IF w.from = None THEN job[c].stamp ELSE w.from, w.to)
             /\ Goto(c, "insert", job[c])
    <3>1. JobOK("insert", job[c]) /\ "insert" \in Steps  BY <1>0, <2>3 DEF JobOK, Remembering, Steps
    <3> QED BY <1>0, <2>3, <3>1, CallingGoto DEF Sane
  <2> QED BY <2>1, <2>2, <2>3 DEF Lookup
<1> QED BY <1>1 DEF Sane, Lookup

LEMMA SaneSupersede ==
    ASSUME Sane, NEW c \in Clients, Supersede(c)
    PROVE  Sane'
<1>1. PICK r \in live, t \in Closings :
         Goto(c, "close", [NoJob EXCEPT !.id = r.id, !.from = r.from, !.to = t, !.stamp = clock])
  BY DEF Supersede
<1>2. r.id \in Nat /\ r.from \in Nat  BY DEF Sane, GoodRows, Good, Version
<1>3. t \in Nat \cup {None}  BY VersionsAssumption
<1> DEFINE j == [NoJob EXCEPT !.id = r.id, !.from = r.from, !.to = t, !.stamp = clock]
<1>4. j \in Job  BY <1>2, <1>3, NoJobTyped DEF Job, Sane
<1>5. JobOK("close", j) /\ "close" \in Steps  BY DEF JobOK, Remembering, Steps
<1>6. Goto(c, "close", j)  BY <1>1
<1> HIDE DEF j
<1>7. Calling'  BY <1>4, <1>5, <1>6, CallingGoto DEF Sane
<1> QED BY <1>7 DEF Sane, Supersede

LEMMA SanePickLoser ==
    ASSUME Sane, NEW c \in Clients, PickLoser(c)
    PROVE  Sane'
<1>1. PICK r \in live : Goto(c, "retire", [NoJob EXCEPT !.id = r.id])  BY DEF PickLoser
<1>2. r.id \in Nat  BY DEF Sane, GoodRows, Good, Version
<1> DEFINE j == [NoJob EXCEPT !.id = r.id]
<1>4. j \in Job  BY <1>2, NoJobTyped DEF Job
<1>5. JobOK("retire", j) /\ "retire" \in Steps  BY DEF JobOK, Remembering, Steps
<1>6. Goto(c, "retire", j)  BY <1>1
<1> HIDE DEF j
<1>7. Calling'  BY <1>4, <1>5, <1>6, CallingGoto DEF Sane
<1> QED BY <1>7 DEF Sane, PickLoser

LEMMA SanePurgeScan ==
    ASSUME Sane, NEW c \in Clients, PurgeScan(c)
    PROVE  Sane'
<1> DEFINE d == {[ws |-> r.ws, id |-> r.id] : r \in {s \in live : s.archived}}
           j == [NoJob EXCEPT !.doomed = d]
<1>1. d \subseteq Doomed
  <2> SUFFICES ASSUME NEW r \in live PROVE [ws |-> r.ws, id |-> r.id] \in Doomed  OBVIOUS
  <2>1. r.ws \in Workspaces /\ r.id \in Nat  BY DEF Sane, GoodRows, Good, Version
  <2> QED BY <2>1 DEF Doomed
<1>2. j \in Job
  <2> HIDE DEF d
  <2> QED BY <1>1, NoJobTyped DEF Job
<1>3. JobOK("purge", j) /\ "purge" \in Steps  BY DEF JobOK, Remembering, Steps
<1>4. Goto(c, "purge", j)  BY DEF PurgeScan
<1> HIDE DEF d, j
<1>5. Calling'  BY <1>2, <1>3, <1>4, CallingGoto DEF Sane
<1> QED BY <1>5 DEF Sane, PurgeScan

\* The steps that retire, archive and delete rows.
LEMMA SaneInvalidate ==
    ASSUME Sane, NEW c \in Clients, InvalidateEntity(c)
    PROVE  Sane'
<1>1. Calling'  BY CallingReturn DEF Sane, InvalidateEntity
<1>2. clock' = clock /\ nextId' = nextId  BY DEF InvalidateEntity
<1>3. GoodRows(live') /\ GoodHistory(hist')
  <2>1. CASE UNCHANGED <<live, hist>>  BY <2>1 DEF Sane
  <2>2. CASE \E r \in ById(job[c].id) : Snapshot(r) /\ live' = live \ {r}
    <3>1. PICK r \in ById(job[c].id) : Snapshot(r) /\ live' = live \ {r}  BY <2>2
    <3>2. Good(r)  BY DEF ById, Sane, GoodRows
    <3>3. GoodHistory(hist')  BY <3>1, <3>2, GoodSnapshot DEF Sane
    <3> QED BY <3>1, <3>3 DEF GoodRows, Sane
  <2> QED BY <2>1, <2>2 DEF InvalidateEntity
<1> QED BY <1>1, <1>2, <1>3 DEF Sane

LEMMA SaneForget ==
    ASSUME Sane, NEW c \in Clients, Forget(c)
    PROVE  Sane'
<1>1. GoodRows(live')
  <2>1. \A r \in live : Good([r EXCEPT !.archived = TRUE])
    <3> TAKE r \in live
    <3>1. Good(r)  BY DEF Sane, GoodRows
    <3> DEFINE n == [r EXCEPT !.archived = TRUE]
    <3>2. n \in Version /\ n.id = r.id /\ n.from = r.from /\ n.to = r.to  BY <3>1 DEF Good, Version
    <3> QED BY <3>1, <3>2 DEF Good
  <2> QED BY <2>1 DEF Forget, GoodRows
<1> QED BY <1>1 DEF Sane, Forget, Calling

LEMMA SanePurgeCommit ==
    ASSUME Sane, NEW c \in Clients, PurgeCommit(c)
    PROVE  Sane'
<1>1. Calling'  BY CallingReturn DEF Sane, PurgeCommit
<1>2. GoodRows(live')  BY DEF Sane, GoodRows, PurgeCommit
<1>3. hist' \subseteq hist  BY DEF PurgeCommit
<1>4. GoodHistory(hist')  BY <1>3, FS_Subset DEF Sane, GoodHistory
<1> QED BY <1>1, <1>2, <1>4 DEF Sane, PurgeCommit

\* Every step keeps the invariant.
LEMMA NextSane == SaneAudit /\ [Next]_vars => Sane'
<1> SUFFICES ASSUME SaneAudit, [Next]_vars PROVE Sane'  OBVIOUS
<1>0. Sane /\ spans \subseteq Span /\ lossy \subseteq Nat  BY DEF SaneAudit, Audited
<1> USE <1>0
<1>1. CASE UNCHANGED vars  BY <1>1 DEF Sane, vars, Calling
<1>2. CASE Tick  BY <1>2 DEF Tick, Sane, Calling
<1>3. CASE \E c \in Clients : ClientStep(c)
  <2>1. PICK c \in Clients : ClientStep(c)  BY <1>3
  <2>2. CASE GiveUp(c)
    <3>1. Calling'  BY <2>2, CallingReturn DEF Sane, GiveUp
    <3> QED BY <2>2, <3>1 DEF Sane, GiveUp
  <2>3. CASE LossStep(c)  BY <2>3, SaneLoss
  <2> QED BY <2>1, <2>2, <2>3, SaneRemember, SaneRepair, SaneClearMark, SaneLookup, SaneInsert, SaneUpdate, SaneSupersede, SaneClose,
             SaneDeprecate, SanePickLoser, SaneInvalidate, SaneForget, SanePurgeScan, SanePurgeCommit
          DEF ClientStep, LossStep
<1>4. CASE \E p \in Policies : EnforceRetention(p)
  <2>1. PICK p \in Policies : EnforceRetention(p)  BY <1>4
  <2>2. GoodHistory(hist')  BY <2>1, GoodRetention DEF Sane
  <2> QED BY <2>1, <2>2 DEF Sane, EnforceRetention, Calling
<1> QED BY <1>1, <1>2, <1>3, <1>4 DEF Next

\* A span that is kept stays, and so does a repair made of it.
LEMMA MendedStays ==
    ASSUME \A s \in spans : \E q \in spans' : q.text = s.text,
           NEW a, NEW b, Mended(b, a)
    PROVE  Mended(b, a)'
BY DEF Mended

LEMMA MendedAgain ==
    ASSUME NEW a, NEW b, Mended(b, a), NEW i
    PROVE  Mended([b EXCEPT !.folded = @ \cup Missing(i, b)], a)
<1> DEFINE n == [b EXCEPT !.folded = @ \cup Missing(i, b)]
<1>1. b \in Bodies /\ a \in Bodies /\ b.text = a.text /\ a.folded \subseteq b.folded
  BY DEF Mended
<1>2. Missing(i, b) \subseteq Texts /\ \A t \in Missing(i, b) : \E s \in spans : s.text = t
  BY DEF Missing
<1>3. n \in Bodies /\ n.text = b.text /\ n.folded = b.folded \cup Missing(i, b)
  BY <1>1, <1>2 DEF Bodies
<1> HIDE DEF n
<1>4. \A t \in n.folded \ a.folded : \E s \in spans : s.text = t
  BY <1>2, <1>3 DEF Mended
<1>5. Mended(n, a)  BY <1>1, <1>3, <1>4 DEF Mended
<1> QED BY <1>5 DEF n

LEMMA AuditedGoto ==
    ASSUME SaneAudit, NEW c \in Clients, NEW step, NEW j, Goto(c, step, j), UNCHANGED spans,
           step \in Remembering => Mended(j.body, j.write.body), lossy' \subseteq lossy
    PROVE  Audited'
<1>1. pc \in [Clients -> Steps] /\ job \in [Clients -> Job]  BY DEF SaneAudit, Sane, Calling
<1>2. \A d \in Clients : pc'[d] = (IF d = c THEN step ELSE pc[d]) /\ job'[d] = (IF d = c THEN j ELSE job[d])
  BY <1>1 DEF Goto
<1>3. \A d \in Clients : pc'[d] \in Remembering => Mended(job'[d].body, job'[d].write.body)
  BY <1>2 DEF SaneAudit, Audited
<1>4. \A d \in Clients : pc'[d] \in Remembering => Mended(job[d].body, job[d].write.body)'
  BY <1>3, MendedStays
<1> QED BY <1>4 DEF SaneAudit, Audited

\* Every step keeps what the audit knows.
LEMMA NextAudited == SaneAudit /\ [Next]_vars => Audited'
<1> SUFFICES ASSUME SaneAudit, [Next]_vars PROVE Audited'  OBVIOUS
<1>0. /\ pc \in [Clients -> Steps] /\ job \in [Clients -> Job]
      /\ spans \subseteq Span /\ lossy \subseteq Nat
      /\ \A c \in Clients : pc[c] \in Remembering => Mended(job[c].body, job[c].write.body)
  BY DEF SaneAudit, Sane, Calling, Audited
<1>1. ASSUME UNCHANGED <<pc, job>>, spans' \subseteq Span, lossy' \subseteq Nat,
             \A s \in spans : \E q \in spans' : q.text = s.text
      PROVE  Audited'
  <2>1. \A c \in Clients : pc[c] \in Remembering => Mended(job[c].body, job[c].write.body)'
    BY <1>0, <1>1, MendedStays
  <2> QED BY <1>1, <2>1 DEF Audited
<1>2. CASE UNCHANGED <<pc, job, spans, lossy>>
  <2>1. \A s \in spans : \E q \in spans' : q.text = s.text  BY <1>2
  <2> QED BY <1>0, <1>1, <1>2, <2>1
<1>3. ASSUME NEW c \in Clients, Return(c), UNCHANGED spans, lossy' \subseteq lossy PROVE Audited'
  <2>1. "idle" \notin Remembering  BY DEF Remembering
  <2> QED BY <1>3, <2>1, AuditedGoto DEF Return
<1>4. ASSUME NEW c \in Clients, NEW step \in {"close", "deprecate", "retire", "purge"}, NEW j,
             Goto(c, step, j), UNCHANGED <<spans, lossy>>
      PROVE  Audited'
  <2>1. step \notin Remembering  BY DEF Remembering
  <2> QED BY <1>4, <2>1, AuditedGoto
<1>5. ASSUME NEW c \in Clients, ClientStep(c) PROVE Audited'
  <2>1. CASE Remember(c)
    <3>1. PICK w \in Writes : Goto(c, "called", [NoJob EXCEPT !.write = w, !.body = w.body, !.stamp = clock])
      BY <2>1 DEF Remember
    <3>2. w.body \in Bodies  BY VersionsAssumption DEF Write
    <3> DEFINE j == [NoJob EXCEPT !.write = w, !.body = w.body, !.stamp = clock]
    <3>3. j.write = w /\ j.body = w.body  BY DEF NoJob
    <3>4. Mended(j.body, j.write.body)  BY <3>2, <3>3 DEF Mended
    <3>5. Goto(c, "called", j)  BY <3>1
    <3> HIDE DEF j
    <3> QED BY <2>1, <3>4, <3>5, AuditedGoto DEF Remember
  <2>2. CASE Repair(c)
    <3> DEFINE b == job[c].body
    <3>1. pc[c] \in Remembering /\ UNCHANGED <<spans, lossy>>  BY <2>2 DEF Repair, Remembering
    <3>2. Mended(b, job[c].write.body) /\ job[c] \in Job  BY <1>0, <3>1
    <3>3. ASSUME NEW r \in live,
                 Goto(c, "mend", [job[c] EXCEPT !.id = r.id, !.body.folded = @ \cup Missing(r.id, b)])
          PROVE  Audited'
      <4> DEFINE j == [job[c] EXCEPT !.id = r.id, !.body.folded = @ \cup Missing(r.id, b)]
      <4>1. j.write = job[c].write /\ j.body = [b EXCEPT !.folded = @ \cup Missing(r.id, b)]
        BY <3>2 DEF Job
      <4> HIDE DEF b
      <4>2. Mended(j.body, j.write.body)  BY <3>2, <4>1, MendedAgain
      <4>3. Goto(c, "mend", j)  BY <3>3
      <4> HIDE DEF j
      <4> QED BY <3>1, <4>2, <4>3, AuditedGoto
    <3>4. CASE Goto(c, "lookup", job[c])  BY <3>1, <3>2, <3>4, AuditedGoto
    <3> QED BY <2>2, <3>3, <3>4 DEF Repair
  <2>3. CASE ClearMark(c)
    <3> DEFINE j == [job[c] EXCEPT !.id = 0]
    <3>1. pc[c] \in Remembering /\ spans' = spans /\ lossy' \subseteq lossy /\ Goto(c, "lookup", j)
      BY <2>3 DEF ClearMark, Remembering
    <3>2. j.write = job[c].write /\ j.body = job[c].body  BY <1>0 DEF Job
    <3>3. Mended(j.body, j.write.body)  BY <1>0, <3>1, <3>2
    <3> HIDE DEF j
    <3> QED BY <3>1, <3>3, AuditedGoto
  <2>4. CASE Lookup(c)
    <3>1. pc[c] \in Remembering /\ UNCHANGED <<spans, lossy>>  BY <2>4 DEF Lookup, Remembering
    <3>2. Mended(job[c].body, job[c].write.body) /\ job[c] \in Job  BY <1>0, <3>1
    <3>3. ASSUME NEW r, Goto(c, "update", [job[c] EXCEPT !.id = r.id]) PROVE Audited'
      <4> DEFINE j == [job[c] EXCEPT !.id = r.id]
      <4>1. j.write = job[c].write /\ j.body = job[c].body  BY <3>2 DEF Job
      <4>2. Mended(j.body, j.write.body)  BY <3>2, <4>1
      <4>3. Goto(c, "update", j)  BY <3>3
      <4> HIDE DEF j
      <4> QED BY <3>1, <4>2, <4>3, AuditedGoto
    <3>4. CASE Goto(c, "insert", job[c])  BY <3>1, <3>2, <3>4, AuditedGoto
    <3>5. CASE Return(c)  BY <1>3, <3>1, <3>5
    <3> QED BY <2>4, <3>3, <3>4, <3>5 DEF Lookup
  <2>5. CASE Insert(c) \/ Update(c) \/ GiveUp(c) \/ Deprecate(c) \/ InvalidateEntity(c) \/ PurgeCommit(c)
    <3>1. Return(c) /\ UNCHANGED <<spans, lossy>>
      BY <2>5 DEF Insert, Update, GiveUp, Deprecate, InvalidateEntity, PurgeCommit
    <3> QED BY <1>3, <3>1
  <2>6. CASE Supersede(c)
    <3>1. UNCHANGED <<spans, lossy>> /\ \E j : Goto(c, "close", j)  BY <2>6 DEF Supersede
    <3> QED BY <1>4, <3>1
  <2>7. CASE Close(c)
    <3>1. UNCHANGED <<spans, lossy>> /\ (Return(c) \/ Goto(c, "deprecate", job[c]))
      BY <2>7 DEF Close, SetValidTo
    <3> QED BY <1>3, <1>4, <3>1
  <2>8. CASE PickLoser(c)
    <3>1. UNCHANGED <<spans, lossy>> /\ \E j : Goto(c, "retire", j)  BY <2>8 DEF PickLoser
    <3> QED BY <1>4, <3>1
  <2>9. CASE PurgeScan(c)
    <3>1. UNCHANGED <<spans, lossy>> /\ \E j : Goto(c, "purge", j)  BY <2>9 DEF PurgeScan
    <3> QED BY <1>4, <3>1
  <2>10. CASE Forget(c)  BY <1>2, <2>10 DEF Forget
  <2>11. CASE SpanAudit(c)
    <3>1. PICK r \in live, t \in Texts : spans' = spans \cup {[id |-> r.id, text |-> t, served |-> FALSE]}
      BY <2>11 DEF SpanAudit
    <3>2. r.id \in Nat  BY DEF SaneAudit, Sane, GoodRows, Good, Version
    <3> DEFINE n == [id |-> r.id, text |-> t, served |-> FALSE]
    <3>5. n \in Span
      <4> HIDE DEF SaneAudit
      <4> QED BY ONLY <3>2, t \in Texts DEF Span
    <3>3. spans' \subseteq Span
      <4> HIDE DEF n
      <4>1. spans' = spans \cup {n}  BY <3>1 DEF n
      <4> QED BY <1>0, <3>5, <4>1
    <3>4. \A s \in spans : \E q \in spans' : q.text = s.text  BY <3>1
    <3> QED BY <1>0, <1>1, <2>11, <3>3, <3>4 DEF SpanAudit
  <2>12. CASE ReportRefusal(c)
    <3>1. PICK r \in live :
             \/ \E S \in SUBSET {s \in spans : s.id = r.id /\ ~s.served} :
                   /\ spans' = (spans \ S) \cup {[s EXCEPT !.served = TRUE] : s \in S}
                   /\ lossy' = lossy
             \/ lossy' = lossy \cup {r.id} /\ spans' = spans
      BY <2>12 DEF ReportRefusal
    <3>2. r.id \in Nat  BY DEF SaneAudit, Sane, GoodRows, Good, Version
    <3>3. CASE lossy' = lossy \cup {r.id} /\ spans' = spans
      <4>1. \A s \in spans : \E q \in spans' : q.text = s.text  BY <3>3
      <4> QED BY <1>0, <1>1, <2>12, <3>2, <3>3, <4>1 DEF ReportRefusal
    <3>4. ASSUME NEW S \in SUBSET spans, lossy' = lossy,
                 spans' = (spans \ S) \cup {[s EXCEPT !.served = TRUE] : s \in S}
          PROVE  Audited'
      <4>1. \A s \in S : [s EXCEPT !.served = TRUE] \in Span /\ [s EXCEPT !.served = TRUE].text = s.text
        BY <1>0 DEF Span
      <4>2. spans' \subseteq Span  BY <1>0, <3>4, <4>1
      <4>3. \A s \in spans : \E q \in spans' : q.text = s.text
        <5> TAKE s \in spans
        <5>1. CASE s \in S
          <6>1. [s EXCEPT !.served = TRUE] \in spans'  BY <3>4, <5>1
          <6> QED BY <4>1, <5>1, <6>1
        <5>2. CASE s \notin S  BY <3>4, <5>2
        <5> QED BY <5>1, <5>2
      <4> QED BY <1>0, <1>1, <2>12, <3>4, <4>2, <4>3 DEF ReportRefusal
    <3> QED BY <3>1, <3>3, <3>4
  <2>13. CASE ReportSuccess(c)
    <3>1. PICK i : /\ spans' = {[s EXCEPT !.served = @ /\ s.id # i] : s \in spans}
                   /\ Goto(c, "unmark", [NoJob EXCEPT !.id = i])
      BY <2>13 DEF ReportSuccess
    <3>2. \A s \in spans : /\ [s EXCEPT !.served = @ /\ s.id # i] \in Span
                           /\ [s EXCEPT !.served = @ /\ s.id # i].text = s.text
      BY <1>0 DEF Span
    <3>3. spans' \subseteq Span  BY <3>1, <3>2
    <3>4. \A s \in spans : \E q \in spans' : q.text = s.text
      <4> TAKE s \in spans
      <4>1. [s EXCEPT !.served = @ /\ s.id # i] \in spans'  BY <3>1
      <4> QED BY <3>2, <4>1
    <3>5. pc' = [pc EXCEPT ![c] = "unmark"] /\ \A d \in Clients \ {c} : job'[d] = job[d]
      BY <1>0, <3>1 DEF Goto
    <3>6. \A d \in Clients : pc'[d] \in Remembering => d # c /\ pc[d] = pc'[d]
      BY <1>0, <3>5 DEF Remembering
    <3>7. \A d \in Clients : pc'[d] \in Remembering => Mended(job'[d].body, job'[d].write.body)
      BY <1>0, <3>5, <3>6
    <3>9. \A d \in Clients : pc'[d] \in Remembering => Mended(job[d].body, job[d].write.body)'
      BY <3>4, <3>7, MendedStays
    <3>8. lossy' \subseteq Nat  BY <1>0, <2>13 DEF ReportSuccess
    <3> QED BY <3>3, <3>8, <3>9 DEF Audited
  <2>14. CASE Unmark(c)
    <3>1. Return(c) /\ spans' = spans /\ lossy' \subseteq lossy  BY <2>14 DEF Unmark
    <3> QED BY <1>3, <3>1
  <2> QED BY <1>5, <2>1, <2>2, <2>3, <2>4, <2>5, <2>6, <2>7, <2>8, <2>9, <2>10, <2>11, <2>12, <2>13, <2>14
          DEF ClientStep
<1> QED BY <1>2, <1>5 DEF Next, Tick, EnforceRetention, vars

LEMMA InitAudited == Init => Audited
BY DEF Init, Audited, Remembering

LEMMA SaneInductive == Spec => []SaneAudit
<1>1. Init => SaneAudit  BY InitSane, InitAudited DEF SaneAudit
<1>2. SaneAudit /\ [Next]_vars => SaneAudit'  BY NextSane, NextAudited DEF SaneAudit
<1> QED BY <1>1, <1>2, PTL DEF Spec

\* What the invariant says of the stored rows.
LEMMA SaneImplies == SaneAudit => TypeOK /\ WindowsPositive /\ PeriodsForward
<1> SUFFICES ASSUME Sane, Audited PROVE TypeOK /\ WindowsPositive /\ PeriodsForward  BY DEF SaneAudit
<1>1. live \subseteq Version  BY DEF Sane, GoodRows, Good
<1>2. hist \subseteq Retired  BY DEF Sane, GoodHistory, GoodRetired
<1>3. TypeOK  BY <1>1, <1>2 DEF TypeOK, Sane, Audited, Calling
<1>4. WindowsPositive  BY DEF WindowsPositive, Sane, GoodHistory, GoodRetired
<1>5. \A v \in Stored : Good(v)  BY DEF Stored, Sane, GoodRows, GoodHistory, GoodRetired
<1>6. PeriodsForward  BY <1>5 DEF PeriodsForward, Good
<1> QED BY <1>3, <1>4, <1>6

\* Whatever the clients, the workspaces and the operations are, the variables
\* keep their types.
THEOREM TypeCorrect == Spec => []TypeOK
BY SaneInductive, SaneImplies, PTL

\* However the wall clock moves and the calls interleave, no version is
\* retired with an empty window: the stamp of snapshot_superseded_version is
\* always later than the recorded_at it ends.
THEOREM WindowsStayPositive == Spec => []WindowsPositive
BY SaneInductive, SaneImplies, PTL

\* No interleaving of remember, supersede and retention stores a period that
\* ends before it begins: each transaction checks against the row it writes.
THEOREM PeriodsStayForward == Spec => []PeriodsForward
BY SaneInductive, SaneImplies, PTL

-----------------------------------------------------------------------------
(* Partition, where nothing invalidates or purges.                         *)

\* Partition is not inductive: an insert would break it if history of its
\* workspace were left behind, and a retired row is safe only while the row
\* that ended it stays.
Quiet == \A c \in Clients : pc[c] \notin {"retire", "purge"}
Whole == Sane /\ Audited /\ Partition /\ NoOrphans /\ Quiet

\* Times of stored rows.
LEMMA Times ==
    ASSUME Sane
    PROVE  /\ \A h \in hist : h.v.rec \in Nat /\ h.inv \in Nat /\ h.v.rec < h.inv /\ h.v.id \in Nat
                              /\ h.v.ws \in Workspaces
           /\ \A r \in live : r.rec \in Nat /\ r.ws \in Workspaces
           /\ IsFiniteSet(hist)
<1>1. ASSUME NEW h \in hist
      PROVE  h.v.rec \in Nat /\ h.inv \in Nat /\ h.v.rec < h.inv /\ h.v.id \in Nat /\ h.v.ws \in Workspaces
  <2>1. GoodRetired(h)  BY DEF Sane, GoodHistory
  <2>2. h \in Retired /\ h.v \in Version /\ h.v.rec < h.inv  BY <2>1 DEF GoodRetired, Good
  <2> QED BY <2>2 DEF Retired, Version
<1>2. ASSUME NEW r \in live PROVE r.rec \in Nat /\ r.ws \in Workspaces
  BY DEF Sane, GoodRows, Good, Version
<1> QED BY <1>1, <1>2 DEF Sane, GoodHistory

\* A row is rewritten in place.
LEMMA PartitionRewrite ==
    ASSUME Whole, NEW r \in live, NEW n, n.ws = r.ws, n.rec = r.rec, Replace(r, n), hist' = hist
    PROVE  (Partition /\ NoOrphans)'
<1>1. live' = (live \ {r}) \cup {n}  BY DEF Replace
<1>2. OneLive'  BY <1>1 DEF Whole, Partition, OneLive
<1>3. Disjoint'  BY <1>1 DEF Whole, Partition, Disjoint
<1>4. NoOrphans'  BY <1>1 DEF Whole, NoOrphans
<1>5. Contiguous'
  <2> SUFFICES ASSUME NEW h \in hist PROVE \E v \in Stored' : v.ws = h.v.ws /\ v.rec = h.inv
    BY DEF Contiguous
  <2>1. PICK v \in Stored : v.ws = h.v.ws /\ v.rec = h.inv  BY DEF Whole, Partition, Contiguous
  <2>2. n \in Stored' /\ (v \in Stored' \/ v = r)  BY <1>1 DEF Stored
  <2> QED BY <2>1, <2>2
<1> QED BY <1>2, <1>3, <1>4, <1>5 DEF Partition

\* A row is retired and its next version takes its place.
LEMMA PartitionVersion ==
    ASSUME Whole, NEW r \in live, NEW n, n.ws = r.ws, n.rec = Stamp(r), Snapshot(r), Replace(r, n)
    PROVE  (Partition /\ NoOrphans)'
<1> DEFINE k == [v |-> r, inv |-> Stamp(r)]
<1>1. live' = (live \ {r}) \cup {n} /\ hist' = hist \cup {k}  BY DEF Replace, Snapshot
<1>2. Good(r)  BY DEF Whole, Sane, GoodRows
<1>3. Stamp(r) \in Nat /\ r.rec < Stamp(r)  BY <1>2, GoodSnapshot DEF Whole, Sane
<1>4. k.v = r /\ k.inv = Stamp(r)  OBVIOUS
<1>5. r.rec \in Nat /\ \A h \in hist : h.inv \in Nat /\ h.v.rec \in Nat  BY Times DEF Whole
<1> HIDE DEF k
<1>6. OneLive'  BY <1>1 DEF Whole, Partition, OneLive
<1>7. Disjoint'
  <2>1. \A h \in hist : h.v.ws = r.ws => h.inv <= r.rec  BY DEF Whole, Partition, Disjoint
  <2>2. ASSUME NEW g \in hist', NEW h \in hist', g.v.ws = h.v.ws, g # h
        PROVE  g.inv <= h.v.rec \/ h.inv <= g.v.rec
    <3>1. CASE g \in hist /\ h \in hist  BY <2>2, <3>1 DEF Whole, Partition, Disjoint
    <3>2. CASE g = k /\ h \in hist  BY <2>1, <2>2, <3>2, <1>4
    <3>3. CASE h = k /\ g \in hist  BY <2>1, <2>2, <3>3, <1>4
    <3> QED BY <3>1, <3>2, <3>3, <2>2, <1>1
  <2>3. ASSUME NEW h \in hist', NEW s \in live', h.v.ws = s.ws PROVE h.inv <= s.rec
    <3>1. CASE h \in hist /\ s = n
      <4>1. h.inv <= r.rec  BY <2>1, <2>3, <3>1
      <4> QED BY <4>1, <3>1, <1>3, <1>5
    <3>2. CASE h \in hist /\ s \in live  BY <2>3, <3>2 DEF Whole, Partition, Disjoint
    <3>3. CASE h = k /\ s = n  BY <3>3, <1>3, <1>4
    <3>4. CASE h = k /\ s \in live \ {r}  BY <2>3, <3>4, <1>4 DEF Whole, Partition, OneLive
    <3> QED BY <3>1, <3>2, <3>3, <3>4, <2>3, <1>1
  <2> QED BY <2>2, <2>3 DEF Disjoint
<1>8. NoOrphans'
  <2> SUFFICES ASSUME NEW h \in hist' PROVE \E s \in live' : s.ws = h.v.ws  BY DEF NoOrphans
  <2>1. CASE h = k  BY <2>1, <1>1, <1>4
  <2>2. CASE h \in hist  BY <2>2, <1>1 DEF Whole, NoOrphans
  <2> QED BY <2>1, <2>2, <1>1
<1>9. Contiguous'
  <2> SUFFICES ASSUME NEW h \in hist' PROVE \E v \in Stored' : v.ws = h.v.ws /\ v.rec = h.inv
    BY DEF Contiguous
  <2>1. n \in Stored' /\ r \in Stored' /\ \A v \in Stored : v \in Stored'  BY <1>1, <1>4 DEF Stored
  <2>2. CASE h = k  BY <2>1, <2>2, <1>4
  <2>3. CASE h \in hist  BY <2>1, <2>3 DEF Whole, Partition, Contiguous
  <2> QED BY <2>2, <2>3, <1>1
<1> QED BY <1>6, <1>7, <1>8, <1>9 DEF Partition

\* A row is inserted in a workspace that has none, and so no history either.
LEMMA PartitionInsert ==
    ASSUME Whole, NEW n, At(n.ws) = {}, live' = live \cup {n}, hist' = hist
    PROVE  (Partition /\ NoOrphans)'
<1>1. \A s \in live : s.ws # n.ws  BY DEF At
<1>2. \A h \in hist : h.v.ws # n.ws  BY <1>1 DEF Whole, NoOrphans
<1>3. OneLive'  BY <1>1 DEF Whole, Partition, OneLive
<1>4. Disjoint'  BY <1>2 DEF Whole, Partition, Disjoint
<1>5. NoOrphans'  BY DEF Whole, NoOrphans
<1>6. \A v \in Stored : v \in Stored'  BY DEF Stored
<1>7. Contiguous'  BY <1>6 DEF Whole, Partition, Contiguous
<1> QED BY <1>3, <1>4, <1>5, <1>7 DEF Partition

\* Archiving changes no time and no workspace.
LEMMA PartitionForget ==
    ASSUME Whole, NEW c \in Clients, Forget(c)
    PROVE  (Partition /\ NoOrphans)'
<1> DEFINE A(r) == [r EXCEPT !.archived = TRUE]
<1>1. live' = {A(r) : r \in live} /\ hist' = hist  BY DEF Forget
<1>2. \A r \in live : A(r).ws = r.ws /\ A(r).rec = r.rec
  BY DEF Whole, Sane, GoodRows, Good, Version
<1> HIDE DEF A
<1>3. OneLive'  BY <1>1, <1>2 DEF Whole, Partition, OneLive
<1>4. Disjoint'  BY <1>1, <1>2 DEF Whole, Partition, Disjoint
<1>5. NoOrphans'  BY <1>1, <1>2 DEF Whole, NoOrphans
<1>6. Contiguous'
  <2> SUFFICES ASSUME NEW h \in hist PROVE \E v \in Stored' : v.ws = h.v.ws /\ v.rec = h.inv
    BY <1>1 DEF Contiguous
  <2>1. PICK v \in Stored : v.ws = h.v.ws /\ v.rec = h.inv  BY DEF Whole, Partition, Contiguous
  <2>2. CASE v \in live
    <3>1. A(v) \in Stored'  BY <2>2, <1>1 DEF Stored
    <3> QED BY <3>1, <2>1, <2>2, <1>2
  <2>3. CASE v \in {g.v : g \in hist}
    <3>1. v \in Stored'  BY <2>3, <1>1 DEF Stored
    <3> QED BY <3>1, <2>1
  <2> QED BY <2>2, <2>3 DEF Stored
<1> QED BY <1>3, <1>4, <1>5, <1>6 DEF Partition

\* Retention evicts an old end of each history: what is older than an evicted
\* row is evicted too.
LEMMA EvictedPrefix ==
    ASSUME Sane, NEW p \in Policy, NEW w, NEW e \in Evicted(p, w), NEW s \in Of(w), Before(s, e)
    PROVE  s \in Evicted(p, w)
<1>1. \A h \in hist : h.v.rec \in Nat /\ h.inv \in Nat /\ h.v.id \in Nat  BY Times
<1>2. e \in hist /\ s \in hist  BY DEF Evicted, Of
<1>3. \A g \in hist : Before(e, g) => Before(s, g)  BY <1>1, <1>2 DEF Before
<1>4. Of(w) \subseteq hist  BY DEF Of
<1>5. \A S : S \subseteq hist => /\ Cardinality(Newer(e, S)) \in Nat /\ Cardinality(Newer(s, S)) \in Nat
                                 /\ Cardinality(Newer(e, S)) <= Cardinality(Newer(s, S))
  <2> SUFFICES ASSUME NEW S, S \subseteq hist
               PROVE  /\ Cardinality(Newer(e, S)) \in Nat /\ Cardinality(Newer(s, S)) \in Nat
                      /\ Cardinality(Newer(e, S)) <= Cardinality(Newer(s, S))
    OBVIOUS
  <2>1. Newer(e, S) \subseteq Newer(s, S) /\ Newer(s, S) \subseteq hist  BY <1>3 DEF Newer
  <2>2. IsFiniteSet(hist)  BY Times
  <2>3. IsFiniteSet(Newer(s, S))  BY <2>1, <2>2, FS_Subset
  <2>4. IsFiniteSet(Newer(e, S)) /\ Cardinality(Newer(e, S)) <= Cardinality(Newer(s, S))
    BY <2>1, <2>3, FS_Subset
  <2> QED BY <2>3, <2>4, FS_CardinalityType
<1>6. p.keep \in Nat /\ p.cap \in Nat  BY DEF Policy
<1>7. Cardinality(Newer(e, hist)) >= p.keep \/ Cardinality(Newer(e, Of(w))) >= p.cap
  BY DEF Evicted
<1>8. Cardinality(Newer(s, hist)) >= p.keep \/ Cardinality(Newer(s, Of(w))) >= p.cap
  <2>1. CASE Cardinality(Newer(e, hist)) >= p.keep  BY <2>1, <1>5, <1>6
  <2>2. CASE Cardinality(Newer(e, Of(w))) >= p.cap
    <3>1. Cardinality(Newer(e, Of(w))) \in Nat /\ Cardinality(Newer(s, Of(w))) \in Nat
      BY <1>4, <1>5
    <3>2. Cardinality(Newer(e, Of(w))) <= Cardinality(Newer(s, Of(w)))  BY <1>4, <1>5
    <3> QED BY <2>2, <3>1, <3>2, <1>6
  <2> QED BY <1>7, <2>1, <2>2
<1> QED BY <1>8 DEF Evicted

\* So every row that is folded ends before every row of its workspace that is
\* kept begins.
LEMMA FoldedBeforeKept ==
    ASSUME Sane, Disjoint, NEW p \in Policy, NEW w, NEW e \in Folded(p, w), NEW s \in Of(w),
           s \notin Folded(p, w)
    PROVE  e.inv <= s.v.rec
<1>1. e \in Evicted(p, w) /\ Folded(p, w) = Evicted(p, w)  BY DEF Folded
<1>2. e \in hist /\ s \in hist /\ e.v.ws = w /\ s.v.ws = w  BY <1>1 DEF Evicted, Of
<1>3. e.inv <= s.v.rec \/ s.inv <= e.v.rec  BY <1>1, <1>2 DEF Disjoint
<1>4. s.inv <= e.v.rec => Before(s, e)  BY <1>2, Times DEF Before
<1>5. ~Before(s, e)  BY <1>1, EvictedPrefix
<1> QED BY <1>3, <1>4, <1>5

\* Folding keeps the partition, with tombstones and without.
LEMMA PartitionRetention ==
    ASSUME Whole, NEW p \in Policy, EnforceRetention(p)
    PROVE  (Partition /\ NoOrphans)'
<1> DEFINE F(w) == Folded(p, w)
           K(w) == Tombstone(w, Folded(p, w))
<1>1. live' = live  BY DEF EnforceRetention
<1>2. \A h \in hist' : \/ h \in hist /\ h \notin F(h.v.ws)
                       \/ \E w \in Workspaces : F(w) # {} /\ h = K(w)
  BY Times DEF EnforceRetention, Whole
<1>3. \A h \in hist : h \notin F(h.v.ws) => h \in hist'
  <2> SUFFICES ASSUME NEW h \in hist, h \notin F(h.v.ws) PROVE h \in hist'  OBVIOUS
  <2>1. \A w \in Workspaces : h \notin F(w)  BY DEF Folded, Evicted, Of
  <2> QED BY <2>1 DEF EnforceRetention
<1>4. \A w \in Workspaces : F(w) \subseteq Of(w) /\ Of(w) \subseteq hist
  BY DEF Folded, Evicted, Of
<1>5. \A h \in hist : h.v.rec \in Nat /\ h.inv \in Nat /\ h.v.rec < h.inv  BY Times DEF Whole
<1>6. ASSUME NEW w \in Workspaces, F(w) # {}
      PROVE  /\ K(w).v.ws = w /\ K(w).inv \in Nat /\ K(w).v.rec \in Nat
             /\ \E h \in F(w) : K(w).inv = h.inv
             /\ \A h \in F(w) : h.inv <= K(w).inv
  <2>1. \A h \in F(w) : GoodRetired(h)  BY <1>4 DEF Whole, Sane, GoodHistory
  <2>2. GoodRetired(K(w)) /\ K(w).v.ws = w /\ (\E h \in F(w) : K(w).inv = h.inv)
        /\ \A h \in F(w) : h.inv <= K(w).inv
    BY <1>6, <2>1, GoodTombstone
  <2> HIDE DEF K
  <2>3. K(w) \in Retired /\ K(w).v \in Version  BY <2>2 DEF GoodRetired, Good
  <2>4. K(w).inv \in Nat /\ K(w).v.rec \in Nat  BY <2>3 DEF Retired, Version
  <2> QED BY <2>2, <2>4
<1>7. ASSUME NEW w \in Workspaces, F(w) # {}, NEW s \in hist, s.v.ws = w, s \notin F(w)
      PROVE  K(w).inv <= s.v.rec
  <2>1. PICK h \in F(w) : K(w).inv = h.inv  BY <1>6, <1>7
  <2>2. s \in Of(w)  BY <1>7 DEF Of
  <2>3. h.inv <= s.v.rec  BY <2>2, <1>7, FoldedBeforeKept DEF Whole, Partition
  <2> QED BY <2>1, <2>3
<1> HIDE DEF F, K
<1>8. OneLive'  BY <1>1 DEF Whole, Partition, OneLive
<1>9. NoOrphans'
  <2> SUFFICES ASSUME NEW h \in hist' PROVE \E r \in live : r.ws = h.v.ws
    BY <1>1 DEF NoOrphans
  <2>1. CASE h \in hist  BY <2>1 DEF Whole, NoOrphans
  <2>2. CASE \E w \in Workspaces : F(w) # {} /\ h = K(w)
    <3>1. PICK w \in Workspaces : F(w) # {} /\ h = K(w)  BY <2>2
    <3>2. PICK g \in F(w) : TRUE  BY <3>1
    <3>3. g \in hist /\ g.v.ws = w  BY <3>2, <1>4 DEF Of
    <3>4. h.v.ws = w  BY <3>1, <1>6
    <3> QED BY <3>3, <3>4 DEF Whole, NoOrphans
  <2> QED BY <2>1, <2>2, <1>2
<1>10. Disjoint'
  <2>1. ASSUME NEW g \in hist', NEW h \in hist', g.v.ws = h.v.ws, g # h
        PROVE  g.inv <= h.v.rec \/ h.inv <= g.v.rec
    <3>1. CASE g \in hist /\ h \in hist  BY <2>1, <3>1 DEF Whole, Partition, Disjoint
    <3>2. CASE g \in hist /\ g \notin F(g.v.ws) /\ \E w \in Workspaces : F(w) # {} /\ h = K(w)
      BY <2>1, <3>2, <1>6, <1>7
    <3>3. CASE h \in hist /\ h \notin F(h.v.ws) /\ \E w \in Workspaces : F(w) # {} /\ g = K(w)
      BY <2>1, <3>3, <1>6, <1>7
    <3>4. CASE /\ \E w \in Workspaces : F(w) # {} /\ g = K(w)
               /\ \E w \in Workspaces : F(w) # {} /\ h = K(w)
      BY <2>1, <3>4, <1>6
    <3> QED BY <3>1, <3>2, <3>3, <3>4, <1>2
  <2>2. ASSUME NEW h \in hist', NEW r \in live, h.v.ws = r.ws PROVE h.inv <= r.rec
    <3>1. CASE h \in hist  BY <2>2, <3>1 DEF Whole, Partition, Disjoint
    <3>2. CASE \E w \in Workspaces : F(w) # {} /\ h = K(w)
      <4>1. PICK w \in Workspaces : F(w) # {} /\ h = K(w)  BY <3>2
      <4>2. PICK g \in F(w) : h.inv = g.inv  BY <4>1, <1>6
      <4>3. g \in hist /\ g.v.ws = w /\ h.v.ws = w  BY <4>1, <4>2, <1>4, <1>6 DEF Of
      <4> QED BY <4>2, <4>3, <2>2 DEF Whole, Partition, Disjoint
    <3> QED BY <3>1, <3>2, <1>2
  <2> QED BY <2>1, <2>2, <1>1 DEF Disjoint
<1>11. Contiguous'
  \* Whatever begins where a row of the new history ends is itself kept.
  <2>1. ASSUME NEW w \in Workspaces, NEW h \in hist, h.v.ws = w, NEW g \in F(w), h.inv = g.v.rec
        PROVE  h \in F(w)
    <3>1. g \in hist /\ g.v.rec < g.inv /\ g.v.rec \in Nat /\ g.inv \in Nat  BY <1>4, <1>5
    <3>2. h.v.rec < h.inv /\ h.v.rec \in Nat /\ h.inv \in Nat  BY <1>5
    <3>3. h \in Of(w)  BY <2>1 DEF Of
    <3>4. h \notin F(w) => g.inv <= h.v.rec
      BY <3>3, FoldedBeforeKept DEF Whole, Partition, F
    <3> QED BY <3>1, <3>2, <3>4, <2>1
  <2>2. ASSUME NEW h \in hist, NEW w \in Workspaces, h.v.ws = w,
               \A g \in F(w) : h.inv # g.v.rec
        PROVE  \E v \in Stored' : v.ws = w /\ v.rec = h.inv
    <3>1. PICK v \in Stored : v.ws = w /\ v.rec = h.inv  BY <2>2 DEF Whole, Partition, Contiguous
    <3>2. CASE v \in live  BY <3>1, <3>2, <1>1 DEF Stored
    <3>3. CASE \E g \in hist : v = g.v
      <4>1. PICK g \in hist : v = g.v  BY <3>3
      <4>2. g \notin F(g.v.ws)  BY <4>1, <3>1, <2>2
      <4>3. g \in hist'  BY <4>2, <1>3
      <4>4. v \in Stored'  BY <4>1, <4>3 DEF Stored
      <4> QED BY <4>4, <3>1
    <3> QED BY <3>2, <3>3 DEF Stored
  <2> SUFFICES ASSUME NEW h \in hist' PROVE \E v \in Stored' : v.ws = h.v.ws /\ v.rec = h.inv
    BY DEF Contiguous
  <2>3. CASE h \in hist /\ h \notin F(h.v.ws)
    <3>1. h.v.ws \in Workspaces  BY <2>3, Times DEF Whole
    <3>2. \A g \in F(h.v.ws) : h.inv # g.v.rec  BY <2>1, <2>3, <3>1
    <3> QED BY <2>2, <2>3, <3>1, <3>2
  <2>4. CASE \E w \in Workspaces : F(w) # {} /\ h = K(w)
    <3>1. PICK w \in Workspaces : F(w) # {} /\ h = K(w)  BY <2>4
    <3>2. PICK g \in F(w) : h.inv = g.inv  BY <3>1, <1>6
    <3>3. g \in hist /\ g.v.ws = w /\ h.v.ws = w  BY <3>1, <3>2, <1>4, <1>6 DEF Of
    <3>4. \A e \in F(w) : g.inv # e.v.rec
      <4> TAKE e \in F(w)
      <4>1. e \in hist /\ e.v.rec < e.inv /\ e.v.rec \in Nat /\ e.inv \in Nat  BY <1>4, <1>5
      <4>2. e.inv <= g.inv  BY <3>1, <3>2, <1>6
      <4> QED BY <4>1, <4>2, <3>3, <1>5
    <3>5. \E v \in Stored' : v.ws = w /\ v.rec = g.inv  BY <2>2, <3>3, <3>4
    <3> QED BY <3>2, <3>3, <3>5
  <2> QED BY <2>3, <2>4, <1>2
<1> QED BY <1>8, <1>9, <1>10, <1>11 DEF Partition

Spared == Ops \cap {"invalidate", "purge"} = {}

\* Nobody comes to the steps that delete rows.
LEMMA QuietNext ==
    ASSUME Spared, Sane, Quiet, [Next]_vars
    PROVE  Quiet'
<1>0. pc \in [Clients -> Steps]  BY DEF Sane, Calling
<1>1. CASE UNCHANGED pc  BY <1>1 DEF Quiet
<1>2. CASE \E c \in Clients, step \in Steps \ {"retire", "purge"} : pc' = [pc EXCEPT ![c] = step]
  BY <1>0, <1>2 DEF Quiet
<1>3. CASE \E c \in Clients : ClientStep(c)
  <2>1. PICK c \in Clients : ClientStep(c)  BY <1>3
  <2>2. ~PickLoser(c) /\ ~PurgeScan(c)  BY DEF Spared, PickLoser, PurgeScan, Start
  <2>3. UNCHANGED pc \/ \E step \in Steps \ {"retire", "purge"} : pc' = [pc EXCEPT ![c] = step]
    <3>1. CASE Remember(c)  BY <3>1 DEF Remember, Goto, Steps
    <3>2. CASE Lookup(c)  BY <3>2 DEF Lookup, Return, Goto, Steps
    <3>3. CASE Insert(c)  BY <3>3 DEF Insert, Return, Goto, Steps
    <3>4. CASE Update(c)  BY <3>4 DEF Update, Return, Goto, Steps
    <3>5. CASE GiveUp(c)  BY <3>5 DEF GiveUp, Return, Goto, Steps
    <3>6. CASE Supersede(c)  BY <3>6 DEF Supersede, Goto, Steps
    <3>7. CASE Close(c)  BY <3>7 DEF Close, SetValidTo, Return, Goto, Steps
    <3>8. CASE Deprecate(c)  BY <3>8 DEF Deprecate, Return, Goto, Steps
    <3>9. CASE InvalidateEntity(c)  BY <3>9 DEF InvalidateEntity, Return, Goto, Steps
    <3>10. CASE Forget(c)  BY <3>10 DEF Forget
    <3>11. CASE PurgeCommit(c)  BY <3>11 DEF PurgeCommit, Return, Goto, Steps
    <3>12. CASE Repair(c)  BY <3>12 DEF Repair, Goto, Steps
    <3>13. CASE ClearMark(c)  BY <3>13 DEF ClearMark, Goto, Steps
    <3>14. CASE LossStep(c)
      BY <3>14 DEF LossStep, SpanAudit, ReportRefusal, ReportSuccess, Unmark, Return, Goto, Steps
    <3> QED BY <2>1, <2>2, <3>1, <3>2, <3>3, <3>4, <3>5, <3>6, <3>7, <3>8, <3>9, <3>10, <3>11,
               <3>12, <3>13, <3>14
            DEF ClientStep, LossStep
  <2> QED BY <2>3, <1>1, <1>2
<1> QED BY <1>1, <1>3 DEF Next, Tick, EnforceRetention, vars

LEMMA PartitionSame ==
    ASSUME Whole, UNCHANGED <<live, hist>>
    PROVE  (Partition /\ NoOrphans)'
BY DEF Whole, Partition, OneLive, Disjoint, Contiguous, NoOrphans, Stored

\* What a step of a call does to the rows.
LEMMA RowEffects ==
    ASSUME Sane, NEW c \in Clients, ClientStep(c)
    PROVE  \/ UNCHANGED <<live, hist>>
           \/ \E r \in live : \E n : n.ws = r.ws /\ n.rec = r.rec
                                      /\ Replace(r, n) /\ hist' = hist
                                      /\ pc[c] = "update" /\ n.body = job[c].body
                                      /\ r.body = job[c].write.body
           \/ \E r \in live : \E n : n.ws = r.ws /\ n.rec = Stamp(r) /\ Snapshot(r) /\ Replace(r, n)
           \/ \E n : At(n.ws) = {} /\ live' = live \cup {n} /\ hist' = hist
           \/ Forget(c) \/ InvalidateEntity(c) \/ PurgeCommit(c)
<1>1. CASE \/ Remember(c) \/ Repair(c) \/ ClearMark(c) \/ Lookup(c) \/ GiveUp(c) \/ Supersede(c)
           \/ PickLoser(c) \/ PurgeScan(c) \/ LossStep(c)
  BY <1>1 DEF Remember, Repair, ClearMark, Lookup, GiveUp, Supersede, PickLoser, PurgeScan,
              LossStep, SpanAudit, ReportRefusal, ReportSuccess, Unmark
<1>2. CASE Insert(c)
  <2> DEFINE n == [ws |-> job[c].write.ws, id |-> nextId, body |-> job[c].body,
                   status |-> job[c].write.status, archived |-> FALSE,
                   from |-> IF job[c].write.from = None THEN job[c].stamp ELSE job[c].write.from,
                   to |-> job[c].write.to, rec |-> job[c].stamp]
  <2>1. n.ws = job[c].write.ws  OBVIOUS
  <2>2. UNCHANGED <<live, hist>> \/ (At(job[c].write.ws) = {} /\ live' = live \cup {n} /\ hist' = hist)
    BY <1>2 DEF Insert
  <2> HIDE DEF n
  <2> QED BY <2>1, <2>2
<1>3. CASE Update(c)
  <2> DEFINE w == job[c].write
             b == job[c].body
  <2>1. w \in Write /\ b \in Bodies /\ pc[c] = "update"
    BY <1>3, VersionsAssumption DEF Sane, Calling, JobOK, Remembering, Update
  <2>2. CASE UNCHANGED <<live, hist>>  BY <2>2
  <2>3. CASE \E r \in ById(job[c].id) :
                /\ ~Refused(r, w) /\ ~Versioned(r, w)
                /\ Replace(r, Updated(r, w, b)) /\ UNCHANGED hist
    <3>1. PICK r \in ById(job[c].id) :
             ~Refused(r, w) /\ ~Versioned(r, w) /\ Replace(r, Updated(r, w, b)) /\ hist' = hist
      BY <2>3
    <3>2. r \in live /\ Good(r)  BY DEF ById, Sane, GoodRows
    <3> HIDE DEF w, b
    <3>3. /\ Updated(r, w, b).ws = r.ws /\ Updated(r, w, b).rec = r.rec /\ Updated(r, w, b).body = b
      BY <2>1, <3>1, <3>2, GoodUpdate DEF Sane
    <3>4. w.body = r.body  BY <3>1 DEF Versioned, Changed
    <3>5. w.body = job[c].write.body /\ b = job[c].body  BY DEF w, b
    <3> QED BY <2>1, <3>1, <3>2, <3>3, <3>4, <3>5
  <2>4. CASE \E r \in ById(job[c].id) :
                /\ ~Refused(r, w) /\ Versioned(r, w)
                /\ Snapshot(r) /\ Replace(r, Updated(r, w, b))
    <3>1. PICK r \in ById(job[c].id) :
             ~Refused(r, w) /\ Versioned(r, w) /\ Snapshot(r) /\ Replace(r, Updated(r, w, b))
      BY <2>4
    <3>2. r \in live /\ Good(r)  BY DEF ById, Sane, GoodRows
    <3> HIDE DEF w, b
    <3>3. Updated(r, w, b).ws = r.ws /\ Updated(r, w, b).rec = Stamp(r)
      BY <2>1, <3>1, <3>2, GoodUpdate DEF Sane
    <3> QED BY <3>1, <3>2, <3>3
  <2> QED BY <1>3, <2>2, <2>3, <2>4 DEF Update
<1>4. CASE Close(c)
  <2>1. PICK t : SetValidTo(c, t)  BY <1>4 DEF Close
  <2>2. CASE UNCHANGED <<live, hist>>  BY <2>2
  <2>3. CASE \E r \in ById(job[c].id) :
                Snapshot(r) /\ Replace(r, [r EXCEPT !.to = t, !.rec = Stamp(r)])
    <3>1. PICK r \in ById(job[c].id) : Snapshot(r) /\ Replace(r, [r EXCEPT !.to = t, !.rec = Stamp(r)])
      BY <2>3
    <3>2. r \in live /\ r \in Version  BY DEF ById, Sane, GoodRows, Good
    <3> DEFINE n == [r EXCEPT !.to = t, !.rec = Stamp(r)]
    <3>3. n.ws = r.ws /\ n.rec = Stamp(r)  BY <3>2 DEF Version
    <3> QED BY <3>1, <3>2, <3>3
  <2> QED BY <2>1, <2>2, <2>3 DEF SetValidTo
<1>5. CASE Deprecate(c)
  <2>2. CASE UNCHANGED <<live, hist>>  BY <2>2
  <2>3. CASE \E r \in ById(job[c].id) :
                Snapshot(r) /\ Replace(r, [r EXCEPT !.status = "deprecated", !.rec = Stamp(r)])
    <3>1. PICK r \in ById(job[c].id) :
             Snapshot(r) /\ Replace(r, [r EXCEPT !.status = "deprecated", !.rec = Stamp(r)])
      BY <2>3
    <3>2. r \in live /\ r \in Version  BY DEF ById, Sane, GoodRows, Good
    <3> DEFINE n == [r EXCEPT !.status = "deprecated", !.rec = Stamp(r)]
    <3>3. n.ws = r.ws /\ n.rec = Stamp(r)  BY <3>2 DEF Version
    <3> QED BY <3>1, <3>2, <3>3
  <2> QED BY <1>5, <2>2, <2>3 DEF Deprecate
<1> QED BY <1>1, <1>2, <1>3, <1>4, <1>5 DEF ClientStep, LossStep

\* Nothing invalidates or purges while everyone is quiet.
LEMMA QuietEffects ==
    ASSUME Whole, NEW c \in Clients
    PROVE  Sane /\ ~InvalidateEntity(c) /\ ~PurgeCommit(c)
BY DEF Whole, Quiet, InvalidateEntity, PurgeCommit

LEMMA WholeNext ==
    ASSUME Spared, Whole, [Next]_vars
    PROVE  Whole'
<1>1. Sane' /\ Audited'  BY NextSane, NextAudited DEF Whole, SaneAudit
<1>2. Quiet'  BY QuietNext DEF Whole
<1>3. (Partition /\ NoOrphans)'
  <2>1. CASE UNCHANGED vars \/ Tick  BY <2>1, PartitionSame DEF vars, Tick
  <2>2. CASE \E c \in Clients : ClientStep(c)
    BY <2>2, RowEffects, QuietEffects, PartitionSame, PartitionRewrite, PartitionVersion, PartitionInsert, PartitionForget
  <2>3. CASE \E p \in Policies : EnforceRetention(p)
    BY <2>3, PartitionRetention, VersionsAssumption
  <2> QED BY <2>1, <2>2, <2>3 DEF Next
<1> QED BY <1>1, <1>2, <1>3 DEF Whole

LEMMA InitWhole == Init => Whole
<1> SUFFICES ASSUME Init PROVE Whole  OBVIOUS
<1>1. Sane /\ Audited  BY InitSane, InitAudited
<1>2. Partition /\ NoOrphans
  BY DEF Init, Partition, OneLive, Disjoint, Contiguous, NoOrphans
<1>3. Quiet  BY DEF Init, Quiet
<1> QED BY <1>1, <1>2, <1>3 DEF Whole

\* Where rows are only remembered, superseded, forgotten and folded, with any
\* number of clients, workspaces and policies and any clock, the versions of a
\* workspace partition time: no gap, no overlap, one live row.
THEOREM PartitionHolds == Spared => (Spec => []Partition)
<1> SUFFICES ASSUME Spared PROVE Spec => []Partition  OBVIOUS
<1>1. Init => Whole  BY InitWhole
<1>2. Whole /\ [Next]_vars => Whole'  BY WholeNext
<1>3. Whole => Partition  BY DEF Whole
<1> QED BY <1>1, <1>2, <1>3, PTL DEF Spec

-----------------------------------------------------------------------------
(* The recorded past, in a store with one workspace and tombstones kept.   *)

OneWorkspace == \A w, x \in Workspaces : w = x
TombsKept == \A p \in Policies : p.tombs

\* The versions current at t.
Current(t) == {h.v : h \in Windows(t)} \cup {r \in live : r.rec <= t}

\* as_of picks the version current at t, and there is no other: because the
\* versions partition time, neither the order nor the preference for history
\* in its query matters.
LEMMA PickedIsCurrent ==
    OneWorkspace /\ Whole => \A t \in Nat : Picked(t) = Current(t) /\ \A u, v \in Current(t) : u = v
<1> SUFFICES ASSUME OneWorkspace, Whole, NEW t \in Nat
             PROVE  Picked(t) = Current(t) /\ \A u, v \in Current(t) : u = v
  OBVIOUS
<1>1. /\ \A h \in hist : h.v.rec \in Nat /\ h.inv \in Nat /\ h.v.rec < h.inv /\ h.v.ws \in Workspaces
      /\ \A r \in live : r.rec \in Nat /\ r.ws \in Workspaces
  BY Times DEF Whole
<1>2. \A g, h \in Windows(t) : g = h
  <2> SUFFICES ASSUME NEW g \in Windows(t), NEW h \in Windows(t), g # h PROVE FALSE  OBVIOUS
  <2>1. g \in hist /\ h \in hist /\ g.v.rec <= t /\ t < g.inv /\ h.v.rec <= t /\ t < h.inv
    BY DEF Windows
  <2>2. g.v.ws = h.v.ws  BY <2>1, <1>1 DEF OneWorkspace
  <2>3. g.inv <= h.v.rec \/ h.inv <= g.v.rec  BY <2>1, <2>2 DEF Whole, Partition, Disjoint
  <2> QED BY <2>1, <2>3, <1>1
<1>3. \A h \in Windows(t), r \in live : ~(r.rec <= t)
  <2> SUFFICES ASSUME NEW h \in Windows(t), NEW r \in live, r.rec <= t PROVE FALSE  OBVIOUS
  <2>1. h \in hist /\ t < h.inv  BY DEF Windows
  <2>2. h.v.ws = r.ws  BY <2>1, <1>1 DEF OneWorkspace
  <2>3. h.inv <= r.rec  BY <2>1, <2>2 DEF Whole, Partition, Disjoint
  <2> QED BY <2>1, <2>3, <1>1
<1>4. \A r, s \in live : r = s  BY <1>1 DEF OneWorkspace, Whole, Partition, OneLive
<1>5. CASE Windows(t) = {}  BY <1>4, <1>5 DEF Picked, Current
<1>6. CASE Windows(t) # {}
  <2>1. {g \in Windows(t) : \A k \in Windows(t) : g.inv <= k.inv} = Windows(t)
    <3>1. Windows(t) \subseteq hist  BY DEF Windows
    <3>2. \A g, k \in Windows(t) : g.inv <= k.inv  BY <1>1, <1>2, <3>1
    <3> QED BY <3>2
  <2>2. {r \in live : r.rec <= t} = {}  BY <1>3, <1>6
  <2> QED BY <1>2, <1>6, <2>1, <2>2 DEF Picked, Current
<1> QED BY <1>5, <1>6

\* After a step some version is current at t that agrees with v.
Kept(t, v) ==
    \E u \in Current(t)' : \/ u.body = v.body
                           \/ v \in live /\ Mended(u.body, v.body)
                           \/ u.body = Digest /\ v \notin Stored'

LEMMA KeptByClient ==
    ASSUME Whole, NEW c \in Clients, ClientStep(c), NEW t \in Nat, t < clock, NEW v \in Current(t)
    PROVE  Kept(t, v)
<1>0. clock \in Nat  BY DEF Whole, Sane
<1>1. \A h \in hist : h \in hist' /\ h \in Windows(t) => h.v \in Current(t)'
  BY DEF Current, Windows
<1>2. \A r \in live' : r.rec <= t => r \in Current(t)'  BY DEF Current
<1>3. CASE UNCHANGED <<live, hist>>  BY <1>3 DEF Current, Windows, Kept
<1>4. CASE \E r \in live : \E n : n.ws = r.ws /\ n.rec = r.rec
                                   /\ Replace(r, n) /\ hist' = hist
                                   /\ pc[c] = "update" /\ n.body = job[c].body
                                   /\ r.body = job[c].write.body
  <2>0. Mended(job[c].body, job[c].write.body)  BY <1>4 DEF Whole, Audited, Remembering
  <2>00. PICK r \in live : \E n : n.rec = r.rec /\ Mended(n.body, r.body) /\ Replace(r, n) /\ hist' = hist
    BY <1>4, <2>0
  <2>1. PICK n : n.rec = r.rec /\ Mended(n.body, r.body) /\ Replace(r, n) /\ hist' = hist  BY <2>00
  <2>2. CASE v = r /\ r.rec <= t
    <3>1. n \in Current(t)'  BY <2>1, <2>2, <1>2 DEF Replace
    <3> QED BY <2>1, <2>2, <3>1 DEF Kept
  <2>3. CASE v \in live /\ v # r /\ v.rec <= t
    <3>1. v \in Current(t)'  BY <2>1, <2>3, <1>2 DEF Replace
    <3> QED BY <3>1 DEF Kept
  <2>4. CASE \E h \in Windows(t) : v = h.v
    <3>1. v \in Current(t)'  BY <2>1, <2>4, <1>1 DEF Windows
    <3> QED BY <3>1 DEF Kept
  <2> QED BY <2>2, <2>3, <2>4 DEF Current
<1>5. CASE \E r \in live : \E n : n.ws = r.ws /\ n.rec = Stamp(r) /\ Snapshot(r) /\ Replace(r, n)
  <2>0. PICK r \in live : \E n : Snapshot(r) /\ Replace(r, n)  BY <1>5
  <2>1. PICK n : Snapshot(r) /\ Replace(r, n)  BY <2>0
  <2>2. Good(r)  BY DEF Whole, Sane, GoodRows
  <2>3. Stamp(r) \in Nat /\ clock <= Stamp(r)  BY <2>1, <2>2, GoodSnapshot DEF Whole, Sane
  <2>4. v \in Current(t)'
    <3>1. CASE v = r /\ r.rec <= t
      <4> DEFINE k == [v |-> r, inv |-> Stamp(r)]
      <4>1. k \in hist' /\ k.v = r /\ k.inv = Stamp(r)  BY <2>1 DEF Snapshot
      <4>2. t < Stamp(r)  BY <2>3, <1>0
      <4> HIDE DEF k
      <4>3. k \in Windows(t)'  BY <4>1, <4>2, <3>1 DEF Windows
      <4> QED BY <4>1, <4>3, <3>1 DEF Current
    <3>2. CASE v \in live /\ v # r /\ v.rec <= t  BY <2>1, <3>2, <1>2 DEF Replace
    <3>3. CASE \E h \in Windows(t) : v = h.v
      <4>1. PICK h \in Windows(t) : v = h.v  BY <3>3
      <4>2. h \in hist /\ h \in hist'  BY <2>1 DEF Snapshot, Windows
      <4> QED BY <4>1, <4>2, <1>1
    <3> QED BY <3>1, <3>2, <3>3 DEF Current
  <2> QED BY <2>4 DEF Kept
<1>6. CASE \E n : At(n.ws) = {} /\ live' = live \cup {n} /\ hist' = hist
  <2>1. v \in Current(t)'  BY <1>6 DEF Current, Windows
  <2> QED BY <2>1 DEF Kept
<1>7. CASE Forget(c)
  <2>1. CASE v \in live /\ v.rec <= t
    <3> DEFINE n == [v EXCEPT !.archived = TRUE]
    <3>1. v \in Version  BY <2>1 DEF Whole, Sane, GoodRows, Good
    <3>2. n.rec = v.rec /\ n.body = v.body  BY <3>1 DEF Version
    <3>3. n \in live'  BY <1>7, <2>1 DEF Forget
    <3> HIDE DEF n
    <3>4. n \in Current(t)'  BY <2>1, <3>2, <3>3, <1>2
    <3> QED BY <3>2, <3>4 DEF Kept
  <2>2. CASE \E h \in Windows(t) : v = h.v
    <3>1. v \in Current(t)'  BY <1>7, <2>2, <1>1 DEF Windows, Forget
    <3> QED BY <3>1 DEF Kept
  <2> QED BY <2>1, <2>2 DEF Current
<1> QED BY RowEffects, QuietEffects, <1>3, <1>4, <1>5, <1>6, <1>7

LEMMA KeptByRetention ==
    ASSUME Whole, NEW p \in Policy, p.tombs, EnforceRetention(p), NEW t \in Nat, NEW v \in Current(t),
           \A x, y \in Current(t)' : x = y
    PROVE  Kept(t, v)
<1>1. CASE v \in live /\ v.rec <= t
  <2>1. v \in Current(t)'  BY <1>1 DEF EnforceRetention, Current
  <2> QED BY <2>1 DEF Kept
<1>2. CASE \E h \in Windows(t) : v = h.v
  <2>1. PICK h \in Windows(t) : v = h.v  BY <1>2
  <2> DEFINE w == h.v.ws
             e == Folded(p, w)
             k == Tombstone(w, e)
  <2>2. h \in hist /\ h.v.rec <= t /\ t < h.inv  BY DEF Windows
  <2>3. /\ \A g \in hist : g.v.rec \in Nat /\ g.inv \in Nat /\ g.v.rec < g.inv /\ g.v.ws \in Workspaces
    BY Times DEF Whole
  <2>4. CASE h \notin e
    <3>1. \A x \in Workspaces : h \notin Folded(p, x)  BY <2>4 DEF Folded, Evicted, Of
    <3>2. h \in hist'  BY <3>1, <2>2 DEF EnforceRetention
    <3>3. h.v \in Current(t)'  BY <3>2, <2>2 DEF Current, Windows
    <3> QED BY <3>3, <2>1 DEF Kept
  <2>5. CASE h \in e
    <3>1. e \subseteq hist  BY DEF Folded, Evicted, Of
    <3>2. \A g \in e : GoodRetired(g)  BY <3>1 DEF Whole, Sane, GoodHistory
    <3>3. w \in Workspaces  BY <2>2, <2>3
    <3>4. /\ GoodRetired(k) /\ k.v.body = Digest
          /\ k.v.rec <= h.v.rec /\ h.inv <= k.inv
      <4> HIDE DEF e, w
      <4> QED BY <2>5, <3>2, <3>3, GoodTombstone DEF k
    <3>5. k \in hist'  BY <2>5, <3>3 DEF EnforceRetention
    <3>6. k.inv \in Nat /\ k.v.rec \in Nat
      <4> HIDE DEF k
      <4>1. k \in Retired /\ k.v \in Version  BY <3>4 DEF GoodRetired, Good
      <4> QED BY <4>1 DEF Retired, Version
    <3> HIDE DEF k
    <3>7. k.v.rec <= t /\ t < k.inv  BY <3>4, <3>6, <2>2, <2>3
    <3>8. k.v \in Current(t)'  BY <3>5, <3>7 DEF Current, Windows
    <3>9. v \in Stored' => v = k.v
      <4> SUFFICES ASSUME v \in Stored' PROVE v = k.v  OBVIOUS
      <4>1. CASE v \in live'  BY <4>1, <2>1, <2>2, <3>8 DEF Current
      <4>2. CASE \E g \in hist' : v = g.v
        <5>1. PICK g \in hist' : v = g.v  BY <4>2
        <5>2. CASE \E x \in Workspaces : Folded(p, x) # {} /\ g = Tombstone(x, Folded(p, x))
          <6>1. PICK x \in Workspaces : Folded(p, x) # {} /\ g = Tombstone(x, Folded(p, x))  BY <5>2
          <6>2. g.v.ws = x  BY <6>1 DEF Tombstone
          <6>3. x = w  BY <6>2, <5>1, <2>1
          <6> QED BY <6>1, <6>3, <5>1 DEF k
        <5>3. CASE g \in hist /\ \A x \in Workspaces : g \notin Folded(p, x)
          <6>1. g # h /\ g.v = h.v  BY <5>1, <5>3, <2>1, <2>5, <3>3
          <6>2. g.inv <= h.v.rec \/ h.inv <= g.v.rec
            BY <6>1, <5>3, <2>2 DEF Whole, Partition, Disjoint
          <6> QED BY <6>1, <6>2, <5>3, <2>2, <2>3
        <5> QED BY <5>2, <5>3 DEF EnforceRetention
      <4> QED BY <4>1, <4>2 DEF Stored
    <3> QED BY <3>4, <3>8, <3>9 DEF Kept
  <2> QED BY <2>4, <2>5
<1> QED BY <1>1, <1>2 DEF Current

\* Where nothing invalidates or purges, one workspace uses the key and folding
\* leaves tombstones, no step of any number of clients rewrites the recorded
\* past: as_of finds the same body at every instant before the clock, that body
\* with kept spans appended by the repair of a live row, or the tombstone of its
\* version.
THEOREM PastIsKept == Spared /\ OneWorkspace /\ TombsKept => (Spec => PastKept)
<1> SUFFICES ASSUME Spared, OneWorkspace, TombsKept PROVE Spec => PastKept  OBVIOUS
<1> DEFINE Past == \A t \in 0 .. (clock - 1) : \A v \in Picked(t) :
                      /\ Picked(t)' # {}
                      /\ \A u \in Picked(t)' : \/ u.body = v.body
                                               \/ v \in live /\ Mended(u.body, v.body)
                                               \/ u.body = Digest /\ v \notin Stored'
<1>1. Init => Whole  BY InitWhole
<1>2. Whole /\ [Next]_vars => Whole'  BY WholeNext
<1>3. Whole => \A t \in Nat : Picked(t) = Current(t) /\ \A u, v \in Current(t) : u = v
  BY PickedIsCurrent
<1>4. (Whole => \A t \in Nat : Picked(t) = Current(t) /\ \A u, v \in Current(t) : u = v)'
  BY PickedIsCurrent, PTL
<1>5. Whole /\ [Next]_vars => [Past]_vars
  <2> SUFFICES ASSUME Whole, Next, NEW t \in 0 .. (clock - 1), NEW v \in Picked(t)
               PROVE  /\ Picked(t)' # {}
                      /\ \A u \in Picked(t)' : \/ u.body = v.body
                                               \/ v \in live /\ Mended(u.body, v.body)
                                               \/ u.body = Digest /\ v \notin Stored'
    OBVIOUS
  <2>1. clock \in Nat /\ t \in Nat /\ t < clock  BY DEF Whole, Sane
  <2>2. Whole'  BY <1>2
  <2>3. v \in Current(t)  BY <1>3, <2>1
  <2>4. Picked(t)' = Current(t)' /\ \A x, y \in Current(t)' : x = y  BY <1>4, <2>1, <2>2
  <2>5. Kept(t, v)
    <3>1. CASE Tick
      <4>1. v \in Current(t)'  BY <2>3, <3>1 DEF Tick, Current, Windows
      <4> QED BY <4>1 DEF Kept
    <3>2. CASE \E c \in Clients : ClientStep(c)  BY <3>2, <2>1, <2>3, KeptByClient
    <3>3. CASE \E p \in Policies : EnforceRetention(p)
      BY <3>3, <2>1, <2>3, <2>4, KeptByRetention, VersionsAssumption DEF TombsKept
    <3> QED BY <3>1, <3>2, <3>3 DEF Next
  <2>6. PICK u \in Current(t)' : \/ u.body = v.body
                                 \/ v \in live /\ Mended(u.body, v.body)
                                 \/ u.body = Digest /\ v \notin Stored'
    BY <2>5 DEF Kept
  <2> QED BY <2>4, <2>6
<1>6. Spec => [][Past]_vars
  <2> HIDE DEF Past
  <2> QED BY <1>1, <1>2, <1>5, PTL DEF Spec
<1> QED BY <1>6 DEF PastKept

-----------------------------------------------------------------------------
(* as_of and as_of_version, where every version may be shown.              *)

\* Every write is trusted and nothing is archived.
Trusting == "forget" \notin Ops /\ \A w \in Writes : w.status = "active"
Shows(v) == v.status # "proposed" /\ ~v.archived
AllShow == \A v \in Stored : Shows(v)

LEMMA StoredShow ==
    ASSUME AllShow, \A r \in live' : r \in live \/ Shows(r),
           \A h \in hist' : h \in hist \/ h.v \in live \/ Shows(h.v)
    PROVE  AllShow'
BY DEF AllShow, Stored

\* A new version of a row shows when the row does.
LEMMA ReplacedShows ==
    ASSUME AllShow, NEW r \in live, NEW n, Shows(n), Replace(r, n), Snapshot(r) \/ hist' = hist
    PROVE  AllShow'
<1>1. \A s \in live' : s \in live \/ Shows(s)  BY DEF Replace
<1>2. \A h \in hist' : h \in hist \/ h.v \in live  BY DEF Snapshot
<1> QED BY <1>1, <1>2, StoredShow

LEMMA SameShows ==
    ASSUME AllShow, UNCHANGED <<live, hist>>
    PROVE  AllShow'
BY StoredShow

LEMMA ClientShows ==
    ASSUME Trusting, Whole, AllShow, NEW c \in Clients, ClientStep(c)
    PROVE  AllShow'
<1>1. CASE \/ Remember(c) \/ Repair(c) \/ ClearMark(c) \/ Lookup(c) \/ GiveUp(c) \/ Supersede(c)
           \/ PickLoser(c) \/ PurgeScan(c) \/ LossStep(c)
  BY <1>1, SameShows DEF Remember, Repair, ClearMark, Lookup, GiveUp, Supersede, PickLoser, PurgeScan,
              LossStep, SpanAudit, ReportRefusal, ReportSuccess, Unmark
<1>2. ~InvalidateEntity(c) /\ ~PurgeCommit(c) /\ ~Forget(c)
  BY DEF Whole, Quiet, InvalidateEntity, PurgeCommit, Trusting, Forget, Start
<1>3. \A r \in live : r \in Version /\ Shows(r)
  BY DEF AllShow, Stored, Whole, Sane, GoodRows, Good
<1>4. CASE Insert(c)
  <2> DEFINE w == job[c].write
             n == [ws |-> w.ws, id |-> nextId, body |-> job[c].body, status |-> w.status,
                   archived |-> FALSE, from |-> IF w.from = None THEN job[c].stamp ELSE w.from,
                   to |-> w.to, rec |-> job[c].stamp]
  <2>1. w.status = "active"  BY <1>4 DEF Trusting, Whole, Sane, Calling, JobOK, Remembering, Insert
  <2>2. Shows(n)  BY <2>1 DEF Shows
  <2>3. hist' = hist /\ (live' = live \/ live' = live \cup {n})  BY <1>4 DEF Insert
  <2> HIDE DEF n
  <2> QED BY <2>2, <2>3, StoredShow
<1>5. CASE Update(c)
  <2> DEFINE w == job[c].write
             b == job[c].body
  <2>1. w.status = "active"  BY <1>5 DEF Trusting, Whole, Sane, Calling, JobOK, Remembering, Update
  <2>2. CASE UNCHANGED <<live, hist>>  BY <2>2, SameShows
  <2>3. CASE \E r \in ById(job[c].id) : Replace(r, Updated(r, w, b)) /\ (Snapshot(r) \/ hist' = hist)
    <3>1. PICK r \in ById(job[c].id) : Replace(r, Updated(r, w, b)) /\ (Snapshot(r) \/ hist' = hist)
      BY <2>3
    <3>2. r \in live  BY DEF ById
    <3>3. Shows(Updated(r, w, b))
      <4>1. r \in Version  BY <1>3, <3>2
      <4> HIDE DEF w, b
      <4>2. Updated(r, w, b).status = w.status /\ Updated(r, w, b).archived = FALSE
        BY <4>1 DEF Updated, Version
      <4> QED BY <2>1, <4>2 DEF Shows
    <3> QED BY <3>1, <3>2, <3>3, ReplacedShows
  <2> QED BY <1>5, <2>2, <2>3 DEF Update
<1>6. CASE Close(c)
  <2>1. PICK t : SetValidTo(c, t)  BY <1>6 DEF Close
  <2>2. CASE UNCHANGED <<live, hist>>  BY <2>2, SameShows
  <2>3. CASE \E r \in ById(job[c].id) :
                Snapshot(r) /\ Replace(r, [r EXCEPT !.to = t, !.rec = Stamp(r)])
    <3>1. PICK r \in ById(job[c].id) : Snapshot(r) /\ Replace(r, [r EXCEPT !.to = t, !.rec = Stamp(r)])
      BY <2>3
    <3> DEFINE n == [r EXCEPT !.to = t, !.rec = Stamp(r)]
    <3>2. r \in live /\ r \in Version /\ Shows(r)  BY <1>3 DEF ById
    <3>3. Shows(n)  BY <3>2 DEF Version, Shows
    <3> QED BY <3>1, <3>2, <3>3, ReplacedShows
  <2> QED BY <2>1, <2>2, <2>3 DEF SetValidTo
<1>7. CASE Deprecate(c)
  <2>1. CASE UNCHANGED <<live, hist>>  BY <2>1, SameShows
  <2>2. CASE \E r \in ById(job[c].id) :
                Snapshot(r) /\ Replace(r, [r EXCEPT !.status = "deprecated", !.rec = Stamp(r)])
    <3>1. PICK r \in ById(job[c].id) :
             Snapshot(r) /\ Replace(r, [r EXCEPT !.status = "deprecated", !.rec = Stamp(r)])
      BY <2>2
    <3> DEFINE n == [r EXCEPT !.status = "deprecated", !.rec = Stamp(r)]
    <3>2. r \in live /\ r \in Version /\ Shows(r)  BY <1>3 DEF ById
    <3>3. Shows(n)  BY <3>2 DEF Version, Shows
    <3> QED BY <3>1, <3>2, <3>3, ReplacedShows
  <2> QED BY <1>7, <2>1, <2>2 DEF Deprecate
<1> QED BY <1>1, <1>2, <1>4, <1>5, <1>6, <1>7 DEF ClientStep, LossStep

LEMMA ShowsNext ==
    ASSUME Trusting, Whole, AllShow, [Next]_vars
    PROVE  AllShow'
<1>1. CASE UNCHANGED vars \/ Tick  BY <1>1, SameShows DEF vars, Tick
<1>2. CASE \E c \in Clients : ClientStep(c)  BY <1>2, ClientShows
<1>3. ASSUME NEW p \in Policies, EnforceRetention(p) PROVE AllShow'
  <2>1. \A w, e : Shows(Tombstone(w, e).v)  BY DEF Shows, Tombstone
  <2>2. live' = live /\ \A h \in hist' : h \in hist \/ Shows(h.v)
    BY <1>3, <2>1 DEF EnforceRetention
  <2> QED BY <2>2, StoredShow
<1> QED BY <1>1, <1>2, <1>3 DEF Next

\* The newest version recorded by t is the one current at t: a retired version
\* that had ended by t is followed by one that begins there.
LEMMA NewestIsCurrent ==
    ASSUME OneWorkspace, Whole, NEW t \in Nat
    PROVE  Current(t) = {u \in Stored : u.rec <= t /\ \A x \in Stored : x.rec <= t => x.rec <= u.rec}
<1> DEFINE Top == {u \in Stored : u.rec <= t /\ \A x \in Stored : x.rec <= t => x.rec <= u.rec}
<1>1. /\ \A h \in hist : h.v.rec \in Nat /\ h.inv \in Nat /\ h.v.rec < h.inv /\ h.v.ws \in Workspaces
      /\ \A r \in live : r.rec \in Nat /\ r.ws \in Workspaces
  BY Times DEF Whole
<1>2. /\ \A g, h \in hist : g # h => g.inv <= h.v.rec \/ h.inv <= g.v.rec
      /\ \A h \in hist, r \in live : h.inv <= r.rec
      /\ \A r, s \in live : r = s
  BY <1>1 DEF OneWorkspace, Whole, Partition, Disjoint, OneLive
<1>3. ASSUME NEW u \in Current(t) PROVE u \in Top
  <2>1. CASE u \in live /\ u.rec <= t
    <3>1. \A x \in Stored : x.rec <= u.rec
      <4> SUFFICES ASSUME NEW x \in Stored PROVE x.rec <= u.rec  OBVIOUS
      <4>1. CASE x \in live  BY <1>1, <1>2, <2>1, <4>1
      <4>2. CASE \E h \in hist : x = h.v
        <5>1. PICK h \in hist : x = h.v  BY <4>2
        <5>2. h.inv <= u.rec /\ h.v.rec < h.inv /\ h.inv \in Nat /\ h.v.rec \in Nat /\ u.rec \in Nat
          BY <1>1, <1>2, <2>1
        <5> QED BY <5>1, <5>2
      <4> QED BY <4>1, <4>2 DEF Stored
    <3> QED BY <2>1, <3>1 DEF Stored
  <2>2. CASE \E g \in Windows(t) : u = g.v
    <3>1. PICK g \in Windows(t) : u = g.v  BY <2>2
    <3>2. g \in hist /\ g.v.rec <= t /\ t < g.inv  BY DEF Windows
    <3>3. ASSUME NEW x \in Stored, x.rec <= t PROVE x.rec <= u.rec
      <4>1. CASE x \in live
        <5>1. g.inv <= x.rec /\ x.rec \in Nat /\ g.inv \in Nat  BY <1>1, <1>2, <3>2, <4>1
        <5> QED BY <3>2, <3>3, <5>1
      <4>2. CASE \E h \in hist : x = h.v
        <5>1. PICK h \in hist : x = h.v  BY <4>2
        <5>2. /\ h.inv \in Nat /\ h.v.rec \in Nat /\ h.v.rec < h.inv
              /\ g.inv \in Nat /\ g.v.rec \in Nat /\ g.v.rec < g.inv
          BY <1>1, <3>2
        <5>3. h = g \/ g.inv <= h.v.rec \/ h.inv <= g.v.rec  BY <1>2, <3>2
        <5> QED BY <3>1, <3>2, <3>3, <5>1, <5>2, <5>3
      <4> QED BY <4>1, <4>2 DEF Stored
    <3> QED BY <3>1, <3>2, <3>3 DEF Stored
  <2> QED BY <2>1, <2>2 DEF Current
<1>4. ASSUME NEW u \in Top PROVE u \in Current(t)
  <2>1. CASE u \in live  BY <2>1 DEF Current
  <2>2. CASE \E h \in hist : u = h.v
    <3>1. PICK h \in hist : u = h.v  BY <2>2
    <3>2. h.inv \in Nat /\ h.v.rec \in Nat /\ h.v.rec < h.inv /\ h.v.rec <= t  BY <1>1, <3>1
    <3>3. t < h.inv
      <4> SUFFICES ASSUME ~(t < h.inv) PROVE FALSE  OBVIOUS
      <4>1. h.inv <= t  BY <3>2
      <4>2. PICK x \in Stored : x.rec = h.inv  BY DEF Whole, Partition, Contiguous
      <4>3. x.rec <= u.rec  BY <4>1, <4>2
      <4> QED BY <3>1, <3>2, <4>2, <4>3
    <3>4. h \in Windows(t)  BY <3>2, <3>3 DEF Windows
    <3> QED BY <3>1, <3>4 DEF Current
  <2> QED BY <2>1, <2>2 DEF Stored
<1> QED BY <1>3, <1>4

LEMMA ReadsAgree ==
    ASSUME OneWorkspace, Whole, AllShow
    PROVE  TemporalReadsAgree
<1> SUFFICES ASSUME NEW t \in 0 .. MaxTime PROVE AsOf(t) = AsOfVersion(t)
  BY DEF TemporalReadsAgree
<1>1. t \in Nat  BY VersionsAssumption
<1>2. \A v \in Stored : Visible(v)
  <2> SUFFICES ASSUME NEW v \in Stored PROVE Visible(v)  OBVIOUS
  <2>1. v \in Version
    BY DEF Stored, Whole, Sane, GoodRows, GoodHistory, GoodRetired, Good
  <2>2. v.status \in Status /\ Shows(v)  BY <2>1 DEF Version, AllShow
  <2> QED BY <2>2 DEF Shows, Visible, Marker, Status
<1>3. Picked(t) = Current(t)  BY <1>1, PickedIsCurrent
<1>4. Current(t) \subseteq Stored  BY DEF Current, Stored, Windows
<1>5. Recorded(t) = {v \in Stored : v.rec <= t}  BY <1>2 DEF Recorded, Stored
<1>6. {u \in Recorded(t) : \A x \in Recorded(t) : x.rec <= u.rec} = Current(t)
  BY <1>1, <1>5, NewestIsCurrent
<1>7. {u \in Picked(t) : Visible(u)} = Current(t)  BY <1>2, <1>3, <1>4
<1> QED BY <1>6, <1>7 DEF AsOf, AsOfVersion

\* Where nothing invalidates, purges or archives, every write is trusted and one
\* workspace uses the key, as_of and as_of_version answer alike at every instant,
\* for any number of clients, any clock and any retention policy.
THEOREM ReadsAlwaysAgree == Spared /\ OneWorkspace /\ Trusting => (Spec => []TemporalReadsAgree)
<1> SUFFICES ASSUME Spared, OneWorkspace, Trusting PROVE Spec => []TemporalReadsAgree  OBVIOUS
<1>1. Init => Whole /\ AllShow  BY InitWhole DEF Init, AllShow, Stored
<1>2. Whole /\ AllShow /\ [Next]_vars => Whole' /\ AllShow'  BY WholeNext, ShowsNext
<1>3. Whole /\ AllShow => TemporalReadsAgree  BY ReadsAgree
<1> QED BY <1>1, <1>2, <1>3, PTL DEF Spec

-----------------------------------------------------------------------------
(* Purge, with one call at a time.                                         *)

\* A purge that has scanned knows the archived rows, because no other call runs
\* before it commits.
Doom(c) == pc[c] = "purge" =>
    job[c].doomed = {[ws |-> r.ws, id |-> r.id] : r \in {s \in live : s.archived}}
OneCall == \A c, d \in Clients : pc[c] # "idle" /\ pc[d] # "idle" => c = d
Orderly == OneCall /\ (\A c \in Clients : pc[c] # "retire" /\ Doom(c)) /\ NoOrphans
PurgeInv == SaneAudit /\ (scenario = "purging" => Orderly)

\* A row that is rewritten, replaced or archived keeps its workspace.
LEMMA RowsStay ==
    ASSUME Sane, NoOrphans, NEW c \in Clients, ClientStep(c), ~InvalidateEntity(c), ~PurgeCommit(c)
    PROVE  NoOrphans'
<1>1. CASE UNCHANGED <<live, hist>>  BY <1>1 DEF NoOrphans
<1>2. ASSUME NEW r \in live, NEW n, n.ws = r.ws, Replace(r, n), hist' = hist \/ Snapshot(r)
      PROVE  NoOrphans'
  <2>1. \A h \in hist' : h \in hist \/ h.v = r  BY <1>2 DEF Snapshot
  <2>2. n \in live' /\ \A s \in live : s \in live' \/ s = r  BY <1>2 DEF Replace
  <2> QED BY <1>2, <2>1, <2>2 DEF NoOrphans
<1>3. ASSUME NEW n, live' = live \cup {n}, hist' = hist PROVE NoOrphans'
  BY <1>3 DEF NoOrphans
<1>4. CASE Forget(c)
  <2>1. live' = {[r EXCEPT !.archived = TRUE] : r \in live} /\ hist' = hist  BY <1>4 DEF Forget
  <2>2. ASSUME NEW r \in live PROVE \E s \in live' : s.ws = r.ws
    <3>1. r \in Version  BY DEF Sane, GoodRows, Good
    <3> DEFINE n == [r EXCEPT !.archived = TRUE]
    <3>2. n.ws = r.ws  BY <3>1 DEF Version
    <3>3. n \in live'  BY <2>1
    <3> QED BY <3>2, <3>3
  <2>3. hist' = hist  BY <2>1
  <2> QED BY <2>2, <2>3 DEF NoOrphans
<1> QED BY <1>1, <1>2, <1>3, <1>4, RowEffects

\* A fold leaves history only where there was history.
LEMMA FoldsStay ==
    ASSUME NoOrphans, NEW p, EnforceRetention(p)
    PROVE  NoOrphans'
<1> SUFFICES ASSUME NEW h \in hist' PROVE \E r \in live' : r.ws = h.v.ws  BY DEF NoOrphans
<1>0. live' = live  BY DEF EnforceRetention
<1>1. CASE h \in hist  BY <1>0, <1>1 DEF NoOrphans
<1>2. CASE \E w \in Workspaces : Folded(p, w) # {} /\ h = Tombstone(w, Folded(p, w))
  <2>1. PICK w \in Workspaces : Folded(p, w) # {} /\ h = Tombstone(w, Folded(p, w))  BY <1>2
  <2>2. h.v.ws = w  BY <2>1 DEF Tombstone
  <2>3. PICK g \in hist : g.v.ws = w  BY <2>1 DEF Folded, Evicted, Of
  <2> QED BY <1>0, <2>2, <2>3 DEF NoOrphans
<1> QED BY <1>1, <1>2 DEF EnforceRetention

\* The commit of a purge deletes the history of every row it deletes.
LEMMA CommitClears ==
    ASSUME Orderly, NEW c \in Clients, PurgeCommit(c)
    PROVE  NoOrphans'
<1>1. /\ live' = {r \in live : ~r.archived}
      /\ hist' = {h \in hist : \A d \in job[c].doomed : h.v.id # d.id /\ h.v.ws # d.ws}
      /\ job[c].doomed = {[ws |-> r.ws, id |-> r.id] : r \in {s \in live : s.archived}}
  BY DEF PurgeCommit, Orderly, Doom
<1> SUFFICES ASSUME NEW h \in hist' PROVE \E r \in live' : r.ws = h.v.ws  BY DEF NoOrphans
<1>2. PICK r \in live : r.ws = h.v.ws  BY <1>1 DEF Orderly, NoOrphans
<1>3. ~r.archived
  <2> SUFFICES ASSUME r.archived PROVE FALSE  OBVIOUS
  <2> DEFINE d == [ws |-> r.ws, id |-> r.id]
  <2>1. d \in job[c].doomed /\ d.ws = r.ws  BY <1>1
  <2> HIDE DEF d
  <2> QED BY <1>1, <1>2, <2>1
<1> QED BY <1>1, <1>2, <1>3

\* Where the call of c is alone, its step leaves it so.
LEMMA AloneStep ==
    ASSUME Sane, Orderly, NEW c \in Clients, PurgingStep(c)
    PROVE  Orderly'
<1> ClientStep(c) /\ \A d \in Clients \ {c} : pc[d] = "idle"
  BY DEF PurgingStep, ClientStep, Alone
<1>0. pc \in [Clients -> Steps] /\ job \in [Clients -> Job]  BY DEF Sane, Calling
<1>1. ~InvalidateEntity(c)  BY DEF Orderly, InvalidateEntity
<1>2. NoOrphans'
  <2>1. CASE PurgeCommit(c)  BY <2>1, CommitClears
  <2>2. CASE ~PurgeCommit(c)  BY <1>1, <2>2, RowsStay DEF Orderly
  <2> QED BY <2>1, <2>2
<1>3. CASE PurgeScan(c)
  <2>1. /\ pc' = [pc EXCEPT ![c] = "purge"] /\ UNCHANGED live
        /\ job' = [job EXCEPT ![c] = [NoJob EXCEPT !.doomed =
                     {[ws |-> r.ws, id |-> r.id] : r \in {s \in live : s.archived}}]]
    BY <1>3 DEF PurgeScan, Goto
  <2>2. job'[c].doomed = {[ws |-> r.ws, id |-> r.id] : r \in {s \in live : s.archived}}
    BY <1>0, <2>1 DEF NoJob
  <2>3. pc'[c] = "purge" /\ \A d \in Clients \ {c} : pc'[d] = "idle"  BY <1>0, <2>1
  <2>4. OneCall'  BY <2>3 DEF OneCall
  <2>5. \A d \in Clients : pc'[d] # "retire" /\ Doom(d)'  BY <2>1, <2>2, <2>3 DEF Doom
  <2> QED BY <1>2, <2>4, <2>5 DEF Orderly
<1>4. CASE ~PurgeScan(c)
  <2>1. \/ pc' = pc /\ pc[c] = "idle"
        \/ \E step \in Steps \ {"retire", "purge"} : pc' = [pc EXCEPT ![c] = step]
    <3>1. CASE Remember(c)  BY <3>1 DEF Remember, Goto, Steps
    <3>2. CASE Lookup(c)  BY <3>2 DEF Lookup, Return, Goto, Steps
    <3>3. CASE Insert(c)  BY <3>3 DEF Insert, Return, Goto, Steps
    <3>4. CASE Update(c)  BY <3>4 DEF Update, Return, Goto, Steps
    <3>5. CASE GiveUp(c)  BY <3>5 DEF GiveUp, Return, Goto, Steps
    <3>6. CASE Supersede(c)  BY <3>6 DEF Supersede, Goto, Steps
    <3>7. CASE Close(c)  BY <3>7 DEF Close, SetValidTo, Return, Goto, Steps
    <3>8. CASE Deprecate(c)  BY <3>8 DEF Deprecate, Return, Goto, Steps
    <3>9. CASE Forget(c)  BY <3>9 DEF Forget, Start
    <3>11. CASE Repair(c)  BY <3>11 DEF Repair, Goto, Steps
    <3>10. CASE PurgeCommit(c)  BY <3>10 DEF PurgeCommit, Return, Goto, Steps
    <3> QED BY <1>4, <3>1, <3>2, <3>3, <3>4, <3>5, <3>6, <3>7, <3>8, <3>9, <3>10, <3>11
            DEF PurgingStep
  <2>2. pc'[c] \notin {"retire", "purge"} /\ \A d \in Clients \ {c} : pc'[d] = "idle"
    BY <1>0, <2>1
  <2>3. OneCall'  BY <2>2 DEF OneCall
  <2>4. \A d \in Clients : pc'[d] # "retire" /\ Doom(d)'  BY <2>2 DEF Doom
  <2> QED BY <1>2, <2>3, <2>4 DEF Orderly
<1> QED BY <1>3, <1>4

LEMMA PurgeNext ==
    ASSUME PurgeInv, [MCNext]_<<vars, scenario>>
    PROVE  PurgeInv'
<1>1. [Next]_vars
  <2>1. ASSUME NEW c \in Clients, RetiringStep(c) \/ PurgingStep(c) PROVE ClientStep(c)
    BY <2>1 DEF RetiringStep, PurgingStep, ClientStep
  <2> QED BY <2>1 DEF MCNext, Next
<1>2. SaneAudit'  BY <1>1, NextSane, NextAudited DEF PurgeInv, SaneAudit
<1>3. ASSUME scenario' = "purging" PROVE Orderly'
  <2>1. scenario = "purging" /\ Orderly /\ Sane
    BY <1>3 DEF PurgeInv, SaneAudit, MCNext, RetiringStep, PurgingStep, Retiring, Purging, Alone
  <2>2. CASE UNCHANGED <<live, hist, pc, job>>
    BY <2>1, <2>2 DEF Orderly, OneCall, Doom, NoOrphans
  <2>3. ASSUME NEW c \in Clients, PurgingStep(c) PROVE Orderly'
    BY <2>1, <2>3, AloneStep
  <2>4. ASSUME NEW p \in Policies, EnforceRetention(p) PROVE Orderly'
    <3>1. NoOrphans'  BY <2>1, <2>4, FoldsStay DEF Orderly
    <3>2. UNCHANGED <<live, pc, job>>  BY <2>4 DEF EnforceRetention
    <3> QED BY <2>1, <3>1, <3>2 DEF Orderly, OneCall, Doom
  <2>5. \A c \in Clients : ~RetiringStep(c)  BY <2>1 DEF RetiringStep, Retiring
  <2>6. CASE Tick  BY <2>2, <2>6 DEF Tick
  <2>7. CASE UNCHANGED vars  BY <2>2, <2>7 DEF vars
  <2> QED BY <2>3, <2>4, <2>5, <2>6, <2>7 DEF MCNext
<1> QED BY <1>2, <1>3 DEF PurgeInv

\* The scan and the commit of purge, one call at a time: no sequence of writes,
\* forgets, folds and purges, however many workspaces share the key, strands
\* history without its row.
THEOREM NothingStranded == MCSpec => []NoOrphansAlone
<1>1. MCInit => PurgeInv
  <2> SUFFICES ASSUME MCInit PROVE PurgeInv  OBVIOUS
  <2>1. SaneAudit  BY InitSane, InitAudited DEF MCInit, SaneAudit
  <2>2. Orderly  BY DEF MCInit, Init, Orderly, OneCall, Doom, NoOrphans
  <2> QED BY <2>1, <2>2 DEF PurgeInv
<1>2. PurgeInv /\ [MCNext]_<<vars, scenario>> => PurgeInv'  BY PurgeNext
<1>3. PurgeInv => NoOrphansAlone  BY DEF PurgeInv, Orderly, NoOrphansAlone
<1> QED BY <1>1, <1>2, <1>3, PTL DEF MCSpec
=============================================================================
