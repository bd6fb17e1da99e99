----------------------- MODULE WriterDirectoryProofs ------------------------
(***************************************************************************)
(* The writer directory row is always explained by its own lifecycle, for  *)
(* any number of connections and agents.  The invariant is strengthened to *)
(* the rows that connections hold between reading and persisting: each of  *)
(* them is explained too, since it was computed from a row that was.       *)
(***************************************************************************)
EXTENDS WriterDirectory, TLAPS

\* A row with a lifecycle within its cap that explains it.
GoodRow(row) == row \in Row /\ Len(row.life) <= LifecycleCap /\ Explained(row)

IInv ==
    /\ TypeOK
    /\ GoodRow(dir)
    /\ \A c \in Conns : GoodRow(req[c].row) /\ (at[c] = "land" => req[c].left > 0)

-----------------------------------------------------------------------------
\* append_result keeps a suffix: the new result is last, and two neighbours are
\* neighbours of the old lifecycle or its last result and the new one.
LEMMA LoggedIsSuffix ==
    ASSUME NEW life \in Seq(Result), NEW result \in Result, Len(life) <= LifecycleCap
    PROVE  LET new == Logged(life, result)
           IN /\ new \in Seq(Result)
              /\ Len(new) \in 1 .. LifecycleCap
              /\ new[Len(new)] = result
              /\ \A k \in 1 .. Len(new) - 1 :
                   \E j \in 1 .. Len(life) :
                     /\ new[k] = life[j]
                     /\ j < Len(life) => new[k + 1] = life[j + 1]
                     /\ j = Len(life) => new[k + 1] = result
<1> DEFINE all == Append(life, result)
           excess == Len(all) - LifecycleCap
<1>0. LifecycleCap \in Nat \ {0} BY DirectoryAssumption
<1>1. /\ all \in Seq(Result) /\ Len(all) = Len(life) + 1 /\ Len(life) \in Nat
      /\ all[Len(life) + 1] = result
      /\ \A j \in 1 .. Len(life) : all[j] = life[j]
  OBVIOUS
<1>2. CASE excess > 0
  <2>1. excess = 1 BY <1>0, <1>1, <1>2
  <2> DEFINE new == SubSeq(all, 2, Len(all))
  <2>2. Logged(life, result) = new BY <2>1 DEF Logged
  <2>3. /\ new \in Seq(Result) /\ Len(new) = Len(life) /\ Len(life) = LifecycleCap
        /\ \A k \in 1 .. Len(new) : new[k] = all[k + 1]
    BY <1>0, <1>1, <2>1
  <2> HIDE DEF new
  <2>4. new[Len(new)] = result BY <1>0, <1>1, <2>3
  <2>5. ASSUME NEW k \in 1 .. Len(new) - 1
        PROVE  \E j \in 1 .. Len(life) :
                 /\ new[k] = life[j]
                 /\ j < Len(life) => new[k + 1] = life[j + 1]
                 /\ j = Len(life) => new[k + 1] = result
    <3>1. k + 1 \in 1 .. Len(life) /\ new[k] = life[k + 1] BY <1>1, <2>3
    <3>2. k + 1 < Len(life) => new[k + 1] = life[k + 2] BY <1>1, <2>3
    <3>3. k + 1 = Len(life) => new[k + 1] = result BY <2>3, <2>4
    <3> QED BY <3>1, <3>2, <3>3
  <2> QED BY <1>0, <2>2, <2>3, <2>4, <2>5
<1>3. CASE ~(excess > 0)
  <2>1. Logged(life, result) = all BY <1>3 DEF Logged
  <2>2. Len(all) \in 1 .. LifecycleCap BY <1>0, <1>1, <1>3
  <2>3. ASSUME NEW k \in 1 .. Len(all) - 1
        PROVE  \E j \in 1 .. Len(life) :
                 /\ all[k] = life[j]
                 /\ j < Len(life) => all[k + 1] = life[j + 1]
                 /\ j = Len(life) => all[k + 1] = result
    <3>1. k \in 1 .. Len(life) BY <1>1
    <3>2. all[k] = life[k] /\ (k < Len(life) => all[k + 1] = life[k + 1])
      BY <1>1, <3>1
    <3>3. k = Len(life) => all[k + 1] = result BY <1>1
    <3> QED BY <3>1, <3>2, <3>3
  <2> QED BY <1>1, <2>1, <2>2, <2>3
<1> QED BY <1>2, <1>3

\* A handoff action that may follow the last one recorded yields a row that the
\* longer lifecycle explains.
LEMMA MovedIsGood ==
    ASSUME NEW row \in Row, GoodRow(row),
           NEW action \in Actions, NEW actor \in Callers, NEW writer \in Callers,
           NEW target \in Callers, NEW detail \in Callers, NEW advance \in Nat,
           writer = (IF action = "activate" THEN actor ELSE NoAgent),
           action = "activate" => actor = target,
           action \in {"prepare", "retarget"} => target = detail,
           row.state # "none" => Follows(row.life[Len(row.life)].action, action)
    PROVE  GoodRow(Moved(row, action, actor, StateAfter(action), writer, target, advance, detail))
<1> DEFINE result == [action |-> action, actor |-> actor, before |-> row.epoch,
                      after |-> row.epoch + advance, detail |-> detail]
           new == Logged(row.life, result)
           moved == Moved(row, action, actor, StateAfter(action), writer, target, advance, detail)
<1>1. row \in Row /\ row.life \in Seq(Result) /\ Len(row.life) <= LifecycleCap
  BY DEF GoodRow, Row
<1>0. row.epoch \in Nat /\ row.epoch + advance \in Nat BY DEF Row
<1>2. result \in Result BY <1>0 DEF Result
<1>3. /\ new \in Seq(Result)
      /\ Len(new) \in 1 .. LifecycleCap
      /\ new[Len(new)] = result
      /\ \A k \in 1 .. Len(new) - 1 :
           \E j \in 1 .. Len(row.life) :
             /\ new[k] = row.life[j]
             /\ j < Len(row.life) => new[k + 1] = row.life[j + 1]
             /\ j = Len(row.life) => new[k + 1] = result
  BY <1>1, <1>2, LoggedIsSuffix
<1>4. /\ moved = [state |-> StateAfter(action), epoch |-> row.epoch + advance,
                  writer |-> writer, target |-> target, life |-> new]
      /\ moved.state = StateAfter(action) /\ moved.epoch = row.epoch + advance
      /\ moved.writer = writer /\ moved.target = target /\ moved.life = new
  BY DEF Moved
<1>5. result.action = action /\ result.actor = actor /\ result.before = row.epoch
      /\ result.after = row.epoch + advance /\ result.detail = detail
  OBVIOUS
<1>6. StateAfter(action) \in {"prepared", "fenced", "active"}
      /\ (StateAfter(action) = "active" <=> action = "activate")
  BY DEF StateAfter, Actions
<1>7. ASSUME NEW k \in 1 .. Len(new) - 1
      PROVE  /\ Follows(new[k].action, new[k + 1].action)
             /\ new[k + 1].before = new[k].after
  <2>1. PICK j \in 1 .. Len(row.life) :
             /\ new[k] = row.life[j]
             /\ j < Len(row.life) => new[k + 1] = row.life[j + 1]
             /\ j = Len(row.life) => new[k + 1] = result
    BY <1>3, <1>7
  <2> HIDE DEF new, result
  <2>2. row.state # "none" /\ row.epoch = row.life[Len(row.life)].after
    BY <1>1, <2>1 DEF GoodRow, Explained, NoRow
  <2>3. CASE j < Len(row.life)
    <3>1. j \in 1 .. Len(row.life) - 1 BY <1>1, <2>3
    <3>2. Follows(row.life[j].action, row.life[j + 1].action)
          /\ row.life[j + 1].before = row.life[j].after
      BY <2>2, <3>1 DEF GoodRow, Explained
    <3> QED BY <2>1, <2>3, <3>2
  <2>4. CASE j = Len(row.life)
    BY <1>5, <2>1, <2>2, <2>4
  <2> QED BY <1>1, <2>1, <2>3, <2>4
<1> HIDE DEF new, result, moved
<1>8. moved \in Row BY <1>3, <1>4, <1>6 DEF Row
<1>9. Explained(moved)
  BY <1>3, <1>4, <1>5, <1>6, <1>7 DEF Explained
<1> QED BY <1>3, <1>4, <1>8, <1>9 DEF GoodRow, moved

-----------------------------------------------------------------------------
\* The rows the five actions compute are good when the row they read is.
LEMMA HandoffRows ==
    ASSUME NEW row \in Row, GoodRow(row), NEW actor \in Callers, NEW t \in Callers
    PROVE  /\ row.state \in {"none", "prepared"} => GoodRow(Prepared(row, actor, t))
           /\ row.state = "prepared" => GoodRow(Fenced(row, actor))
           /\ row.state = "fenced" => GoodRow(Retargeted(row, actor, t))
           /\ row.state = "fenced" /\ actor = row.target => GoodRow(Activated(row, actor))
<1>0. row.life \in Seq(Result) BY DEF Row
<1>1. /\ row.writer \in Callers /\ row.target \in Callers /\ t \in Callers
      /\ NoAgent \in Callers /\ Len(row.life) \in Nat
      /\ \A k \in 1 .. Len(row.life) : row.life[k].action \in Actions
  <2>1. \A k \in 1 .. Len(row.life) : row.life[k] \in Result BY <1>0
  <2>2. \A r \in Result : r.action \in Actions BY DEF Result
  <2>3. row.writer \in Callers /\ row.target \in Callers BY DEF Row
  <2>4. t \in Callers /\ NoAgent \in Callers BY DEF Callers
  <2> QED BY <1>0, <2>1, <2>2, <2>3, <2>4
<1>2. /\ row.state = "none" => row.writer = NoAgent
      /\ row.state # "none" =>
           /\ Len(row.life) \in 1 .. Len(row.life)
           /\ row.state = StateAfter(row.life[Len(row.life)].action)
      /\ row.state \in {"prepared", "fenced"} => row.writer = NoAgent
  BY <1>1 DEF GoodRow, Explained, NoRow
<1>3. /\ row.state = "prepared" => row.life[Len(row.life)].action = "prepare"
      /\ row.state = "fenced" => row.life[Len(row.life)].action \in {"fence", "retarget"}
  BY <1>1, <1>2 DEF StateAfter, Actions
<1>4. ASSUME row.state \in {"none", "prepared"} PROVE GoodRow(Prepared(row, actor, t))
  <2>1. "prepare" \in Actions /\ StateAfter("prepare") = "prepared"
    BY DEF Actions, StateAfter
  <2>2. row.state # "none" => Follows(row.life[Len(row.life)].action, "prepare")
    BY <1>3, <1>4 DEF Follows
  <2>3. GoodRow(Moved(row, "prepare", actor, StateAfter("prepare"), row.writer, t, 0, t))
    BY <1>1, <1>2, <1>4, <2>1, <2>2, MovedIsGood
  <2> QED BY <2>1, <2>3 DEF Prepared
<1>5. ASSUME row.state = "prepared" PROVE GoodRow(Fenced(row, actor))
  <2>1. "fence" \in Actions /\ StateAfter("fence") = "fenced"
    BY DEF Actions, StateAfter
  <2>2. Follows(row.life[Len(row.life)].action, "fence")
    BY <1>3, <1>5 DEF Follows
  <2>3. GoodRow(Moved(row, "fence", actor, StateAfter("fence"), NoAgent, row.target, 1, NoAgent))
    BY <1>1, <1>2, <1>5, <2>1, <2>2, MovedIsGood
  <2> QED BY <2>1, <2>3 DEF Fenced
<1>6. ASSUME row.state = "fenced" PROVE GoodRow(Retargeted(row, actor, t))
  <2>1. "retarget" \in Actions /\ StateAfter("retarget") = "fenced"
    BY DEF Actions, StateAfter
  <2>2. Follows(row.life[Len(row.life)].action, "retarget")
    BY <1>3, <1>6 DEF Follows
  <2>3. GoodRow(Moved(row, "retarget", actor, StateAfter("retarget"), row.writer, t, 1, t))
    BY <1>1, <1>2, <1>6, <2>1, <2>2, MovedIsGood
  <2> QED BY <2>1, <2>3 DEF Retargeted
<1>7. ASSUME row.state = "fenced", actor = row.target PROVE GoodRow(Activated(row, actor))
  <2>1. "activate" \in Actions /\ StateAfter("activate") = "active"
    BY DEF Actions, StateAfter
  <2>2. Follows(row.life[Len(row.life)].action, "activate")
    BY <1>3, <1>7 DEF Follows
  <2>3. GoodRow(Moved(row, "activate", actor, StateAfter("activate"), actor, row.target, 1, NoAgent))
    BY <1>1, <1>2, <1>7, <2>1, <2>2, MovedIsGood
  <2> QED BY <2>1, <2>3 DEF Activated
<1> QED BY <1>4, <1>5, <1>6, <1>7

\* An absent row is explained by the empty lifecycle.
LEMMA NoRowIsGood == GoodRow(NoRow)
<1>1. <<>> \in Seq(Result) /\ Len(<<>>) = 0 OBVIOUS
<1>2. NoRow \in Row BY <1>1 DEF NoRow, Row, Callers
<1>3. LifecycleCap >= 0 BY DirectoryAssumption
<1> QED BY <1>1, <1>2, <1>3 DEF GoodRow, Explained, NoRow

\* A step that gives connection c request q and leaves dir, or sets it to a good row.
LEMMA StepKeepsInv ==
    ASSUME IInv, NEW c \in Conns, NEW s \in {"idle", "persist", "journal", "land"},
           NEW q \in Request, GoodRow(q.row), s = "land" => q.left > 0, Goto(c, s, q),
           head' \in [agent: Callers, epoch: Epochs], GoodRow(dir'), stale' = Overtaken
    PROVE  IInv'
<1>1. dir' \in Row /\ Len(dir'.life) <= LifecycleCap BY DEF GoodRow
<1>2. at' \in [Conns -> {"idle", "persist", "journal", "land"}] /\ req' \in [Conns -> Request]
  BY DEF IInv, TypeOK, Goto
<1>3. \A d \in Conns : req'[d] = (IF d = c THEN q ELSE req[d])
                         /\ at'[d] = (IF d = c THEN s ELSE at[d])
  BY DEF IInv, TypeOK, Goto
<1>4. \A d \in Conns : GoodRow(req'[d].row) /\ (at'[d] = "land" => req'[d].left > 0)
  BY <1>3 DEF IInv
<1> QED BY <1>1, <1>2, <1>4 DEF IInv, TypeOK, GoodRow, Explained, Overtaken

-----------------------------------------------------------------------------
\* The absent row satisfies the invariant.
LEMMA InitInv == Init => IInv
<1> SUFFICES ASSUME Init PROVE IInv OBVIOUS
<1>1. NoRequest \in Request /\ NoRequest.row = NoRow /\ NoAgent \in Callers /\ NoEpoch \in Epochs
  BY NoRowIsGood DEF NoRequest, Request, GoodRow, Callers, Epochs
<1>2. dir = NoRow /\ GoodRow(dir) BY NoRowIsGood DEF Init
<1> QED BY <1>1, <1>2, NoRowIsGood DEF Init, IInv, TypeOK, GoodRow

\* Every handoff action reaches persist with a good row.
LEMMA ValidatedInv ==
    ASSUME IInv, NEW c \in Conns, NEW row, GoodRow(row), Validated(c, row), stale' = Overtaken
    PROVE  IInv'
<1> DEFINE q == [NoRequest EXCEPT !.row = row]
<1>1. NoRequest \in Request
  BY NoRowIsGood DEF NoRequest, Request, GoodRow, Callers, Epochs
<1>2. row \in Row BY DEF GoodRow
<1>3. q \in Request /\ q.row = row
  BY <1>1, <1>2 DEF Request, NoRequest
<1>4. Goto(c, "persist", q) /\ dir' = dir /\ head' = head BY DEF Validated
<1> HIDE DEF q
<1>5. head' \in [agent: Callers, epoch: Epochs] /\ GoodRow(dir')
  BY <1>4 DEF IInv, TypeOK
<1> QED BY <1>3, <1>4, <1>5, StepKeepsInv

\* Every handoff action keeps the invariant.
LEMMA HandoffInv ==
    ASSUME IInv, NEW c \in Conns, Handoff(c), stale' = Overtaken
    PROVE  IInv'
<1>0. dir \in Row /\ GoodRow(dir) /\ NoAgent \in Callers /\ Agents \subseteq Callers
  BY DEF IInv, TypeOK, Callers
<1>1. ASSUME NEW actor \in Callers, NEW t \in Agents, Prepare(c, actor, t) PROVE IInv'
  <2>1. GoodRow(Prepared(dir, actor, t)) BY <1>0, <1>1, HandoffRows DEF Prepare
  <2> QED BY <1>1, <2>1, ValidatedInv DEF Prepare
<1>2. ASSUME NEW actor \in Callers, NEW t \in Agents, Retarget(c, actor, t) PROVE IInv'
  <2>1. GoodRow(Retargeted(dir, actor, t)) BY <1>0, <1>2, HandoffRows DEF Retarget
  <2> QED BY <1>2, <2>1, ValidatedInv DEF Retarget
<1>3. ASSUME NEW actor \in Callers, Fence(c, actor) PROVE IInv'
  <2>1. GoodRow(Fenced(dir, actor)) BY <1>0, <1>3, HandoffRows DEF Fence
  <2> QED BY <1>3, <2>1, ValidatedInv DEF Fence
<1>4. ASSUME NEW actor \in Callers, NEW e \in Epochs, Activate(c, actor, e) PROVE IInv'
  <2>1. GoodRow(Activated(dir, actor)) BY <1>0, <1>4, HandoffRows DEF Activate
  <2> QED BY <1>4, <2>1, ValidatedInv DEF Activate
<1>5. ASSUME Abort(c) PROVE IInv'
  BY <1>5, NoRowIsGood, ValidatedInv DEF Abort
<1> QED BY <1>1, <1>2, <1>3, <1>4, <1>5 DEF Handoff

\* The other steps: persist stores the good row, the rest leave dir alone.
LEMMA NextInv == IInv /\ [Next]_vars => IInv'
<1> SUFFICES ASSUME IInv, [Next]_vars PROVE IInv' OBVIOUS
<1>0. /\ NoRequest \in Request /\ NoRequest.row = NoRow /\ GoodRow(NoRow)
      /\ head \in [agent: Callers, epoch: Epochs] /\ GoodRow(dir)
  BY NoRowIsGood DEF NoRequest, Request, GoodRow, Callers, Epochs, IInv, TypeOK
<1>1. CASE UNCHANGED vars
  BY <1>1 DEF vars, IInv, TypeOK, GoodRow, Explained
<1>2. ASSUME NEW c \in Conns, Persist(c), stale' = Overtaken PROVE IInv'
  <2>1. GoodRow(dir') BY <1>2 DEF Persist, IInv
  <2> QED BY <1>0, <1>2, <2>1, StepKeepsInv DEF Persist
<1>3. ASSUME NEW c \in Conns, Journal(c) \/ Interrupt(c), stale' = Overtaken PROVE IInv'
  <2>1. Goto(c, "idle", NoRequest) /\ dir' = dir /\ head' = head
    BY <1>3 DEF Journal, Interrupt, Return
  <2> QED BY <1>0, <1>3, <2>1, StepKeepsInv
<1>4. ASSUME NEW c \in Conns, NEW agent \in Callers, NEW e \in Epochs, NEW n \in RestoreSizes,
             Enforce(c, agent, e, n), stale' = Overtaken
      PROVE  IInv'
  <2> DEFINE q == [NoRequest EXCEPT !.agent = agent, !.epoch = e, !.left = n]
  <2>1. n \in Nat /\ n > 0 BY DirectoryAssumption
  <2>2. q \in Request /\ q.row = NoRow /\ q.left = n
    BY <1>0, <2>1 DEF Request, NoRequest
  <2>3. Goto(c, "land", q) /\ dir' = dir /\ head' = head BY <1>4 DEF Enforce
  <2> HIDE DEF q
  <2> QED BY <1>0, <1>4, <2>1, <2>2, <2>3, StepKeepsInv
<1>5. ASSUME NEW c \in Conns, Land(c), stale' = Overtaken PROVE IInv'
  <2> DEFINE q == [req[c] EXCEPT !.left = @ - 1]
  <2>1. req[c] \in Request /\ GoodRow(req[c].row) /\ req[c].left > 0
    BY <1>5 DEF IInv, TypeOK, Land
  <2>2. head' \in [agent: Callers, epoch: Epochs] BY <1>5, <2>1 DEF Land, Request
  <2>3. GoodRow(dir') BY <1>0, <1>5 DEF Land
  <2>4. CASE Return(c) BY <1>0, <1>5, <2>2, <2>3, <2>4, StepKeepsInv DEF Return
  <2>5. CASE Goto(c, "land", q) /\ req[c].left # 1
    <3>1. q \in Request /\ q.row = req[c].row /\ q.left > 0 BY <2>1, <2>5 DEF Request
    <3> HIDE DEF q
    <3> QED BY <1>5, <2>1, <2>2, <2>3, <2>5, <3>1, StepKeepsInv
  <2> QED BY <1>5, <2>4, <2>5 DEF Land
<1> QED BY <1>1, <1>2, <1>3, <1>4, <1>5, HandoffInv DEF Next, Step

\* The writer directory's variables keep their types and the lifecycle its cap.
THEOREM TypeCorrect == Spec => []TypeOK
<1>1. IInv => TypeOK BY DEF IInv
<1> QED BY <1>1, InitInv, NextInv, PTL DEF Spec

\* However writer_handoff calls interleave on any number of connections, the row is
\* the outcome of the legal sequence of actions recorded in its lifecycle.
THEOREM RowsExplained == Spec => []LifecycleExplainsRow
<1>1. IInv => LifecycleExplainsRow BY DEF IInv, GoodRow, LifecycleExplainsRow
<1> QED BY <1>1, InitInv, NextInv, PTL DEF Spec

-----------------------------------------------------------------------------
(* The directory implements FencedWriter but for overtaken requests.  What *)
(* a request that was not overtaken has read is true when it is written,   *)
(* and what the others write is still a row that handoffs compute.         *)

\* How a handoff may change the authority.
Transfer(old, new) ==
    \/ /\ old.state \in {"none", "prepared"} /\ new.state \in {"none", "prepared"}
       /\ new.epoch = old.epoch
    \/ old.state = "prepared" /\ new.state = "fenced" /\ new.epoch = old.epoch + 1
    \/ old.state = "fenced" /\ new.state = "fenced" /\ new.epoch = old.epoch + 1
    \/ /\ old.state = "fenced" /\ new.state = "active" /\ new.epoch = old.epoch + 1
       /\ new.writer \in Agents

Computed(row) ==
    /\ row.state \in {"none", "prepared"} => row.epoch = 0
    /\ row.state = "active" => row.writer \in Agents

Fresh ==
    /\ Computed(dir)
    /\ \A c \in Conns :
         /\ at[c] = "persist" => Computed(req[c].row)
         /\ c \notin stale =>
              /\ at[c] = "persist" => Transfer(dir, req[c].row)
              /\ at[c] = "land" => Permits(dir, req[c].agent, req[c].epoch)

\* Each handoff action computes a row that transfers the authority correctly.
LEMMA HandoffTransfers ==
    ASSUME IInv, Fresh, NEW c \in Conns, Handoff(c)
    PROVE  \E row \in Row : Validated(c, row) /\ Transfer(dir, row) /\ Computed(row)
<1>0. dir \in Row /\ dir.epoch \in Nat /\ GoodRow(dir) /\ NoAgent \in Callers
      /\ Agents \subseteq Callers
  BY DEF IInv, TypeOK, Row, Callers
<1>1. ASSUME NEW actor \in Callers, NEW t \in Agents, Prepare(c, actor, t)
      PROVE  LET row == Prepared(dir, actor, t)
             IN row \in Row /\ Validated(c, row) /\ Transfer(dir, row) /\ Computed(row)
  <2>1. Prepared(dir, actor, t) \in Row
    BY <1>0, <1>1, HandoffRows DEF Prepare, GoodRow
  <2>2. Prepared(dir, actor, t).state = "prepared" /\ Prepared(dir, actor, t).epoch = dir.epoch
    BY <1>0 DEF Prepared, Moved
  <2>3. dir.epoch = 0 /\ Transfer(dir, Prepared(dir, actor, t))
    BY <1>1, <2>2 DEF Prepare, Transfer, Fresh, Computed
  <2> QED BY <1>1, <2>1, <2>2, <2>3 DEF Prepare, Computed
<1>2. ASSUME NEW actor \in Callers, NEW t \in Agents, Retarget(c, actor, t)
      PROVE  LET row == Retargeted(dir, actor, t)
             IN row \in Row /\ Validated(c, row) /\ Transfer(dir, row) /\ Computed(row)
  <2>1. Retargeted(dir, actor, t) \in Row
    BY <1>0, <1>2, HandoffRows DEF Retarget, GoodRow
  <2>2. /\ Retargeted(dir, actor, t).state = "fenced"
        /\ Retargeted(dir, actor, t).epoch = dir.epoch + 1
    BY <1>0 DEF Retargeted, Moved
  <2> QED BY <1>2, <2>1, <2>2 DEF Retarget, Transfer, Computed
<1>3. ASSUME NEW actor \in Callers, Fence(c, actor)
      PROVE  LET row == Fenced(dir, actor)
             IN row \in Row /\ Validated(c, row) /\ Transfer(dir, row) /\ Computed(row)
  <2>1. Fenced(dir, actor) \in Row
    BY <1>0, <1>3, HandoffRows DEF Fence, GoodRow
  <2>2. Fenced(dir, actor).state = "fenced" /\ Fenced(dir, actor).epoch = dir.epoch + 1
    BY <1>0 DEF Fenced, Moved
  <2> QED BY <1>3, <2>1, <2>2 DEF Fence, Transfer, Computed
<1>4. ASSUME NEW actor \in Callers, NEW e \in Epochs, Activate(c, actor, e)
      PROVE  LET row == Activated(dir, actor)
             IN row \in Row /\ Validated(c, row) /\ Transfer(dir, row) /\ Computed(row)
  <2>1. Activated(dir, actor) \in Row
    BY <1>0, <1>4, HandoffRows DEF Activate, GoodRow
  <2>2. /\ Activated(dir, actor).state = "active"
        /\ Activated(dir, actor).epoch = dir.epoch + 1
        /\ Activated(dir, actor).writer = actor
    BY <1>0 DEF Activated, Moved
  <2>3. actor \in Agents BY <1>4 DEF Activate, Callers
  <2> QED BY <1>4, <2>1, <2>2, <2>3 DEF Activate, Transfer, Computed
<1>5. ASSUME Abort(c)
      PROVE  NoRow \in Row /\ Validated(c, NoRow) /\ Transfer(dir, NoRow) /\ Computed(NoRow)
  <2>1. NoRow.state = "none" /\ NoRow.epoch = 0 BY DEF NoRow
  <2>2. dir.state = "prepared" /\ dir.epoch = 0 BY <1>5 DEF Abort, Fresh, Computed
  <2>3. Transfer(dir, NoRow) BY <2>1, <2>2 DEF Transfer
  <2> QED BY <1>5, <2>1, <2>3, NoRowIsGood DEF Abort, GoodRow, Computed
<1>6. \/ \E actor \in Callers, t \in Agents : Prepare(c, actor, t)
      \/ \E actor \in Callers, t \in Agents : Retarget(c, actor, t)
      \/ \E actor \in Callers : Fence(c, actor)
      \/ \E actor \in Callers, e \in Epochs : Activate(c, actor, e)
      \/ Abort(c)
  BY DEF Handoff
<1>7. CASE \E actor \in Callers, t \in Agents : Prepare(c, actor, t) BY <1>1, <1>7
<1>8. CASE \E actor \in Callers, t \in Agents : Retarget(c, actor, t) BY <1>2, <1>8
<1>9. CASE \E actor \in Callers : Fence(c, actor) BY <1>3, <1>9
<1>10. CASE \E actor \in Callers, e \in Epochs : Activate(c, actor, e) BY <1>4, <1>10
<1>11. CASE Abort(c) BY <1>5, <1>11
<1> QED BY <1>6, <1>7, <1>8, <1>9, <1>10, <1>11

\* A step keeps what it leaves alone: the requests on other connections and, while
\* the row is not replaced, what they have read.
LEMMA OthersFresh ==
    ASSUME IInv, Fresh, NEW c \in Conns, NEW s, NEW q, Goto(c, s, q), stale' = Overtaken,
           NEW d \in Conns, d # c
    PROVE  /\ at'[d] = "persist" => Computed(req'[d].row)
           /\ d \notin stale' =>
                /\ at'[d] = "persist" => Transfer(dir', req'[d].row)
                /\ at'[d] = "land" => Permits(dir', req'[d].agent, req'[d].epoch)
<1>1. at'[d] = at[d] /\ req'[d] = req[d]
  BY DEF IInv, TypeOK, Goto
<1>2. d \notin stale' /\ at[d] \in {"persist", "land"} => d \notin stale /\ dir' = dir
  BY <1>1 DEF Overtaken
<1> QED BY <1>1, <1>2 DEF Fresh

\* Every step keeps the invariant.
LEMMA FreshNext ==
    ASSUME IInv, Fresh, [Next]_vars
    PROVE  Fresh'
<1>0. /\ at \in [Conns -> {"idle", "persist", "journal", "land"}]
      /\ req \in [Conns -> Request]
  BY DEF IInv, TypeOK
<1>1. CASE UNCHANGED vars
  BY <1>1 DEF vars, Fresh, Computed, Transfer, Permits
<1>2. ASSUME NEW c \in Conns, Handoff(c), stale' = Overtaken PROVE Fresh'
  <2>1. PICK row \in Row : Validated(c, row) /\ Transfer(dir, row) /\ Computed(row)
    BY <1>2, HandoffTransfers
  <2> DEFINE q == [NoRequest EXCEPT !.row = row]
  <2>2. Goto(c, "persist", q) /\ dir' = dir /\ q.row = row BY <2>1 DEF Validated, NoRequest
  <2> HIDE DEF q
  <2>3. at'[c] = "persist" /\ req'[c].row = row BY <1>0, <2>2 DEF Goto
  <2>4. Transfer(dir', req'[c].row) /\ Computed(req'[c].row) /\ Computed(dir')
    BY <2>1, <2>2, <2>3 DEF Fresh
  <2> QED BY <1>2, <2>2, <2>3, <2>4, OthersFresh DEF Fresh
<1>3. ASSUME NEW c \in Conns, Persist(c), stale' = Overtaken PROVE Fresh'
  <2>1. Goto(c, "journal", NoRequest) /\ dir' = req[c].row /\ at[c] = "persist"
    BY <1>3 DEF Persist
  <2>2. at'[c] = "journal" BY <1>0, <2>1 DEF Goto
  <2>3. Computed(dir') BY <2>1 DEF Fresh
  <2> QED BY <1>3, <2>1, <2>2, <2>3, OthersFresh DEF Fresh
<1>4. ASSUME NEW c \in Conns, Journal(c) \/ Interrupt(c), stale' = Overtaken PROVE Fresh'
  <2>1. Goto(c, "idle", NoRequest) /\ dir' = dir
    BY <1>4 DEF Journal, Interrupt, Return
  <2>2. at'[c] = "idle" /\ Computed(dir') BY <1>0, <2>1 DEF Goto, Fresh
  <2> QED BY <1>4, <2>1, <2>2, OthersFresh DEF Fresh
<1>5. ASSUME NEW c \in Conns, NEW agent \in Callers, NEW e \in Epochs, NEW n \in RestoreSizes,
             Enforce(c, agent, e, n), stale' = Overtaken
      PROVE  Fresh'
  <2> DEFINE q == [NoRequest EXCEPT !.agent = agent, !.epoch = e, !.left = n]
  <2>1. Goto(c, "land", q) /\ dir' = dir /\ q.agent = agent /\ q.epoch = e
    BY <1>5 DEF Enforce, NoRequest
  <2> HIDE DEF q
  <2>2. at'[c] = "land" /\ req'[c] = q BY <1>0, <2>1 DEF Goto
  <2>3. Permits(dir', req'[c].agent, req'[c].epoch) /\ Computed(dir')
    BY <1>5, <2>1, <2>2 DEF Enforce, Fresh
  <2> QED BY <1>5, <2>1, <2>2, <2>3, OthersFresh DEF Fresh
<1>6. ASSUME NEW c \in Conns, Land(c), stale' = Overtaken PROVE Fresh'
  <2>1. dir' = dir /\ at[c] = "land" /\ Computed(dir') BY <1>6 DEF Land, Fresh
  <2>2. PICK s \in {"idle", "land"}, q \in Request :
          Goto(c, s, q) /\ (s = "land" => q.agent = req[c].agent /\ q.epoch = req[c].epoch)
    <3>1. NoRequest \in Request
      BY NoRowIsGood DEF NoRequest, Request, GoodRow, Callers, Epochs
    <3>2. CASE req[c].left = 1 BY <1>6, <3>1, <3>2 DEF Land, Return
    <3>3. CASE req[c].left # 1
      <4> DEFINE q == [req[c] EXCEPT !.left = @ - 1]
      <4>1. req[c] \in Request /\ req[c].left > 0 BY <1>0, <2>1 DEF IInv
      <4>2. q \in Request /\ q.agent = req[c].agent /\ q.epoch = req[c].epoch
        BY <4>1 DEF Request
      <4> QED BY <1>6, <3>3, <4>2 DEF Land
    <3> QED BY <3>2, <3>3
  <2>3. at'[c] = s /\ req'[c] = q BY <1>0, <2>2 DEF Goto
  <2>4. s = "land" /\ c \notin stale' => c \notin stale
    BY <1>6, <2>1, <2>3 DEF Overtaken
  <2>5. s = "land" /\ c \notin stale' => Permits(dir', req'[c].agent, req'[c].epoch)
    BY <2>1, <2>2, <2>3, <2>4 DEF Fresh
  <2> QED BY <1>6, <2>1, <2>2, <2>3, <2>5, OthersFresh DEF Fresh
<1> QED BY <1>1, <1>2, <1>3, <1>4, <1>5, <1>6 DEF Next, Step

\* A step that moves the authority as Transfer says is a step of FencedWriter or none.
LEMMA TransferRefines ==
    ASSUME dir \in Row, dir' \in Row, head' = head, Transfer(dir, dir'),
           dir.state = "active" => dir.writer \in Agents
    PROVE  [Authority!Next]_(Authority!vars)
<1>0. dir.epoch \in Nat /\ dir'.epoch \in Nat BY DEF Row
<1>1. CASE /\ dir.state \in {"none", "prepared"} /\ dir'.state \in {"none", "prepared"}
           /\ dir'.epoch = dir.epoch
  <2>1. Holder = Everyone /\ Holder' = Everyone BY <1>1 DEF Holder
  <2> QED BY <1>1, <2>1 DEF Authority!vars
<1>2. CASE dir.state = "prepared" /\ dir'.state = "fenced" /\ dir'.epoch = dir.epoch + 1
  <2>1. Holder = Everyone /\ Holder' = Nobody BY <1>2 DEF Holder
  <2> QED BY <1>2, <2>1 DEF Authority!Next, Authority!Fence
<1>3. CASE dir.state = "fenced" /\ dir'.state = "fenced" /\ dir'.epoch = dir.epoch + 1
  <2>1. Holder = Nobody /\ Holder' = Nobody BY <1>3 DEF Holder
  <2> QED BY <1>3, <2>1 DEF Authority!Next, Authority!Retarget
<1>4. CASE /\ dir.state = "fenced" /\ dir'.state = "active" /\ dir'.epoch = dir.epoch + 1
           /\ dir'.writer \in Agents
  <2>1. Holder = Nobody /\ Holder' = dir'.writer BY <1>4 DEF Holder
  <2> QED BY <1>4, <2>1 DEF Authority!Next, Authority!Activate
<1> QED BY <1>1, <1>2, <1>3, <1>4 DEF Transfer

\* A step of a request that was not overtaken is a step of the fenced writer or none.
LEMMA StepRefines ==
    ASSUME IInv, IInv', Fresh, [Next]_vars
    PROVE  [StaleStep \/ Authority!Next]_(Authority!vars)
<1>0. dir \in Row /\ dir' \in Row BY DEF IInv, TypeOK
<1>1. CASE dir' = dir /\ head' = head
  <2>1. Holder' = Holder BY <1>1 DEF Holder
  <2> QED BY <1>1, <2>1 DEF Authority!vars
<1>2. ASSUME NEW c \in Conns, Persist(c), c \notin stale PROVE [Authority!Next]_(Authority!vars)
  <2>1. Transfer(dir, dir') /\ head' = head BY <1>2 DEF Persist, Fresh
  <2> QED BY <1>0, <2>1, TransferRefines DEF Fresh, Computed
<1>3. ASSUME NEW c \in Conns, Land(c), c \notin stale PROVE [Authority!Next]_(Authority!vars)
  <2>1. /\ Permits(dir, req[c].agent, req[c].epoch) /\ dir' = dir
        /\ head' = [agent |-> req[c].agent, epoch |-> req[c].epoch]
    BY <1>3 DEF Land, Fresh, Computed
  <2>2. Holder' = Holder /\ dir'.epoch = dir.epoch BY <2>1 DEF Holder
  <2>3. head'.agent = req[c].agent /\ head'.epoch = req[c].epoch BY <2>1
  <2>4. CASE dir.state \in {"none", "prepared"}
    <3>1. Holder = Everyone BY <2>4 DEF Holder
    <3> QED BY <2>2, <3>1 DEF Authority!Next, Authority!Write
  <2>5. CASE /\ dir.state = "active" /\ req[c].agent \in {dir.writer, NoAgent}
             /\ req[c].epoch = dir.epoch
    <3>1. Holder = dir.writer /\ dir.writer \in Agents BY <2>5 DEF Holder, Fresh, Computed
    <3> QED BY <2>2, <2>3, <2>5, <3>1 DEF Authority!Next, Authority!Write
  <2> QED BY <2>1, <2>4, <2>5 DEF Permits
<1>4. ASSUME NEW c \in Conns, Handoff(c) PROVE dir' = dir /\ head' = head
  BY <1>4 DEF Handoff, Prepare, Retarget, Fence, Activate, Abort, Validated
<1>5. ASSUME NEW c \in Conns, Journal(c) \/ Interrupt(c) PROVE dir' = dir /\ head' = head
  BY <1>5 DEF Journal, Interrupt
<1>6. ASSUME NEW c \in Conns, NEW agent \in Callers, NEW e \in Epochs, NEW n \in RestoreSizes,
             Enforce(c, agent, e, n)
      PROVE  dir' = dir /\ head' = head
  BY <1>6 DEF Enforce
<1>7. UNCHANGED vars => dir' = dir /\ head' = head BY DEF vars
<1>8. ASSUME NEW c \in stale, c \in Conns, Persist(c) \/ Land(c) PROVE StaleStep
  <2>1. /\ at \in [Conns -> {"idle", "persist", "journal", "land"}]
        /\ req \in [Conns -> Request]
    BY DEF IInv, TypeOK
  <2>2. CASE Persist(c)
    BY <1>8, <2>1, <2>2 DEF Persist, Goto, StaleStep
  <2>3. CASE Land(c) /\ req[c].left = 1
    BY <1>8, <2>1, <2>3 DEF Land, Return, Goto, StaleStep
  <2>4. CASE Land(c) /\ req[c].left # 1
    <3>1. req[c] \in Request /\ req'[c] = [req[c] EXCEPT !.left = @ - 1]
      BY <1>8, <2>1, <2>4 DEF Land, Goto
    <3>2. req'[c].left # req[c].left BY <3>1 DEF Request
    <3> QED BY <3>2 DEF StaleStep
  <2> QED BY <1>8, <2>2, <2>3, <2>4
<1> QED BY <1>1, <1>2, <1>3, <1>4, <1>5, <1>6, <1>7, <1>8 DEF Next, Step

\* However writer_handoff and remember interleave on any number of connections,
\* the directory is a fenced writer but for the steps of requests whose row was
\* replaced after they read it: authority moves through a gap without a writer, each
\* move advances the epoch, and a write lands only while the authority permits it.
THEOREM DirectoryIsFenced == Spec => ImplementsFencedWriter
<1>1. Init => Fresh
  <2> SUFFICES ASSUME Init PROVE Fresh OBVIOUS
  <2>1. dir.state = "none" /\ dir.epoch = 0 /\ \A c \in Conns : at[c] = "idle"
    BY DEF Init, NoRow
  <2> QED BY <2>1 DEF Fresh, Computed
<1>2. Init => Authority!Init
  <2> SUFFICES ASSUME Init PROVE Authority!Init OBVIOUS
  <2>1. dir.state = "none" /\ dir.epoch = 0 /\ head = [agent |-> NoAgent, epoch |-> -1]
    BY DEF Init, NoRow, NoEpoch
  <2>2. Holder = Everyone BY <2>1 DEF Holder
  <2> QED BY <2>1, <2>2 DEF Authority!Init
<1>3. IInv /\ Fresh /\ [Next]_vars => Fresh' BY FreshNext
<1>4. IInv /\ IInv' /\ Fresh /\ [Next]_vars => [StaleStep \/ Authority!Next]_(Authority!vars)
  BY StepRefines
<1> QED BY <1>1, <1>2, <1>3, <1>4, InitInv, NextInv, PTL
        DEF Spec, ImplementsFencedWriter
=============================================================================
