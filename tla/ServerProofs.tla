---------------------------- MODULE ServerProofs ----------------------------
(***************************************************************************)
(* Proofs about the two front ends.  HttpServer: attribution and streams,  *)
(* for any number of clients and sessions and any capacity of the channel. *)
(* StdioServer: one exchange per request, for any number of requests and   *)
(* of programs that replace the one that runs.                             *)
(***************************************************************************)
EXTENDS MCFrontEnds, SequenceTheorems, FiniteSetTheorems, TLAPS

-----------------------------------------------------------------------------
(* Sequences.                                                              *)

Entries(s) == {s[i] : i \in DOMAIN s}

LEMMA HeadTail ==
    ASSUME NEW S, NEW s \in Seq(S), s # <<>>
    PROVE  /\ Head(s) \in S /\ Tail(s) \in Seq(S) /\ Len(Tail(s)) = Len(s) - 1 /\ Len(s) > 0
           /\ Head(s) = s[1] /\ 1 \in DOMAIN s
           /\ Entries(s) = {Head(s)} \cup Entries(Tail(s))
  <1>1. /\ Head(s) \in S /\ Tail(s) \in Seq(S) /\ Len(Tail(s)) = Len(s) - 1 /\ Len(s) > 0
        /\ Head(s) = s[1] /\ 1 \in DOMAIN s
    OBVIOUS
  <1>2. \A i \in DOMAIN Tail(s) : Tail(s)[i] = s[i + 1] /\ i + 1 \in DOMAIN s
    BY <1>1
  <1>3. Entries(Tail(s)) \subseteq Entries(s)
    BY <1>2 DEF Entries
  <1>4. \A i \in DOMAIN s : i # 1 => i - 1 \in DOMAIN Tail(s) /\ s[i] = Tail(s)[i - 1]
    BY <1>1
  <1>5. Entries(s) \subseteq {Head(s)} \cup Entries(Tail(s))
    <2> SUFFICES ASSUME NEW i \in DOMAIN s PROVE s[i] \in {Head(s)} \cup Entries(Tail(s))
      BY DEF Entries
    <2>1. CASE i = 1
      BY <1>1, <2>1
    <2>2. CASE i # 1
      BY <1>4, <2>2 DEF Entries
    <2>3. QED
      BY <2>1, <2>2
  <1>6. QED
    BY <1>1, <1>3, <1>5 DEF Entries

LEMMA EntriesAppend ==
    ASSUME NEW S, NEW s \in Seq(S), NEW x \in S
    PROVE  /\ Append(s, x) \in Seq(S) /\ Len(Append(s, x)) = Len(s) + 1
           /\ Append(s, x) # <<>>
           /\ Entries(Append(s, x)) = Entries(s) \cup {x}
  <1>1. /\ Append(s, x) \in Seq(S) /\ Len(Append(s, x)) = Len(s) + 1 /\ Len(s) \in Nat
        /\ \A i \in DOMAIN s : i \in DOMAIN Append(s, x) /\ Append(s, x)[i] = s[i]
        /\ Len(s) + 1 \in DOMAIN Append(s, x) /\ Append(s, x)[Len(s) + 1] = x
        /\ DOMAIN Append(s, x) = DOMAIN s \cup {Len(s) + 1}
    OBVIOUS
  <1>2. Entries(Append(s, x)) = Entries(s) \cup {x}
    BY <1>1 DEF Entries
  <1>3. QED
    BY <1>1, <1>2

-----------------------------------------------------------------------------
(* HttpServer.                                                             *)

\* The mark for a session without a name is not the name of a client.
ClientConstants == Http!Nobody \notin Conns

HttpSteps == {"idle", "initialize", "identify", "register", "call", "send", "lease", "subscribe",
              "endpoint", "stream"}
Stream == [id: Nat, new: BOOLEAN, next: Nat, since: Nat, got: Seq(Nat), missed: SUBSET Nat]
SessionState == [initialized: BOOLEAN, agent: Conns \cup {Http!Nobody}]

\* A request under way has a session.
RequestTyped(s, d) == s \in HttpSteps /\ d \in Stream /\ (s # "idle" => d.id \in Http!Ids)

HttpTyped ==
    /\ issued \in 0 .. MaxIds /\ feed \in Seq(Http!Ids)
    /\ DOMAIN step = Conns /\ DOMAIN doing = Conns
    /\ \A c \in Conns : RequestTyped(step[c], doing[c])
    /\ state \in [Http!Ids -> SessionState]
    /\ initializer \in [Http!Ids -> Conns \cup {Http!Nobody}]

\* A session gets its name once: from the one request that swapped its flag.
Identifies(c, id) == step[c] = "identify" /\ doing[c].id = id
AttributionInv ==
    /\ \A id \in Http!Ids : /\ state[id].agent = initializer[id]
                            /\ initializer[id] # Http!Nobody => state[id].initialized
    /\ \A c \in Conns, id \in Http!Ids : Identifies(c, id) =>
           state[id].initialized /\ initializer[id] = Http!Nobody
    /\ \A c, d \in Conns, id \in Http!Ids : Identifies(c, id) /\ Identifies(d, id) => c = d
    /\ \A id \in ready : id \in Http!Ids /\ initializer[id] # Http!Nobody
    /\ \A c \in Conns : step[c] \in {"register", "call"} => initializer[doing[c].id] # Http!Nobody
    /\ \A e \in executed : /\ e.id \in Http!Ids /\ e.agent # Http!Nobody
                           /\ e.agent = initializer[e.id]

LEMMA HttpInitTyped == ClientConstants /\ Http!Init => HttpTyped /\ AttributionInv
  <1> SUFFICES ASSUME ClientConstants, Http!Init PROVE HttpTyped /\ AttributionInv
    OBVIOUS
  <1>1. Http!NoStream \in Stream
    BY DEF Http!NoStream, Stream
  <1>2. HttpTyped
    BY <1>1, HttpAssumption DEF Http!Init, HttpTyped, RequestTyped, HttpSteps, SessionState
  <1>3. AttributionInv
    BY DEF Http!Init, AttributionInv, Identifies
  <1>4. QED
    BY <1>2, <1>3

\* A step of the request of c.
LEMMA RequestMoves ==
    ASSUME HttpTyped, NEW c \in Conns, NEW s, NEW d, Http!Goto(c, s, d), RequestTyped(s, d)
    PROVE  /\ step'[c] = s /\ doing'[c] = d
           /\ \A o \in Conns \ {c} : step'[o] = step[o] /\ doing'[o] = doing[o]
           /\ DOMAIN step' = Conns /\ DOMAIN doing' = Conns
           /\ \A o \in Conns : RequestTyped(step'[o], doing'[o])
  BY DEF HttpTyped, Http!Goto

\* One that decides on no name: the swap and the naming are the only others.
LEMMA AttributionKept ==
    ASSUME HttpTyped, AttributionInv, NEW c \in Conns, NEW s, NEW d, Http!Goto(c, s, d),
           RequestTyped(s, d), s # "identify",
           s \in {"register", "call"} => initializer[d.id] # Http!Nobody,
           UNCHANGED <<state, initializer>>,
           \A id \in ready' : id \in Http!Ids /\ initializer[id] # Http!Nobody,
           \A e \in executed' : /\ e.id \in Http!Ids /\ e.agent # Http!Nobody
                                /\ e.agent = initializer[e.id]
    PROVE  AttributionInv'
  <1>1. /\ step'[c] = s /\ doing'[c] = d
        /\ \A o \in Conns \ {c} : step'[o] = step[o] /\ doing'[o] = doing[o]
    BY RequestMoves
  <1>2. \A o \in Conns, id \in Http!Ids : Identifies(o, id)' => Identifies(o, id)
    BY <1>1 DEF Identifies
  <1>3. \A o \in Conns : step'[o] \in {"register", "call"} =>
            initializer[doing'[o].id] # Http!Nobody
    BY <1>1 DEF AttributionInv
  <1>4. QED
    BY <1>2, <1>3 DEF AttributionInv

LEMMA NewRequestTyped ==
    ASSUME NEW id \in Http!Ids, NEW new \in BOOLEAN, NEW s \in HttpSteps
    PROVE  /\ RequestTyped(s, [Http!NoStream EXCEPT !.id = id, !.new = new])
           /\ RequestTyped(s, [Http!NoStream EXCEPT !.id = id])
           /\ [Http!NoStream EXCEPT !.id = id].id = id
           /\ [Http!NoStream EXCEPT !.id = id].got = <<>>
           /\ [Http!NoStream EXCEPT !.id = id].missed = {}
  <1>1. id \in Nat
    BY HttpAssumption DEF Http!Ids
  <1>2. Http!NoStream \in Stream /\ Http!NoStream.got = <<>> /\ Http!NoStream.missed = {}
    BY DEF Stream, Http!NoStream
  <1> DEFINE d == [Http!NoStream EXCEPT !.id = id]
             e == [Http!NoStream EXCEPT !.id = id, !.new = new]
  <1>3. d \in Stream /\ d.id = id /\ d.got = <<>> /\ d.missed = {}
    BY <1>1, <1>2 DEF Stream
  <1>4. e \in Stream /\ e.id = id
    BY <1>1, <1>2 DEF Stream
  <1> HIDE DEF d, e
  <1>5. RequestTyped(s, d) /\ RequestTyped(s, e)
    BY <1>3, <1>4 DEF RequestTyped
  <1>6. QED
    BY <1>3, <1>5 DEF d, e

LEMMA IdleTyped == RequestTyped("idle", Http!NoStream)
  BY DEF RequestTyped, Stream, HttpSteps, Http!NoStream

\* The rest of the types, for a step that leaves the names alone.
LEMMA HttpTypedKept ==
    ASSUME HttpTyped, NEW c \in Conns, NEW s, NEW d, Http!Goto(c, s, d), RequestTyped(s, d),
           issued' \in 0 .. MaxIds, feed' \in Seq(Http!Ids), UNCHANGED <<state, initializer>>
    PROVE  HttpTyped'
  <1>1. /\ DOMAIN step' = Conns /\ DOMAIN doing' = Conns
        /\ \A o \in Conns : RequestTyped(step'[o], doing'[o])
    BY RequestMoves
  <1>2. QED
    BY <1>1 DEF HttpTyped

LEMMA RequestOf ==
    ASSUME HttpTyped, NEW c \in Conns
    PROVE  /\ doing[c] \in Stream /\ step[c] \in HttpSteps
           /\ step[c] # "idle" => doing[c].id \in Http!Ids
           /\ \A s \in HttpSteps : step[c] # "idle" => RequestTyped(s, doing[c])
  BY DEF HttpTyped, RequestTyped

\* A request that begins: on a new session, or on one that is in the registry.
LEMMA ArrivalAttributed ==
    ASSUME HttpTyped, AttributionInv, NEW c \in Conns,
           \/ Http!PostInitialize(c) \/ Http!GetSse(c)
           \/ \E id \in 1 .. issued : \/ Http!PostInitializeOn(c, id) \/ Http!PostCall(c, id)
                                      \/ Http!GetSseOf(c, id)
    PROVE  HttpTyped' /\ AttributionInv'
  <1>1. issued \in 0 .. MaxIds /\ MaxIds \in Nat /\ feed \in Seq(Http!Ids)
    BY HttpAssumption DEF HttpTyped
  <1>2. UNCHANGED <<state, initializer, executed, feed>>
    BY DEF Http!PostInitialize, Http!GetSse, Http!PostInitializeOn, Http!PostCall, Http!GetSseOf
  <1>3. ready' \subseteq ready
    BY DEF Http!PostInitialize, Http!GetSse, Http!PostInitializeOn, Http!PostCall, Http!GetSseOf,
           Http!GetAny, Http!Get, Http!Touch
  <1>4. ASSUME NEW s \in HttpSteps \ {"identify", "register"}, NEW d, Http!Goto(c, s, d),
               RequestTyped(s, d), s = "call" => initializer[d.id] # Http!Nobody,
               issued' \in 0 .. MaxIds
        PROVE  HttpTyped' /\ AttributionInv'
    <2>1. HttpTyped'
      BY <1>1, <1>2, <1>4, HttpTypedKept
    <2>2. AttributionInv'
      BY <1>2, <1>3, <1>4, AttributionKept DEF AttributionInv
    <2>3. QED
      BY <2>1, <2>2
  <1>5. CASE Http!PostInitialize(c) \/ Http!GetSse(c)
    <2>1. issued + 1 \in Http!Ids /\ issued' = issued + 1 /\ issued' \in 0 .. MaxIds
      BY <1>1, <1>5 DEF Http!PostInitialize, Http!GetSse, Http!Ids
    <2>2. CASE Http!PostInitialize(c)
      <3> DEFINE d == [Http!NoStream EXCEPT !.id = issued + 1, !.new = TRUE]
      <3>1. Http!Goto(c, "initialize", d) /\ RequestTyped("initialize", d)
        BY <2>1, <2>2, NewRequestTyped DEF Http!PostInitialize, HttpSteps
      <3>2. QED
        BY <1>4, <2>1, <3>1 DEF HttpSteps
    <2>3. CASE Http!GetSse(c)
      <3> DEFINE d == [Http!NoStream EXCEPT !.id = issued + 1]
      <3>1. Http!Goto(c, "lease", d) /\ RequestTyped("lease", d)
        BY <2>1, <2>3, NewRequestTyped DEF Http!GetSse, HttpSteps
      <3>2. QED
        BY <1>4, <2>1, <3>1 DEF HttpSteps
    <2>4. QED
      BY <1>5, <2>2, <2>3
  <1>6. ASSUME NEW id \in 1 .. issued,
               \/ Http!PostInitializeOn(c, id) \/ Http!PostCall(c, id) \/ Http!GetSseOf(c, id)
        PROVE  HttpTyped' /\ AttributionInv'
    <2> DEFINE d == [Http!NoStream EXCEPT !.id = id]
    <2>1. id \in Http!Ids /\ issued' = issued
      <3>1. id \in Http!Ids
        BY <1>1 DEF Http!Ids
      <3>2. QED
        BY <1>6, <3>1 DEF Http!PostInitializeOn, Http!PostCall, Http!GetSseOf
    <2>2. \A s \in HttpSteps : RequestTyped(s, d)
      BY <2>1, NewRequestTyped
    <2>3. d.id = id
      BY DEF Http!NoStream
    <2>4. CASE Http!PostInitializeOn(c, id)
      <3>1. Http!Goto(c, "initialize", d)
        BY <2>4 DEF Http!PostInitializeOn
      <3>2. QED
        BY <1>1, <1>4, <2>1, <2>2, <3>1 DEF HttpSteps
    <2>5. CASE Http!PostCall(c, id)
      <3>1. Http!Goto(c, "call", d) /\ id \in ready
        BY <2>5 DEF Http!PostCall, Http!Get
      <3>2. initializer[d.id] # Http!Nobody
        BY <2>3, <3>1 DEF AttributionInv
      <3>3. QED
        BY <1>1, <1>4, <2>1, <2>2, <3>1, <3>2 DEF HttpSteps
    <2>6. CASE Http!GetSseOf(c, id)
      <3>1. Http!Goto(c, "lease", d)
        BY <2>6 DEF Http!GetSseOf
      <3>2. QED
        BY <1>1, <1>4, <2>1, <2>2, <3>1 DEF HttpSteps
    <2>7. QED
      BY <1>6, <2>4, <2>5, <2>6
  <1>7. QED
    BY <1>5, <1>6

\* The swap: whoever finds the flag clear is alone with the session.
LEMMA SwapAttributed ==
    ASSUME HttpTyped, AttributionInv, NEW c \in Conns, Http!Swap(c)
    PROVE  HttpTyped' /\ AttributionInv'
  <1> DEFINE id == doing[c].id
  <1>1. /\ step[c] = "initialize" /\ state' = [state EXCEPT ![id].initialized = TRUE]
        /\ UNCHANGED <<ready, issued, feed, initializer, executed>>
    BY DEF Http!Swap
  <1>2. id \in Http!Ids /\ state \in [Http!Ids -> SessionState]
    BY <1>1, RequestOf DEF HttpTyped
  <1>3. /\ state' \in [Http!Ids -> SessionState]
        /\ \A i \in Http!Ids : /\ state'[i].agent = state[i].agent
                               /\ state'[i].initialized = (state[i].initialized \/ i = id)
    BY <1>1, <1>2 DEF SessionState
  <1>4. PICK s, d : /\ Http!Goto(c, s, d) /\ RequestTyped(s, d)
                    /\ \/ s = "idle"
                       \/ s = "identify" /\ d = doing[c] /\ ~state[id].initialized
    <2>1. CASE state[id].initialized
      BY <2>1, IdleTyped DEF Http!Swap, Http!Return
    <2>2. CASE ~state[id].initialized
      <3>1. Http!Goto(c, "identify", doing[c])
        BY <2>2 DEF Http!Swap
      <3>2. RequestTyped("identify", doing[c])
        BY <1>1, RequestOf DEF HttpSteps
      <3>3. QED
        BY <2>2, <3>1, <3>2
    <2>3. QED
      BY <2>1, <2>2
  <1>5. /\ step'[c] = s /\ doing'[c] = d
        /\ \A o \in Conns \ {c} : step'[o] = step[o] /\ doing'[o] = doing[o]
        /\ DOMAIN step' = Conns /\ DOMAIN doing' = Conns
        /\ \A o \in Conns : RequestTyped(step'[o], doing'[o])
    BY <1>4, RequestMoves
  <1>6. HttpTyped'
    BY <1>1, <1>3, <1>5 DEF HttpTyped
  <1> HIDE DEF id
  <1>7. ~state[id].initialized => initializer[id] = Http!Nobody /\ \A o \in Conns : ~Identifies(o, id)
    BY <1>2 DEF AttributionInv
  <1>8. \A o \in Conns, i \in Http!Ids : Identifies(o, i)' =>
            Identifies(o, i) \/ (o = c /\ i = id /\ ~state[id].initialized)
    BY <1>4, <1>5 DEF Identifies, id
  <1>9. \A i \in Http!Ids : /\ state'[i].agent = initializer'[i]
                            /\ initializer'[i] # Http!Nobody => state'[i].initialized
    BY <1>1, <1>3 DEF AttributionInv
  <1>10. \A o \in Conns, i \in Http!Ids : Identifies(o, i)' =>
             state'[i].initialized /\ initializer'[i] = Http!Nobody
    BY <1>1, <1>3, <1>7, <1>8 DEF AttributionInv
  <1>11. \A o, q \in Conns, i \in Http!Ids : Identifies(o, i)' /\ Identifies(q, i)' => o = q
    BY <1>7, <1>8 DEF AttributionInv
  <1>12. \A o \in Conns : step'[o] \in {"register", "call"} =>
             initializer'[doing'[o].id] # Http!Nobody
    BY <1>1, <1>4, <1>5 DEF AttributionInv
  <1>13. AttributionInv'
    BY <1>1, <1>9, <1>10, <1>11, <1>12 DEF AttributionInv
  <1>14. QED
    BY <1>6, <1>13

\* The naming: no call of the session has run, and no other request is naming.
LEMMA IdentifyAttributed ==
    ASSUME ClientConstants, HttpTyped, AttributionInv, NEW c \in Conns, Http!Identify(c)
    PROVE  HttpTyped' /\ AttributionInv'
  <1> DEFINE id == doing[c].id
  <1>1. /\ step[c] = "identify" /\ state' = [state EXCEPT ![id].agent = c]
        /\ initializer' = [initializer EXCEPT ![id] = c]
        /\ Http!Goto(c, "register", doing[c])
        /\ UNCHANGED <<ready, issued, feed, executed>>
    BY DEF Http!Identify
  <1>2. /\ id \in Http!Ids /\ state \in [Http!Ids -> SessionState]
        /\ initializer \in [Http!Ids -> Conns \cup {Http!Nobody}]
        /\ RequestTyped("register", doing[c])
    BY <1>1, RequestOf DEF HttpTyped, HttpSteps
  <1>3. /\ state' \in [Http!Ids -> SessionState]
        /\ \A i \in Http!Ids : state'[i].initialized = state[i].initialized
        /\ \A i \in Http!Ids \ {id} : state'[i].agent = state[i].agent
        /\ state'[id].agent = c
    BY <1>1, <1>2 DEF SessionState
  <1>4. /\ initializer' \in [Http!Ids -> Conns \cup {Http!Nobody}]
        /\ initializer'[id] = c /\ \A i \in Http!Ids \ {id} : initializer'[i] = initializer[i]
    BY <1>1, <1>2
  <1>5. /\ step'[c] = "register" /\ doing'[c] = doing[c]
        /\ \A o \in Conns \ {c} : step'[o] = step[o] /\ doing'[o] = doing[o]
        /\ DOMAIN step' = Conns /\ DOMAIN doing' = Conns
        /\ \A o \in Conns : RequestTyped(step'[o], doing'[o])
    BY <1>1, <1>2, RequestMoves
  <1>6. HttpTyped'
    BY <1>1, <1>3, <1>4, <1>5 DEF HttpTyped
  <1>7. Identifies(c, id) /\ c # Http!Nobody
    BY <1>1 DEF Identifies, ClientConstants
  <1> HIDE DEF id
  <1>8. initializer[id] = Http!Nobody /\ state[id].initialized
    BY <1>2, <1>7 DEF AttributionInv
  <1>9. \A o \in Conns, i \in Http!Ids : Identifies(o, i)' => Identifies(o, i) /\ i # id
    BY <1>2, <1>5, <1>7 DEF Identifies, AttributionInv
  <1>10. \A i \in Http!Ids : /\ state'[i].agent = initializer'[i]
                             /\ initializer'[i] # Http!Nobody => state'[i].initialized
    BY <1>3, <1>4, <1>8 DEF AttributionInv
  <1>11. \A o \in Conns, i \in Http!Ids : Identifies(o, i)' =>
             state'[i].initialized /\ initializer'[i] = Http!Nobody
    BY <1>3, <1>4, <1>9 DEF AttributionInv
  <1>12. \A o, q \in Conns, i \in Http!Ids : Identifies(o, i)' /\ Identifies(q, i)' => o = q
    BY <1>9 DEF AttributionInv
  <1>13. \A i \in ready' : i \in Http!Ids /\ initializer'[i] # Http!Nobody
    BY <1>1, <1>4, <1>7 DEF AttributionInv
  <1>14. ASSUME NEW o \in Conns, step'[o] \in {"register", "call"}
         PROVE  initializer'[doing'[o].id] # Http!Nobody
    <2>1. CASE o = c
      BY <1>4, <1>5, <1>7, <2>1 DEF id
    <2>2. CASE o # c
      <3>1. doing'[o] = doing[o] /\ initializer[doing[o].id] # Http!Nobody
            /\ doing[o].id \in Http!Ids
        BY <1>5, <1>14, <2>2, RequestOf DEF AttributionInv
      <3>2. QED
        BY <1>4, <1>8, <3>1
    <2>3. QED
      BY <2>1, <2>2
  <1>15. \A e \in executed' : /\ e.id \in Http!Ids /\ e.agent # Http!Nobody
                              /\ e.agent = initializer'[e.id]
    BY <1>1, <1>4, <1>8 DEF AttributionInv
  <1>16. AttributionInv'
    BY <1>10, <1>11, <1>12, <1>13, <1>14, <1>15 DEF AttributionInv
  <1>17. QED
    BY <1>6, <1>16

\* What recv makes of a stream: it skips what the channel has dropped, or takes
\* the next message, which it delivers when it is of its session.
Skipped(d, e) ==
    /\ e.next \in d.next + 1 .. Len(feed) + 1 /\ e.got = d.got
    /\ e.missed = d.missed \cup (d.next .. e.next - 1)
Taken(d, e) ==
    /\ e.next = d.next + 1 /\ e.missed = d.missed
    /\ e.got = IF feed[d.next] = d.id THEN Append(d.got, d.next) ELSE d.got
ReadOn(d, e) ==
    /\ e \in Stream /\ e.id = d.id /\ e.since = d.since /\ d.next <= Len(feed)
    /\ Skipped(d, e) \/ Taken(d, e)

LEMMA RecvReadsOn ==
    ASSUME NEW c \in Conns, doing[c] \in Stream, feed \in Seq(Http!Ids), Http!Recv(c)
    PROVE  \E e : Http!Goto(c, "stream", e) /\ ReadOn(doing[c], e)
  <1> DEFINE d == doing[c]
             oldest == IF Len(feed) > Capacity THEN Len(feed) - Capacity + 1 ELSE 1
             skip == [d EXCEPT !.next = oldest, !.missed = @ \cup (d.next .. oldest - 1)]
             got == IF feed[d.next] = d.id THEN Append(d.got, d.next) ELSE d.got
             take == [d EXCEPT !.next = d.next + 1, !.got = got]
  <1>1. /\ d.next <= Len(feed) /\ d.next \in Nat /\ d.missed \subseteq Nat /\ d.got \in Seq(Nat)
        /\ Len(feed) \in Nat
    BY DEF Http!Recv, Stream
  <1>2. oldest \in 1 .. Len(feed) + 1
    BY <1>1, HttpAssumption
  <1> HIDE DEF oldest
  <1>3. CASE d.next < oldest
    <2>1. Http!Goto(c, "stream", skip)
      BY <1>3 DEF Http!Recv, oldest
    <2>2. oldest \in Nat /\ (d.next .. oldest - 1) \subseteq Nat
      BY <1>1, <1>2
    <2>3. /\ skip \in Stream /\ skip.id = d.id /\ skip.since = d.since /\ skip.got = d.got
          /\ skip.next = oldest /\ skip.missed = d.missed \cup (d.next .. oldest - 1)
      BY <2>2 DEF Stream
    <2> HIDE DEF skip
    <2>4. skip.next \in d.next + 1 .. Len(feed) + 1
      BY <1>1, <1>2, <1>3, <2>3
    <2>5. ReadOn(d, skip)
      BY <1>1, <2>3, <2>4 DEF ReadOn, Skipped
    <2>6. QED
      BY <2>1, <2>5
  <1>4. CASE ~(d.next < oldest)
    <2>1. Http!Goto(c, "stream", take)
      BY <1>4 DEF Http!Recv, oldest
    <2>2. got \in Seq(Nat) /\ d.next + 1 \in Nat
      BY <1>1
    <2> HIDE DEF got
    <2>3. /\ take \in Stream /\ take.id = d.id /\ take.since = d.since /\ take.missed = d.missed
          /\ take.next = d.next + 1 /\ take.got = got
      BY <2>2 DEF Stream
    <2> HIDE DEF take
    <2>4. ReadOn(d, take)
      BY <1>1, <2>3 DEF ReadOn, Taken, got
    <2>5. QED
      BY <2>1, <2>4
  <1>5. QED
    BY <1>3, <1>4

\* The other steps of a request.
LEMMA ProgressAttributed ==
    ASSUME HttpTyped, AttributionInv, NEW c \in Conns,
           \/ Http!Register(c) \/ Http!Call(c) \/ Http!Send(c) \/ Http!Lease(c)
           \/ Http!Subscribe(c) \/ Http!Endpoint(c) \/ Http!Recv(c) \/ Http!Disconnect(c)
    PROVE  HttpTyped' /\ AttributionInv'
  <1>1. UNCHANGED <<issued, state, initializer>> /\ step[c] # "idle"
    BY DEF Http!Register, Http!Call, Http!Send, Http!Lease, Http!Subscribe, Http!Endpoint,
           Http!Recv, Http!Disconnect
  <1>2. /\ doing[c] \in Stream /\ doing[c].id \in Http!Ids /\ feed \in Seq(Http!Ids)
        /\ issued \in 0 .. MaxIds /\ \A s \in HttpSteps : RequestTyped(s, doing[c])
    BY <1>1, RequestOf DEF HttpTyped
  <1>3. /\ \A id \in ready : id \in Http!Ids /\ initializer[id] # Http!Nobody
        /\ \A e \in executed : /\ e.id \in Http!Ids /\ e.agent # Http!Nobody
                               /\ e.agent = initializer[e.id]
    BY DEF AttributionInv
  <1>4. ASSUME NEW s \in HttpSteps \ {"identify", "register", "call"}, NEW d, Http!Goto(c, s, d),
               RequestTyped(s, d), feed' \in Seq(Http!Ids),
               \A id \in ready' : id \in Http!Ids /\ initializer[id] # Http!Nobody,
               \A e \in executed' : /\ e.id \in Http!Ids /\ e.agent # Http!Nobody
                                    /\ e.agent = initializer[e.id]
        PROVE  HttpTyped' /\ AttributionInv'
    <2>1. HttpTyped'
      BY <1>1, <1>2, <1>4, HttpTypedKept
    <2>2. AttributionInv'
      BY <1>1, <1>4, AttributionKept
    <2>3. QED
      BY <2>1, <2>2
  <1>5. CASE Http!Register(c)
    <2>1. initializer[doing[c].id] # Http!Nobody
      BY <1>5 DEF Http!Register, AttributionInv
    <2>2. ready' \subseteq ready \cup {doing[c].id} /\ UNCHANGED <<feed, executed>>
      BY <1>5 DEF Http!Register
    <2>3. Http!Goto(c, "idle", Http!NoStream) \/ Http!Goto(c, "send", doing[c])
      BY <1>5 DEF Http!Register, Http!Return
    <2>4. RequestTyped("send", doing[c]) /\ "send" \in HttpSteps /\ "idle" \in HttpSteps
      BY <1>2 DEF HttpSteps
    <2>5. QED
      BY <1>2, <1>3, <1>4, <2>1, <2>2, <2>3, <2>4, IdleTyped
  <1>6. CASE Http!Call(c)
    <2> DEFINE id == doing[c].id
               e == [id |-> id, agent |-> state[id].agent]
    <2>1. step[c] = "call" /\ Http!Goto(c, "send", doing[c]) /\ UNCHANGED <<ready, feed>>
          /\ executed' \subseteq executed \cup {e}
      BY <1>6 DEF Http!Call
    <2>2. initializer[id] # Http!Nobody /\ state[id].agent = initializer[id]
      BY <1>2, <2>1 DEF AttributionInv
    <2>3. e.id = id /\ e.agent = state[id].agent
      OBVIOUS
    <2> HIDE DEF e
    <2>4. RequestTyped("send", doing[c]) /\ "send" \in HttpSteps
      BY <1>2 DEF HttpSteps
    <2>5. QED
      BY <1>2, <1>3, <1>4, <2>1, <2>2, <2>3, <2>4
  <1>7. CASE Http!Send(c)
    <2>1. /\ Http!Goto(c, "idle", Http!NoStream) /\ UNCHANGED <<ready, executed>>
          /\ feed' = Append(feed, doing[c].id)
      BY <1>7 DEF Http!Send, Http!Return
    <2>2. feed' \in Seq(Http!Ids)
      BY <1>2, <2>1
    <2>3. QED
      BY <1>3, <1>4, <2>1, <2>2, IdleTyped DEF HttpSteps
  <1>8. CASE Http!Lease(c) \/ Http!Disconnect(c)
    <2>1. /\ UNCHANGED <<feed, ready, executed>>
          /\ Http!Goto(c, "idle", Http!NoStream) \/ Http!Goto(c, "subscribe", doing[c])
      BY <1>8 DEF Http!Lease, Http!Disconnect, Http!Return
    <2>2. RequestTyped("subscribe", doing[c]) /\ "subscribe" \in HttpSteps /\ "idle" \in HttpSteps
      BY <1>2 DEF HttpSteps
    <2>3. QED
      BY <1>2, <1>3, <1>4, <2>1, <2>2, IdleTyped
  <1>9. ASSUME NEW s \in {"endpoint", "stream"}, NEW d, Http!Goto(c, s, d), d \in Stream,
               d.id = doing[c].id, UNCHANGED <<feed, ready, executed>>
        PROVE  HttpTyped' /\ AttributionInv'
    <2>1. RequestTyped(s, d) /\ s \in HttpSteps \ {"identify", "register", "call"}
      BY <1>2, <1>9 DEF RequestTyped, HttpSteps
    <2>2. QED
      BY <1>2, <1>3, <1>4, <1>9, <2>1
  <1>10. Len(feed) \in Nat /\ Len(feed) + 1 \in Nat
    BY <1>2
  <1>11. CASE Http!Subscribe(c)
    <2> DEFINE d == [doing[c] EXCEPT !.next = Len(feed) + 1]
    <2>1. Http!Goto(c, "endpoint", d) /\ UNCHANGED <<feed, ready, executed>>
      BY <1>11 DEF Http!Subscribe
    <2>2. d \in Stream /\ d.id = doing[c].id
      BY <1>2, <1>10 DEF Stream
    <2>3. QED
      BY <1>9, <2>1, <2>2
  <1>12. CASE Http!Endpoint(c)
    <2> DEFINE d == [doing[c] EXCEPT !.since = Len(feed)]
    <2>1. Http!Goto(c, "stream", d) /\ UNCHANGED <<feed, ready, executed>>
      BY <1>12 DEF Http!Endpoint
    <2>2. d \in Stream /\ d.id = doing[c].id
      BY <1>2, <1>10 DEF Stream
    <2>3. QED
      BY <1>9, <2>1, <2>2
  <1>13. CASE Http!Recv(c)
    <2>1. PICK d : Http!Goto(c, "stream", d) /\ ReadOn(doing[c], d)
      BY <1>2, <1>13, RecvReadsOn
    <2>2. d \in Stream /\ d.id = doing[c].id
      BY <2>1 DEF ReadOn
    <2>3. UNCHANGED <<feed, ready, executed>>
      BY <1>13 DEF Http!Recv
    <2>4. QED
      BY <1>9, <2>1, <2>2, <2>3
  <1>14. QED
    BY <1>5, <1>6, <1>7, <1>8, <1>11, <1>12, <1>13

LEMMA AttributionStepInv ==
    ClientConstants /\ HttpTyped /\ AttributionInv /\ [Http!Next]_(Http!vars)
        => HttpTyped' /\ AttributionInv'
  <1> SUFFICES ASSUME ClientConstants, HttpTyped, AttributionInv, [Http!Next]_(Http!vars)
               PROVE  HttpTyped' /\ AttributionInv'
    OBVIOUS
  <1>1. CASE UNCHANGED Http!vars
    BY <1>1 DEF Http!vars, HttpTyped, AttributionInv, Identifies
  <1>2. QED
    BY <1>1, ArrivalAttributed, SwapAttributed, IdentifyAttributed, ProgressAttributed
       DEF Http!Next

\* handle_message: for any number of clients and sessions, every call runs
\* under the name of the client that initialized its session, however the
\* initialize, the calls of others and the eviction of the session interleave.
THEOREM CallsStayAttributed ==
    ASSUME ClientConstants
    PROVE  Http!Spec => []CallsAreAttributed
  <1>1. AttributionInv => Http!CallsAreAttributed
    BY DEF AttributionInv, Http!CallsAreAttributed
  <1>2. QED
    BY <1>1, HttpInitTyped, AttributionStepInv, PTL DEF Http!Spec, CallsAreAttributed

-----------------------------------------------------------------------------

Leases(s) == s \in {"subscribe", "endpoint", "stream"}

\* What a stream at step s has made of the messages fd.
StreamKept(s, d, fd) ==
    /\ s \in {"lease", "subscribe", "endpoint"} => d.got = <<>> /\ d.missed = {}
    /\ s \in {"endpoint", "stream"} => d.next \in 1 .. Len(fd) + 1
    /\ s = "stream" =>
        /\ \A i \in DOMAIN fd : fd[i] = d.id /\ i > d.since /\ i < d.next =>
               i \in Entries(d.got) \cup d.missed
        /\ \A i \in DOMAIN d.got : /\ d.got[i] \in DOMAIN fd /\ fd[d.got[i]] = d.id
                                   /\ d.got[i] < d.next
        /\ \A i, j \in DOMAIN d.got : i < j => d.got[i] < d.got[j]

\* A session that has a stream is active, and the stream is its only one.
StreamInv ==
    /\ HttpTyped
    /\ \A c \in Conns : Leases(step[c]) => doing[c].id \in active
    /\ \A c, o \in Conns : Leases(step[c]) /\ Leases(step[o]) /\ doing[c].id = doing[o].id => c = o
    /\ \A c \in Conns : StreamKept(step[c], doing[c], feed)

LEMMA StreamInitInv == ClientConstants /\ Http!Init => StreamInv
  <1> SUFFICES ASSUME ClientConstants, Http!Init PROVE StreamInv
    OBVIOUS
  <1>1. HttpTyped
    BY HttpInitTyped
  <1>2. \A c \in Conns : step[c] = "idle"
    BY DEF Http!Init
  <1>3. QED
    BY <1>1, <1>2 DEF StreamInv, StreamKept, Leases

\* A message more is one that no stream has come to yet.
LEMMA MessageKeepsStreams ==
    ASSUME NEW s, NEW d \in Stream, NEW id \in Http!Ids, feed \in Seq(Http!Ids),
           StreamKept(s, d, feed)
    PROVE  StreamKept(s, d, Append(feed, id))
  <1> DEFINE fd == Append(feed, id)
  <1>1. /\ Len(fd) = Len(feed) + 1 /\ Len(feed) \in Nat
        /\ DOMAIN feed = 1 .. Len(feed) /\ DOMAIN fd = 1 .. Len(feed) + 1
        /\ \A i \in DOMAIN feed : fd[i] = feed[i]
    OBVIOUS
  <1>2. d.next \in Nat
    BY DEF Stream
  <1> HIDE DEF fd
  <1>3. s \in {"endpoint", "stream"} => d.next \in 1 .. Len(fd) + 1
    BY <1>1, <1>2 DEF StreamKept
  <1>4. CASE s = "stream"
    <2>1. d.next <= Len(feed) + 1
      BY <1>1, <1>4 DEF StreamKept
    <2>2. ASSUME NEW i \in DOMAIN fd, fd[i] = d.id, i > d.since, i < d.next
          PROVE  i \in Entries(d.got) \cup d.missed
      <3>1. i \in DOMAIN feed
        BY <1>1, <1>2, <2>1, <2>2
      <3>2. QED
        BY <1>1, <1>4, <2>2, <3>1 DEF StreamKept
    <2>3. \A i \in DOMAIN d.got : /\ d.got[i] \in DOMAIN fd /\ fd[d.got[i]] = d.id
                                  /\ d.got[i] < d.next
      BY <1>1, <1>4 DEF StreamKept
    <2>4. QED
      BY <1>3, <1>4, <2>2, <2>3 DEF StreamKept, fd
  <1>5. CASE s # "stream"
    BY <1>3, <1>5 DEF StreamKept, fd
  <1>6. QED
    BY <1>4, <1>5

\* recv loses nothing: what it passes by is delivered, missed or of others.
LEMMA ReadOnKeeps ==
    ASSUME NEW d \in Stream, NEW e, feed \in Seq(Http!Ids), StreamKept("stream", d, feed),
           ReadOn(d, e)
    PROVE  StreamKept("stream", e, feed)
  <1>1. /\ e \in Stream /\ e.id = d.id /\ e.since = d.since /\ d.next \in Nat /\ e.next \in Nat
        /\ d.got \in Seq(Nat) /\ Len(feed) \in Nat /\ DOMAIN feed = 1 .. Len(feed)
        /\ d.next \in 1 .. Len(feed) /\ d.since \in Nat
    BY DEF ReadOn, StreamKept, Stream
  <1>2. CASE Skipped(d, e)
    <2>1. /\ e.next \in 1 .. Len(feed) + 1 /\ e.next > d.next /\ e.got = d.got
          /\ e.missed = d.missed \cup (d.next .. e.next - 1)
      BY <1>1, <1>2 DEF Skipped
    <2>2. ASSUME NEW i \in DOMAIN feed, feed[i] = e.id, i > e.since, i < e.next
          PROVE  i \in Entries(e.got) \cup e.missed
      <3>1. CASE i < d.next
        BY <1>1, <2>1, <2>2, <3>1 DEF StreamKept
      <3>2. CASE ~(i < d.next)
        <4>1. i \in d.next .. e.next - 1
          BY <1>1, <2>2, <3>2
        <4>2. QED
          BY <2>1, <4>1
      <3>3. QED
        BY <3>1, <3>2
    <2>3. ASSUME NEW i \in DOMAIN e.got
          PROVE  e.got[i] \in DOMAIN feed /\ feed[e.got[i]] = e.id /\ e.got[i] < e.next
      <3>1. d.got[i] \in DOMAIN feed /\ feed[d.got[i]] = d.id /\ d.got[i] < d.next
        BY <2>1, <2>3 DEF StreamKept
      <3>2. QED
        BY <1>1, <2>1, <3>1
    <2>4. QED
      BY <2>1, <2>2, <2>3 DEF StreamKept
  <1>3. CASE Taken(d, e)
    <2>1. e.next = d.next + 1 /\ e.missed = d.missed /\ e.next \in 1 .. Len(feed) + 1
      BY <1>1, <1>3 DEF Taken
    <2>2. CASE feed[d.next] = d.id
      <3>1. e.got = Append(d.got, d.next)
        BY <1>3, <2>2 DEF Taken
      <3>2. /\ Entries(e.got) = Entries(d.got) \cup {d.next} /\ Len(d.got) \in Nat
            /\ DOMAIN e.got = 1 .. Len(d.got) + 1 /\ DOMAIN d.got = 1 .. Len(d.got)
            /\ e.got[Len(d.got) + 1] = d.next /\ \A i \in DOMAIN d.got : e.got[i] = d.got[i]
        BY <1>1, <3>1, EntriesAppend
      <3>3. ASSUME NEW i \in DOMAIN feed, feed[i] = e.id, i > e.since, i < e.next
            PROVE  i \in Entries(e.got) \cup e.missed
        <4>1. i = d.next \/ i < d.next
          BY <1>1, <2>1, <3>3
        <4>2. QED
          BY <1>1, <2>1, <3>2, <3>3, <4>1 DEF StreamKept
      <3>4. ASSUME NEW i \in DOMAIN e.got
            PROVE  e.got[i] \in DOMAIN feed /\ feed[e.got[i]] = e.id /\ e.got[i] < e.next
        <4>1. CASE i \in DOMAIN d.got
          <5>1. /\ d.got[i] \in DOMAIN feed /\ feed[d.got[i]] = d.id /\ d.got[i] < d.next
                /\ e.got[i] = d.got[i]
            BY <3>2, <4>1 DEF StreamKept
          <5>2. QED
            BY <1>1, <2>1, <5>1
        <4>2. CASE i = Len(d.got) + 1
          BY <1>1, <2>1, <2>2, <3>2, <4>2
        <4>3. QED
          BY <3>2, <4>1, <4>2
      <3>5. ASSUME NEW i \in DOMAIN e.got, NEW j \in DOMAIN e.got, i < j
            PROVE  e.got[i] < e.got[j]
        <4>1. i \in DOMAIN d.got
          BY <3>2, <3>5
        <4>2. d.got[i] < d.next /\ e.got[i] = d.got[i]
          BY <3>2, <4>1 DEF StreamKept
        <4>3. CASE j \in DOMAIN d.got
          BY <3>2, <3>5, <4>1, <4>3 DEF StreamKept
        <4>4. CASE j = Len(d.got) + 1
          BY <3>2, <4>2, <4>4
        <4>5. QED
          BY <3>2, <4>3, <4>4
      <3>6. QED
        BY <2>1, <3>3, <3>4, <3>5 DEF StreamKept
    <2>3. CASE feed[d.next] # d.id
      <3>1. e.got = d.got
        BY <1>3, <2>3 DEF Taken
      <3>2. ASSUME NEW i \in DOMAIN feed, feed[i] = e.id, i > e.since, i < e.next
            PROVE  i \in Entries(e.got) \cup e.missed
        <4>1. i < d.next
          BY <1>1, <2>1, <2>3, <3>2
        <4>2. QED
          BY <1>1, <2>1, <3>1, <3>2, <4>1 DEF StreamKept
      <3>3. ASSUME NEW i \in DOMAIN e.got
            PROVE  e.got[i] \in DOMAIN feed /\ feed[e.got[i]] = e.id /\ e.got[i] < e.next
        <4>1. d.got[i] \in DOMAIN feed /\ feed[d.got[i]] = d.id /\ d.got[i] < d.next
          BY <3>1, <3>3 DEF StreamKept
        <4>2. QED
          BY <1>1, <2>1, <3>1, <4>1
      <3>4. QED
        BY <2>1, <3>1, <3>2, <3>3 DEF StreamKept
    <2>4. QED
      BY <2>2, <2>3
  <1>4. QED
    BY <1>2, <1>3 DEF ReadOn

\* A step of the request of c to step s with d, among messages that stay.
LEMMA StreamMoves ==
    ASSUME StreamInv, HttpTyped', NEW c \in Conns, NEW s, NEW d, Http!Goto(c, s, d),
           \A o \in Conns : StreamKept(step[o], doing[o], feed'), StreamKept(s, d, feed'),
           Leases(s) => /\ d.id \in active'
                        /\ \A o \in Conns \ {c} : Leases(step[o]) => doing[o].id # d.id,
           \A o \in Conns \ {c} : Leases(step[o]) => doing[o].id \in active'
    PROVE  StreamInv'
  <1>1. /\ step'[c] = s /\ doing'[c] = d
        /\ \A o \in Conns \ {c} : step'[o] = step[o] /\ doing'[o] = doing[o]
    BY DEF StreamInv, HttpTyped, Http!Goto
  <1>2. \A o \in Conns : StreamKept(step'[o], doing'[o], feed')
    BY <1>1
  <1>3. \A o \in Conns : Leases(step'[o]) => doing'[o].id \in active'
    BY <1>1
  <1>4. \A o, q \in Conns : Leases(step'[o]) /\ Leases(step'[q]) /\ doing'[o].id = doing'[q].id
            => o = q
    BY <1>1 DEF StreamInv
  <1>5. QED
    BY <1>2, <1>3, <1>4 DEF StreamInv

\* A request that has no stream after the step.
LEMMA NoStreamMoves ==
    ASSUME StreamInv, HttpTyped', NEW c \in Conns, NEW s, NEW d, Http!Goto(c, s, d),
           ~Leases(s), s = "lease" => d.got = <<>> /\ d.missed = {}, feed' = feed,
           \A o \in Conns \ {c} : Leases(step[o]) => doing[o].id \in active'
    PROVE  StreamInv'
  <1>1. StreamKept(s, d, feed')
    BY DEF StreamKept, Leases
  <1>2. \A o \in Conns : StreamKept(step[o], doing[o], feed')
    BY DEF StreamInv
  <1>3. QED
    BY <1>1, <1>2, StreamMoves

LEMMA StreamActionInv ==
    ASSUME StreamInv, HttpTyped', NEW c \in Conns,
           \/ Http!PostInitialize(c) \/ Http!Swap(c) \/ Http!Identify(c) \/ Http!Register(c)
           \/ Http!Call(c) \/ Http!Send(c)
           \/ Http!GetSse(c) \/ Http!Lease(c) \/ Http!Subscribe(c) \/ Http!Endpoint(c)
           \/ Http!Recv(c) \/ Http!Disconnect(c)
           \/ \E id \in 1 .. issued : \/ Http!PostInitializeOn(c, id) \/ Http!PostCall(c, id)
                                      \/ Http!GetSseOf(c, id)
    PROVE  StreamInv'
  <1>1. /\ HttpTyped /\ doing[c] \in Stream /\ feed \in Seq(Http!Ids)
        /\ StreamKept(step[c], doing[c], feed)
        /\ \A o \in Conns : /\ StreamKept(step[o], doing[o], feed)
                            /\ Leases(step[o]) => doing[o].id \in active
        /\ Leases(step[c]) => \A o \in Conns \ {c} : Leases(step[o]) => doing[o].id # doing[c].id
    BY RequestOf DEF StreamInv, HttpTyped
  <1>2. CASE /\ Http!PostInitialize(c) \/ Http!Swap(c) \/ Http!Identify(c) \/ Http!Register(c)
                \/ Http!Call(c)
                \/ \E id \in 1 .. issued : Http!PostInitializeOn(c, id) \/ Http!PostCall(c, id)
    <2>1. UNCHANGED <<active, feed>>
      BY <1>2 DEF Http!PostInitialize, Http!Swap, Http!Identify, Http!Register, Http!Call,
                  Http!PostInitializeOn, Http!PostCall
    <2>2. PICK s, d : /\ Http!Goto(c, s, d)
                      /\ s \in {"idle", "initialize", "identify", "register", "call", "send"}
      BY <1>2 DEF Http!PostInitialize, Http!Swap, Http!Identify, Http!Register, Http!Call,
                  Http!PostInitializeOn, Http!PostCall, Http!Return
    <2>3. ~Leases(s) /\ s # "lease"
      BY <2>2 DEF Leases
    <2>4. QED
      BY <1>1, <2>1, <2>2, <2>3, NoStreamMoves
  <1>3. CASE Http!GetSse(c) \/ \E id \in 1 .. issued : Http!GetSseOf(c, id)
    <2>1. UNCHANGED <<active, feed>>
      BY <1>3 DEF Http!GetSse, Http!GetSseOf
    <2>2. PICK i : Http!Goto(c, "lease", [Http!NoStream EXCEPT !.id = i])
      BY <1>3 DEF Http!GetSse, Http!GetSseOf
    <2> DEFINE d == [Http!NoStream EXCEPT !.id = i]
    <2>3. d.got = <<>> /\ d.missed = {}
      BY DEF Http!NoStream
    <2> HIDE DEF d
    <2>4. ~Leases("lease") /\ Http!Goto(c, "lease", d)
      BY <2>2 DEF Leases, d
    <2>5. QED
      BY <1>1, <2>1, <2>3, <2>4, NoStreamMoves
  <1>4. CASE Http!Send(c)
    <2>1. /\ feed' = Append(feed, doing[c].id) /\ active' = active /\ step[c] = "send"
          /\ Http!Goto(c, "idle", Http!NoStream)
      BY <1>4 DEF Http!Send, Http!Return
    <2>2. doing[c].id \in Http!Ids
      BY <1>1, <2>1, RequestOf
    <2>3. \A o \in Conns : doing[o] \in Stream
      BY <1>1, RequestOf
    <2>4. \A o \in Conns : StreamKept(step[o], doing[o], feed')
      BY <1>1, <2>1, <2>2, <2>3, MessageKeepsStreams
    <2>5. StreamKept("idle", Http!NoStream, feed') /\ ~Leases("idle")
      BY DEF StreamKept, Leases
    <2>6. QED
      BY <1>1, <2>1, <2>4, <2>5, StreamMoves
  <1>5. CASE Http!Lease(c)
    <2>1. feed' = feed /\ active' = active \cup {doing[c].id} /\ step[c] = "lease"
      BY <1>5 DEF Http!Lease
    <2>2. CASE doing[c].id \in active
      <3>1. Http!Goto(c, "idle", Http!NoStream) /\ ~Leases("idle")
        BY <1>5, <2>2 DEF Http!Lease, Http!Return, Leases
      <3>2. QED
        BY <1>1, <2>1, <3>1, NoStreamMoves
    <2>3. CASE doing[c].id \notin active
      <3>1. Http!Goto(c, "subscribe", doing[c])
        BY <1>5, <2>3 DEF Http!Lease
      <3>2. StreamKept("subscribe", doing[c], feed')
        BY <1>1, <2>1 DEF StreamKept
      <3>3. QED
        BY <1>1, <2>1, <2>3, <3>1, <3>2, StreamMoves
    <2>4. QED
      BY <2>2, <2>3
  <1>6. ASSUME Leases(step[c]), NEW s, NEW d, Http!Goto(c, s, d), d.id = doing[c].id,
               UNCHANGED <<active, feed>>, StreamKept(s, d, feed)
        PROVE  StreamInv'
    <2>1. /\ \A o \in Conns : StreamKept(step[o], doing[o], feed')
          /\ StreamKept(s, d, feed') /\ d.id \in active'
          /\ \A o \in Conns \ {c} : Leases(step[o]) => doing[o].id # d.id
          /\ \A o \in Conns \ {c} : Leases(step[o]) => doing[o].id \in active'
      BY <1>1, <1>6
    <2>2. QED
      BY <1>6, <2>1, StreamMoves
  <1>7. Len(feed) \in Nat /\ DOMAIN feed = 1 .. Len(feed)
    BY <1>1
  <1>8. CASE Http!Subscribe(c)
    <2> DEFINE d == [doing[c] EXCEPT !.next = Len(feed) + 1]
    <2>1. /\ Http!Goto(c, "endpoint", d) /\ UNCHANGED <<active, feed>> /\ step[c] = "subscribe"
      BY <1>8 DEF Http!Subscribe
    <2>2. d.id = doing[c].id /\ d.got = doing[c].got /\ d.missed = doing[c].missed
          /\ d.next = Len(feed) + 1
      BY <1>1 DEF Stream
    <2> HIDE DEF d
    <2>3. StreamKept("endpoint", d, feed)
      BY <1>1, <1>7, <2>1, <2>2 DEF StreamKept
    <2>4. Leases(step[c])
      BY <2>1 DEF Leases
    <2>5. QED
      BY <1>6, <2>1, <2>2, <2>3, <2>4
  <1>9. CASE Http!Endpoint(c)
    <2> DEFINE d == [doing[c] EXCEPT !.since = Len(feed)]
    <2>1. /\ Http!Goto(c, "stream", d) /\ UNCHANGED <<active, feed>> /\ step[c] = "endpoint"
      BY <1>9 DEF Http!Endpoint
    <2>2. d.id = doing[c].id /\ d.got = doing[c].got /\ d.missed = doing[c].missed
          /\ d.next = doing[c].next /\ d.since = Len(feed) /\ d.next \in Nat
      BY <1>1 DEF Stream
    <2> HIDE DEF d
    <2>3. d.next \in 1 .. Len(feed) + 1 /\ d.got = <<>>
      BY <1>1, <2>1, <2>2 DEF StreamKept
    <2>4. \A i \in DOMAIN feed : ~(i > d.since)
      BY <1>7, <2>2
    <2>5. DOMAIN d.got = {}
      BY <2>3
    <2>6. StreamKept("stream", d, feed)
      BY <2>3, <2>4, <2>5 DEF StreamKept
    <2>7. Leases(step[c])
      BY <2>1 DEF Leases
    <2>8. QED
      BY <1>6, <2>1, <2>2, <2>6, <2>7
  <1>10. CASE Http!Recv(c)
    <2>1. step[c] = "stream" /\ UNCHANGED <<active, feed>>
      BY <1>10 DEF Http!Recv
    <2>2. PICK d : Http!Goto(c, "stream", d) /\ ReadOn(doing[c], d)
      BY <1>1, <1>10, RecvReadsOn
    <2>3. StreamKept("stream", d, feed) /\ d.id = doing[c].id
      BY <1>1, <2>1, <2>2, ReadOnKeeps DEF ReadOn
    <2>4. Leases(step[c])
      BY <2>1 DEF Leases
    <2>5. QED
      BY <1>6, <2>1, <2>2, <2>3, <2>4
  <1>11. CASE Http!Disconnect(c)
    <2>1. /\ step[c] \in {"endpoint", "stream"} /\ active' = active \ {doing[c].id} /\ feed' = feed
          /\ Http!Goto(c, "idle", Http!NoStream)
      BY <1>11 DEF Http!Disconnect, Http!Return
    <2>2. Leases(step[c]) /\ ~Leases("idle")
      BY <2>1 DEF Leases
    <2>3. \A o \in Conns \ {c} : Leases(step[o]) => doing[o].id \in active'
      BY <1>1, <2>1, <2>2
    <2>4. QED
      BY <2>1, <2>2, <2>3, NoStreamMoves
  <1>12. QED
    BY <1>2, <1>3, <1>4, <1>5, <1>8, <1>9, <1>10, <1>11

LEMMA StreamStepInv ==
    ClientConstants /\ AttributionInv /\ StreamInv /\ [Http!Next]_(Http!vars)
        => AttributionInv' /\ StreamInv'
  <1> SUFFICES ASSUME ClientConstants, AttributionInv, StreamInv, [Http!Next]_(Http!vars)
               PROVE  AttributionInv' /\ StreamInv'
    OBVIOUS
  <1>1. HttpTyped' /\ AttributionInv'
    BY AttributionStepInv DEF StreamInv
  <1>2. CASE UNCHANGED Http!vars
    BY <1>1, <1>2 DEF Http!vars, StreamInv
  <1>3. QED
    BY <1>1, <1>2, StreamActionInv DEF Http!Next

\* handle_sse: for any number of clients and any capacity of the channel, a
\* session has one stream, which delivers the answers of its session in order
\* and loses none made after its client was told where to post, except those
\* it fell behind on.
THEOREM StreamsAreComplete ==
    ASSUME ClientConstants
    PROVE  Http!Spec => []StreamsComplete
  <1>1. StreamInv => Http!StreamsComplete
    <2> SUFFICES ASSUME StreamInv, NEW c \in Conns, step[c] = "stream"
                 PROVE  LET d == doing[c]
                            own == {i \in DOMAIN feed : feed[i] = d.id}
                        IN  /\ \A i \in own : i > d.since =>
                                   i \in Http!Range(d.got) \cup d.missed \/ i >= d.next
                            /\ Http!Range(d.got) \subseteq own
                            /\ \A i, j \in DOMAIN d.got : i < j => d.got[i] < d.got[j]
                            /\ \A other \in Conns \ {c} :
                                   step[other] = "stream" => doing[other].id # d.id
      BY DEF Http!StreamsComplete
    <2> DEFINE d == doing[c]
    <2>1. /\ StreamKept("stream", d, feed) /\ d.next \in Nat /\ DOMAIN feed \subseteq Nat
          /\ \A other \in Conns \ {c} : step[other] = "stream" => doing[other].id # d.id
      BY RequestOf DEF StreamInv, Leases, HttpTyped, Stream
    <2>2. Http!Range(d.got) = Entries(d.got)
      BY DEF Http!Range, Entries
    <2> HIDE DEF d
    <2>3. \A i \in DOMAIN feed : feed[i] = d.id /\ i > d.since =>
              i \in Entries(d.got) \cup d.missed \/ i >= d.next
      <3> SUFFICES ASSUME NEW i \in DOMAIN feed, feed[i] = d.id, i > d.since, ~(i >= d.next)
                   PROVE  i \in Entries(d.got) \cup d.missed
        OBVIOUS
      <3>1. i < d.next
        BY <2>1
      <3>2. QED
        BY <2>1, <3>1 DEF StreamKept
    <2>4. Entries(d.got) \subseteq {i \in DOMAIN feed : feed[i] = d.id}
      BY <2>1 DEF StreamKept, Entries
    <2>5. QED
      BY <2>1, <2>2, <2>3, <2>4 DEF StreamKept, d
  <1>2. QED
    BY <1>1, HttpInitTyped, StreamInitInv, StreamStepInv, PTL DEF Http!Spec, StreamsComplete

-----------------------------------------------------------------------------
(* StdioServer.                                                            *)

Answer == [id: 1 .. MaxRequests,
           answer: {"already", "initialized", "not_initialized", "refused", "result", "report"}]
Effect == [id: 1 .. MaxRequests, agent: {Client, NoAgent}]
ExchangeTyped == TypeOK /\ answers \in Seq(Answer) /\ effects \in Seq(Effect)

Ids(history) == {history[i].id : i \in DOMAIN history}
Dropped == {d.id : d \in dropped}
Settled == Ids(answers) \cup Dropped

\* The request the loop handles, or the one forwarded to a new image.
InHand == at \in {"handle", "check", "gate"} \/ (at = "start" /\ cur # None)

\* A request that is not settled is in one place only, and is the last sent.
OneLive ==
    /\ pipe # <<>> => Len(pipe) = 1 /\ pipe[1].id = sent /\ ahead = <<>>
    /\ ahead # <<>> => Len(ahead) = 1 /\ ahead[1].id = sent
    /\ pipe # <<>> \/ ahead # <<>> => ~InHand /\ stash = None
    /\ InHand => cur # None /\ cur.id = sent /\ stash = None
    /\ stash # None => stash.id = sent
    /\ pipe # <<>> \/ ahead # <<>> \/ InHand \/ stash # None => sent > 0 /\ sent \notin Settled

\* What is settled was sent, and is settled once.
SettledOnce ==
    /\ Settled \subseteq 1 .. sent
    /\ Ids(effects) \subseteq Ids(answers)
    /\ Ids(answers) \cap Dropped = {}
    /\ Once(answers) /\ Once(effects)

\* The session keeps the name the client gave and the answer that it got.
SessionNamed ==
    /\ session.initialized => session.agent = Client
    /\ at \in {"check", "gate"} => session.initialized
    /\ \A i \in DOMAIN effects : effects[i].agent = Client
    /\ \A i \in DOMAIN answers : answers[i].answer = "initialized" => session.initialized
    /\ \A i, j \in DOMAIN answers : i < j /\ answers[i].answer = "initialized" =>
           answers[j].answer \notin {"not_initialized", "initialized"}

ExchangeInv == ExchangeTyped /\ OneLive /\ SettledOnce /\ SessionNamed

LEMMA HistoryGrows ==
    ASSUME NEW S, NEW h \in Seq(S), NEW e \in S
    PROVE  /\ Append(h, e) \in Seq(S)
           /\ Ids(Append(h, e)) = Ids(h) \cup {e.id}
           /\ Once(h) /\ e.id \notin Ids(h) => Once(Append(h, e))
           /\ DOMAIN Append(h, e) = DOMAIN h \cup {Len(h) + 1}
           /\ \A i \in DOMAIN h : Append(h, e)[i] = h[i] /\ i < Len(h) + 1
           /\ Append(h, e)[Len(h) + 1] = e
  <1>1. /\ Append(h, e) \in Seq(S) /\ Len(h) \in Nat
        /\ DOMAIN Append(h, e) = DOMAIN h \cup {Len(h) + 1}
        /\ \A i \in DOMAIN h : Append(h, e)[i] = h[i] /\ i < Len(h) + 1
        /\ Append(h, e)[Len(h) + 1] = e
    OBVIOUS
  <1>2. Ids(Append(h, e)) = Ids(h) \cup {e.id}
    BY <1>1 DEF Ids
  <1>3. Once(h) /\ e.id \notin Ids(h) => Once(Append(h, e))
    BY <1>1 DEF Ids, Once
  <1>4. QED
    BY <1>1, <1>2, <1>3

LEMMA OneElement ==
    ASSUME NEW S, NEW s \in Seq(S), Len(s) = 1
    PROVE  Tail(s) = <<>> /\ Head(s) = s[1] /\ Head(s) \in S /\ s # <<>>
  <1>1. s # <<>>
    OBVIOUS
  <1>2. Tail(s) \in Seq(S) /\ Len(Tail(s)) = 0 /\ Head(s) = s[1] /\ Head(s) \in S
    BY <1>1, HeadTail
  <1>3. Tail(s) = <<>>
    BY <1>2, EmptySeq
  <1>4. QED
    BY <1>1, <1>2, <1>3

LEMMA ExchangeInit == Init => ExchangeInv
  <1> SUFFICES ASSUME Init PROVE ExchangeInv
    OBVIOUS
  <1>1. ExchangeTyped
    <2>1. session \in [initialized: BOOLEAN, agent: {Client, NoAgent}]
      BY DEF Init, fresh
    <2>2. 0 \in 0 .. MaxImages /\ 0 \in 0 .. MaxRequests
      BY StdioAssumption
    <2>3. <<>> \in Seq(Request) /\ <<>> \in Seq(Answer) /\ <<>> \in Seq(Effect)
      BY EmptySeq
    <2>4. QED
      BY <2>1, <2>2, <2>3 DEF Init, ExchangeTyped, TypeOK
  <1>2. OneLive
    BY DEF Init, OneLive, InHand
  <1>3. SettledOnce /\ SessionNamed
    BY DEF Init, SettledOnce, SessionNamed, Settled, Ids, Dropped, Once, fresh
  <1>4. QED
    BY <1>1, <1>2, <1>3 DEF ExchangeInv

\* Settled is kept where the histories are.
LEMMA HistoriesKept ==
    ASSUME ExchangeInv, UNCHANGED <<answers, effects, dropped, session>>,
           sent' \in Nat, sent' >= sent,
           at' \in {"check", "gate"} => session.initialized
    PROVE  SettledOnce' /\ SessionNamed' /\ Settled' = Settled
  <1>1. Settled' = Settled /\ Dropped' = Dropped /\ Ids(answers)' = Ids(answers)
        /\ Ids(effects)' = Ids(effects) /\ Once(answers)' = Once(answers)
        /\ Once(effects)' = Once(effects)
    BY DEF Settled, Ids, Dropped, Once
  <1>2. SettledOnce'
    <2>1. 1 .. sent \subseteq 1 .. sent'
      BY DEF ExchangeInv, ExchangeTyped, TypeOK
    <2>2. QED
      BY <1>1, <2>1 DEF ExchangeInv, SettledOnce
  <1>3. SessionNamed'
    BY DEF ExchangeInv, SessionNamed
  <1>4. QED
    BY <1>1, <1>2, <1>3

LEMMA ClientSteps ==
    ASSUME ExchangeInv,
           \/ \E method \in Tools \cup {"initialize"}, fits \in BOOLEAN : Send(method, fits)
           \/ Replace
    PROVE  ExchangeInv'
  <1>1. CASE Replace
    <2>1. ExchangeTyped'
      BY <1>1, StdioAssumption DEF Replace, ExchangeInv, ExchangeTyped, TypeOK
    <2>2. SettledOnce' /\ SessionNamed' /\ Settled' = Settled
      BY <1>1, HistoriesKept DEF Replace, ExchangeInv, SessionNamed, ExchangeTyped, TypeOK
    <2>3. OneLive'
      BY <1>1, <2>2 DEF Replace, ExchangeInv, OneLive, InHand
    <2>4. QED
      BY <2>1, <2>2, <2>3 DEF ExchangeInv
  <1>2. ASSUME NEW method \in Tools \cup {"initialize"}, NEW fits \in BOOLEAN, Send(method, fits)
        PROVE  ExchangeInv'
    <2> DEFINE r == [id |-> sent + 1, method |-> method, fits |-> fits]
    <2>1. sent \in Nat /\ sent + 1 \in 1 .. MaxRequests /\ sent' = sent + 1 /\ r \in Request
      BY <1>2, StdioAssumption DEF Send, ExchangeInv, ExchangeTyped, TypeOK, Request
    <2>2. Answered \cup Lost("exec_failed") \cup Lost("read_ahead") \subseteq Settled
      BY DEF Answered, Lost, Settled, Ids, Dropped
    <2>3. sent > 0 => sent \in Settled
      BY <1>2, <2>1, <2>2 DEF Send, Over
    <2>4. /\ pipe = <<>> /\ ahead = <<>> /\ ~InHand /\ stash = None
          /\ pipe \in Seq(Request)
      BY <2>3 DEF ExchangeInv, OneLive, ExchangeTyped, TypeOK
    <2>5. pipe' = <<r>> /\ pipe' \in Seq(Request) /\ Len(pipe') = 1 /\ pipe'[1] = r
      BY <1>2, <2>1, <2>4 DEF Send
    <2>6. ExchangeTyped'
      BY <1>2, <2>1, <2>5 DEF Send, ExchangeInv, ExchangeTyped, TypeOK
    <2>7. SettledOnce' /\ SessionNamed' /\ Settled' = Settled
      BY <1>2, <2>1, HistoriesKept DEF Send, ExchangeInv, SessionNamed
    <2>8. sent + 1 \notin Settled
      BY <2>1 DEF ExchangeInv, SettledOnce
    <2>9. OneLive'
      <3>1. ahead' = <<>> /\ ~InHand' /\ stash' = None
        BY <1>2, <2>4 DEF Send, InHand
      <3>2. r.id = sent'
        BY <2>1
      <3> HIDE DEF r
      <3>3. QED
        BY <2>1, <2>5, <2>7, <2>8, <3>1, <3>2 DEF OneLive
    <2>10. QED
      BY <2>6, <2>7, <2>9 DEF ExchangeInv
  <1>3. QED
    BY <1>1, <1>2

LEMMA LoopSteps ==
    ASSUME ExchangeInv, ReadAhead \/ Take \/ Capture \/ Check \/ After
    PROVE  ExchangeInv'
  <1>1. /\ UNCHANGED <<answers, effects, dropped, session, sent, auto, disk>>
        /\ sent \in Nat
    BY DEF ReadAhead, Take, Capture, Check, After, ExchangeInv, ExchangeTyped, TypeOK
  <1>2. at' \in {"check", "gate"} => session.initialized
    BY DEF ReadAhead, Take, Capture, Check, After, ExchangeInv, SessionNamed, Done
  <1>3. SettledOnce' /\ SessionNamed' /\ Settled' = Settled
    BY <1>1, <1>2, HistoriesKept
  <1>4. ExchangeTyped' /\ OneLive'
    <2>1. CASE ReadAhead
      <3>1. Len(pipe) = 1 /\ pipe[1].id = sent /\ ahead = <<>> /\ pipe \in Seq(Request)
        BY <2>1 DEF ReadAhead, ExchangeInv, OneLive, ExchangeTyped, TypeOK
      <3>2. pipe' = <<>> /\ ahead' = <<pipe[1]>> /\ pipe[1] \in Request
        BY <2>1, <3>1, OneElement DEF ReadAhead
      <3>3. ExchangeTyped'
        BY <2>1, <3>2 DEF ReadAhead, ExchangeInv, ExchangeTyped, TypeOK
      <3>4. QED
        BY <2>1, <1>3, <3>1, <3>2, <3>3 DEF ReadAhead, ExchangeInv, OneLive, InHand
    <2>2. CASE Take
      <3>1. Len(ahead) = 1 /\ ahead[1].id = sent /\ pipe = <<>> /\ ahead \in Seq(Request)
        BY <2>2 DEF Take, ExchangeInv, OneLive, ExchangeTyped, TypeOK
      <3>2. ahead' = <<>> /\ cur' = ahead[1] /\ ahead[1] \in Request
        BY <2>2, <3>1, OneElement DEF Take
      <3>3. ExchangeTyped'
        <4>1. ahead' \in Seq(Request) /\ cur' \in Request \cup {None} /\ startup' \in BOOLEAN
          BY <2>2, <3>2, EmptySeq DEF Take
        <4>2. QED
          BY <2>2, <4>1 DEF Take, ExchangeInv, ExchangeTyped, TypeOK
      <3>4. cur' # None
        BY <3>2 DEF Request, None
      <3>5. QED
        BY <2>2, <1>3, <3>1, <3>2, <3>3, <3>4 DEF Take, ExchangeInv, OneLive, InHand
    <2>3. CASE Capture
      <3>1. ExchangeTyped'
        BY <2>3 DEF Capture, ExchangeInv, ExchangeTyped, TypeOK
      <3>2. QED
        BY <2>3, <1>3, <3>1 DEF Capture, ExchangeInv, OneLive, InHand
    <2>4. CASE Check
      <3>1. ExchangeTyped'
        BY <2>4 DEF Check, Done, ExchangeInv, ExchangeTyped, TypeOK
      <3>2. OneLive'
        BY <2>4, <1>3 DEF Check, Done, ExchangeInv, OneLive, InHand
      <3>3. QED
        BY <3>1, <3>2
    <2>5. CASE After
      <3>1. ExchangeTyped'
        BY <2>5 DEF After, ExchangeInv, ExchangeTyped, TypeOK
      <3>2. QED
        BY <2>5, <1>3, <3>1 DEF After, ExchangeInv, OneLive, InHand
    <2>6. QED
      BY <2>1, <2>2, <2>3, <2>4, <2>5
  <1>5. QED
    BY <1>3, <1>4 DEF ExchangeInv

\* The answer to the request in hand settles it.
LEMMA AnswerSettles ==
    ASSUME ExchangeInv, InHand, NEW a,
           a \in {"already", "initialized", "not_initialized", "refused", "result", "report"},
           answers' = Append(answers, [id |-> cur.id, answer |-> a]),
           \/ effects' = effects
           \/ /\ session.initialized
              /\ effects' = Append(effects, [id |-> cur.id, agent |-> session.agent]),
           a \in {"initialized", "not_initialized"} => ~session.initialized,
           IF a = "initialized" THEN session' = [initialized |-> TRUE, agent |-> Client]
                                ELSE session' = session,
           at' \in {"read", "after"}, TypeOK',
           UNCHANGED <<pipe, ahead, stash, sent, dropped>>
    PROVE  ExchangeInv'
  <1> DEFINE e == [id |-> cur.id, answer |-> a]
             f == [id |-> cur.id, agent |-> session.agent]
  <1>1. /\ cur.id = sent /\ sent \in 1 .. MaxRequests /\ sent \notin Settled /\ stash = None
        /\ pipe = <<>> /\ ahead = <<>>
        /\ answers \in Seq(Answer) /\ effects \in Seq(Effect)
    BY StdioAssumption DEF ExchangeInv, OneLive, ExchangeTyped, TypeOK
  <1>2. e \in Answer /\ e.id = sent /\ e.answer = a
    BY <1>1 DEF Answer
  <1>3. f \in Effect /\ f.id = sent /\ f.agent = session.agent
    BY <1>1 DEF Effect, ExchangeInv, ExchangeTyped, TypeOK
  <1>4. answers' = Append(answers, e) /\ (effects' = effects \/ effects' = Append(effects, f))
    OBVIOUS
  <1> HIDE DEF e, f
  <1>5. /\ answers' \in Seq(Answer)
        /\ Ids(answers)' = Ids(answers) \cup {sent}
        /\ Once(answers) /\ sent \notin Ids(answers) => Once(answers)'
        /\ DOMAIN answers' = DOMAIN answers \cup {Len(answers) + 1}
        /\ \A i \in DOMAIN answers : answers'[i] = answers[i] /\ i < Len(answers) + 1
        /\ answers'[Len(answers) + 1] = e /\ Len(answers) \in Nat
        /\ DOMAIN answers = 1 .. Len(answers)
    <2>1. Ids(answers)' = Ids(answers') /\ Once(answers)' = Once(answers')
      BY DEF Ids, Once
    <2>2. QED
      BY <1>1, <1>2, <1>4, <2>1, HistoryGrows
  <1>6. /\ effects' \in Seq(Effect)
        /\ Ids(effects)' \subseteq Ids(effects) \cup {sent}
        /\ Once(effects) /\ sent \notin Ids(effects) => Once(effects)'
        /\ \A i \in DOMAIN effects' :
               \/ i \in DOMAIN effects /\ effects'[i] = effects[i]
               \/ session.initialized /\ effects'[i].agent = session.agent
    <2>1. Ids(effects)' = Ids(effects') /\ Once(effects)' = Once(effects')
      BY DEF Ids, Once
    <2>2. CASE effects' = effects
      BY <1>1, <2>1, <2>2
    <2>3. CASE effects' # effects
      <3>1. session.initialized /\ effects' = Append(effects, f)
        BY <2>3 DEF f
      <3>2. QED
        BY <1>1, <1>3, <2>1, <3>1, HistoryGrows
    <2>4. QED
      BY <2>2, <2>3
  <1>7. sent \notin Ids(answers) /\ sent \notin Dropped /\ sent \notin Ids(effects)
        /\ Dropped' = Dropped
    BY <1>1 DEF Settled, ExchangeInv, SettledOnce, Dropped
  <1>8. SettledOnce'
    <2>1. Settled' = Settled \cup {sent}
      BY <1>5, <1>7 DEF Settled
    <2>2. Settled' \subseteq 1 .. sent'
      BY <1>1, <2>1 DEF ExchangeInv, SettledOnce
    <2>3. Ids(effects)' \subseteq Ids(answers)' /\ Ids(answers)' \cap Dropped' = {}
          /\ Once(answers)' /\ Once(effects)'
      BY <1>5, <1>6, <1>7 DEF ExchangeInv, SettledOnce
    <2>4. QED
      BY <2>2, <2>3 DEF SettledOnce
  <1>9. SessionNamed'
    <2>1. session'.initialized => session'.agent = Client
      BY DEF ExchangeInv, SessionNamed
    <2>2. \A i \in DOMAIN effects' : effects'[i].agent = Client
      BY <1>6 DEF ExchangeInv, SessionNamed
    <2>3. session.initialized => session'.initialized
      OBVIOUS
    <2>4. \A i \in DOMAIN answers' : answers'[i].answer = "initialized" => session'.initialized
      BY <1>2, <1>5, <2>3 DEF ExchangeInv, SessionNamed
    <2>5. ASSUME NEW i \in DOMAIN answers', NEW j \in DOMAIN answers', i < j,
                 answers'[i].answer = "initialized"
          PROVE  answers'[j].answer \notin {"not_initialized", "initialized"}
      <3>1. i \in DOMAIN answers
        BY <1>5, <2>5
      <3>2. session.initialized
        BY <1>5, <2>5, <3>1 DEF ExchangeInv, SessionNamed
      <3>3. CASE j \in DOMAIN answers
        BY <1>5, <2>5, <3>1, <3>3 DEF ExchangeInv, SessionNamed
      <3>4. CASE j = Len(answers) + 1
        BY <1>2, <1>5, <3>2, <3>4
      <3>5. QED
        BY <1>5, <3>3, <3>4
    <2>6. QED
      BY <2>1, <2>2, <2>4, <2>5 DEF SessionNamed
  <1>10. OneLive'
    BY <1>1 DEF OneLive, InHand
  <1>11. QED
    BY <1>5, <1>6, <1>8, <1>9, <1>10 DEF ExchangeInv, ExchangeTyped

LEMMA ReplySteps ==
    ASSUME ExchangeInv, Initialize \/ NotInitialized \/ Gate
    PROVE  ExchangeInv'
  <1>1. /\ UNCHANGED <<auto, disk, captured, pipe, ahead, cur, startup, stash, sent, dropped>>
        /\ InHand
        /\ at \in {"handle", "gate"}
    BY DEF InHand, Initialize, NotInitialized, Gate
  <1>2. at' \in {"read", "after"}
    BY DEF Initialize, NotInitialized, Gate, Reply, Done
  <1>3. session' \in [initialized: BOOLEAN, agent: {Client, NoAgent}]
    <2>1. session' = session \/ session' = [initialized |-> TRUE, agent |-> Client]
      BY DEF Initialize, NotInitialized, Gate
    <2>2. [initialized |-> TRUE, agent |-> Client]
              \in [initialized: BOOLEAN, agent: {Client, NoAgent}]
      OBVIOUS
    <2>3. QED
      BY <2>1, <2>2 DEF ExchangeInv, ExchangeTyped, TypeOK
  <1>4. pending' \in BOOLEAN
    <2>1. pending \in BOOLEAN
      BY DEF ExchangeInv, ExchangeTyped, TypeOK
    <2>2. pending' = pending \/ pending' = (pending \/ Stale)
      BY DEF Initialize, NotInitialized, Gate
    <2>3. QED
      BY <2>1, <2>2, Zenon
  <1>5. TypeOK'
    BY <1>1, <1>2, <1>3, <1>4 DEF ExchangeInv, ExchangeTyped, TypeOK
  <1>6. CASE Initialize
    <2>1. CASE session.initialized
      BY <1>1, <1>2, <1>5, <1>6, <2>1, AnswerSettles DEF Initialize, Reply
    <2>2. CASE ~session.initialized
      BY <1>1, <1>2, <1>5, <1>6, <2>2, AnswerSettles DEF Initialize, Reply
    <2>3. QED
      BY <2>1, <2>2
  <1>7. CASE NotInitialized
    BY <1>1, <1>2, <1>5, <1>7, AnswerSettles DEF NotInitialized, Reply
  <1>8. CASE Gate
    <2>1. session.initialized /\ session' = session
      BY <1>8 DEF Gate, ExchangeInv, SessionNamed
    <2>2. \E a \in {"refused", "result", "report"} :
              answers' = Append(answers, [id |-> cur.id, answer |-> a])
      BY <1>8 DEF Gate, Reply
    <2>3. \/ effects' = effects
          \/ effects' = Append(effects, [id |-> cur.id, agent |-> session.agent])
      BY <1>8 DEF Gate
    <2>4. QED
      BY <1>1, <1>2, <1>5, <2>1, <2>2, <2>3, AnswerSettles
  <1>9. QED
    BY <1>6, <1>7, <1>8

\* What an exec leaves behind is lost, and was neither answered nor executed.
LEMMA DropSettles ==
    ASSUME ExchangeInv,
           \/ Dropped' = Dropped
           \/ Dropped' = Dropped \cup {sent} /\ sent > 0 /\ sent \notin Settled,
           UNCHANGED <<answers, effects, session, sent>>,
           at' \notin {"check", "gate"}
    PROVE  SettledOnce' /\ SessionNamed' /\ (Dropped' = Dropped => Settled' = Settled)
  <1>1. /\ Ids(answers)' = Ids(answers) /\ Ids(effects)' = Ids(effects)
        /\ Once(answers)' = Once(answers) /\ Once(effects)' = Once(effects)
        /\ Settled' = Ids(answers) \cup Dropped'
    BY DEF Settled, Ids, Once
  <1>2. sent \in Nat
    BY DEF ExchangeInv, ExchangeTyped, TypeOK
  <1>3. Settled' \subseteq 1 .. sent'
    <2>1. sent > 0 => sent \in 1 .. sent
      BY <1>2
    <2>2. QED
      BY <1>1, <2>1 DEF ExchangeInv, SettledOnce, Settled
  <1>4. Ids(answers)' \cap Dropped' = {}
    BY <1>1 DEF ExchangeInv, SettledOnce, Settled
  <1>5. SettledOnce'
    BY <1>1, <1>3, <1>4 DEF ExchangeInv, SettledOnce
  <1>6. SessionNamed'
    BY DEF ExchangeInv, SessionNamed
  <1>7. QED
    BY <1>1, <1>5, <1>6 DEF Settled

LEMMA ExecSteps ==
    ASSUME ExchangeInv, Exec \/ ExecFails
    PROVE  ExchangeInv'
  <1>1. sent \in 0 .. MaxRequests /\ MaxRequests \in Nat /\ None.id = 0
    BY StdioAssumption DEF ExchangeInv, ExchangeTyped, TypeOK, None
  <1>2. CASE Exec
    <2> DEFINE L == {[id |-> ahead[i].id, how |-> "read_ahead"] : i \in DOMAIN ahead}
               ids == {ahead[i].id : i \in DOMAIN ahead}
    <2>1. dropped' = dropped \cup L
      BY <1>2 DEF Exec
    <2>2. Dropped' = Dropped \cup ids
      <3>1. {d.id : d \in L} = ids
        <4>1. \A i \in DOMAIN ahead : [id |-> ahead[i].id, how |-> "read_ahead"] \in L
          OBVIOUS
        <4>2. \A i \in DOMAIN ahead : [id |-> ahead[i].id, how |-> "read_ahead"].id = ahead[i].id
          OBVIOUS
        <4>3. ids \subseteq {d.id : d \in L}
          <5> HIDE DEF L
          <5>1. QED
            BY <4>1, <4>2
        <4>4. \A d \in L : d.id \in ids
          OBVIOUS
        <4>5. QED
          <5> HIDE DEF L, ids
          <5>1. QED
            BY <4>3, <4>4
      <3> HIDE DEF L, ids
      <3>2. Dropped' = {d.id : d \in dropped \cup L}
        BY <2>1 DEF Dropped
      <3>3. QED
        BY <3>1, <3>2 DEF Dropped
    <2>3. ids \subseteq {sent} /\ (ids # {} => ahead # <<>>)
      <3>1. CASE ahead = <<>>
        BY <3>1
      <3>2. CASE ahead # <<>>
        BY <3>2 DEF ExchangeInv, OneLive, ExchangeTyped, TypeOK
      <3>3. QED
        BY <3>1, <3>2
    <2>4. ids # {} => sent > 0 /\ sent \notin Settled /\ stash = None
      BY <2>3 DEF ExchangeInv, OneLive
    <2>5. L \subseteq [id: 1 .. MaxRequests, how: {"exec_failed", "read_ahead"}]
      BY <1>1, <2>3, <2>4
    <2> HIDE DEF ids, L
    <2>6. SettledOnce' /\ SessionNamed' /\ (ids = {} => Settled' = Settled)
      BY <1>2, <2>2, <2>3, <2>4, DropSettles DEF Exec
    <2>7. ExchangeTyped'
      <3>1. ahead' \in Seq(Request) /\ captured' \subseteq 0 .. MaxImages /\ pending' \in BOOLEAN
            /\ stash' \in Request \cup {None}
        BY <1>2, EmptySeq DEF Exec
      <3>2. QED
        BY <1>2, <2>1, <2>5, <3>1 DEF Exec, ExchangeInv, ExchangeTyped, TypeOK
    <2>8. OneLive'
      <3>1. stash' = None /\ ahead' = <<>> /\ pipe' = pipe /\ sent' = sent /\ cur' = stash
            /\ at' = "start"
        BY <1>2 DEF Exec
      <3>2. CASE stash = None
        <4>1. ~InHand'
          BY <3>1, <3>2 DEF InHand
        <4>2. pipe # <<>> => ahead = <<>> /\ ids = {}
          BY DEF ExchangeInv, OneLive, ids
        <4>3. QED
          BY <2>6, <3>1, <4>1, <4>2 DEF ExchangeInv, OneLive
      <3>3. CASE stash # None
        BY <2>4, <2>6, <3>1, <3>3 DEF ExchangeInv, OneLive
      <3>4. QED
        BY <3>2, <3>3
    <2>9. QED
      BY <2>6, <2>7, <2>8 DEF ExchangeInv
  <1>3. CASE ExecFails
    <2> DEFINE L == IF stash = None THEN {} ELSE {[id |-> stash.id, how |-> "exec_failed"]}
               ids == IF stash = None THEN {} ELSE {stash.id}
    <2>1. dropped' = dropped \cup L
      BY <1>3 DEF ExecFails
    <2>2. Dropped' = Dropped \cup ids
      <3>1. {d.id : d \in L} = ids
        <4>1. CASE stash = None
          BY <4>1
        <4>2. CASE stash # None
          <5>1. L = {[id |-> stash.id, how |-> "exec_failed"]} /\ ids = {stash.id}
            BY <4>2
          <5>2. [id |-> stash.id, how |-> "exec_failed"].id = stash.id
            OBVIOUS
          <5> HIDE DEF L, ids
          <5>3. QED
            BY <5>1, <5>2
        <4>3. QED
          BY <4>1, <4>2
      <3> HIDE DEF L, ids
      <3>2. Dropped' = {d.id : d \in dropped \cup L}
        BY <2>1 DEF Dropped
      <3>3. QED
        BY <3>1, <3>2 DEF Dropped
    <2>3. ids \subseteq {sent} /\ (ids # {} => stash # None)
      BY DEF ExchangeInv, OneLive
    <2>4. ids # {} => sent > 0 /\ sent \notin Settled
      BY <2>3 DEF ExchangeInv, OneLive
    <2>5. L \subseteq [id: 1 .. MaxRequests, how: {"exec_failed", "read_ahead"}]
      BY <1>1, <2>3, <2>4
    <2>6. ids = {} \/ stash # None
      OBVIOUS
    <2> HIDE DEF ids, L
    <2>7. SettledOnce' /\ SessionNamed' /\ (ids = {} => Settled' = Settled)
      BY <1>3, <2>2, <2>3, <2>4, DropSettles DEF ExecFails
    <2>8. ExchangeTyped'
      <3>1. pending' \in BOOLEAN /\ stash' \in Request \cup {None}
        BY <1>3 DEF ExecFails
      <3>2. QED
        BY <1>3, <2>1, <2>5, <3>1 DEF ExecFails, ExchangeInv, ExchangeTyped, TypeOK
    <2>9. OneLive'
      <3>1. stash' = None /\ ahead' = ahead /\ pipe' = pipe /\ sent' = sent /\ ~InHand'
        BY <1>3 DEF ExecFails, InHand
      <3>2. QED
        BY <2>6, <2>7, <3>1 DEF ExchangeInv, OneLive
    <2>10. QED
      BY <2>7, <2>8, <2>9 DEF ExchangeInv
  <1>4. QED
    BY <1>2, <1>3

LEMMA StartStep ==
    ASSUME ExchangeInv, Start
    PROVE  ExchangeInv'
  <1>1. /\ UNCHANGED <<auto, disk, captured, session, pipe, ahead, cur, pending, stash, sent,
                       effects, dropped>>
        /\ at = "start" /\ at' \in {"handle", "read"} /\ startup' \in BOOLEAN
    BY DEF Start, ExchangeInv, ExchangeTyped, TypeOK
  <1>2. TypeOK'
    BY <1>1 DEF ExchangeInv, ExchangeTyped, TypeOK
  <1>3. cur.method \in {"work", "handoff"} => InHand
    BY <1>1 DEF InHand, None
  <1>4. CASE cur.method = "handoff"
    BY <1>1, <1>2, <1>3, <1>4, AnswerSettles DEF Start
  <1>5. CASE cur.method # "handoff"
    <2>1. answers' = answers
      BY <1>5 DEF Start
    <2>2. sent \in Nat
      BY DEF ExchangeInv, ExchangeTyped, TypeOK
    <2>3. SettledOnce' /\ SessionNamed' /\ Settled' = Settled
      BY <1>1, <2>1, <2>2, HistoriesKept
    <2>4. InHand' => InHand
      BY <1>1, <1>3 DEF Start, InHand
    <2>5. OneLive'
      BY <1>1, <2>3, <2>4 DEF ExchangeInv, OneLive
    <2>6. QED
      BY <1>1, <1>2, <2>1, <2>3, <2>5 DEF ExchangeInv, ExchangeTyped
  <1>6. QED
    BY <1>4, <1>5

LEMMA ExchangeStepInv == ExchangeInv /\ [Next]_vars => ExchangeInv'
  <1>1. ASSUME ExchangeInv, UNCHANGED vars PROVE ExchangeInv'
    <2>1. SettledOnce' /\ SessionNamed' /\ Settled' = Settled
      BY <1>1, HistoriesKept DEF vars, ExchangeInv, SessionNamed, ExchangeTyped, TypeOK
    <2>2. ExchangeTyped'
      BY <1>1 DEF vars, ExchangeInv, ExchangeTyped, TypeOK
    <2>3. OneLive'
      BY <1>1, <2>1 DEF vars, ExchangeInv, OneLive, InHand
    <2>4. QED
      BY <2>1, <2>2, <2>3 DEF ExchangeInv
  <1>2. QED
    BY <1>1, ClientSteps, LoopSteps, ReplySteps, ExecSteps, StartStep DEF Next, ServerStep

\* run_server and perform_handoff: for any number of requests and of programs
\* that replace the running one, a request has one answer at most, its call is
\* executed once at most and under the name the client gave, a client that is
\* initialized is never told otherwise, and no lost request was executed.
THEOREM ExchangesHappenOnce == Spec => []OneExchange
  <1>1. ExchangeInv => OneExchange
    <2> SUFFICES ASSUME ExchangeInv PROVE OneExchange
      OBVIOUS
    <2>1. \A d \in dropped : d.id \notin Ids(effects)
      BY DEF ExchangeInv, SettledOnce, Dropped
    <2>2. QED
      BY <2>1 DEF ExchangeInv, SettledOnce, SessionNamed, OneExchange, Ids
  <1>2. QED
    BY <1>1, ExchangeInit, ExchangeStepInv, PTL DEF Spec
=============================================================================
