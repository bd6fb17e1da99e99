----------------------------- MODULE HttpServer -----------------------------
(***************************************************************************)
(* The HTTP transport (transport.rs): a registry of sessions that evicts   *)
(* the least recently used one at its limit, requests that run off its     *)
(* lock, and event streams fed from one broadcast channel that drops what  *)
(* a slow reader has not read.                                             *)
(*                                                                         *)
(* The ticks of the registry's clock are distinct, so the entries are kept *)
(* as a sequence, least recently used first.  Session identifiers are      *)
(* random, never reused, and a client may know any that was issued.  Left  *)
(* out: malformed requests, the bearer token, the origin check and the     *)
(* rate limit, which refuse before any state is touched.                   *)
(***************************************************************************)
EXTENDS Naturals, Sequences, FiniteSets, SequencesExt

CONSTANTS
    Conns,          \* clients, each with a name of its own
    MaxSessions,    \* PERSEUS_VAULT_HTTP_MAX_SESSIONS
    Capacity,       \* of the broadcast channel, 256 in production
    MaxIds,         \* bound: sessions issued
    MaxSent         \* bound: messages broadcast

Ids == 1 .. MaxIds
Nobody == "nobody"

VARIABLES
    order,          \* the ids of the registry, least recently used first
    ready,          \* the ids of the registry that have been initialized
    issued,         \* how many ids have been issued
    state,          \* state[id]: initialized and session_agent_id of MCPState
    active,         \* active_sse
    feed,           \* the messages broadcast: the session of each
    step,           \* step[c]: the next step of the request of client c
    doing,          \* doing[c]: its session, and where its stream has got to
    initializer,    \* history: the client whose initialize succeeded
    executed        \* history: the calls executed

vars == <<order, ready, issued, state, active, feed, step, doing, initializer, executed>>

NoStream == [id |-> 0, new |-> FALSE, next |-> 0, since |-> 0, got |-> <<>>, missed |-> {}]

Init ==
    /\ order = <<>> /\ ready = {} /\ issued = 0
    /\ state = [id \in Ids |-> [initialized |-> FALSE, agent |-> Nobody]]
    /\ active = {} /\ feed = <<>>
    /\ step = [c \in Conns |-> "idle"]
    /\ doing = [c \in Conns |-> NoStream]
    /\ initializer = [id \in Ids |-> Nobody]
    /\ executed = {}

Goto(c, s, d) == step' = [step EXCEPT ![c] = s] /\ doing' = [doing EXCEPT ![c] = d]
Return(c) == Goto(c, "idle", NoStream)

-----------------------------------------------------------------------------
(* SessionRegistry, each operation under its lock.                         *)

Registered(id) == id \in Range(order)
Touch(id) == order' = Append(Remove(order, id), id) /\ UNCHANGED ready

\* At the limit the least recently used session goes, whatever it is doing.
Insert(id) ==
    LET kept == IF Len(order) >= MaxSessions THEN Tail(order) ELSE order IN
    order' = Append(kept, id)

GetAny(id) == Registered(id) /\ Touch(id)
\* Mutant: a session is taken while its initialize is still under way.
GetUnready(id) == GetAny(id)
\* Only a session that has been initialized serves calls.
Get(id) == Registered(id) /\ id \in ready /\ Touch(id)

-----------------------------------------------------------------------------
(* POST /message: initialize.                                              *)

\* Without an id: a session that is registered once it is initialized.
PostInitialize(c) ==
    /\ step[c] = "idle" /\ issued < MaxIds
    /\ issued' = issued + 1
    /\ Goto(c, "initialize", [NoStream EXCEPT !.id = issued + 1, !.new = TRUE])
    /\ UNCHANGED <<order, ready, state, active, feed, initializer, executed>>

\* With the id of a session that GET /sse has registered.
PostInitializeOn(c, id) ==
    /\ step[c] = "idle" /\ GetAny(id)
    /\ Goto(c, "initialize", [NoStream EXCEPT !.id = id])
    /\ UNCHANGED <<issued, state, active, feed, initializer, executed>>

\* The swap of the flag decides between two that initialize one session.
Swap(c) ==
    LET id == doing[c].id IN
    /\ step[c] = "initialize"
    /\ IF state[id].initialized THEN Return(c) ELSE Goto(c, "identify", doing[c])
    /\ state' = [state EXCEPT ![id].initialized = TRUE]
    /\ UNCHANGED <<order, ready, issued, active, feed, initializer, executed>>

Identify(c) ==
    LET id == doing[c].id IN
    /\ step[c] = "identify"
    /\ state' = [state EXCEPT ![id].agent = c]
    /\ initializer' = [initializer EXCEPT ![id] = c]
    /\ Goto(c, "register", doing[c])
    /\ UNCHANGED <<order, ready, issued, active, feed, executed>>

\* insert or mark_ready.  A session evicted meanwhile is not found; one that
\* came without an id is not broadcast.
Register(c) ==
    LET id == doing[c].id IN
    /\ step[c] = "register"
    /\ \/ /\ doing[c].new
          /\ Insert(id) /\ ready' = (ready \cap Range(order')) \cup {id}
          /\ Return(c)
       \/ /\ ~doing[c].new /\ Registered(id)
          /\ ready' = ready \cup {id} /\ UNCHANGED order
          /\ Goto(c, "send", doing[c])
       \/ /\ ~doing[c].new /\ ~Registered(id)
          /\ UNCHANGED <<order, ready>>
          /\ Return(c)
    /\ UNCHANGED <<issued, state, active, feed, initializer, executed>>

-----------------------------------------------------------------------------
(* POST /message: a tool call.                                             *)

PostCall(c, id) ==
    /\ step[c] = "idle" /\ Get(id)
    /\ Goto(c, "call", [NoStream EXCEPT !.id = id])
    /\ UNCHANGED <<issued, state, active, feed, initializer, executed>>

\* handle_request stamps the call with the identity of the session.
Call(c) ==
    LET id == doing[c].id IN
    /\ step[c] = "call"
    /\ executed' = executed \cup
           (IF state[id].initialized THEN {[id |-> id, agent |-> state[id].agent]} ELSE {})
    /\ Goto(c, "send", doing[c])
    /\ UNCHANGED <<order, ready, issued, state, active, feed, initializer>>

\* The answer is returned to the POST, and broadcast for the stream.
Send(c) ==
    /\ step[c] = "send" /\ Len(feed) < MaxSent
    /\ feed' = Append(feed, doing[c].id)
    /\ Return(c)
    /\ UNCHANGED <<order, ready, issued, state, active, initializer, executed>>

-----------------------------------------------------------------------------
(* GET /sse.                                                               *)

\* create_registered, for a client that comes without an id.
GetSse(c) ==
    /\ step[c] = "idle" /\ issued < MaxIds
    /\ issued' = issued + 1
    /\ Insert(issued + 1) /\ ready' = ready \cap Range(order')
    /\ Goto(c, "lease", [NoStream EXCEPT !.id = issued + 1])
    /\ UNCHANGED <<state, active, feed, initializer, executed>>

GetSseOf(c, id) ==
    /\ step[c] = "idle" /\ GetAny(id)
    /\ Goto(c, "lease", [NoStream EXCEPT !.id = id])
    /\ UNCHANGED <<issued, state, active, feed, initializer, executed>>

\* One stream per session: a second is a conflict.
Lease(c) ==
    LET id == doing[c].id IN
    /\ step[c] = "lease"
    /\ active' = active \cup {id}
    /\ IF id \in active THEN Return(c) ELSE Goto(c, "subscribe", doing[c])
    /\ UNCHANGED <<order, ready, issued, state, feed, initializer, executed>>

\* A receiver gets what is sent from here on.
Subscribe(c) ==
    /\ step[c] = "subscribe"
    /\ Goto(c, "endpoint", [doing[c] EXCEPT !.next = Len(feed) + 1])
    /\ UNCHANGED <<order, ready, issued, state, active, feed, initializer, executed>>

\* The endpoint event tells the client where to post.
Endpoint(c) ==
    /\ step[c] = "endpoint"
    /\ Goto(c, "stream", [doing[c] EXCEPT !.since = Len(feed)])
    /\ UNCHANGED <<order, ready, issued, state, active, feed, initializer, executed>>

\* Mutant: a reader that has fallen behind goes on with what comes next.
RecvResubscribes(c) ==
    LET d == doing[c]
        oldest == IF Len(feed) > Capacity THEN Len(feed) - Capacity + 1 ELSE 1
    IN
    /\ step[c] = "stream" /\ d.next <= Len(feed)
    /\ Goto(c, "stream",
         IF d.next < oldest
         THEN [d EXCEPT !.next = Len(feed) + 1, !.missed = @ \cup (d.next .. oldest - 1)]
         ELSE [d EXCEPT !.next = @ + 1,
                        !.got = IF feed[d.next] = d.id THEN Append(@, d.next) ELSE @])
    /\ UNCHANGED <<order, ready, issued, state, active, feed, initializer, executed>>

\* recv: what a reader that has fallen behind has not read is gone; a message
\* of another session is skipped.
Recv(c) ==
    LET d == doing[c]
        oldest == IF Len(feed) > Capacity THEN Len(feed) - Capacity + 1 ELSE 1
    IN
    /\ step[c] = "stream" /\ d.next <= Len(feed)
    /\ Goto(c, "stream",
         IF d.next < oldest
         THEN [d EXCEPT !.next = oldest, !.missed = @ \cup (d.next .. oldest - 1)]
         ELSE [d EXCEPT !.next = @ + 1,
                        !.got = IF feed[d.next] = d.id THEN Append(@, d.next) ELSE @])
    /\ UNCHANGED <<order, ready, issued, state, active, feed, initializer, executed>>

\* The stream is dropped when its client is found to be gone.
Disconnect(c) ==
    /\ step[c] \in {"endpoint", "stream"}
    /\ active' = active \ {doing[c].id}
    /\ Return(c)
    /\ UNCHANGED <<order, ready, issued, state, feed, initializer, executed>>

Next ==
    \E c \in Conns :
        \/ PostInitialize(c) \/ Swap(c) \/ Identify(c) \/ Register(c)
        \/ Call(c) \/ Send(c)
        \/ GetSse(c) \/ Lease(c) \/ Subscribe(c) \/ Endpoint(c) \/ Recv(c) \/ Disconnect(c)
        \/ \E id \in 1 .. issued : PostInitializeOn(c, id) \/ PostCall(c, id) \/ GetSseOf(c, id)

Spec == Init /\ [][Next]_vars

-----------------------------------------------------------------------------
(* Correctness.                                                            *)

TypeOK ==
    /\ order \in Seq(Ids) /\ IsInjective(order) /\ Len(order) <= MaxSessions
    /\ ready \subseteq Range(order)
    /\ issued \in 0 .. MaxIds /\ active \subseteq Ids
    /\ feed \in Seq(Ids)
    /\ \A c \in Conns : doing[c].id \in 0 .. MaxIds

\* handle_message: every call of a session runs under the name of the client
\* that initialized it, however the initialize, the calls of others and the
\* eviction of the session interleave.
CallsAreAttributed ==
    \A call \in executed :
        call.agent # Nobody /\ call.agent = initializer[call.id]

\* handle_sse: a session has one stream, and the stream loses none of the
\* answers made after its client was told where to post, except those it
\* fell behind on: what it has not delivered is still in the channel.
StreamsComplete ==
    \A c \in Conns : step[c] = "stream" =>
        LET d == doing[c]
            own == {i \in DOMAIN feed : feed[i] = d.id}
        IN
        /\ \A i \in own : i > d.since => i \in Range(d.got) \cup d.missed \/ i >= d.next
        /\ Range(d.got) \subseteq own
        /\ \A i, j \in DOMAIN d.got : i < j => d.got[i] < d.got[j]
        /\ \A other \in Conns \ {c} : step[other] = "stream" => doing[other].id # d.id
=============================================================================
