---------------------------- MODULE StdioServer -----------------------------
(***************************************************************************)
(* The server on standard input and output and the replacement of its      *)
(* program while it runs (mcp.rs run_server, live_update.rs).  When the    *)
(* file on disk is not the one the process has captured, tools refuse, or  *)
(* the process executes the new file on the same pipes: the call under way *)
(* is forwarded to it through the environment (with the automatic handoff) *)
(* or its prepared answer is (with the handoff tool).                      *)
(*                                                                         *)
(* The client sends a request once the one before is answered, or given up *)
(* as lost.  A thread reads lines ahead of the loop; what it holds dies    *)
(* with the process image.  Left out: lines that do not parse, the idle    *)
(* timeout and the watch for the parent, which end the session.            *)
(***************************************************************************)
EXTENDS Naturals, Sequences, FiniteSets

CONSTANTS
    MaxRequests,    \* bound: requests of the session
    MaxImages       \* bound: times the file on disk is replaced

ASSUME StdioAssumption == MaxRequests \in Nat /\ MaxImages \in Nat

Tools == {"work", "health", "handoff"}
\* fits: the request is at most MAX_PENDING_REQUEST_BYTES long.
Request == [id: 1 .. MaxRequests, method: Tools \cup {"initialize"}, fits: BOOLEAN]
None == [id |-> 0, method |-> "none", fits |-> TRUE]
Client == "client"
NoAgent == ""

VARIABLES
    auto,           \* PERSEUS_VAULT_AUTO_HANDOFF is set
    disk,           \* the file on disk, by how often it was replaced
    captured,       \* running_identity: the file captured, if any
    session,        \* MCPState: initialized and session_agent_id
    pipe, ahead,    \* lines in the pipe, and lines read ahead of the loop
    at, cur,        \* the next step of the loop and the request it handles
    startup,        \* is cur a request forwarded to this image?
    pending, stash, \* HANDOFF_PENDING; PENDING_REQUEST or PENDING_RESPONSE
    sent,           \* how many requests the client has sent
    answers,        \* history: the answers the client got
    effects,        \* history: the calls executed
    dropped         \* history: requests lost, and whether to a failed exec

vars == <<auto, disk, captured, session, pipe, ahead, at, cur, startup, pending, stash,
          sent, answers, effects, dropped>>

fresh == [initialized |-> FALSE, agent |-> NoAgent]

Init ==
    /\ auto \in BOOLEAN
    /\ disk = 0 /\ captured = {} /\ session = fresh
    /\ pipe = <<>> /\ ahead = <<>>
    /\ at = "read" /\ cur = None /\ startup = FALSE
    /\ pending = FALSE /\ stash = None
    /\ sent = 0 /\ answers = <<>> /\ effects = <<>> /\ dropped = {}

Answered == {answers[i].id : i \in DOMAIN answers}
Lost(how) == {d.id : d \in {d \in dropped : d.how = how}}
Over == 1 .. sent \subseteq Answered \cup Lost("exec_failed") \cup Lost("read_ahead")

-----------------------------------------------------------------------------
(* The client, the file and the thread that reads.                         *)

Send(method, fits) ==
    /\ sent < MaxRequests /\ Over
    /\ sent' = sent + 1
    /\ pipe' = Append(pipe, [id |-> sent + 1, method |-> method, fits |-> fits])
    /\ UNCHANGED <<auto, disk, captured, session, ahead, at, cur, startup, pending, stash,
                   answers, effects, dropped>>

Replace ==
    /\ disk < MaxImages
    /\ disk' = disk + 1
    /\ UNCHANGED <<auto, captured, session, pipe, ahead, at, cur, startup, pending, stash,
                   sent, answers, effects, dropped>>

ReadAhead ==
    /\ pipe # <<>>
    /\ ahead' = Append(ahead, Head(pipe)) /\ pipe' = Tail(pipe)
    /\ UNCHANGED <<auto, disk, captured, session, at, cur, startup, pending, stash,
                   sent, answers, effects, dropped>>

-----------------------------------------------------------------------------
(* The loop and handle_request.                                            *)

Take ==
    /\ at = "read" /\ ahead # <<>>
    /\ cur' = Head(ahead) /\ ahead' = Tail(ahead)
    /\ at' = "handle" /\ startup' = FALSE
    /\ UNCHANGED <<auto, disk, captured, session, pipe, pending, stash,
                   sent, answers, effects, dropped>>

\* A forwarded request is handled before the loop, which looks for a pending
\* handoff after the requests it takes itself.
Done == at' = IF startup THEN "read" ELSE "after"
Reply(answer) ==
    /\ answers' = Append(answers, [id |-> cur.id, answer |-> answer])
    /\ Done

Initialize ==
    /\ at = "handle" /\ cur.method = "initialize"
    /\ IF session.initialized THEN Reply("already") /\ UNCHANGED session
       ELSE Reply("initialized") /\ session' = [initialized |-> TRUE, agent |-> Client]
    /\ UNCHANGED <<auto, disk, captured, pipe, ahead, cur, startup, pending, stash,
                   sent, effects, dropped>>

NotInitialized ==
    /\ at = "handle" /\ cur.method \in Tools /\ ~session.initialized
    /\ Reply("not_initialized")
    /\ UNCHANGED <<auto, disk, captured, session, pipe, ahead, cur, startup, pending, stash,
                   sent, effects, dropped>>

\* The first look at the file captures what it is then (OnceLock).
Capture ==
    /\ at = "handle" /\ cur.method \in Tools /\ session.initialized
    /\ captured' = IF captured = {} THEN {disk} ELSE captured
    /\ at' = "check"
    /\ UNCHANGED <<auto, disk, session, pipe, ahead, cur, startup, pending, stash,
                   sent, answers, effects, dropped>>

Stale == captured # {disk}

\* schedule_auto_handoff and schedule_handoff_with_response: nothing is
\* answered here, the new image will.
Check ==
    LET forwards == Stale /\ \/ cur.method = "work" /\ auto /\ cur.fits
                             \/ cur.method = "handoff"
    IN
    /\ at = "check"
    /\ IF forwards THEN Done /\ pending' = TRUE /\ stash' = cur
       ELSE at' = "gate" /\ UNCHANGED <<pending, stash>>
    /\ UNCHANGED <<auto, disk, captured, session, pipe, ahead, cur, startup,
                   sent, answers, effects, dropped>>

\* The dispatch looks at the file again.  A stale image serves its health
\* and the handoff tool, which schedules the handoff after its answer.
Gate ==
    /\ at = "gate"
    /\ \/ /\ cur.method = "work" /\ Stale
          /\ Reply("refused")
          /\ UNCHANGED <<effects, pending>>
       \/ /\ cur.method = "work" /\ ~Stale
          /\ Reply("result")
          /\ effects' = Append(effects, [id |-> cur.id, agent |-> session.agent])
          /\ UNCHANGED pending
       \/ /\ cur.method = "health"
          /\ Reply("result")
          /\ UNCHANGED <<effects, pending>>
       \/ /\ cur.method = "handoff"
          /\ Reply("report")
          /\ pending' = (pending \/ Stale)
          /\ UNCHANGED effects
    /\ UNCHANGED <<auto, disk, captured, session, pipe, ahead, cur, startup, stash,
                   sent, dropped>>

After ==
    /\ at = "after" /\ ~pending
    /\ at' = "read"
    /\ UNCHANGED <<auto, disk, captured, session, pipe, ahead, cur, startup, pending, stash,
                   sent, answers, effects, dropped>>

\* Mutant: the environment does not carry the session.
ExecForgets ==
    /\ at = "after" /\ pending
    /\ at' = "start" /\ cur' = stash /\ session' = [session EXCEPT !.agent = NoAgent]
    /\ captured' = {} /\ pending' = FALSE /\ stash' = None
    /\ dropped' = dropped \cup {[id |-> ahead[i].id, how |-> "read_ahead"] : i \in DOMAIN ahead}
    /\ ahead' = <<>>
    /\ UNCHANGED <<auto, disk, pipe, startup, sent, answers, effects>>

\* perform_handoff with an exec that succeeds: the statics and the lines read
\* ahead are gone; the environment carries the session and the stash.
Exec ==
    /\ at = "after" /\ pending
    /\ at' = "start" /\ cur' = stash
    /\ captured' = {} /\ pending' = FALSE /\ stash' = None
    /\ dropped' = dropped \cup {[id |-> ahead[i].id, how |-> "read_ahead"] : i \in DOMAIN ahead}
    /\ ahead' = <<>>
    /\ UNCHANGED <<auto, disk, session, pipe, startup, sent, answers, effects>>

\* The exec fails: clear_handoff_pending, and the stale image serves on.
ExecFails ==
    /\ at = "after" /\ pending
    /\ at' = "read" /\ pending' = FALSE /\ stash' = None
    /\ dropped' = dropped \cup
           (IF stash = None THEN {} ELSE {[id |-> stash.id, how |-> "exec_failed"]})
    /\ UNCHANGED <<auto, disk, captured, session, pipe, ahead, cur, startup,
                   sent, answers, effects>>

\* Mutant: the new image does not look for a forwarded request.
StartForgets ==
    /\ at = "start"
    /\ at' = "read" /\ UNCHANGED startup
    /\ IF cur.method = "handoff"
       THEN answers' = Append(answers, [id |-> cur.id, answer |-> "report"])
       ELSE UNCHANGED answers
    /\ UNCHANGED <<auto, disk, captured, session, pipe, ahead, cur, pending, stash,
                   sent, effects, dropped>>

\* run_server of the new image: the prepared answer is written, the forwarded
\* request is handled.
Start ==
    /\ at = "start"
    /\ IF cur.method = "work"
       THEN at' = "handle" /\ startup' = TRUE
       ELSE at' = "read" /\ UNCHANGED startup
    /\ IF cur.method = "handoff"
       THEN answers' = Append(answers, [id |-> cur.id, answer |-> "report"])
       ELSE UNCHANGED answers
    /\ UNCHANGED <<auto, disk, captured, session, pipe, ahead, cur, pending, stash,
                   sent, effects, dropped>>

ServerStep ==
    \/ ReadAhead \/ Take \/ Initialize \/ NotInitialized \/ Capture \/ Check \/ Gate
    \/ After \/ Exec \/ ExecFails \/ Start

Next ==
    \/ \E method \in Tools \cup {"initialize"}, fits \in BOOLEAN : Send(method, fits)
    \/ Replace
    \/ ServerStep

\* The loop and the reader are threads of a running process, and what they
\* call is bounded by timeouts.
Fairness == WF_vars(ServerStep)

Spec == Init /\ [][Next]_vars /\ Fairness

-----------------------------------------------------------------------------
(* Correctness.                                                            *)

TypeOK ==
    /\ auto \in BOOLEAN /\ pending \in BOOLEAN /\ startup \in BOOLEAN
    /\ disk \in 0 .. MaxImages /\ captured \subseteq 0 .. MaxImages
    /\ session \in [initialized: BOOLEAN, agent: {Client, NoAgent}]
    /\ pipe \in Seq(Request) /\ ahead \in Seq(Request)
    /\ at \in {"read", "handle", "check", "gate", "after", "start"}
    /\ cur \in Request \cup {None} /\ stash \in Request \cup {None}
    /\ sent \in 0 .. MaxRequests
    /\ dropped \subseteq [id: 1 .. MaxRequests, how: {"exec_failed", "read_ahead"}]

Once(history) ==
    \A i, j \in DOMAIN history : history[i].id = history[j].id => i = j

\* Across every image of the process: a request has one answer at most, its
\* call is executed once at most and under the identity the client gave when
\* it initialized, and a client that is initialized is never told otherwise
\* (handoff state, pending request and pending response).
OneExchange ==
    /\ Once(answers) /\ Once(effects)
    /\ \A i \in DOMAIN effects : effects[i].agent = Client
    /\ \A i, j \in DOMAIN answers : i < j /\ answers[i].answer = "initialized" =>
           answers[j].answer \notin {"not_initialized", "initialized"}
    /\ \A d \in dropped : d.id \notin {effects[i].id : i \in DOMAIN effects}

\* Every request is answered, unless the exec that was to carry it failed.
AnsweredOrFailed(id) == sent >= id ~> id \in Answered \cup Lost("exec_failed")

-----------------------------------------------------------------------------
(* Claims the code makes and does not keep.                                *)

\* live_update.rs: no client request can fall into the gap between an answer
\* and the exec.  The handoff tool looks at the file twice: found current,
\* then replaced, it answers and leaves the handoff pending all the same.
WindowFree == Lost("read_ahead") = {}

\* pending_request_clone: a failed exec never silently loses the request.
\* clear_handoff_pending drops it and nothing is answered.
FailedExecKeepsRequest == Lost("exec_failed") = {}

\* Every request is answered or lost to one of these two.  A forwarded one
\* that finds the file replaced again waits for a loop that waits for a line.
AlwaysSettled ==
    \A id \in 1 .. MaxRequests :
        sent >= id ~> id \in Answered \cup Lost("exec_failed") \cup Lost("read_ahead")
=============================================================================
