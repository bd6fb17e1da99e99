---------------------------- MODULE MCFrontEnds -----------------------------
(***************************************************************************)
(* The two front ends that keep sessions, one per behaviour: StdioServer   *)
(* with a program that is replaced at any time, StdioServer with one that  *)
(* is replaced between requests, and HttpServer.                           *)
(***************************************************************************)
EXTENDS StdioServer

CONSTANTS Conns, MaxSessions, Capacity, MaxIds, MaxSent

ASSUME HttpAssumption ==
    MaxSessions \in Nat \ {0} /\ Capacity \in Nat \ {0} /\ MaxIds \in Nat /\ MaxSent \in Nat

VARIABLES scenario, order, ready, issued, state, active, feed, step, doing, initializer, executed

Http == INSTANCE HttpServer

httpVars == <<order, ready, issued, state, active, feed, step, doing, initializer, executed>>

MCInit ==
    /\ scenario \in {"any_time", "quiet", "http"}
    /\ Init /\ (scenario = "http" => auto = FALSE)
    /\ Http!Init

MCNext ==
    /\ UNCHANGED scenario
    /\ \/ /\ scenario = "any_time"
          /\ Next /\ UNCHANGED httpVars
       \/ /\ scenario = "quiet"
          /\ Next /\ (disk' # disk => Over /\ at = "read") /\ UNCHANGED httpVars
       \/ /\ scenario = "http"
          /\ Http!Next /\ UNCHANGED vars

MCSpec == MCInit /\ [][MCNext]_<<scenario, vars, httpVars>> /\ Fairness

\* run_server and perform_handoff: when the program is replaced between
\* requests, every request gets an answer, from the image that took it or
\* from the one it was forwarded to, unless the exec failed.
EveryRequestAnswered ==
    scenario = "quiet" => \A id \in 1 .. MaxRequests : AnsweredOrFailed(id)

\* HttpServer!CallsAreAttributed: every call of a session runs under the name
\* of the client that initialized it, however the initialize, the calls of
\* others and the eviction of the session interleave.
CallsAreAttributed == Http!CallsAreAttributed

\* HttpServer!StreamsComplete: a session has one stream, which loses none of
\* the answers made after its client was told where to post, except those it
\* fell behind on.
StreamsComplete == Http!StreamsComplete
=============================================================================
