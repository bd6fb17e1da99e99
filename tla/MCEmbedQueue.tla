---------------------------- MODULE MCEmbedQueue ----------------------------
(***************************************************************************)
(* Two writers and a queue of one job: a job can be refused while another  *)
(* is in the queue and a third in the batch.                               *)
(***************************************************************************)
EXTENDS EmbedQueue, TLC

CONSTANTS b1, b2

\* b2 is b1 with a span appended.
OneRepair == b1 :> {b2} @@ b2 :> {}
=============================================================================
