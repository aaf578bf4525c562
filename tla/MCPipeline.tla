----------------------------- MODULE MCPipeline -----------------------------
(***************************************************************************)
(* Every queue of the pipeline at its smallest useful capacity: a batch of *)
(* two datagrams overflows the channel, the batches of one push overflow   *)
(* the sink's channel, and three datagrams overflow the socket buffer.     *)
(***************************************************************************)
EXTENDS Pipeline

=============================================================================
