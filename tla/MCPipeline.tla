----------------------------- MODULE MCPipeline -----------------------------
(* Instances of Pipeline for TLC. *)
EXTENDS Pipeline

\* Every message has a key of its own.
KeyOfMessage == [m \in Records |-> m]
LastShard    == [m \in Records |-> NumShards]
=============================================================================
