---------------------------- MODULE MCRaftClient ----------------------------
(* Small instances of the shared client for TLC. *)
EXTENDS RaftClient

CONSTANTS a1, a2, a3

\* RAFT_NODE_GRPC_ADDRS of the demonstration scripts.
AllAddrs == <<a1, a2, a3>>
TwoAddrs == <<a1, a2>>
=============================================================================
