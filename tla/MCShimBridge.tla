---------------------------- MODULE MCShimBridge ----------------------------
(***************************************************************************)
(* One peer whose relay may change twice, and a queue of requests: the     *)
(* second one meets whatever the first left behind.                        *)
(***************************************************************************)
EXTENDS ShimBridge

CONSTANTS p1, ra, home

MCPeers == {p1}
MCRelays == {ra}
=============================================================================
