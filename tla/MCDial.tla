------------------------------- MODULE MCDial -------------------------------
(***************************************************************************)
(* Values for Dial's constants: every request goes to the same peer, which *)
(* is where requests meet (the cache and the peer table are maps keyed by  *)
(* peer, and nothing else is shared).                                      *)
(***************************************************************************)
EXTENDS Dial

CONSTANT p1

MCPeers == {p1}
MCPeerOf == [r \in Requests |-> p1]
=============================================================================
