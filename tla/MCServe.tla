------------------------------- MODULE MCServe -------------------------------
(***************************************************************************)
(* Two SQL threads, two generations, each letting everybody in or only the *)
(* first peer, and a connection from either peer.  The second peer, who    *)
(* may or may not be let in, opens the stream.                             *)
(***************************************************************************)
EXTENDS Serve

CONSTANTS p1, p2, c2

MCPeers == {p1, p2}
MCPeerOf == [c \in Conns |-> IF c = c2 THEN p2 ELSE p1]
MCConnOf == [s \in Streams |-> c2]
MCAllowLists == {{}, {p1}}
=============================================================================
