--------------------------- MODULE MCNativeClient ---------------------------
(* One statement, one peer, one retry: enough for the statement to be sent *)
(* twice.                                                                  *)
EXTENDS NativeClient

CONSTANTS p1, s1

MCPeers == {p1}
MCStatements == {s1}
MCRequests == MCStatements \X (0 .. 1)
MCPeerOf == [r \in MCRequests |-> p1]
=============================================================================
