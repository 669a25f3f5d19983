------------------------------ MODULE MCPeerLinks ------------------------------
(* An instance of PeerLinks for TLC: two peers, each of which may write to *)
(* the other first; a writes more, and b may be started again.             *)
EXTENDS PeerLinks, TLC

CONSTANTS a, b, Said, Starts

CrossCalls == {<<a, b>>, <<b, a>>}
SaidOf == (a :> Said) @@ (b :> 1)
StartsOf == (a :> 0) @@ (b :> Starts)
================================================================================
