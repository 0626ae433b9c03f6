------------------------------- MODULE MCSync -------------------------------
(* Two ids for connections to a good peer and one for a connection to a bad  *)
(* one.                                                                      *)
EXTENDS Sync, TLC

CONSTANTS g1, g2, b1, G, B

MCMaxCallbacks == (g1 :> 1) @@ (g2 :> 1) @@ (b1 :> 2)
MCPeer == (g1 :> G) @@ (g2 :> G) @@ (b1 :> B)
=============================================================================
