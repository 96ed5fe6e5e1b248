---------------------------- MODULE MCAgentCalls ----------------------------
(* AgentCalls on two shapes: a session that calls another twice, into the  *)
(* same conversation, and a chain, where the called session makes a call   *)
(* of its own before it answers.  In the chain two turns of that session   *)
(* can be over and unsettled at once while a third runs, and the turn of   *)
(* the session at its head, which waits, goes on.                          *)
EXTENDS AgentCalls, TLC

CONSTANTS root, mid, leaf, outer, inner, rootEnd, midEnd, midEnd2, leafEnd

OnceParent == outer :> root
OnceChild == outer :> mid
TwiceParent == (outer :> root) @@ (inner :> root)
TwiceChild == (outer :> mid) @@ (inner :> mid)
ChainParent == (outer :> root) @@ (inner :> mid)
ChainChild == (outer :> mid) @@ (inner :> leaf)
PairOf == (rootEnd :> root) @@ (midEnd :> mid)
ChainOf == (midEnd :> mid) @@ (midEnd2 :> mid) @@ (leafEnd :> leaf)
=============================================================================
