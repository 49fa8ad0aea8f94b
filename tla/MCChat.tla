------------------------------- MODULE MCChat -------------------------------
(***************************************************************************)
(* Instances of Chat.tla for TLC.                                          *)
(***************************************************************************)
EXTENDS Chat, TLC

CONSTANTS alice, bob, a, x, y, l1, l2

(* What is written goes to bob, what is received comes from alice. *)
MCPeerOf == [m \in Sent \union Received |-> IF m \in Sent THEN bob ELSE alice]

Symmetry == Permutations(Listener)
=============================================================================
