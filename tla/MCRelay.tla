------------------------------ MODULE MCRelay ------------------------------
(***************************************************************************)
(* Instances of Relay.tla for TLC: alice publishes to bob, who may connect *)
(* twice; all connections come from one address, or each peer has its own. *)
(***************************************************************************)
EXTENDS Relay, TLC

CONSTANTS alice, bob, a1, b1, b2, home, cafe, m1, m2

MCClient == [c \in Conn |-> IF c = a1 THEN alice ELSE bob]
MCAddr == [c \in Conn |-> home]
MCOwnAddr == [c \in Conn |-> IF c = a1 THEN home ELSE cafe]
MCSender == [m \in Msg |-> alice]
MCRecipient == [m \in Msg |-> bob]
=============================================================================
