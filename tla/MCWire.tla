------------------------------- MODULE MCWire -------------------------------
(***************************************************************************)
(* Instances of Wire.tla for TLC.                                          *)
(***************************************************************************)
EXTENDS Wire, TLC

CONSTANTS alice, bob, a, b, d, x, y

FromAlice == {a, b, d}

MCFrom == [m \in Message |-> IF m \in FromAlice THEN alice ELSE bob]
MCTo == [m \in Message |-> IF m \in FromAlice THEN bob ELSE alice]
=============================================================================
