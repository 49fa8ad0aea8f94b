------------------------------ MODULE MCMesh ------------------------------
(***************************************************************************)
(* Instances of Mesh.tla for TLC: relay R1 is linked with R2 and, in one   *)
(* run, with R3; or R1 and R2 dial each other.                             *)
(***************************************************************************)
EXTENDS Mesh, TLC

CONSTANTS R1, R2, R3, bob, m1, k1, l12, l21, l13

MCDialer == [l \in Link |-> IF l = l21 THEN R2 ELSE R1]
MCAcceptor == [l \in Link |-> IF l = l21 THEN R1 ELSE IF l = l13 THEN R3 ELSE R2]
MCSource == [x \in Mail |-> R1]
MCDest == [x \in Mail |-> bob]
===========================================================================
