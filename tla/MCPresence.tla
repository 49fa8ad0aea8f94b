----------------------------- MODULE MCPresence -----------------------------
(***************************************************************************)
(* Instances of Presence.tla for TLC; a tick is 30 seconds.                *)
(***************************************************************************)
EXTENDS Presence

CONSTANTS bob
=============================================================================
