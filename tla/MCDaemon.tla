------------------------------ MODULE MCDaemon ------------------------------
(***************************************************************************)
(* Instances of Daemon.tla for TLC.                                        *)
(***************************************************************************)
EXTENDS Daemon, TLC

CONSTANTS R1, R2
=============================================================================
