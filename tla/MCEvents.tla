------------------------------ MODULE MCEvents ------------------------------
(* Instances of EventSync for TLC.                                         *)
EXTENDS EventSync
=============================================================================
