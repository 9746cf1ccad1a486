------------------------------ MODULE MCThread ------------------------------
(* The constants for TLC are in MCThread.cfg.                               *)
EXTENDS Thread
=============================================================================
