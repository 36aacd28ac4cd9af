------------------------------ MODULE MCBurnApp ------------------------------
(* A small instance of BurnApp for TLC.                                      *)
EXTENDS BurnApp

CONSTANTS t1, t2
=============================================================================
