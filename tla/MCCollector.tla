----------------------------- MODULE MCCollector -----------------------------
(* Small instances of Collector for TLC.                                    *)
EXTENDS Collector

CONSTANTS c1, c2
=============================================================================
