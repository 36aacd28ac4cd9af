----------------------------- MODULE MCEndToEnd -----------------------------
(* A small instance of EndToEnd for TLC: samples of the demo program.  In   *)
(* the second the calls below main were inlined, so one address has three   *)
(* frames; the third was taken in code without symbols.                     *)
EXTENDS EndToEnd

CONSTANT c1
Sampled(n, frames) == [addresses |-> n, stack |-> frames]
DemoSamples ==
  {Sampled(3, <<"main", "applicationLogic", "doBusinessLogic">>),
   Sampled(1, <<"main", "applicationLogic", "doLogging">>),
   Sampled(2, <<>>)}
=============================================================================
