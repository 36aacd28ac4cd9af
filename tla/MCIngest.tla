------------------------------ MODULE MCIngest ------------------------------
(* Small instances of Ingest for TLC, with the batches of MCTables.         *)
EXTENDS Ingest, MCTables

(* What UsualBatches asks holds for the batches of the run with faults.     *)
ASSUME FourAreUsual == Payload = PayloadFour => UsualBatches
=============================================================================
