---------------------------- MODULE MCReadRoutes ----------------------------
(* Small instances of ReadRoutes for TLC, with the batches of MCTables.     *)
EXTENDS ReadRoutes, MCTables

CONSTANTS g1, g2

PayloadTwice == r1 :> TwoFrames @@ r2 :> ThreeFrames

(* What the theorems about charts ask of the batches holds for these.       *)
ASSUME TwiceIsUsual == UsualBatches /\ OneExecutableEach
=============================================================================
