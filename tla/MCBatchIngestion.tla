-------------------------- MODULE MCBatchIngestion --------------------------
(* Three files of different cost, submitted in orders that put the         *)
(* expensive one first, in the middle and last.                            *)
EXTENDS BatchIngestion

CONSTANTS f1, f2, f3

MCCost    == [f \in File |-> IF f = f1 THEN 1 ELSE 2]
MCBatches == {<<f1, f2, f3>>, <<f2, f1, f3>>, <<f3, f1>>}
=============================================================================
