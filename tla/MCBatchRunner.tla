--------------------------- MODULE MCBatchRunner ---------------------------
(* Runs of batches whose campaigns last one hour, two in C0.                *)
EXTENDS BatchRunner

MCHoldLimit == [c \in Campaigns |-> IF c = "C0" THEN 2 ELSE 1]
===========================================================================
