---------------------------- MODULE MCBatchCore ----------------------------
(* Batches whose campaigns last one hour, two where an hour in the middle   *)
(* of a campaign matters: C0, C4 and C6.                                    *)
EXTENDS BatchCore

MCHoldLimit == [c \in Campaigns |-> IF c \in {"C0", "C4", "C6"} THEN 2 ELSE 1]
===========================================================================
