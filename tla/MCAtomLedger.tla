---------------------------- MODULE MCAtomLedger ----------------------------
(* Four accounts: a melt, a train that collects from it, a reservoir and    *)
(* where gas ends; feedstock comes in at the melt, reagents at the          *)
(* reservoir.                                                               *)
EXTENDS AtomLedger

MCAccounts == {"melt", "train", "buffer", "offgas"}
MCOrigins == {"feedstock", "reagent"}
MCLoads == {<<"melt", "feedstock", 2>>, <<"buffer", "reagent", 1>>}
MCDrawn == {<<"buffer", "reagent">>, <<"melt", "feedstock">>}
MCVents == {}
MCInitial == [a \in MCAccounts |-> IF a = "train" THEN 1 ELSE 0]
=============================================================================
