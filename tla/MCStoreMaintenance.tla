------------------------- MODULE MCStoreMaintenance -------------------------
(* A small instance of StoreMaintenance for TLC.                           *)
EXTENDS StoreMaintenance, TLC

CONSTANTS reference, review, p1, p2

BothStores == <<reference, review>>
OneStore == <<review>>
MCProcesses == {p1, p2}

Symmetric == Permutations(MCProcesses)
=============================================================================
