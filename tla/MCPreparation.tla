--------------------------- MODULE MCPreparation ----------------------------
(* Preparation for TLC: the constants of the runs.                         *)
EXTENDS Preparation

NoFaults   == {}
Reported   == {"append", "read"}
Fragments  == {"append", "partial", "torn", "read"}
TornLine   == {"torn"}
=============================================================================
