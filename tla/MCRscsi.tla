------------------------------- MODULE MCRscsi -------------------------------
(* A machine with two drives for TLC.                                      *)
EXTENDS Rscsi, TLC
CONSTANTS t1, t9, none
MCTargets == {t1, t9}
MCHigh == {t9}
MCAmounts == 0 .. 2
MCNames == {"plain", "cut", "REMOTE"}
==============================================================================
