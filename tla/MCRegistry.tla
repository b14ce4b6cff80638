------------------------------ MODULE MCRegistry ------------------------------
(***************************************************************************)
(* Instance of Registry for TLC: as many codes as two rooms need, so that  *)
(* a third is asked for when all are taken.                                *)
(***************************************************************************)
EXTENDS Registry

CONSTANTS a, b, k1, k2

MCClient == {a, b}
MCCode == {k1, k2}
=============================================================================
