-------------------------- MODULE MCProviderRouting --------------------------
(***************************************************************************)
(* An instance of ProviderRouting for TLC: one caller with two backups,    *)
(* the first of them unusable, and one with a single route.                *)
(***************************************************************************)
EXTENDS ProviderRouting

CONSTANTS p1, p2, main, backup, broken

Mixed == [p \in {p1, p2} |-> IF p = p1 THEN <<main, broken, backup>> ELSE <<main>>]
Uneven == [p \in {p1, p2} |-> IF p = p1 THEN 2 ELSE 4]
=============================================================================
