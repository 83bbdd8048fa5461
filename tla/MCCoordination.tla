--------------------------- MODULE MCCoordination ---------------------------
(***************************************************************************)
(* One source and one dependent.                                           *)
(***************************************************************************)
EXTENDS Coordination

CONSTANTS b, c

OneDependent == <<c>>
=============================================================================
