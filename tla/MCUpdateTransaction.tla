------------------------ MODULE MCUpdateTransaction ------------------------
(***************************************************************************)
(* A small installation for TLC: the second release keeps the data format  *)
(* of the first, the third changes it.                                     *)
(***************************************************************************)
EXTENDS UpdateTransaction, TLC

CONSTANTS u1, u2, h1, h2

OneUpdater == {u1}
TwoUpdaters == {u1, u2}
OneHost == {h1}
TwoHosts == {h1, h2}
Formats == [v \in 1 .. MaxVersion |-> IF v = MaxVersion THEN 2 ELSE 1]
=============================================================================
