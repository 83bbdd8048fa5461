----------------------------- MODULE MCPublish -----------------------------
(***************************************************************************)
(* Two hosts, one with a client and the worker that drives its runs, one   *)
(* with a client that interferes.                                          *)
(***************************************************************************)
EXTENDS Publish

CONSTANTS c1, c2, h1, h2

TwoClients == {c1, c2}
TwoHosts == {h1, h2}
OwnHosts == [c \in TwoClients |-> IF c = c1 THEN h1 ELSE h2]
=============================================================================
