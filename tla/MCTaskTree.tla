----------------------------- MODULE MCTaskTree -----------------------------
(***************************************************************************)
(* Instances of TaskTree for TLC: a supervisor, two workers that may be    *)
(* delegated one by one or as a graph, and a reviewer.                     *)
(***************************************************************************)
EXTENDS TaskTree

CONSTANTS a, w, v, x

Worked(who) == [c \in who |-> IF c = x THEN "verification" ELSE "work"]
Workers == Worked({w, v})
WorkersAndReviewer == Worked({w, v, x})

\* One worker waits for the other, which cannot work beside the reviewer.
Order(who) == [c \in who |-> IF c = v THEN {w} ELSE {}]
Chain == Order({w, v})
ChainAndReviewer == Order({w, v, x})
Independent == [c \in {w, v} |-> {}]
AllTogether == SUBSET {w, v}
NotWBesideX == {together \in SUBSET {w, v, x} : ~({w, x} \subseteq together)}

PairGraph == {<<w, v>>}
SingleGraph == {<<w>>}

Amount(calls, tokens) ==
  [r \in {"provider_calls", "output_tokens"} |->
     IF r = "provider_calls" THEN calls ELSE tokens]

\* Limits: a work pool of four calls and two tokens, or of two and one.
Wide == Amount(5, 3)
Narrow == Amount(3, 2)
Single == Amount(1, 1)
Shares == [purpose \in {"work", "verification"} |-> Single]
Defaults == [c \in {w, v} |-> Amount(0, 0)]
TwoCallsForOne == [c \in {w, v, x} |-> Amount(IF c = w THEN 2 ELSE 0, 0)]
=============================================================================
