-------------------------- MODULE MCProcessManager --------------------------
(***************************************************************************)
(* Small task trees for TLC: a root and two or three children.             *)
(***************************************************************************)
EXTENDS ProcessManager

CONSTANTS root, w1, w2, w3

TwoChildren == {w1, w2}
ThreeChildren == {w1, w2, w3}

\* w2 consumes what w1 produces.
ChainOfTwo == [p \in {w1, w2} |-> IF p = w2 THEN {w1} ELSE {}]
NoEdges == [p \in {w1, w2} |-> {}]
NoEdgesOfThree == [p \in {w1, w2, w3} |-> {}]

OwnSessions == [p \in {w1, w2} |-> p]
OneSession == [p \in {w1, w2} |-> w1]
OwnSessionsOfThree == [p \in {w1, w2, w3} |-> p]

\* Two files of one directory and the wildcard over them.
Files == {"fs:one", "fs:two", "fs:*"}
FileOverlap ==
  {<<r, s>> \in Files \X Files : r = s \/ "fs:*" \in {r, s}}

SameFile == [p \in {w1, w2} |-> {"fs:one"}]
OwnFiles == [p \in {w1, w2} |-> IF p = w1 THEN {"fs:one"} ELSE {"fs:two"}]
Wildcards == [p \in {w1, w2, w3} |->
                CASE p = w1 -> {"fs:one"} [] p = w2 -> {"fs:two"} [] OTHER -> {"fs:*"}]

\* Who may ask the user, and how often.
NoQuestions == [p \in {w1, w2} |-> 0]
NoQuestionsOfThree == [p \in {w1, w2, w3} |-> 0]
OneQuestion == [p \in {w1, w2} |-> IF p = w1 THEN 1 ELSE 0]
OneQuestionEach == [p \in {w1, w2} |-> 1]

AllExclusive == [p \in {w1, w2} |-> "exclusive"]
WildcardReader == [p \in {w1, w2, w3} |-> IF p = w3 THEN "shared" ELSE "exclusive"]
=============================================================================
