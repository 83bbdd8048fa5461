-------------------------- MODULE TaskBudget_proofs --------------------------
(***************************************************************************)
(* What the operations of the budget ledger do to what is promised and to  *)
(* what is available.  Both are sums over the children's leases: the first *)
(* part is about sums over finite sets.  Induction is by a least set, or a *)
(* least number, that would be a counterexample.                           *)
(***************************************************************************)
EXTENDS TaskBudget, Sequences, FiniteSetTheorems, WellFoundedInduction, TLAPS

-----------------------------------------------------------------------------
(* Induction.                                                              *)

\* Some number of a set of numbers is the least.
LEMMA LeastNumber ==
  ASSUME NEW B, B \subseteq Nat, B # {}
  PROVE  \E n \in B : \A m \in B : n <= m
<1>1. PICK n \in B : \A m \in B : <<m, n>> \notin OpToRel(<, Nat)
  BY NatLessThanWellFounded, WFMin
<1>2. \A m \in B : ~(m < n)
  BY <1>1 DEF OpToRel
<1>. QED
  BY <1>2

\* What holds of a set if it holds of the set without any one of its elements
\* holds of every finite set.
LEMMA SubsetInduction ==
  ASSUME NEW S, IsFiniteSet(S), NEW Q,
         \A T \in SUBSET S : (\A x \in T : T \ {x} \in Q) => T \in Q
  PROVE  S \in Q
<1>. DEFINE B == {T \in SUBSET S : T \notin Q}
<1>. SUFFICES ASSUME S \notin Q PROVE FALSE
  OBVIOUS
<1>1. B # {} /\ B \subseteq FiniteSubsetsOf(S)
  BY FS_FiniteSubsetsOfFinite
<1>2. PICK T \in B : \A U \in B : <<U, T>> \notin StrictSubsetOrdering(S)
  BY <1>1, FS_StrictSubsetOrderingWellFounded, WFMin
<1>3. ASSUME NEW x \in T PROVE T \ {x} \in Q
  <2>1. <<T \ {x}, T>> \in StrictSubsetOrdering(S)
    BY <1>3 DEF StrictSubsetOrdering
  <2>. QED
    BY <1>2, <2>1
<1>. QED
  BY <1>3

-----------------------------------------------------------------------------
(* Sums over finite sets.                                                  *)

Pick(s) == CHOOSE x \in s : TRUE
Summing(g, f, S) ==
  g = [s \in SUBSET S |-> IF s = {} THEN 0 ELSE f[Pick(s)] + g[s \ {Pick(s)}]]
SumOf(f, S) == (CHOOSE g : Summing(g, f, S))[S]

LEMMA PickIn == ASSUME NEW s, s # {} PROVE Pick(s) \in s
BY DEF Pick

LEMMA SummingAt ==
  ASSUME NEW g, NEW f, NEW S, Summing(g, f, S), NEW s \in SUBSET S
  PROVE  g[s] = IF s = {} THEN 0 ELSE f[Pick(s)] + g[s \ {Pick(s)}]
BY Zenon DEF Summing

\* The order of summation depends on the set alone, so partial sums agree.
LEMMA SumsAgree ==
  ASSUME NEW g, NEW f, NEW S, Summing(g, f, S), NEW h, NEW e, NEW R, Summing(h, e, R),
         NEW T, IsFiniteSet(T), T \subseteq S, T \subseteq R, \A x \in T : f[x] = e[x]
  PROVE  g[T] = h[T]
<1>. DEFINE Q == {U \in SUBSET T : g[U] = h[U]}
<1>1. ASSUME NEW U \in SUBSET T, \A x \in U : U \ {x} \in Q PROVE U \in Q
  <2>1. g[U] = IF U = {} THEN 0 ELSE f[Pick(U)] + g[U \ {Pick(U)}]
    BY SummingAt
  <2>2. h[U] = IF U = {} THEN 0 ELSE e[Pick(U)] + h[U \ {Pick(U)}]
    BY SummingAt
  <2>3. CASE U = {}
    BY <2>1, <2>2, <2>3
  <2>4. CASE U # {}
    <3>1. Pick(U) \in U
      BY <2>4, PickIn
    <3>2. U \ {Pick(U)} \in Q /\ f[Pick(U)] = e[Pick(U)]
      BY <1>1, <3>1
    <3>. QED
      BY <2>1, <2>2, <2>4, <3>2
  <2>. QED
    BY <2>3, <2>4
<1>2. T \in Q
  <2>. HIDE DEF Q
  <2>. QED
    BY <1>1, SubsetInduction
<1>. QED
  BY <1>2

\* There is such a function: from those on smaller sets.
LEMMA SumsExist ==
  ASSUME NEW f, NEW S, IsFiniteSet(S)
  PROVE  \E g : Summing(g, f, S)
<1>. DEFINE Q == {T \in SUBSET S : \E g : Summing(g, f, T)}
<1>1. ASSUME NEW T \in SUBSET S, \A x \in T : T \ {x} \in Q PROVE T \in Q
  <2>. DEFINE G(U) == CHOOSE g : Summing(g, f, U)
              V(s) == IF s = {} THEN 0 ELSE f[Pick(s)] + G(s \ {Pick(s)})[s \ {Pick(s)}]
              g == [s \in SUBSET T |-> V(s)]
  <2>1. ASSUME NEW x \in T, NEW U \in SUBSET (T \ {x})
        PROVE  Summing(G(U), f, U)
    <3>1. PICK k : Summing(k, f, T \ {x})
      BY <1>1
    <3>. DEFINE l == [s \in SUBSET U |-> k[s]]
    <3>2. Summing(l, f, U)
      <4>1. ASSUME NEW s \in SUBSET U
            PROVE  k[s] = IF s = {} THEN 0 ELSE f[Pick(s)] + l[s \ {Pick(s)}]
        BY <3>1, SummingAt
      <4>. QED
        BY <4>1 DEF Summing
    <3>. HIDE DEF l
    <3>. QED
      BY <3>2
  <2>2. ASSUME NEW s \in SUBSET T, s # {}, NEW W, W = s \ {Pick(s)}
        PROVE  G(W)[W] = g[W]
    <3>1. Pick(s) \in s
      BY <2>2, PickIn
    <3>2. Summing(G(W), f, W)
      BY <2>1, <2>2, <3>1
    <3>3. W \in SUBSET T
      BY <2>2
    <3>4. g[W] = V(W)
      BY <3>3
    <3>5. G(W)[W] = IF W = {} THEN 0 ELSE f[Pick(W)] + G(W)[W \ {Pick(W)}]
      <4>. HIDE DEF G
      <4>. QED
        BY <3>2, SummingAt
    <3>6. CASE W = {}
      BY <3>4, <3>5, <3>6
    <3>7. CASE W # {}
      <4>. DEFINE X == W \ {Pick(W)}
      <4>1. Pick(W) \in W
        BY <3>7, PickIn
      <4>2. Summing(G(X), f, X)
        <5>1. Pick(W) \in T /\ X \in SUBSET (T \ {Pick(W)})
          BY <3>3, <4>1
        <5>. QED
          BY <5>1, <2>1
      <4>3. IsFiniteSet(X)
        BY <3>3, FS_Subset
      <4>4. G(W)[X] = G(X)[X]
        <5>. HIDE DEF G
        <5>1. X \subseteq W
          OBVIOUS
        <5>. HIDE DEF X
        <5>. QED
          BY <3>2, <4>2, <4>3, <5>1, SumsAgree
      <4>. QED
        BY <3>4, <3>5, <3>7, <4>4
    <3>. QED
      BY <3>6, <3>7
  <2>3. Summing(g, f, T)
    <3>1. ASSUME NEW s \in SUBSET T
          PROVE  V(s) = IF s = {} THEN 0 ELSE f[Pick(s)] + g[s \ {Pick(s)}]
      <4>. HIDE DEF g, G
      <4>. QED
        BY <2>2
    <3>2. g = [s \in SUBSET T |-> IF s = {} THEN 0 ELSE f[Pick(s)] + g[s \ {Pick(s)}]]
      <4>1. g = [s \in SUBSET T |-> V(s)]
        OBVIOUS
      <4>. HIDE DEF g, V
      <4>. QED
        BY <3>1, <4>1
    <3>. QED
      BY <3>2, Zenon DEF Summing
  <2>. HIDE DEF g
  <2>. QED
    BY <2>3
<1>2. S \in Q
  <2>. HIDE DEF Q
  <2>. QED
    BY <1>1, SubsetInduction
<1>. QED
  BY <1>2

\* What a sum is, element by element.
LEMMA SumUnfolds ==
  ASSUME NEW f, NEW S, IsFiniteSet(S)
  PROVE  SumOf(f, S) = IF S = {} THEN 0 ELSE f[Pick(S)] + SumOf(f, S \ {Pick(S)})
<1>. DEFINE g == CHOOSE k : Summing(k, f, S)
            R == S \ {Pick(S)}
            h == CHOOSE k : Summing(k, f, R)
<1>1. IsFiniteSet(R)
  BY FS_Subset
<1>2. Summing(g, f, S) /\ Summing(h, f, R)
  BY <1>1, SumsExist
<1>3. SumOf(f, S) = g[S] /\ SumOf(f, R) = h[R]
  BY DEF SumOf
<1>4. g[S] = IF S = {} THEN 0 ELSE f[Pick(S)] + g[R]
  <2>. HIDE DEF g
  <2>. QED
    BY <1>2, SummingAt
<1>5. g[R] = h[R]
  <2>. R \subseteq S
    OBVIOUS
  <2>. HIDE DEF g, h, R
  <2>. QED
    BY <1>1, <1>2, SumsAgree
<1>. QED
  BY <1>3, <1>4, <1>5

\* A sum of natural numbers is one, and grows with its elements.
LEMMA SumIsNatural ==
  ASSUME NEW S, IsFiniteSet(S), NEW f, \A x \in S : f[x] \in Nat
  PROVE  SumOf(f, S) \in Nat
<1>. DEFINE Q == {T \in SUBSET S : SumOf(f, T) \in Nat}
<1>1. ASSUME NEW T \in SUBSET S, \A x \in T : T \ {x} \in Q PROVE T \in Q
  <2>1. IsFiniteSet(T)
    BY FS_Subset
  <2>2. SumOf(f, T) = IF T = {} THEN 0 ELSE f[Pick(T)] + SumOf(f, T \ {Pick(T)})
    BY <2>1, SumUnfolds
  <2>3. T # {} => Pick(T) \in T
    BY PickIn
  <2>. QED
    BY <1>1, <2>2, <2>3
<1>2. S \in Q
  <2>. HIDE DEF Q
  <2>. QED
    BY <1>1, SubsetInduction
<1>. QED
  BY <1>2

LEMMA SumGrows ==
  ASSUME NEW S, IsFiniteSet(S), NEW f, NEW e,
         \A x \in S : f[x] \in Nat /\ e[x] \in Nat /\ f[x] <= e[x]
  PROVE  SumOf(f, S) <= SumOf(e, S)
<1>. DEFINE Q == {T \in SUBSET S : SumOf(f, T) <= SumOf(e, T)}
<1>1. ASSUME NEW T \in SUBSET S, \A x \in T : T \ {x} \in Q PROVE T \in Q
  <2>1. IsFiniteSet(T)
    BY FS_Subset
  <2>2. SumOf(f, T) = IF T = {} THEN 0 ELSE f[Pick(T)] + SumOf(f, T \ {Pick(T)})
    BY <2>1, SumUnfolds
  <2>3. SumOf(e, T) = IF T = {} THEN 0 ELSE e[Pick(T)] + SumOf(e, T \ {Pick(T)})
    BY <2>1, SumUnfolds
  <2>4. CASE T = {}
    BY <2>2, <2>3, <2>4
  <2>5. CASE T # {}
    <3>. DEFINE R == T \ {Pick(T)}
    <3>1. Pick(T) \in T
      BY <2>5, PickIn
    <3>2. IsFiniteSet(R) /\ R \subseteq S
      BY FS_Subset
    <3>3. SumOf(f, R) \in Nat /\ SumOf(e, R) \in Nat
      <4>. HIDE DEF R
      <4>. QED
        BY <3>2, SumIsNatural
    <3>4. SumOf(f, R) <= SumOf(e, R)
      BY <1>1, <3>1
    <3>5. f[Pick(T)] \in Nat /\ e[Pick(T)] \in Nat /\ f[Pick(T)] <= e[Pick(T)]
      BY <3>1
    <3>. QED
      BY <2>2, <2>3, <2>5, <3>3, <3>4, <3>5
  <2>. QED
    BY <2>4, <2>5
<1>2. S \in Q
  <2>. HIDE DEF Q
  <2>. QED
    BY <1>1, SubsetInduction
<1>. QED
  BY <1>2

\* Any element may be summed first.
LEMMA SumWithout ==
  ASSUME NEW S, IsFiniteSet(S), NEW f, \A x \in S : f[x] \in Nat, NEW y \in S
  PROVE  SumOf(f, S) = f[y] + SumOf(f, S \ {y})
<1>. DEFINE Q == {T \in SUBSET S : \A x \in T : SumOf(f, T) = f[x] + SumOf(f, T \ {x})}
<1>1. ASSUME NEW T \in SUBSET S, \A x \in T : T \ {x} \in Q, NEW x \in T
      PROVE  SumOf(f, T) = f[x] + SumOf(f, T \ {x})
  <2>. DEFINE p == Pick(T)
              R == T \ {x, p}
  <2>1. IsFiniteSet(T) /\ IsFiniteSet(T \ {x}) /\ IsFiniteSet(R)
    BY FS_Subset
  <2>2. p \in T
    BY PickIn
  <2>3. SumOf(f, T) = f[p] + SumOf(f, T \ {p})
    BY <2>1, SumUnfolds
  <2>4. CASE x = p
    BY <2>3, <2>4
  <2>5. CASE x # p
    <3>1. (T \ {p}) \ {x} = R /\ (T \ {x}) \ {p} = R
      OBVIOUS
    <3>2. SumOf(f, T \ {p}) = f[x] + SumOf(f, R)
      BY <1>1, <2>2, <2>5, <3>1
    <3>3. SumOf(f, T \ {x}) = f[p] + SumOf(f, R)
      BY <1>1, <2>2, <2>5, <3>1
    <3>4. SumOf(f, R) \in Nat
      <4>. R \subseteq S
        OBVIOUS
      <4>. HIDE DEF R
      <4>. QED
        BY <2>1, SumIsNatural
    <3>5. f[p] \in Nat /\ f[x] \in Nat
      BY <2>2
    <3>. HIDE DEF R, p
    <3>. QED
      BY <2>3, <3>2, <3>3, <3>4, <3>5
  <2>. QED
    BY <2>4, <2>5
<1>2. S \in Q
  <2>1. ASSUME NEW T \in SUBSET S, \A x \in T : T \ {x} \in Q PROVE T \in Q
    BY <1>1, <2>1
  <2>. HIDE DEF Q
  <2>. QED
    BY <2>1, SubsetInduction
<1>. QED
  BY <1>2

-----------------------------------------------------------------------------
(* What is promised.                                                       *)

LEMMA MaxOf ==
  ASSUME NEW m \in Int, NEW n \in Int
  PROVE  Max({m, n}) = IF m >= n THEN m ELSE n
<1>. DEFINE most == IF m >= n THEN m ELSE n
<1>1. most \in {m, n} /\ \A y \in {m, n} : most >= y
  OBVIOUS
<1>2. ASSUME NEW x \in {m, n}, \A y \in {m, n} : x >= y PROVE x = most
  BY <1>2
<1>. QED
  BY <1>1, <1>2 DEF Max

LEMMA MinOf ==
  ASSUME NEW m \in Int, NEW n \in Int
  PROVE  Min({m, n}) = IF m <= n THEN m ELSE n
<1>. DEFINE least == IF m <= n THEN m ELSE n
<1>1. least \in {m, n} /\ \A y \in {m, n} : least <= y
  OBVIOUS
<1>2. ASSUME NEW x \in {m, n}, \A y \in {m, n} : x <= y PROVE x = least
  BY <1>2
<1>. QED
  BY <1>1, <1>2 DEF Min

\* A lease is active, given back, or was never given.
LEMMA LeaseKinds ==
  ASSUME NEW l \in Ledger, NEW p \in Proc
  PROVE  /\ l.lease[p].state \in {"active", "released", "none"}
         /\ l.lease[p].state # "none" => l.lease[p] \in Lease
         /\ l.lease[p] \in Lease => l.lease[p].state # "none"
BY DEF Ledger, Lease, NoLease

LEMMA OutstandingIs ==
  ASSUME NEW l \in Ledger, NEW r \in Resource, NEW c \in Child
  PROVE  /\ Outstanding(l, r, c) \in Nat
         /\ l.lease[c].state = "active" =>
              /\ l.lease[c].reserved[r] \in Nat /\ l.lease[c].used[r] \in Nat
              /\ Outstanding(l, r, c) = IF l.lease[c].used[r] <= l.lease[c].reserved[r]
                                          THEN l.lease[c].reserved[r] - l.lease[c].used[r]
                                          ELSE 0
         /\ l.lease[c].state # "active" => Outstanding(l, r, c) = 0
<1>1. CASE l.lease[c].state = "active"
  <2>1. l.lease[c] \in Lease
    BY <1>1, LeaseKinds DEF Proc
  <2>2. l.lease[c].reserved[r] \in Nat /\ l.lease[c].used[r] \in Nat
    BY <2>1 DEF Lease
  <2>3. PICK m \in Nat, n \in Nat : m = l.lease[c].reserved[r] /\ n = l.lease[c].used[r]
    BY <2>2
  <2>4. Outstanding(l, r, c) = Max({0, m - n})
    BY <1>1, <2>3 DEF Outstanding
  <2>5. Max({0, m - n}) = IF 0 >= m - n THEN 0 ELSE m - n
    BY <2>3, MaxOf
  <2>. QED
    BY <1>1, <2>3, <2>4, <2>5
<1>2. CASE l.lease[c].state # "active"
  BY <1>2 DEF Outstanding
<1>. QED
  BY <1>1, <1>2

Rests(l, r) == [c \in Child |-> Outstanding(l, r, c)]
Holders(purpose, p) == {c \in Child \ {p} : PurposeOf[c] = purpose}

LEMMA HoldersAreFinite ==
  ASSUME NEW purpose, NEW p
  PROVE  IsFiniteSet(Holders(purpose, p)) /\ Holders(purpose, p) \subseteq Child
BY ProcAssumption, FS_Subset DEF Holders

LEMMA PromisedIsSum ==
  ASSUME NEW l, NEW r, NEW purpose, NEW p
  PROVE  Promised(l, r, purpose, p) = SumOf(Rests(l, r), Holders(purpose, p))
<1>. DEFINE S == Holders(purpose, p)
            f == Rests(l, r)
            Iter(g) == g = [s \in SUBSET S |->
                              IF s = {} THEN 0
                                ELSE Outstanding(l, r, Pick(s)) + g[s \ {Pick(s)}]]
            it == CHOOSE g : Iter(g)
            sum == CHOOSE g : Summing(g, f, S)
<1>1. Promised(l, r, purpose, p) = it[S]
  BY SMT DEF Promised, MapThenSumSet, MapThenFoldSet, Pick, Holders
<1>2. ASSUME NEW g PROVE Iter(g) <=> Summing(g, f, S)
  <2>1. ASSUME NEW s \in SUBSET S, s # {} PROVE f[Pick(s)] = Outstanding(l, r, Pick(s))
    BY <2>1, PickIn DEF Rests, Holders
  <2>. HIDE DEF f
  <2>. QED
    BY <2>1 DEF Summing
<1>3. Summing(sum, f, S)
  BY HoldersAreFinite, SumsExist
<1>4. Summing(it, f, S)
  <2>. HIDE DEF Iter, S, f
  <2>. QED
    BY <1>2, <1>3
<1>5. it[S] = sum[S]
  <2>1. IsFiniteSet(S)
    BY HoldersAreFinite
  <2>. HIDE DEF it, sum, f, S
  <2>. QED
    BY <1>3, <1>4, <2>1, SumsAgree
<1>. QED
  BY <1>1, <1>5 DEF SumOf

LEMMA PromisedIsNatural ==
  ASSUME NEW l \in Ledger, NEW r \in Resource, NEW purpose, NEW p
  PROVE  Promised(l, r, purpose, p) \in Nat
<1>1. \A c \in Holders(purpose, p) : Rests(l, r)[c] \in Nat
  BY OutstandingIs DEF Rests, Holders
<1>. QED
  BY <1>1, HoldersAreFinite, SumIsNatural, PromisedIsSum

LEMMA NothingPromised ==
  ASSUME NEW l, NEW r, NEW purpose, NEW p, \A c \in Child : Outstanding(l, r, c) = 0
  PROVE  Promised(l, r, purpose, p) = 0
<1>. DEFINE S == Holders(purpose, p)
            f == Rests(l, r)
            Q == {T \in SUBSET S : SumOf(f, T) = 0}
<1>1. \A x \in S : f[x] = 0
  BY DEF Holders, Rests
<1>2. IsFiniteSet(S)
  BY HoldersAreFinite
<1>. HIDE DEF S, f
<1>3. ASSUME NEW T \in SUBSET S, \A x \in T : T \ {x} \in Q PROVE T \in Q
  <2>1. IsFiniteSet(T)
    BY <1>2, FS_Subset
  <2>2. SumOf(f, T) = IF T = {} THEN 0 ELSE f[Pick(T)] + SumOf(f, T \ {Pick(T)})
    BY <2>1, SumUnfolds
  <2>3. T # {} => Pick(T) \in T
    BY PickIn
  <2>. QED
    BY <1>1, <1>3, <2>2, <2>3
<1>4. S \in Q
  <2>. HIDE DEF Q
  <2>. QED
    BY <1>2, <1>3, SubsetInduction
<1>. QED
  BY <1>4, PromisedIsSum DEF S, f

\* Less is promised if each child has less to come ...
LEMMA PromisedFalls ==
  ASSUME NEW l \in Ledger, NEW k \in Ledger, NEW r \in Resource, NEW purpose, NEW p,
         \A c \in Child \ {p} : Outstanding(k, r, c) <= Outstanding(l, r, c)
  PROVE  Promised(k, r, purpose, p) <= Promised(l, r, purpose, p)
<1>1. \A c \in Holders(purpose, p) :
        Rests(l, r)[c] \in Nat /\ Rests(k, r)[c] \in Nat /\ Rests(k, r)[c] <= Rests(l, r)[c]
  BY OutstandingIs DEF Rests, Holders
<1>. QED
  BY <1>1, HoldersAreFinite, SumGrows, PromisedIsSum

\* ... a child's part of it is its outstanding rest ...
LEMMA PromisedTo ==
  ASSUME NEW l \in Ledger, NEW r \in Resource, NEW c \in Child
  PROVE  Promised(l, r, PurposeOf[c], Root) =
           Outstanding(l, r, c) + Promised(l, r, PurposeOf[c], c)
<1>. DEFINE S == Holders(PurposeOf[c], Root)
<1>1. c \in S /\ S \ {c} = Holders(PurposeOf[c], c)
  BY ProcAssumption DEF Holders
<1>2. \A d \in S : Rests(l, r)[d] \in Nat
  BY OutstandingIs DEF Rests, Holders
<1>3. SumOf(Rests(l, r), S) = Rests(l, r)[c] + SumOf(Rests(l, r), S \ {c})
  <2>1. IsFiniteSet(S)
    BY HoldersAreFinite
  <2>. HIDE DEF S
  <2>. QED
    BY <1>1, <1>2, <2>1, SumWithout
<1>4. Rests(l, r)[c] = Outstanding(l, r, c)
  BY DEF Rests
<1>. QED
  BY <1>1, <1>3, <1>4, PromisedIsSum

\* ... so it moves with the one child whose rest grows.
LEMMA PromisedMoves ==
  ASSUME NEW l \in Ledger, NEW k \in Ledger, NEW r \in Resource, NEW c \in Child,
         \A d \in Child \ {c} : Outstanding(k, r, d) <= Outstanding(l, r, d)
  PROVE  /\ Promised(k, r, PurposeOf[c], Root) - Outstanding(k, r, c)
              <= Promised(l, r, PurposeOf[c], Root) - Outstanding(l, r, c)
         /\ \A purpose \in Purpose \ {PurposeOf[c]} :
              Promised(k, r, purpose, Root) <= Promised(l, r, purpose, Root)
<1>1. Promised(k, r, PurposeOf[c], c) <= Promised(l, r, PurposeOf[c], c)
  BY PromisedFalls
<1>2. Promised(k, r, PurposeOf[c], c) \in Nat /\ Promised(l, r, PurposeOf[c], c) \in Nat
  BY PromisedIsNatural
<1>3. Outstanding(k, r, c) \in Nat /\ Outstanding(l, r, c) \in Nat
  BY OutstandingIs
<1>4. ASSUME NEW purpose \in Purpose \ {PurposeOf[c]}
      PROVE  Promised(k, r, purpose, Root) <= Promised(l, r, purpose, Root)
  <2>1. \A d \in Holders(purpose, Root) :
          Rests(l, r)[d] \in Nat /\ Rests(k, r)[d] \in Nat /\ Rests(k, r)[d] <= Rests(l, r)[d]
    BY OutstandingIs DEF Rests, Holders
  <2>. QED
    BY <2>1, HoldersAreFinite, SumGrows, PromisedIsSum
<1>5. Promised(k, r, PurposeOf[c], Root) =
        Outstanding(k, r, c) + Promised(k, r, PurposeOf[c], c)
  BY PromisedTo
<1>6. Promised(l, r, PurposeOf[c], Root) =
        Outstanding(l, r, c) + Promised(l, r, PurposeOf[c], c)
  BY PromisedTo
<1>. QED
  BY <1>1, <1>2, <1>3, <1>4, <1>5, <1>6

-----------------------------------------------------------------------------
(* What is committed and what is available.                                *)

Committed(l, r, purpose) == l.spent[purpose][r] + Promised(l, r, purpose, Root)
Honoured(l) == \A r \in Resource, purpose \in Purpose : Committed(l, r, purpose) <= Ceiling(r, purpose)

LEMMA CeilingIs ==
  ASSUME NEW r \in Resource
  PROVE  /\ Ceiling(r, "verification") = Reserve[r]
         /\ Ceiling(r, "work") = IF Limit[r] > Reserve[r] THEN Limit[r] - Reserve[r] ELSE 1
         /\ \A purpose \in Purpose : Ceiling(r, purpose) \in Nat \ {0}
         /\ Limit[r] \in Nat /\ Reserve[r] \in Nat
<1>1. PICK m \in Nat \ {0}, n \in Nat \ {0} : m = Limit[r] /\ n = Reserve[r]
  BY LimitAssumption
<1>2. Max({1, m - n}) = IF 1 >= m - n THEN 1 ELSE m - n
  BY MaxOf
<1>3. Ceiling(r, "verification") = n /\ Ceiling(r, "work") = IF m > n THEN m - n ELSE 1
  BY <1>1, <1>2 DEF Ceiling
<1>. QED
  BY <1>1, <1>3 DEF Purpose

LEMMA FloorIs ==
  ASSUME NEW l \in Ledger, NEW r \in Resource, NEW purpose \in Purpose
  PROVE  /\ Floor(l, r, purpose) \in Nat
         /\ \A k \in Ledger :
              (k.lease[Root].state = "active" => l.lease[Root].state = "active")
              => Floor(k, r, purpose) <= Floor(l, r, purpose)
<1>. DEFINE n == Min({RootFloor, Ceiling(r, purpose) - 1})
<1>1. n \in Nat
  <2>1. PICK i \in Nat : i = Ceiling(r, purpose) - 1
    BY CeilingIs
  <2>2. PICK j \in Nat : j = RootFloor
    BY LimitAssumption
  <2>3. Min({j, i}) \in Nat
    BY MinOf
  <2>. QED
    BY <2>1, <2>2, <2>3
<1>2. \A k \in Ledger :
        Floor(k, r, purpose) =
          IF r = "provider_calls" /\ purpose = "work" /\ k.lease[Root].state = "active"
            THEN n ELSE 0
  BY Zenon DEF Floor
<1>. HIDE DEF n
<1>. QED
  BY <1>1, <1>2

LEMMA SpentIs ==
  ASSUME NEW l \in Ledger, NEW r \in Resource, NEW purpose \in Purpose
  PROVE  /\ l.spent[purpose][r] \in Nat
         /\ Committed(l, r, purpose) \in Nat
         /\ Committed(l, r, purpose) = l.spent[purpose][r] + Promised(l, r, purpose, Root)
BY PromisedIsNatural DEF Ledger, Committed

LEMMA AvailableIs ==
  ASSUME NEW l \in Ledger, NEW r \in Resource, NEW purpose \in Purpose
  PROVE  /\ Available(l, r, purpose) \in Nat
         /\ LET room == Ceiling(r, purpose) - Committed(l, r, purpose) - Floor(l, r, purpose)
            IN  Available(l, r, purpose) = IF room > 0 THEN room ELSE 0
<1>1. PICK n \in Nat : n = Ceiling(r, purpose)
  BY CeilingIs
<1>2. PICK f \in Nat : f = Floor(l, r, purpose)
  BY FloorIs
<1>3. PICK s \in Nat : s = l.spent[purpose][r]
  BY SpentIs
<1>4. PICK m \in Nat : m = Promised(l, r, purpose, Root)
  BY PromisedIsNatural
<1>5. Max({0, n - s - m - f}) = IF 0 >= n - s - m - f THEN 0 ELSE n - s - m - f
  BY MaxOf
<1>6. Available(l, r, purpose) = Max({0, n - s - m - f})
  BY <1>1, <1>2, <1>3, <1>4 DEF Available
<1>7. Committed(l, r, purpose) = s + m
  BY <1>3, <1>4 DEF Committed
<1>. QED
  BY <1>1, <1>2, <1>5, <1>6, <1>7

\* A ledger eases another one: no pool is committed to more.
Eases(k, l) ==
  /\ \A r \in Resource, purpose \in Purpose : Committed(k, r, purpose) <= Committed(l, r, purpose)
  /\ k.lease[Root].state = "active" => l.lease[Root].state = "active"

LEMMA Easing ==
  ASSUME NEW l \in Ledger, NEW k \in Ledger, Eases(k, l)
  PROVE  /\ Honoured(l) => Honoured(k)
         /\ \A r \in Resource, purpose \in Purpose :
              Available(l, r, purpose) <= Available(k, r, purpose)
<1>. SUFFICES ASSUME NEW r \in Resource, NEW purpose \in Purpose
              PROVE  /\ Committed(l, r, purpose) <= Ceiling(r, purpose)
                          => Committed(k, r, purpose) <= Ceiling(r, purpose)
                     /\ Available(l, r, purpose) <= Available(k, r, purpose)
  BY DEF Honoured
<1>1. Committed(k, r, purpose) <= Committed(l, r, purpose)
  BY DEF Eases
<1>2. Committed(k, r, purpose) \in Nat /\ Committed(l, r, purpose) \in Nat
  BY SpentIs
<1>3. Floor(k, r, purpose) <= Floor(l, r, purpose)
  BY FloorIs DEF Eases
<1>4. Floor(k, r, purpose) \in Nat /\ Floor(l, r, purpose) \in Nat /\ Ceiling(r, purpose) \in Nat
  BY FloorIs, CeilingIs
<1>5. Available(l, r, purpose) =
        IF Ceiling(r, purpose) - Committed(l, r, purpose) - Floor(l, r, purpose) > 0
          THEN Ceiling(r, purpose) - Committed(l, r, purpose) - Floor(l, r, purpose) ELSE 0
  BY AvailableIs
<1>6. Available(k, r, purpose) =
        IF Ceiling(r, purpose) - Committed(k, r, purpose) - Floor(k, r, purpose) > 0
          THEN Ceiling(r, purpose) - Committed(k, r, purpose) - Floor(k, r, purpose) ELSE 0
  BY AvailableIs
<1>. QED
  BY <1>1, <1>2, <1>3, <1>4, <1>5, <1>6

\* The same spent and no more outstanding.
LEMMA Relieving ==
  ASSUME NEW l \in Ledger, NEW k \in Ledger, k.spent = l.spent,
         \A r \in Resource, c \in Child : Outstanding(k, r, c) <= Outstanding(l, r, c),
         k.lease[Root].state = "active" => l.lease[Root].state = "active"
  PROVE  Eases(k, l)
<1>1. ASSUME NEW r \in Resource, NEW purpose \in Purpose
      PROVE  Committed(k, r, purpose) <= Committed(l, r, purpose)
  <2>1. Promised(k, r, purpose, Root) <= Promised(l, r, purpose, Root)
    BY PromisedFalls
  <2>2. Promised(k, r, purpose, Root) \in Nat /\ Promised(l, r, purpose, Root) \in Nat
    BY PromisedIsNatural
  <2>3. l.spent[purpose][r] \in Nat
    BY SpentIs
  <2>. QED
    BY <2>1, <2>2, <2>3 DEF Committed
<1>. QED
  BY <1>1 DEF Eases

-----------------------------------------------------------------------------
(* The operations.                                                         *)

\* A later ledger: nothing spent, given or given back is forgotten, and what
\* has changed has a new revision.
Later(k, l) ==
  /\ l.revision <= k.revision
  /\ \A purpose \in Purpose, r \in Resource : l.spent[purpose][r] <= k.spent[purpose][r]
  /\ \A p \in Proc : /\ l.lease[p].state = "released" => k.lease[p].state = "released"
                     /\ l.lease[p].state # "none" => k.lease[p].state # "none"
  /\ k.revision = l.revision =>
       k.spent = l.spent /\ \A p \in Proc : k.lease[p].state = l.lease[p].state

LEMMA LaterIsTransitive ==
  ASSUME NEW l \in Ledger, NEW k \in Ledger, NEW j \in Ledger, Later(k, l), Later(j, k)
  PROVE  Later(j, l)
<1>1. l.revision \in Nat /\ k.revision \in Nat /\ j.revision \in Nat
  BY DEF Ledger
<1>2. \A purpose \in Purpose, r \in Resource : l.spent[purpose][r] <= j.spent[purpose][r]
  <2>. SUFFICES ASSUME NEW purpose \in Purpose, NEW r \in Resource
                PROVE  l.spent[purpose][r] <= j.spent[purpose][r]
    OBVIOUS
  <2>1. l.spent[purpose][r] \in Nat /\ k.spent[purpose][r] \in Nat /\ j.spent[purpose][r] \in Nat
    BY SpentIs
  <2>2. l.spent[purpose][r] <= k.spent[purpose][r] /\ k.spent[purpose][r] <= j.spent[purpose][r]
    BY DEF Later
  <2>. QED
    BY <2>1, <2>2
<1>3. l.revision <= j.revision /\ (j.revision = l.revision => j.revision = k.revision /\ k.revision = l.revision)
  BY <1>1 DEF Later
<1>. QED
  BY <1>2, <1>3 DEF Later

LEMMA LaterThanItself ==
  ASSUME NEW l \in Ledger, NEW k \in Ledger, k.revision = l.revision, k.spent = l.spent,
         \A p \in Proc : k.lease[p].state = l.lease[p].state
  PROVE  Later(k, l)
<1>1. l.revision \in Nat
  BY DEF Ledger
<1>. QED
  BY <1>1, SpentIs DEF Later

LEMMA LedgerFields ==
  ASSUME NEW l \in Ledger
  PROVE  /\ l.revision \in Nat /\ l.agents \in Nat /\ l.overdue \in BOOLEAN
         /\ l.spent \in [Purpose -> [Resource -> Nat]]
         /\ l.lease \in [Proc -> Lease \cup {NoLease}]
BY DEF Ledger

WithSlots(l, n, i) == [l EXCEPT !.agents = n, !.revision = i]
WithLeases(l, g, i) == [l EXCEPT !.lease = g, !.revision = i]

LEMMA SlotsChanged ==
  ASSUME NEW l \in Ledger, NEW i \in Nat, NEW n \in Nat,
         NEW k, k = WithSlots(l, n, i)
  PROVE  /\ k \in Ledger /\ k.agents = n /\ k.revision = i
         /\ k.spent = l.spent /\ k.lease = l.lease /\ k.overdue = l.overdue
<1>1. k \in Ledger
  BY DEF Ledger, WithSlots, WithLeases
<1>2. k.agents = n /\ k.revision = i /\ k.spent = l.spent /\ k.lease = l.lease
      /\ k.overdue = l.overdue
  BY SMT DEF Ledger, WithSlots, WithLeases
<1>. QED
  BY <1>1, <1>2

LEMMA LeasesChanged ==
  ASSUME NEW l \in Ledger, NEW i \in Nat, NEW g \in [Proc -> Lease \cup {NoLease}],
         NEW k, k = WithLeases(l, g, i)
  PROVE  /\ k \in Ledger /\ k.lease = g /\ k.revision = i
         /\ k.spent = l.spent /\ k.agents = l.agents /\ k.overdue = l.overdue
<1>1. k \in Ledger
  BY DEF Ledger, WithSlots, WithLeases
<1>2. k.lease = g /\ k.revision = i /\ k.spent = l.spent /\ k.agents = l.agents
      /\ k.overdue = l.overdue
  BY SMT DEF Ledger, WithSlots, WithLeases
<1>. QED
  BY <1>1, <1>2

\* A ledger with the same spent and leases.
LEMMA SameLeases ==
  ASSUME NEW l \in Ledger, NEW k \in Ledger, k.spent = l.spent, k.lease = l.lease
  PROVE  Eases(k, l) /\ Eases(l, k) /\ (l.revision <= k.revision => Later(k, l))
<1>1. \A r \in Resource, c \in Child : Outstanding(k, r, c) = Outstanding(l, r, c)
  BY DEF Outstanding
<1>2. \A r \in Resource, c \in Child :
        /\ Outstanding(k, r, c) <= Outstanding(l, r, c)
        /\ Outstanding(l, r, c) <= Outstanding(k, r, c)
  BY <1>1, OutstandingIs
<1>3. Eases(k, l)
  BY <1>2, Relieving
<1>4. Eases(l, k)
  BY <1>2, Relieving
<1>5. \A purpose \in Purpose, r \in Resource : l.spent[purpose][r] <= k.spent[purpose][r]
  BY SpentIs
<1>. QED
  BY <1>3, <1>4, <1>5 DEF Later

\* Taking a slot, and giving it back.
LEMMA Seating ==
  ASSUME NEW l \in Ledger, NEW k, k = WithAgent(l)
  PROVE  /\ k \in Ledger /\ k.agents = l.agents + 1 /\ k.revision = l.revision + 1
         /\ k.spent = l.spent /\ k.lease = l.lease /\ k.overdue = l.overdue
         /\ Later(k, l) /\ Eases(k, l) /\ Eases(l, k)
<1>1. PICK i \in Nat : i = l.revision + 1
  BY LedgerFields
<1>2. PICK n \in Nat : n = l.agents + 1
  BY LedgerFields
<1>3. k = WithSlots(l, n, i)
  BY <1>1, <1>2, Zenon DEF WithSlots, WithAgent
<1>4. /\ k \in Ledger /\ k.agents = n /\ k.revision = i
      /\ k.spent = l.spent /\ k.lease = l.lease /\ k.overdue = l.overdue
  BY <1>3, SlotsChanged
<1>5. l.revision <= k.revision
  BY <1>1, <1>4, LedgerFields
<1>6. Eases(k, l) /\ Eases(l, k) /\ Later(k, l)
  BY <1>4, <1>5, SameLeases
<1>. QED
  BY <1>1, <1>2, <1>4, <1>6

LEMMA Unseating ==
  ASSUME NEW l \in Ledger, NEW k, k = WithoutAgent(l)
  PROVE  /\ k \in Ledger /\ k.agents = (IF l.agents > 0 THEN l.agents - 1 ELSE 0)
         /\ k.revision = l.revision + 1
         /\ k.spent = l.spent /\ k.lease = l.lease /\ k.overdue = l.overdue
         /\ Later(k, l) /\ Eases(k, l) /\ Eases(l, k)
<1>1. PICK i \in Nat : i = l.revision + 1
  BY LedgerFields
<1>2. PICK n \in Nat : n = Max({0, l.agents - 1}) /\ n = IF l.agents > 0 THEN l.agents - 1 ELSE 0
  <2>1. l.agents \in Nat
    BY LedgerFields
  <2>2. Max({0, l.agents - 1}) = IF 0 >= l.agents - 1 THEN 0 ELSE l.agents - 1
    BY <2>1, MaxOf
  <2>. QED
    BY <2>1, <2>2
<1>3. k = WithSlots(l, n, i)
  BY <1>1, <1>2, Zenon DEF WithSlots, WithoutAgent
<1>4. /\ k \in Ledger /\ k.agents = n /\ k.revision = i
      /\ k.spent = l.spent /\ k.lease = l.lease /\ k.overdue = l.overdue
  BY <1>3, SlotsChanged
<1>5. l.revision <= k.revision
  BY <1>1, <1>4, LedgerFields
<1>6. Eases(k, l) /\ Eases(l, k) /\ Later(k, l)
  BY <1>4, <1>5, SameLeases
<1>. QED
  BY <1>1, <1>2, <1>4, <1>6

\* What giving back makes of a lease.
GivenBack(e) == IF e.state = "active" THEN [e EXCEPT !.state = "released"] ELSE e

LEMMA GivenBackIs ==
  ASSUME NEW l \in Ledger, NEW p \in Proc
  PROVE  /\ Released(l, p).lease[p] = GivenBack(l.lease[p])
         /\ GivenBack(l.lease[p]) \in Lease \cup {NoLease}
         /\ l.lease[p].state = "active" => GivenBack(l.lease[p]).state = "released"
         /\ l.lease[p].state # "active" => GivenBack(l.lease[p]) = l.lease[p]
<1>1. CASE l.lease[p].state = "active"
  <2>1. l.lease[p] \in Lease /\ l.lease \in [Proc -> Lease \cup {NoLease}]
    BY <1>1, LeaseKinds, LedgerFields
  <2>. DEFINE g == [l.lease EXCEPT ![p].state = "released"]
  <2>2. g[p] = GivenBack(l.lease[p])
    BY <1>1, <2>1 DEF GivenBack
  <2>3. g \in [Proc -> Lease \cup {NoLease}]
    BY <2>1 DEF Lease
  <2>4. PICK i \in Nat : i = l.revision + 1
    BY LedgerFields
  <2>5. Released(l, p) = WithLeases(l, g, i)
    BY <1>1, <2>4, Zenon DEF WithLeases, Released
  <2>6. Released(l, p).lease = g
    <3>. HIDE DEF g
    <3>. QED
      BY <2>3, <2>5, LeasesChanged
  <2>7. GivenBack(l.lease[p]) \in Lease /\ GivenBack(l.lease[p]).state = "released"
    BY <1>1, <2>1 DEF GivenBack, Lease
  <2>. QED
    BY <1>1, <2>2, <2>6, <2>7
<1>2. CASE l.lease[p].state # "active"
  BY <1>2, LedgerFields DEF Released, GivenBack
<1>. QED
  BY <1>1, <1>2

\* Leases that are given back, with a revision for it.
LEMMA Refunding ==
  ASSUME NEW l \in Ledger, NEW k \in Ledger, NEW D \in SUBSET Proc,
         k.spent = l.spent, l.revision <= k.revision,
         \A p \in Proc : k.lease[p] = IF p \in D THEN GivenBack(l.lease[p]) ELSE l.lease[p],
         k.revision = l.revision => \A p \in D : l.lease[p].state # "active"
  PROVE  /\ \A p \in Proc : (l.lease[p].state = "none") <=> (k.lease[p].state = "none")
         /\ Later(k, l) /\ Eases(k, l)
<1>1. ASSUME NEW p \in Proc
      PROVE  \/ k.lease[p] = l.lease[p]
             \/ p \in D /\ l.lease[p].state = "active" /\ k.lease[p].state = "released"
  BY GivenBackIs
<1>2. \A p \in Proc : (l.lease[p].state = "none") <=> (k.lease[p].state = "none")
  BY <1>1
<1>3. Eases(k, l)
  <2>1. ASSUME NEW r \in Resource, NEW c \in Child
        PROVE  Outstanding(k, r, c) <= Outstanding(l, r, c)
    <3>1. Outstanding(k, r, c) \in Nat /\ Outstanding(l, r, c) \in Nat
      BY OutstandingIs
    <3>2. k.lease[c] = l.lease[c] \/ k.lease[c].state = "released"
      BY <1>1 DEF Proc
    <3>3. Outstanding(k, r, c) = Outstanding(l, r, c) \/ Outstanding(k, r, c) = 0
      BY <3>2 DEF Outstanding
    <3>. QED
      BY <3>1, <3>3
  <2>2. k.lease[Root].state = "active" => l.lease[Root].state = "active"
    BY <1>1 DEF Proc
  <2>. QED
    BY <2>1, <2>2, Relieving
<1>4. Later(k, l)
  <2>1. k.revision = l.revision => \A p \in Proc : k.lease[p].state = l.lease[p].state
    BY <1>1
  <2>2. \A p \in Proc : l.lease[p].state = "released" => k.lease[p].state = "released"
    BY <1>1
  <2>3. \A purpose \in Purpose, r \in Resource : l.spent[purpose][r] <= k.spent[purpose][r]
    BY SpentIs
  <2>. QED
    BY <1>2, <2>1, <2>2, <2>3 DEF Later
<1>. QED
  BY <1>2, <1>3, <1>4

\* The leases of all processes that a kill finds parked are given back.
WithRefunds(l, D) ==
  [l EXCEPT !.lease = [p \in Proc |-> IF p \in D THEN Released(l, p).lease[p] ELSE @[p]],
            !.revision = @ + Cardinality({p \in D : l.lease[p].state = "active"})]

LEMMA Refund ==
  ASSUME NEW l \in Ledger, NEW D \in SUBSET Proc, NEW k, k = WithRefunds(l, D)
  PROVE  /\ k \in Ledger /\ k.spent = l.spent /\ k.agents = l.agents /\ k.overdue = l.overdue
         /\ \A p \in Proc : (l.lease[p].state = "none") <=> (k.lease[p].state = "none")
         /\ Later(k, l) /\ Eases(k, l)
<1>. DEFINE A == {p \in D : l.lease[p].state = "active"}
            g == [p \in Proc |-> IF p \in D THEN Released(l, p).lease[p] ELSE l.lease[p]]
<1>1. PICK m \in Nat : m = Cardinality(A) /\ (m = 0 => A = {})
  <2>1. IsFiniteSet(Proc)
    BY ProcAssumption, FS_Singleton, FS_Union DEF Proc
  <2>2. IsFiniteSet(A)
    BY <2>1, FS_Subset
  <2>. QED
    BY <2>2, FS_CardinalityType, FS_EmptySet
<1>2. PICK i \in Nat : i = l.revision + m
  BY LedgerFields
<1>3. \A p \in Proc : g[p] = IF p \in D THEN GivenBack(l.lease[p]) ELSE l.lease[p]
  BY GivenBackIs
<1>4. g \in [Proc -> Lease \cup {NoLease}]
  <2>1. \A p \in Proc : g[p] \in Lease \cup {NoLease}
    <3>. HIDE DEF g
    <3>. QED
      BY <1>3, GivenBackIs, LedgerFields
  <2>. QED
    BY <2>1
<1>5. k = WithLeases(l, g, i)
  BY <1>1, <1>2, Zenon DEF WithLeases, WithRefunds
<1>. HIDE DEF g
<1>6. /\ k \in Ledger /\ k.lease = g /\ k.revision = i
      /\ k.spent = l.spent /\ k.agents = l.agents /\ k.overdue = l.overdue
  BY <1>4, <1>5, LeasesChanged
<1>7. l.revision <= k.revision
      /\ (k.revision = l.revision => \A p \in D : l.lease[p].state # "active")
  BY <1>1, <1>2, <1>6, LedgerFields
<1>8. \A p \in Proc : k.lease[p] = IF p \in D THEN GivenBack(l.lease[p]) ELSE l.lease[p]
  BY <1>3, <1>6
<1>. QED
  BY <1>6, <1>7, <1>8, Refunding

\* One lease is given back.
LEMMA Releasing ==
  ASSUME NEW l \in Ledger, NEW p \in Proc, NEW k, k = Released(l, p)
  PROVE  /\ k \in Ledger /\ k.spent = l.spent /\ k.agents = l.agents /\ k.overdue = l.overdue
         /\ \A q \in Proc : (l.lease[q].state = "none") <=> (k.lease[q].state = "none")
         /\ Later(k, l) /\ Eases(k, l)
<1>1. CASE l.lease[p].state = "active"
  <2>. DEFINE g == [l.lease EXCEPT ![p].state = "released"]
  <2>1. l.lease[p] \in Lease /\ l.lease \in [Proc -> Lease \cup {NoLease}]
    BY <1>1, LeaseKinds, LedgerFields
  <2>2. g \in [Proc -> Lease \cup {NoLease}]
    BY <2>1 DEF Lease
  <2>3. \A q \in Proc : g[q] = IF q \in {p} THEN GivenBack(l.lease[q]) ELSE l.lease[q]
    BY <1>1, <2>1 DEF GivenBack
  <2>4. PICK i \in Nat : i = l.revision + 1
    BY LedgerFields
  <2>5. k = WithLeases(l, g, i)
    BY <1>1, <2>4, Zenon DEF WithLeases, Released
  <2>. HIDE DEF g
  <2>6. /\ k \in Ledger /\ k.lease = g /\ k.revision = i
        /\ k.spent = l.spent /\ k.agents = l.agents /\ k.overdue = l.overdue
    BY <2>2, <2>5, LeasesChanged
  <2>7. l.revision <= k.revision /\ k.revision # l.revision
    BY <2>4, <2>6, LedgerFields
  <2>8. \A q \in Proc : k.lease[q] = IF q \in {p} THEN GivenBack(l.lease[q]) ELSE l.lease[q]
    BY <2>3, <2>6
  <2>9. {p} \in SUBSET Proc
    OBVIOUS
  <2>. QED
    BY <2>6, <2>7, <2>8, <2>9, Refunding
<1>2. CASE l.lease[p].state # "active"
  <2>1. k = l
    BY <1>2 DEF Released
  <2>2. l.revision <= k.revision
    BY <2>1, LedgerFields
  <2>. QED
    BY <2>1, <2>2, SameLeases
<1>. QED
  BY <1>1, <1>2

\* What a child gets of a resource of which n is available.
AskFor(c, request, r, n) ==
  IF request[r] > 0 THEN request[r]
    ELSE IF Share[PurposeOf[c]][r] <= n THEN Share[PurposeOf[c]][r] ELSE n

LEMMA AskedIs ==
  ASSUME NEW l \in Ledger, NEW c \in Child, NEW request \in [Resource -> Nat]
  PROVE  /\ Asked(l, c, request) \in [Resource -> Nat]
         /\ \A r \in Resource :
              Asked(l, c, request)[r] = AskFor(c, request, r, Available(l, r, PurposeOf[c]))
<1>. DEFINE A == Asked(l, c, request)
<1>1. ASSUME NEW r \in Resource
      PROVE  /\ A[r] = AskFor(c, request, r, Available(l, r, PurposeOf[c]))
             /\ A[r] \in Nat
  <2>1. PICK n \in Nat : n = Available(l, r, PurposeOf[c])
    BY AvailableIs, PurposeAssumption
  <2>2. PICK m \in Nat : m = Share[PurposeOf[c]][r]
    BY PurposeAssumption, LimitAssumption
  <2>3. Min({m, n}) = IF m <= n THEN m ELSE n
    BY MinOf
  <2>4. A[r] = IF request[r] > 0 THEN request[r] ELSE Min({m, n})
    BY <2>1, <2>2, Zenon DEF Asked
  <2>5. request[r] \in Nat
    OBVIOUS
  <2>. QED
    BY <2>1, <2>2, <2>3, <2>4, <2>5 DEF AskFor
<1>2. A = [r \in Resource |-> A[r]]
  BY DEF Asked
<1>3. A \in [Resource -> Nat]
  <2>. HIDE DEF A
  <2>. QED
    BY <1>1, <1>2
<1>. QED
  BY <1>1, <1>3

\* A child gets a lease: its rest is what it has asked for, which was available.
LEMMA Leasing ==
  ASSUME NEW l \in Ledger, NEW c \in Child, NEW request \in [Resource -> Nat],
         LeaseAdmitted(l, c, request), NEW k, k = WithLease(l, c, request)
  PROVE  /\ k \in Ledger /\ k.spent = l.spent /\ k.agents = l.agents /\ k.overdue = l.overdue
         /\ k.revision = l.revision + 1
         /\ k.lease[c].state = "active" /\ \A p \in Proc \ {c} : k.lease[p] = l.lease[p]
         /\ \A r \in Resource : Outstanding(k, r, c) = Asked(l, c, request)[r]
<1>. DEFINE A == Asked(l, c, request)
            g == [l.lease EXCEPT ![c] = NewLease(A)]
<1>1. A \in [Resource -> Nat]
  BY AskedIs
<1>2. NewLease(A) \in Lease /\ NewLease(A).state = "active"
      /\ NewLease(A).reserved = A /\ NewLease(A).used = Nothing
  <2>. HIDE DEF A
  <2>. QED
    BY <1>1 DEF NewLease, Lease, Nothing
<1>3. /\ g \in [Proc -> Lease \cup {NoLease}] /\ g[c] = NewLease(A)
      /\ \A p \in Proc \ {c} : g[p] = l.lease[p]
  <2>. HIDE DEF A
  <2>1. l.lease \in [Proc -> Lease \cup {NoLease}]
    BY LedgerFields
  <2>. QED
    BY <1>2, <2>1 DEF Proc
<1>4. PICK i \in Nat : i = l.revision + 1
  BY LedgerFields
<1>5. k = WithLeases(l, g, i)
  BY <1>4, Zenon DEF WithLeases, WithLease
<1>6. /\ k \in Ledger /\ k.lease = g /\ k.revision = i
      /\ k.spent = l.spent /\ k.agents = l.agents /\ k.overdue = l.overdue
  <2>. HIDE DEF g
  <2>. QED
    BY <1>3, <1>5, LeasesChanged
<1>7. ASSUME NEW r \in Resource PROVE Outstanding(k, r, c) = A[r]
  <2>. HIDE DEF A, g
  <2>1. k.lease[c].state = "active" /\ k.lease[c].reserved[r] = A[r] /\ k.lease[c].used[r] = 0
    BY <1>2, <1>3, <1>6 DEF Nothing
  <2>2. PICK n \in Nat : n = A[r]
    BY <1>1
  <2>3. Outstanding(k, r, c) = IF 0 <= n THEN n - 0 ELSE 0
    BY <1>6, <2>1, <2>2, OutstandingIs
  <2>. QED
    BY <2>2, <2>3
<1>. HIDE DEF g, A
<1>. QED
  BY <1>2, <1>3, <1>4, <1>6, <1>7 DEF A

\* So no pool is promised twice, and what is left is what the others were
\* left with less what the child got.
LEMMA LeasingHonours ==
  ASSUME NEW l \in Ledger, NEW c \in Child, NEW request \in [Resource -> Nat],
         LeaseAdmitted(l, c, request), NEW k, k = WithLease(l, c, request)
  PROVE  /\ Honoured(l) => Honoured(k)
         /\ l.lease[c].state # "released" => Later(k, l)
         /\ \A r \in Resource :
              /\ Available(l, r, PurposeOf[c]) - Asked(l, c, request)[r]
                   <= Available(k, r, PurposeOf[c])
              /\ \A purpose \in Purpose \ {PurposeOf[c]} :
                   Available(l, r, purpose) <= Available(k, r, purpose)
<1>1. /\ k \in Ledger /\ k.spent = l.spent
      /\ k.revision = l.revision + 1
      /\ k.lease[c].state = "active" /\ \A p \in Proc \ {c} : k.lease[p] = l.lease[p]
      /\ \A r \in Resource : Outstanding(k, r, c) = Asked(l, c, request)[r]
  BY Leasing
<1>2. ASSUME NEW r \in Resource
      PROVE  /\ Committed(k, r, PurposeOf[c]) - Asked(l, c, request)[r] <= Committed(l, r, PurposeOf[c])
             /\ \A purpose \in Purpose \ {PurposeOf[c]} : Committed(k, r, purpose) <= Committed(l, r, purpose)
  <2>1. ASSUME NEW d \in Child \ {c} PROVE Outstanding(k, r, d) <= Outstanding(l, r, d)
    <3>1. Outstanding(k, r, d) = Outstanding(l, r, d)
      BY <1>1 DEF Outstanding, Proc
    <3>. QED
      BY <3>1, OutstandingIs
  <2>2. /\ Promised(k, r, PurposeOf[c], Root) - Outstanding(k, r, c)
             <= Promised(l, r, PurposeOf[c], Root) - Outstanding(l, r, c)
        /\ \A purpose \in Purpose \ {PurposeOf[c]} :
             Promised(k, r, purpose, Root) <= Promised(l, r, purpose, Root)
    BY <1>1, <2>1, PromisedMoves
  <2>3. Outstanding(k, r, c) \in Nat /\ Outstanding(l, r, c) \in Nat
    BY <1>1, OutstandingIs
  <2>4. \A purpose \in Purpose :
          /\ Promised(k, r, purpose, Root) \in Nat /\ Promised(l, r, purpose, Root) \in Nat
          /\ l.spent[purpose][r] \in Nat
    BY <1>1, PromisedIsNatural, SpentIs
  <2>5. PurposeOf[c] \in Purpose
    BY PurposeAssumption
  <2>6. \A purpose \in Purpose :
          /\ Committed(k, r, purpose) = l.spent[purpose][r] + Promised(k, r, purpose, Root)
          /\ Committed(l, r, purpose) = l.spent[purpose][r] + Promised(l, r, purpose, Root)
    BY <1>1 DEF Committed
  <2>7. Outstanding(k, r, c) = Asked(l, c, request)[r]
    BY <1>1
  <2>. QED
    BY <2>2, <2>3, <2>4, <2>5, <2>6, <2>7
<1>3. ASSUME NEW r \in Resource, NEW purpose \in Purpose
      PROVE  /\ Floor(k, r, purpose) = Floor(l, r, purpose)
             /\ Floor(k, r, purpose) \in Nat /\ Ceiling(r, purpose) \in Nat
             /\ Committed(k, r, purpose) \in Nat /\ Committed(l, r, purpose) \in Nat
             /\ Available(k, r, purpose) \in Nat /\ Available(l, r, purpose) \in Nat
  <2>1. k.lease[Root] = l.lease[Root]
    BY <1>1, ProcAssumption DEF Proc
  <2>2. Floor(k, r, purpose) = Floor(l, r, purpose)
    BY <2>1 DEF Floor
  <2>. QED
    BY <1>1, <2>2, FloorIs, CeilingIs, SpentIs, AvailableIs
<1>4. ASSUME NEW r \in Resource, NEW purpose \in Purpose
      PROVE  /\ Available(l, r, purpose) =
                  IF Ceiling(r, purpose) - Committed(l, r, purpose) - Floor(l, r, purpose) > 0
                    THEN Ceiling(r, purpose) - Committed(l, r, purpose) - Floor(l, r, purpose) ELSE 0
             /\ Available(k, r, purpose) =
                  IF Ceiling(r, purpose) - Committed(k, r, purpose) - Floor(k, r, purpose) > 0
                    THEN Ceiling(r, purpose) - Committed(k, r, purpose) - Floor(k, r, purpose) ELSE 0
  BY <1>1, AvailableIs
<1>5. ASSUME NEW r \in Resource
      PROVE  /\ Asked(l, c, request)[r] \in Nat
             /\ Asked(l, c, request)[r] >= 1
             /\ Asked(l, c, request)[r] <= Available(l, r, PurposeOf[c])
  BY AskedIs DEF LeaseAdmitted
<1>6. ASSUME NEW r \in Resource
      PROVE  /\ Committed(l, r, PurposeOf[c]) <= Ceiling(r, PurposeOf[c])
                  => Committed(k, r, PurposeOf[c]) <= Ceiling(r, PurposeOf[c])
             /\ Available(l, r, PurposeOf[c]) - Asked(l, c, request)[r] <= Available(k, r, PurposeOf[c])
  <2>. DEFINE purpose == PurposeOf[c]
  <2>0. purpose \in Purpose
    BY PurposeAssumption
  <2>1. PICK n \in Nat, m \in Nat, j \in Nat, f \in Nat, a \in Nat :
          /\ n = Ceiling(r, purpose) /\ m = Committed(l, r, purpose) /\ j = Committed(k, r, purpose)
          /\ f = Floor(l, r, purpose) /\ f = Floor(k, r, purpose) /\ a = Asked(l, c, request)[r]
    BY <2>0, <1>3, <1>5
  <2>2. Available(l, r, purpose) = IF n - m - f > 0 THEN n - m - f ELSE 0
    BY <1>4, <2>0, <2>1
  <2>3. Available(k, r, purpose) = IF n - j - f > 0 THEN n - j - f ELSE 0
    BY <1>4, <2>0, <2>1
  <2>4. j - a <= m
    BY <1>2, <2>1
  <2>5. a >= 1 /\ a <= Available(l, r, purpose)
    BY <1>5, <2>1
  <2>6. j <= n /\ Available(l, r, purpose) - a <= Available(k, r, purpose)
    BY <2>2, <2>3, <2>4, <2>5
  <2>. QED
    BY <2>1, <2>6
<1>7. ASSUME NEW r \in Resource, NEW purpose \in Purpose \ {PurposeOf[c]}
      PROVE  /\ Committed(l, r, purpose) <= Ceiling(r, purpose) => Committed(k, r, purpose) <= Ceiling(r, purpose)
             /\ Available(l, r, purpose) <= Available(k, r, purpose)
  <2>1. Committed(k, r, purpose) <= Committed(l, r, purpose)
    BY <1>2
  <2>2. Floor(k, r, purpose) = Floor(l, r, purpose) /\ Floor(l, r, purpose) \in Nat
        /\ Ceiling(r, purpose) \in Nat /\ Committed(k, r, purpose) \in Nat /\ Committed(l, r, purpose) \in Nat
    BY <1>3
  <2>. QED
    BY <2>1, <2>2, <1>4
<1>8. Honoured(l) => Honoured(k)
  BY <1>6, <1>7 DEF Honoured
<1>9. ASSUME l.lease[c].state # "released" PROVE Later(k, l)
  <2>1. \A p \in Proc : /\ l.lease[p].state = "released" => k.lease[p].state = "released"
                        /\ l.lease[p].state # "none" => k.lease[p].state # "none"
    BY <1>1, <1>9
  <2>2. l.revision <= k.revision /\ k.revision # l.revision
    BY <1>1, LedgerFields
  <2>3. \A purpose \in Purpose, r \in Resource : l.spent[purpose][r] <= k.spent[purpose][r]
    BY <1>1, SpentIs
  <2>. QED
    BY <2>1, <2>2, <2>3 DEF Later
<1>. QED
  BY <1>6, <1>7, <1>8, <1>9

\* Spending: the charge of a child comes out of its promise, the root's has to
\* leave all promises.
LEMMA Charging ==
  ASSUME NEW l \in Ledger, NEW p \in Proc, NEW r \in Resource, l.lease[p].state # "none",
         NEW k, k = Charged(l, r, p, 1)
  PROVE  /\ k \in Ledger /\ k.agents = l.agents /\ k.overdue = l.overdue
         /\ \A q \in Proc : k.lease[q].state = l.lease[q].state
         /\ Later(k, l)
         /\ Covered(l, r, p, 1) /\ Honoured(l) => Honoured(k)
         /\ Covered(l, r, p, 1) /\ p \in Child => Eases(k, l)
<1>. DEFINE purpose == PurposeFor(p)
<1>0. purpose \in Purpose /\ (p \in Child => purpose = PurposeOf[p]) /\ (p = Root => purpose = "work")
  BY ProcAssumption, PurposeAssumption DEF PurposeFor, Purpose, Proc
<1>1. l.lease[p] \in Lease /\ l.lease \in [Proc -> Lease \cup {NoLease}]
  BY LeaseKinds, LedgerFields
<1>2. PICK i \in Nat, m \in Nat, n \in Nat :
        i = l.revision + 1 /\ m = l.spent[purpose][r] + 1 /\ n = l.lease[p].used[r] + 1
  <2>1. l.revision + 1 \in Nat /\ l.spent[purpose][r] + 1 \in Nat
    BY <1>0, LedgerFields
  <2>2. l.lease[p].used[r] + 1 \in Nat
    BY <1>1 DEF Lease
  <2>. QED
    BY <2>1, <2>2
<1>. HIDE DEF purpose
<1>. DEFINE s == [l.spent EXCEPT ![purpose][r] = m]
            e == [l.lease[p] EXCEPT !.used[r] = n]
            g == [l.lease EXCEPT ![p] = e]
<1>3. s \in [Purpose -> [Resource -> Nat]] /\ s[purpose][r] = m
      /\ \A b \in Purpose, q \in Resource : b # purpose \/ q # r => s[b][q] = l.spent[b][q]
  BY <1>0, LedgerFields
<1>4. e \in Lease /\ e.state = l.lease[p].state /\ e.reserved = l.lease[p].reserved
      /\ e.used[r] = n /\ \A q \in Resource : q # r => e.used[q] = l.lease[p].used[q]
  BY <1>1 DEF Lease
<1>. HIDE DEF e
<1>5. g \in [Proc -> Lease \cup {NoLease}] /\ g[p] = e /\ \A q \in Proc \ {p} : g[q] = l.lease[q]
  BY <1>1, <1>4
<1>6. k = [l EXCEPT !.spent = s, !.lease = g, !.revision = i]
  BY <1>2, Zenon DEF Charged, e, purpose
<1>. HIDE DEF s, g
<1>7. /\ k \in Ledger /\ k.spent = s /\ k.lease = g /\ k.revision = i
      /\ k.agents = l.agents /\ k.overdue = l.overdue
  BY <1>3, <1>5, <1>6 DEF Ledger
<1>8. \A q \in Proc : k.lease[q].state = l.lease[q].state
  BY <1>4, <1>5, <1>7
<1>9. Later(k, l)
  <2>1. l.revision <= k.revision /\ k.revision # l.revision
    BY <1>2, <1>7, LedgerFields
  <2>2. ASSUME NEW b \in Purpose, NEW q \in Resource PROVE l.spent[b][q] <= k.spent[b][q]
    <3>1. l.spent[b][q] \in Nat
      BY SpentIs
    <3>. QED
      BY <1>2, <1>3, <1>7, <3>1
  <2>. QED
    BY <1>8, <2>1, <2>2 DEF Later
<1>10. ASSUME NEW q \in Resource, NEW c \in Child, q # r \/ c # p
       PROVE  Outstanding(k, q, c) = Outstanding(l, q, c)
  <2>1. k.lease[c].state = l.lease[c].state
    BY <1>8 DEF Proc
  <2>2. CASE l.lease[c].state = "active"
    <3>1. k.lease[c].reserved[q] = l.lease[c].reserved[q] /\ k.lease[c].used[q] = l.lease[c].used[q]
      BY <1>4, <1>5, <1>7, <1>10 DEF Proc
    <3>. QED
      BY <2>1, <3>1 DEF Outstanding
  <2>3. CASE l.lease[c].state # "active"
    BY <2>1, <2>3 DEF Outstanding
  <2>. QED
    BY <2>2, <2>3
<1>11. ASSUME NEW q \in Resource, q # r, NEW b \in Purpose
       PROVE  Committed(k, q, b) = Committed(l, q, b)
  <2>1. \A c \in Child : /\ Outstanding(k, q, c) <= Outstanding(l, q, c)
                         /\ Outstanding(l, q, c) <= Outstanding(k, q, c)
    BY <1>7, <1>10, <1>11, OutstandingIs
  <2>2. Promised(k, q, b, Root) <= Promised(l, q, b, Root)
    BY <1>7, <2>1, PromisedFalls
  <2>3. Promised(l, q, b, Root) <= Promised(k, q, b, Root)
    BY <1>7, <2>1, PromisedFalls
  <2>4. Promised(k, q, b, Root) = Promised(l, q, b, Root)
    BY <1>7, <2>2, <2>3, PromisedIsNatural
  <2>5. k.spent[b][q] = l.spent[b][q]
    BY <1>3, <1>7, <1>11
  <2>. QED
    BY <2>4, <2>5 DEF Committed
<1>12. ASSUME p \in Child, Covered(l, r, p, 1), NEW b \in Purpose
       PROVE  Committed(k, r, b) <= Committed(l, r, b)
  <2>1. l.lease[p].state = "active" /\ l.lease[p].used[r] + 1 <= l.lease[p].reserved[r]
    BY <1>12 DEF Covered, LeaseCovers
  <2>2. PICK u \in Nat, v \in Nat : u = l.lease[p].used[r] /\ v = l.lease[p].reserved[r]
    BY <1>1 DEF Lease
  <2>3. Outstanding(l, r, p) = IF u <= v THEN v - u ELSE 0
    BY <1>12, <2>1, <2>2, OutstandingIs
  <2>4. k.lease[p].state = "active" /\ k.lease[p].used[r] = u + 1 /\ k.lease[p].reserved[r] = v
    BY <1>2, <1>4, <1>5, <1>7, <2>1, <2>2
  <2>5. Outstanding(k, r, p) = IF u + 1 <= v THEN v - (u + 1) ELSE 0
    BY <1>7, <1>12, <2>4, OutstandingIs
  <2>6. u + 1 <= v
    BY <2>1, <2>2
  <2>7. Outstanding(k, r, p) = Outstanding(l, r, p) - 1 /\ Outstanding(l, r, p) \in Nat
    BY <2>2, <2>3, <2>5, <2>6
  <2>8. \A d \in Child \ {p} : Outstanding(k, r, d) <= Outstanding(l, r, d)
    BY <1>10, OutstandingIs
  <2>9. /\ Promised(k, r, PurposeOf[p], Root) - Outstanding(k, r, p)
             <= Promised(l, r, PurposeOf[p], Root) - Outstanding(l, r, p)
        /\ \A a \in Purpose \ {PurposeOf[p]} : Promised(k, r, a, Root) <= Promised(l, r, a, Root)
    BY <1>7, <1>12, <2>8, PromisedMoves
  <2>10. Promised(k, r, b, Root) \in Nat /\ Promised(l, r, b, Root) \in Nat
    BY <1>7, PromisedIsNatural
  <2>11. CASE b = purpose
    <3>1. k.spent[b][r] = l.spent[b][r] + 1 /\ l.spent[b][r] \in Nat
      BY <1>2, <1>3, <1>7, <2>11, SpentIs
    <3>2. Promised(k, r, b, Root) + 1 <= Promised(l, r, b, Root)
      BY <1>0, <1>12, <2>7, <2>9, <2>10, <2>11
    <3>. QED
      BY <2>10, <3>1, <3>2 DEF Committed
  <2>12. CASE b # purpose
    <3>1. k.spent[b][r] = l.spent[b][r] /\ l.spent[b][r] \in Nat
      BY <1>3, <1>7, <2>12, SpentIs
    <3>2. Promised(k, r, b, Root) <= Promised(l, r, b, Root)
      BY <1>0, <1>12, <2>9, <2>12
    <3>. QED
      BY <2>10, <3>1, <3>2 DEF Committed
  <2>. QED
    BY <2>11, <2>12
<1>13. ASSUME p \in Child, Covered(l, r, p, 1) PROVE Eases(k, l)
  <2>1. \A q \in Resource, b \in Purpose : Committed(k, q, b) <= Committed(l, q, b)
    BY <1>11, <1>12, <1>13, SpentIs
  <2>2. k.lease[Root].state = l.lease[Root].state
    BY <1>8 DEF Proc
  <2>. QED
    BY <2>1, <2>2 DEF Eases
<1>14. ASSUME p = Root, Covered(l, r, p, 1), Honoured(l) PROVE Honoured(k)
  <2>1. ASSUME NEW b \in Purpose
        PROVE  Promised(k, r, b, Root) = Promised(l, r, b, Root) /\ Promised(l, r, b, Root) \in Nat
    <3>1. \A c \in Child : /\ Outstanding(k, r, c) <= Outstanding(l, r, c)
                           /\ Outstanding(l, r, c) <= Outstanding(k, r, c)
      BY <1>7, <1>10, <1>14, ProcAssumption, OutstandingIs
    <3>2. Promised(k, r, b, Root) <= Promised(l, r, b, Root)
      BY <1>7, <3>1, PromisedFalls
    <3>3. Promised(l, r, b, Root) <= Promised(k, r, b, Root)
      BY <1>7, <3>1, PromisedFalls
    <3>. QED
      BY <1>7, <3>2, <3>3, PromisedIsNatural
  <2>2. l.spent["work"][r] + 1 + Promised(l, r, "work", Root) <= Ceiling(r, "work")
    BY <1>0, <1>14 DEF Covered, WithinPool, purpose
  <2>3. Committed(k, r, "work") <= Ceiling(r, "work")
    <3>1. k.spent["work"][r] = l.spent["work"][r] + 1 /\ l.spent["work"][r] \in Nat
      BY <1>0, <1>2, <1>3, <1>7, <1>14, SpentIs
    <3>2. Promised(k, r, "work", Root) = Promised(l, r, "work", Root)
      BY <2>1 DEF Purpose
    <3>. QED
      BY <2>2, <3>1, <3>2 DEF Committed
  <2>4. ASSUME NEW b \in Purpose, b # "work" PROVE Committed(k, r, b) <= Ceiling(r, b)
    <3>1. k.spent[b][r] = l.spent[b][r]
      BY <1>0, <1>3, <1>7, <1>14, <2>4
    <3>2. Committed(k, r, b) = Committed(l, r, b)
      BY <2>1, <3>1 DEF Committed
    <3>. QED
      BY <1>14, <3>2 DEF Honoured
  <2>5. ASSUME NEW q \in Resource, q # r, NEW b \in Purpose PROVE Committed(k, q, b) <= Ceiling(q, b)
    BY <1>11, <1>14, <2>5 DEF Honoured
  <2>. QED
    BY <2>3, <2>4, <2>5 DEF Honoured
<1>15. Covered(l, r, p, 1) /\ Honoured(l) => Honoured(k)
  <2>1. p \in Child \/ p = Root
    BY DEF Proc
  <2>. QED
    BY <1>7, <1>13, <1>14, <2>1, Easing
<1>. QED
  BY <1>7, <1>8, <1>9, <1>13, <1>15

\* A promise can be spent, if the two pools are within the limit.
LEMMA PromiseCovers ==
  ASSUME NEW l \in Ledger, Honoured(l), NEW r \in Resource, Reserve[r] < Limit[r],
         NEW c \in Child, Outstanding(l, r, c) > 0
  PROVE  Covered(l, r, c, 1)
<1>0. PurposeOf[c] \in {"work", "verification"} /\ PurposeFor(c) = PurposeOf[c] /\ c # Root
  BY ProcAssumption, PurposeAssumption DEF Purpose, PurposeFor
<1>. PICK other \in {"work", "verification"} : {PurposeOf[c], other} = {"work", "verification"}
  BY <1>0
<1>1. LeaseCovers(l, r, c, 1)
  <2>1. l.lease[c].state = "active"
    BY OutstandingIs
  <2>2. PICK u \in Nat, v \in Nat : u = l.lease[c].used[r] /\ v = l.lease[c].reserved[r]
    BY <2>1, OutstandingIs
  <2>3. Outstanding(l, r, c) = IF u <= v THEN v - u ELSE 0
    BY <2>1, <2>2, OutstandingIs
  <2>4. u + 1 <= v
    BY <2>2, <2>3
  <2>. QED
    BY <2>1, <2>2, <2>4 DEF LeaseCovers
<1>2. PICK m \in Nat, n \in Nat, o \in Nat, s \in Nat, e \in Nat :
        /\ m = Promised(l, r, PurposeOf[c], Root) /\ n = Promised(l, r, PurposeOf[c], c)
        /\ o = Outstanding(l, r, c)
        /\ s = l.spent[PurposeOf[c]][r] /\ e = l.spent[other][r]
  BY <1>0, PromisedIsNatural, OutstandingIs, SpentIs DEF Purpose
<1>3. m = o + n /\ o > 0
  BY <1>2, PromisedTo
<1>4. s + m <= Ceiling(r, PurposeOf[c])
  BY <1>0, <1>2 DEF Honoured, Committed, Purpose
<1>5. e <= Ceiling(r, other)
  <2>1. e + Promised(l, r, other, Root) <= Ceiling(r, other)
    BY <1>2 DEF Honoured, Committed, Purpose
  <2>2. Promised(l, r, other, Root) \in Nat /\ Ceiling(r, other) \in Nat
    BY PromisedIsNatural, CeilingIs DEF Purpose
  <2>. QED
    BY <1>2, <2>1, <2>2
<1>6. Ceiling(r, PurposeOf[c]) + Ceiling(r, other) = Limit[r] /\ Limit[r] \in Nat
      /\ Ceiling(r, PurposeOf[c]) \in Nat /\ Ceiling(r, other) \in Nat
  <2>1. Ceiling(r, "work") + Ceiling(r, "verification") = Limit[r] /\ Limit[r] \in Nat
        /\ Ceiling(r, "work") \in Nat /\ Ceiling(r, "verification") \in Nat
    BY CeilingIs
  <2>. QED
    BY <1>0, <2>1
<1>7. WithinPool(l, r, c, 1)
  <2>1. s + 1 + n <= Ceiling(r, PurposeOf[c])
    BY <1>2, <1>3, <1>4, <1>6
  <2>. QED
    BY <1>0, <1>2, <2>1 DEF WithinPool
<1>8. WithinTotal(l, r, 1)
  <2>1. s + e + 1 <= Limit[r]
    BY <1>2, <1>3, <1>4, <1>5, <1>6
  <2>2. Total(l, r) = s + e
    <3>1. \/ PurposeOf[c] = "work" /\ other = "verification"
          \/ PurposeOf[c] = "verification" /\ other = "work"
      BY <1>0
    <3>2. l.spent["work"][r] + l.spent["verification"][r] = s + e
      BY <1>2, <3>1
    <3>. QED
      BY <3>2 DEF Total
  <2>. QED
    BY <2>1, <2>2 DEF WithinTotal
<1>. QED
  BY <1>1, <1>7, <1>8 DEF Covered

-----------------------------------------------------------------------------
(* Room for a graph.                                                       *)

\* The nodes that are left fit one after the other, into what v says is left
\* before each of them.
Fitting(v, l, rest, request) ==
  /\ v \in [0 .. Len(rest) -> [Purpose -> [Resource -> Nat]]]
  /\ \A purpose \in Purpose, r \in Resource : v[0][purpose][r] <= Available(l, r, purpose)
  /\ \A n \in 1 .. Len(rest), r \in Resource :
       LET c == rest[n]
           before == v[n - 1][PurposeOf[c]][r]
           a == AskFor(c, request[c], r, before)
       IN  /\ a >= 1 /\ a <= before
           /\ v[n][PurposeOf[c]][r] <= before - a
           /\ \A purpose \in Purpose \ {PurposeOf[c]} : v[n][purpose][r] <= v[n - 1][purpose][r]
Fits(l, rest, request) == \E v : Fitting(v, l, rest, request)

\* Who has more gets no less, and leaves no less.
LEMMA AskGrows ==
  ASSUME NEW c \in Child, NEW request \in [Resource -> Nat], NEW r \in Resource,
         NEW m \in Nat, NEW n \in Nat, m <= n
  PROVE  LET a == AskFor(c, request, r, m)
             b == AskFor(c, request, r, n)
         IN  /\ a \in Nat /\ b \in Nat /\ a <= b /\ m - a <= n - b
             /\ (a >= 1 /\ a <= m) => (b >= 1 /\ b <= n)
<1>1. PICK s \in Nat : s = Share[PurposeOf[c]][r]
  BY PurposeAssumption, LimitAssumption
<1>2. request[r] \in Nat
  OBVIOUS
<1>. QED
  BY <1>1, <1>2 DEF AskFor

LEMMA FitsMore ==
  ASSUME NEW l \in Ledger, NEW k \in Ledger, NEW rest, NEW request, Fits(l, rest, request),
         \A purpose \in Purpose, r \in Resource : Available(l, r, purpose) <= Available(k, r, purpose)
  PROVE  Fits(k, rest, request)
<1>1. PICK v : Fitting(v, l, rest, request)
  BY DEF Fits
<1>2. ASSUME 0 \in 0 .. Len(rest), NEW purpose \in Purpose, NEW r \in Resource
      PROVE  v[0][purpose][r] <= Available(k, r, purpose)
  <2>1. v[0][purpose][r] \in Nat /\ v[0][purpose][r] <= Available(l, r, purpose)
    BY <1>1, <1>2 DEF Fitting
  <2>2. Available(l, r, purpose) \in Nat /\ Available(k, r, purpose) \in Nat
    BY AvailableIs
  <2>. QED
    BY <2>1, <2>2
<1>. QED
  BY <1>1, <1>2 DEF Fits, Fitting

\* The next node is admitted ...
LEMMA FitsNext ==
  ASSUME NEW l \in Ledger, NEW rest \in Seq(Child), rest # <<>>,
         NEW request \in [Child -> [Resource -> Nat]], Fits(l, rest, request)
  PROVE  LeaseAdmitted(l, Head(rest), request[Head(rest)])
<1>. DEFINE c == Head(rest)
<1>1. PICK v : Fitting(v, l, rest, request)
  BY DEF Fits
<1>2. c \in Child /\ c = rest[1] /\ 1 \in 1 .. Len(rest) /\ 0 \in 0 .. Len(rest)
      /\ PurposeOf[c] \in Purpose /\ request[c] \in [Resource -> Nat]
  BY PurposeAssumption
<1>. HIDE DEF c
<1>3. ASSUME NEW r \in Resource
      PROVE  LET n == Asked(l, c, request[c])[r] IN n >= 1 /\ n <= Available(l, r, PurposeOf[c])
  <2>0. v[0] \in [Purpose -> [Resource -> Nat]]
    BY <1>1, <1>2 DEF Fitting
  <2>1. PICK m \in Nat : m = v[0][PurposeOf[c]][r]
    BY <1>2, <2>0
  <2>2. PICK n \in Nat : n = Available(l, r, PurposeOf[c])
    BY <1>2, AvailableIs
  <2>3. m <= n
    BY <1>1, <1>2, <2>1, <2>2 DEF Fitting
  <2>4. AskFor(c, request[c], r, m) >= 1 /\ AskFor(c, request[c], r, m) <= m
    <3>1. v[1 - 1][PurposeOf[rest[1]]][r] = m
      BY <1>2, <2>1
    <3>. QED
      BY <1>1, <1>2, <3>1 DEF Fitting
  <2>5. AskFor(c, request[c], r, n) >= 1 /\ AskFor(c, request[c], r, n) <= n
    BY <1>2, <2>3, <2>4, AskGrows
  <2>6. Asked(l, c, request[c])[r] = AskFor(c, request[c], r, n)
    BY <1>2, <2>2, AskedIs
  <2>. QED
    BY <2>2, <2>5, <2>6
<1>. QED
  BY <1>3 DEF LeaseAdmitted, c

\* ... and leaves room for those behind it.
LEMMA FitsRest ==
  ASSUME NEW l \in Ledger, NEW rest \in Seq(Child), rest # <<>>,
         NEW request \in [Child -> [Resource -> Nat]], Fits(l, rest, request),
         NEW k, k = WithLease(l, Head(rest), request[Head(rest)])
  PROVE  Fits(k, Tail(rest), request)
<1>. DEFINE c == Head(rest)
<1>1. PICK v : Fitting(v, l, rest, request)
  BY DEF Fits
<1>2. /\ c \in Child /\ c = rest[1] /\ 1 \in 1 .. Len(rest) /\ {0, 1} \subseteq 0 .. Len(rest)
      /\ PurposeOf[c] \in Purpose /\ request[c] \in [Resource -> Nat]
  BY PurposeAssumption
<1>3. LeaseAdmitted(l, c, request[c])
  BY FitsNext
<1>. HIDE DEF c
<1>4. k = WithLease(l, c, request[c])
  BY DEF c
<1>5. k \in Ledger
  BY <1>2, <1>3, <1>4, Leasing
<1>6. \A r \in Resource :
        /\ Available(l, r, PurposeOf[c]) - Asked(l, c, request[c])[r] <= Available(k, r, PurposeOf[c])
        /\ \A purpose \in Purpose \ {PurposeOf[c]} : Available(l, r, purpose) <= Available(k, r, purpose)
  BY <1>2, <1>3, <1>4, LeasingHonours
<1>7. ASSUME NEW r \in Resource PROVE v[1][PurposeOf[c]][r] <= Available(k, r, PurposeOf[c])
  <2>0. v[0] \in [Purpose -> [Resource -> Nat]] /\ v[1] \in [Purpose -> [Resource -> Nat]]
    BY <1>1, <1>2 DEF Fitting
  <2>1. PICK m \in Nat, i \in Nat : m = v[0][PurposeOf[c]][r] /\ i = v[1][PurposeOf[c]][r]
    BY <1>2, <2>0
  <2>2. PICK n \in Nat, j \in Nat :
          n = Available(l, r, PurposeOf[c]) /\ j = Available(k, r, PurposeOf[c])
    BY <1>2, <1>5, AvailableIs
  <2>3. m <= n
    BY <1>1, <1>2, <2>1, <2>2 DEF Fitting
  <2>4. i <= m - AskFor(c, request[c], r, m)
    <3>1. v[1 - 1][PurposeOf[rest[1]]][r] = m
      BY <1>2, <2>1
    <3>. QED
      BY <1>1, <1>2, <2>1, <3>1 DEF Fitting
  <2>5. m - AskFor(c, request[c], r, m) <= n - AskFor(c, request[c], r, n)
        /\ AskFor(c, request[c], r, m) \in Nat /\ AskFor(c, request[c], r, n) \in Nat
    BY <1>2, <2>3, AskGrows
  <2>6. Asked(l, c, request[c])[r] = AskFor(c, request[c], r, n)
    BY <1>2, <2>2, AskedIs
  <2>7. n - AskFor(c, request[c], r, n) <= j
    BY <1>6, <2>2, <2>6
  <2>8. PICK x \in Nat, y \in Nat : x = AskFor(c, request[c], r, m) /\ y = AskFor(c, request[c], r, n)
    BY <2>5
  <2>9. i <= m - x /\ m - x <= n - y /\ n - y <= j
    BY <2>4, <2>5, <2>7, <2>8
  <2>10. i <= j
    BY <2>9
  <2>. QED
    BY <2>1, <2>2, <2>10
<1>8. ASSUME NEW r \in Resource, NEW purpose \in Purpose \ {PurposeOf[c]}
      PROVE  v[1][purpose][r] <= Available(k, r, purpose)
  <2>0. v[0] \in [Purpose -> [Resource -> Nat]] /\ v[1] \in [Purpose -> [Resource -> Nat]]
    BY <1>1, <1>2 DEF Fitting
  <2>1. PICK m \in Nat, i \in Nat : m = v[0][purpose][r] /\ i = v[1][purpose][r]
    BY <2>0
  <2>2. i <= m
    <3>1. v[1 - 1][purpose][r] = m
      BY <2>1
    <3>. QED
      BY <1>1, <1>2, <2>1, <3>1 DEF Fitting
  <2>3. m <= Available(l, r, purpose) /\ Available(l, r, purpose) <= Available(k, r, purpose)
    BY <1>1, <1>2, <1>6, <2>1 DEF Fitting
  <2>4. Available(l, r, purpose) \in Nat /\ Available(k, r, purpose) \in Nat
    BY <1>5, AvailableIs
  <2>. QED
    BY <2>1, <2>2, <2>3, <2>4
<1>. DEFINE R == Tail(rest)
            w == [n \in 0 .. Len(R) |-> v[n + 1]]
<1>9. /\ Len(R) = Len(rest) - 1 /\ Len(rest) \in Nat
      /\ \A n \in 1 .. Len(R) : R[n] = rest[n + 1] /\ n + 1 \in 1 .. Len(rest)
      /\ \A n \in 0 .. Len(R) : n + 1 \in 0 .. Len(rest)
  OBVIOUS
<1>. HIDE DEF R
<1>10. w \in [0 .. Len(R) -> [Purpose -> [Resource -> Nat]]]
  BY <1>1, <1>9 DEF Fitting
<1>11. \A purpose \in Purpose, r \in Resource : w[0][purpose][r] <= Available(k, r, purpose)
  <2>1. w[0] = v[1]
    BY <1>9, <1>2
  <2>. QED
    BY <1>7, <1>8, <2>1
<1>12. ASSUME NEW n \in 1 .. Len(R), NEW r \in Resource
       PROVE  LET d == R[n]
                  before == w[n - 1][PurposeOf[d]][r]
                  a == AskFor(d, request[d], r, before)
              IN  /\ a >= 1 /\ a <= before
                  /\ w[n][PurposeOf[d]][r] <= before - a
                  /\ \A purpose \in Purpose \ {PurposeOf[d]} : w[n][purpose][r] <= w[n - 1][purpose][r]
  <2>1. w[n] = v[n + 1] /\ w[n - 1] = v[(n + 1) - 1] /\ R[n] = rest[n + 1] /\ n + 1 \in 1 .. Len(rest)
    BY <1>9, <1>12
  <2>. HIDE DEF w
  <2>. QED
    BY <1>1, <2>1 DEF Fitting
<1>13. Fitting(w, k, R, request)
  <2>. HIDE DEF w
  <2>. QED
    BY <1>10, <1>11, <1>12 DEF Fitting
<1>. QED
  BY <1>13 DEF Fits, R

\* To a child without a lease exactly what it gets is no longer available.
LEMMA LeasingTakes ==
  ASSUME NEW l \in Ledger, NEW c \in Child, NEW request \in [Resource -> Nat],
         LeaseAdmitted(l, c, request), NEW k, k = WithLease(l, c, request),
         l.lease[c].state # "active", NEW r \in Resource
  PROVE  /\ Available(k, r, PurposeOf[c]) <= Available(l, r, PurposeOf[c]) - Asked(l, c, request)[r]
         /\ \A purpose \in Purpose \ {PurposeOf[c]} :
              Available(k, r, purpose) <= Available(l, r, purpose)
<1>1. /\ k \in Ledger /\ k.spent = l.spent
      /\ k.lease[c].state = "active" /\ \A p \in Proc \ {c} : k.lease[p] = l.lease[p]
      /\ \A q \in Resource : Outstanding(k, q, c) = Asked(l, c, request)[q]
  BY Leasing
<1>2. Outstanding(l, r, c) = 0
  BY OutstandingIs
<1>3. ASSUME NEW d \in Child \ {c} PROVE Outstanding(l, r, d) <= Outstanding(k, r, d)
  <2>1. Outstanding(k, r, d) = Outstanding(l, r, d)
    BY <1>1 DEF Outstanding, Proc
  <2>. QED
    BY <2>1, OutstandingIs
<1>4. /\ Promised(l, r, PurposeOf[c], Root) - Outstanding(l, r, c)
           <= Promised(k, r, PurposeOf[c], Root) - Outstanding(k, r, c)
      /\ \A purpose \in Purpose \ {PurposeOf[c]} :
           Promised(l, r, purpose, Root) <= Promised(k, r, purpose, Root)
  BY <1>1, <1>3, PromisedMoves
<1>5. k.lease[Root] = l.lease[Root]
  BY <1>1, ProcAssumption DEF Proc
<1>6. ASSUME NEW purpose \in Purpose
      PROVE  /\ Available(l, r, purpose) =
                  IF Ceiling(r, purpose) - Committed(l, r, purpose) - Floor(l, r, purpose) > 0
                    THEN Ceiling(r, purpose) - Committed(l, r, purpose) - Floor(l, r, purpose) ELSE 0
             /\ Available(k, r, purpose) =
                  IF Ceiling(r, purpose) - Committed(k, r, purpose) - Floor(k, r, purpose) > 0
                    THEN Ceiling(r, purpose) - Committed(k, r, purpose) - Floor(k, r, purpose) ELSE 0
             /\ Floor(k, r, purpose) = Floor(l, r, purpose)
             /\ Floor(l, r, purpose) \in Nat /\ Ceiling(r, purpose) \in Nat
  <2>1. Floor(k, r, purpose) = Floor(l, r, purpose)
    BY <1>5 DEF Floor
  <2>. QED
    BY <1>1, <2>1, AvailableIs, FloorIs, CeilingIs
<1>7. ASSUME NEW purpose \in Purpose
      PROVE  /\ Committed(k, r, purpose) = l.spent[purpose][r] + Promised(k, r, purpose, Root)
             /\ Committed(l, r, purpose) = l.spent[purpose][r] + Promised(l, r, purpose, Root)
             /\ Promised(k, r, purpose, Root) \in Nat /\ Promised(l, r, purpose, Root) \in Nat
             /\ l.spent[purpose][r] \in Nat
  BY <1>1, PromisedIsNatural, SpentIs DEF Committed
<1>8. Available(k, r, PurposeOf[c]) <= Available(l, r, PurposeOf[c]) - Asked(l, c, request)[r]
  <2>. DEFINE purpose == PurposeOf[c]
  <2>1. purpose \in Purpose
    BY PurposeAssumption
  <2>2. PICK n \in Nat, f \in Nat, s \in Nat, i \in Nat, j \in Nat :
          /\ n = Ceiling(r, purpose) /\ f = Floor(l, r, purpose) /\ s = l.spent[purpose][r]
          /\ i = Promised(l, r, purpose, Root) /\ j = Promised(k, r, purpose, Root)
    BY <1>6, <1>7, <2>1
  <2>3. PICK a \in Nat : a = Asked(l, c, request)[r]
    BY AskedIs
  <2>4. i <= j - a
    BY <1>1, <1>2, <1>4, <2>2, <2>3
  <2>5. Available(l, r, purpose) = IF n - (s + i) - f > 0 THEN n - (s + i) - f ELSE 0
    BY <1>6, <1>7, <2>1, <2>2
  <2>6. Available(k, r, purpose) = IF n - (s + j) - f > 0 THEN n - (s + j) - f ELSE 0
    BY <1>6, <1>7, <2>1, <2>2
  <2>7. a <= Available(l, r, purpose)
    BY <2>3 DEF LeaseAdmitted
  <2>. HIDE DEF purpose
  <2>8. Available(k, r, purpose) <= Available(l, r, purpose) - a
    BY <2>4, <2>5, <2>6, <2>7
  <2>. QED
    BY <2>3, <2>8 DEF purpose
<1>9. ASSUME NEW purpose \in Purpose \ {PurposeOf[c]}
      PROVE  Available(k, r, purpose) <= Available(l, r, purpose)
  <2>1. Promised(l, r, purpose, Root) <= Promised(k, r, purpose, Root)
    BY <1>4
  <2>. QED
    BY <1>6, <1>7, <2>1
<1>. QED
  BY <1>8, <1>9

\* One node of the graph on the copy.
TryNode(ok, c, request) ==
  IF ok.ok /\ AgentAdmitted(ok.ledger) /\ LeaseAdmitted(WithAgent(ok.ledger), c, request[c])
    THEN [ok |-> TRUE, ledger |-> WithLease(WithAgent(ok.ledger), c, request[c])]
    ELSE [ok |-> FALSE, ledger |-> ok.ledger]
Trying(g, l, d, request, N) ==
  g = [n \in 0 .. N |-> IF n = 0 THEN [ok |-> TRUE, ledger |-> l]
                                 ELSE TryNode(g[n - 1], d[n], request)]

LEMMA TriesExist ==
  ASSUME NEW l, NEW d, NEW request, NEW N \in Nat
  PROVE  \E g : Trying(g, l, d, request, N)
<1>. DEFINE B == {n \in Nat : ~ \E g : Trying(g, l, d, request, n)}
<1>. SUFFICES ASSUME B # {} PROVE FALSE
  OBVIOUS
<1>1. PICK n \in B : \A m \in B : n <= m
  <2>1. B \subseteq Nat
    OBVIOUS
  <2>. HIDE DEF B
  <2>. QED
    BY <2>1, LeastNumber
<1>2. CASE n = 0
  <2>. DEFINE g == [i \in 0 .. 0 |-> [ok |-> TRUE, ledger |-> l]]
  <2>1. Trying(g, l, d, request, 0)
    <3>1. \A i \in 0 .. 0 : i = 0
      OBVIOUS
    <3>2. g = [i \in 0 .. 0 |-> IF i = 0 THEN [ok |-> TRUE, ledger |-> l]
                                  ELSE TryNode(g[i - 1], d[i], request)]
      BY <3>1
    <3>. QED
      BY <3>2, Zenon DEF Trying
  <2>. QED
    BY <1>2, <2>1
<1>3. CASE n # 0
  <2>1. n - 1 \in Nat /\ n - 1 \notin B
    BY <1>1, <1>3
  <2>2. PICK h : Trying(h, l, d, request, n - 1)
    BY <2>1
  <2>. DEFINE V(i) == IF i = 0 THEN [ok |-> TRUE, ledger |-> l] ELSE TryNode(h[i - 1], d[i], request)
              g == [i \in 0 .. n |-> V(i)]
  <2>3. \A i \in 0 .. n - 1 : h[i] = V(i)
    <3>. HIDE DEF B
    <3>. QED
      BY <2>2, Zenon DEF Trying
  <2>4. ASSUME NEW i \in 0 .. n
        PROVE  V(i) = IF i = 0 THEN [ok |-> TRUE, ledger |-> l] ELSE TryNode(g[i - 1], d[i], request)
    <3>1. CASE i = 0
      BY <3>1
    <3>2. CASE i # 0
      <4>1. i - 1 \in 0 .. n - 1 /\ i - 1 \in 0 .. n
        BY <3>2, <1>1
      <4>2. g[i - 1] = h[i - 1]
        <5>. HIDE DEF V
        <5>. QED
          BY <2>3, <4>1
      <4>. QED
        BY <3>2, <4>2
    <3>. QED
      BY <3>1, <3>2
  <2>5. g = [i \in 0 .. n |-> IF i = 0 THEN [ok |-> TRUE, ledger |-> l]
                                ELSE TryNode(g[i - 1], d[i], request)]
    <3>1. g = [i \in 0 .. n |-> V(i)]
      OBVIOUS
    <3>. HIDE DEF g, V
    <3>. QED
      BY <2>4, <3>1
  <2>6. Trying(g, l, d, request, n)
    BY <2>5, Zenon DEF Trying
  <2>. HIDE DEF g
  <2>. QED
    BY <2>6
<1>. QED
  BY <1>2, <1>3

LEMMA PreflightIs ==
  ASSUME NEW l, NEW d \in Seq(Child), NEW request, Preflight(l, d, request)
  PROVE  \E g : Trying(g, l, d, request, Len(d)) /\ g[Len(d)].ok
<1>. DEFINE g == CHOOSE t : Trying(t, l, d, request, Len(d))
<1>1. Cardinality(DOMAIN d) = Len(d) /\ Len(d) \in Nat
  <2>1. DOMAIN d = 1 .. Len(d) /\ Len(d) \in Nat
    OBVIOUS
  <2>. QED
    BY <2>1, FS_Interval
<1>2. Trying(g, l, d, request, Len(d))
  BY <1>1, TriesExist
<1>3. g[Len(d)].ok
  <2>1. g[Cardinality(DOMAIN d)].ok
    BY <1>1, Zenon DEF Preflight, Trying, TryNode
  <2>. QED
    BY <1>1, <2>1
<1>. QED
  BY <1>2, <1>3

\* A graph whose nodes all were admitted on the copy fits.
LEMMA PreflightFits ==
  ASSUME NEW l \in Ledger, NEW d \in Seq(Child), NEW request \in [Child -> [Resource -> Nat]],
         \A i, j \in DOMAIN d : d[i] = d[j] => i = j,
         \A i \in DOMAIN d : l.lease[d[i]].state = "none",
         Preflight(l, d, request)
  PROVE  Fits(l, d, request)
<1>. DEFINE N == Len(d)
<1>0. N \in Nat /\ \A n \in 1 .. N : n \in DOMAIN d /\ d[n] \in Child /\ n - 1 \in 0 .. N
  OBVIOUS
<1>1. PICK g : Trying(g, l, d, request, N) /\ g[N].ok
  BY PreflightIs
<1>. HIDE DEF N
<1>2. ASSUME NEW n \in 0 .. N
      PROVE  g[n] = IF n = 0 THEN [ok |-> TRUE, ledger |-> l] ELSE TryNode(g[n - 1], d[n], request)
  BY <1>1, Zenon DEF Trying
<1>3. ASSUME NEW n \in 1 .. N, g[n].ok
      PROVE  LET k == WithAgent(g[n - 1].ledger)
             IN  /\ g[n - 1].ok
                 /\ LeaseAdmitted(k, d[n], request[d[n]])
                 /\ g[n].ledger = WithLease(k, d[n], request[d[n]])
  <2>1. n \in 0 .. N /\ n # 0
    BY <1>0
  <2>2. g[n] = TryNode(g[n - 1], d[n], request)
    BY <1>2, <2>1
  <2>3. g[n].ok => g[n - 1].ok /\ LeaseAdmitted(WithAgent(g[n - 1].ledger), d[n], request[d[n]])
    BY <2>2 DEF TryNode
  <2>4. g[n].ok => g[n].ledger = WithLease(WithAgent(g[n - 1].ledger), d[n], request[d[n]])
    BY <2>2 DEF TryNode
  <2>. QED
    BY <1>3, <2>3, <2>4
<1>4. ASSUME NEW n \in 0 .. N PROVE g[n].ok
  <2>. DEFINE B == {m \in Nat : m <= N /\ ~g[N - m].ok}
  <2>. SUFFICES ASSUME B # {} PROVE FALSE
    <3>1. N - n \in Nat /\ N - n <= N /\ N - (N - n) = n
      BY <1>0
    <3>2. N - n \notin B => g[N - (N - n)].ok
      BY <3>1
    <3>. HIDE DEF B
    <3>. QED
      BY <3>1, <3>2
  <2>1. PICK m \in B : \A i \in B : m <= i
    <3>1. B \subseteq Nat
      OBVIOUS
    <3>. HIDE DEF B
    <3>. QED
      BY <3>1, LeastNumber
  <2>2. m # 0
    <3>1. N - 0 = N
      BY <1>0
    <3>. QED
      BY <1>1, <3>1, <2>1
  <2>3. m - 1 \in Nat /\ m - 1 <= N /\ N - (m - 1) \in 1 .. N /\ (N - (m - 1)) - 1 = N - m
    BY <1>0, <2>1, <2>2
  <2>4. g[N - (m - 1)].ok
    BY <2>1, <2>3
  <2>5. g[(N - (m - 1)) - 1].ok
    BY <1>3, <2>3, <2>4
  <2>. QED
    BY <2>1, <2>3, <2>5
<1>5. ASSUME NEW n \in 1 .. N, g[n - 1].ledger \in Ledger,
             g[n - 1].ledger.lease[d[n]].state = "none"
      PROVE  /\ g[n].ledger \in Ledger
             /\ \A p \in Proc \ {d[n]} : g[n].ledger.lease[p] = g[n - 1].ledger.lease[p]
             /\ \A r \in Resource :
                  LET a == AskFor(d[n], request[d[n]], r, Available(g[n - 1].ledger, r, PurposeOf[d[n]]))
                  IN  /\ a >= 1 /\ a <= Available(g[n - 1].ledger, r, PurposeOf[d[n]])
                      /\ Available(g[n].ledger, r, PurposeOf[d[n]])
                           <= Available(g[n - 1].ledger, r, PurposeOf[d[n]]) - a
                      /\ \A purpose \in Purpose \ {PurposeOf[d[n]]} :
                           Available(g[n].ledger, r, purpose) <= Available(g[n - 1].ledger, r, purpose)
  <2>. DEFINE c == d[n]
              h == g[n - 1].ledger
              k == WithAgent(h)
              j == g[n].ledger
  <2>1. c \in Child /\ request[c] \in [Resource -> Nat] /\ PurposeOf[c] \in Purpose
    BY <1>0, PurposeAssumption
  <2>2. /\ k \in Ledger /\ k.lease = h.lease /\ Eases(k, h) /\ Eases(h, k)
    <3>. HIDE DEF h
    <3>. QED
      BY <1>5, Seating DEF h
  <2>3. LeaseAdmitted(k, c, request[c]) /\ j = WithLease(k, c, request[c])
    <3>1. g[n].ok
      BY <1>0, <1>4
    <3>. QED
      BY <1>3, <3>1
  <2>4. h \in Ledger /\ h.lease[c].state = "none"
    BY <1>5
  <2>. HIDE DEF c, h, k, j
  <2>5. j \in Ledger /\ \A p \in Proc \ {c} : j.lease[p] = k.lease[p]
    BY <2>1, <2>2, <2>3, Leasing
  <2>6. \A r \in Resource, purpose \in Purpose :
          /\ Available(k, r, purpose) = Available(h, r, purpose)
          /\ Available(h, r, purpose) \in Nat
    <3>. SUFFICES ASSUME NEW r \in Resource, NEW purpose \in Purpose
                  PROVE  /\ Available(k, r, purpose) = Available(h, r, purpose)
                         /\ Available(h, r, purpose) \in Nat
      OBVIOUS
    <3>1. Available(k, r, purpose) <= Available(h, r, purpose)
      BY <2>2, <2>4, Easing
    <3>2. Available(h, r, purpose) <= Available(k, r, purpose)
      BY <2>2, <2>4, Easing
    <3>3. Available(h, r, purpose) \in Nat /\ Available(k, r, purpose) \in Nat
      BY <2>2, <2>4, AvailableIs
    <3>. QED
      BY <3>1, <3>2, <3>3
  <2>7. k.lease[c].state # "active"
    BY <2>2, <2>4
  <2>8. ASSUME NEW r \in Resource
        PROVE  LET a == AskFor(c, request[c], r, Available(h, r, PurposeOf[c]))
               IN  /\ a >= 1 /\ a <= Available(h, r, PurposeOf[c])
                   /\ Available(j, r, PurposeOf[c]) <= Available(h, r, PurposeOf[c]) - a
                   /\ \A purpose \in Purpose \ {PurposeOf[c]} :
                        Available(j, r, purpose) <= Available(h, r, purpose)
    <3>1. /\ Available(j, r, PurposeOf[c]) <= Available(k, r, PurposeOf[c]) - Asked(k, c, request[c])[r]
          /\ \A purpose \in Purpose \ {PurposeOf[c]} : Available(j, r, purpose) <= Available(k, r, purpose)
      BY <2>1, <2>2, <2>3, <2>7, LeasingTakes
    <3>2. Asked(k, c, request[c])[r] = AskFor(c, request[c], r, Available(k, r, PurposeOf[c]))
      <4>1. \A w \in [Resource -> Nat] :
              Asked(k, c, w)[r] = AskFor(c, w, r, Available(k, r, PurposeOf[c]))
        BY <2>1, <2>2, AskedIs
      <4>. QED
        BY <2>1, <4>1, Zenon
    <3>3. Asked(k, c, request[c])[r] >= 1 /\ Asked(k, c, request[c])[r] <= Available(k, r, PurposeOf[c])
      BY <2>3 DEF LeaseAdmitted
    <3>4. Available(k, r, PurposeOf[c]) = Available(h, r, PurposeOf[c])
          /\ \A purpose \in Purpose : Available(k, r, purpose) = Available(h, r, purpose)
      BY <2>1, <2>6
    <3>. QED
      BY <3>1, <3>2, <3>3, <3>4
  <2>. QED
    BY <2>2, <2>5, <2>8 DEF c, h, j
<1>6. ASSUME NEW n \in 0 .. N
      PROVE  g[n].ledger \in Ledger /\ \A i \in n + 1 .. N : g[n].ledger.lease[d[i]].state = "none"
  <2>. DEFINE P(m) == g[m].ledger \in Ledger /\ \A i \in m + 1 .. N : g[m].ledger.lease[d[i]].state = "none"
              B == {m \in Nat : m <= N /\ ~P(m)}
  <2>. SUFFICES ASSUME B # {} PROVE FALSE
    <3>1. n \in Nat /\ n <= N
      BY <1>0
    <3>2. n \notin B => P(n)
      <4>. HIDE DEF P
      <4>. QED
        BY <3>1
    <3>. HIDE DEF B
    <3>. QED
      BY <3>2
  <2>1. PICK m \in B : \A i \in B : m <= i
    <3>1. B \subseteq Nat
      OBVIOUS
    <3>. HIDE DEF B
    <3>. QED
      BY <3>1, LeastNumber
  <2>2. m \in Nat /\ m <= N /\ ~P(m)
    <3>. HIDE DEF P
    <3>. QED
      BY <2>1
  <2>3. m # 0
    <3>1. 0 \in 0 .. N /\ \A i \in 0 + 1 .. N : i \in DOMAIN d
      BY <1>0
    <3>2. g[0].ledger = l
      BY <1>2, <3>1
    <3>3. P(0)
      BY <3>1, <3>2
    <3>. HIDE DEF P
    <3>. QED
      BY <2>2, <3>3
  <2>4. m - 1 \in Nat /\ m - 1 <= N /\ m \in 1 .. N /\ m - 1 \notin B
    <3>. HIDE DEF B
    <3>. QED
      BY <1>0, <2>1, <2>2, <2>3
  <2>5. P(m - 1)
    <3>. HIDE DEF P
    <3>. QED
      BY <2>4
  <2>. HIDE DEF B
  <2>6. g[m - 1].ledger \in Ledger /\ m \in (m - 1) + 1 .. N
        /\ \A i \in m + 1 .. N : i \in (m - 1) + 1 .. N /\ i \in DOMAIN d /\ i # m /\ i \in 1 .. N
    <3>1. g[m - 1].ledger \in Ledger
      BY <2>5
    <3>2. \A i \in 1 .. N : i \in DOMAIN d
      BY <1>0
    <3>3. m \in (m - 1) + 1 .. N
          /\ \A i \in m + 1 .. N : i \in (m - 1) + 1 .. N /\ i # m /\ i \in 1 .. N
      BY <1>0, <2>2, <2>4
    <3>. QED
      BY <3>1, <3>2, <3>3
  <2>7. g[m - 1].ledger.lease[d[m]].state = "none"
        /\ \A i \in m + 1 .. N : g[m - 1].ledger.lease[d[i]].state = "none"
    BY <2>5, <2>6
  <2>8. g[m].ledger \in Ledger
        /\ \A p \in Proc \ {d[m]} : g[m].ledger.lease[p] = g[m - 1].ledger.lease[p]
    BY <1>5, <2>4, <2>6, <2>7
  <2>9. \A i \in m + 1 .. N : d[i] \in Proc \ {d[m]}
    BY <1>0, <2>4, <2>6 DEF Proc
  <2>10. P(m)
    BY <2>7, <2>8, <2>9
  <2>. QED
    BY <2>2, <2>10
<1>. DEFINE v == [n \in 0 .. N |-> [purpose \in Purpose |-> [r \in Resource |->
                                                  Available(g[n].ledger, r, purpose)]]]
<1>7. v \in [0 .. N -> [Purpose -> [Resource -> Nat]]]
  BY <1>6, AvailableIs
<1>8. \A n \in 0 .. N, purpose \in Purpose, r \in Resource :
        v[n][purpose][r] = Available(g[n].ledger, r, purpose)
  OBVIOUS
<1>9. \A purpose \in Purpose, r \in Resource : v[0][purpose][r] <= Available(l, r, purpose)
  <2>1. 0 \in 0 .. N
    BY <1>0
  <2>2. g[0].ledger = l
    BY <1>2, <2>1
  <2>. HIDE DEF v
  <2>. QED
    BY <1>8, <2>1, <2>2, AvailableIs
<1>. HIDE DEF v
<1>10. ASSUME NEW n \in 1 .. N, NEW r \in Resource
       PROVE  LET c == d[n]
                  before == v[n - 1][PurposeOf[c]][r]
                  a == AskFor(c, request[c], r, before)
              IN  /\ a >= 1 /\ a <= before
                  /\ v[n][PurposeOf[c]][r] <= before - a
                  /\ \A purpose \in Purpose \ {PurposeOf[c]} : v[n][purpose][r] <= v[n - 1][purpose][r]
  <2>1. n - 1 \in 0 .. N /\ n \in 0 .. N /\ n \in (n - 1) + 1 .. N /\ d[n] \in Child
        /\ PurposeOf[d[n]] \in Purpose
    BY <1>0, PurposeAssumption
  <2>2. g[n - 1].ledger \in Ledger /\ g[n - 1].ledger.lease[d[n]].state = "none"
    BY <1>6, <2>1
  <2>3. LET a == AskFor(d[n], request[d[n]], r, Available(g[n - 1].ledger, r, PurposeOf[d[n]]))
        IN  /\ a >= 1 /\ a <= Available(g[n - 1].ledger, r, PurposeOf[d[n]])
            /\ Available(g[n].ledger, r, PurposeOf[d[n]])
                 <= Available(g[n - 1].ledger, r, PurposeOf[d[n]]) - a
            /\ \A purpose \in Purpose \ {PurposeOf[d[n]]} :
                 Available(g[n].ledger, r, purpose) <= Available(g[n - 1].ledger, r, purpose)
    BY <1>5, <2>2
  <2>4. \A purpose \in Purpose :
          /\ v[n][purpose][r] = Available(g[n].ledger, r, purpose)
          /\ v[n - 1][purpose][r] = Available(g[n - 1].ledger, r, purpose)
    BY <1>8, <2>1
  <2>. QED
    BY <2>1, <2>3, <2>4
<1>11. Fitting(v, l, d, request)
  BY <1>7, <1>9, <1>10 DEF Fitting, N
<1>. QED
  BY <1>11 DEF Fits

-----------------------------------------------------------------------------
(* The newest of several copies.                                           *)

LEMMA NewestIs ==
  ASSUME NEW C, C \subseteq Ledger, C # {}, NEW b \in Nat, \A l \in C : l.revision <= b
  PROVE  Newest(C) \in C /\ \A l \in C : l.revision <= Newest(C).revision
<1>. DEFINE B == {n \in Nat : \E l \in C : n = b - l.revision}
            First(l) == \A k \in C : \/ k.revision < l.revision
                                     \/ k.revision = l.revision /\ (k.overdue => l.overdue)
<1>1. \A l \in C : l.revision \in Nat /\ b - l.revision \in B
  BY LedgerFields
<1>2. PICK n \in B : \A m \in B : n <= m
  <2>1. B \subseteq Nat /\ B # {}
    BY <1>1
  <2>. HIDE DEF B
  <2>. QED
    BY <2>1, LeastNumber
<1>3. PICK m \in C : n = b - m.revision
  BY <1>2
<1>4. \A k \in C : k.revision <= m.revision
  <2>1. ASSUME NEW k \in C PROVE k.revision <= m.revision
    <3>1. n <= b - k.revision
      BY <1>1, <1>2
    <3>. QED
      BY <1>1, <1>3, <3>1
  <2>. QED
    BY <2>1
<1>5. \E l \in C : First(l)
  <2>1. CASE \E l \in C : l.revision = m.revision /\ l.overdue
    <3>1. PICK l \in C : l.revision = m.revision /\ l.overdue
      BY <2>1
    <3>2. ASSUME NEW k \in C PROVE k.revision < l.revision \/ k.revision = l.revision
      <4>. HIDE DEF B, First
      <4>1. k.revision \in Nat /\ l.revision \in Nat /\ k.revision <= l.revision
        BY <1>1, <1>4, <3>1
      <4>. QED
        BY <4>1
    <3>3. First(l)
      BY <3>1, <3>2
    <3>. QED
      BY <3>3
  <2>2. CASE \A l \in C : l.revision = m.revision => ~l.overdue
    <3>1. ASSUME NEW k \in C PROVE k.revision < m.revision \/ k.revision = m.revision
      <4>. HIDE DEF B, First
      <4>1. k.revision \in Nat /\ m.revision \in Nat /\ k.revision <= m.revision
        BY <1>1, <1>4
      <4>. QED
        BY <4>1
    <3>2. First(m)
      BY <2>2, <3>1
    <3>. QED
      BY <3>2
  <2>. QED
    BY <2>1, <2>2
<1>6. Newest(C) \in C /\ First(Newest(C))
  <2>1. Newest(C) = CHOOSE l \in C : First(l)
    BY DEF Newest
  <2>. HIDE DEF First
  <2>. QED
    BY <1>5, <2>1
<1>. QED
  BY <1>1, <1>6
=============================================================================
