---------------------------------- MODULE Sums ----------------------------------
(***************************************************************************)
(* Sums of whole numbers over a finite set, as the folds of the community    *)
(* modules compute them: the lemmas the proofs about costs rest on.          *)
(*                                                                         *)
(* A fold is a recursive function on the subsets of its set; what is true of  *)
(* it is proved by induction on the size of a subset.  The induction is       *)
(* carried by a set of numbers, from which the least one left out is taken.   *)
(***************************************************************************)
EXTENDS Integers, FiniteSets, Functions, FiniteSetTheorems, WellFoundedInduction, TLAPS

\* A set of numbers with zero in it and closed under successor holds them all.
LEMMA Induct ==
  ASSUME NEW T, 0 \in T, \A n \in Nat : n \in T => n + 1 \in T
  PROVE  \A n \in Nat : n \in T
<1> DEFINE U == Nat \ T
           R == OpToRel(<, Nat)
<1> SUFFICES ASSUME U # {} PROVE FALSE
  OBVIOUS
<1>1. IsWellFoundedOn(R, Nat)
  BY NatLessThanWellFounded
<1>2. PICK m \in U : \A k \in U : ~ (<<k, m>> \in R)
  <2>1. U \subseteq Nat
    OBVIOUS
  <2> HIDE DEF U, R
  <2> QED
    BY <1>1, <2>1, WFMin
<1>3. m \in Nat /\ m # 0 /\ m - 1 \in Nat /\ m - 1 < m
  OBVIOUS
<1>4. m - 1 \in T
  <2>1. <<m - 1, m>> \in R <=> m - 1 < m
    BY <1>3 DEF OpToRel
  <2> QED
    BY <1>2, <1>3, <2>1
<1> QED
  BY <1>3, <1>4

-----------------------------------------------------------------------------
\* The element a fold takes out of a set.
Pick(t) == CHOOSE x \in t : TRUE

\* g is the sum of the weights w over every set in D; D holds the rest of each.
Adds(g, w, D) ==
  g = [t \in D |-> IF t = {} THEN 0 ELSE w[Pick(t)] + g[t \ {Pick(t)}]]

\* The sums over all subsets of S.
Sums(g, w, S) == Adds(g, w, SUBSET S)

\* The subsets of at most n elements.
UpTo(n, S) == {t \in SUBSET S : Cardinality(t) <= n}

\* It is an element of the set.
LEMMA PickIn == ASSUME NEW t, t # {} PROVE Pick(t) \in t
BY DEF Pick

\* Taking an element out of a finite set takes one from its size.
LEMMA TakenOut ==
  ASSUME NEW S, IsFiniteSet(S), NEW t \in SUBSET S, NEW x \in t
  PROVE  /\ t \ {x} \in SUBSET S
         /\ Cardinality(t) \in Nat /\ Cardinality(t \ {x}) = Cardinality(t) - 1
         /\ Cardinality(t) >= 1 /\ Cardinality(t \ {x}) \in Nat
<1>1. IsFiniteSet(t)
  BY FS_Subset
<1>2. Cardinality(t) \in Nat /\ Cardinality(t \ {x}) = Cardinality(t) - 1 /\ IsFiniteSet(t \ {x})
  BY <1>1, FS_RemoveElement, FS_CardinalityType
<1>3. Cardinality(t \ {x}) \in Nat
  BY <1>2, FS_CardinalityType
<1> QED
  BY <1>2, <1>3

\* The recursion of a fold has a solution on a finite set.
LEMMA SumsExist ==
  ASSUME NEW S, IsFiniteSet(S), NEW w
  PROVE  \E g : Sums(g, w, S)
<1> DEFINE T == {n \in Nat : \E g : Adds(g, w, UpTo(n, S))}
<1>1. 0 \in T
  <2> DEFINE g == [t \in UpTo(0, S) |-> 0]
  <2>1. \A t \in UpTo(0, S) : t = {}
    <3> SUFFICES ASSUME NEW t \in UpTo(0, S), t # {} PROVE FALSE
      OBVIOUS
    <3>1. t \in SUBSET S /\ Cardinality(t) <= 0
      BY DEF UpTo
    <3>2. Cardinality(t) >= 1
      BY <3>1, PickIn, TakenOut
    <3>3. Cardinality(t) \in Nat
      BY <3>1, PickIn, TakenOut
    <3> QED
      BY <3>1, <3>2, <3>3
  <2>2. Adds(g, w, UpTo(0, S))
    BY <2>1 DEF Adds
  <2> QED
    BY <2>2
<1>2. ASSUME NEW n \in Nat, n \in T PROVE n + 1 \in T
  <2>1. PICK g : Adds(g, w, UpTo(n, S))
    BY <1>2
  <2> DEFINE h == [t \in UpTo(n + 1, S) |-> IF t = {} THEN 0 ELSE w[Pick(t)] + g[t \ {Pick(t)}]]
  <2>2. \A t \in UpTo(n + 1, S) : t # {} => t \ {Pick(t)} \in UpTo(n, S)
    <3> SUFFICES ASSUME NEW t \in UpTo(n + 1, S), t # {} PROVE t \ {Pick(t)} \in UpTo(n, S)
      OBVIOUS
    <3>1. t \in SUBSET S /\ Cardinality(t) <= n + 1
      BY DEF UpTo
    <3> QED
      BY <3>1, PickIn, TakenOut DEF UpTo
  <2>3. UpTo(n, S) \subseteq UpTo(n + 1, S)
    <3> SUFFICES ASSUME NEW t \in UpTo(n, S) PROVE t \in UpTo(n + 1, S)
      OBVIOUS
    <3>1. t \in SUBSET S /\ Cardinality(t) <= n
      BY DEF UpTo
    <3>2. Cardinality(t) \in Nat
      BY <3>1, FS_Subset, FS_CardinalityType
    <3> QED
      BY <3>1, <3>2 DEF UpTo
  <2>4. \A t \in UpTo(n, S) : h[t] = g[t]
    BY <2>1, <2>3 DEF Adds
  <2>5. \A t \in UpTo(n + 1, S) : h[t] = IF t = {} THEN 0 ELSE w[Pick(t)] + h[t \ {Pick(t)}]
    BY <2>2, <2>4
  <2>6. Adds(h, w, UpTo(n + 1, S))
    <3>1. h = [t \in UpTo(n + 1, S) |-> h[t]]
      OBVIOUS
    <3> HIDE DEF h
    <3> QED
      BY <3>1, <2>5 DEF Adds
  <2> QED
    BY <2>6
<1>3. Cardinality(S) \in T
  <2> HIDE DEF T
  <2> QED
    BY <1>1, <1>2, Induct, FS_CardinalityType
<1>4. UpTo(Cardinality(S), S) = SUBSET S
  BY FS_Subset DEF UpTo
<1> QED
  BY <1>3, <1>4 DEF Sums

\* What is to be shown of every subset need only be shown of one whose
\* smaller subsets have it: with the element the fold takes out, ...
LEMMA SubsetInduct ==
  ASSUME NEW S, IsFiniteSet(S), NEW Q, {} \in Q,
         \A t \in SUBSET S : t # {} /\ (\A x \in t : t \ {x} \in Q) => t \in Q
  PROVE  SUBSET S \subseteq Q
<1> DEFINE T == {n \in Nat : UpTo(n, S) \subseteq Q}
<1>1. 0 \in T
  <2> SUFFICES ASSUME NEW t \in UpTo(0, S), t # {} PROVE FALSE
    OBVIOUS
  <2>1. t \in SUBSET S /\ Cardinality(t) <= 0
    BY DEF UpTo
  <2>2. Cardinality(t) >= 1 /\ Cardinality(t) \in Nat
    BY <2>1, PickIn, TakenOut
  <2> QED
    BY <2>1, <2>2
<1>2. ASSUME NEW n \in Nat, n \in T PROVE n + 1 \in T
  <2> SUFFICES ASSUME NEW t \in UpTo(n + 1, S), t # {} PROVE t \in Q
    BY <1>2
  <2>1. t \in SUBSET S /\ Cardinality(t) <= n + 1
    BY DEF UpTo
  <2>2. ASSUME NEW x \in t PROVE t \ {x} \in Q
    <3>1. t \ {x} \in UpTo(n, S)
      BY <2>1, TakenOut DEF UpTo
    <3> QED
      BY <1>2, <3>1
  <2> QED
    BY <2>1, <2>2
<1>3. Cardinality(S) \in T
  <2> HIDE DEF T
  <2> QED
    BY <1>1, <1>2, Induct, FS_CardinalityType
<1>4. UpTo(Cardinality(S), S) = SUBSET S
  BY FS_Subset DEF UpTo
<1> QED
  BY <1>3, <1>4

\* The sums of whole numbers are whole numbers.
LEMMA SumsNat ==
  ASSUME NEW S, IsFiniteSet(S), NEW w, \A x \in S : w[x] \in Nat, NEW g, Sums(g, w, S)
  PROVE  \A t \in SUBSET S : g[t] \in Nat
<1>0. /\ g[{}] = 0
      /\ \A t \in SUBSET S : t # {} => Pick(t) \in t /\ g[t] = w[Pick(t)] + g[t \ {Pick(t)}]
  BY PickIn DEF Sums, Adds
<1> DEFINE Q == {t \in SUBSET S : g[t] \in Nat}
<1>1. {} \in Q
  BY <1>0
<1>2. ASSUME NEW t \in SUBSET S, t # {}, \A x \in t : t \ {x} \in Q PROVE t \in Q
  <2>1. PICK p \in t : g[t] = w[p] + g[t \ {p}]
    BY <1>0, <1>2
  <2> QED
    BY <1>2, <2>1
<1>3. SUBSET S \subseteq Q
  <2> HIDE DEF Q
  <2> QED
    BY <1>1, <1>2, SubsetInduct
<1> QED
  BY <1>3

\* Whichever element is taken out first, the sum is the same.
LEMMA SumsTake ==
  ASSUME NEW S, IsFiniteSet(S), NEW w, \A x \in S : w[x] \in Nat, NEW g, Sums(g, w, S)
  PROVE  \A t \in SUBSET S : \A x \in t : g[t] = w[x] + g[t \ {x}]
<1>0. /\ g[{}] = 0
      /\ \A t \in SUBSET S : t # {} => Pick(t) \in t /\ g[t] = w[Pick(t)] + g[t \ {Pick(t)}]
  BY PickIn DEF Sums, Adds
<1> DEFINE Q == {t \in SUBSET S : \A x \in t : g[t] = w[x] + g[t \ {x}]}
<1>1. {} \in Q
  OBVIOUS
<1>2. ASSUME NEW t \in SUBSET S, t # {}, \A x \in t : t \ {x} \in Q PROVE t \in Q
  <2> SUFFICES ASSUME NEW x \in t PROVE g[t] = w[x] + g[t \ {x}]
    OBVIOUS
  <2>1. PICK p \in t : g[t] = w[p] + g[t \ {p}]
    BY <1>0, <1>2
  <2>2. CASE p = x
    BY <2>1, <2>2
  <2>3. CASE p # x
    <3>1. g[t \ {p}] = w[x] + g[(t \ {p}) \ {x}]
      BY <1>2, <2>3
    <3>2. g[t \ {x}] = w[p] + g[(t \ {x}) \ {p}]
      BY <1>2, <2>3
    <3>3. (t \ {p}) \ {x} = (t \ {x}) \ {p}
      OBVIOUS
    <3>4. w[p] \in Nat /\ w[x] \in Nat /\ g[(t \ {x}) \ {p}] \in Nat
      <4>1. t \in SUBSET S /\ x \in S /\ p \in S /\ (t \ {x}) \ {p} \in SUBSET S
        OBVIOUS
      <4> QED
        BY <4>1, SumsNat
    <3> QED
      <4> DEFINE a == w[p]
                 b == w[x]
                 c == g[(t \ {x}) \ {p}]
      <4>1. g[t] = a + (b + c) /\ g[t \ {x}] = a + c
        BY <2>1, <3>1, <3>2, <3>3
      <4>2. a \in Nat /\ b \in Nat /\ c \in Nat
        BY <3>4
      <4> HIDE DEF a, b, c
      <4>3. a + (b + c) = b + (a + c)
        BY <4>2
      <4> QED
        BY <4>1, <4>3 DEF b
  <2> QED
    BY <2>2, <2>3
<1>3. SUBSET S \subseteq Q
  <2> HIDE DEF Q
  <2> QED
    BY <1>1, <1>2, SubsetInduct
<1> QED
  BY <1>3

\* Equal weights add up to the same.
LEMMA SumsAgree ==
  ASSUME NEW S, IsFiniteSet(S), NEW w, NEW v, NEW g, NEW h, Sums(g, w, S), Sums(h, v, S)
  PROVE  \A t \in SUBSET S : (\A x \in t : w[x] = v[x]) => g[t] = h[t]
<1>0. /\ g[{}] = 0
      /\ \A t \in SUBSET S : t # {} => Pick(t) \in t /\ g[t] = w[Pick(t)] + g[t \ {Pick(t)}]
  BY PickIn DEF Sums, Adds
<1>5. /\ h[{}] = 0
      /\ \A t \in SUBSET S : t # {} => Pick(t) \in t /\ h[t] = v[Pick(t)] + h[t \ {Pick(t)}]
  BY PickIn DEF Sums, Adds
<1> DEFINE Q == {t \in SUBSET S : (\A x \in t : w[x] = v[x]) => g[t] = h[t]}
<1>1. {} \in Q
  BY <1>0, <1>5
<1>2. ASSUME NEW t \in SUBSET S, t # {}, \A x \in t : t \ {x} \in Q PROVE t \in Q
  BY <1>0, <1>5, <1>2
<1>3. SUBSET S \subseteq Q
  <2> HIDE DEF Q
  <2> QED
    BY <1>1, <1>2, SubsetInduct
<1> QED
  BY <1>3

\* A fold with + is such a sum.
LEMMA FoldSums ==
  ASSUME NEW S, IsFiniteSet(S), NEW w, DOMAIN w = S
  PROVE  \E g : Sums(g, w, S) /\ FoldFunction(LAMBDA c, sum : c + sum, 0, w) = g[S]
<1> DEFINE g == CHOOSE i : Sums(i, w, S)
<1>1. Sums(g, w, S)
  BY SumsExist
<1>2. FoldFunction(LAMBDA c, sum : c + sum, 0, w) = g[S]
  BY DEF FoldFunction, FoldFunctionOnSet, MapThenFoldSet, Sums, Adds, Pick
<1> QED
  BY <1>1, <1>2

-----------------------------------------------------------------------------
\* The sum of what a function gives to its arguments.
AddUp(w) == FoldFunction(LAMBDA c, sum : c + sum, 0, w)

\* The sum of whole numbers is one.
LEMMA AddUpNat ==
  ASSUME NEW S, IsFiniteSet(S), NEW w \in [S -> Nat]
  PROVE  AddUp(w) \in Nat
<1>1. PICK g : Sums(g, w, S) /\ AddUp(w) = g[S]
  BY FoldSums DEF AddUp
<1> QED
  BY <1>1, SumsNat

\* Nothing adds up to nothing.
LEMMA AddUpZero ==
  ASSUME NEW S, IsFiniteSet(S), NEW w \in [S -> Nat], \A x \in S : w[x] = 0
  PROVE  AddUp(w) = 0
<1>1. PICK g : Sums(g, w, S) /\ AddUp(w) = g[S]
  BY FoldSums DEF AddUp
<1> DEFINE Q == {t \in SUBSET S : g[t] = 0}
<1>2. {} \in Q
  BY <1>1 DEF Sums, Adds
<1>3. ASSUME NEW t \in SUBSET S, t # {}, \A x \in t : t \ {x} \in Q PROVE t \in Q
  <2>1. PICK p \in t : g[t] = w[p] + g[t \ {p}]
    BY <1>1, <1>3, PickIn DEF Sums, Adds
  <2> QED
    BY <1>3, <2>1
<1>4. SUBSET S \subseteq Q
  <2> HIDE DEF Q
  <2> QED
    BY <1>2, <1>3, SubsetInduct
<1> QED
  BY <1>1, <1>4

\* What one argument gains the sum gains.
LEMMA AddUpMoves ==
  ASSUME NEW S, IsFiniteSet(S), NEW w \in [S -> Nat], NEW v \in [S -> Nat],
         NEW x \in S, \A y \in S \ {x} : v[y] = w[y]
  PROVE  AddUp(v) = AddUp(w) - w[x] + v[x]
<1>1. PICK g : Sums(g, w, S) /\ AddUp(w) = g[S]
  BY FoldSums DEF AddUp
<1>2. PICK h : Sums(h, v, S) /\ AddUp(v) = h[S]
  BY FoldSums DEF AddUp
<1>3. g[S] = w[x] + g[S \ {x}] /\ h[S] = v[x] + h[S \ {x}]
  <2>1. (\A y \in S : w[y] \in Nat) /\ (\A y \in S : v[y] \in Nat) /\ S \in SUBSET S
    OBVIOUS
  <2>2. g[S] = w[x] + g[S \ {x}]
    BY <1>1, <2>1, SumsTake
  <2>3. h[S] = v[x] + h[S \ {x}]
    BY <1>2, <2>1, SumsTake
  <2> QED
    BY <2>2, <2>3
<1>4. g[S \ {x}] = h[S \ {x}]
  BY <1>1, <1>2, SumsAgree
<1>5. g[S \ {x}] \in Nat /\ w[x] \in Nat /\ v[x] \in Nat
  BY <1>1, SumsNat
<1> QED
  BY <1>1, <1>2, <1>3, <1>4, <1>5

\* No argument gives more than the sum.
LEMMA AddUpBounds ==
  ASSUME NEW S, IsFiniteSet(S), NEW w \in [S -> Nat], NEW x \in S
  PROVE  w[x] <= AddUp(w)
<1>1. PICK g : Sums(g, w, S) /\ AddUp(w) = g[S]
  BY FoldSums DEF AddUp
<1>2. g[S] = w[x] + g[S \ {x}] /\ g[S \ {x}] \in Nat /\ w[x] \in Nat
  BY <1>1, SumsTake, SumsNat
<1> QED
  BY <1>1, <1>2

\* Arguments that give no more add up to no more.
LEMMA AddUpAtMost ==
  ASSUME NEW S, IsFiniteSet(S), NEW w \in [S -> Nat], NEW v \in [S -> Nat],
         \A x \in S : w[x] <= v[x]
  PROVE  AddUp(w) <= AddUp(v)
<1>1. PICK g : Sums(g, w, S) /\ AddUp(w) = g[S]
  BY FoldSums DEF AddUp
<1>2. PICK h : Sums(h, v, S) /\ AddUp(v) = h[S]
  BY FoldSums DEF AddUp
<1>3. \A t \in SUBSET S : g[t] \in Nat /\ h[t] \in Nat
  BY <1>1, <1>2, SumsNat
<1> DEFINE Q == {t \in SUBSET S : g[t] <= h[t]}
<1>4. {} \in Q
  BY <1>1, <1>2 DEF Sums, Adds
<1>5. ASSUME NEW t \in SUBSET S, t # {}, \A x \in t : t \ {x} \in Q PROVE t \in Q
  <2>1. PICK p \in t : TRUE
    BY <1>5
  <2>2. g[t] = w[p] + g[t \ {p}] /\ h[t] = v[p] + h[t \ {p}]
    BY <1>1, <1>2, SumsTake
  <2>3. w[p] \in Nat /\ v[p] \in Nat /\ w[p] <= v[p] /\ g[t \ {p}] <= h[t \ {p}]
    BY <1>5
  <2>4. g[t \ {p}] \in Nat /\ h[t \ {p}] \in Nat
    BY <1>3
  <2> QED
    BY <2>2, <2>3, <2>4
<1>6. SUBSET S \subseteq Q
  <2> HIDE DEF Q
  <2> QED
    BY <1>4, <1>5, SubsetInduct
<1> QED
  BY <1>1, <1>2, <1>6

\* The sum of the sums is the sum.
LEMMA AddUpPlus ==
  ASSUME NEW S, IsFiniteSet(S), NEW w \in [S -> Nat], NEW v \in [S -> Nat]
  PROVE  AddUp([x \in S |-> w[x] + v[x]]) = AddUp(w) + AddUp(v)
<1> DEFINE u == [x \in S |-> w[x] + v[x]]
<1>0. u \in [S -> Nat] /\ \A x \in S : u[x] = w[x] + v[x]
  OBVIOUS
<1> HIDE DEF u
<1>1. PICK g : Sums(g, w, S) /\ AddUp(w) = g[S]
  BY FoldSums DEF AddUp
<1>2. PICK h : Sums(h, v, S) /\ AddUp(v) = h[S]
  BY FoldSums DEF AddUp
<1>3. PICK k : Sums(k, u, S) /\ AddUp(u) = k[S]
  BY <1>0, FoldSums DEF AddUp
<1>4. \A t \in SUBSET S : g[t] \in Nat /\ h[t] \in Nat
  BY <1>1, <1>2, SumsNat
<1> DEFINE Q == {t \in SUBSET S : k[t] = g[t] + h[t]}
<1>5. {} \in Q
  BY <1>1, <1>2, <1>3 DEF Sums, Adds
<1>6. ASSUME NEW t \in SUBSET S, t # {}, \A x \in t : t \ {x} \in Q PROVE t \in Q
  <2>1. PICK p \in t : TRUE
    BY <1>6
  <2>2. /\ g[t] = w[p] + g[t \ {p}] /\ h[t] = v[p] + h[t \ {p}]
        /\ k[t] = u[p] + k[t \ {p}]
    <3>1. g[t] = w[p] + g[t \ {p}]
      BY <1>1, SumsTake
    <3>2. h[t] = v[p] + h[t \ {p}]
      BY <1>2, SumsTake
    <3>3. k[t] = u[p] + k[t \ {p}]
      BY <1>0, <1>3, SumsTake
    <3> QED
      BY <3>1, <3>2, <3>3
  <2>3. /\ w[p] \in Nat /\ v[p] \in Nat /\ u[p] = w[p] + v[p]
        /\ k[t \ {p}] = g[t \ {p}] + h[t \ {p}]
    BY <1>0, <1>6
  <2>4. g[t \ {p}] \in Nat /\ h[t \ {p}] \in Nat
    BY <1>4
  <2> QED
    BY <2>2, <2>3, <2>4
<1>7. SUBSET S \subseteq Q
  <2> HIDE DEF Q
  <2> QED
    BY <1>5, <1>6, SubsetInduct
<1> QED
  BY <1>1, <1>2, <1>3, <1>7 DEF u

\* Products of whole numbers are whole numbers and distribute over sums.
LEMMA Products ==
  ASSUME NEW a \in Nat, NEW b \in Nat, NEW n \in Nat
  PROVE  a * n \in Nat /\ (a + b) * n = a * n + b * n
OBVIOUS

\* A factor comes out of the sum.
LEMMA AddUpTimes ==
  ASSUME NEW S, IsFiniteSet(S), NEW w \in [S -> Nat], NEW n \in Nat
  PROVE  AddUp([x \in S |-> w[x] * n]) = AddUp(w) * n
<1> DEFINE u == [x \in S |-> w[x] * n]
<1>0. u \in [S -> Nat] /\ \A x \in S : u[x] = w[x] * n
  BY Products
<1> HIDE DEF u
<1>1. PICK g : Sums(g, w, S) /\ AddUp(w) = g[S]
  BY FoldSums DEF AddUp
<1>2. PICK k : Sums(k, u, S) /\ AddUp(u) = k[S]
  BY <1>0, FoldSums DEF AddUp
<1>3. \A t \in SUBSET S : g[t] \in Nat
  BY <1>1, SumsNat
<1> DEFINE Q == {t \in SUBSET S : k[t] = g[t] * n}
<1>4. {} \in Q
  BY <1>1, <1>2 DEF Sums, Adds
<1>5. ASSUME NEW t \in SUBSET S, t # {}, \A x \in t : t \ {x} \in Q PROVE t \in Q
  <2>1. PICK p \in t : TRUE
    BY <1>5
  <2>2. g[t] = w[p] + g[t \ {p}] /\ k[t] = u[p] + k[t \ {p}]
    BY <1>0, <1>1, <1>2, SumsTake
  <2>3. w[p] \in Nat /\ u[p] = w[p] * n /\ k[t \ {p}] = g[t \ {p}] * n
    BY <1>0, <1>5
  <2>4. g[t \ {p}] \in Nat
    BY <1>3
  <2>5. (w[p] + g[t \ {p}]) * n = w[p] * n + g[t \ {p}] * n
    BY <2>3, <2>4, Products
  <2> QED
    BY <2>2, <2>3, <2>5
<1>6. SUBSET S \subseteq Q
  <2> HIDE DEF Q
  <2> QED
    BY <1>4, <1>5, SubsetInduct
<1> QED
  BY <1>1, <1>2, <1>6 DEF u
=============================================================================
