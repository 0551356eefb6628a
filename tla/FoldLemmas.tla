----------------------------- MODULE FoldLemmas -----------------------------
(***************************************************************************)
(* Induction over finite sets, in the form the provers can use: the least  *)
(* member of a set of numbers (the counterexamples of some size).  From    *)
(* it, what the sum of a function over a finite set is, and that a finite  *)
(* set can be put in order.  The models sum balances, deltas and sizes of  *)
(* pools with SumFunctionOnSet, and list rows in the order of a key.       *)
(***************************************************************************)
EXTENDS Integers, FiniteSets, FiniteSetsExt, FiniteSetTheorems,
        WellFoundedInduction, TLAPS

(***************************************************************************)
(* A set of natural numbers that is not empty has a least member.          *)
(***************************************************************************)
LEMMA LeastNumber ==
    ASSUME NEW T \in SUBSET Nat, T # {}
    PROVE  \E n \in T : \A k \in T : n <= k
<1> DEFINE R == OpToRel(<, Nat)
<1>1. IsWellFoundedOn(R, Nat)
  BY NatLessThanWellFounded
<1>2. \E n \in T : \A k \in T : <<k, n>> \notin R
  <2> HIDE DEF R
  <2> QED BY <1>1, WFMin, Zenon
<1>3. \A n, k \in Nat : <<k, n>> \notin R => n <= k
  BY DEF OpToRel
<1> QED BY <1>2, <1>3

(***************************************************************************)
(* A set of finite sets that is not empty has a smallest member.           *)
(***************************************************************************)
LEMMA SmallestSet ==
    ASSUME NEW C, C # {}, \A S \in C : IsFiniteSet(S)
    PROVE  \E S \in C : \A Z \in C : Cardinality(S) <= Cardinality(Z)
<1> DEFINE T == {Cardinality(S) : S \in C}
<1>1. \A S \in C : Cardinality(S) \in Nat
  BY FS_CardinalityType
<1>2. T \in SUBSET Nat /\ T # {}
  BY <1>1
<1>3. PICK n \in T : \A k \in T : n <= k
  <2> HIDE DEF T
  <2> QED BY <1>2, LeastNumber
<1> QED BY <1>3

(***************************************************************************)
(* What remains of a finite set without one of its members is smaller.     *)
(***************************************************************************)
LEMMA OneLess ==
    ASSUME NEW S, IsFiniteSet(S), NEW x \in S
    PROVE  /\ IsFiniteSet(S \ {x}) /\ Cardinality(S \ {x}) \in Nat
           /\ Cardinality(S) \in Nat
           /\ Cardinality(S \ {x}) = Cardinality(S) - 1
           /\ ~(Cardinality(S) <= Cardinality(S \ {x}))
<1>1. IsFiniteSet(S \ {x}) /\ Cardinality(S \ {x}) = Cardinality(S) - 1
  BY FS_RemoveElement
<1>2. Cardinality(S) \in Nat /\ Cardinality(S \ {x}) \in Nat
  BY <1>1, FS_CardinalityType
<1> QED BY <1>1, <1>2

-----------------------------------------------------------------------------
(***************************************************************************)
(* Sums.                                                                   *)
(***************************************************************************)

(***************************************************************************)
(* The member a fold takes first, and the function it folds with.          *)
(***************************************************************************)
Pick(S) == CHOOSE x \in S : TRUE
Iterates(it, f, D) ==
    it = [s \in D |-> IF s = {} THEN 0 ELSE f[Pick(s)] + it[s \ {Pick(s)}]]
Iter(f, U) == CHOOSE it : Iterates(it, f, SUBSET U)

(* A sum is the value of that function at its set. *)
LEMMA SumIsIter ==
    ASSUME NEW f, NEW S
    PROVE  SumFunctionOnSet(f, S) = Iter(f, S)[S]
BY Zenon DEF SumFunctionOnSet, FoldFunctionOnSet, MapThenFoldSet, Iter, Iterates, Pick

(***************************************************************************)
(* The recursion is well defined: there is such a function.                *)
(***************************************************************************)
LEMMA IterExists ==
    ASSUME NEW f, NEW U, IsFiniteSet(U)
    PROVE  \E it : Iterates(it, f, SUBSET U)
<1> DEFINE D(n) == {s \in SUBSET U : Cardinality(s) <= n}
           T == {n \in Nat : ~\E it : Iterates(it, f, D(n))}
<1>1. \A s \in SUBSET U : IsFiniteSet(s) /\ Cardinality(s) \in Nat
                          /\ Cardinality(s) <= Cardinality(U)
  BY FS_Subset, FS_CardinalityType
<1>2. Cardinality(U) \in Nat /\ D(Cardinality(U)) = SUBSET U
  BY <1>1
<1>3. SUFFICES T = {}
  BY <1>2
<1>4. SUFFICES ASSUME T # {} PROVE FALSE
  OBVIOUS
<1>5. PICK n \in T : \A k \in T : n <= k
  <2>1. T \in SUBSET Nat /\ T # {}
    BY <1>4
  <2> HIDE DEF T
  <2> QED BY <2>1, LeastNumber
<1>6. n \in Nat /\ ~\E it : Iterates(it, f, D(n))
  BY <1>5
<1>7. CASE n = 0
  <2> DEFINE it == [s \in D(n) |-> 0]
  <2>1. \A s \in D(n) : s = {}
    BY <1>1, <1>7, FS_EmptySet
  <2>2. Iterates(it, f, D(n))
    BY <2>1 DEF Iterates
  <2> QED BY <2>2, <1>6, Zenon
<1>8. CASE n # 0
  <2>1. n - 1 \in Nat /\ ~(n <= n - 1)
    BY <1>8, <1>6
  <2>2. PICK g : Iterates(g, f, D(n - 1))
    BY <2>1, <1>5
  <2> DEFINE h == [s \in D(n) |-> IF s = {} THEN 0 ELSE f[Pick(s)] + g[s \ {Pick(s)}]]
  <2>3. ASSUME NEW s \in D(n), s # {}
        PROVE  s \ {Pick(s)} \in D(n - 1)
    <3>1. Pick(s) \in s
      BY <2>3 DEF Pick
    <3>2. Cardinality(s \ {Pick(s)}) = Cardinality(s) - 1
      BY <3>1, <1>1, OneLess
    <3> QED BY <3>2, <1>1, <1>6
  <2>4. ASSUME NEW s \in D(n - 1) PROVE g[s] = h[s]
    <3>1. s \in D(n)
      BY <1>1, <1>6
    <3> HIDE DEF D
    <3> QED BY <3>1, <2>2 DEF Iterates
  <2>5. Iterates(h, f, D(n))
    <3>1. h = [s \in D(n) |-> IF s = {} THEN 0 ELSE f[Pick(s)] + h[s \ {Pick(s)}]]
      <4>1. \A s \in D(n) : s # {} => g[s \ {Pick(s)}] = h[s \ {Pick(s)}]
        <5> HIDE DEF h, D
        <5> QED BY <2>3, <2>4
      <4> HIDE DEF D
      <4> QED BY <4>1
    <3> HIDE DEF h, D
    <3> QED BY <3>1 DEF Iterates
  <2> HIDE DEF h, D
  <2> QED BY <2>5, <1>6
<1> QED BY <1>7, <1>8

(* Its value at a set takes the chosen member first. *)
LEMMA IterEquation ==
    ASSUME NEW f, NEW U, IsFiniteSet(U), NEW s \in SUBSET U
    PROVE  Iter(f, U)[s] = IF s = {} THEN 0 ELSE f[Pick(s)] + Iter(f, U)[s \ {Pick(s)}]
<1>1. Iterates(Iter(f, U), f, SUBSET U)
  BY IterExists DEF Iter
<1> QED BY <1>1 DEF Iterates

(***************************************************************************)
(* It does not depend on the set the fold started from.                    *)
(***************************************************************************)
LEMMA IterAgrees ==
    ASSUME NEW f, NEW V, IsFiniteSet(V), NEW W, IsFiniteSet(W)
    PROVE  \A s \in SUBSET (V \cap W) : Iter(f, V)[s] = Iter(f, W)[s]
<1>0. /\ \A s \in SUBSET V :
           Iter(f, V)[s] = IF s = {} THEN 0 ELSE f[Pick(s)] + Iter(f, V)[s \ {Pick(s)}]
      /\ \A s \in SUBSET W :
           Iter(f, W)[s] = IF s = {} THEN 0 ELSE f[Pick(s)] + Iter(f, W)[s \ {Pick(s)}]
  BY IterEquation
<1> DEFINE C == {s \in SUBSET (V \cap W) : Iter(f, V)[s] # Iter(f, W)[s]}
<1>1. \A s \in SUBSET (V \cap W) :
        s \in SUBSET V /\ s \in SUBSET W /\ IsFiniteSet(s)
  BY FS_Subset
<1>2. SUFFICES ASSUME C # {} PROVE FALSE
  OBVIOUS
<1>3. PICK s \in C : \A z \in C : Cardinality(s) <= Cardinality(z)
  <2>1. \A z \in C : IsFiniteSet(z)
    BY <1>1
  <2> HIDE DEF C
  <2> QED BY <1>2, <2>1, SmallestSet
<1>4. s \in SUBSET V /\ s \in SUBSET W /\ IsFiniteSet(s)
  BY <1>1
<1> DEFINE p == Pick(s)
<1>5. /\ Iter(f, V)[s] = (IF s = {} THEN 0 ELSE f[p] + Iter(f, V)[s \ {p}])
      /\ Iter(f, W)[s] = (IF s = {} THEN 0 ELSE f[p] + Iter(f, W)[s \ {p}])
  <2> HIDE <1>3 DEF C
  <2> QED BY <1>0, <1>4
<1>6. s # {}
  BY <1>3, <1>5
<1>7. p \in s
  BY <1>6 DEF Pick
<1>8. s \ {p} \notin C
  BY <1>3, <1>4, <1>7, OneLess
<1>9. Iter(f, V)[s \ {p}] = Iter(f, W)[s \ {p}]
  BY <1>8
<1> QED BY <1>3, <1>5, <1>9

(***************************************************************************)
(* A sum takes one member first ...                                        *)
(***************************************************************************)
LEMMA SumEmpty ==
    ASSUME NEW f
    PROVE  SumFunctionOnSet(f, {}) = 0
<1>1. IsFiniteSet({})
  BY FS_EmptySet
<1> QED BY <1>1, SumIsIter, IterEquation

(* In terms of sums. *)
LEMMA SumPicks ==
    ASSUME NEW f, NEW S, IsFiniteSet(S), S # {}
    PROVE  /\ Pick(S) \in S
           /\ SumFunctionOnSet(f, S) = f[Pick(S)] + SumFunctionOnSet(f, S \ {Pick(S)})
<1> DEFINE p == Pick(S)
<1>1. p \in S
  BY DEF Pick
<1>2. IsFiniteSet(S \ {p})
  BY <1>1, OneLess
<1>3. S \ {p} \in SUBSET (S \cap (S \ {p}))
  OBVIOUS
<1>4. Iter(f, S)[S \ {p}] = Iter(f, S \ {p})[S \ {p}]
  <2> HIDE DEF p
  <2> QED BY <1>2, <1>3, IterAgrees
<1>5. Iter(f, S)[S] = f[p] + Iter(f, S)[S \ {p}]
  BY IterEquation
<1> QED BY <1>1, <1>4, <1>5, SumIsIter

(***************************************************************************)
(* ... and is a number ...                                                 *)
(***************************************************************************)
LEMMA SumType ==
    ASSUME NEW f, NEW U, IsFiniteSet(U), \A x \in U : f[x] \in Int
    PROVE  \A S \in SUBSET U : SumFunctionOnSet(f, S) \in Int
<1> DEFINE C == {S \in SUBSET U : SumFunctionOnSet(f, S) \notin Int}
<1>1. SUFFICES ASSUME C # {} PROVE FALSE
  OBVIOUS
<1>2. \A S \in SUBSET U : IsFiniteSet(S)
  BY FS_Subset
<1>3. PICK S \in C : \A Z \in C : Cardinality(S) <= Cardinality(Z)
  <2>1. \A Z \in C : IsFiniteSet(Z)
    BY <1>2
  <2> HIDE DEF C
  <2> QED BY <1>1, <2>1, SmallestSet
<1>4. S # {}
  BY <1>3, SumEmpty
<1>5. Pick(S) \in S
  BY <1>4 DEF Pick
<1>6. S \ {Pick(S)} \notin C
  BY <1>2, <1>3, <1>5, OneLess
<1>7. SumFunctionOnSet(f, S \ {Pick(S)}) \in Int /\ f[Pick(S)] \in Int
  BY <1>5, <1>6
<1>8. SumFunctionOnSet(f, S) = f[Pick(S)] + SumFunctionOnSet(f, S \ {Pick(S)})
  BY <1>2, <1>4, SumPicks
<1> QED BY <1>3, <1>7, <1>8

(***************************************************************************)
(* ... whichever member is taken first.                                    *)
(***************************************************************************)
LEMMA SumRemoves ==
    ASSUME NEW f, NEW U, IsFiniteSet(U), \A x \in U : f[x] \in Int
    PROVE  \A S \in SUBSET U : \A x \in S :
              SumFunctionOnSet(f, S) = f[x] + SumFunctionOnSet(f, S \ {x})
<1> DEFINE Sum(S) == SumFunctionOnSet(f, S)
           C == {S \in SUBSET U : \E x \in S : Sum(S) # f[x] + Sum(S \ {x})}
<1>1. SUFFICES ASSUME C # {} PROVE FALSE
  OBVIOUS
<1>2. \A S \in SUBSET U : IsFiniteSet(S)
  BY FS_Subset
<1>3. PICK S \in C : \A Z \in C : Cardinality(S) <= Cardinality(Z)
  <2>1. \A Z \in C : IsFiniteSet(Z)
    BY <1>2
  <2> HIDE DEF C
  <2> QED BY <1>1, <2>1, SmallestSet
<1>4. PICK x \in S : Sum(S) # f[x] + Sum(S \ {x})
  BY <1>3
<1> DEFINE p == Pick(S)
<1>5. p \in S /\ Sum(S) = f[p] + Sum(S \ {p})
  BY <1>2, <1>4, SumPicks
<1>6. x # p
  BY <1>4, <1>5
<1>7. S \ {p} \notin C /\ S \ {x} \notin C
  BY <1>2, <1>3, <1>5, OneLess
<1>8. /\ Sum(S \ {p}) = f[x] + Sum((S \ {p}) \ {x})
      /\ Sum(S \ {x}) = f[p] + Sum((S \ {x}) \ {p})
  <2>1. /\ S \ {p} \in SUBSET U /\ x \in S \ {p}
        /\ S \ {x} \in SUBSET U /\ p \in S \ {x}
    BY <1>5, <1>6
  <2> HIDE DEF Sum, p
  <2> QED BY <1>7, <2>1
<1>9. Sum((S \ {p}) \ {x}) = Sum((S \ {x}) \ {p})
  <2>1. (S \ {p}) \ {x} = (S \ {x}) \ {p}
    OBVIOUS
  <2> HIDE DEF Sum, p
  <2> QED BY <2>1
<1>10. f[x] \in Int /\ f[p] \in Int /\ Sum((S \ {x}) \ {p}) \in Int
  BY <1>5, SumType
<1>11. Sum(S) = f[p] + (f[x] + Sum((S \ {x}) \ {p}))
  BY <1>5, <1>8, <1>9, Zenon
<1>12. Sum(S) = f[x] + (f[p] + Sum((S \ {x}) \ {p}))
  <2>1. f[p] + (f[x] + Sum((S \ {x}) \ {p})) = f[x] + (f[p] + Sum((S \ {x}) \ {p}))
    <3> HIDE DEF Sum, p
    <3> QED BY <1>10
  <2> QED BY <1>11, <2>1, Zenon
<1>13. Sum(S) = f[x] + Sum(S \ {x})
  BY <1>8, <1>12, Zenon
<1> QED BY <1>4, <1>13, Zenon

(***************************************************************************)
(* Sums of functions that agree, that differ by zeros, and over sets that  *)
(* correspond.                                                             *)
(***************************************************************************)
LEMMA SumAgrees ==
    ASSUME NEW U, IsFiniteSet(U), NEW f, \A x \in U : f[x] \in Int,
           NEW g, \A x \in U : g[x] = f[x]
    PROVE  \A S \in SUBSET U : SumFunctionOnSet(g, S) = SumFunctionOnSet(f, S)
<1> DEFINE C == {S \in SUBSET U : SumFunctionOnSet(g, S) # SumFunctionOnSet(f, S)}
<1>1. SUFFICES ASSUME C # {} PROVE FALSE
  OBVIOUS
<1>2. \A S \in SUBSET U : IsFiniteSet(S)
  BY FS_Subset
<1>3. PICK S \in C : \A Z \in C : Cardinality(S) <= Cardinality(Z)
  <2>1. \A Z \in C : IsFiniteSet(Z)
    BY <1>2
  <2> HIDE DEF C
  <2> QED BY <1>1, <2>1, SmallestSet
<1>4. S # {}
  BY <1>3, SumEmpty
<1>5. /\ Pick(S) \in S
      /\ SumFunctionOnSet(f, S) = f[Pick(S)] + SumFunctionOnSet(f, S \ {Pick(S)})
      /\ SumFunctionOnSet(g, S) = g[Pick(S)] + SumFunctionOnSet(g, S \ {Pick(S)})
  BY <1>2, <1>4, SumPicks
<1>6. S \ {Pick(S)} \notin C
  BY <1>2, <1>3, <1>5, OneLess
<1>7. SumFunctionOnSet(g, S \ {Pick(S)}) = SumFunctionOnSet(f, S \ {Pick(S)})
  BY <1>6
<1>8. g[Pick(S)] = f[Pick(S)]
  BY <1>5
<1> QED BY <1>3, <1>5, <1>7, <1>8

(* Members that count nothing may be left out. *)
LEMMA SumWithoutZeros ==
    ASSUME NEW f, NEW U, IsFiniteSet(U), \A x \in U : f[x] \in Int,
           NEW Z, \A x \in Z \cap U : f[x] = 0
    PROVE  \A S \in SUBSET U : SumFunctionOnSet(f, S) = SumFunctionOnSet(f, S \ Z)
<1> DEFINE C == {S \in SUBSET U : SumFunctionOnSet(f, S) # SumFunctionOnSet(f, S \ Z)}
<1>1. SUFFICES ASSUME C # {} PROVE FALSE
  OBVIOUS
<1>2. \A S \in SUBSET U : IsFiniteSet(S)
  BY FS_Subset
<1>3. PICK S \in C : \A Y \in C : Cardinality(S) <= Cardinality(Y)
  <2>1. \A Y \in C : IsFiniteSet(Y)
    BY <1>2
  <2> HIDE DEF C
  <2> QED BY <1>1, <2>1, SmallestSet
<1>4. CASE S \cap Z = {}
  <2>1. S \ Z = S
    BY <1>4
  <2> QED BY <1>3, <2>1
<1>5. CASE S \cap Z # {}
  <2>1. PICK x \in S \cap Z : TRUE
    BY <1>5
  <2>2. SumFunctionOnSet(f, S) = f[x] + SumFunctionOnSet(f, S \ {x})
    BY <2>1, SumRemoves
  <2>3. f[x] = 0 /\ SumFunctionOnSet(f, S \ {x}) \in Int
    <3>1. S \ {x} \in SUBSET U /\ x \in Z \cap U
      BY <2>1
    <3> QED BY <3>1, SumType
  <2>4. S \ {x} \notin C
    BY <1>2, <1>3, <2>1, OneLess
  <2>5. (S \ {x}) \ Z = S \ Z
    BY <2>1
  <2>6. SumFunctionOnSet(f, S \ {x}) = SumFunctionOnSet(f, S \ Z)
    BY <2>4, <2>5
  <2> QED BY <1>3, <2>2, <2>3, <2>6
<1> QED BY <1>4, <1>5

(***************************************************************************)
(* b carries the terms of f over U, one by one, to those of g over Z.      *)
(***************************************************************************)
Carries(b, f, U, g, Z) ==
    /\ \A x, y \in U : b[x] = b[y] => x = y
    /\ \A x \in U : b[x] \in Z /\ g[b[x]] = f[x]
    /\ \A z \in Z : \E x \in U : b[x] = z

(* Such sums are equal. *)
LEMMA SumCarried ==
    ASSUME NEW U, IsFiniteSet(U), NEW f, \A x \in U : f[x] \in Int,
           NEW b, NEW g, NEW Z, Carries(b, f, U, g, Z)
    PROVE  IsFiniteSet(Z) /\ SumFunctionOnSet(g, Z) = SumFunctionOnSet(f, U)
<1> DEFINE Im(S) == {b[x] : x \in S}
<1>1. /\ \A x, y \in U : b[x] = b[y] => x = y
      /\ \A x \in U : g[b[x]] = f[x]
  BY DEF Carries
<1>2. \A S \in SUBSET U :
         /\ IsFiniteSet(Im(S))
         /\ SumFunctionOnSet(g, Im(S)) = SumFunctionOnSet(f, S)
  <2> DEFINE C == {S \in SUBSET U : ~(/\ IsFiniteSet(Im(S))
                                      /\ SumFunctionOnSet(g, Im(S)) = SumFunctionOnSet(f, S))}
  <2>1. SUFFICES ASSUME C # {} PROVE FALSE
    OBVIOUS
  <2>2. \A S \in SUBSET U : IsFiniteSet(S)
    BY FS_Subset
  <2>3. PICK S \in C : \A V \in C : Cardinality(S) <= Cardinality(V)
    <3>1. \A V \in C : IsFiniteSet(V)
      BY <2>2
    <3> HIDE DEF C
    <3> QED BY <2>1, <3>1, SmallestSet
  <2>4. S # {}
    <3>1. Im({}) = {}
      OBVIOUS
    <3> QED BY <2>3, <3>1, SumEmpty, FS_EmptySet
  <2> DEFINE p == Pick(S)
  <2>5. /\ p \in S
        /\ SumFunctionOnSet(f, S) = f[p] + SumFunctionOnSet(f, S \ {p})
    BY <2>2, <2>4, SumPicks
  <2>6. S \ {p} \notin C /\ S \ {p} \in SUBSET U
    BY <2>2, <2>3, <2>5, OneLess
  <2>7. /\ IsFiniteSet(Im(S \ {p}))
        /\ SumFunctionOnSet(g, Im(S \ {p})) = SumFunctionOnSet(f, S \ {p})
    BY <2>6
  <2>8. /\ Im(S) = Im(S \ {p}) \cup {b[p]}
        /\ Im(S) \ {b[p]} = Im(S \ {p})
        /\ b[p] \in Im(S)
    <3> HIDE DEF p
    <3> QED BY <1>1, <2>5
  <2>9. IsFiniteSet(Im(S))
    <3> DEFINE Rest == Im(S \ {p})  y == b[p]
    <3>1. IsFiniteSet(Rest) /\ Im(S) = Rest \cup {y}
      BY <2>7, <2>8, Zenon
    <3> HIDE DEF Rest, y
    <3>2. IsFiniteSet(Rest \cup {y})
      BY <3>1, FS_AddElement
    <3> QED BY <3>1, <3>2
  <2>10. SumFunctionOnSet(g, Im(S)) = g[b[p]] + SumFunctionOnSet(g, Im(S) \ {b[p]})
    <3>1. \A y \in Im(S) : g[y] \in Int
      BY <1>1
    <3> DEFINE All == Im(S)  y == b[p]
    <3>2. IsFiniteSet(All) /\ All \in SUBSET All /\ y \in All /\ \A x \in All : g[x] \in Int
      BY <2>8, <2>9, <3>1, Zenon
    <3>3. SumFunctionOnSet(g, All) = g[y] + SumFunctionOnSet(g, All \ {y})
      <4> HIDE DEF All, y
      <4> QED BY <3>2, SumRemoves
    <3> QED BY <3>3, Zenon
  <2>11. g[b[p]] = f[p]
    <3> HIDE DEF p
    <3> QED BY <1>1, <2>5
  <2> QED BY <2>3, <2>5, <2>7, <2>8, <2>9, <2>10, <2>11
<1>3. Z = Im(U)
  BY DEF Carries
<1>4. IsFiniteSet(Im(U)) /\ SumFunctionOnSet(g, Im(U)) = SumFunctionOnSet(f, U)
  BY <1>2
<1> QED BY <1>3, <1>4, Zenon

(***************************************************************************)
(* A sum of natural numbers grows with the set.                            *)
(***************************************************************************)
LEMMA SumGrows ==
    ASSUME NEW f, NEW U, IsFiniteSet(U), \A x \in U : f[x] \in Nat
    PROVE  \A S \in SUBSET U :
              /\ SumFunctionOnSet(f, S) \in Nat
              /\ SumFunctionOnSet(f, S) <= SumFunctionOnSet(f, U)
<1> DEFINE Sum(S) == SumFunctionOnSet(f, S)
           C == {S \in SUBSET U : Sum(S) \notin Nat}
           E == {S \in SUBSET U : ~(Sum(S) <= Sum(U))}
<1>1. \A S \in SUBSET U : IsFiniteSet(S) /\ Sum(S) \in Int
  BY FS_Subset, SumType
<1>2. ASSUME C # {} PROVE FALSE
  <2>1. PICK S \in C : \A Z \in C : Cardinality(S) <= Cardinality(Z)
    <3>1. \A Z \in C : IsFiniteSet(Z)
      BY <1>1
    <3> HIDE DEF C
    <3> QED BY <1>2, <3>1, SmallestSet
  <2>2. S # {}
    BY <2>1, SumEmpty
  <2>3. Pick(S) \in S /\ Sum(S) = f[Pick(S)] + Sum(S \ {Pick(S)})
    BY <1>1, <2>1, <2>2, SumPicks
  <2>4. S \ {Pick(S)} \notin C
    BY <1>1, <2>1, <2>3, OneLess
  <2>5. Sum(S \ {Pick(S)}) \in Nat /\ f[Pick(S)] \in Nat
    BY <2>3, <2>4
  <2> HIDE DEF Sum
  <2> QED BY <2>1, <2>3, <2>5
<1>3. ASSUME E # {} PROVE FALSE
  <2> DEFINE D == {U \ S : S \in E}
  <2>1. PICK R \in D : \A Z \in D : Cardinality(R) <= Cardinality(Z)
    <3>1. D # {} /\ \A Z \in D : IsFiniteSet(Z)
      BY <1>1, <1>3
    <3> HIDE DEF D
    <3> QED BY <3>1, SmallestSet
  <2>2. PICK S \in E : R = U \ S
    BY <2>1
  <2>3. R # {}
    <3>1. R = {} => S = U
      BY <2>2
    <3> QED BY <1>1, <2>2, <3>1
  <2>4. PICK x \in R : TRUE
    BY <2>3
  <2>5. S \cup {x} \in SUBSET U /\ x \notin S /\ U \ (S \cup {x}) = R \ {x}
        /\ (S \cup {x}) \ {x} = S
    BY <2>2, <2>4
  <2>6. S \cup {x} \notin E
    <3>1. R \ {x} \notin D
      <4>1. R \in SUBSET U
        BY <2>2
      <4> HIDE DEF D
      <4> QED BY <1>1, <2>1, <2>4, <4>1, OneLess
    <3> QED BY <2>5, <3>1
  <2>7. Sum(S \cup {x}) = f[x] + Sum(S)
    <3>1. x \in S \cup {x}
      OBVIOUS
    <3>2. SumFunctionOnSet(f, S \cup {x}) = f[x] + SumFunctionOnSet(f, (S \cup {x}) \ {x})
      BY <2>5, <3>1, SumRemoves
    <3> QED BY <2>5, <3>2
  <2>8. f[x] \in Nat /\ Sum(S) \in Int /\ Sum(S \cup {x}) <= Sum(U) /\ Sum(U) \in Int
    BY <1>1, <2>2, <2>4, <2>5, <2>6
  <2>9. ~(Sum(S) <= Sum(U))
    BY <2>2
  <2> HIDE DEF Sum
  <2> QED BY <2>7, <2>8, <2>9
<1> QED BY <1>2, <1>3

(***************************************************************************)
(* The sum over two sets that share nothing.                               *)
(***************************************************************************)
LEMMA SumSplits ==
    ASSUME NEW f, NEW U, IsFiniteSet(U), \A x \in U : f[x] \in Int,
           NEW Z \in SUBSET U
    PROVE  \A S \in SUBSET (U \ Z) :
              SumFunctionOnSet(f, S \cup Z) = SumFunctionOnSet(f, S) + SumFunctionOnSet(f, Z)
<1> DEFINE Sum(S) == SumFunctionOnSet(f, S)
           C == {S \in SUBSET (U \ Z) : Sum(S \cup Z) # Sum(S) + Sum(Z)}
<1>1. SUFFICES ASSUME C # {} PROVE FALSE
  OBVIOUS
<1>2. \A S \in SUBSET (U \ Z) : IsFiniteSet(S) /\ Sum(S) \in Int /\ Sum(S \cup Z) \in Int
  <2>1. \A S \in SUBSET (U \ Z) : S \in SUBSET U /\ S \cup Z \in SUBSET U
    OBVIOUS
  <2> QED BY <2>1, FS_Subset, SumType
<1>3. PICK S \in C : \A Y \in C : Cardinality(S) <= Cardinality(Y)
  <2>1. \A Y \in C : IsFiniteSet(Y)
    BY <1>2
  <2> HIDE DEF C
  <2> QED BY <1>1, <2>1, SmallestSet
<1>4. Sum(Z) \in Int
  BY SumType
<1>5. S # {}
  <2>1. Sum({}) = 0 /\ Z = {} \cup Z
    BY SumEmpty
  <2>2. Sum({} \cup Z) = Sum({}) + Sum(Z)
    <3> HIDE DEF Sum
    <3> QED BY <1>4, <2>1
  <2> QED BY <1>3, <2>2
<1>6. PICK x \in S : TRUE
  BY <1>5
<1>7. S \ {x} \notin C /\ S \ {x} \in SUBSET (U \ Z)
  BY <1>2, <1>3, <1>6, OneLess
<1>8. Sum((S \ {x}) \cup Z) = Sum(S \ {x}) + Sum(Z)
  BY <1>7
<1>9. Sum(S) = f[x] + Sum(S \ {x})
  <2>1. S \in SUBSET U
    BY <1>3
  <2> QED BY <1>6, <2>1, SumRemoves
<1>10. Sum(S \cup Z) = f[x] + Sum((S \ {x}) \cup Z)
  <2>1. S \cup Z \in SUBSET U /\ x \in S \cup Z /\ (S \cup Z) \ {x} = (S \ {x}) \cup Z
    BY <1>3, <1>6
  <2>2. Sum(S \cup Z) = f[x] + Sum((S \cup Z) \ {x})
    <3> HIDE DEF C
    <3> QED BY <2>1, SumRemoves
  <2> QED BY <2>1, <2>2
<1>11. f[x] \in Int /\ Sum(S \ {x}) \in Int
  BY <1>2, <1>3, <1>6, <1>7
<1>12. Sum(S \cup Z) # Sum(S) + Sum(Z)
  BY <1>3
<1> HIDE DEF Sum
<1> QED BY <1>4, <1>8, <1>9, <1>10, <1>11, <1>12

-----------------------------------------------------------------------------
(***************************************************************************)
(* Lists.                                                                  *)
(***************************************************************************)

(***************************************************************************)
(* A finite set that is not empty has a last member, in any total order.   *)
(***************************************************************************)
LEMMA LastMember ==
    ASSUME NEW U, IsFiniteSet(U), NEW R,
           \A x, y \in U : x # y => <<x, y>> \in R \/ <<y, x>> \in R,
           \A x, y, z \in U : <<x, y>> \in R /\ <<y, z>> \in R => <<x, z>> \in R
    PROVE  \A S \in SUBSET U :
              S # {} => \E m \in S : \A x \in S \ {m} : <<x, m>> \in R
<1> DEFINE IsLast(m, S) == \A x \in S \ {m} : <<x, m>> \in R
           C == {S \in SUBSET U : S # {} /\ ~\E m \in S : IsLast(m, S)}
<1>1. SUFFICES ASSUME C # {} PROVE FALSE
  OBVIOUS
<1>2. \A S \in SUBSET U : IsFiniteSet(S)
  BY FS_Subset
<1>3. PICK S \in C : \A Z \in C : Cardinality(S) <= Cardinality(Z)
  <2>1. \A Z \in C : IsFiniteSet(Z)
    BY <1>2
  <2> HIDE DEF C
  <2> QED BY <1>1, <2>1, SmallestSet
<1>4. PICK p \in S : TRUE
  BY <1>3
<1>5. S \ {p} \notin C
  BY <1>2, <1>3, <1>4, OneLess
<1>6. CASE S \ {p} = {}
  BY <1>3, <1>4, <1>6
<1>7. CASE S \ {p} # {}
  <2>1. PICK m \in S \ {p} : IsLast(m, S \ {p})
    BY <1>3, <1>5, <1>7
  <2>2. CASE <<p, m>> \in R
    <3>1. IsLast(m, S)
      BY <2>1, <2>2
    <3> QED BY <1>3, <2>1, <3>1
  <2>3. CASE <<m, p>> \in R
    <3>1. ASSUME NEW x \in S \ {p} PROVE <<x, p>> \in R
      <4>1. x = m \/ <<x, m>> \in R
        BY <2>1
      <4>2. x \in U /\ m \in U /\ p \in U
        BY <1>3, <1>4, <2>1
      <4> QED BY <2>3, <4>1, <4>2
    <3>2. IsLast(p, S)
      BY <3>1
    <3> QED BY <1>3, <1>4, <3>2
  <2> QED BY <1>3, <1>4, <2>1, <2>2, <2>3
<1> QED BY <1>6, <1>7

(***************************************************************************)
(* Max and Min of a finite set of numbers.                                 *)
(***************************************************************************)
LEMMA MaxOf ==
    ASSUME NEW S \in SUBSET Int, IsFiniteSet(S), S # {}
    PROVE  Max(S) \in S /\ \A x \in S : Max(S) >= x
<1> DEFINE R == {p \in Int \X Int : p[1] < p[2]}
<1>1. \A x, y \in S : x # y => <<x, y>> \in R \/ <<y, x>> \in R
  OBVIOUS
<1>2. \A x, y, z \in S : <<x, y>> \in R /\ <<y, z>> \in R => <<x, z>> \in R
  OBVIOUS
<1>3. \E m \in S : \A x \in S \ {m} : <<x, m>> \in R
  <2> HIDE DEF R
  <2>1. \A Z \in SUBSET S : Z # {} => \E m \in Z : \A x \in Z \ {m} : <<x, m>> \in R
    BY <1>1, <1>2, LastMember
  <2> QED BY <2>1
<1>4. PICK m \in S : \A x \in S : m >= x
  <2>1. PICK m \in S : \A x \in S \ {m} : <<x, m>> \in R
    BY <1>3
  <2>2. \A x \in S : x = m \/ x < m
    BY <2>1
  <2>3. \A x \in S : m >= x
    BY <2>2
  <2> QED BY <2>3
<1> QED BY <1>4 DEF Max

(* And the least. *)
LEMMA MinOf ==
    ASSUME NEW S \in SUBSET Nat, S # {}
    PROVE  Min(S) \in S /\ \A x \in S : Min(S) <= x
<1>1. PICK m \in S : \A x \in S : m <= x
  BY LeastNumber
<1> QED BY <1>1 DEF Min

(***************************************************************************)
(* A finite set can be listed in any total order.                          *)
(***************************************************************************)
Lists(s, S, R) ==
    /\ s \in [1 .. Cardinality(S) -> S]
    /\ \A x \in S : \E k \in 1 .. Cardinality(S) : s[k] = x
    /\ \A k, l \in 1 .. Cardinality(S) : k < l => <<s[k], s[l]>> \in R

(* By the least size that has no list. *)
LEMMA ListExists ==
    ASSUME NEW U, IsFiniteSet(U), NEW R,
           \A x, y \in U : x # y => <<x, y>> \in R \/ <<y, x>> \in R,
           \A x, y, z \in U : <<x, y>> \in R /\ <<y, z>> \in R => <<x, z>> \in R
    PROVE  \A S \in SUBSET U : \E s : Lists(s, S, R)
<1> DEFINE C == {S \in SUBSET U : ~\E s : Lists(s, S, R)}
<1>1. SUFFICES ASSUME C # {} PROVE FALSE
  OBVIOUS
<1>2. \A S \in SUBSET U : IsFiniteSet(S)
  BY FS_Subset
<1>3. PICK S \in C : \A Z \in C : Cardinality(S) <= Cardinality(Z)
  <2>1. \A Z \in C : IsFiniteSet(Z)
    BY <1>2
  <2> HIDE DEF C
  <2> QED BY <1>1, <2>1, SmallestSet
<1>4. S # {}
  <2>1. Lists([k \in 1 .. 0 |-> 0], {}, R)
    BY FS_EmptySet DEF Lists
  <2> QED BY <1>3, <2>1
<1>5. PICK m \in S : \A x \in S \ {m} : <<x, m>> \in R
  <2> HIDE DEF C
  <2>1. S \in SUBSET U
    BY <1>3 DEF C
  <2> QED BY <1>4, <2>1, LastMember
<1> DEFINE Rest == S \ {m}  n == Cardinality(S)
<1>6. IsFiniteSet(Rest) /\ n \in Nat /\ Cardinality(Rest) = n - 1 /\ Cardinality(Rest) \in Nat
      /\ ~(n <= Cardinality(Rest))
  BY <1>2, <1>3, <1>5, OneLess
<1>7. Rest \notin C
  BY <1>3, <1>6
<1>8. PICK s : Lists(s, Rest, R)
  BY <1>3, <1>7
<1> DEFINE t == [k \in 1 .. n |-> IF k = n THEN m ELSE s[k]]
<1>9. Lists(t, S, R)
  <2>1. \A k \in 1 .. n : k = n \/ k \in 1 .. Cardinality(Rest)
    BY <1>6
  <2>2. t \in [1 .. n -> S]
    BY <1>8, <2>1 DEF Lists
  <2>3. ASSUME NEW x \in S PROVE \E k \in 1 .. n : t[k] = x
    <3>1. CASE x = m
      BY <1>6, <3>1
    <3>2. CASE x # m
      <4>1. PICK k \in 1 .. Cardinality(Rest) : s[k] = x
        BY <1>8, <3>2 DEF Lists
      <4> QED BY <1>6, <4>1
    <3> QED BY <3>1, <3>2
  <2>4. ASSUME NEW k \in 1 .. n, NEW l \in 1 .. n, k < l PROVE <<t[k], t[l]>> \in R
    <3>1. k # n /\ k \in 1 .. Cardinality(Rest) /\ t[k] = s[k]
      BY <1>6, <2>4
    <3>2. s[k] \in S \ {m}
      BY <1>8, <3>1 DEF Lists
    <3>3. CASE l = n
      BY <1>5, <3>1, <3>2, <3>3
    <3>4. CASE l # n
      <4>1. l \in 1 .. Cardinality(Rest) /\ t[l] = s[l]
        BY <1>6, <3>4
      <4> QED BY <1>8, <2>4, <3>1, <4>1 DEF Lists
    <3> QED BY <3>3, <3>4
  <2> HIDE DEF t
  <2> QED BY <2>2, <2>3, <2>4 DEF Lists
<1> QED BY <1>3, <1>9
=============================================================================
