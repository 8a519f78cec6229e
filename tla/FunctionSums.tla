---------------------------- MODULE FunctionSums ----------------------------
(* Facts about SumFunctionOnSet, the sum of a function's values over a finite *)
(* set of its arguments.  The library defines the sum by recursion on the     *)
(* subsets of the set, taking out an element that CHOOSE picks; here the      *)
(* recursion is shown to define a function, and its value not to depend on    *)
(* the elements picked.  Each induction is on the size of a set, as the       *)
(* absence of a least counterexample.                                         *)
EXTENDS Integers, Functions, FiniteSetTheorems, WellFoundedInduction, TLAPS

\* A set of natural numbers that is not empty has a least element.
LEMMA LeastNatural ==
    ASSUME NEW T \in SUBSET Nat, T # {}
    PROVE  \E n \in T : \A m \in T : n <= m
<1> DEFINE R == OpToRel(<, Nat)
<1>1. IsWellFoundedOn(R, Nat)  BY NatLessThanWellFounded, Zenon
<1>2. \A m, n \in Nat : m < n => <<m, n>> \in R  BY DEF OpToRel
<1> HIDE DEF R
<1>3. PICK n \in T : \A m \in T : ~ (<<m, n>> \in R)  BY <1>1, WFMin
<1>4. ASSUME NEW m \in T PROVE n <= m
  <2>1. ~ (m < n)  BY <1>2, <1>3
  <2>2. QED  BY <2>1
<1>5. QED  BY <1>4

\* Of sets that are all finite, one is smallest.
LEMMA LeastSet ==
    ASSUME NEW F, F # {}, \A s \in F : IsFiniteSet(s)
    PROVE  \E s \in F : \A t \in F : Cardinality(s) <= Cardinality(t)
<1> DEFINE T == {Cardinality(s) : s \in F}
<1>1. T \in SUBSET Nat /\ T # {}  BY FS_CardinalityType
<1>2. PICK n \in T : \A m \in T : n <= m  BY <1>1, LeastNatural
<1>3. PICK s \in F : n = Cardinality(s)  OBVIOUS
<1>4. QED  BY <1>2, <1>3

-----------------------------------------------------------------------------
(* The recursion *)

\* The element that the recursion takes out of a set.
Pick(s) == CHOOSE x \in s : TRUE

\* s is a function that sums fun over the subsets of S.
Sums(sum, fun, S) ==
    sum = [s \in SUBSET S |->
              IF s = {} THEN 0 ELSE fun[Pick(s)] + sum[s \ {Pick(s)}]]

\* The recursion at the empty set.
LEMMA SumsEmpty ==
    ASSUME NEW S, NEW fun, NEW sum, Sums(sum, fun, S)
    PROVE  sum[{}] = 0
<1>1. {} \in SUBSET S  OBVIOUS
<1>2. QED  BY <1>1 DEF Sums

\* The recursion at a set that has an element.
LEMMA SumsAt ==
    ASSUME NEW S, NEW fun, NEW sum, Sums(sum, fun, S), NEW s \in SUBSET S, s # {}
    PROVE  sum[s] = fun[Pick(s)] + sum[s \ {Pick(s)}]
<1>1. sum[s] = IF s = {} THEN 0 ELSE fun[Pick(s)] + sum[s \ {Pick(s)}]
  BY DEF Sums
<1>2. QED  BY <1>1

\* An element is taken out of every set that has one, and the rest is smaller.
LEMMA PickFacts ==
    ASSUME NEW s, IsFiniteSet(s), s # {}
    PROVE  /\ Pick(s) \in s
           /\ IsFiniteSet(s \ {Pick(s)})
           /\ Cardinality(s) \in Nat
           /\ Cardinality(s \ {Pick(s)}) = Cardinality(s) - 1
<1>1. Pick(s) \in s  BY DEF Pick
<1>2. QED  BY <1>1, FS_RemoveElement, FS_CardinalityType

\* The recursion defines a function: one for the sets of up to n elements extends to
\* the sets of n + 1.
LEMMA SumsExist ==
    ASSUME NEW S, IsFiniteSet(S), NEW fun
    PROVE  \E sum : Sums(sum, fun, S)
<1> DEFINE Upto(n) == {s \in SUBSET S : Cardinality(s) <= n}
           Rec(sum, s) == IF s = {} THEN 0 ELSE fun[Pick(s)] + sum[s \ {Pick(s)}]
           Good == {n \in Nat : \E sum : sum = [s \in Upto(n) |-> Rec(sum, s)]}
<1>1. \A s \in SUBSET S : IsFiniteSet(s) /\ Cardinality(s) \in Nat
  BY FS_Subset, FS_CardinalityType
<1>2. ASSUME NEW n \in Nat, \A s \in SUBSET S : Cardinality(s) <= n => s = {}
      PROVE  n \in Good
  <2> DEFINE sum == [s \in Upto(n) |-> 0]
  <2>1. sum = [s \in Upto(n) |-> Rec(sum, s)]  BY <1>2
  <2>2. QED  BY <2>1
<1>3. 0 \in Good
  <2>1. ASSUME NEW s \in SUBSET S, Cardinality(s) <= 0 PROVE s = {}
    BY <1>1, <2>1, FS_EmptySet
  <2>2. QED  BY <1>2, <2>1
<1>4. ASSUME NEW n \in Nat, n \in Good PROVE n + 1 \in Good
  <2>1. PICK f : f = [s \in Upto(n) |-> Rec(f, s)]  BY <1>4
  <2> DEFINE g == [s \in Upto(n + 1) |-> Rec(f, s)]
  <2>2. ASSUME NEW s \in Upto(n) PROVE s \in Upto(n + 1) /\ g[s] = f[s]
    <3>1. s \in Upto(n + 1)  BY <1>1
    <3>2. f[s] = Rec(f, s)  BY <2>1
    <3>3. QED  BY <3>1, <3>2
  <2>3. ASSUME NEW s \in Upto(n + 1), s # {} PROVE s \ {Pick(s)} \in Upto(n)
    BY <1>1, <2>3, PickFacts
  <2>4. ASSUME NEW s \in Upto(n + 1) PROVE Rec(g, s) = Rec(f, s)
    <3>1. s # {} => g[s \ {Pick(s)}] = f[s \ {Pick(s)}]  BY <2>2, <2>3
    <3>2. QED  BY <3>1
  <2>5. g = [s \in Upto(n + 1) |-> Rec(g, s)]
    <3> HIDE DEF Rec, Upto
    <3>1. g = [s \in Upto(n + 1) |-> Rec(f, s)]  OBVIOUS
    <3> HIDE DEF g
    <3>2. QED  BY <2>4, <3>1
  <2>6. \E sum : sum = [s \in Upto(n + 1) |-> Rec(sum, s)]
    <3> HIDE DEF g, Rec, Upto
    <3>1. QED  BY <2>5
  <2>7. n + 1 \in Nat  OBVIOUS
  <2>8. QED  BY <2>6, <2>7
<1>5. Good = Nat
  <2> SUFFICES ASSUME Nat \ Good # {} PROVE FALSE
    OBVIOUS
  <2> HIDE DEF Good
  <2>1. PICK n \in Nat \ Good : \A m \in Nat \ Good : n <= m  BY LeastNatural
  <2>2. n # 0  BY <1>3, <2>1
  <2>3. n - 1 \in Nat /\ n - 1 \in Good  BY <2>1, <2>2
  <2>4. (n - 1) + 1 \in Good  BY <1>4, <2>3
  <2>5. (n - 1) + 1 = n  BY <2>1
  <2>6. QED  BY <2>1, <2>4, <2>5
<1>6. Cardinality(S) \in Good  BY <1>1, <1>5
<1>7. PICK sum : sum = [s \in Upto(Cardinality(S)) |-> Rec(sum, s)]  BY <1>6
<1>8. Upto(Cardinality(S)) = SUBSET S  BY FS_Subset
<1>9. sum = [s \in SUBSET S |-> Rec(sum, s)]  BY <1>7, <1>8
<1>10. Sums(sum, fun, S)  BY <1>9 DEF Sums
<1>11. QED  BY <1>10

\* The library's sum is the value of that function.
LEMMA SumIsSums ==
    ASSUME NEW S, IsFiniteSet(S), NEW fun
    PROVE  \E sum : Sums(sum, fun, S) /\ SumFunctionOnSet(fun, S) = sum[S]
<1>1. PICK f : Sums(f, fun, S)  BY SumsExist
<1> DEFINE sum == CHOOSE g : g = [s \in SUBSET S |->
                         IF s = {} THEN 0
                         ELSE LET x == CHOOSE x \in s : TRUE IN fun[x] + g[s \ {x}]]
<1>2. Sums(sum, fun, S)  BY <1>1, Zenon DEF Sums, Pick
<1>3. SumFunctionOnSet(fun, S) = sum[S]
  BY Zenon DEF SumFunctionOnSet, FoldFunctionOnSet, MapThenFoldSet
<1>4. QED  BY <1>2, <1>3

\* Two functions that sum the same values agree.
LEMMA SumsAgree ==
    ASSUME NEW S, NEW fun, NEW sum, Sums(sum, fun, S),
           NEW T, NEW gun, NEW tum, Sums(tum, gun, T),
           NEW s \in SUBSET (S \cap T), IsFiniteSet(s), \A i \in s : fun[i] = gun[i]
    PROVE  sum[s] = tum[s]
<1> DEFINE F == {u \in SUBSET s : sum[u] # tum[u]}
<1> SUFFICES ASSUME F # {} PROVE FALSE
  OBVIOUS
<1>1. \A u \in SUBSET s : IsFiniteSet(u)  BY FS_Subset
<1>2. PICK u \in F : \A v \in F : Cardinality(u) <= Cardinality(v)
  <2> HIDE DEF F
  <2>1. \A v \in F : IsFiniteSet(v)  BY <1>1 DEF F
  <2>2. QED  BY <2>1, LeastSet
<1>3. u \in SUBSET S /\ u \in SUBSET T /\ u \in SUBSET s /\ IsFiniteSet(u)  BY <1>1
<1>4. u # {}
  <2>1. sum[{}] = 0  BY SumsEmpty
  <2>2. tum[{}] = 0  BY SumsEmpty
  <2>3. sum[u] # tum[u]  BY <1>2
  <2>4. QED  BY <2>1, <2>2, <2>3
<1> DEFINE x == Pick(u)
<1>5. x \in u /\ Cardinality(u) \in Nat /\ Cardinality(u \ {x}) = Cardinality(u) - 1
  BY <1>3, <1>4, PickFacts
<1>6. u \ {x} \notin F  BY <1>2, <1>5
<1>7. sum[u \ {x}] = tum[u \ {x}]  BY <1>3, <1>6
<1>8. sum[u] = fun[x] + sum[u \ {x}]  BY <1>3, <1>4, SumsAt
<1>9. tum[u] = gun[x] + tum[u \ {x}]  BY <1>3, <1>4, SumsAt
<1>10. fun[x] = gun[x]  BY <1>3, <1>5
<1>11. QED  BY <1>2, <1>7, <1>8, <1>9, <1>10

\* Sums of natural numbers are natural numbers.
LEMMA SumsNat ==
    ASSUME NEW S, NEW fun, NEW sum, Sums(sum, fun, S),
           NEW s \in SUBSET S, IsFiniteSet(s), \A i \in s : fun[i] \in Nat
    PROVE  sum[s] \in Nat
<1> DEFINE F == {u \in SUBSET s : sum[u] \notin Nat}
<1> SUFFICES ASSUME F # {} PROVE FALSE
  OBVIOUS
<1>1. \A u \in SUBSET s : IsFiniteSet(u)  BY FS_Subset
<1>2. PICK u \in F : \A v \in F : Cardinality(u) <= Cardinality(v)
  <2> HIDE DEF F
  <2>1. \A v \in F : IsFiniteSet(v)  BY <1>1 DEF F
  <2>2. QED  BY <2>1, LeastSet
<1>3. u \in SUBSET S /\ u \in SUBSET s /\ IsFiniteSet(u)  BY <1>1
<1>4. u # {}
  <2>1. sum[{}] = 0  BY SumsEmpty
  <2>2. sum[u] \notin Nat  BY <1>2
  <2>3. QED  BY <2>1, <2>2
<1> DEFINE x == Pick(u)
<1>5. x \in u /\ Cardinality(u) \in Nat /\ Cardinality(u \ {x}) = Cardinality(u) - 1
  BY <1>3, <1>4, PickFacts
<1>6. u \ {x} \notin F  BY <1>2, <1>5
<1>7. sum[u \ {x}] \in Nat /\ fun[x] \in Nat  BY <1>3, <1>5, <1>6
<1>8. sum[u] = fun[x] + sum[u \ {x}]  BY <1>3, <1>4, SumsAt
<1>9. QED  BY <1>2, <1>7, <1>8

\* Any element may be taken out, whichever one the recursion takes.
LEMMA SumsTake ==
    ASSUME NEW S, NEW fun, NEW sum, Sums(sum, fun, S),
           NEW s \in SUBSET S, IsFiniteSet(s), \A i \in s : fun[i] \in Nat, NEW a \in s
    PROVE  sum[s] = fun[a] + sum[s \ {a}]
<1> DEFINE F == {u \in SUBSET s : \E b \in u : sum[u] # fun[b] + sum[u \ {b}]}
<1> SUFFICES ASSUME F # {} PROVE FALSE
  OBVIOUS
<1>1. \A u \in SUBSET s : IsFiniteSet(u) /\ u \in SUBSET S /\ sum[u] \in Nat
  BY FS_Subset, SumsNat
<1>2. PICK u \in F : \A v \in F : Cardinality(u) <= Cardinality(v)
  <2> HIDE DEF F
  <2>1. \A v \in F : IsFiniteSet(v)  BY <1>1 DEF F
  <2>2. QED  BY <2>1, LeastSet
<1>3. u \in SUBSET s  OBVIOUS
<1>4. PICK b \in u : sum[u] # fun[b] + sum[u \ {b}]  OBVIOUS
<1> DEFINE x == Pick(u)
<1>5. x \in u /\ Cardinality(u) \in Nat  BY <1>1, <1>3, <1>4, PickFacts
<1>6. sum[u] = fun[x] + sum[u \ {x}]  BY <1>1, <1>3, <1>4, SumsAt
<1>7. b # x  BY <1>4, <1>6
<1> HIDE DEF x
<1>8. ASSUME NEW y \in u PROVE Cardinality(u \ {y}) = Cardinality(u) - 1
  BY <1>1, <1>3, FS_RemoveElement
<1>9. ASSUME NEW y \in u, NEW z \in u, y # z
      PROVE  sum[u \ {y}] = fun[z] + sum[(u \ {y}) \ {z}]
  <2>1. u \ {y} \notin F
    <3> HIDE DEF F
    <3>1. Cardinality(u \ {y}) = Cardinality(u) - 1  BY <1>8
    <3>2. ~ (Cardinality(u) <= Cardinality(u \ {y}))  BY <1>5, <3>1
    <3>3. QED  BY <1>2, <3>2
  <2>2. z \in u \ {y} /\ u \ {y} \in SUBSET s  BY <1>3, <1>9
  <2>3. QED  BY <2>1, <2>2
<1>10. sum[u \ {x}] = fun[b] + sum[(u \ {x}) \ {b}]  BY <1>5, <1>7, <1>9
<1>11. sum[u \ {b}] = fun[x] + sum[(u \ {b}) \ {x}]  BY <1>5, <1>7, <1>9
<1>12. (u \ {x}) \ {b} = (u \ {b}) \ {x}  OBVIOUS
<1>13. fun[x] \in Nat /\ fun[b] \in Nat /\ sum[(u \ {b}) \ {x}] \in Nat
  BY <1>1, <1>3, <1>5
<1>14. sum[u] = fun[x] + (fun[b] + sum[(u \ {b}) \ {x}])  BY <1>6, <1>10, <1>12
<1>15. fun[b] + sum[u \ {b}] = fun[b] + (fun[x] + sum[(u \ {b}) \ {x}])  BY <1>11
<1>16. sum[u] = fun[b] + sum[u \ {b}]
  <2> HIDE DEF F
  <2>1. \A p, q, w \in Nat : p + (q + w) = q + (p + w)  OBVIOUS
  <2>2. QED  BY <1>13, <1>14, <1>15, <2>1
<1>17. QED  BY <1>4, <1>16

-----------------------------------------------------------------------------
(* The sum *)

\* The sum depends on the values over the set and on nothing else.
LEMMA SumAgrees ==
    ASSUME NEW S, IsFiniteSet(S), NEW fun, NEW gun, \A i \in S : fun[i] = gun[i]
    PROVE  SumFunctionOnSet(fun, S) = SumFunctionOnSet(gun, S)
<1>1. PICK sum : Sums(sum, fun, S) /\ SumFunctionOnSet(fun, S) = sum[S]  BY SumIsSums
<1>2. PICK tum : Sums(tum, gun, S) /\ SumFunctionOnSet(gun, S) = tum[S]  BY SumIsSums
<1>3. S \in SUBSET (S \cap S)  OBVIOUS
<1>4. sum[S] = tum[S]  BY <1>1, <1>2, <1>3, SumsAgree
<1>5. QED  BY <1>1, <1>2, <1>4

\* Nothing sums to nothing.
LEMMA SumEmpty == \A fun : SumFunctionOnSet(fun, {}) = 0
<1> TAKE fun
<1>1. IsFiniteSet({})  BY FS_EmptySet
<1>2. PICK sum : Sums(sum, fun, {}) /\ SumFunctionOnSet(fun, {}) = sum[{}]
  BY <1>1, SumIsSums
<1>3. sum[{}] = 0  BY <1>2, SumsEmpty
<1>4. QED  BY <1>2, <1>3

\* A sum of natural numbers is one.
LEMMA SumNat ==
    ASSUME NEW S, IsFiniteSet(S), NEW fun, \A i \in S : fun[i] \in Nat
    PROVE  SumFunctionOnSet(fun, S) \in Nat
<1>1. PICK sum : Sums(sum, fun, S) /\ SumFunctionOnSet(fun, S) = sum[S]  BY SumIsSums
<1>2. S \in SUBSET S  OBVIOUS
<1>3. sum[S] \in Nat  BY <1>1, <1>2, SumsNat
<1>4. QED  BY <1>1, <1>3

\* An element contributes its value.
LEMMA SumTake ==
    ASSUME NEW S, IsFiniteSet(S), NEW fun, \A i \in S : fun[i] \in Nat, NEW a \in S
    PROVE  SumFunctionOnSet(fun, S) = fun[a] + SumFunctionOnSet(fun, S \ {a})
<1>1. PICK sum : Sums(sum, fun, S) /\ SumFunctionOnSet(fun, S) = sum[S]  BY SumIsSums
<1> DEFINE R == S \ {a}
<1>2. IsFiniteSet(R)  BY FS_RemoveElement
<1>3. PICK tum : Sums(tum, fun, R) /\ SumFunctionOnSet(fun, R) = tum[R]  BY <1>2, SumIsSums
<1>4. S \in SUBSET S /\ R \in SUBSET (S \cap R)  OBVIOUS
<1>5. sum[S] = fun[a] + sum[R]  BY <1>1, <1>4, SumsTake
<1>6. sum[R] = tum[R]
  <2> HIDE DEF R
  <2>1. \A i \in R : fun[i] = fun[i]  OBVIOUS
  <2>2. QED  BY <1>1, <1>2, <1>3, <1>4, <2>1, SumsAgree
<1>7. QED  BY <1>1, <1>3, <1>5, <1>6

\* A sum splits over a set and the rest.
LEMMA SumSplit ==
    ASSUME NEW S, IsFiniteSet(S), NEW fun, \A i \in S : fun[i] \in Nat, NEW T \in SUBSET S
    PROVE  SumFunctionOnSet(fun, S) = SumFunctionOnSet(fun, T) + SumFunctionOnSet(fun, S \ T)
<1> DEFINE Sum(s) == SumFunctionOnSet(fun, s)
           F == {u \in SUBSET T : Sum(S) # Sum(u) + Sum(S \ u)}
<1> SUFFICES ASSUME F # {} PROVE FALSE
  OBVIOUS
<1>1. \A u \in SUBSET S : IsFiniteSet(u) /\ Sum(u) \in Nat
  BY FS_Subset, SumNat
<1>2. PICK u \in F : \A v \in F : Cardinality(u) <= Cardinality(v)
  <2> HIDE DEF F
  <2>1. \A v \in F : IsFiniteSet(v)  BY <1>1 DEF F
  <2>2. QED  BY <2>1, LeastSet
<1>3. u \in SUBSET T /\ u \in SUBSET S /\ Sum(S) # Sum(u) + Sum(S \ u)  OBVIOUS
<1> HIDE DEF Sum
<1>4. u # {}
  <2>1. Sum({}) = 0 /\ S \ {} = S /\ Sum(S) \in Nat  BY <1>1, SumEmpty DEF Sum
  <2>2. QED  BY <1>3, <2>1
<1>5. PICK x : x \in u  BY <1>4
<1> DEFINE v == u \ {x}
<1>6. v \in SUBSET T /\ v \in SUBSET S  BY <1>3
<1>7. v \notin F
  <2>1. Cardinality(u) \in Nat /\ Cardinality(v) = Cardinality(u) - 1
    BY <1>1, <1>3, <1>5, FS_RemoveElement, FS_CardinalityType
  <2> HIDE DEF F, v
  <2>2. ~ (Cardinality(u) <= Cardinality(v))  BY <2>1
  <2>3. QED  BY <1>2, <2>2
<1>8. Sum(S) = Sum(v) + Sum(S \ v)  BY <1>6, <1>7
<1>9. Sum(u) = fun[x] + Sum(v)
  BY <1>1, <1>3, <1>5, SumTake DEF Sum
<1>10. Sum(S \ v) = fun[x] + Sum(S \ u)
  <2> DEFINE w == S \ v
  <2>1. x \in w /\ w \in SUBSET S /\ w \ {x} = S \ u  BY <1>3, <1>5
  <2> HIDE DEF w
  <2>2. IsFiniteSet(w) /\ \A i \in w : fun[i] \in Nat  BY <1>1, <2>1
  <2>3. Sum(w) = fun[x] + Sum(w \ {x})  BY <2>1, <2>2, SumTake DEF Sum
  <2>4. QED  BY <2>1, <2>3 DEF w
<1>11. fun[x] \in Nat /\ Sum(v) \in Nat /\ Sum(S \ u) \in Nat /\ Sum(S \ v) \in Nat
  BY <1>1, <1>3, <1>5, <1>6
<1>12. QED
  <2> HIDE DEF v, F
  <2>1. \A p, q, w \in Nat : q + (p + w) = (p + q) + w  OBVIOUS
  <2>2. Sum(S) = Sum(v) + (fun[x] + Sum(S \ u))  BY <1>8, <1>10
  <2>3. Sum(u) + Sum(S \ u) = (fun[x] + Sum(v)) + Sum(S \ u)  BY <1>9
  <2>4. Sum(S) = Sum(u) + Sum(S \ u)  BY <1>11, <2>1, <2>2, <2>3
  <2>5. QED  BY <1>3, <2>4
=============================================================================
