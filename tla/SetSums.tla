------------------------------ MODULE SetSums -------------------------------
(***************************************************************************)
(* Sums over finite sets.  The specifications add up the quantities of     *)
(* orders, shares and reports with MapThenSumSet, whose definition is a    *)
(* recursive function on the subsets of its argument.  Here it is shown    *)
(* that this function exists and that the sum of a set is what one expects *)
(* it to be: 0 for the empty set, and for every element x the value of x   *)
(* plus the sum of the rest.  FoldFunction(+, 0, f) is the same sum over   *)
(* the domain of f.                                                        *)
(***************************************************************************)
EXTENDS Integers, FiniteSetsExt, FiniteSetTheorems, WellFoundedInduction, TLAPS

(* The sum of f[x] over the elements x of S.                               *)
SumOver(f, S) == MapThenSumSet(LAMBDA x : f[x], S)

(* The element that MapThenSumSet takes first.                             *)
Pick(s) == CHOOSE x \in s : TRUE

(* g is the table of partial sums that MapThenSumSet(f, S) builds.         *)
IsSumTable(f, S, g) ==
    g = [s \in SUBSET S |-> IF s = {} THEN 0 ELSE f[Pick(s)] + g[s \ {Pick(s)}]]

(* A nonempty set of natural numbers has a least element.                  *)
LEMMA LeastNatural ==
    ASSUME NEW T, T \subseteq Nat, T # {}
    PROVE  \E x \in T : \A y \in T : x <= y
<1> DEFINE R == {ss \in Nat \X Nat : ss[1] < ss[2]}
<1>1. IsWellFoundedOn(R, Nat)
  BY NatLessThanWellFounded DEF OpToRel
<1>2. PICK x \in T : \A y \in T : ~(<<y, x>> \in R)
  BY <1>1, WFMin
<1>3. ASSUME NEW y \in T PROVE x <= y
  <2>1. <<y, x>> \in Nat \X Nat
    OBVIOUS
  <2>2. ~(<<y, x>>[1] < <<y, x>>[2])
    BY <1>2, <2>1
  <2> QED BY <2>2
<1> QED BY <1>3

(* Of the finite sets in a nonempty set of sets one has the fewest elements. *)
LEMMA SmallestSet ==
    ASSUME NEW C, C # {}, \A S \in C : IsFiniteSet(S)
    PROVE  \E S \in C : \A T \in C : Cardinality(S) <= Cardinality(T)
<1> DEFINE N == {Cardinality(S) : S \in C}
<1>1. N \subseteq Nat /\ N # {}
  BY FS_CardinalityType
<1>2. PICK n \in N : \A y \in N : n <= y
  BY <1>1, LeastNatural
<1> QED BY <1>2

(* One element less.                                                       *)
LEMMA Fewer ==
    ASSUME NEW S, IsFiniteSet(S), NEW x \in S
    PROVE  /\ IsFiniteSet(S \ {x}) /\ Cardinality(S \ {x}) \in Nat
           /\ Cardinality(S) \in Nat /\ Cardinality(S \ {x}) < Cardinality(S)
<1>1. /\ IsFiniteSet(S \ {x}) /\ Cardinality(S \ {x}) = Cardinality(S) - 1
  BY FS_RemoveElement
<1>2. Cardinality(S) \in Nat /\ Cardinality(S \ {x}) \in Nat
  BY <1>1, FS_CardinalityType
<1> QED BY <1>1, <1>2

(* The set that is left is one of the subsets the table has entries for.   *)
LEMMA PickProperties ==
    ASSUME NEW s, s # {}
    PROVE  Pick(s) \in s
BY DEF Pick

(* Two tables agree wherever both have an entry for a finite set.          *)
LEMMA TableUnique ==
    ASSUME NEW f, NEW S, NEW T, NEW g, NEW h, IsSumTable(f, S, g), IsSumTable(f, T, h),
           NEW t, t \subseteq S, t \subseteq T, IsFiniteSet(t)
    PROVE  g[t] = h[t]
<1> DEFINE C == {u \in SUBSET t : g[u] # h[u]}
<1>1. ASSUME NEW u \in SUBSET t
      PROVE  /\ g[u] = IF u = {} THEN 0 ELSE f[Pick(u)] + g[u \ {Pick(u)}]
             /\ h[u] = IF u = {} THEN 0 ELSE f[Pick(u)] + h[u \ {Pick(u)}]
  BY DEF IsSumTable
<1>2. SUFFICES ASSUME C # {} PROVE FALSE
  OBVIOUS
<1>3. \A u \in C : IsFiniteSet(u)
  BY FS_Subset
<1>4. PICK u \in C : \A w \in C : Cardinality(u) <= Cardinality(w)
  BY <1>2, <1>3, SmallestSet
<1>5. u # {} /\ Pick(u) \in u
  BY <1>1, <1>4, PickProperties
<1>6. u \ {Pick(u)} \notin C
  BY <1>3, <1>4, <1>5, Fewer
<1>7. g[u \ {Pick(u)}] = h[u \ {Pick(u)}]
  BY <1>6
<1> QED BY <1>1, <1>4, <1>5, <1>7

(* Every finite set has a table.                                           *)
LEMMA TableExists ==
    ASSUME NEW f, NEW S, IsFiniteSet(S)
    PROVE  \E g : IsSumTable(f, S, g)
<1> DEFINE C == {u \in SUBSET S : ~\E g : IsSumTable(f, u, g)}
<1>1. SUFFICES ASSUME C # {} PROVE FALSE
  OBVIOUS
<1>2. \A u \in C : IsFiniteSet(u)
  BY FS_Subset
<1>3. PICK u \in C : \A w \in C : Cardinality(u) <= Cardinality(w)
  BY <1>1, <1>2, SmallestSet
<1>4. IsFiniteSet(u) /\ u \subseteq S
  BY <1>2, <1>3
<1> DEFINE T(w) == CHOOSE g : IsSumTable(f, w, g)
           G == [t \in SUBSET u |-> IF t = {} THEN 0
                                    ELSE f[Pick(t)] + T(t \ {Pick(t)})[t \ {Pick(t)}]]
<1>5. ASSUME NEW w, w \subseteq u, w # u
      PROVE  IsFiniteSet(w) /\ IsSumTable(f, w, T(w))
  <2>1. IsFiniteSet(w) /\ Cardinality(w) < Cardinality(u)
    <3>1. /\ IsFiniteSet(w) /\ Cardinality(w) <= Cardinality(u)
          /\ Cardinality(w) # Cardinality(u)
      BY <1>4, <1>5, FS_Subset
    <3>2. Cardinality(w) \in Nat /\ Cardinality(u) \in Nat
      BY <1>4, <3>1, FS_CardinalityType
    <3> QED BY <3>1, <3>2
  <2>2. w \notin C
    <3>1. Cardinality(w) \in Nat /\ Cardinality(u) \in Nat
      BY <1>4, <2>1, FS_CardinalityType
    <3> QED BY <1>3, <2>1, <3>1
  <2>3. \E g : IsSumTable(f, w, g)
    BY <1>4, <1>5, <2>2
  <2> QED BY <2>1, <2>3
<1> HIDE DEF T
<1>6. ASSUME NEW w, w \subseteq u, w # u
      PROVE  T(w)[w] = G[w]
  <2>1. IsFiniteSet(w) /\ IsSumTable(f, w, T(w))
    BY <1>5, <1>6
  <2>2. T(w)[w] = IF w = {} THEN 0 ELSE f[Pick(w)] + T(w)[w \ {Pick(w)}]
    BY <2>1 DEF IsSumTable
  <2>3. G[w] = IF w = {} THEN 0 ELSE f[Pick(w)] + T(w \ {Pick(w)})[w \ {Pick(w)}]
    BY <1>6
  <2>4. CASE w = {}
    BY <2>2, <2>3, <2>4
  <2>5. CASE w # {}
    <3> DEFINE v == w \ {Pick(w)}
    <3>1. v \subseteq w /\ v \subseteq u /\ v # u
      BY <1>6
    <3>2. IsFiniteSet(v) /\ IsSumTable(f, v, T(v))
      BY <1>5, <3>1
    <3>3. T(w)[v] = T(v)[v]
      BY <2>1, <3>1, <3>2, TableUnique
    <3> QED BY <2>2, <2>3, <2>5, <3>3
  <2> QED BY <2>4, <2>5
<1>7. IsSumTable(f, u, G)
  <2>1. ASSUME NEW t \in SUBSET u, t # {}
        PROVE  T(t \ {Pick(t)})[t \ {Pick(t)}] = G[t \ {Pick(t)}]
    <3>1. Pick(t) \in t
      BY <2>1, PickProperties
    <3>2. t \ {Pick(t)} \subseteq u /\ t \ {Pick(t)} # u
      BY <3>1
    <3> QED BY <1>6, <3>2
  <2> QED BY <2>1 DEF IsSumTable
<1> QED BY <1>3, <1>7

(* The sum is the entry of any such table.                                 *)
LEMMA SumIsTable ==
    ASSUME NEW f, NEW S, IsFiniteSet(S), NEW g, IsSumTable(f, S, g)
    PROVE  SumOver(f, S) = g[S]
<1>1. \E h : IsSumTable(f, S, h) /\ SumOver(f, S) = h[S]
  BY DEF SumOver, MapThenSumSet, MapThenFoldSet, IsSumTable, Pick
<1> QED BY <1>1, TableUnique

-----------------------------------------------------------------------------
(* The recursion of the definition: the picked element plus the rest.      *)
LEMMA SumStep ==
    ASSUME NEW f, NEW S, IsFiniteSet(S)
    PROVE  SumOver(f, S) = IF S = {} THEN 0 ELSE f[Pick(S)] + SumOver(f, S \ {Pick(S)})
<1>1. PICK g : IsSumTable(f, S, g)
  BY TableExists
<1>2. SumOver(f, S) = g[S]
  BY <1>1, SumIsTable
<1>3. g[S] = IF S = {} THEN 0 ELSE f[Pick(S)] + g[S \ {Pick(S)}]
  BY <1>1 DEF IsSumTable
<1>4. ASSUME S # {} PROVE g[S \ {Pick(S)}] = SumOver(f, S \ {Pick(S)})
  <2> DEFINE T == S \ {Pick(S)}
  <2>1. T \subseteq S /\ IsFiniteSet(T)
    BY FS_Subset
  <2>2. PICK h : IsSumTable(f, T, h)
    BY <2>1, TableExists
  <2>3. SumOver(f, T) = h[T]
    BY <2>1, <2>2, SumIsTable
  <2>4. g[T] = h[T]
    BY <1>1, <2>1, <2>2, TableUnique
  <2> QED BY <2>3, <2>4
<1> QED BY <1>2, <1>3, <1>4

(* The empty sum.                                                          *)
LEMMA SumEmpty == \A f : SumOver(f, {}) = 0
BY SumStep, FS_EmptySet

(* A sum of integers is an integer.                                        *)
LEMMA SumType ==
    ASSUME NEW f, NEW S, IsFiniteSet(S), \A x \in S : f[x] \in Int
    PROVE  SumOver(f, S) \in Int
<1> DEFINE C == {u \in SUBSET S : SumOver(f, u) \notin Int}
<1>1. SUFFICES ASSUME C # {} PROVE FALSE
  OBVIOUS
<1>2. \A u \in C : IsFiniteSet(u)
  BY FS_Subset
<1>3. PICK u \in C : \A w \in C : Cardinality(u) <= Cardinality(w)
  BY <1>1, <1>2, SmallestSet
<1>4. SumOver(f, u) = IF u = {} THEN 0 ELSE f[Pick(u)] + SumOver(f, u \ {Pick(u)})
  BY <1>2, <1>3, SumStep
<1>5. u # {} /\ Pick(u) \in u
  BY <1>3, <1>4, PickProperties
<1>6. u \ {Pick(u)} \notin C
  BY <1>2, <1>3, <1>5, Fewer
<1> QED BY <1>3, <1>4, <1>5, <1>6

(* Every element can be taken out first.                                   *)
LEMMA SumTakeOut ==
    ASSUME NEW f, NEW S, IsFiniteSet(S), \A x \in S : f[x] \in Int, NEW x \in S
    PROVE  SumOver(f, S) = f[x] + SumOver(f, S \ {x})
<1> DEFINE C == {u \in SUBSET S : \E y \in u : SumOver(f, u) # f[y] + SumOver(f, u \ {y})}
<1>1. SUFFICES ASSUME C # {} PROVE FALSE
  OBVIOUS
<1>2. \A u \in SUBSET S : IsFiniteSet(u)
  BY FS_Subset
<1>3. PICK u \in C : \A w \in C : Cardinality(u) <= Cardinality(w)
  BY <1>1, <1>2, SmallestSet
<1>4. PICK y \in u : SumOver(f, u) # f[y] + SumOver(f, u \ {y})
  BY <1>3
<1> DEFINE c == Pick(u)
           rest == u \ {c, y}
<1>5. c \in u /\ IsFiniteSet(u) /\ u \subseteq S
  BY <1>2, <1>3, <1>4, PickProperties
<1>6. SumOver(f, u) = f[c] + SumOver(f, u \ {c})
  BY <1>5, SumStep
<1> HIDE DEF c
<1>7. c # y
  BY <1>4, <1>6
<1>8. ASSUME NEW z \in u PROVE u \ {z} \notin C
  <2>1. Cardinality(u \ {z}) < Cardinality(u) /\ Cardinality(u) \in Nat /\ Cardinality(u \ {z}) \in Nat
    BY <1>5, Fewer
  <2> HIDE DEF C
  <2> QED BY <1>3, <2>1
<1>9. SumOver(f, u \ {c}) = f[y] + SumOver(f, rest)
  <2>1. y \in u \ {c} /\ u \ {c} \in SUBSET S /\ (u \ {c}) \ {y} = rest
    BY <1>4, <1>5, <1>7
  <2>2. \A z \in u \ {c} : SumOver(f, u \ {c}) = f[z] + SumOver(f, (u \ {c}) \ {z})
    BY <1>5, <1>8, <2>1
  <2> QED BY <2>1, <2>2
<1>10. SumOver(f, u \ {y}) = f[c] + SumOver(f, rest)
  <2>1. c \in u \ {y} /\ u \ {y} \in SUBSET S /\ (u \ {y}) \ {c} = rest
    BY <1>4, <1>5, <1>7
  <2> QED BY <1>4, <1>8, <2>1
<1>11. f[c] \in Int /\ f[y] \in Int /\ SumOver(f, rest) \in Int
  <2>1. rest \in SUBSET S
    BY <1>5
  <2>2. IsFiniteSet(rest)
    BY <1>2, <2>1
  <2> QED BY <1>4, <1>5, <2>1, <2>2, SumType
<1> HIDE DEF C, rest
<1> QED BY <1>4, <1>6, <1>9, <1>10, <1>11

(* A sum of natural numbers is one, and no less than any of them.          *)
LEMMA SumNatural ==
    ASSUME NEW f, NEW S, IsFiniteSet(S), \A x \in S : f[x] \in Nat
    PROVE  SumOver(f, S) \in Nat /\ \A x \in S : f[x] <= SumOver(f, S)
<1> DEFINE C == {u \in SUBSET S : SumOver(f, u) \notin Nat}
<1>1. C = {}
  <2> SUFFICES ASSUME C # {} PROVE FALSE
    OBVIOUS
  <2>1. \A u \in C : IsFiniteSet(u)
    BY FS_Subset
  <2>2. PICK u \in C : \A v \in C : Cardinality(u) <= Cardinality(v)
    BY <2>1, SmallestSet
  <2>3. u # {}
    BY <2>2, SumEmpty
  <2>4. PICK x \in u : TRUE
    BY <2>3
  <2>5. u \ {x} \notin C
    BY <2>1, <2>2, <2>4, Fewer
  <2>6. SumOver(f, u \ {x}) \in Nat
    BY <2>2, <2>5
  <2>7. SumOver(f, u) = f[x] + SumOver(f, u \ {x})
    <3>1. \A y \in u : f[y] \in Int
      BY <2>2
    <3> QED BY <2>1, <2>2, <2>4, <3>1, SumTakeOut
  <2> QED BY <2>2, <2>4, <2>6, <2>7
<1>2. \A u \in SUBSET S : SumOver(f, u) \in Nat
  BY <1>1
<1>3. ASSUME NEW x \in S PROVE f[x] <= SumOver(f, S)
  <2>1. SumOver(f, S) = f[x] + SumOver(f, S \ {x})
    BY <1>3, SumTakeOut
  <2>2. SumOver(f, S \ {x}) \in Nat
    BY <1>2
  <2> QED BY <2>1, <2>2
<1> QED BY <1>2, <1>3

(* One element more.                                                       *)
LEMMA SumAdd ==
    ASSUME NEW f, NEW S, IsFiniteSet(S), NEW x, x \notin S, \A y \in S \cup {x} : f[y] \in Int
    PROVE  SumOver(f, S \cup {x}) = f[x] + SumOver(f, S)
<1>1. IsFiniteSet(S \cup {x}) /\ (S \cup {x}) \ {x} = S
  BY FS_AddElement
<1> QED BY <1>1, SumTakeOut

(* The sum depends on the values of its elements only.                     *)
LEMMA SumSame ==
    ASSUME NEW f, NEW g, NEW S, IsFiniteSet(S), \A x \in S : f[x] = g[x]
    PROVE  SumOver(f, S) = SumOver(g, S)
<1> DEFINE C == {u \in SUBSET S : SumOver(f, u) # SumOver(g, u)}
<1>1. SUFFICES ASSUME C # {} PROVE FALSE
  OBVIOUS
<1>2. \A u \in C : IsFiniteSet(u)
  BY FS_Subset
<1>3. PICK u \in C : \A w \in C : Cardinality(u) <= Cardinality(w)
  BY <1>1, <1>2, SmallestSet
<1>4. /\ SumOver(f, u) = IF u = {} THEN 0 ELSE f[Pick(u)] + SumOver(f, u \ {Pick(u)})
      /\ SumOver(g, u) = IF u = {} THEN 0 ELSE g[Pick(u)] + SumOver(g, u \ {Pick(u)})
  BY <1>2, <1>3, SumStep
<1>5. u # {} /\ Pick(u) \in u
  BY <1>3, <1>4, PickProperties
<1>6. u \ {Pick(u)} \notin C
  BY <1>2, <1>3, <1>5, Fewer
<1> QED BY <1>3, <1>4, <1>5, <1>6

(* Elements of value 0 do not count.                                       *)
LEMMA SumSubset ==
    ASSUME NEW f, NEW S, IsFiniteSet(S), NEW T, T \subseteq S, \A x \in S : f[x] \in Int,
           \A x \in S \ T : f[x] = 0
    PROVE  SumOver(f, T) = SumOver(f, S)
<1> DEFINE C == {u \in SUBSET S : T \subseteq u /\ SumOver(f, u) # SumOver(f, T)}
<1>1. SUFFICES ASSUME C # {} PROVE FALSE
  OBVIOUS
<1>2. \A u \in C : IsFiniteSet(u)
  BY FS_Subset
<1>3. PICK u \in C : \A w \in C : Cardinality(u) <= Cardinality(w)
  BY <1>1, <1>2, SmallestSet
<1>4. PICK x \in u : x \notin T
  BY <1>3
<1>5. SumOver(f, u) = f[x] + SumOver(f, u \ {x})
  BY <1>2, <1>3, <1>4, SumTakeOut
<1>6. u \ {x} \notin C
  BY <1>2, <1>3, <1>4, Fewer
<1>7. SumOver(f, u \ {x}) = SumOver(f, T) /\ f[x] = 0
  BY <1>3, <1>4, <1>6
<1>8. SumOver(f, T) \in Int
  BY SumType, FS_Subset
<1> QED BY <1>3, <1>5, <1>7, <1>8

(* One value changes by d, and the sum with it.                            *)
LEMMA SumShift ==
    ASSUME NEW f, NEW g, NEW S, IsFiniteSet(S), \A y \in S : f[y] \in Int /\ g[y] \in Int,
           NEW x \in S, NEW d \in Int, g[x] = f[x] + d, \A y \in S \ {x} : g[y] = f[y]
    PROVE  SumOver(g, S) = SumOver(f, S) + d
<1> DEFINE rest == S \ {x}
<1>1. IsFiniteSet(rest)
  BY FS_RemoveElement
<1>2. SumOver(f, S) = f[x] + SumOver(f, rest) /\ SumOver(g, S) = g[x] + SumOver(g, rest)
  BY SumTakeOut
<1>3. SumOver(g, rest) = SumOver(f, rest) /\ SumOver(f, rest) \in Int
  BY <1>1, SumSame, SumType
<1> QED BY <1>2, <1>3

-----------------------------------------------------------------------------
(* FoldLeft is a recursive function too, which takes the last place of the *)
(* sequence off first.  g is its table when F is what it does with the     *)
(* value so far at a place of the sequence, and b what it starts with.     *)
IsFoldTable(F, b, S, g) ==
    g = [s \in SUBSET S |-> IF s = {} THEN b ELSE F[<<g[s \ {Max(s)}], Max(s)>>]]

(* A set of places is finite.                                              *)
LEMMA PlacesFinite ==
    \A n \in Nat : \A s \in SUBSET (1 .. n) : IsFiniteSet(s)
<1> SUFFICES ASSUME NEW n \in Nat, NEW s \in SUBSET (1 .. n) PROVE IsFiniteSet(s)
  OBVIOUS
<1>1. IsFiniteSet(1 .. n)
  BY FS_Interval
<1> QED BY <1>1, FS_Subset

(* The last of a set of places.                                            *)
LEMMA MaxProperties ==
    ASSUME NEW n \in Nat, NEW s, s \subseteq 1 .. n, s # {}
    PROVE  Max(s) \in s /\ \A y \in s : Max(s) >= y
<1> DEFINE T == {n - x : x \in s}
<1>1. T \subseteq Nat /\ T # {}
  <2>1. ASSUME NEW x \in s PROVE n - x \in Nat
    <3>1. x \in 1 .. n
      OBVIOUS
    <3> QED BY <3>1
  <2> QED BY <2>1
<1>2. PICK d \in T : \A y \in T : d <= y
  BY <1>1, LeastNatural
<1>3. PICK x \in s : d = n - x
  BY <1>2
<1>4. \A y \in s : x >= y
  <2>1. \A y \in s : n - x <= n - y
    BY <1>2, <1>3
  <2> QED BY <2>1
<1> QED BY <1>4 DEF Max

(* The last of the first k places.                                         *)
LEMMA MaxOfPlaces ==
    ASSUME NEW k \in Nat \ {0}
    PROVE  Max(1 .. k) = k /\ (1 .. k) \ {k} = 1 .. k - 1
<1>1. Max(1 .. k) \in 1 .. k /\ \A y \in 1 .. k : Max(1 .. k) >= y
  <2>1. k \in Nat /\ 1 .. k # {}
    OBVIOUS
  <2> QED BY <2>1, MaxProperties
<1>2. k \in 1 .. k /\ (1 .. k) \ {k} = 1 .. k - 1
  OBVIOUS
<1> QED BY <1>1, <1>2

(* Two tables agree wherever both have an entry.                           *)
LEMMA FoldTableUnique ==
    ASSUME NEW F, NEW b, NEW n \in Nat, NEW S, NEW T, NEW g, NEW h,
           IsFoldTable(F, b, S, g), IsFoldTable(F, b, T, h),
           NEW t, t \subseteq S, t \subseteq T, t \subseteq 1 .. n
    PROVE  g[t] = h[t]
<1> DEFINE C == {u \in SUBSET t : g[u] # h[u]}
<1>1. ASSUME NEW u \in SUBSET t
      PROVE  /\ g[u] = IF u = {} THEN b ELSE F[<<g[u \ {Max(u)}], Max(u)>>]
             /\ h[u] = IF u = {} THEN b ELSE F[<<h[u \ {Max(u)}], Max(u)>>]
  BY DEF IsFoldTable
<1>2. SUFFICES ASSUME C # {} PROVE FALSE
  OBVIOUS
<1>3. \A u \in C : IsFiniteSet(u)
  BY PlacesFinite
<1>4. PICK u \in C : \A w \in C : Cardinality(u) <= Cardinality(w)
  BY <1>2, <1>3, SmallestSet
<1>5. u # {} /\ Max(u) \in u
  BY <1>1, <1>4, MaxProperties
<1>6. u \ {Max(u)} \notin C
  BY <1>3, <1>4, <1>5, Fewer
<1>7. g[u \ {Max(u)}] = h[u \ {Max(u)}]
  BY <1>6
<1> QED BY <1>1, <1>4, <1>5, <1>7

(* There is a table for the places of every sequence.                      *)
LEMMA FoldTableExists ==
    ASSUME NEW F, NEW b, NEW n \in Nat
    PROVE  \E g : IsFoldTable(F, b, 1 .. n, g)
<1> DEFINE S == 1 .. n
           C == {u \in SUBSET S : ~\E g : IsFoldTable(F, b, u, g)}
<1>1. SUFFICES ASSUME C # {} PROVE FALSE
  OBVIOUS
<1>2. \A u \in SUBSET S : IsFiniteSet(u)
  BY PlacesFinite
<1>3. PICK u \in C : \A w \in C : Cardinality(u) <= Cardinality(w)
  BY <1>1, <1>2, SmallestSet
<1>4. IsFiniteSet(u) /\ u \subseteq S
  BY <1>2, <1>3
<1> DEFINE T(w) == CHOOSE g : IsFoldTable(F, b, w, g)
           G == [t \in SUBSET u |-> IF t = {} THEN b
                                    ELSE F[<<T(t \ {Max(t)})[t \ {Max(t)}], Max(t)>>]]
<1>5. ASSUME NEW w, w \subseteq u, w # u
      PROVE  IsFoldTable(F, b, w, T(w))
  <2>1. IsFiniteSet(w) /\ Cardinality(w) < Cardinality(u)
    <3>1. /\ IsFiniteSet(w) /\ Cardinality(w) <= Cardinality(u)
          /\ Cardinality(w) # Cardinality(u)
      BY <1>4, <1>5, FS_Subset
    <3>2. Cardinality(w) \in Nat /\ Cardinality(u) \in Nat
      BY <1>4, <3>1, FS_CardinalityType
    <3> QED BY <3>1, <3>2
  <2>2. w \notin C
    <3>1. Cardinality(w) \in Nat /\ Cardinality(u) \in Nat
      BY <1>4, <2>1, FS_CardinalityType
    <3> QED BY <1>3, <2>1, <3>1
  <2> QED BY <1>4, <1>5, <2>2
<1> HIDE DEF T
<1>6. ASSUME NEW w, w \subseteq u, w # u
      PROVE  T(w)[w] = G[w]
  <2>1. IsFoldTable(F, b, w, T(w))
    BY <1>5, <1>6
  <2>2. T(w)[w] = IF w = {} THEN b ELSE F[<<T(w)[w \ {Max(w)}], Max(w)>>]
    BY <2>1 DEF IsFoldTable
  <2>3. G[w] = IF w = {} THEN b ELSE F[<<T(w \ {Max(w)})[w \ {Max(w)}], Max(w)>>]
    BY <1>6
  <2>4. CASE w = {}
    BY <2>2, <2>3, <2>4
  <2>5. CASE w # {}
    <3> DEFINE v == w \ {Max(w)}
    <3>1. v \subseteq w /\ v \subseteq u /\ v # u
      BY <1>6
    <3>2. IsFoldTable(F, b, v, T(v)) /\ v \subseteq 1 .. n
      BY <1>4, <1>5, <3>1
    <3>3. T(w)[v] = T(v)[v]
      BY <2>1, <3>1, <3>2, FoldTableUnique
    <3> QED BY <2>2, <2>3, <2>5, <3>3
  <2> QED BY <2>4, <2>5
<1>7. IsFoldTable(F, b, u, G)
  <2>1. ASSUME NEW t \in SUBSET u, t # {}
        PROVE  T(t \ {Max(t)})[t \ {Max(t)}] = G[t \ {Max(t)}]
    <3>1. Max(t) \in t
      BY <1>4, <2>1, MaxProperties
    <3>2. t \ {Max(t)} \subseteq u /\ t \ {Max(t)} # u
      BY <3>1
    <3> QED BY <1>6, <3>2
  <2> QED BY <2>1 DEF IsFoldTable
<1> QED BY <1>3, <1>7

(* Its entries are of the type that F keeps.                               *)
LEMMA FoldTableTyped ==
    ASSUME NEW n \in Nat, NEW V, NEW b \in V, NEW F \in [V \X (1 .. n) -> V],
           NEW g, IsFoldTable(F, b, 1 .. n, g), NEW t \in SUBSET (1 .. n)
    PROVE  g[t] \in V
<1> DEFINE C == {u \in SUBSET (1 .. n) : g[u] \notin V}
<1>1. SUFFICES ASSUME C # {} PROVE FALSE
  OBVIOUS
<1>2. \A u \in C : IsFiniteSet(u)
  BY PlacesFinite
<1>3. PICK u \in C : \A w \in C : Cardinality(u) <= Cardinality(w)
  BY <1>1, <1>2, SmallestSet
<1>4. g[u] = IF u = {} THEN b ELSE F[<<g[u \ {Max(u)}], Max(u)>>]
  BY <1>3 DEF IsFoldTable
<1>5. u # {} /\ Max(u) \in u
  BY <1>3, <1>4, MaxProperties
<1>6. u \ {Max(u)} \notin C
  BY <1>2, <1>3, <1>5, Fewer
<1>7. g[u \ {Max(u)}] \in V /\ Max(u) \in 1 .. n
  BY <1>3, <1>5, <1>6
<1>8. F[<<g[u \ {Max(u)}], Max(u)>>] \in V
  BY <1>7
<1> QED BY <1>3, <1>4, <1>5, <1>8

(* h is the table of FoldLeft(+, 0, f), for a sequence of length n.        *)
IsFoldedSum(f, n, h) ==
    h = [s \in SUBSET (1 .. n) |-> IF s = {} THEN 0 ELSE h[s \ {Max(s)}] + f[Max(s)]]

(* There is such a table.                                                  *)
LEMMA FoldedSumExists ==
    ASSUME NEW f, NEW n \in Nat, \A i \in 1 .. n : f[i] \in Int
    PROVE  \E h : IsFoldedSum(f, n, h)
<1> DEFINE F == [z \in Int \X (1 .. n) |-> z[1] + f[z[2]]]
<1>1. F \in [Int \X (1 .. n) -> Int]
  OBVIOUS
<1>2. \A v \in Int, i \in 1 .. n : F[<<v, i>>] = v + f[i]
  OBVIOUS
<1> HIDE DEF F
<1>3. PICK g : IsFoldTable(F, 0, 1 .. n, g)
  BY FoldTableExists
<1>4. ASSUME NEW t \in SUBSET (1 .. n) PROVE g[t] \in Int
  <2>1. 0 \in Int
    OBVIOUS
  <2> QED BY <1>1, <1>3, <2>1, FoldTableTyped
<1>5. ASSUME NEW s \in SUBSET (1 .. n), s # {}
      PROVE  F[<<g[s \ {Max(s)}], Max(s)>>] = g[s \ {Max(s)}] + f[Max(s)]
  <2>1. Max(s) \in 1 .. n /\ s \ {Max(s)} \in SUBSET (1 .. n)
    BY <1>5, MaxProperties
  <2> QED BY <1>2, <1>4, <2>1
<1>6. IsFoldedSum(f, n, g)
  BY <1>3, <1>5 DEF IsFoldTable, IsFoldedSum
<1> QED BY <1>6

(* Adding up the values at the places of a sequence, first to last.        *)
LEMMA FoldedSum ==
    ASSUME NEW f, NEW n \in Nat, \A i \in 1 .. n : f[i] \in Int,
           NEW h, IsFoldedSum(f, n, h), NEW t \in SUBSET (1 .. n)
    PROVE  h[t] = SumOver(f, t)
<1> DEFINE C == {u \in SUBSET (1 .. n) : h[u] # SumOver(f, u)}
<1>1. SUFFICES ASSUME C # {} PROVE FALSE
  OBVIOUS
<1>2. \A u \in SUBSET (1 .. n) : IsFiniteSet(u)
  BY PlacesFinite
<1>3. PICK u \in C : \A w \in C : Cardinality(u) <= Cardinality(w)
  BY <1>1, <1>2, SmallestSet
<1>4. h[u] = IF u = {} THEN 0 ELSE h[u \ {Max(u)}] + f[Max(u)]
  BY <1>3 DEF IsFoldedSum
<1>5. u # {} /\ Max(u) \in u
  BY <1>3, <1>4, MaxProperties, SumEmpty
<1>6. u \ {Max(u)} \notin C
  <2>1. /\ IsFiniteSet(u \ {Max(u)}) /\ Cardinality(u \ {Max(u)}) \in Nat
        /\ Cardinality(u) \in Nat /\ Cardinality(u \ {Max(u)}) < Cardinality(u)
    BY <1>2, <1>3, <1>5, Fewer
  <2> HIDE DEF C
  <2> QED BY <1>3, <2>1
<1>7. h[u \ {Max(u)}] = SumOver(f, u \ {Max(u)})
  BY <1>3, <1>6
<1>8. SumOver(f, u) = f[Max(u)] + SumOver(f, u \ {Max(u)})
  <2>1. IsFiniteSet(u) /\ \A x \in u : f[x] \in Int
    BY <1>2, <1>3
  <2>2. \A x \in u : SumOver(f, u) = f[x] + SumOver(f, u \ {x})
    BY <2>1, SumTakeOut
  <2> QED BY <1>5, <2>2
<1>9. f[Max(u)] \in Int /\ SumOver(f, u \ {Max(u)}) \in Int
  <2>1. u \ {Max(u)} \in SUBSET (1 .. n) /\ Max(u) \in 1 .. n
    BY <1>3, <1>5
  <2>2. IsFiniteSet(u \ {Max(u)}) /\ \A x \in u \ {Max(u)} : f[x] \in Int
    BY <1>2, <2>1
  <2> QED BY <2>1, <2>2, SumType
<1>10. h[u] # SumOver(f, u)
  BY <1>3
<1> HIDE DEF C
<1> QED BY <1>4, <1>5, <1>7, <1>8, <1>9, <1>10
=============================================================================
