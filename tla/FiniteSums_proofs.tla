-------------------------- MODULE FiniteSums_proofs --------------------------
(***************************************************************************)
(* Sums over finite sets, as the models take them: SumFunctionOnSet of the *)
(* community modules, which adds in an order it does not tell.  The lemmas *)
(* say that the order does not matter and what one more summand does.      *)
(*                                                                         *)
(* Induction on a set is a least counterexample: among the bad subsets of  *)
(* a finite set there is one that no bad set is a part of.                 *)
(***************************************************************************)
EXTENDS Functions, Integers, FiniteSetTheorems, WellFoundedInduction, TLAPS

\* A nonempty set of naturals has a least element.
LEMMA Smallest ==
    ASSUME NEW S \in SUBSET Nat, S # {}
    PROVE  \E n \in S : \A m \in S : n <= m
<1> DEFINE R == {pair \in Nat \X Nat : pair[1] < pair[2]}
<1>1. IsWellFoundedOn(R, Nat)
  BY NatLessThanWellFounded DEF OpToRel
<1>2. PICK n \in S : \A m \in S : <<m, n>> \notin R
  <2> HIDE DEF R
  <2> QED
    BY <1>1, WFMin
<1>3. ASSUME NEW m \in S, m < n PROVE <<m, n>> \in R
  BY <1>3
<1> QED
  <2> HIDE DEF R
  <2>1. \A m \in S : ~ (m < n)
    BY <1>2, <1>3
  <2> QED
    BY <2>1

\* Of a nonempty family of subsets of a finite set, one has no other below it.
LEMMA SmallestSubset ==
    ASSUME NEW S, IsFiniteSet(S), NEW Bad \in SUBSET SUBSET S, Bad # {}
    PROVE  \E T \in Bad : \A U \in Bad : U \subseteq T => U = T
<1> DEFINE Sizes == {Cardinality(T) : T \in Bad}
<1>1. \A T \in Bad : IsFiniteSet(T) /\ Cardinality(T) \in Nat
  BY FS_Subset, FS_CardinalityType
<1>2. PICK n \in Sizes : \A m \in Sizes : n <= m
  <2>1. Sizes \in SUBSET Nat /\ Sizes # {}
    BY <1>1
  <2> HIDE DEF Sizes
  <2> QED
    BY <2>1, Smallest
<1>3. PICK T \in Bad : n = Cardinality(T)
  BY <1>2
<1>4. ASSUME NEW U \in Bad, U \subseteq T PROVE U = T
  <2>1. Cardinality(T) <= Cardinality(U)
    BY <1>2, <1>3
  <2>2. Cardinality(U) <= Cardinality(T) /\ (Cardinality(T) = Cardinality(U) => T = U)
    BY <1>1, <1>4, FS_Subset
  <2> QED
    BY <1>1, <2>1, <2>2
<1> QED
  BY <1>4

\* One element of a nonempty finite set is the greatest by an integer measure.
LEMMA GreatestBy ==
    ASSUME NEW S, IsFiniteSet(S), S # {}, NEW f, \A x \in S : f[x] \in Int
    PROVE  \E m \in S : \A n \in S : f[n] <= f[m]
<1> DEFINE Bad == {T \in SUBSET S : T # {} /\ ~ \E m \in T : \A n \in T : f[n] <= f[m]}
<1>1. ASSUME Bad # {} PROVE FALSE
  <2>1. PICK T \in Bad : \A U \in Bad : U \subseteq T => U = T
    <3>1. Bad \in SUBSET SUBSET S
      OBVIOUS
    <3> HIDE DEF Bad
    <3> QED
      BY <1>1, <3>1, SmallestSubset
  <2>2. PICK x \in T : f[x] \in Int
    OBVIOUS
  <2>3. T \ {x} \notin Bad
    BY <2>1, <2>2
  <2>4. CASE T \ {x} = {}
    BY <2>2, <2>4
  <2>5. CASE T \ {x} # {}
    <3>1. PICK m \in T \ {x} : \A n \in T \ {x} : f[n] <= f[m]
      BY <2>3, <2>5
    <3>2. CASE f[x] <= f[m]
      BY <2>2, <3>1, <3>2
    <3>3. CASE f[m] < f[x]
      <4>1. \A n \in T : f[n] <= f[x]
        BY <2>2, <3>1, <3>3
      <4> QED
        BY <2>2, <4>1
    <3> QED
      BY <2>2, <3>1, <3>2, <3>3
  <2> QED
    BY <2>4, <2>5
<1> QED
  BY <1>1
-----------------------------------------------------------------------------
(* What the fold computes.                                                 *)

First(s) == CHOOSE x \in s : TRUE

IsIter(f, S, g) ==
    g = [s \in SUBSET S |-> IF s = {} THEN 0 ELSE LET x == First(s) IN f[x] + g[s \ {x}]]

Iter(f, S) == CHOOSE g : IsIter(f, S, g)

LEMMA SumIsIter ==
    ASSUME NEW f, NEW S
    PROVE  SumFunctionOnSet(f, S) = Iter(f, S)[S]
BY DEF SumFunctionOnSet, FoldFunctionOnSet, MapThenFoldSet, IsIter, Iter, First

LEMMA IterStep ==
    ASSUME NEW f, NEW S, NEW g, IsIter(f, S, g)
    PROVE  /\ g[{}] = 0
           /\ \A s \in SUBSET S : s # {} =>
                 /\ First(s) \in s /\ s \ {First(s)} \in SUBSET S
                 /\ g[s] = f[First(s)] + g[s \ {First(s)}]
<1>1. g = [s \in SUBSET S |-> IF s = {} THEN 0 ELSE f[First(s)] + g[s \ {First(s)}]]
  BY DEF IsIter
<1>2. ASSUME NEW s \in SUBSET S, s # {} PROVE First(s) \in s
  BY <1>2 DEF First
<1>3. ASSUME NEW s \in SUBSET S
      PROVE  g[s] = IF s = {} THEN 0 ELSE f[First(s)] + g[s \ {First(s)}]
  BY <1>1
<1> QED
  BY <1>2, <1>3

LEMMA IterAgrees ==
    ASSUME NEW f, NEW S, NEW T, NEW g, NEW h, IsIter(f, S, g), IsIter(f, T, h), IsFiniteSet(S)
    PROVE  \A s \in SUBSET (S \cap T) : g[s] = h[s]
<1> DEFINE Bad == {s \in SUBSET (S \cap T) : g[s] # h[s]}
<1>1. ASSUME Bad # {} PROVE FALSE
  <2>1. PICK s \in Bad : \A u \in Bad : u \subseteq s => u = s
    <3>1. IsFiniteSet(S \cap T) /\ Bad \in SUBSET SUBSET (S \cap T)
      BY FS_Subset
    <3> HIDE DEF Bad
    <3> QED
      BY <1>1, <3>1, SmallestSubset
  <2>2. s # {}
    <3>1. g[{}] = 0 /\ h[{}] = 0
      BY IterStep
    <3> QED
      BY <2>1, <3>1
  <2>3. /\ First(s) \in s /\ g[s] = f[First(s)] + g[s \ {First(s)}] /\ h[s] = f[First(s)] + h[s \ {First(s)}]
    BY <2>2, IterStep
  <2>4. s \ {First(s)} \notin Bad
    BY <2>1, <2>3
  <2> QED
    BY <2>3, <2>4
<1> QED
  BY <1>1

LEMMA IterExists ==
    ASSUME NEW f, NEW S, IsFiniteSet(S)
    PROVE  IsIter(f, S, Iter(f, S))
<1> DEFINE Bad == {T \in SUBSET S : ~ \E g : IsIter(f, T, g)}
<1>1. ASSUME Bad # {} PROVE FALSE
  <2>1. PICK T \in Bad : \A U \in Bad : U \subseteq T => U = T
    <3>1. Bad \in SUBSET SUBSET S
      OBVIOUS
    <3> HIDE DEF Bad
    <3> QED
      BY <1>1, <3>1, SmallestSubset
  <2>2. ASSUME NEW U \in SUBSET T, U # T PROVE IsIter(f, U, Iter(f, U)) /\ IsFiniteSet(U)
    <3>1. \E g : IsIter(f, U, g)
      BY <2>1, <2>2
    <3>2. IsFiniteSet(U)
      BY FS_Subset
    <3> QED
      BY <3>1, <3>2 DEF Iter
  <2> DEFINE part(s) == Iter(f, s \ {First(s)})[s \ {First(s)}]
             h == [s \in SUBSET T |-> IF s = {} THEN 0 ELSE f[First(s)] + part(s)]
  <2>3. ASSUME NEW s \in SUBSET T, s # {} PROVE h[s \ {First(s)}] = part(s)
    <3>0. PICK u : u = s \ {First(s)}
      OBVIOUS
    <3>1. First(s) \in s /\ u \in SUBSET T /\ u # T
      BY <2>3, <3>0 DEF First
    <3>2. IsIter(f, u, Iter(f, u)) /\ IsFiniteSet(u)
      BY <2>2, <3>1
    <3>3. CASE u = {}
      <4>1. PICK g : g = Iter(f, u)
        OBVIOUS
      <4>2. g[{}] = 0
        BY <3>2, <4>1, IterStep
      <4>3. h[u] = 0 /\ part(s) = g[u]
        BY <3>0, <3>1, <3>3, <4>1
      <4> QED
        BY <3>0, <3>3, <4>2, <4>3
    <3>4. CASE u # {}
      <4>0. PICK t : t = u \ {First(u)}
        OBVIOUS
      <4>1. First(u) \in u /\ Iter(f, u)[u] = f[First(u)] + Iter(f, u)[t]
        BY <3>2, <3>4, <4>0, IterStep
      <4>2. t \in SUBSET T /\ t # T /\ t \in SUBSET (u \cap t)
        BY <3>1, <4>0, <4>1
      <4>3. IsIter(f, t, Iter(f, t))
        BY <2>2, <4>2
      <4>4. Iter(f, u)[t] = Iter(f, t)[t]
        <5> DEFINE gu == Iter(f, u)
                   gt == Iter(f, t)
        <5> HIDE DEF gu, gt
        <5>1. IsIter(f, u, gu) /\ IsIter(f, t, gt)
          BY <3>2, <4>3 DEF gu, gt
        <5>2. gu[t] = gt[t]
          BY <3>2, <4>2, <5>1, IterAgrees
        <5> QED
          BY <5>2 DEF gu, gt
      <4>5. h[u] = f[First(u)] + Iter(f, t)[t]
        BY <3>1, <3>4, <4>0
      <4> QED
        BY <3>0, <4>1, <4>4, <4>5
    <3> QED
      BY <3>3, <3>4
  <2>4. IsIter(f, T, h)
    <3>1. h = [s \in SUBSET T |-> IF s = {} THEN 0 ELSE f[First(s)] + h[s \ {First(s)}]]
      BY <2>3
    <3> QED
      BY <3>1 DEF IsIter
  <2> QED
    BY <2>1, <2>4
<1>2. S \notin Bad
  BY <1>1
<1> QED
  BY <1>2 DEF Iter

LEMMA SumUnfolds ==
    ASSUME NEW f, NEW S, IsFiniteSet(S)
    PROVE  /\ S = {} => SumFunctionOnSet(f, S) = 0
           /\ S # {} => /\ First(S) \in S
                        /\ SumFunctionOnSet(f, S) = f[First(S)] + SumFunctionOnSet(f, S \ {First(S)})
<1>0. PICK g, T, h : g = Iter(f, S) /\ T = S \ {First(S)} /\ h = Iter(f, T)
  OBVIOUS
<1>1. IsFiniteSet(T) /\ T \in SUBSET (S \cap T)
  BY <1>0, FS_Subset
<1>2. IsIter(f, S, g) /\ IsIter(f, T, h)
  BY <1>0, <1>1, IterExists
<1>3. g[T] = h[T]
  BY <1>1, <1>2, IterAgrees
<1>4. SumFunctionOnSet(f, S) = g[S] /\ SumFunctionOnSet(f, T) = h[T]
  BY <1>0, SumIsIter
<1>5. /\ g[{}] = 0
      /\ S # {} => First(S) \in S /\ g[S] = f[First(S)] + g[T]
  BY <1>0, <1>2, IterStep
<1> QED
  BY <1>0, <1>3, <1>4, <1>5
-----------------------------------------------------------------------------
(* What users of sums may rely on.                                         *)

\* The sum of no summands.
LEMMA SumOfNone ==
    ASSUME NEW f
    PROVE  SumFunctionOnSet(f, {}) = 0
BY SumUnfolds, FS_EmptySet

\* A sum of integers is one.
LEMMA SumType ==
    ASSUME NEW f, NEW S, IsFiniteSet(S), \A x \in S : f[x] \in Int
    PROVE  SumFunctionOnSet(f, S) \in Int
<1> DEFINE Bad == {T \in SUBSET S : SumFunctionOnSet(f, T) \notin Int}
<1>1. ASSUME Bad # {} PROVE FALSE
  <2>1. PICK T \in Bad : \A U \in Bad : U \subseteq T => U = T
    <3>1. Bad \in SUBSET SUBSET S
      OBVIOUS
    <3> HIDE DEF Bad
    <3> QED
      BY <1>1, <3>1, SmallestSubset
  <2>2. IsFiniteSet(T)
    BY FS_Subset
  <2>3. T # {}
    BY SumOfNone
  <2>4. First(T) \in T /\ SumFunctionOnSet(f, T) = f[First(T)] + SumFunctionOnSet(f, T \ {First(T)})
    BY <2>2, <2>3, SumUnfolds
  <2>5. T \ {First(T)} \notin Bad
    BY <2>1, <2>4
  <2> QED
    BY <2>4, <2>5
<1> QED
  BY <1>1

\* A sum depends on the summands alone.
LEMMA SumCongruence ==
    ASSUME NEW f, NEW g, NEW S, IsFiniteSet(S), \A x \in S : f[x] = g[x]
    PROVE  SumFunctionOnSet(f, S) = SumFunctionOnSet(g, S)
<1> DEFINE Bad == {T \in SUBSET S : SumFunctionOnSet(f, T) # SumFunctionOnSet(g, T)}
<1>1. ASSUME Bad # {} PROVE FALSE
  <2>1. PICK T \in Bad : \A U \in Bad : U \subseteq T => U = T
    <3>1. Bad \in SUBSET SUBSET S
      OBVIOUS
    <3> HIDE DEF Bad
    <3> QED
      BY <1>1, <3>1, SmallestSubset
  <2>2. IsFiniteSet(T)
    BY FS_Subset
  <2>3. T # {}
    BY SumOfNone
  <2>4. /\ First(T) \in T
        /\ SumFunctionOnSet(f, T) = f[First(T)] + SumFunctionOnSet(f, T \ {First(T)})
        /\ SumFunctionOnSet(g, T) = g[First(T)] + SumFunctionOnSet(g, T \ {First(T)})
    BY <2>2, <2>3, SumUnfolds
  <2>5. T \ {First(T)} \notin Bad
    BY <2>1, <2>4
  <2> QED
    BY <2>4, <2>5
<1> QED
  BY <1>1

\* Any summand may be taken out.
LEMMA SumWithout ==
    ASSUME NEW f, NEW S, IsFiniteSet(S), \A x \in S : f[x] \in Int
    PROVE  \A x \in S : SumFunctionOnSet(f, S) = f[x] + SumFunctionOnSet(f, S \ {x})
<1> DEFINE Sum(T) == SumFunctionOnSet(f, T)
           Bad == {T \in SUBSET S : \E x \in T : Sum(T) # f[x] + Sum(T \ {x})}
<1> HIDE DEF Sum
<1>1. ASSUME Bad # {} PROVE FALSE
  <2>1. PICK T \in Bad : \A U \in Bad : U \subseteq T => U = T
    <3>1. Bad \in SUBSET SUBSET S
      OBVIOUS
    <3> HIDE DEF Bad
    <3> QED
      BY <1>1, <3>1, SmallestSubset
  <2>2. PICK x \in T : Sum(T) # f[x] + Sum(T \ {x})
    BY <2>1
  <2>3. \A U \in SUBSET S : IsFiniteSet(U) /\ Sum(U) \in Int
    <3>1. ASSUME NEW U \in SUBSET S PROVE IsFiniteSet(U) /\ Sum(U) \in Int
      <4>1. IsFiniteSet(U)
        BY FS_Subset
      <4> QED
        BY <4>1, SumType DEF Sum
    <3> QED
      BY <3>1
  <2>4. PICK c : c = First(T)
    OBVIOUS
  <2>5. c \in T /\ Sum(T) = f[c] + Sum(T \ {c})
    BY <2>2, <2>3, <2>4, SumUnfolds DEF Sum
  <2>6. c # x
    BY <2>2, <2>5
  <2>7. Sum(T \ {c}) = f[x] + Sum((T \ {c}) \ {x})
    <3>1. T \ {c} \notin Bad /\ T \ {c} \in SUBSET S /\ x \in T \ {c}
      BY <2>1, <2>2, <2>5, <2>6
    <3> QED
      BY <3>1
  <2>8. Sum(T \ {x}) = f[c] + Sum((T \ {x}) \ {c})
    <3>1. T \ {x} \notin Bad /\ T \ {x} \in SUBSET S /\ c \in T \ {x}
      BY <2>1, <2>2, <2>5, <2>6
    <3> QED
      BY <3>1
  <2>9. (T \ {x}) \ {c} = (T \ {c}) \ {x} /\ Sum((T \ {c}) \ {x}) \in Int /\ f[x] \in Int /\ f[c] \in Int
    BY <2>2, <2>3, <2>5
  <2>10. PICK a, b, c1, d, e, r :
            /\ a = f[x] /\ b = f[c] /\ c1 = Sum(T \ {c}) /\ d = Sum(T \ {x}) /\ e = Sum(T)
            /\ r = Sum((T \ {c}) \ {x})
    OBVIOUS
  <2>11. a \in Int /\ b \in Int /\ r \in Int /\ e = b + c1 /\ c1 = a + r /\ d = b + r /\ e # a + d
    BY <2>2, <2>5, <2>7, <2>8, <2>9, <2>10
  <2> QED
    BY ONLY <2>11
<1> QED
  <2>1. S \notin Bad
    BY <1>1
  <2> QED
    BY <2>1 DEF Sum

\* One summand more.
LEMMA SumWith ==
    ASSUME NEW f, NEW S, IsFiniteSet(S), NEW y, y \notin S, \A x \in S \cup {y} : f[x] \in Int
    PROVE  /\ IsFiniteSet(S \cup {y})
           /\ SumFunctionOnSet(f, S \cup {y}) = f[y] + SumFunctionOnSet(f, S)
           /\ SumFunctionOnSet(f, S) \in Int
<1>0. PICK T : T = S \cup {y}
  OBVIOUS
<1>1. IsFiniteSet(T) /\ y \in T /\ T \ {y} = S
  BY <1>0, FS_AddElement
<1> QED
  BY <1>0, <1>1, SumWithout, SumType

\* The sum of the opposites is the opposite of the sum.
LEMMA SumOfOpposites ==
    ASSUME NEW f, NEW g, NEW S, IsFiniteSet(S), \A x \in S : f[x] \in Int /\ g[x] = -f[x]
    PROVE  SumFunctionOnSet(f, S) + SumFunctionOnSet(g, S) = 0
<1> DEFINE Bad == {T \in SUBSET S : SumFunctionOnSet(f, T) + SumFunctionOnSet(g, T) # 0}
<1>1. ASSUME Bad # {} PROVE FALSE
  <2>1. PICK T \in Bad : \A U \in Bad : U \subseteq T => U = T
    <3>1. Bad \in SUBSET SUBSET S
      OBVIOUS
    <3> HIDE DEF Bad
    <3> QED
      BY <1>1, <3>1, SmallestSubset
  <2>2. IsFiniteSet(T)
    BY FS_Subset
  <2>3. T # {}
    BY SumOfNone
  <2>4. PICK x, U, a, b : /\ x = First(T) /\ U = T \ {x}
                          /\ a = SumFunctionOnSet(f, U) /\ b = SumFunctionOnSet(g, U)
    OBVIOUS
  <2>5. /\ x \in T
        /\ SumFunctionOnSet(f, T) = f[x] + a
        /\ SumFunctionOnSet(g, T) = g[x] + b
    BY <2>2, <2>3, <2>4, SumUnfolds
  <2>6. a + b = 0
    <3>1. U \notin Bad /\ U \in SUBSET S
      BY <2>1, <2>4, <2>5
    <3> QED
      BY <2>4, <3>1
  <2>7. a \in Int /\ b \in Int
    <3>1. IsFiniteSet(U) /\ \A y \in U : f[y] \in Int /\ g[y] \in Int
      BY <2>2, <2>4, FS_Subset
    <3> QED
      BY <2>4, <3>1, SumType
  <2>8. f[x] \in Int /\ g[x] = -f[x]
    BY <2>5
  <2>9. (f[x] + a) + (g[x] + b) # 0
    BY <2>1, <2>5
  <2> QED
    BY <2>6, <2>7, <2>8, <2>9
<1>2. S \notin Bad
  BY <1>1
<1> QED
  BY <1>2

\* The sum over some of N and, perhaps, one more.
OneMore(N, y, f, g, S, T) ==
    /\ IsFiniteSet(N) /\ y \notin N /\ S \subseteq N /\ T \subseteq N \cup {y}
    /\ \A i \in N : f[i] \in Int /\ g[i] = f[i] /\ (i \in T <=> i \in S)
    /\ g[y] \in Int

\* The sum changes by that one, if it is taken in.
LEMMA SumOneMore ==
    ASSUME NEW N, NEW y, NEW f, NEW g, NEW S, NEW T, OneMore(N, y, f, g, S, T)
    PROVE  /\ SumFunctionOnSet(f, S) \in Int
           /\ y \in T => SumFunctionOnSet(g, T) = SumFunctionOnSet(f, S) + g[y]
           /\ y \notin T => SumFunctionOnSet(g, T) = SumFunctionOnSet(f, S)
<1> USE DEF OneMore
<1>1. IsFiniteSet(S)
  <2>1. S \in SUBSET N
    OBVIOUS
  <2> QED
    BY <2>1, FS_Subset
<1>2. SumFunctionOnSet(f, S) \in Int /\ SumFunctionOnSet(f, S) = SumFunctionOnSet(g, S)
  BY <1>1, SumType, SumCongruence
<1>3. CASE y \notin T
  <2>1. T = S
    BY <1>3
  <2> QED
    BY <1>2, <1>3, <2>1
<1>4. CASE y \in T
  <2>1. T = S \cup {y} /\ y \notin S /\ \A x \in S \cup {y} : g[x] \in Int
    BY <1>4
  <2>2. SumFunctionOnSet(g, T) = g[y] + SumFunctionOnSet(g, S)
    BY <1>1, <2>1, SumWith
  <2> QED
    BY <1>2, <1>4, <2>2
<1> QED
  BY <1>3, <1>4
=============================================================================
