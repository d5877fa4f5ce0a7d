-------------------------- MODULE ProfilerProofs --------------------------
(***************************************************************************)
(* Theorems about Profiler, for every number of blocks, every nesting of   *)
(* the calls, every depth and every length of the run.                     *)
(* The sums and folds of the model are the library's, defined by CHOOSE.   *)
(* The first sections establish what they compute; then come the sort      *)
(* and the dump, what is owed while scopes are open, the invariant, and    *)
(* last the refinement of Stopwatch.                                       *)
(***************************************************************************)
EXTENDS Profiler, FiniteSets, FiniteSetTheorems, SequenceTheorems, WellFoundedInduction, TLAPS

(***************************************************************************)
(* Induction.  The induction theorems of the library take the property as  *)
(* an operator; here it is the set of what has it.                         *)
(***************************************************************************)

\* Every set of naturals has a least element.
LEMMA LeastNatural ==
  ASSUME NEW T \in SUBSET Nat, T # {}
  PROVE  \E x \in T : \A y \in T : x <= y
<1>. DEFINE R == OpToRel(<, Nat)
<1>1. IsWellFoundedOn(R, Nat)
  BY NatLessThanWellFounded
<1>2. \A y, x \in Nat : y < x => <<y, x>> \in R
  BY DEF OpToRel
<1>. HIDE DEF R
<1>3. PICK x \in T : \A y \in T : ~ (<<y, x>> \in R)
  BY <1>1, WFMin
<1>4. ASSUME NEW y \in T PROVE ~ (y < x)
  <2>1. y \in Nat /\ x \in Nat
    OBVIOUS
  <2>. QED
    BY <2>1, <1>2, <1>3, Zenon
<1>. QED
  BY <1>4

\* A set of naturals that has 0 and with each its successor has all of them.
LEMMA NaturalsAll ==
  ASSUME NEW P \in SUBSET Nat, 0 \in P, \A n \in P : n + 1 \in P
  PROVE  P = Nat
<1>1. SUFFICES ASSUME Nat \ P # {} PROVE FALSE
  OBVIOUS
<1>2. PICK n \in Nat \ P : \A m \in Nat \ P : n <= m
  BY <1>1, LeastNatural
<1>3. n # 0
  OBVIOUS
<1>4. n - 1 \in P
  BY <1>2, <1>3
<1>. QED
  BY <1>3, <1>4

\* A set of subsets of a finite set D that has {} and, with each that lacks x,
\* the one with x, has all of them.
LEMMA SubsetsAll ==
  ASSUME NEW D, IsFiniteSet(D), NEW P \in SUBSET (SUBSET D), {} \in P,
         \A s \in P : \A x \in D \ s : s \cup {x} \in P
  PROVE  P = SUBSET D
<1>. DEFINE N == {n \in Nat : \A s \in SUBSET D : Cardinality(s) = n => s \in P}
<1>1. \A s \in SUBSET D : IsFiniteSet(s) /\ Cardinality(s) \in Nat
  BY FS_Subset, FS_CardinalityType
<1>2. 0 \in N
  BY <1>1, FS_EmptySet
<1>3. ASSUME NEW n \in N PROVE n + 1 \in N
  <2>. SUFFICES ASSUME NEW s \in SUBSET D, Cardinality(s) = n + 1 PROVE s \in P
    OBVIOUS
  <2>1. s # {}
    <3>1. n \in Nat
      OBVIOUS
    <3>. QED
      BY ONLY FS_EmptySet, <3>1, Cardinality(s) = n + 1
  <2>2. PICK x \in s : TRUE
    BY <2>1
  <2>3. Cardinality(s \ {x}) = n
    <3>1. Cardinality(s \ {x}) = Cardinality(s) - 1
      BY ONLY <1>1, <2>2, FS_RemoveElement, s \in SUBSET D
    <3>. QED
      BY <3>1
  <2>4. s \ {x} \in P
    BY <2>3
  <2>5. s = (s \ {x}) \cup {x} /\ x \in D \ (s \ {x})
    OBVIOUS
  <2>. QED
    BY <2>4, <2>5
<1>4. N = Nat
  <2>. HIDE DEF N
  <2>1. N \in SUBSET Nat
    BY DEF N
  <2>. QED
    BY ONLY <1>2, <1>3, <2>1, NaturalsAll
<1>. QED
  BY <1>1, <1>4

(***************************************************************************)
(* Sums.  SumFunctionOnSet is a fold by CHOOSE.                            *)
(***************************************************************************)

\* G has the sum of f over each subset of D.
SumsOf(G, f, D) ==
  /\ G \in [SUBSET D -> Int]
  /\ G[{}] = 0
  /\ \A s \in SUBSET D : \A x \in D \ s : G[s \cup {x}] = G[s] + f[x]

\* Over every subset of a finite set there is one.
LEMMA SumsExist ==
  ASSUME NEW D, IsFiniteSet(D), NEW f \in [D -> Int]
  PROVE  \E G : SumsOf(G, f, D)
<1>. DEFINE P == {s \in SUBSET D : \E G : SumsOf(G, f, s)}
<1>1. {} \in P
  <2>1. SumsOf([s \in {{}} |-> 0], f, {})
    BY DEF SumsOf
  <2>. QED
    BY <2>1
<1>2. ASSUME NEW s \in P, NEW x \in D \ s PROVE s \cup {x} \in P
  <2>1. PICK G : SumsOf(G, f, s)
    OBVIOUS
  <2>. DEFINE H == [t \in SUBSET (s \cup {x}) |-> IF x \in t THEN G[t \ {x}] + f[x] ELSE G[t]]
  <2>2. \A t \in SUBSET (s \cup {x}) : t \ {x} \in SUBSET s /\ (x \notin t => t \in SUBSET s)
    OBVIOUS
  <2>3. H \in [SUBSET (s \cup {x}) -> Int]
    BY <2>1, <2>2 DEF SumsOf
  <2>4. H[{}] = 0
    BY <2>1 DEF SumsOf
  <2>5. ASSUME NEW t \in SUBSET (s \cup {x}), NEW y \in (s \cup {x}) \ t
        PROVE  H[t \cup {y}] = H[t] + f[y]
    <3>1. CASE y = x
      <4>1. (t \cup {y}) \ {x} = t
        BY <3>1
      <4>. QED
        BY <3>1, <4>1
    <3>2. CASE y # x /\ x \in t
      <4>1. (t \cup {y}) \ {x} = (t \ {x}) \cup {y} /\ y \in s \ (t \ {x})
        BY <3>2
      <4>2. G[(t \ {x}) \cup {y}] = G[t \ {x}] + f[y]
        BY <4>1, <2>1, <2>2 DEF SumsOf
      <4>3. G[t \ {x}] \in Int /\ f[x] \in Int /\ f[y] \in Int
        BY <2>1, <2>2 DEF SumsOf
      <4>4. H[t \cup {y}] = G[(t \ {x}) \cup {y}] + f[x] /\ H[t] = G[t \ {x}] + f[x]
        BY <4>1, <3>2
      <4>. HIDE DEF H
      <4>. QED
        BY <4>2, <4>3, <4>4
    <3>3. CASE y # x /\ x \notin t
      <4>1. G[t \cup {y}] = G[t] + f[y]
        BY <3>3, <2>1, <2>2 DEF SumsOf
      <4>. QED
        BY <4>1, <3>3
    <3>. QED
      BY <3>1, <3>2, <3>3
  <2>6. SumsOf(H, f, s \cup {x})
    BY <2>3, <2>4, <2>5 DEF SumsOf
  <2>. QED
    BY <2>6
<1>3. P = SUBSET D
  <2>. HIDE DEF P
  <2>1. P \in SUBSET (SUBSET D)
    BY DEF P
  <2>. QED
    BY ONLY <1>1, <1>2, <2>1, SubsetsAll, IsFiniteSet(D)
<1>. QED
  BY <1>3

\* What the fold computes of s, from what it computed of less.
Step(it, f, s) ==
  IF s = {} THEN 0 ELSE f[CHOOSE x \in s : TRUE] + it[s \ {CHOOSE x \in s : TRUE}]

\* The definition of the sum, with that step named.
LEMMA SumUnfolds ==
  ASSUME NEW f, NEW D
  PROVE  SumFunctionOnSet(f, D) =
           (CHOOSE it : it = [s \in SUBSET D |-> Step(it, f, s)])[D]
  BY DEF SumFunctionOnSet, FoldFunctionOnSet, MapThenFoldSet, Step

\* The fold is that sum, whichever elements CHOOSE takes first.
LEMMA SumsAreFold ==
  ASSUME NEW D, IsFiniteSet(D), NEW f \in [D -> Int], NEW G, SumsOf(G, f, D)
  PROVE  \A s \in SUBSET D : SumFunctionOnSet(f, s) = G[s]
<1>. SUFFICES ASSUME NEW S \in SUBSET D PROVE SumFunctionOnSet(f, S) = G[S]
  OBVIOUS
<1>. DEFINE Is(it) == it = [s \in SUBSET S |-> Step(it, f, s)]
            it == CHOOSE i : Is(i)
            H == [s \in SUBSET S |-> G[s]]
<1>1. ASSUME NEW s \in SUBSET S, s # {}
      PROVE  /\ (CHOOSE x \in s : TRUE) \in s
             /\ G[s] = f[CHOOSE x \in s : TRUE] + G[s \ {CHOOSE x \in s : TRUE}]
  <2>. DEFINE x == CHOOSE y \in s : TRUE
  <2>1. x \in s
    BY <1>1
  <2>2. s = (s \ {x}) \cup {x} /\ x \in D \ (s \ {x}) /\ s \ {x} \in SUBSET D
    BY <2>1
  <2>. HIDE DEF x
  <2>3. G[(s \ {x}) \cup {x}] = G[s \ {x}] + f[x] /\ G[s \ {x}] \in Int /\ f[x] \in Int
    BY <2>2 DEF SumsOf
  <2>4. G[s] = f[x] + G[s \ {x}]
    <3>1. G[s] = G[(s \ {x}) \cup {x}]
      BY <2>2
    <3>. QED
      BY ONLY <2>3, <3>1
  <2>. QED
    BY <2>1, <2>4 DEF x
<1>2. Is(H)
  <2>1. ASSUME NEW s \in SUBSET S PROVE H[s] = Step(H, f, s)
    <3>1. CASE s = {}
      BY <3>1 DEF Step, SumsOf
    <3>2. CASE s # {}
      <4>1. s \ {CHOOSE x \in s : TRUE} \in SUBSET S
        OBVIOUS
      <4>. QED
        BY <1>1, <3>2, <4>1 DEF Step
    <3>. QED
      BY <3>1, <3>2
  <2>. QED
    BY <2>1
<1>3. Is(it)
  BY <1>2
<1>. DEFINE P == {s \in SUBSET S : it[s] = G[s]}
<1>4. \A s \in SUBSET S : it[s] = Step(it, f, s)
  <2>. HIDE DEF it
  <2>. QED
    BY <1>3
<1>5. P = SUBSET S
  <2>. DEFINE N == {n \in Nat : \A s \in SUBSET S : Cardinality(s) = n => it[s] = G[s]}
  <2>1. \A s \in SUBSET S : IsFiniteSet(s) /\ Cardinality(s) \in Nat
    BY FS_Subset, FS_CardinalityType
  <2>. HIDE DEF it
  <2>2. 0 \in N
    <3>1. it[{}] = G[{}]
      BY <1>4 DEF Step, SumsOf
    <3>. QED
      BY <3>1, <2>1, FS_EmptySet
  <2>3. ASSUME NEW n \in N PROVE n + 1 \in N
    <3>. SUFFICES ASSUME NEW s \in SUBSET S, Cardinality(s) = n + 1 PROVE it[s] = G[s]
      OBVIOUS
    <3>1. s # {}
      BY FS_EmptySet, <2>3
    <3>. DEFINE x == CHOOSE y \in s : TRUE
    <3>2. x \in s /\ G[s] = f[x] + G[s \ {x}]
      BY <3>1, <1>1
    <3>3. it[s] = f[x] + it[s \ {x}]
      BY <3>1, <1>4 DEF Step
    <3>. HIDE DEF x
    <3>4. Cardinality(s \ {x}) = n
      <4>1. Cardinality(s \ {x}) = Cardinality(s) - 1
        BY ONLY <2>1, <3>2, FS_RemoveElement, s \in SUBSET S
      <4>. QED
        BY <4>1
    <3>5. it[s \ {x}] = G[s \ {x}]
      BY <3>4
    <3>. QED
      BY <3>2, <3>3, <3>5
  <2>4. N = Nat
    <3>. HIDE DEF N
    <3>1. N \in SUBSET Nat
      BY DEF N
    <3>. QED
      BY ONLY <2>2, <2>3, <3>1, NaturalsAll
  <2>. QED
    BY <2>1, <2>4
<1>6. SumFunctionOnSet(f, S) = it[S]
  BY SumUnfolds
<1>. QED
  BY <1>5, <1>6

\* The sum over a finite set: of nothing, and with one element more.
LEMMA SumAdds ==
  ASSUME NEW D, IsFiniteSet(D), NEW f \in [D -> Int]
  PROVE  /\ SumFunctionOnSet(f, {}) = 0
         /\ \A S \in SUBSET D : SumFunctionOnSet(f, S) \in Int
         /\ \A S \in SUBSET D : \A x \in D \ S :
               SumFunctionOnSet(f, S \cup {x}) = SumFunctionOnSet(f, S) + f[x]
<1>1. PICK G : SumsOf(G, f, D)
  BY SumsExist
<1>2. \A S \in SUBSET D : SumFunctionOnSet(f, S) = G[S]
  BY <1>1, SumsAreFold
<1>3. SumFunctionOnSet(f, {}) = 0
  BY <1>1, <1>2 DEF SumsOf
<1>4. \A S \in SUBSET D : SumFunctionOnSet(f, S) \in Int
  BY <1>1, <1>2 DEF SumsOf
<1>5. ASSUME NEW S \in SUBSET D, NEW x \in D \ S
      PROVE  SumFunctionOnSet(f, S \cup {x}) = SumFunctionOnSet(f, S) + f[x]
  <2>1. S \cup {x} \in SUBSET D
    OBVIOUS
  <2>. QED
    BY <1>1, <1>2, <2>1 DEF SumsOf
<1>. QED
  BY <1>3, <1>4, <1>5

\* The same of one set, one element and their union.
LEMMA SumAdd ==
  ASSUME NEW D, IsFiniteSet(D), NEW f \in [D -> Int], NEW S \in SUBSET D, NEW x \in D, x \notin S,
         NEW T, T = S \cup {x}
  PROVE  /\ SumFunctionOnSet(f, T) = SumFunctionOnSet(f, S) + f[x]
         /\ SumFunctionOnSet(f, S) \in Int /\ SumFunctionOnSet(f, T) \in Int /\ f[x] \in Int
<1>1. x \in D \ S /\ T \in SUBSET D
  OBVIOUS
<1>2. SumFunctionOnSet(f, S) \in Int /\ SumFunctionOnSet(f, T) \in Int
  BY <1>1, SumAdds
<1>. QED
  BY <1>1, <1>2, SumAdds

\* Sums of functions that add up, or are in order, point by point.
LEMMA SumPlus ==
  ASSUME NEW D, IsFiniteSet(D), NEW f \in [D -> Int], NEW g \in [D -> Int], NEW h \in [D -> Int],
         \A x \in D : h[x] = f[x] + g[x]
  PROVE  SumFunctionOnSet(h, D) = SumFunctionOnSet(f, D) + SumFunctionOnSet(g, D)
<1>. DEFINE P == {S \in SUBSET D : SumFunctionOnSet(h, S) = SumFunctionOnSet(f, S) + SumFunctionOnSet(g, S)}
<1>1. {} \in P
  BY SumAdds
<1>2. ASSUME NEW S \in P, NEW x \in D \ S PROVE S \cup {x} \in P
  <2>1. S \in SUBSET D /\ S \cup {x} \in SUBSET D
    OBVIOUS
  <2>2. /\ SumFunctionOnSet(f, S \cup {x}) = SumFunctionOnSet(f, S) + f[x]
        /\ SumFunctionOnSet(f, S) \in Int
    BY <2>1, SumAdds
  <2>3. /\ SumFunctionOnSet(g, S \cup {x}) = SumFunctionOnSet(g, S) + g[x]
        /\ SumFunctionOnSet(g, S) \in Int
    BY <2>1, SumAdds
  <2>4. /\ SumFunctionOnSet(h, S \cup {x}) = SumFunctionOnSet(h, S) + h[x]
    BY <2>1, SumAdds
  <2>. QED
    BY <2>1, <2>2, <2>3, <2>4
<1>. QED
  <2>. HIDE DEF P
  <2>1. P = SUBSET D
    <3>1. P \in SUBSET (SUBSET D)
      BY DEF P
    <3>. QED
      BY ONLY <1>1, <1>2, <3>1, SubsetsAll, IsFiniteSet(D)
  <2>. QED
    BY <2>1 DEF P

\* The greater function has the greater sum.
LEMMA SumLeq ==
  ASSUME NEW D, IsFiniteSet(D), NEW f \in [D -> Int], NEW g \in [D -> Int],
         \A x \in D : f[x] <= g[x]
  PROVE  SumFunctionOnSet(f, D) <= SumFunctionOnSet(g, D)
<1>. DEFINE P == {S \in SUBSET D : SumFunctionOnSet(f, S) <= SumFunctionOnSet(g, S)}
<1>1. {} \in P
  BY SumAdds
<1>2. ASSUME NEW S \in P, NEW x \in D \ S PROVE S \cup {x} \in P
  <2>1. S \in SUBSET D /\ S \cup {x} \in SUBSET D
    OBVIOUS
  <2>2. /\ SumFunctionOnSet(f, S \cup {x}) = SumFunctionOnSet(f, S) + f[x]
        /\ SumFunctionOnSet(f, S) \in Int
    BY <2>1, SumAdds
  <2>3. /\ SumFunctionOnSet(g, S \cup {x}) = SumFunctionOnSet(g, S) + g[x]
        /\ SumFunctionOnSet(g, S) \in Int
    BY <2>1, SumAdds
  <2>. QED
    BY <2>1, <2>2, <2>3
<1>. QED
  <2>. HIDE DEF P
  <2>1. P = SUBSET D
    <3>1. P \in SUBSET (SUBSET D)
      BY DEF P
    <3>. QED
      BY ONLY <1>1, <1>2, <3>1, SubsetsAll, IsFiniteSet(D)
  <2>. QED
    BY <2>1 DEF P

\* Functions that agree on S have the same sum over S.
LEMMA SumSame ==
  ASSUME NEW D, IsFiniteSet(D), NEW f \in [D -> Int], NEW E, IsFiniteSet(E), NEW g \in [E -> Int],
         NEW S \in SUBSET D, S \in SUBSET E, \A x \in S : f[x] = g[x]
  PROVE  SumFunctionOnSet(f, S) = SumFunctionOnSet(g, S)
<1>. DEFINE P == {T \in SUBSET S : SumFunctionOnSet(f, T) = SumFunctionOnSet(g, T)}
<1>1. {} \in P
  <2>1. SumFunctionOnSet(f, {}) = 0
    BY ONLY SumAdds, IsFiniteSet(D), f \in [D -> Int]
  <2>2. SumFunctionOnSet(g, {}) = 0
    BY ONLY SumAdds, IsFiniteSet(E), g \in [E -> Int]
  <2>. QED
    BY <2>1, <2>2
<1>2. ASSUME NEW T \in P, NEW x \in S \ T PROVE T \cup {x} \in P
  <2>1. T \in SUBSET S /\ T \cup {x} \in SUBSET S /\ T \in SUBSET D /\ T \in SUBSET E
        /\ x \in D \ T /\ x \in E \ T
    OBVIOUS
  <2>2. SumFunctionOnSet(f, T \cup {x}) = SumFunctionOnSet(f, T) + f[x]
    BY ONLY <2>1, SumAdds, IsFiniteSet(D), f \in [D -> Int]
  <2>3. SumFunctionOnSet(g, T \cup {x}) = SumFunctionOnSet(g, T) + g[x]
    BY ONLY <2>1, SumAdds, IsFiniteSet(E), g \in [E -> Int]
  <2>. QED
    BY <2>1, <2>2, <2>3
<1>. QED
  <2>. HIDE DEF P
  <2>1. P = SUBSET S
    <3>1. P \in SUBSET (SUBSET S)
      BY DEF P
    <3>2. IsFiniteSet(S)
      BY FS_Subset
    <3>. QED
      BY ONLY <1>1, <1>2, <3>1, <3>2, SubsetsAll
  <2>. QED
    BY <2>1 DEF P

\* A sum is one term and the sum of the others.
LEMMA SumRemove ==
  ASSUME NEW D, IsFiniteSet(D), NEW f \in [D -> Int], NEW x \in D
  PROVE  /\ SumFunctionOnSet(f, D) = SumFunctionOnSet(f, D \ {x}) + f[x]
         /\ SumFunctionOnSet(f, D \ {x}) \in Int /\ f[x] \in Int
<1>1. D \ {x} \in SUBSET D /\ x \notin D \ {x} /\ D = (D \ {x}) \cup {x}
  OBVIOUS
<1>. QED
  BY <1>1, SumAdd

\* A sum changes by what one of its terms does.
LEMMA SumChanges ==
  ASSUME NEW D, IsFiniteSet(D), NEW f \in [D -> Int], NEW g \in [D -> Int], NEW x \in D, NEW d \in Int,
         g[x] = f[x] + d, \A y \in D \ {x} : g[y] = f[y]
  PROVE  SumFunctionOnSet(g, D) = SumFunctionOnSet(f, D) + d
<1>1. D \ {x} \in SUBSET D
  OBVIOUS
<1>2. SumFunctionOnSet(g, D) = SumFunctionOnSet(g, D \ {x}) + g[x]
  BY SumRemove
<1>3. SumFunctionOnSet(f, D) = SumFunctionOnSet(f, D \ {x}) + f[x]
      /\ SumFunctionOnSet(f, D \ {x}) \in Int
  BY SumRemove
<1>4. SumFunctionOnSet(g, D \ {x}) = SumFunctionOnSet(f, D \ {x})
  BY ONLY <1>1, SumSame, IsFiniteSet(D), f \in [D -> Int], g \in [D -> Int], \A y \in D \ {x} : g[y] = f[y]
<1>. QED
  BY <1>2, <1>3, <1>4

\* The sum over two disjoint sets.
LEMMA SumSplits ==
  ASSUME NEW D, IsFiniteSet(D), NEW f \in [D -> Int], NEW S \in SUBSET D
  PROVE  SumFunctionOnSet(f, D) = SumFunctionOnSet(f, S) + SumFunctionOnSet(f, D \ S)
<1>. DEFINE P == {T \in SUBSET (D \ S) :
                    SumFunctionOnSet(f, S \cup T) = SumFunctionOnSet(f, S) + SumFunctionOnSet(f, T)}
<1>0. SumFunctionOnSet(f, S) \in Int
  BY SumAdds
<1>1. {} \in P
  <2>1. S \cup {} = S /\ SumFunctionOnSet(f, {}) = 0
    BY SumAdds
  <2>. QED
    BY <2>1, <1>0
<1>2. ASSUME NEW T \in P, NEW x \in (D \ S) \ T PROVE T \cup {x} \in P
  <2>1. T \cup {x} \in SUBSET (D \ S) /\ T \in SUBSET D /\ S \cup T \in SUBSET D
        /\ x \in D \ T /\ x \in D \ (S \cup T) /\ S \cup (T \cup {x}) = (S \cup T) \cup {x}
    OBVIOUS
  <2>2. SumFunctionOnSet(f, T \cup {x}) = SumFunctionOnSet(f, T) + f[x] /\ SumFunctionOnSet(f, T) \in Int
    BY ONLY <2>1, SumAdd, IsFiniteSet(D), f \in [D -> Int]
  <2>3. SumFunctionOnSet(f, (S \cup T) \cup {x}) = SumFunctionOnSet(f, S \cup T) + f[x]
    BY ONLY <2>1, SumAdd, IsFiniteSet(D), f \in [D -> Int]
  <2>4. SumFunctionOnSet(f, S \cup T) = SumFunctionOnSet(f, S) + SumFunctionOnSet(f, T)
    OBVIOUS
  <2>5. f[x] \in Int
    OBVIOUS
  <2>6. SumFunctionOnSet(f, S \cup (T \cup {x})) = SumFunctionOnSet(f, (S \cup T) \cup {x})
    BY <2>1
  <2>7. SumFunctionOnSet(f, S \cup (T \cup {x})) = SumFunctionOnSet(f, S) + SumFunctionOnSet(f, T \cup {x})
    BY ONLY <1>0, <2>2, <2>3, <2>4, <2>5, <2>6
  <2>. QED
    BY <2>1, <2>7
<1>. QED
  <2>. HIDE DEF P
  <2>1. P = SUBSET (D \ S)
    <3>1. P \in SUBSET (SUBSET (D \ S))
      BY DEF P
    <3>2. IsFiniteSet(D \ S)
      BY FS_Subset
    <3>. QED
      BY ONLY <1>1, <1>2, <3>1, <3>2, SubsetsAll
  <2>2. D \ S \in P /\ S \cup (D \ S) = D
    BY <2>1
  <2>. QED
    BY <2>2 DEF P

(***************************************************************************)
(* FoldLeft is a recursive function on the sets of indices, from which the *)
(* largest is taken first.                                                 *)
(***************************************************************************)

\* r computes the fold of the function f over the indices 1 .. n.
Folds(r, f, base, n) ==
  r = [s \in SUBSET (1 .. n) |-> IF s = {} THEN base ELSE f[<<r[s \ {Max(s)}], Max(s)>>]]

\* The maximum of a set within 1 .. n that has n.
LEMMA MaxOfNaturals ==
  ASSUME NEW n \in Nat, NEW s \in SUBSET (1 .. n), n \in s
  PROVE  Max(s) = n
<1>1. \A y \in s : n >= y
  OBVIOUS
<1>2. Max(s) \in s /\ \A y \in s : Max(s) >= y
  BY <1>1 DEF Max
<1>3. Max(s) \in 1 .. n
  BY <1>2
<1>4. Max(s) >= n
  BY <1>2
<1>. QED
  BY <1>3, <1>4

\* A set of naturals with an upper bound has a maximum.
LEMMA MaxIsElement ==
  ASSUME NEW n \in Nat, NEW s \in SUBSET (0 .. n), s # {}
  PROVE  Max(s) \in s /\ \A y \in s : Max(s) >= y
<1>. DEFINE T == {n - x : x \in s}
<1>0. \A x \in s : x \in Nat /\ n - x \in Nat
  <2>. SUFFICES ASSUME NEW x \in s PROVE x \in Nat /\ n - x \in Nat
    OBVIOUS
  <2>1. x \in 0 .. n
    OBVIOUS
  <2>. QED
    BY <2>1
<1>1. T \in SUBSET Nat /\ T # {}
  BY <1>0
<1>2. PICK t \in T : \A u \in T : t <= u
  BY <1>1, LeastNatural
<1>3. PICK x \in s : t = n - x
  OBVIOUS
<1>4. \A y \in s : x >= y
  <2>. SUFFICES ASSUME NEW y \in s PROVE x >= y
    OBVIOUS
  <2>1. n - y \in T
    OBVIOUS
  <2>2. n - x <= n - y
    BY <1>2, <1>3, <2>1
  <2>. QED
    BY <1>0, <2>2
<1>. QED
  BY <1>3, <1>4 DEF Max

\* There is such a function, for every n.
LEMMA FoldExists ==
  ASSUME NEW n \in Nat, NEW B, NEW base \in B, NEW f \in [B \X (1 .. n) -> B]
  PROVE  \E r \in [SUBSET (1 .. n) -> B] : Folds(r, f, base, n)
<1>. DEFINE Ok(m) == \E r \in [SUBSET (1 .. m) -> B] : Folds(r, f, base, m)
            P == {m \in Nat : m <= n => Ok(m)}
<1>1. 0 \in P
  <2>. DEFINE r == [s \in SUBSET (1 .. 0) |-> base]
  <2>1. r \in [SUBSET (1 .. 0) -> B]
    OBVIOUS
  <2>2. \A s \in SUBSET (1 .. 0) : s = {}
    OBVIOUS
  <2>3. Folds(r, f, base, 0)
    BY <2>2 DEF Folds
  <2>. QED
    BY <2>1, <2>3
<1>2. ASSUME NEW m \in P PROVE m + 1 \in P
  <2>. SUFFICES ASSUME m + 1 <= n PROVE Ok(m + 1)
    <3>. HIDE DEF Ok
    <3>. QED
      OBVIOUS
  <2>0. m \in Nat /\ m <= n /\ Ok(m)
    <3>. HIDE DEF Ok
    <3>1. m \in Nat /\ (m <= n => Ok(m))
      OBVIOUS
    <3>. QED
      BY <3>1
  <2>1. PICK r \in [SUBSET (1 .. m) -> B] : Folds(r, f, base, m)
    BY <2>0
  <2>. DEFINE q == [s \in SUBSET (1 .. m + 1) |->
                      IF m + 1 \in s THEN f[<<r[s \ {m + 1}], m + 1>>] ELSE r[s]]
  <2>01. \A x \in 1 .. m + 1 : x = m + 1 \/ x \in 1 .. m
    OBVIOUS
  <2>2. \A s \in SUBSET (1 .. m + 1) : s \ {m + 1} \in SUBSET (1 .. m)
    BY <2>01, Zenon
  <2>3. \A s \in SUBSET (1 .. m + 1) : m + 1 \notin s => s \in SUBSET (1 .. m)
    BY <2>01, Zenon
  <2>4. \A b \in B : f[<<b, m + 1>>] \in B
    OBVIOUS
  <2>5. q \in [SUBSET (1 .. m + 1) -> B]
    <3>. SUFFICES ASSUME NEW s \in SUBSET (1 .. m + 1)
                  PROVE  (IF m + 1 \in s THEN f[<<r[s \ {m + 1}], m + 1>>] ELSE r[s]) \in B
      OBVIOUS
    <3>1. CASE m + 1 \in s
      <4>1. r[s \ {m + 1}] \in B
        BY <2>2
      <4>. QED
        BY <3>1, <4>1, <2>4
    <3>2. CASE m + 1 \notin s
      BY <2>3, <3>2
    <3>. QED
      BY <3>1, <3>2
  <2>6. ASSUME NEW s \in SUBSET (1 .. m + 1)
        PROVE  q[s] = IF s = {} THEN base ELSE f[<<q[s \ {Max(s)}], Max(s)>>]
    <3>1. CASE m + 1 \in s
      <4>1. Max(s) = m + 1
        BY <3>1, MaxOfNaturals
      <4>2. q[s \ {m + 1}] = r[s \ {m + 1}]
        BY <2>2
      <4>3. q[s] = f[<<r[s \ {m + 1}], m + 1>>]
        BY <3>1
      <4>. HIDE DEF q
      <4>. QED
        BY <3>1, <4>1, <4>2, <4>3
    <3>2. CASE m + 1 \notin s
      <4>1. s \in SUBSET (1 .. m) /\ q[s] = r[s]
        BY <2>3, <3>2
      <4>2. r[s] = IF s = {} THEN base ELSE f[<<r[s \ {Max(s)}], Max(s)>>]
        BY ONLY <4>1, <2>1 DEF Folds
      <4>3. q[s \ {Max(s)}] = r[s \ {Max(s)}]
        <5>1. s \ {Max(s)} \in SUBSET (1 .. m + 1) /\ m + 1 \notin s \ {Max(s)}
          BY <3>2
        <5>. QED
          BY <5>1
      <4>. HIDE DEF q
      <4>. QED
        BY <4>1, <4>2, <4>3
    <3>. QED
      BY <3>1, <3>2
  <2>7. Folds(q, f, base, m + 1)
    <3>1. q = [s \in SUBSET (1 .. m + 1) |-> q[s]]
      OBVIOUS
    <3>2. [s \in SUBSET (1 .. m + 1) |-> q[s]]
            = [s \in SUBSET (1 .. m + 1) |-> IF s = {} THEN base ELSE f[<<q[s \ {Max(s)}], Max(s)>>]]
      <4>. HIDE DEF q
      <4>. QED
        BY <2>6
    <3>. HIDE DEF q
    <3>. QED
      BY ONLY <3>1, <3>2 DEF Folds
  <2>. HIDE DEF q
  <2>. QED
    BY <2>5, <2>7
<1>3. P = Nat
  <2>. HIDE DEF P
  <2>1. P \in SUBSET Nat
    BY DEF P
  <2>. QED
    BY ONLY <1>1, <1>2, <2>1, NaturalsAll
<1>4. Ok(n)
  <2>. HIDE DEF Ok
  <2>. QED
    BY <1>3
<1>. QED
  BY <1>4

\* One step of the fold.
LEMMA FoldSteps ==
  ASSUME NEW n \in Nat, NEW r, NEW f, NEW base, Folds(r, f, base, n)
  PROVE  /\ r[1 .. 0] = base
         /\ \A i \in 1 .. n : r[1 .. i] = f[<<r[1 .. i - 1], i>>]
<1>1. r[1 .. 0] = base
  <2>1. 1 .. 0 \in SUBSET (1 .. n) /\ 1 .. 0 = {}
    OBVIOUS
  <2>. QED
    BY <2>1 DEF Folds
<1>2. ASSUME NEW i \in 1 .. n PROVE r[1 .. i] = f[<<r[1 .. i - 1], i>>]
  <2>1. 1 .. i \in SUBSET (1 .. n) /\ 1 .. i # {} /\ (1 .. i) \ {i} = 1 .. i - 1
    OBVIOUS
  <2>2. Max(1 .. i) = i
    BY MaxOfNaturals
  <2>3. r[1 .. i] = IF 1 .. i = {} THEN base ELSE f[<<r[(1 .. i) \ {Max(1 .. i)}], Max(1 .. i)>>]
    BY <2>1 DEF Folds
  <2>. QED
    BY <2>1, <2>2, <2>3
<1>. QED
  BY <1>1, <1>2

(***************************************************************************)
(* The two folds of the dump, as sequences of steps.                       *)
(***************************************************************************)

\* insertion_sort as this fold, by the definitions of the library.
LEMMA SortUnfolds ==
  ASSUME NEW lines
  PROVE insertion_sort(lines) =
         (CHOOSE r : r = [s \in SUBSET DOMAIN lines |->
                            IF s = {} THEN <<>> ELSE Insert(r[s \ {Max(s)}], lines[Max(s)])])[DOMAIN lines]
  BY DEF insertion_sort, FoldLeft, MapThenFoldSet

\* The dump as this fold.
LEMMA PrintUnfolds ==
  ASSUME NEW lines
  PROVE FoldLeft(Printed, <<>>, lines) =
         (CHOOSE r : r = [s \in SUBSET DOMAIN lines |->
                            IF s = {} THEN <<>> ELSE Printed(r[s \ {Max(s)}], lines[Max(s)])])[DOMAIN lines]
  BY DEF FoldLeft, MapThenFoldSet

\* One step of the sort makes a sequence of lines.
LEMMA InsertType ==
  ASSUME NEW L, NEW sorted \in Seq(L), NEW line \in L
  PROVE  Insert(sorted, line) \in Seq(L)
<1>. DEFINE at == {0} \cup {i \in DOMAIN sorted : Before(sorted[i], line)}
<1>1. at \in SUBSET (0 .. Len(sorted)) /\ at # {}
  OBVIOUS
<1>. HIDE DEF at
<1>2. Max(at) \in at
  BY ONLY <1>1, Len(sorted) \in Nat, MaxIsElement
<1>4. Max(at) \in 0 .. Len(sorted)
  BY <1>1, <1>2
<1>3. InsertAt(sorted, Max(at) + 1, line) \in Seq(L)
  BY <1>4 DEF InsertAt
<1>. QED
  BY <1>3 DEF Insert, at

\* One step of the dump makes a sequence of lines.
LEMMA PrintedType ==
  ASSUME NEW L, NEW lines \in Seq(L), NEW line \in L
  PROVE  Printed(lines, line) \in Seq(L)
<1>1. Append(lines, line) \in Seq(L)
  OBVIOUS
<1>2. Printed(lines, line) = Append(lines, line) \/ Printed(lines, line) = lines
  BY DEF Printed
<1>. QED
  BY <1>1, <1>2

\* r has what each step of the fold makes of the lines.
SortStepsAre(r, lines, n, L) ==
  /\ r \in [0 .. n -> Seq(L)]
  /\ r[0] = <<>>
  /\ \A i \in 1 .. n : r[i] = Insert(r[i - 1], lines[i])
  /\ insertion_sort(lines) = r[n]

\* The sort, line by line.
LEMMA SortSteps ==
  ASSUME NEW n \in Nat, NEW L, NEW lines \in [1 .. n -> L]
  PROVE  \E r : SortStepsAre(r, lines, n, L)
<1>. DEFINE f == [x \in Seq(L) \X (1 .. n) |-> Insert(x[1], lines[x[2]])]
            Is(r) == r = [s \in SUBSET DOMAIN lines |->
                            IF s = {} THEN <<>> ELSE Insert(r[s \ {Max(s)}], lines[Max(s)])]
            q == CHOOSE r : Is(r)
<1>1. f \in [Seq(L) \X (1 .. n) -> Seq(L)]
  BY InsertType
<1>2. \A b \in Seq(L), i \in 1 .. n : f[<<b, i>>] = Insert(b, lines[i])
  OBVIOUS
<1>3. <<>> \in Seq(L)
  OBVIOUS
<1>. HIDE DEF f
<1>4. PICK r \in [SUBSET (1 .. n) -> Seq(L)] : Folds(r, f, <<>>, n)
  BY <1>1, <1>3, FoldExists
<1>5. Is(r)
  <2>1. ASSUME NEW s \in SUBSET (1 .. n), s # {}
        PROVE  f[<<r[s \ {Max(s)}], Max(s)>>] = Insert(r[s \ {Max(s)}], lines[Max(s)])
    <3>1. Max(s) \in 1 .. n
      <4>1. s \in SUBSET (0 .. n)
        OBVIOUS
      <4>. QED
        BY <2>1, <4>1, MaxIsElement
    <3>2. r[s \ {Max(s)}] \in Seq(L)
      OBVIOUS
    <3>. QED
      BY <1>2, <3>1, <3>2
  <2>2. [s \in SUBSET (1 .. n) |-> IF s = {} THEN <<>> ELSE f[<<r[s \ {Max(s)}], Max(s)>>]]
         = [s \in SUBSET (1 .. n) |-> IF s = {} THEN <<>> ELSE Insert(r[s \ {Max(s)}], lines[Max(s)])]
    BY <2>1
  <2>3. DOMAIN lines = 1 .. n
    OBVIOUS
  <2>. QED
    BY ONLY <1>4, <2>2, <2>3 DEF Folds
<1>6. Is(q)
  BY <1>5
<1>7. insertion_sort(lines) = q[1 .. n]
  BY SortUnfolds
<1>. HIDE DEF q
<1>8. q[1 .. 0] = <<>>
  <2>1. 1 .. 0 \in SUBSET DOMAIN lines /\ 1 .. 0 = {}
    OBVIOUS
  <2>. QED
    BY <1>6, <2>1
<1>9. ASSUME NEW i \in 1 .. n PROVE q[1 .. i] = Insert(q[1 .. i - 1], lines[i])
  <2>0. DOMAIN lines = 1 .. n /\ i \in Nat /\ 1 <= i /\ i <= n
    OBVIOUS
  <2>1. 1 .. i \in SUBSET DOMAIN lines /\ 1 .. i # {} /\ (1 .. i) \ {i} = 1 .. i - 1
    BY ONLY <2>0
  <2>2. Max(1 .. i) = i
    BY MaxOfNaturals
  <2>3. q[1 .. i] = IF 1 .. i = {} THEN <<>> ELSE Insert(q[(1 .. i) \ {Max(1 .. i)}], lines[Max(1 .. i)])
    BY ONLY <1>6, <2>1
  <2>. QED
    BY ONLY <2>1, <2>2, <2>3
<1>10. \A i \in 0 .. n : q[1 .. i] \in Seq(L)
  <2>. DEFINE P == {i \in Nat : i <= n => q[1 .. i] \in Seq(L)}
  <2>1. 0 \in P
    BY ONLY <1>3, <1>8
  <2>2. ASSUME NEW i \in P PROVE i + 1 \in P
    <3>. SUFFICES ASSUME i + 1 <= n PROVE q[1 .. i + 1] \in Seq(L)
      OBVIOUS
    <3>0. i \in Nat
      OBVIOUS
    <3>1. i + 1 \in 1 .. n /\ (i + 1) - 1 = i /\ i <= n
      BY <3>0
    <3>3. q[1 .. i] \in Seq(L) /\ lines[i + 1] \in L
      BY <3>1
    <3>2. q[1 .. i + 1] = Insert(q[1 .. i], lines[i + 1])
      BY <1>9, <3>1
    <3>. QED
      BY <3>2, <3>3, InsertType
  <2>3. P = Nat
    <3>. HIDE DEF P
    <3>1. P \in SUBSET Nat
      BY DEF P
    <3>. QED
      BY ONLY <2>1, <2>2, <3>1, NaturalsAll
  <2>. QED
    BY <2>3
<1>. DEFINE p == [i \in 0 .. n |-> q[1 .. i]]
<1>11. p \in [0 .. n -> Seq(L)]
  BY <1>10
<1>12. p[0] = <<>> /\ insertion_sort(lines) = p[n]
  BY <1>7, <1>8
<1>13. ASSUME NEW i \in 1 .. n PROVE p[i] = Insert(p[i - 1], lines[i])
  <2>1. p[i] = q[1 .. i] /\ p[i - 1] = q[1 .. i - 1]
    OBVIOUS
  <2>. HIDE DEF p
  <2>. QED
    BY <1>9, <2>1
<1>. HIDE DEF p
<1>. QED
  BY <1>11, <1>12, <1>13 DEF SortStepsAre

\* r has what each step of the fold makes of the lines.
PrintStepsAre(r, lines, n, L) ==
  /\ r \in [0 .. n -> Seq(L)]
  /\ r[0] = <<>>
  /\ \A i \in 1 .. n : r[i] = Printed(r[i - 1], lines[i])
  /\ FoldLeft(Printed, <<>>, lines) = r[n]

\* The dump, line by line.
LEMMA PrintSteps ==
  ASSUME NEW n \in Nat, NEW L, NEW lines \in [1 .. n -> L]
  PROVE  \E r : PrintStepsAre(r, lines, n, L)
<1>. DEFINE f == [x \in Seq(L) \X (1 .. n) |-> Printed(x[1], lines[x[2]])]
            Is(r) == r = [s \in SUBSET DOMAIN lines |->
                            IF s = {} THEN <<>> ELSE Printed(r[s \ {Max(s)}], lines[Max(s)])]
            q == CHOOSE r : Is(r)
<1>1. f \in [Seq(L) \X (1 .. n) -> Seq(L)]
  BY PrintedType
<1>2. \A b \in Seq(L), i \in 1 .. n : f[<<b, i>>] = Printed(b, lines[i])
  OBVIOUS
<1>3. <<>> \in Seq(L)
  OBVIOUS
<1>. HIDE DEF f
<1>4. PICK r \in [SUBSET (1 .. n) -> Seq(L)] : Folds(r, f, <<>>, n)
  BY <1>1, <1>3, FoldExists
<1>5. Is(r)
  <2>1. ASSUME NEW s \in SUBSET (1 .. n), s # {}
        PROVE  f[<<r[s \ {Max(s)}], Max(s)>>] = Printed(r[s \ {Max(s)}], lines[Max(s)])
    <3>1. Max(s) \in 1 .. n
      <4>1. s \in SUBSET (0 .. n)
        OBVIOUS
      <4>. QED
        BY <2>1, <4>1, MaxIsElement
    <3>2. r[s \ {Max(s)}] \in Seq(L)
      OBVIOUS
    <3>. QED
      BY <1>2, <3>1, <3>2
  <2>2. [s \in SUBSET (1 .. n) |-> IF s = {} THEN <<>> ELSE f[<<r[s \ {Max(s)}], Max(s)>>]]
         = [s \in SUBSET (1 .. n) |-> IF s = {} THEN <<>> ELSE Printed(r[s \ {Max(s)}], lines[Max(s)])]
    BY <2>1
  <2>3. DOMAIN lines = 1 .. n
    OBVIOUS
  <2>. QED
    BY ONLY <1>4, <2>2, <2>3 DEF Folds
<1>6. Is(q)
  BY <1>5
<1>7. FoldLeft(Printed, <<>>, lines) = q[1 .. n]
  BY PrintUnfolds
<1>. HIDE DEF q
<1>8. q[1 .. 0] = <<>>
  <2>1. 1 .. 0 \in SUBSET DOMAIN lines /\ 1 .. 0 = {}
    OBVIOUS
  <2>. QED
    BY <1>6, <2>1
<1>9. ASSUME NEW i \in 1 .. n PROVE q[1 .. i] = Printed(q[1 .. i - 1], lines[i])
  <2>0. DOMAIN lines = 1 .. n /\ i \in Nat /\ 1 <= i /\ i <= n
    OBVIOUS
  <2>1. 1 .. i \in SUBSET DOMAIN lines /\ 1 .. i # {} /\ (1 .. i) \ {i} = 1 .. i - 1
    BY ONLY <2>0
  <2>2. Max(1 .. i) = i
    BY MaxOfNaturals
  <2>3. q[1 .. i] = IF 1 .. i = {} THEN <<>> ELSE Printed(q[(1 .. i) \ {Max(1 .. i)}], lines[Max(1 .. i)])
    BY ONLY <1>6, <2>1
  <2>. QED
    BY ONLY <2>1, <2>2, <2>3
<1>10. \A i \in 0 .. n : q[1 .. i] \in Seq(L)
  <2>. DEFINE P == {i \in Nat : i <= n => q[1 .. i] \in Seq(L)}
  <2>1. 0 \in P
    BY ONLY <1>3, <1>8
  <2>2. ASSUME NEW i \in P PROVE i + 1 \in P
    <3>. SUFFICES ASSUME i + 1 <= n PROVE q[1 .. i + 1] \in Seq(L)
      OBVIOUS
    <3>0. i \in Nat
      OBVIOUS
    <3>1. i + 1 \in 1 .. n /\ (i + 1) - 1 = i /\ i <= n
      BY <3>0
    <3>3. q[1 .. i] \in Seq(L) /\ lines[i + 1] \in L
      BY <3>1
    <3>2. q[1 .. i + 1] = Printed(q[1 .. i], lines[i + 1])
      BY <1>9, <3>1
    <3>. QED
      BY <3>2, <3>3, PrintedType
  <2>3. P = Nat
    <3>. HIDE DEF P
    <3>1. P \in SUBSET Nat
      BY DEF P
    <3>. QED
      BY ONLY <2>1, <2>2, <3>1, NaturalsAll
  <2>. QED
    BY <2>3
<1>. DEFINE p == [i \in 0 .. n |-> q[1 .. i]]
<1>11. p \in [0 .. n -> Seq(L)]
  BY <1>10
<1>12. p[0] = <<>> /\ FoldLeft(Printed, <<>>, lines) = p[n]
  BY <1>7, <1>8
<1>13. ASSUME NEW i \in 1 .. n PROVE p[i] = Printed(p[i - 1], lines[i])
  <2>1. p[i] = q[1 .. i] /\ p[i - 1] = q[1 .. i - 1]
    OBVIOUS
  <2>. HIDE DEF p
  <2>. QED
    BY <1>9, <2>1
<1>. HIDE DEF p
<1>. QED
  BY <1>11, <1>12, <1>13 DEF PrintStepsAre

(***************************************************************************)
(* The dump lists the named lines, the one with the most ticks first.      *)
(***************************************************************************)
Lines == [name : Slots, hit_count : Nat, inclusive : [Counters -> Int], exclusive : [Counters -> Int]]

\* No line stands behind one it should precede.
Ordered(sorted) == \A i, j \in DOMAIN sorted : i < j => ~ Before(sorted[j], sorted[i])

\* The lines up to i, each once, where p says which is where.
Arranged(sorted, lines, i, p) ==
  /\ p \in [1 .. i -> 1 .. i]
  /\ sorted \in Seq(Lines) /\ Len(sorted) = i
  /\ \A j \in 1 .. i : sorted[j] = lines[p[j]]
  /\ \A j, k \in 1 .. i : p[j] = p[k] => j = k
  /\ \A x \in 1 .. i : \E j \in 1 .. i : p[j] = x

\* r is s with e put at that place.
Inserted(L, s, at, e, r) == s \in Seq(L) /\ at \in 1 .. Len(s) + 1 /\ e \in L /\ r = InsertAt(s, at, e)

\* What InsertAt makes of a sequence.
LEMMA InsertAtIs ==
  ASSUME NEW L, NEW s, NEW at, NEW e, NEW r, Inserted(L, s, at, e, r)
  PROVE  /\ r \in Seq(L)
         /\ Len(r) = Len(s) + 1
         /\ \A j \in 1 .. Len(s) + 1 :
              r[j] = IF j < at THEN s[j] ELSE IF j = at THEN e ELSE s[j - 1]
<1>0. s \in Seq(L) /\ at \in 1 .. Len(s) + 1 /\ e \in L /\ r = InsertAt(s, at, e)
  BY DEF Inserted
<1>. USE <1>0
<1>. DEFINE a == SubSeq(s, 1, at - 1)
            b == SubSeq(s, at, Len(s))
<1>1. a \in Seq(L) /\ Len(a) = at - 1 /\ \A j \in 1 .. at - 1 : a[j] = s[j]
  OBVIOUS
<1>2. b \in Seq(L) /\ Len(b) = Len(s) - at + 1 /\ \A j \in 1 .. Len(s) - at + 1 : b[j] = s[at + j - 1]
  OBVIOUS
<1>. HIDE DEF a, b
<1>3. InsertAt(s, at, e) = a \o <<e>> \o b
  BY DEF InsertAt, a, b
<1>4. <<e>> \in Seq(L) /\ Len(<<e>>) = 1 /\ <<e>>[1] = e
  OBVIOUS
<1>. DEFINE c == a \o <<e>>
<1>5. c \in Seq(L) /\ Len(c) = at /\ \A j \in 1 .. at : c[j] = IF j < at THEN s[j] ELSE e
  BY <1>1, <1>4
<1>. HIDE DEF c
<1>. DEFINE d == c \o b
<1>6. d \in Seq(L) /\ Len(d) = Len(s) + 1
      /\ \A j \in 1 .. Len(s) + 1 : d[j] = IF j <= at THEN c[j] ELSE b[j - at]
  <2>1. /\ c \o b \in Seq(L) /\ Len(c \o b) = Len(c) + Len(b)
        /\ \A j \in 1 .. Len(c) + Len(b) : (c \o b)[j] = IF j <= Len(c) THEN c[j] ELSE b[j - Len(c)]
    BY ONLY <1>2, <1>5, ConcatProperties
  <2>2. Len(c) + Len(b) = Len(s) + 1 /\ Len(c) = at
    BY <1>2, <1>5
  <2>. QED
    BY <2>1, <2>2
<1>7. \A j \in 1 .. Len(s) + 1 :  d[j] = IF j < at THEN s[j] ELSE IF j = at THEN e ELSE s[j - 1]
  <2>. HIDE DEF d
  <2>. SUFFICES ASSUME NEW j \in 1 .. Len(s) + 1
                PROVE  d[j] = IF j < at THEN s[j] ELSE IF j = at THEN e ELSE s[j - 1]
    OBVIOUS
  <2>1. CASE j <= at
    BY <2>1, <1>5, <1>6
  <2>2. CASE j > at
    <3>1. j - at \in 1 .. Len(s) - at + 1 /\ at + (j - at) - 1 = j - 1
      BY <2>2
    <3>2. b[j - at] = s[j - 1]
      BY <3>1, <1>2
    <3>. QED
      BY <2>2, <3>2, <1>6
  <2>. QED
    BY <2>1, <2>2
<1>8. InsertAt(s, at, e) = d
  BY <1>3 DEF c
<1>. HIDE DEF d
<1>. QED
  BY <1>6, <1>7, <1>8

\* Inserting keeps the lines in order and each once.
LEMMA InsertKeeps ==
  ASSUME NEW i \in Nat, NEW lines \in [1 .. i + 1 -> Lines], NEW sorted, NEW p,
         Arranged(sorted, lines, i, p), Ordered(sorted)
  PROVE  /\ Ordered(Insert(sorted, lines[i + 1]))
         /\ \E q : Arranged(Insert(sorted, lines[i + 1]), lines, i + 1, q)
<1>. DEFINE line == lines[i + 1]
            those == {0} \cup {j \in DOMAIN sorted : Before(sorted[j], line)}
            at == Max(those) + 1
            new == InsertAt(sorted, at, line)
<1>1. sorted \in Seq(Lines) /\ Len(sorted) = i /\ DOMAIN sorted = 1 .. i /\ line \in Lines
  BY DEF Arranged
<1>2. Max(those) \in those /\ \A j \in those : Max(those) >= j
  <2>1. those \in SUBSET (0 .. i) /\ those # {}
    BY <1>1
  <2>. QED
    BY ONLY <2>1, MaxIsElement, i \in Nat
<1>. HIDE DEF line
<1>3. /\ at \in 1 .. i + 1
      /\ at # 1 => Before(sorted[at - 1], line)
      /\ \A j \in at .. i : ~ Before(sorted[j], line)
  <2>1. Max(those) \in 0 .. i
    BY <1>1, <1>2
  <2>2. Max(those) # 0 => Before(sorted[Max(those)], line)
    BY <1>2
  <2>3. ASSUME NEW j \in at .. i PROVE ~ Before(sorted[j], line)
    <3>1. j \in 1 .. i /\ ~ (Max(those) >= j)
      BY <2>1
    <3>2. j \notin those
      BY <3>1, <1>2
    <3>. QED
      BY <3>1, <3>2, <1>1
  <2>. HIDE DEF those
  <2>. QED
    BY <2>1, <2>2, <2>3
<1>4. Insert(sorted, line) = new
  BY DEF Insert
<1>. HIDE DEF at, those
<1>5. /\ new \in Seq(Lines) /\ Len(new) = i + 1
      /\ \A j \in 1 .. i + 1 : new[j] = IF j < at THEN sorted[j] ELSE IF j = at THEN line ELSE sorted[j - 1]
  <2>1. Inserted(Lines, sorted, at, line, new)
    BY <1>1, <1>3 DEF Inserted
  <2>. HIDE DEF new
  <2>2. /\ new \in Seq(Lines)
        /\ Len(new) = Len(sorted) + 1
        /\ \A j \in 1 .. Len(sorted) + 1 :
              new[j] = IF j < at THEN sorted[j] ELSE IF j = at THEN line ELSE sorted[j - 1]
    BY ONLY <2>1, InsertAtIs
  <2>. QED
    BY <2>2, <1>1
<1>. HIDE DEF new
<1>6. Ordered(new)
  <2>. SUFFICES ASSUME NEW j \in 1 .. i + 1, NEW k \in 1 .. i + 1, j < k
                PROVE  ~ Before(new[k], new[j])
    BY <1>5 DEF Ordered
  <2>0. \A a, b \in 1 .. i : a < b => ~ Before(sorted[b], sorted[a])
    BY <1>1 DEF Ordered
  <2>1. CASE j # at /\ k # at
    <3>. DEFINE a == IF j < at THEN j ELSE j - 1
                b == IF k < at THEN k ELSE k - 1
    <3>1. a \in 1 .. i /\ b \in 1 .. i /\ a < b
      BY <2>1, <1>3
    <3>2. new[j] = sorted[a] /\ new[k] = sorted[b]
      BY <2>1, <1>5
    <3>. HIDE DEF a, b
    <3>. QED
      BY <2>0, <3>1, <3>2
  <2>2. CASE j = at
    <3>1. k - 1 \in at .. i /\ new[k] = sorted[k - 1] /\ new[j] = line
      BY <2>2, <1>3, <1>5
    <3>. QED
      BY <3>1, <1>3
  <2>3. CASE k = at
    <3>1. new[k] = line /\ new[j] = sorted[j] /\ j \in 1 .. i /\ at - 1 \in 1 .. i /\ j <= at - 1 /\ at # 1
      BY <2>3, <1>3, <1>5
    <3>2. Before(sorted[at - 1], line)
      BY <3>1, <1>3
    <3>3. j = at - 1 \/ ~ Before(sorted[at - 1], sorted[j])
      BY <3>1, <2>0
    <3>4. sorted[at - 1] \in Lines /\ sorted[j] \in Lines /\ line \in Lines
      BY <3>1, <1>1
    <3>5. \A l \in Lines : l.inclusive["ticks"] \in Int
      BY DEF Lines, Counters
    <3>6. ~ Before(line, sorted[j])
      BY <3>2, <3>3, <3>4, <3>5 DEF Before
    <3>. QED
      BY <3>1, <3>6
  <2>. QED
    BY <2>1, <2>2, <2>3
<1>7. \E q : Arranged(new, lines, i + 1, q)
  <2>. DEFINE q == [j \in 1 .. i + 1 |-> IF j < at THEN p[j] ELSE IF j = at THEN i + 1 ELSE p[j - 1]]
  <2>0. /\ p \in [1 .. i -> 1 .. i]
        /\ \A j \in 1 .. i : sorted[j] = lines[p[j]]
        /\ \A j, k \in 1 .. i : p[j] = p[k] => j = k
        /\ \A x \in 1 .. i : \E j \in 1 .. i : p[j] = x
    BY DEF Arranged
  <2>1. \A j \in 1 .. i + 1 : /\ j < at => j \in 1 .. i
                              /\ j > at => j - 1 \in 1 .. i
    BY <1>3
  <2>2. q \in [1 .. i + 1 -> 1 .. i + 1]
    <3>. SUFFICES ASSUME NEW j \in 1 .. i + 1
                  PROVE  (IF j < at THEN p[j] ELSE IF j = at THEN i + 1 ELSE p[j - 1]) \in 1 .. i + 1
      OBVIOUS
    <3>1. \A x \in 1 .. i : p[x] \in 1 .. i /\ p[x] \in 1 .. i + 1
      BY <2>0
    <3>2. i + 1 \in 1 .. i + 1
      OBVIOUS
    <3>. QED
      BY <2>1, <3>1, <3>2, <1>3
  <2>3. \A j \in 1 .. i + 1 : new[j] = lines[q[j]]
    <3>. SUFFICES ASSUME NEW j \in 1 .. i + 1 PROVE new[j] = lines[q[j]]
      OBVIOUS
    <3>1. q[j] = IF j < at THEN p[j] ELSE IF j = at THEN i + 1 ELSE p[j - 1]
      OBVIOUS
    <3>. HIDE DEF q
    <3>2. new[j] = IF j < at THEN sorted[j] ELSE IF j = at THEN line ELSE sorted[j - 1]
      BY <1>5
    <3>3. CASE j < at
      BY <3>1, <3>2, <3>3, <2>0, <2>1
    <3>4. CASE j = at
      BY <3>1, <3>2, <3>4 DEF line
    <3>5. CASE j > at
      <4>1. new[j] = sorted[j - 1] /\ q[j] = p[j - 1] /\ j - 1 \in 1 .. i
        BY <3>1, <3>2, <3>5, <2>1, <1>3
      <4>. QED
        BY <4>1, <2>0
    <3>. QED
      BY <3>3, <3>4, <3>5, <1>3
  <2>4. ASSUME NEW j \in 1 .. i + 1, NEW k \in 1 .. i + 1, q[j] = q[k] PROVE j = k
    <3>1. \A x \in 1 .. i : p[x] # i + 1
      BY <2>0
    <3>2. q[j] = IF j < at THEN p[j] ELSE IF j = at THEN i + 1 ELSE p[j - 1]
      OBVIOUS
    <3>3. q[k] = IF k < at THEN p[k] ELSE IF k = at THEN i + 1 ELSE p[k - 1]
      OBVIOUS
    <3>. HIDE DEF q
    <3>4. CASE j = at
      BY <3>1, <3>2, <3>3, <3>4, <2>1, <2>4, <1>3
    <3>5. CASE k = at
      BY <3>1, <3>2, <3>3, <3>5, <2>1, <2>4, <1>3
    <3>6. CASE j # at /\ k # at
      <4>. DEFINE a == IF j < at THEN j ELSE j - 1
                  b == IF k < at THEN k ELSE k - 1
      <4>1. a \in 1 .. i /\ b \in 1 .. i
        BY <3>6, <2>1, <1>3
      <4>2. q[j] = p[a] /\ q[k] = p[b]
        BY <3>2, <3>3, <3>6
      <4>3. a = b
        <5>. HIDE DEF a, b
        <5>1. p[a] = p[b]
          BY <4>2, <2>4
        <5>. QED
          BY ONLY <4>1, <5>1, <2>0
      <4>. QED
        BY <4>3, <3>6, <1>3
    <3>. QED
      BY <3>4, <3>5, <3>6
  <2>5. ASSUME NEW x \in 1 .. i + 1 PROVE \E j \in 1 .. i + 1 : q[j] = x
    <3>1. CASE x = i + 1
      BY <3>1, <1>3, SMTT(30)
    <3>2. CASE x # i + 1
      <4>1. PICK j \in 1 .. i : p[j] = x
        BY <2>0, <3>2
      <4>2. j < at => j \in 1 .. i + 1 /\ q[j] = x
        BY <4>1
      <4>3. j >= at => j + 1 \in 1 .. i + 1 /\ q[j + 1] = x
        <5>1. j >= at => j + 1 \in 1 .. i + 1 /\ ~ (j + 1 < at) /\ j + 1 # at /\ (j + 1) - 1 = j
          BY <1>3
        <5>. QED
          BY <4>1, <5>1
      <4>. HIDE DEF q
      <4>. QED
        BY <4>2, <4>3, <1>3
    <3>. QED
      BY <3>1, <3>2
  <2>. HIDE DEF q
  <2>6. Arranged(new, lines, i + 1, q)
    BY <2>2, <2>3, <2>4, <2>5, <1>5 DEF Arranged
  <2>. QED
    BY <2>6
<1>. QED
  BY <1>4, <1>6, <1>7 DEF line

\* The sort loses and repeats no line, and puts them in order.
LEMMA SortArranges ==
  ASSUME NEW n \in Nat, NEW lines \in [1 .. n -> Lines]
  PROVE  /\ Ordered(insertion_sort(lines))
         /\ \E p : Arranged(insertion_sort(lines), lines, n, p)
<1>0. PICK r : SortStepsAre(r, lines, n, Lines)
  BY SortSteps
<1>1. /\ r[0] = <<>>
      /\ \A i \in 1 .. n : r[i] = Insert(r[i - 1], lines[i])
      /\ insertion_sort(lines) = r[n]
  BY <1>0 DEF SortStepsAre
<1>. DEFINE Ok(i) == Ordered(r[i]) /\ \E p : Arranged(r[i], lines, i, p)
            P == {i \in Nat : i <= n => Ok(i)}
<1>2. 0 \in P
  <2>1. Arranged(r[0], lines, 0, <<>>)
    BY <1>1 DEF Arranged
  <2>2. Ordered(r[0])
    BY <1>1 DEF Ordered
  <2>. QED
    BY <2>1, <2>2
<1>3. ASSUME NEW i \in P PROVE i + 1 \in P
  <2>. SUFFICES ASSUME i + 1 <= n PROVE Ok(i + 1)
    <3>. HIDE DEF Ok
    <3>. QED
      OBVIOUS
  <2>1. i \in Nat /\ i <= n /\ Ok(i)
    <3>. HIDE DEF Ok
    <3>1. i \in Nat /\ (i <= n => Ok(i))
      OBVIOUS
    <3>. QED
      BY <3>1
  <2>2. PICK p : Arranged(r[i], lines, i, p)
    BY <2>1
  <2>. DEFINE first == [x \in 1 .. i + 1 |-> lines[x]]
  <2>3. first \in [1 .. i + 1 -> Lines] /\ first[i + 1] = lines[i + 1]
        /\ \A x \in 1 .. i + 1 : first[x] = lines[x]
    BY <2>1
  <2>. HIDE DEF first
  <2>4. Arranged(r[i], first, i, p)
    <3>1. ASSUME NEW j \in 1 .. i PROVE lines[p[j]] = first[p[j]]
      <4>0. p \in [1 .. i -> 1 .. i] /\ i \in Nat
        BY <2>1, <2>2 DEF Arranged
      <4>1. p[j] \in 1 .. i + 1
        BY <4>0
      <4>. QED
        BY <4>1, <2>3
    <3>. QED
      BY <2>2, <3>1 DEF Arranged
  <2>5. r[i + 1] = Insert(r[i], first[i + 1])
    <3>1. i + 1 \in 1 .. n /\ (i + 1) - 1 = i
      BY <2>1
    <3>. QED
      BY <1>1, <2>3, <3>1
  <2>6. Ordered(r[i + 1]) /\ \E q : Arranged(r[i + 1], first, i + 1, q)
    BY ONLY <2>1, <2>3, <2>4, <2>5, InsertKeeps
  <2>7. PICK q : Arranged(r[i + 1], first, i + 1, q)
    BY <2>6
  <2>8. Arranged(r[i + 1], lines, i + 1, q)
    <3>1. ASSUME NEW j \in 1 .. i + 1 PROVE lines[q[j]] = first[q[j]]
      <4>1. q[j] \in 1 .. i + 1
        BY <2>7 DEF Arranged
      <4>. QED
        BY <4>1, <2>3
    <3>. QED
      BY <2>7, <3>1 DEF Arranged
  <2>. QED
    BY <2>6, <2>8
<1>4. P = Nat
  <2>. HIDE DEF P
  <2>1. P \in SUBSET Nat
    BY DEF P
  <2>. QED
    BY ONLY <1>2, <1>3, <2>1, NaturalsAll
<1>5. Ok(n)
  <2>. HIDE DEF Ok
  <2>1. n \in P /\ n <= n
    <3>. HIDE DEF P
    <3>. QED
      BY <1>4
  <2>. QED
    BY <2>1
<1>. QED
  BY <1>1, <1>5

\* The loop that prints, on lines with the named ones first, stops being of
\* consequence after those.
LEMMA PrintsNamed ==
  ASSUME NEW n \in Nat, NEW sorted \in [1 .. n -> Lines], Ordered(sorted)
  PROVE  \E m \in 0 .. n :
           /\ \A j \in 1 .. n : Named(sorted[j]) <=> j <= m
           /\ FoldLeft(Printed, <<>>, sorted) \in Seq(Lines)
           /\ Len(FoldLeft(Printed, <<>>, sorted)) = m
           /\ \A j \in 1 .. m : FoldLeft(Printed, <<>>, sorted)[j] = sorted[j]
<1>. DEFINE those == {0} \cup {j \in 1 .. n : Named(sorted[j])}
            m == Max(those)
<1>1. Max(those) \in those /\ \A j \in those : Max(those) >= j
  <2>1. those \in SUBSET (0 .. n) /\ those # {}
    OBVIOUS
  <2>. QED
    BY ONLY <2>1, MaxIsElement, n \in Nat
<1>2. m \in 0 .. n
  BY <1>1
<1>3. ASSUME NEW j \in 1 .. n PROVE Named(sorted[j]) <=> j <= m
  <2>1. Named(sorted[j]) => j <= m
    BY <1>1
  <2>2. ASSUME j <= m PROVE Named(sorted[j])
    <3>1. m # 0 /\ Named(sorted[m]) /\ m \in 1 .. n
      BY <1>1, <2>2
    <3>2. j = m \/ ~ Before(sorted[m], sorted[j])
      <4>1. j \in DOMAIN sorted /\ m \in DOMAIN sorted /\ (j = m \/ j < m)
        BY <3>1, <2>2
      <4>. QED
        BY <4>1 DEF Ordered
    <3>. QED
      BY <3>1, <3>2 DEF Before
  <2>. QED
    BY <2>1, <2>2
<1>. HIDE DEF m, those
<1>40. PICK r : PrintStepsAre(r, sorted, n, Lines)
  BY PrintSteps
<1>4. /\ r \in [0 .. n -> Seq(Lines)]
      /\ r[0] = <<>>
      /\ \A i \in 1 .. n : r[i] = Printed(r[i - 1], sorted[i])
      /\ FoldLeft(Printed, <<>>, sorted) = r[n]
  BY <1>40 DEF PrintStepsAre
<1>. DEFINE Ok(i) == /\ Len(r[i]) = IF i < m THEN i ELSE m
                     /\ \A j \in 1 .. Len(r[i]) : r[i][j] = sorted[j]
            P == {i \in Nat : i <= n => Ok(i)}
<1>5. 0 \in P
  BY <1>2, <1>4
<1>6. ASSUME NEW i \in P PROVE i + 1 \in P
  <2>. SUFFICES ASSUME i + 1 <= n PROVE Ok(i + 1)
    <3>. HIDE DEF Ok
    <3>. QED
      OBVIOUS
  <2>1. i \in Nat /\ i <= n /\ Ok(i)
    <3>. HIDE DEF Ok
    <3>1. i \in Nat /\ (i <= n => Ok(i))
      OBVIOUS
    <3>. QED
      BY <3>1
  <2>2. i + 1 \in 1 .. n /\ (i + 1) - 1 = i
    BY <2>1
  <2>3. r[i + 1] = Printed(r[i], sorted[i + 1]) /\ r[i] \in Seq(Lines) /\ sorted[i + 1] \in Lines
    BY <1>4, <2>1, <2>2, SMTT(30)
  <2>4. CASE i < m
    <3>1. Named(sorted[i + 1])
      BY <2>2, <2>4, <1>2, <1>3
    <3>2. r[i + 1] = Append(r[i], sorted[i + 1]) /\ Len(r[i]) = i
      BY <3>1, <2>3, <2>1, <2>4 DEF Printed
    <3>3. /\ Len(r[i + 1]) = i + 1
          /\ \A j \in 1 .. i + 1 : r[i + 1][j] = IF j = i + 1 THEN sorted[i + 1] ELSE r[i][j]
      <4>1. /\ Len(Append(r[i], sorted[i + 1])) = Len(r[i]) + 1
            /\ \A j \in 1 .. Len(r[i]) : Append(r[i], sorted[i + 1])[j] = r[i][j]
            /\ Append(r[i], sorted[i + 1])[Len(r[i]) + 1] = sorted[i + 1]
        BY ONLY <2>3, AppendProperties
      <4>. QED
        BY <4>1, <3>2, <2>1
    <3>4. ASSUME NEW j \in 1 .. i + 1 PROVE r[i + 1][j] = sorted[j]
      <4>1. j = i + 1 \/ (j \in 1 .. i /\ r[i][j] = sorted[j])
        BY <2>1, <3>2
      <4>. QED
        BY <4>1, <3>3
    <3>5. Len(r[i + 1]) = IF i + 1 < m THEN i + 1 ELSE m
      BY <3>3, <2>4, <1>2
    <3>. QED
      BY <3>3, <3>4, <3>5
  <2>5. CASE i >= m
    <3>1. ~ Named(sorted[i + 1])
      BY <2>2, <2>5, <1>2, <1>3
    <3>2. r[i + 1] = r[i]
      BY <3>1, <2>3 DEF Printed
    <3>. QED
      BY <3>2, <2>1, <2>5, <1>2
  <2>. QED
    BY <2>1, <2>4, <2>5, <1>2
<1>7. P = Nat
  <2>. HIDE DEF P
  <2>1. P \in SUBSET Nat
    BY DEF P
  <2>. QED
    BY ONLY <1>5, <1>6, <2>1, NaturalsAll
<1>8. Ok(n)
  <2>. HIDE DEF Ok
  <2>1. n \in P /\ n <= n
    <3>. HIDE DEF P
    <3>. QED
      BY <1>7
  <2>. QED
    BY <2>1
<1>9. Len(r[n]) = m /\ \A j \in 1 .. m : r[n][j] = sorted[j]
  BY <1>8, <1>2
<1>10. r[n] \in Seq(Lines)
  BY <1>4
<1>. QED
  BY ONLY <1>2, <1>3, <1>4, <1>9, <1>10

\* The dump: which line is where, each named line once, in order.
\* d lists m of the n lines, which ones p says: those with a name.
Listing(d, lines, n, m, p) ==
  /\ m \in 0 .. n /\ p \in [1 .. m -> 1 .. n]
  /\ d \in Seq(Lines) /\ Len(d) = m
  /\ \A j \in 1 .. m : d[j] = lines[p[j]] /\ Named(lines[p[j]])
  /\ \A j, k \in 1 .. m : j < k => p[j] # p[k] /\ d[j].inclusive["ticks"] >= d[k].inclusive["ticks"]
  /\ \A x \in 1 .. n : Named(lines[x]) => \E j \in 1 .. m : p[j] = x

\* The dump is such a listing of the lines it is made from.
LEMMA DumpLists ==
  ASSUME NEW n \in Nat, NEW lines \in [1 .. n -> Lines], NEW d,
         d = FoldLeft(Printed, <<>>, insertion_sort(lines))
  PROVE  \E m, p : Listing(d, lines, n, m, p)
<1>1. Ordered(insertion_sort(lines)) /\ \E p : Arranged(insertion_sort(lines), lines, n, p)
  BY SortArranges
<1>. DEFINE sorted == insertion_sort(lines)
<1>2. PICK p : Arranged(sorted, lines, n, p)
  BY <1>1
<1>. HIDE DEF sorted
<1>3. sorted \in [1 .. n -> Lines] /\ Ordered(sorted) /\ DOMAIN sorted = 1 .. n
  BY <1>1, <1>2 DEF Arranged, sorted
<1>4. d = FoldLeft(Printed, <<>>, sorted)
  BY DEF sorted
<1>5. PICK m \in 0 .. n :
         /\ \A j \in 1 .. n : Named(sorted[j]) <=> j <= m
         /\ d \in Seq(Lines)
         /\ Len(d) = m
         /\ \A j \in 1 .. m : d[j] = sorted[j]
  BY <1>3, <1>4, PrintsNamed
<1>. DEFINE q == [j \in 1 .. m |-> p[j]]
<1>0. /\ p \in [1 .. n -> 1 .. n]
      /\ \A j \in 1 .. n : sorted[j] = lines[p[j]]
  BY <1>2 DEF Arranged
<1>6. \A j \in 1 .. m : j \in 1 .. n /\ q[j] = p[j] /\ p[j] \in 1 .. n
  BY <1>0
<1>7. q \in [1 .. m -> 1 .. n]
  BY <1>6
<1>. HIDE DEF q
<1>8. \A j \in 1 .. m : d[j] = lines[q[j]] /\ Named(lines[q[j]])
  <2>. SUFFICES ASSUME NEW j \in 1 .. m PROVE d[j] = lines[q[j]] /\ Named(lines[q[j]])
    OBVIOUS
  <2>1. j \in 1 .. n /\ q[j] = p[j] /\ j <= m
    BY <1>6
  <2>2. sorted[j] = lines[q[j]] /\ d[j] = sorted[j] /\ Named(sorted[j])
    BY <1>0, <1>5, <2>1
  <2>. QED
    BY <2>2
<1>9. ASSUME NEW j \in 1 .. m, NEW k \in 1 .. m, j < k
      PROVE  q[j] # q[k] /\ d[j].inclusive["ticks"] >= d[k].inclusive["ticks"]
  <2>1. j \in 1 .. n /\ k \in 1 .. n /\ q[j] = p[j] /\ q[k] = p[k] /\ j # k
    BY <1>6, <1>9
  <2>2. q[j] # q[k]
    BY <2>1, <1>2 DEF Arranged
  <2>3. ~ Before(sorted[k], sorted[j])
    BY <2>1, <1>3, <1>9 DEF Ordered
  <2>4. Named(sorted[k]) /\ d[j] = sorted[j] /\ d[k] = sorted[k]
    BY <2>1, <1>5
  <2>5. \A l \in Lines : l.inclusive["ticks"] \in Int
    BY DEF Lines, Counters
  <2>6. d[j].inclusive["ticks"] \in Int /\ d[k].inclusive["ticks"] \in Int
    BY <2>4, <2>1, <1>3, <2>5
  <2>. QED
    BY <2>2, <2>3, <2>4, <2>6 DEF Before
<1>10. ASSUME NEW x \in 1 .. n, Named(lines[x]) PROVE \E j \in 1 .. m : q[j] = x
  <2>1. PICK j \in 1 .. n : p[j] = x
    BY <1>2 DEF Arranged
  <2>2. Named(sorted[j])
    BY <2>1, <1>2, <1>10 DEF Arranged
  <2>3. j \in 1 .. m
    BY <2>2, <1>5
  <2>. QED
    BY <2>1, <2>3, <1>6
<1>11. d \in Seq(Lines) /\ Len(d) = m
  BY <1>5
<1>12. Listing(d, lines, n, m, q)
  BY <1>7, <1>8, <1>9, <1>10, <1>11, Zenon DEF Listing
<1>. QED
  BY <1>12

(***************************************************************************)
(* What the open scopes have measured and not yet booked.                  *)
(***************************************************************************)

\* The live ScopedProfile objects.
Scope == [slot : Blocks, m_parent : Slots, ref : [Counters -> Nat], snapshot : [Counters -> Int]]

\* Each scope is open in the one below it on the stack.
Nested(st) ==
  \A i \in 1 .. Len(st) : st[i].m_parent = IF i = 1 THEN Root ELSE st[i - 1].slot

\* Scope i reads the counter k; its block does.
Watches(st, i, k) == k \in Watched[st[i].slot]

\* What scope i has measured of k, and not yet booked.
Measures(st, cnt, i, k) == IF Watches(st, i, k) THEN cnt[k] - st[i].ref[k] ELSE 0

\* What the scopes owe the slot b, less what it owes for them.
Signed(st, cnt, k, b) ==
  [i \in 1 .. Len(st) |-> (IF st[i].slot = b THEN Measures(st, cnt, i, k) ELSE 0)
                        - (IF st[i].m_parent = b THEN Measures(st, cnt, i, k) ELSE 0)]

\* All of that: Owed, of any stack and counters.
OwedBy(st, cnt, k, b) == SumFunctionOnSet(Signed(st, cnt, k, b), 1 .. Len(st))

\* What one advance of the counter k adds to that.
Net(st, k, b) ==
  [i \in 1 .. Len(st) |-> (IF st[i].slot = b /\ Watches(st, i, k) THEN 1 ELSE 0)
                        - (IF st[i].m_parent = b /\ Watches(st, i, k) THEN 1 ELSE 0)]

\* The same of the first j scopes.
NetOf(st, k, b, j) == SumFunctionOnSet(Net(st, k, b), 1 .. j)

\* h is the sum of f and g, point by point.
AddUp(f, g, h, D) ==
  /\ IsFiniteSet(D)
  /\ f \in [D -> Int] /\ g \in [D -> Int] /\ h \in [D -> Int]
  /\ \A x \in D : h[x] = f[x] + g[x]

\* SumPlus, in this form.
LEMMA SumAddsUp ==
  ASSUME NEW f, NEW g, NEW h, NEW D, AddUp(f, g, h, D)
  PROVE  SumFunctionOnSet(h, D) = SumFunctionOnSet(f, D) + SumFunctionOnSet(g, D)
BY SumPlus DEF AddUp

\* What is owed is an integer.
LEMMA SignedType ==
  ASSUME NEW st \in Seq(Scope), NEW cnt \in [Counters -> Nat], NEW k \in Counters, NEW b
  PROVE  /\ Signed(st, cnt, k, b) \in [1 .. Len(st) -> Int]
         /\ IsFiniteSet(1 .. Len(st)) /\ Len(st) \in Nat
         /\ \A i \in 1 .. Len(st) : Measures(st, cnt, i, k) \in Int
         /\ OwedBy(st, cnt, k, b) \in Int
<1>1. Len(st) \in Nat /\ \A i \in 1 .. Len(st) : st[i] \in Scope
  OBVIOUS
<1>2. \A i \in 1 .. Len(st) : st[i].ref[k] \in Int
  BY <1>1 DEF Scope
<1>3. \A i \in 1 .. Len(st) : Measures(st, cnt, i, k) \in Int
  BY <1>2 DEF Measures
<1>4. Signed(st, cnt, k, b) \in [1 .. Len(st) -> Int]
  BY <1>3 DEF Signed
<1>5. IsFiniteSet(1 .. Len(st))
  BY <1>1, FS_Interval
<1>6. OwedBy(st, cnt, k, b) \in Int
  BY ONLY <1>4, <1>5, SumAdds DEF OwedBy
<1>. QED
  BY <1>1, <1>3, <1>4, <1>5, <1>6

\* NetOf as a recurrence.
LEMMA NetType ==
  ASSUME NEW st \in Seq(Scope), NEW k \in Counters, NEW b
  PROVE  /\ Net(st, k, b) \in [1 .. Len(st) -> Int]
         /\ \A j \in 0 .. Len(st) : NetOf(st, k, b, j) \in Int
         /\ NetOf(st, k, b, 0) = 0
         /\ \A j \in 0 .. Len(st) - 1 : NetOf(st, k, b, j + 1) = NetOf(st, k, b, j) + Net(st, k, b)[j + 1]
<1>1. Len(st) \in Nat
  OBVIOUS
<1>2. Net(st, k, b) \in [1 .. Len(st) -> Int]
  BY DEF Net
<1>3. IsFiniteSet(1 .. Len(st))
  BY <1>1, FS_Interval
<1>. DEFINE f == Net(st, k, b)
<1>. HIDE DEF f
<1>4. f \in [1 .. Len(st) -> Int]
  BY <1>2 DEF f
<1>5. ASSUME NEW j \in 0 .. Len(st) PROVE NetOf(st, k, b, j) \in Int
  <2>1. 1 .. j \in SUBSET (1 .. Len(st))
    BY <1>1
  <2>2. SumFunctionOnSet(f, 1 .. j) \in Int
    BY ONLY <2>1, <1>3, <1>4, SumAdds
  <2>. QED
    BY <2>2 DEF f, NetOf
<1>6. NetOf(st, k, b, 0) = 0
  <2>1. 1 .. 0 = {}
    OBVIOUS
  <2>2. SumFunctionOnSet(f, {}) = 0
    BY ONLY <1>3, <1>4, SumAdds
  <2>. QED
    BY <2>1, <2>2 DEF f, NetOf
<1>7. ASSUME NEW j \in 0 .. Len(st) - 1 PROVE NetOf(st, k, b, j + 1) = NetOf(st, k, b, j) + f[j + 1]
  <2>1. 1 .. j \in SUBSET (1 .. Len(st)) /\ j + 1 \in 1 .. Len(st) /\ j + 1 \notin 1 .. j /\ 1 .. j + 1 = (1 .. j) \cup {j + 1}
    BY <1>1
  <2>2. SumFunctionOnSet(f, 1 .. j + 1) = SumFunctionOnSet(f, 1 .. j) + f[j + 1]
    BY ONLY <2>1, <1>3, <1>4, SumAdd
  <2>. QED
    BY <2>2 DEF f, NetOf
<1>. QED
  BY <1>2, <1>5, <1>6, <1>7 DEF f

\* What one term more adds to a sum.
LEMMA SumOneMore ==
  ASSUME NEW n \in Nat, NEW f \in [1 .. n + 1 -> Int], NEW g \in [1 .. n -> Int], \A i \in 1 .. n : f[i] = g[i]
  PROVE  SumFunctionOnSet(f, 1 .. n + 1) = SumFunctionOnSet(g, 1 .. n) + f[n + 1]
<1>. DEFINE D == 1 .. n + 1
            E == 1 .. n
            x == n + 1
<1>1. IsFiniteSet(1 .. n) /\ IsFiniteSet(1 .. n + 1)
  BY FS_Interval
<1>6. D = E \cup {x} /\ x \in D /\ x \notin E /\ E \in SUBSET D /\ E \in SUBSET E
      /\ f \in [D -> Int] /\ g \in [E -> Int] /\ IsFiniteSet(D) /\ IsFiniteSet(E) /\ \A i \in E : f[i] = g[i]
  BY <1>1
<1>. HIDE DEF D, E, x
<1>7. SumFunctionOnSet(f, D) = SumFunctionOnSet(f, E) + f[x]
  BY ONLY <1>6, SumAdd
<1>8. SumFunctionOnSet(f, E) = SumFunctionOnSet(g, E)
  BY ONLY <1>6, SumSame, SMTT(30)
<1>. QED
  BY <1>7, <1>8 DEF D, E, x

\* What one scope more owes.
LEMMA OwedOneMore ==
  ASSUME NEW st \in Seq(Scope), NEW pre \in Seq(Scope), Len(st) = Len(pre) + 1,
         \A i \in 1 .. Len(pre) : st[i] = pre[i],
         NEW cnt \in [Counters -> Nat], NEW k \in Counters, NEW b
  PROVE  OwedBy(st, cnt, k, b) = OwedBy(pre, cnt, k, b) + Signed(st, cnt, k, b)[Len(st)]
<1>0. PICK n \in Nat : n = Len(pre)
  OBVIOUS
<1>1. PICK f \in [1 .. n + 1 -> Int], g \in [1 .. n -> Int] : f = Signed(st, cnt, k, b) /\ g = Signed(pre, cnt, k, b)
  BY <1>0, SignedType
<1>2. \A i \in 1 .. n : f[i] = g[i]
  BY <1>0, <1>1 DEF Signed, Measures, Watches
<1>3. SumFunctionOnSet(f, 1 .. n + 1) = SumFunctionOnSet(g, 1 .. n) + f[n + 1]
  BY ONLY <1>2, SumOneMore
<1>. QED
  BY <1>0, <1>1, <1>3 DEF OwedBy

\* The counter c advances.
Ticked(cnt, new, c) == cnt \in [Counters -> Nat] /\ c \in Counters /\ new = [cnt EXCEPT ![c] = @ + 1]

\* What an advance of the counter c adds.
LEMMA OwedTicks ==
  ASSUME NEW st \in Seq(Scope), NEW cnt, NEW new, NEW c, Ticked(cnt, new, c), NEW k \in Counters, NEW b
  PROVE  OwedBy(st, new, k, b) = OwedBy(st, cnt, k, b) + IF k = c THEN NetOf(st, k, b, Len(st)) ELSE 0
<1>. DEFINE before == Signed(st, cnt, k, b)
            after == Signed(st, new, k, b)
            more == Net(st, k, b)
            I == 1 .. Len(st)
<1>. USE DEF Ticked
<1>0. new \in [Counters -> Nat]
  OBVIOUS
<1>1. before \in [I -> Int] /\ after \in [I -> Int] /\ IsFiniteSet(I) /\ Len(st) \in Nat
  BY <1>0, SignedType
<1>2. more \in [I -> Int]
  BY NetType
<1>3. \A i \in I : st[i].ref[k] \in Int
  <2>1. \A i \in I : st[i] \in Scope
    OBVIOUS
  <2>. QED
    BY <2>1, SMTT(30) DEF Scope
<1>4. CASE k = c
  <2>0. new[k] = cnt[k] + 1 /\ cnt[k] \in Int
    BY <1>4
  <2>1. ASSUME NEW i \in I PROVE Measures(st, new, i, k) = Measures(st, cnt, i, k) + IF Watches(st, i, k) THEN 1 ELSE 0
    <3>1. st[i].ref[k] \in Int
      BY <1>3
    <3>. HIDE DEF I
    <3>. QED
      BY ONLY <2>0, <3>1 DEF Measures
  <2>2. \A i \in I : Measures(st, cnt, i, k) \in Int
    BY SignedType
  <2>3. ASSUME NEW i \in I PROVE after[i] = before[i] + more[i]
    <3>1. Measures(st, new, i, k) = Measures(st, cnt, i, k) + (IF Watches(st, i, k) THEN 1 ELSE 0)
          /\ Measures(st, cnt, i, k) \in Int
      BY <2>1, <2>2
    <3>. QED
      BY <3>1 DEF Signed, Net
  <2>. HIDE DEF before, after, more, I
  <2>4. AddUp(before, more, after, I)
    BY <1>1, <1>2, <2>3 DEF AddUp
  <2>5. SumFunctionOnSet(after, I) = SumFunctionOnSet(before, I) + SumFunctionOnSet(more, I)
    BY ONLY <2>4, SumAddsUp
  <2>. QED
    BY <2>5, <1>4 DEF before, after, more, I, OwedBy, NetOf
<1>5. CASE k # c
  <2>1. \A i \in I : Measures(st, new, i, k) = Measures(st, cnt, i, k)
    BY <1>5 DEF Measures
  <2>2. after = before
    BY <2>1 DEF Signed
  <2>3. OwedBy(st, cnt, k, b) \in Int
    BY SignedType
  <2>. QED
    BY <2>2, <2>3, <1>5 DEF OwedBy
<1>. QED
  BY <1>4, <1>5

\* g is f with d more at x, if x is there at all.
ShiftedAt(f, g, D, x, d) ==
  /\ IsFiniteSet(D)
  /\ f \in [D -> Int] /\ g \in [D -> Int] /\ d \in Int
  /\ \A y \in D : g[y] = f[y] + IF y = x THEN d ELSE 0

\* SumChanges, in this form.
LEMMA SumShifts ==
  ASSUME NEW f, NEW g, NEW D, NEW x, NEW d, ShiftedAt(f, g, D, x, d)
  PROVE  /\ SumFunctionOnSet(g, D) = SumFunctionOnSet(f, D) + IF x \in D THEN d ELSE 0
         /\ SumFunctionOnSet(f, D) \in Int /\ SumFunctionOnSet(g, D) \in Int
<1>1. /\ IsFiniteSet(D)
      /\ f \in [D -> Int] /\ g \in [D -> Int] /\ d \in Int
      /\ \A y \in D : g[y] = f[y] + IF y = x THEN d ELSE 0
  BY DEF ShiftedAt
<1>2. SumFunctionOnSet(f, D) \in Int /\ SumFunctionOnSet(g, D) \in Int
  BY ONLY <1>1, SumAdds
<1>3. CASE x \in D
  <2>1. g[x] = f[x] + d /\ \A y \in D \ {x} : g[y] = f[y]
    BY <1>1, <1>3
  <2>2. SumFunctionOnSet(g, D) = SumFunctionOnSet(f, D) + d
    BY ONLY <1>1, <1>3, <2>1, SumChanges
  <2>. QED
    BY <1>2, <1>3, <2>2
<1>4. CASE x \notin D
  <2>1. f = g
    BY <1>1, <1>4
  <2>. QED
    BY <1>2, <1>4, <2>1
<1>. QED
  BY <1>3, <1>4

\* A sum of zeros.
LEMMA SumZero ==
  ASSUME NEW f, NEW D, IsFiniteSet(D), f \in [D -> Int], \A x \in D : f[x] = 0
  PROVE  SumFunctionOnSet(f, D) = 0
<1>1. SumFunctionOnSet(f, D) = SumFunctionOnSet(f, D) + SumFunctionOnSet(f, D)
  BY SumPlus
<1>2. PICK s \in Int : s = SumFunctionOnSet(f, D)
  BY SumAdds
<1>3. s = s + s
  BY <1>1, <1>2
<1>4. s = 0
  BY ONLY <1>3, s \in Int
<1>. QED
  BY <1>2, <1>4, Zenon

(***************************************************************************)
(* An advance of the counter k, over the first j scopes.                   *)
(***************************************************************************)

\* What scope j + 1 adds: to its block, and off the one it is open in.
LEMMA NetStep ==
  ASSUME NEW st \in Seq(Scope), Nested(st), NEW k \in Counters, NEW b, NEW j \in 0 .. Len(st) - 1
  PROVE  /\ NetOf(st, k, b, j) \in Int /\ NetOf(st, k, b, j + 1) \in Int
         /\ NetOf(st, k, b, j + 1) =
              NetOf(st, k, b, j)
              + (IF Watches(st, j + 1, k) /\ st[j + 1].slot = b THEN 1 ELSE 0)
              - (IF Watches(st, j + 1, k) /\ b = (IF j = 0 THEN Root ELSE st[j].slot) THEN 1 ELSE 0)
<1>1. Len(st) \in Nat /\ j \in 0 .. Len(st) /\ j + 1 \in 0 .. Len(st) /\ j + 1 \in 1 .. Len(st)
  OBVIOUS
<1>2. NetOf(st, k, b, j) \in Int /\ NetOf(st, k, b, j + 1) \in Int
  BY <1>1, NetType
<1>3. NetOf(st, k, b, j + 1) = NetOf(st, k, b, j) + Net(st, k, b)[j + 1]
  BY NetType
<1>4. st[j + 1].m_parent = IF j = 0 THEN Root ELSE st[j].slot
  BY <1>1 DEF Nested
<1>5. Net(st, k, b)[j + 1] = (IF st[j + 1].slot = b /\ Watches(st, j + 1, k) THEN 1 ELSE 0)
                             - (IF st[j + 1].m_parent = b /\ Watches(st, j + 1, k) THEN 1 ELSE 0)
  BY <1>1 DEF Net
<1>. QED
  BY <1>2, <1>3, <1>4, <1>5

\* A scope is of a block, never of slot 0, and open in a slot.
LEMMA ScopeBlocks ==
  ASSUME NEW st \in Seq(Scope)
  PROVE  /\ Len(st) \in Nat
         /\ \A i \in 1 .. Len(st) : st[i].slot \in Blocks /\ st[i].slot # Root /\ st[i].m_parent \in Slots
<1>1. Len(st) \in Nat /\ \A i \in 1 .. Len(st) : st[i] \in Scope
  OBVIOUS
<1>2. \A s \in Scope : s.slot \in Blocks /\ s.m_parent \in Slots
  BY DEF Scope
<1>3. Root \notin Blocks
  BY DEF Root, Blocks
<1>. QED
  BY <1>1, <1>2, <1>3

\* The scopes of b, among the first j, with no scope watching k directly inside.
Innermost(st, k, b, j) ==
  {i \in 1 .. j : Watches(st, i, k) /\ st[i].slot = b /\ ~ (i + 1 <= j /\ Watches(st, i + 1, k))}

\* A block that watches the counter gets what its innermost scopes count.
LEMMA NetCounts ==
  ASSUME NEW st \in Seq(Scope), Nested(st), NEW k \in Counters, NEW b \in Blocks, k \in Watched[b]
  PROVE  \A j \in 0 .. Len(st) : NetOf(st, k, b, j) = Cardinality(Innermost(st, k, b, j))
<1>. DEFINE Ok(j) == NetOf(st, k, b, j) = Cardinality(Innermost(st, k, b, j))
            P == {j \in Nat : j <= Len(st) => Ok(j)}
<1>0. Len(st) \in Nat /\ \A j \in Nat : IsFiniteSet(Innermost(st, k, b, j))
  <2>1. \A j \in Nat : IsFiniteSet(1 .. j) /\ Innermost(st, k, b, j) \subseteq 1 .. j
    BY FS_Interval DEF Innermost
  <2>. QED
    BY <2>1, FS_Subset
<1>1. 0 \in P
  <2>1. Innermost(st, k, b, 0) = {}
    BY DEF Innermost
  <2>. QED
    BY <2>1, FS_EmptySet, NetType
<1>2. ASSUME NEW j \in P PROVE j + 1 \in P
  <2>. SUFFICES ASSUME j + 1 <= Len(st) PROVE Ok(j + 1)
    OBVIOUS
  <2>. DEFINE A == Innermost(st, k, b, j)
              B == Innermost(st, k, b, j + 1)
  <2>0. j \in Nat /\ Ok(j) /\ j \in 0 .. Len(st) - 1
    BY <1>0
  <2>1. NetOf(st, k, b, j + 1) =
              Cardinality(A)
              + (IF Watches(st, j + 1, k) /\ st[j + 1].slot = b THEN 1 ELSE 0)
              - (IF Watches(st, j + 1, k) /\ b = (IF j = 0 THEN Root ELSE st[j].slot) THEN 1 ELSE 0)
    BY <2>0, NetStep
  <2>2. Root # b
    BY DEF Root, Blocks
  <2>3. IsFiniteSet(A) /\ Cardinality(A) \in Nat /\ j + 1 \notin A
    BY <1>0, <2>0, FS_CardinalityType DEF Innermost
  <2>4. CASE ~ Watches(st, j + 1, k)
    <3>1. A = B
      BY <2>0, <2>4 DEF Innermost
    <3>. QED
      BY <2>1, <2>3, <2>4, <3>1
  <2>5. CASE Watches(st, j + 1, k)
    <3>1. B = (A \ {j}) \cup (IF st[j + 1].slot = b THEN {j + 1} ELSE {})
      BY <2>0, <2>5 DEF Innermost
    <3>. DEFINE C == A \ {j}
                inside == j # 0 /\ st[j].slot = b
    <3>2. IsFiniteSet(C) /\ Cardinality(C) \in Nat /\ Cardinality(C) = Cardinality(A) - (IF inside THEN 1 ELSE 0)
      <4>1. CASE inside
        <5>1. j \in A
          BY <2>0, <4>1 DEF Innermost, Watches
        <5>. QED
          BY <2>3, <5>1, <4>1, FS_RemoveElement, FS_CardinalityType
      <4>2. CASE ~ inside
        <5>1. j \notin A
          BY <2>0, <4>2 DEF Innermost
        <5>2. C = A
          BY <5>1
        <5>. HIDE DEF A, C
        <5>. QED
          BY <2>3, <5>2, <4>2
      <4>. QED
        BY <4>1, <4>2
    <3>3. Cardinality(B) = Cardinality(C) + (IF st[j + 1].slot = b THEN 1 ELSE 0)
      <4>1. CASE st[j + 1].slot = b
        <5>1. B = C \cup {j + 1} /\ j + 1 \notin C
          BY <3>1, <4>1, <2>3
        <5>. HIDE DEF B, C
        <5>. QED
          BY <3>2, <5>1, <4>1, FS_AddElement
      <4>2. CASE st[j + 1].slot # b
        <5>1. B = C
          BY <3>1, <4>2
        <5>. HIDE DEF B, C
        <5>. QED
          BY <3>2, <4>2, <5>1
      <4>. QED
        BY <4>1, <4>2
    <3>4. (b = (IF j = 0 THEN Root ELSE st[j].slot)) <=> inside
      BY <2>0, <2>2
    <3>. HIDE DEF A, B, C, inside
    <3>5. NetOf(st, k, b, j + 1) = Cardinality(B)
      BY <2>1, <2>3, <2>5, <3>2, <3>3, <3>4
    <3>. QED
      BY <3>5 DEF B
  <2>. QED
    BY <2>4, <2>5
<1>3. P = Nat
  <2>. HIDE DEF P
  <2>1. P \in SUBSET Nat
    BY DEF P
  <2>. QED
    BY ONLY <1>1, <1>2, <2>1, NaturalsAll
<1>. HIDE DEF Ok
<1>4. \A j \in P : j <= Len(st) => Ok(j)
  OBVIOUS
<1>. HIDE DEF P
<1>5. \A j \in 0 .. Len(st) : Ok(j)
  BY <1>0, <1>3, <1>4
<1>. QED
  BY <1>5 DEF Ok

(***************************************************************************)
(* What an advance of a counter nets each slot, by induction on the        *)
(* stack.                                                                  *)
(***************************************************************************)

\* There are finitely many slots, slot 0 and the blocks.
LEMMA SlotsFinite ==
  /\ IsFiniteSet(Slots) /\ IsFiniteSet(Blocks)
  /\ \A T \in SUBSET Slots : IsFiniteSet(T)
  /\ Blocks \in SUBSET Slots /\ Root \in Slots /\ Root \notin Blocks /\ Slots = Blocks \cup {Root}
<1>1. IsFiniteSet(Blocks)
  BY BoundAssumption, FS_Interval DEF Blocks
<1>2. Slots = Blocks \cup {Root}
  BY DEF Slots
<1>3. IsFiniteSet(Slots)
  BY <1>1, <1>2, FS_AddElement
<1>4. Root \notin Blocks
  BY DEF Root, Blocks
<1>. QED
  BY <1>1, <1>2, <1>3, <1>4, FS_Subset

\* A block that does not watch the counter only gives.
LEMMA NetHidden ==
  ASSUME NEW st \in Seq(Scope), Nested(st), NEW k \in Counters, NEW b \in Blocks, k \notin Watched[b]
  PROVE  \A j \in 0 .. Len(st) : NetOf(st, k, b, j) <= 0
<1>. DEFINE Ok(j) == NetOf(st, k, b, j) <= 0
            P == {j \in Nat : j <= Len(st) => Ok(j)}
<1>0. Len(st) \in Nat
  OBVIOUS
<1>1. 0 \in P
  BY NetType
<1>2. ASSUME NEW j \in P PROVE j + 1 \in P
  <2>. SUFFICES ASSUME j + 1 <= Len(st) PROVE Ok(j + 1)
    OBVIOUS
  <2>0. j \in Nat /\ Ok(j) /\ j \in 0 .. Len(st) - 1
    BY <1>0
  <2>1. ~ (Watches(st, j + 1, k) /\ st[j + 1].slot = b)
    BY DEF Watches
  <2>2. NetOf(st, k, b, j) \in Int /\ NetOf(st, k, b, j + 1) \in Int
        /\ NetOf(st, k, b, j + 1) = NetOf(st, k, b, j) + 0
              - (IF Watches(st, j + 1, k) /\ b = (IF j = 0 THEN Root ELSE st[j].slot) THEN 1 ELSE 0)
    BY <2>0, <2>1, NetStep
  <2>. QED
    BY <2>0, <2>2
<1>3. P = Nat
  <2>. HIDE DEF P
  <2>1. P \in SUBSET Nat
    BY DEF P
  <2>. QED
    BY ONLY <1>1, <1>2, <2>1, NaturalsAll
<1>. HIDE DEF Ok
<1>4. \A j \in P : j <= Len(st) => Ok(j)
  OBVIOUS
<1>. HIDE DEF P
<1>5. \A j \in 0 .. Len(st) : Ok(j)
  BY <1>0, <1>3, <1>4
<1>. QED
  BY <1>5 DEF Ok

\* Slot 0 gives at most one for an advance.
LEMMA NetRoot ==
  ASSUME NEW st \in Seq(Scope), Nested(st), NEW k \in Counters
  PROVE  \A j \in 0 .. Len(st) : NetOf(st, k, Root, j) >= -1
<1>. DEFINE Ok(j) == NetOf(st, k, Root, j) >= -1 /\ (j = 0 => NetOf(st, k, Root, j) = 0)
            P == {j \in Nat : j <= Len(st) => Ok(j)}
<1>0. Len(st) \in Nat
  OBVIOUS
<1>1. 0 \in P
  BY NetType
<1>2. ASSUME NEW j \in P PROVE j + 1 \in P
  <2>. SUFFICES ASSUME j + 1 <= Len(st) PROVE Ok(j + 1)
    OBVIOUS
  <2>0. j \in Nat /\ Ok(j) /\ j \in 0 .. Len(st) - 1 /\ j + 1 \in 1 .. Len(st) /\ (j # 0 => j \in 1 .. Len(st))
    BY <1>0
  <2>1. st[j + 1].slot # Root /\ (j # 0 => st[j].slot # Root)
    BY <2>0, ScopeBlocks
  <2>2. NetOf(st, k, Root, j) \in Int /\ NetOf(st, k, Root, j + 1) \in Int
        /\ NetOf(st, k, Root, j + 1) = NetOf(st, k, Root, j) + 0
              - (IF Watches(st, j + 1, k) /\ j = 0 THEN 1 ELSE 0)
    BY <2>0, <2>1, NetStep
  <2>. QED
    BY <2>0, <2>2
<1>3. P = Nat
  <2>. HIDE DEF P
  <2>1. P \in SUBSET Nat
    BY DEF P
  <2>. QED
    BY ONLY <1>1, <1>2, <2>1, NaturalsAll
<1>. HIDE DEF Ok
<1>4. \A j \in P : j <= Len(st) => Ok(j)
  OBVIOUS
<1>. HIDE DEF P
<1>5. \A j \in 0 .. Len(st) : Ok(j)
  BY <1>0, <1>3, <1>4
<1>. QED
  BY <1>5 DEF Ok

\* What an advance gives each slot of T, by the first j scopes, and all of
\* them.
Nets(st, k, T, j) == [c \in T |-> NetOf(st, k, c, j)]
AllNet(st, k, T, j) == SumFunctionOnSet(Nets(st, k, T, j), T)

\* Scope j + 1 is on the stack.
InReach(st, k, T, j) ==
  st \in Seq(Scope) /\ Nested(st) /\ k \in Counters /\ T \subseteq Slots /\ j \in 0 .. Len(st) - 1

\* What scope j + 1 adds, over the slots of T.
LEMMA AllNetStep ==
  ASSUME NEW st, NEW k, NEW T, NEW j, InReach(st, k, T, j)
  PROVE  /\ AllNet(st, k, T, j) \in Int /\ AllNet(st, k, T, j + 1) \in Int
         /\ AllNet(st, k, T, j + 1) =
              AllNet(st, k, T, j)
              + (IF Watches(st, j + 1, k) /\ st[j + 1].slot \in T THEN 1 ELSE 0)
              - (IF Watches(st, j + 1, k) /\ (IF j = 0 THEN Root ELSE st[j].slot) \in T THEN 1 ELSE 0)
<1>. DEFINE s == st[j + 1].slot
            p == IF j = 0 THEN Root ELSE st[j].slot
            w == IF Watches(st, j + 1, k) THEN 1 ELSE 0
            before == Nets(st, k, T, j)
            after == Nets(st, k, T, j + 1)
            middle == [c \in T |-> NetOf(st, k, c, j) + IF c = s THEN w ELSE 0]
<1>0. st \in Seq(Scope) /\ Nested(st) /\ k \in Counters /\ T \subseteq Slots /\ j \in 0 .. Len(st) - 1
  BY DEF InReach
<1>1. \A c \in T : /\ NetOf(st, k, c, j) \in Int /\ NetOf(st, k, c, j + 1) \in Int
                   /\ NetOf(st, k, c, j + 1) = NetOf(st, k, c, j) + (IF c = s THEN w ELSE 0) - (IF c = p THEN w ELSE 0)
  <2>. SUFFICES ASSUME NEW c PROVE
           /\ NetOf(st, k, c, j) \in Int /\ NetOf(st, k, c, j + 1) \in Int
           /\ NetOf(st, k, c, j + 1) = NetOf(st, k, c, j) + (IF c = s THEN w ELSE 0) - (IF c = p THEN w ELSE 0)
    OBVIOUS
  <2>1. /\ NetOf(st, k, c, j) \in Int /\ NetOf(st, k, c, j + 1) \in Int
        /\ NetOf(st, k, c, j + 1) =
              NetOf(st, k, c, j)
              + (IF Watches(st, j + 1, k) /\ s = c THEN 1 ELSE 0)
              - (IF Watches(st, j + 1, k) /\ c = p THEN 1 ELSE 0)
    BY <1>0, NetStep
  <2>. HIDE DEF s, p
  <2>. QED
    BY <2>1
<1>. HIDE DEF s, p, w
<1>2. w \in Int
  BY DEF w
<1>3. IsFiniteSet(T)
  BY <1>0, FS_Subset, SlotsFinite
<1>4. ShiftedAt(before, middle, T, s, w)
  BY <1>1, <1>2, <1>3 DEF ShiftedAt, Nets
<1>5. ShiftedAt(middle, after, T, p, 0 - w)
  BY <1>1, <1>2, <1>3 DEF ShiftedAt, Nets
<1>. HIDE DEF before, middle, after
<1>6. /\ SumFunctionOnSet(middle, T) = SumFunctionOnSet(before, T) + IF s \in T THEN w ELSE 0
      /\ SumFunctionOnSet(before, T) \in Int
  BY ONLY <1>4, SumShifts
<1>7. /\ SumFunctionOnSet(after, T) = SumFunctionOnSet(middle, T) + IF p \in T THEN 0 - w ELSE 0
      /\ SumFunctionOnSet(middle, T) \in Int /\ SumFunctionOnSet(after, T) \in Int
  BY ONLY <1>5, SumShifts
<1>8. AllNet(st, k, T, j) = SumFunctionOnSet(before, T) /\ AllNet(st, k, T, j + 1) = SumFunctionOnSet(after, T)
  BY DEF AllNet, before, after
<1>. QED
  BY <1>6, <1>7, <1>8 DEF s, p, w

\* No scope, nothing given.
LEMMA AllNetStart ==
  ASSUME NEW st \in Seq(Scope), NEW k \in Counters, NEW T, T \subseteq Slots
  PROVE  AllNet(st, k, T, 0) = 0
<1>1. IsFiniteSet(T)
  BY FS_Subset, SlotsFinite
<1>2. \A c \in T : NetOf(st, k, c, 0) = 0
  BY NetType
<1>. DEFINE start == Nets(st, k, T, 0)
<1>3. start \in [T -> Int] /\ \A c \in T : start[c] = 0
  BY <1>2 DEF Nets
<1>. HIDE DEF start
<1>4. SumFunctionOnSet(start, T) = 0
  BY ONLY <1>1, <1>3, SumZero
<1>. QED
  BY <1>4 DEF start, AllNet

\* All told nothing: what one slot gets another gives.
LEMMA NetsCancel ==
  ASSUME NEW st \in Seq(Scope), Nested(st), NEW k \in Counters
  PROVE  \A j \in 0 .. Len(st) : AllNet(st, k, Slots, j) = 0
<1>. DEFINE Ok(j) == AllNet(st, k, Slots, j) = 0
            P == {j \in Nat : j <= Len(st) => Ok(j)}
<1>0. Len(st) \in Nat
  OBVIOUS
<1>1. 0 \in P
  BY AllNetStart
<1>2. ASSUME NEW j \in P PROVE j + 1 \in P
  <2>. SUFFICES ASSUME j + 1 <= Len(st) PROVE Ok(j + 1)
    OBVIOUS
  <2>0. j \in Nat /\ Ok(j) /\ j \in 0 .. Len(st) - 1 /\ j + 1 \in 1 .. Len(st) /\ (j # 0 => j \in 1 .. Len(st))
    BY <1>0
  <2>1. st[j + 1].slot \in Slots /\ (IF j = 0 THEN Root ELSE st[j].slot) \in Slots
    BY <2>0, ScopeBlocks, SlotsFinite
  <2>2. AllNet(st, k, Slots, j + 1) = 0
              + (IF Watches(st, j + 1, k) THEN 1 ELSE 0)
              - (IF Watches(st, j + 1, k) THEN 1 ELSE 0)
    <3>1. AllNet(st, k, Slots, j + 1) =
              AllNet(st, k, Slots, j)
              + (IF Watches(st, j + 1, k) /\ st[j + 1].slot \in Slots THEN 1 ELSE 0)
              - (IF Watches(st, j + 1, k) /\ (IF j = 0 THEN Root ELSE st[j].slot) \in Slots THEN 1 ELSE 0)
      <4>1. InReach(st, k, Slots, j)
        BY <2>0 DEF InReach
      <4>. QED
        BY ONLY <4>1, AllNetStep
    <3>. QED
      BY <2>0, <2>1, <3>1
  <2>. QED
    BY <2>2
<1>3. P = Nat
  <2>. HIDE DEF P
  <2>1. P \in SUBSET Nat
    BY DEF P
  <2>. QED
    BY ONLY <1>1, <1>2, <2>1, NaturalsAll
<1>. HIDE DEF Ok
<1>4. \A j \in P : j <= Len(st) => Ok(j)
  OBVIOUS
<1>. HIDE DEF P
<1>5. \A j \in 0 .. Len(st) : Ok(j)
  BY <1>0, <1>3, <1>4
<1>. QED
  BY <1>5 DEF Ok

\* A block gets at most one of an advance, once what those that do not watch
\* the counter have given is taken off, and none if it is not open.
LEMMA NetBound ==
  ASSUME NEW st \in Seq(Scope), Nested(st), NEW k \in Counters, NEW b \in Blocks, k \in Watched[b]
  PROVE  \A j \in 0 .. Len(st) :
            NetOf(st, k, b, j) + AllNet(st, k, Blocks \ Watching(k), j)
              <= IF \E i \in 1 .. j : st[i].slot = b THEN 1 ELSE 0
<1>. DEFINE T == Blocks \ Watching(k)
            V(j) == NetOf(st, k, b, j) + AllNet(st, k, T, j)
            Opened1(j) == \E i \in 1 .. j : st[i].slot = b
            Might(j) == j # 0 /\ (st[j].slot = b \/ (~ Watches(st, j, k) /\ Opened1(j)))
            Ok(j) == V(j) <= IF Might(j) THEN 1 ELSE 0
            P == {j \in Nat : j <= Len(st) => Ok(j)}
<1>0. Len(st) \in Nat /\ T \subseteq Slots
  BY SlotsFinite
<1>1. 0 \in P
  <2>1. NetOf(st, k, b, 0) = 0 /\ AllNet(st, k, T, 0) = 0
    BY <1>0, NetType, AllNetStart
  <2>. QED
    BY <2>1
<1>2. ASSUME NEW j \in P PROVE j + 1 \in P
  <2>. SUFFICES ASSUME j + 1 <= Len(st) PROVE Ok(j + 1)
    OBVIOUS
  <2>0. j \in Nat /\ Ok(j) /\ j \in 0 .. Len(st) - 1 /\ j + 1 \in 1 .. Len(st) /\ (j # 0 => j \in 1 .. Len(st))
    BY <1>0
  <2>. DEFINE p == IF j = 0 THEN Root ELSE st[j].slot
  <2>1. st[j + 1].slot \in Blocks /\ (j # 0 => st[j].slot \in Blocks) /\ Root \notin Blocks /\ b # Root
    BY <2>0, ScopeBlocks, SlotsFinite
  <2>2. /\ NetOf(st, k, b, j) \in Int /\ NetOf(st, k, b, j + 1) \in Int
        /\ NetOf(st, k, b, j + 1) =
              NetOf(st, k, b, j)
              + (IF Watches(st, j + 1, k) /\ st[j + 1].slot = b THEN 1 ELSE 0)
              - (IF Watches(st, j + 1, k) /\ b = p THEN 1 ELSE 0)
    BY <2>0, NetStep
  <2>3. /\ AllNet(st, k, T, j) \in Int /\ AllNet(st, k, T, j + 1) \in Int
        /\ AllNet(st, k, T, j + 1) =
              AllNet(st, k, T, j)
              + (IF Watches(st, j + 1, k) /\ st[j + 1].slot \in T THEN 1 ELSE 0)
              - (IF Watches(st, j + 1, k) /\ p \in T THEN 1 ELSE 0)
    <3>. HIDE DEF T
    <3>1. InReach(st, k, T, j)
      BY <1>0, <2>0 DEF InReach
    <3>. QED
      BY ONLY <3>1, AllNetStep
  <2>4. \A i \in 1 .. Len(st) : st[i].slot \in T <=> ~ Watches(st, i, k)
    BY ScopeBlocks DEF Watches, Watching
  <2>5. (b = p <=> j # 0 /\ st[j].slot = b) /\ (p \in T <=> j # 0 /\ ~ Watches(st, j, k))
    BY <2>0, <2>1, <2>4
  <2>6. st[j + 1].slot \in T => ~ Watches(st, j + 1, k)
    BY <2>0, <2>4
  <2>. HIDE DEF T, p
  <2>7. CASE Watches(st, j + 1, k)
    <3>1. V(j + 1) = V(j) + (IF st[j + 1].slot = b THEN 1 ELSE 0) - (IF j # 0 /\ st[j].slot = b THEN 1 ELSE 0)
                     - (IF j # 0 /\ ~ Watches(st, j, k) THEN 1 ELSE 0)
      BY <2>2, <2>3, <2>5, <2>6, <2>7
    <3>2. V(j) \in Int /\ V(j) <= (IF j # 0 /\ st[j].slot = b THEN 1 ELSE 0) + (IF j # 0 /\ ~ Watches(st, j, k) THEN 1 ELSE 0)
      BY <2>0, <2>2, <2>3, SMTT(30)
    <3>3. V(j + 1) <= (IF st[j + 1].slot = b THEN 1 ELSE 0)
      <4>. HIDE DEF V
      <4>. QED
        BY <3>1, <3>2
    <3>. QED
      BY <2>0, <2>2, <2>3, <3>3, SMTT(30)
  <2>8. CASE ~ Watches(st, j + 1, k)
    <3>1. V(j + 1) = V(j) /\ V(j) \in Int
      BY <2>2, <2>3, <2>8
    <3>2. Might(j) => Opened1(j)
      BY <2>0
    <3>3. Opened1(j) => Opened1(j + 1)
      BY <2>0
    <3>4. Might(j) => Might(j + 1)
      BY <2>0, <2>8, <3>2, <3>3
    <3>. HIDE DEF V, Might
    <3>. QED
      BY <2>0, <3>1, <3>4
  <2>. QED
    BY <2>7, <2>8
<1>3. P = Nat
  <2>. HIDE DEF P
  <2>1. P \in SUBSET Nat
    BY DEF P
  <2>. QED
    BY ONLY <1>1, <1>2, <2>1, NaturalsAll
<1>. HIDE DEF Ok
<1>4. \A j \in P : j <= Len(st) => Ok(j)
  OBVIOUS
<1>. HIDE DEF P
<1>5. ASSUME NEW j \in 0 .. Len(st) PROVE V(j) <= IF Opened1(j) THEN 1 ELSE 0
  <2>1. Ok(j) /\ j \in Nat
    BY <1>0, <1>3, <1>4
  <2>2. Might(j) => Opened1(j)
    BY <2>1
  <2>3. V(j) \in Int
    <3>1. NetOf(st, k, b, j) \in Int
      BY NetType
    <3>2. AllNet(st, k, T, j) \in Int
      <4>1. \A c \in T : NetOf(st, k, c, j) \in Int
        BY NetType
      <4>. DEFINE nets == Nets(st, k, T, j)
      <4>2. nets \in [T -> Int] /\ IsFiniteSet(T) /\ T \in SUBSET T
        BY <1>0, <4>1, SlotsFinite DEF Nets
      <4>. HIDE DEF nets, T
      <4>3. SumFunctionOnSet(nets, T) \in Int
        BY ONLY <4>2, SumAdds
      <4>. QED
        BY <4>3 DEF nets, AllNet
    <3>. HIDE DEF T
    <3>. QED
      BY <3>1, <3>2
  <2>. HIDE DEF V, Might, Opened1
  <2>. QED
    BY <2>1, <2>2, <2>3 DEF Ok
<1>. QED
  BY <1>5

(***************************************************************************)
(* What opening and closing a scope leave of self and total.               *)
(***************************************************************************)

\* The slots, and the scopes of a block on the stack.
SlotType == [inclusive : [Counters -> Int], exclusive : [Counters -> Int], hit_count : Nat]

InStack(st, b) == {i \in 1 .. Len(st) : st[i].slot = b}
FirstOf(st, b) == CHOOSE i \in InStack(st, b) : \A j \in InStack(st, b) : i <= j

\* The abstract self, of slot 0 and of blocks that do not watch k as well, and total.
Selfs(st, cnt, sl) ==
  [k \in Counters |-> [b \in Slots |-> sl[b].exclusive[k] + OwedBy(st, cnt, k, b)]]

\* The abstract total: what the outermost scope of the block will store.
TotalBy(st, cnt, sl, k, b) ==
  IF InStack(st, b) # {} /\ k \in Watched[b]
  THEN st[FirstOf(st, b)].snapshot[k] + Measures(st, cnt, FirstOf(st, b), k)
  ELSE sl[b].inclusive[k]
Totals(st, cnt, sl) == [k \in Counters |-> [b \in Blocks |-> TotalBy(st, cnt, sl, k, b)]]

\* The outermost scope of a block that is open.
LEMMA FirstIs ==
  ASSUME NEW st \in Seq(Scope), NEW b, InStack(st, b) # {}
  PROVE  FirstOf(st, b) \in InStack(st, b) /\ \A j \in InStack(st, b) : FirstOf(st, b) <= j
<1>1. InStack(st, b) \in SUBSET Nat
  BY DEF InStack
<1>2. \E i \in InStack(st, b) : \A j \in InStack(st, b) : i <= j
  BY <1>1, LeastNatural
<1>. QED
  BY <1>2 DEF FirstOf

\* Nothing is before the outermost.
LEMMA FirstStays ==
  ASSUME NEW st \in Seq(Scope), NEW b, NEW i \in InStack(st, b), \A j \in InStack(st, b) : i <= j
  PROVE  FirstOf(st, b) = i
<1>1. FirstOf(st, b) \in InStack(st, b) /\ FirstOf(st, b) <= i
  BY FirstIs
<1>2. i <= FirstOf(st, b) /\ i \in Nat /\ FirstOf(st, b) \in Nat
  BY <1>1 DEF InStack
<1>. QED
  BY <1>1, <1>2

\* What a scope keeps, by type.
LEMMA ScopeTypes ==
  ASSUME NEW st \in Seq(Scope), NEW cnt \in [Counters -> Nat], NEW k \in Counters
  PROVE  /\ Len(st) \in Nat
         /\ \A i \in 1 .. Len(st) : st[i].ref[k] \in Int /\ st[i].snapshot[k] \in Int /\ Measures(st, cnt, i, k) \in Int
<1>1. Len(st) \in Nat /\ \A i \in 1 .. Len(st) : st[i] \in Scope
  OBVIOUS
<1>2. \A s \in Scope : s.ref[k] \in Int /\ s.snapshot[k] \in Int
  BY DEF Scope
<1>. QED
  BY <1>1, <1>2, SignedType

\* The abstract self and total are integers.
LEMMA ReadingsAreIntegers ==
  ASSUME NEW st \in Seq(Scope), NEW cnt \in [Counters -> Nat], NEW sl \in [Slots -> SlotType], NEW k \in Counters
  PROVE  /\ Selfs(st, cnt, sl)[k] \in [Slots -> Int]
         /\ Totals(st, cnt, sl)[k] \in [Blocks -> Int]
<1>1. \A b \in Slots : sl[b].exclusive[k] \in Int /\ sl[b].inclusive[k] \in Int
  <2>1. \A b \in Slots : sl[b] \in SlotType
    OBVIOUS
  <2>2. \A x \in SlotType : x.exclusive[k] \in Int /\ x.inclusive[k] \in Int
    BY DEF SlotType
  <2>. QED
    BY <2>1, <2>2
<1>2. \A b \in Slots : OwedBy(st, cnt, k, b) \in Int
  BY SignedType
<1>3. ASSUME NEW b \in Blocks PROVE TotalBy(st, cnt, sl, k, b) \in Int
  <2>1. CASE InStack(st, b) # {}
    <3>1. FirstOf(st, b) \in 1 .. Len(st)
      BY <2>1, FirstIs DEF InStack
    <3>. QED
      BY <1>1, <3>1, ScopeTypes, SlotsFinite DEF TotalBy
  <2>2. CASE InStack(st, b) = {}
    BY <1>1, <2>2, SlotsFinite DEF TotalBy
  <2>. QED
    BY <2>1, <2>2
<1>4. Selfs(st, cnt, sl)[k] = [b \in Slots |-> sl[b].exclusive[k] + OwedBy(st, cnt, k, b)]
  BY DEF Selfs
<1>5. Totals(st, cnt, sl)[k] = [b \in Blocks |-> TotalBy(st, cnt, sl, k, b)]
  BY DEF Totals
<1>. QED
  BY <1>1, <1>2, <1>3, <1>4, <1>5

\* A scope of b is opened.
OpenedAs(st, st2, cnt, sl, sl2, b) ==
  /\ st \in Seq(Scope) /\ st2 \in Seq(Scope) /\ cnt \in [Counters -> Nat] /\ sl \in [Slots -> SlotType]
  /\ b \in Blocks
  /\ Len(st2) = Len(st) + 1
  /\ \A i \in 1 .. Len(st) : st2[i] = st[i]
  /\ st2[Len(st2)].slot = b /\ st2[Len(st2)].ref = cnt /\ st2[Len(st2)].snapshot = sl[b].inclusive
  /\ \A s \in Slots : sl2[s].exclusive = sl[s].exclusive /\ sl2[s].inclusive = sl[s].inclusive

\* Opening a scope changes no self: it has measured nothing.
LEMMA OpenOwesNothing ==
  ASSUME NEW st, NEW st2, NEW cnt, NEW sl, NEW sl2, NEW b, OpenedAs(st, st2, cnt, sl, sl2, b)
  PROVE  Selfs(st2, cnt, sl2) = Selfs(st, cnt, sl)
<1>. USE DEF OpenedAs
<1>1. ASSUME NEW k \in Counters, NEW s \in Slots PROVE OwedBy(st2, cnt, k, s) = OwedBy(st, cnt, k, s)
  <2>1. OwedBy(st2, cnt, k, s) = OwedBy(st, cnt, k, s) + Signed(st2, cnt, k, s)[Len(st2)]
    <3>1. /\ st \in Seq(Scope) /\ st2 \in Seq(Scope) /\ cnt \in [Counters -> Nat] /\ Len(st2) = Len(st) + 1
          /\ \A i \in 1 .. Len(st) : st2[i] = st[i]
      OBVIOUS
    <3>. QED
      BY ONLY <3>1, k \in Counters, OwedOneMore
  <2>2. Len(st2) \in 1 .. Len(st2) /\ cnt[k] \in Int
    OBVIOUS
  <2>3. Measures(st2, cnt, Len(st2), k) = 0
    BY <2>2 DEF Measures
  <2>4. Signed(st2, cnt, k, s)[Len(st2)] = 0
    BY <2>2, <2>3 DEF Signed
  <2>5. OwedBy(st, cnt, k, s) \in Int
    BY SignedType
  <2>. QED
    BY <2>1, <2>4, <2>5
<1>2. ASSUME NEW k \in Counters, NEW s \in Slots
      PROVE  sl2[s].exclusive[k] + OwedBy(st2, cnt, k, s) = sl[s].exclusive[k] + OwedBy(st, cnt, k, s)
  BY <1>1
<1>. QED
  BY <1>2 DEF Selfs

\* ... and no total: inner scopes do not count, an outer one starts from the
\* slot.
LEMMA OpenKeepsTotals ==
  ASSUME NEW st, NEW st2, NEW cnt, NEW sl, NEW sl2, NEW b, OpenedAs(st, st2, cnt, sl, sl2, b)
  PROVE  Totals(st2, cnt, sl2) = Totals(st, cnt, sl)
<1>. USE DEF OpenedAs
<1>1. ASSUME NEW k \in Counters, NEW s \in Blocks PROVE TotalBy(st2, cnt, sl2, k, s) = TotalBy(st, cnt, sl, k, s)
  <2>0. Len(st) \in Nat /\ Len(st2) \in 1 .. Len(st2) /\ s \in Slots
    BY SlotsFinite
  <2>1. InStack(st2, s) = InStack(st, s) \cup (IF s = b THEN {Len(st2)} ELSE {})
    BY <2>0 DEF InStack
  <2>2. CASE InStack(st, s) # {}
    <3>. DEFINE m == FirstOf(st, s)
    <3>1. m \in InStack(st, s) /\ \A j \in InStack(st, s) : m <= j
      BY <2>2, FirstIs
    <3>2. m \in 1 .. Len(st)
      BY <3>1 DEF InStack
    <3>. HIDE DEF m
    <3>3. m \in InStack(st2, s) /\ \A j \in InStack(st2, s) : m <= j
      BY <2>0, <2>1, <3>1, <3>2
    <3>4. FirstOf(st2, s) = m
      BY <3>3, FirstStays
    <3>5. st2[m] = st[m]
      BY <3>2
    <3>6. Measures(st2, cnt, m, k) = Measures(st, cnt, m, k)
      BY <3>5 DEF Measures, Watches
    <3>7. InStack(st2, s) # {}
      BY <3>3
    <3>8. FirstOf(st, s) = m
      BY DEF m
    <3>. QED
      BY <2>0, <2>2, <3>4, <3>5, <3>6, <3>7, <3>8 DEF TotalBy
  <2>3. CASE InStack(st, s) = {} /\ s # b
    BY <2>0, <2>1, <2>3 DEF TotalBy
  <2>4. CASE InStack(st, s) = {} /\ s = b
    <3>1. InStack(st2, s) = {Len(st2)}
      BY <2>1, <2>4
    <3>2. FirstOf(st2, s) = Len(st2)
      <4>1. Len(st2) \in InStack(st2, s) /\ \A j \in InStack(st2, s) : Len(st2) <= j
        BY <2>0, <3>1
      <4>. QED
        BY <4>1, FirstStays
    <3>3. cnt[k] \in Int
      OBVIOUS
    <3>4. Measures(st2, cnt, Len(st2), k) = 0
      BY <3>3 DEF Measures
    <3>5. sl[s].inclusive[k] \in Int
      <4>1. sl[s] \in SlotType
        BY <2>0
      <4>. QED
        BY <4>1 DEF SlotType
    <3>. QED
      BY <2>0, <2>4, <3>1, <3>2, <3>4, <3>5 DEF TotalBy
  <2>. QED
    BY <2>2, <2>3, <2>4
<1>. QED
  BY <1>1 DEF Totals

\* The innermost scope is closed.
ClosedAs(st, st2, cnt, sl, sl2) ==
  /\ st \in Seq(Scope) /\ st2 \in Seq(Scope) /\ cnt \in [Counters -> Nat] /\ sl \in [Slots -> SlotType]
  /\ sl2 \in [Slots -> SlotType]
  /\ Len(st) = Len(st2) + 1
  /\ \A i \in 1 .. Len(st2) : st[i] = st2[i]
  /\ \A s \in Slots : \A k \in Counters :
       /\ sl2[s].exclusive[k] = sl[s].exclusive[k]
                                + (IF st[Len(st)].slot = s THEN Measures(st, cnt, Len(st), k) ELSE 0)
                                - (IF st[Len(st)].m_parent = s THEN Measures(st, cnt, Len(st), k) ELSE 0)
       /\ sl2[s].inclusive[k] = IF s = st[Len(st)].slot /\ Watches(st, Len(st), k)
                                THEN st[Len(st)].snapshot[k] + Measures(st, cnt, Len(st), k)
                                ELSE sl[s].inclusive[k]

\* Closing the innermost scope books what was owed, and no self changes.
LEMMA CloseBooksDebt ==
  ASSUME NEW st, NEW st2, NEW cnt, NEW sl, NEW sl2, ClosedAs(st, st2, cnt, sl, sl2)
  PROVE  Selfs(st2, cnt, sl2) = Selfs(st, cnt, sl)
<1>. USE DEF ClosedAs
<1>1. ASSUME NEW k \in Counters, NEW s \in Slots
      PROVE  sl2[s].exclusive[k] + OwedBy(st2, cnt, k, s) = sl[s].exclusive[k] + OwedBy(st, cnt, k, s)
  <2>1. OwedBy(st, cnt, k, s) = OwedBy(st2, cnt, k, s) + Signed(st, cnt, k, s)[Len(st)]
    <3>1. /\ st \in Seq(Scope) /\ st2 \in Seq(Scope) /\ cnt \in [Counters -> Nat] /\ Len(st) = Len(st2) + 1
          /\ \A i \in 1 .. Len(st2) : st[i] = st2[i]
      OBVIOUS
    <3>. QED
      BY ONLY <3>1, k \in Counters, OwedOneMore
  <2>2. Len(st) \in 1 .. Len(st)
    OBVIOUS
  <2>3. Signed(st, cnt, k, s)[Len(st)] =
          (IF st[Len(st)].slot = s THEN Measures(st, cnt, Len(st), k) ELSE 0)
        - (IF st[Len(st)].m_parent = s THEN Measures(st, cnt, Len(st), k) ELSE 0)
    BY <2>2 DEF Signed
  <2>4. OwedBy(st2, cnt, k, s) \in Int /\ Measures(st, cnt, Len(st), k) \in Int
    BY <2>2, SignedType
  <2>5. sl[s].exclusive[k] \in Int
    <3>1. sl[s] \in SlotType
      OBVIOUS
    <3>. QED
      BY <3>1 DEF SlotType
  <2>6. sl2[s].exclusive[k] = sl[s].exclusive[k]
                                + (IF st[Len(st)].slot = s THEN Measures(st, cnt, Len(st), k) ELSE 0)
                                - (IF st[Len(st)].m_parent = s THEN Measures(st, cnt, Len(st), k) ELSE 0)
    OBVIOUS
  <2>. QED
    BY ONLY <2>1, <2>3, <2>4, <2>5, <2>6
<1>. QED
  BY <1>1 DEF Selfs

\* ... and no total: the outermost scope stores what the total already was.
LEMMA CloseKeepsTotals ==
  ASSUME NEW st, NEW st2, NEW cnt, NEW sl, NEW sl2, ClosedAs(st, st2, cnt, sl, sl2)
  PROVE  Totals(st2, cnt, sl2) = Totals(st, cnt, sl)
<1>. USE DEF ClosedAs
<1>1. ASSUME NEW k \in Counters, NEW s \in Blocks PROVE TotalBy(st2, cnt, sl2, k, s) = TotalBy(st, cnt, sl, k, s)
  <2>. DEFINE n == Len(st)
              b == st[n].slot
  <2>0. Len(st2) \in Nat /\ n \in 1 .. n /\ s \in Slots /\ Len(st2) = n - 1 /\ n \in Nat
    BY SlotsFinite
  <2>1. InStack(st, s) = InStack(st2, s) \cup (IF s = b THEN {n} ELSE {})
    BY <2>0 DEF InStack
  <2>2. CASE InStack(st2, s) # {}
    <3>. DEFINE m == FirstOf(st2, s)
    <3>1. m \in InStack(st2, s) /\ \A j \in InStack(st2, s) : m <= j
      BY <2>2, FirstIs
    <3>2. m \in 1 .. Len(st2)
      BY <3>1 DEF InStack
    <3>. HIDE DEF m
    <3>3. m \in InStack(st, s) /\ \A j \in InStack(st, s) : m <= j
      BY <2>0, <2>1, <3>1, <3>2
    <3>4. FirstOf(st, s) = m
      BY <3>3, FirstStays
    <3>5. st2[m] = st[m]
      BY <3>2
    <3>6. Measures(st2, cnt, m, k) = Measures(st, cnt, m, k)
      BY <3>5 DEF Measures, Watches
    <3>7. InStack(st, s) # {}
      BY <3>3
    <3>8. FirstOf(st2, s) = m
      BY DEF m
    <3>9. k \notin Watched[s] => sl2[s].inclusive[k] = sl[s].inclusive[k]
      BY <2>0 DEF Watches
    <3>. QED
      BY <2>0, <2>2, <3>4, <3>5, <3>6, <3>7, <3>8, <3>9 DEF TotalBy
  <2>3. CASE InStack(st2, s) = {} /\ s # b
    BY <2>0, <2>1, <2>3 DEF TotalBy
  <2>4. CASE InStack(st2, s) = {} /\ s = b
    <3>1. InStack(st, s) = {n}
      BY <2>1, <2>4
    <3>2. FirstOf(st, s) = n
      <4>1. n \in InStack(st, s) /\ \A j \in InStack(st, s) : n <= j
        BY <2>0, <3>1
      <4>. HIDE DEF n
      <4>. QED
        BY <4>1, FirstStays
    <3>3. sl2[s].inclusive[k] = IF k \in Watched[s] THEN st[n].snapshot[k] + Measures(st, cnt, n, k) ELSE sl[s].inclusive[k]
      BY <2>0, <2>4 DEF Watches
    <3>. QED
      BY <2>0, <2>4, <3>1, <3>2, <3>3 DEF TotalBy
  <2>. QED
    BY <2>2, <2>3, <2>4
<1>. QED
  BY <1>1 DEF Totals

(***************************************************************************)
(* What an advance of a counter does to them.                              *)
(***************************************************************************)

\* The counter c advances.
TickedAs(st, cnt, new, sl, c) ==
  /\ st \in Seq(Scope) /\ Nested(st) /\ sl \in [Slots -> SlotType] /\ Ticked(cnt, new, c)

\* An advance adds to each self what NetOf says.
LEMMA TickSelfs ==
  ASSUME NEW st, NEW cnt, NEW new, NEW sl, NEW c,
         TickedAs(st, cnt, new, sl, c), NEW k \in Counters, NEW b \in Slots
  PROVE  Selfs(st, new, sl)[k][b] = Selfs(st, cnt, sl)[k][b] + IF k = c THEN NetOf(st, c, b, Len(st)) ELSE 0
<1>0. st \in Seq(Scope) /\ Nested(st) /\ sl \in [Slots -> SlotType] /\ Ticked(cnt, new, c)
  BY DEF TickedAs
<1>. USE <1>0
<1>1. OwedBy(st, new, k, b) = OwedBy(st, cnt, k, b) + IF k = c THEN NetOf(st, k, b, Len(st)) ELSE 0
  BY ONLY <1>0, k \in Counters, OwedTicks
<1>2. OwedBy(st, cnt, k, b) \in Int
  BY SignedType DEF Ticked
<1>3. NetOf(st, k, b, Len(st)) \in Int
  <2>1. Len(st) \in 0 .. Len(st)
    OBVIOUS
  <2>. QED
    BY <2>1, NetType
<1>4. sl[b].exclusive[k] \in Int
  <2>1. sl[b] \in SlotType
    OBVIOUS
  <2>. QED
    BY <2>1 DEF SlotType
<1>5. /\ Selfs(st, cnt, sl)[k][b] = sl[b].exclusive[k] + OwedBy(st, cnt, k, b)
      /\ Selfs(st, new, sl)[k][b] = sl[b].exclusive[k] + OwedBy(st, new, k, b)
  BY DEF Selfs
<1>. QED
  BY <1>1, <1>2, <1>3, <1>4, <1>5

\* ... and one to the total of each open block that watches the counter.
LEMMA TickTotals ==
  ASSUME NEW st, NEW cnt, NEW new, NEW sl, NEW c,
         TickedAs(st, cnt, new, sl, c), NEW k \in Counters, NEW b \in Blocks
  PROVE  Totals(st, new, sl)[k][b] =
           Totals(st, cnt, sl)[k][b] + IF k = c /\ InStack(st, b) # {} /\ c \in Watched[b] THEN 1 ELSE 0
<1>. USE DEF TickedAs, Ticked
<1>1. new \in [Counters -> Nat] /\ new[k] = cnt[k] + (IF k = c THEN 1 ELSE 0) /\ cnt[k] \in Int
  OBVIOUS
<1>2. /\ Totals(st, cnt, sl)[k][b] = TotalBy(st, cnt, sl, k, b)
      /\ Totals(st, new, sl)[k][b] = TotalBy(st, new, sl, k, b)
  BY DEF Totals
<1>3. CASE InStack(st, b) # {} /\ k \in Watched[b]
  <2>. DEFINE m == FirstOf(st, b)
  <2>1. m \in 1 .. Len(st) /\ st[m].slot = b
    BY <1>3, FirstIs DEF InStack
  <2>. HIDE DEF m
  <2>2. st[m].ref[k] \in Int /\ st[m].snapshot[k] \in Int
    BY <2>1, ScopeTypes
  <2>3. Measures(st, new, m, k) = new[k] - st[m].ref[k] /\ Measures(st, cnt, m, k) = cnt[k] - st[m].ref[k]
    BY <1>3, <2>1 DEF Measures, Watches
  <2>4. /\ TotalBy(st, cnt, sl, k, b) = st[m].snapshot[k] + Measures(st, cnt, m, k)
        /\ TotalBy(st, new, sl, k, b) = st[m].snapshot[k] + Measures(st, new, m, k)
    BY <1>3 DEF m, TotalBy
  <2>5. (k = c /\ InStack(st, b) # {} /\ c \in Watched[b]) <=> k = c
    BY <1>3
  <2>6. TotalBy(st, new, sl, k, b) = TotalBy(st, cnt, sl, k, b) + (IF k = c THEN 1 ELSE 0)
    <3>1. new[k] = cnt[k] + (IF k = c THEN 1 ELSE 0) /\ cnt[k] \in Int
      BY <1>1
    <3>. QED
      BY ONLY <2>2, <2>3, <2>4, <3>1
  <2>. QED
    BY <1>2, <2>5, <2>6
<1>4. CASE ~ (InStack(st, b) # {} /\ k \in Watched[b])
  <2>1. TotalBy(st, cnt, sl, k, b) = sl[b].inclusive[k] /\ TotalBy(st, new, sl, k, b) = sl[b].inclusive[k]
    BY <1>4 DEF TotalBy
  <2>2. sl[b].inclusive[k] \in Int
    <3>1. sl[b] \in SlotType
      BY SlotsFinite
    <3>. QED
      BY <3>1 DEF SlotType
  <2>. QED
    BY <1>2, <1>4, <2>1, <2>2
<1>. QED
  BY <1>3, <1>4

\* What the blocks that do not watch k have given away.
Outside(k) == Blocks \ Watching(k)
Given(self, k) == SumFunctionOnSet([b \in Outside(k) |-> self[b]], Outside(k))

\* The shares of the counter k, which has reached n, are in order.
Fair(self, total, n, k) ==
  /\ \A b \in Watching(k) : /\ 0 <= self[b] /\ self[b] + Given(self, k) <= total[b]
                            /\ 0 <= total[b] /\ (total[b] = 0 => self[b] = 0)
  /\ \A b \in Outside(k) : self[b] <= 0 /\ total[b] = 0
  /\ 0 - self[Root] <= n
  /\ SumFunctionOnSet(self, Slots) = 0

\* What was given is an integer.
LEMMA GivenType ==
  ASSUME NEW k, NEW self \in [Slots -> Int]
  PROVE  /\ Given(self, k) \in Int /\ IsFiniteSet(Outside(k)) /\ Outside(k) \subseteq Slots /\ Watching(k) \subseteq Slots
         /\ Watching(k) \subseteq Blocks /\ IsFiniteSet(Watching(k))
<1>1. IsFiniteSet(Outside(k)) /\ Outside(k) \subseteq Slots /\ Watching(k) \subseteq Slots /\ Watching(k) \subseteq Blocks
  BY SlotsFinite, FS_Subset DEF Outside, Watching
<1>. DEFINE f == [b \in Outside(k) |-> self[b]]
<1>2. f \in [Outside(k) -> Int] /\ Outside(k) \in SUBSET Outside(k)
  BY <1>1
<1>. HIDE DEF f
<1>3. SumFunctionOnSet(f, Outside(k)) \in Int
  BY ONLY <1>1, <1>2, SumAdds
<1>4. IsFiniteSet(Watching(k))
  BY <1>1, SlotsFinite, FS_Subset
<1>. QED
  BY <1>1, <1>3, <1>4 DEF f, Given

\* The arithmetic of a step: what a share and what is hidden in it gain is
\* bounded by the gain of the total.
LEMMA ShareGrows ==
  ASSUME NEW s \in Int, NEW t \in Int, NEW w \in Int, NEW a \in Int, NEW c \in Nat, NEW d \in {0, 1},
         0 <= s, s + w <= t, 0 <= t, t = 0 => s = 0, c + a <= d, d = 0 => c = 0
  PROVE  0 <= s + c /\ (s + c) + (w + a) <= t + d /\ 0 <= t + d /\ (t + d = 0 => s + c = 0)
<1>1. CASE d = 0
  BY <1>1
<1>2. CASE d = 1
  BY <1>2
<1>. QED
  BY <1>1, <1>2

\* An advance keeps the shares in order.
LEMMA FairTick ==
  ASSUME NEW st \in Seq(Scope), Nested(st), NEW k \in Counters,
         NEW self \in [Slots -> Int], NEW total \in [Blocks -> Int], NEW n \in Nat, Fair(self, total, n, k),
         NEW self2 \in [Slots -> Int], NEW total2 \in [Blocks -> Int],
         \A b \in Slots : self2[b] = self[b] + NetOf(st, k, b, Len(st)),
         \A b \in Blocks : total2[b] = total[b] + IF InStack(st, b) # {} /\ k \in Watched[b] THEN 1 ELSE 0
  PROVE  Fair(self2, total2, n + 1, k)
<1>. DEFINE L == Len(st)
<1>0. L \in Nat /\ L \in 0 .. L /\ \A b \in Slots : NetOf(st, k, b, L) \in Int
  <2>1. Len(st) \in Nat /\ Len(st) \in 0 .. Len(st)
    OBVIOUS
  <2>. QED
    BY <2>1, NetType
<1>1. Given(self2, k) = Given(self, k) + AllNet(st, k, Outside(k), L)
  <2>. DEFINE f == [b \in Outside(k) |-> self[b]]
              h == [b \in Outside(k) |-> self2[b]]
              g == Nets(st, k, Outside(k), L)
  <2>1. AddUp(f, g, h, Outside(k))
    BY <1>0, GivenType DEF AddUp, Nets
  <2>. HIDE DEF f, g, h
  <2>2. SumFunctionOnSet(h, Outside(k)) = SumFunctionOnSet(f, Outside(k)) + SumFunctionOnSet(g, Outside(k))
    BY ONLY <2>1, SumAddsUp
  <2>. QED
    BY <2>2 DEF f, g, h, AllNet, Given
<1>2. SumFunctionOnSet(self2, Slots) = SumFunctionOnSet(self, Slots) + AllNet(st, k, Slots, L)
  <2>. DEFINE g == Nets(st, k, Slots, L)
  <2>1. AddUp(self, g, self2, Slots)
    BY <1>0, SlotsFinite DEF AddUp, Nets
  <2>. HIDE DEF g
  <2>2. SumFunctionOnSet(self2, Slots) = SumFunctionOnSet(self, Slots) + SumFunctionOnSet(g, Slots)
    BY ONLY <2>1, SumAddsUp
  <2>. QED
    BY <2>2 DEF g, AllNet
<1>3. SumFunctionOnSet(self2, Slots) = 0
  <2>1. AllNet(st, k, Slots, L) = 0
    BY <1>0, NetsCancel
  <2>2. SumFunctionOnSet(self, Slots) = 0
    BY DEF Fair
  <2>. QED
    BY <1>2, <2>1, <2>2
<1>4. 0 - self2[Root] <= n + 1
  <2>1. NetOf(st, k, Root, L) >= -1 /\ NetOf(st, k, Root, L) \in Int /\ Root \in Slots
    BY <1>0, NetRoot, SlotsFinite
  <2>2. 0 - self[Root] <= n /\ self[Root] \in Int /\ self2[Root] = self[Root] + NetOf(st, k, Root, L)
    BY <2>1 DEF Fair
  <2>. QED
    BY <2>1, <2>2
<1>5. ASSUME NEW b \in Outside(k) PROVE self2[b] <= 0 /\ total2[b] = 0
  <2>1. b \in Blocks /\ b \in Slots /\ k \notin Watched[b]
    BY SlotsFinite DEF Outside, Watching
  <2>2. NetOf(st, k, b, L) <= 0 /\ NetOf(st, k, b, L) \in Int
    BY <1>0, <2>1, NetHidden
  <2>3. self[b] <= 0 /\ total[b] = 0 /\ self[b] \in Int /\ self2[b] = self[b] + NetOf(st, k, b, L)
        /\ total2[b] = total[b] + 0
    BY <2>1 DEF Fair
  <2>. QED
    BY <2>2, <2>3
<1>6. ASSUME NEW b \in Watching(k)
      PROVE  /\ 0 <= self2[b] /\ self2[b] + Given(self2, k) <= total2[b]
             /\ 0 <= total2[b] /\ (total2[b] = 0 => self2[b] = 0)
  <2>1. b \in Blocks /\ b \in Slots /\ k \in Watched[b]
    BY SlotsFinite DEF Watching
  <2>. DEFINE open == InStack(st, b) # {}
              c == NetOf(st, k, b, L)
              a == AllNet(st, k, Outside(k), L)
              was == Given(self, k)
  <2>2. c = Cardinality(Innermost(st, k, b, L)) /\ c \in Nat /\ (~ open => c = 0)
    <3>1. IsFiniteSet(1 .. L) /\ Innermost(st, k, b, L) \subseteq 1 .. L
      <4>. HIDE DEF L
      <4>. QED
        BY <1>0, FS_Interval DEF Innermost
    <3>2. c = Cardinality(Innermost(st, k, b, L))
      BY <1>0, <2>1, NetCounts
    <3>3. ~ open => Innermost(st, k, b, L) = {}
      BY DEF InStack, Innermost
    <3>. HIDE DEF c, L, open
    <3>. QED
      BY <3>1, <3>2, <3>3, FS_Subset, FS_CardinalityType, FS_EmptySet
  <2>3. c + a <= IF open THEN 1 ELSE 0
    <3>1. open <=> \E i \in 1 .. L : st[i].slot = b
      BY DEF InStack
    <3>2. c + a <= IF \E i \in 1 .. L : st[i].slot = b THEN 1 ELSE 0
      BY <1>0, <2>1, NetBound DEF Outside
    <3>. HIDE DEF c, a, L, open
    <3>. QED
      BY <3>1, <3>2
  <2>4. a \in Int /\ was \in Int
    <3>1. was \in Int /\ Given(self2, k) \in Int
      BY GivenType
    <3>2. \A x \in Outside(k) : NetOf(st, k, x, L) \in Int
      BY <1>0, GivenType
    <3>. DEFINE nets == Nets(st, k, Outside(k), L)
    <3>3. nets \in [Outside(k) -> Int] /\ IsFiniteSet(Outside(k)) /\ Outside(k) \in SUBSET Outside(k)
      BY <3>2, GivenType DEF Nets
    <3>. HIDE DEF nets
    <3>4. SumFunctionOnSet(nets, Outside(k)) \in Int
      BY ONLY <3>3, SumAdds
    <3>. QED
      BY <3>1, <3>4 DEF nets, AllNet
  <2>5. /\ 0 <= self[b] /\ self[b] + was <= total[b] /\ 0 <= total[b] /\ (total[b] = 0 => self[b] = 0)
        /\ self[b] \in Int /\ total[b] \in Int
    BY <2>1 DEF Fair
  <2>6. /\ self2[b] = self[b] + c /\ total2[b] = total[b] + (IF open THEN 1 ELSE 0)
        /\ Given(self2, k) = was + a
    BY <1>1, <2>1
  <2>. HIDE DEF open, c, a, was
  <2>7. PICK d \in {0, 1} : d = IF open THEN 1 ELSE 0
    OBVIOUS
  <2>8. c + a <= d /\ (d = 0 => c = 0) /\ total2[b] = total[b] + d
    BY <2>2, <2>3, <2>6, <2>7
  <2>9. PICK s \in Int, t \in Int : s = self[b] /\ t = total[b]
    BY <2>5
  <2>10. 0 <= s /\ s + was <= t /\ 0 <= t /\ (t = 0 => s = 0)
    BY <2>5, <2>9
  <2>11. 0 <= s + c /\ (s + c) + (was + a) <= t + d /\ 0 <= t + d /\ (t + d = 0 => s + c = 0)
    BY <2>2, <2>4, <2>8, <2>10, ShareGrows
  <2>. QED
    BY <2>6, <2>8, <2>9, <2>11
<1>. QED
  BY <1>3, <1>4, <1>5, <1>6 DEF Fair

(***************************************************************************)
(* The inductive invariant, action by action.                              *)
(***************************************************************************)

\* The type invariant, that of the stack, and that of the shares: together
\* inductive.
TypeOK ==
  /\ slots \in [Slots -> SlotType]
  /\ current_slot \in Slots
  /\ scopes \in Seq(Scope)
  /\ counter \in [Counters -> Nat]
  /\ dump \in Seq(Lines)

StackInv ==
  /\ current_slot = IF scopes = <<>> THEN Root ELSE scopes[Len(scopes)].slot
  /\ Nested(scopes)
  /\ dump # <<>> => scopes = <<>>

SharesInv ==
  \A k \in Counters :
    Fair(Selfs(scopes, counter, slots)[k], Totals(scopes, counter, slots)[k], counter[k], k)

Inv == TypeOK /\ StackInv /\ SharesInv

\* What the constructor pushes.
NewScope(b) == [slot |-> b, m_parent |-> current_slot, ref |-> counter, snapshot |-> slots[b].inclusive]

\* Opening a scope, as OpenedAs has it, keeps types and stack.
LEMMA OpenScopeSteps ==
  ASSUME TypeOK, StackInv, NEW b \in Blocks, OpenScope(b)
  PROVE  TypeOK' /\ StackInv' /\ OpenedAs(scopes, scopes', counter, slots, slots', b)
<1>. DEFINE n == Len(scopes)
            new == NewScope(b)
<1>1. scopes \in Seq(Scope) /\ n \in Nat /\ b \in Slots /\ slots[b] \in SlotType
  BY SlotsFinite DEF TypeOK
<1>2. new \in Scope
  BY <1>1 DEF NewScope, Scope, TypeOK, SlotType
<1>3. scopes' = Append(scopes, new)
  BY DEF OpenScope, NewScope
<1>. HIDE DEF new
<1>4. /\ scopes' \in Seq(Scope) /\ scopes' # <<>> /\ Len(scopes') = n + 1
      /\ \A i \in 1 .. n : scopes'[i] = scopes[i]
      /\ scopes'[n + 1] = new
  <2>1. /\ Append(scopes, new) \in Seq(Scope) /\ Append(scopes, new) # <<>> /\ Len(Append(scopes, new)) = Len(scopes) + 1
        /\ \A i \in 1 .. Len(scopes) : Append(scopes, new)[i] = scopes[i]
        /\ Append(scopes, new)[Len(scopes) + 1] = new
    BY ONLY <1>1, <1>2, AppendProperties
  <2>. QED
    BY <1>3, <2>1
<1>5. new.slot = b /\ new.m_parent = current_slot /\ new.ref = counter /\ new.snapshot = slots[b].inclusive
  BY DEF new, NewScope
<1>6. slots' = [slots EXCEPT ![b].hit_count = @ + 1] /\ current_slot' = b /\ counter' = counter /\ dump' = dump /\ dump = <<>>
  BY DEF OpenScope
<1>7. slots' \in [Slots -> SlotType]
      /\ \A s \in Slots : slots'[s].exclusive = slots[s].exclusive /\ slots'[s].inclusive = slots[s].inclusive
  <2>1. [slots[b] EXCEPT !.hit_count = @ + 1] \in SlotType
    <3>1. PICK r \in SlotType : r = slots[b]
      BY <1>1
    <3>2. [r EXCEPT !.hit_count = @ + 1] \in SlotType
      BY DEF SlotType
    <3>. QED
      BY <3>1, <3>2
  <2>2. slots' \in [Slots -> SlotType]
    BY <1>6, <2>1 DEF TypeOK
  <2>3. \A s \in Slots : slots'[s] = IF s = b THEN [slots[s] EXCEPT !.hit_count = @ + 1] ELSE slots[s]
    BY <1>6 DEF TypeOK
  <2>4. ASSUME NEW s \in Slots
        PROVE  slots'[s].exclusive = slots[s].exclusive /\ slots'[s].inclusive = slots[s].inclusive
    <3>1. slots[s] \in SlotType
      BY DEF TypeOK
    <3>. QED
      BY <2>3, <3>1 DEF SlotType
  <2>. QED
    BY <2>2, <2>4
<1>8. TypeOK'
  BY <1>1, <1>4, <1>6, <1>7 DEF TypeOK
<1>9. Nested(scopes')
  <2>1. \A i \in 1 .. n : scopes[i].m_parent = IF i = 1 THEN Root ELSE scopes[i - 1].slot
    BY DEF StackInv, Nested
  <2>2. current_slot = IF n = 0 THEN Root ELSE scopes[n].slot
    BY <1>1 DEF StackInv
  <2>3. ASSUME NEW i \in 1 .. n + 1 PROVE scopes'[i].m_parent = IF i = 1 THEN Root ELSE scopes'[i - 1].slot
    <3>1. CASE i = n + 1
      BY <1>1, <1>4, <1>5, <2>2, <3>1
    <3>2. CASE i # n + 1
      <4>1. i \in 1 .. n /\ (i # 1 => i - 1 \in 1 .. n)
        BY <1>1, <3>2
      <4>. QED
        BY <1>4, <2>1, <4>1
    <3>. QED
      BY <3>1, <3>2
  <2>. QED
    BY <1>4, <2>3 DEF Nested
<1>10. StackInv'
  BY <1>1, <1>4, <1>5, <1>6, <1>9 DEF StackInv
<1>11. OpenedAs(scopes, scopes', counter, slots, slots', b)
  BY <1>1, <1>4, <1>5, <1>7 DEF OpenedAs, TypeOK
<1>. QED
  BY <1>8, <1>10, <1>11

\* What the destructor makes of the slots.
Booked(sl, scope, d, new) ==
  [[[sl EXCEPT ![scope.slot].exclusive = Plus(@, d)] EXCEPT ![scope.m_parent].exclusive = Minus(@, d)]
     EXCEPT ![scope.slot].inclusive =
        [k \in Counters |-> IF k \in Measured(scope) THEN new[k] ELSE @[k]]]

\* The same, slot by slot: slot and parent may be one.
SlotsBooked(sl, sl2, scope, d, new) ==
  /\ sl2 \in [Slots -> SlotType]
  /\ \A s \in Slots :
       /\ sl2[s].hit_count = sl[s].hit_count
       /\ \A k \in Counters :
            /\ sl2[s].exclusive[k] = sl[s].exclusive[k] + (IF scope.slot = s THEN d[k] ELSE 0)
                                                        - (IF scope.m_parent = s THEN d[k] ELSE 0)
            /\ sl2[s].inclusive[k] = IF s = scope.slot /\ k \in Measured(scope) THEN new[k] ELSE sl[s].inclusive[k]

\* The three assignments of the destructor do that, in whatever slots.
LEMMA BookedIs ==
  ASSUME NEW sl \in [Slots -> SlotType], NEW scope \in Scope, NEW d \in [Counters -> Int], NEW new \in [Counters -> Int],
         NEW sl2, sl2 = Booked(sl, scope, d, new)
  PROVE  SlotsBooked(sl, sl2, scope, d, new)
<1>. DEFINE a == scope.slot
            p == scope.m_parent
            sl0 == [sl EXCEPT ![a].exclusive = Plus(@, d)]
            sl1 == [sl0 EXCEPT ![p].exclusive = Minus(@, d)]
            SetEx(r, x) == [r EXCEPT !.exclusive = x]
            SetIn(r, x) == [r EXCEPT !.inclusive = x]
            inc(x) == [k \in Counters |-> IF k \in Measured(scope) THEN new[k] ELSE x[k]]
<1>1. a \in Slots /\ p \in Slots
  BY SlotsFinite DEF Scope
<1>. HIDE DEF a, p
<1>2. \A x, y \in [Counters -> Int] : Plus(x, y) \in [Counters -> Int] /\ Minus(x, y) \in [Counters -> Int]
  BY DEF Plus, Minus
<1>3. \A x \in [Counters -> Int] : inc(x) \in [Counters -> Int]
  OBVIOUS
<1>4. \A r \in SlotType : r.exclusive \in [Counters -> Int] /\ r.inclusive \in [Counters -> Int] /\ r.hit_count \in Nat
  BY DEF SlotType
<1>5. \A r \in SlotType : \A x \in [Counters -> Int] :
        /\ SetEx(r, x) \in SlotType
        /\ SetEx(r, x).exclusive = x /\ SetEx(r, x).inclusive = r.inclusive
        /\ SetEx(r, x).hit_count = r.hit_count
  BY DEF SlotType
<1>6. \A r \in SlotType : \A x \in [Counters -> Int] :
        /\ SetIn(r, x) \in SlotType
        /\ SetIn(r, x).inclusive = x /\ SetIn(r, x).exclusive = r.exclusive
        /\ SetIn(r, x).hit_count = r.hit_count
  BY DEF SlotType
<1>7. /\ sl0 \in [Slots -> SlotType]
      /\ \A s \in Slots : sl0[s] = IF s = a THEN SetEx(sl[s], Plus(sl[s].exclusive, d)) ELSE sl[s]
  <2>. HIDE DEF SetEx
  <2>1. SetEx(sl[a], Plus(sl[a].exclusive, d)) \in SlotType
    BY <1>1, <1>2, <1>4, <1>5
  <2>. QED
    BY <1>1, <2>1 DEF SetEx
<1>. HIDE DEF sl0
<1>8. /\ sl1 \in [Slots -> SlotType]
      /\ \A s \in Slots : sl1[s] = IF s = p THEN SetEx(sl0[s], Minus(sl0[s].exclusive, d)) ELSE sl0[s]
  <2>. HIDE DEF SetEx
  <2>1. SetEx(sl0[p], Minus(sl0[p].exclusive, d)) \in SlotType
    BY <1>1, <1>2, <1>4, <1>5, <1>7
  <2>. QED
    BY <1>1, <1>7, <2>1 DEF SetEx
<1>. HIDE DEF sl1
<1>9. sl2 = [sl1 EXCEPT ![a].inclusive = inc(@)]
  BY DEF Booked, sl1, sl0, a, p
<1>10. /\ sl2 \in [Slots -> SlotType]
       /\ \A s \in Slots : sl2[s] = IF s = a THEN SetIn(sl1[s], inc(sl1[s].inclusive)) ELSE sl1[s]
  <2>. HIDE DEF SetIn
  <2>1. SetIn(sl1[a], inc(sl1[a].inclusive)) \in SlotType
    BY <1>1, <1>3, <1>4, <1>6, <1>8
  <2>. HIDE DEF inc
  <2>. QED
    BY <1>1, <1>8, <1>9, <2>1 DEF SetIn
<1>. HIDE DEF SetEx, SetIn
<1>11. ASSUME NEW s \in Slots
       PROVE  /\ sl2[s].hit_count = sl[s].hit_count
              /\ \A k \in Counters :
                 /\ sl2[s].exclusive[k] = sl[s].exclusive[k] + (IF a = s THEN d[k] ELSE 0)
                                                             - (IF p = s THEN d[k] ELSE 0)
                 /\ sl2[s].inclusive[k] = IF s = a /\ k \in Measured(scope) THEN new[k] ELSE sl[s].inclusive[k]
  <2>1. sl[s] \in SlotType /\ sl0[s] \in SlotType /\ sl1[s] \in SlotType
    BY <1>7, <1>8
  <2>2. /\ sl0[s].hit_count = sl[s].hit_count /\ sl0[s].inclusive = sl[s].inclusive
        /\ sl0[s].exclusive = IF s = a THEN Plus(sl[s].exclusive, d) ELSE sl[s].exclusive
    <3>1. CASE s = a
      <4>1. PICK x \in [Counters -> Int] : x = Plus(sl[s].exclusive, d)
        BY <2>1, <1>2, <1>3, <1>4
      <4>. QED
        BY ONLY <4>1, <3>1, <2>1, <1>5, <1>7, s \in Slots
    <3>2. CASE ~ (s = a)
      BY <3>2, <1>7
    <3>. QED
      BY <3>1, <3>2
  <2>3. /\ sl1[s].hit_count = sl0[s].hit_count /\ sl1[s].inclusive = sl0[s].inclusive
        /\ sl1[s].exclusive = IF s = p THEN Minus(sl0[s].exclusive, d) ELSE sl0[s].exclusive
    <3>1. CASE s = p
      <4>1. PICK x \in [Counters -> Int] : x = Minus(sl0[s].exclusive, d)
        BY <2>1, <1>2, <1>3, <1>4
      <4>. QED
        BY ONLY <4>1, <3>1, <2>1, <1>5, <1>8, s \in Slots
    <3>2. CASE ~ (s = p)
      BY <3>2, <1>8
    <3>. QED
      BY <3>1, <3>2
  <2>4. /\ sl2[s].hit_count = sl1[s].hit_count /\ sl2[s].exclusive = sl1[s].exclusive
        /\ sl2[s].inclusive = IF s = a THEN inc(sl1[s].inclusive) ELSE sl1[s].inclusive
    <3>1. CASE s = a
      <4>1. PICK x \in [Counters -> Int] : x = inc(sl1[s].inclusive)
        BY <2>1, <1>2, <1>3, <1>4
      <4>. HIDE DEF inc
      <4>. QED
        BY ONLY <4>1, <3>1, <2>1, <1>6, <1>10, s \in Slots
    <3>2. CASE ~ (s = a)
      BY <3>2, <1>10
    <3>. QED
      BY <3>1, <3>2
  <2>5. ASSUME NEW k \in Counters
        PROVE  /\ sl2[s].exclusive[k] = sl[s].exclusive[k] + (IF a = s THEN d[k] ELSE 0) - (IF p = s THEN d[k] ELSE 0)
               /\ sl2[s].inclusive[k] = IF s = a /\ k \in Measured(scope) THEN new[k] ELSE sl[s].inclusive[k]
    <3>1. sl[s].exclusive[k] \in Int /\ d[k] \in Int
      BY <1>4, <2>1
    <3>2. sl0[s].exclusive[k] = sl[s].exclusive[k] + (IF a = s THEN d[k] ELSE 0)
      BY <2>2, <3>1 DEF Plus
    <3>3. sl1[s].exclusive[k] = sl0[s].exclusive[k] - (IF p = s THEN d[k] ELSE 0)
      BY <2>3, <3>1, <3>2 DEF Minus
    <3>. QED
      BY <2>2, <2>3, <2>4, <3>1, <3>2, <3>3
  <2>. QED
    BY <2>2, <2>3, <2>4, <2>5
<1>. QED
  BY <1>10, <1>11 DEF a, p, SlotsBooked

\* Closing a scope, as ClosedAs has it, keeps types and stack.
LEMMA CloseScopeSteps ==
  ASSUME TypeOK, StackInv, CloseScope
  PROVE  /\ TypeOK' /\ StackInv' /\ ClosedAs(scopes, scopes', counter, slots, slots')
         /\ scopes' = SubSeq(scopes, 1, Len(scopes) - 1)
         /\ \A s \in Slots : slots'[s].hit_count = slots[s].hit_count
<1>. DEFINE n == Len(scopes)
            scope == scopes[n]
            d == Delta(scope)
            new == NewInclusive(scope)
<1>1. /\ scopes \in Seq(Scope) /\ n \in Nat /\ scopes # <<>> /\ n >= 1 /\ n \in 1 .. n /\ scope \in Scope
      /\ counter' = counter /\ dump' = dump /\ dump = <<>>
  <2>1. scopes \in Seq(Scope) /\ scopes # <<>>
    BY DEF CloseScope, TypeOK
  <2>2. counter' = counter /\ dump' = dump /\ dump = <<>>
    BY DEF CloseScope
  <2>3. n \in Nat /\ n >= 1 /\ n \in 1 .. n /\ scope \in Scope
    BY ONLY <2>1
  <2>. QED
    BY ONLY <2>1, <2>2, <2>3
<1>2. scopes' = SubSeq(scopes, 1, n - 1) /\ scope = Last(scopes)
  BY DEF CloseScope, Front, Last
<1>3. scopes' \in Seq(Scope) /\ Len(scopes') = n - 1 /\ \A i \in 1 .. n - 1 : scopes'[i] = scopes[i]
  <2>1. \A i \in 1 .. n - 1 : scopes[i] \in Scope
    BY <1>1
  <2>2. 1 \in Int /\ n - 1 \in Int /\ (IF 1 <= n - 1 THEN (n - 1) - 1 + 1 ELSE 0) = n - 1
    <3>. HIDE DEF n
    <3>. QED
      BY <1>1
  <2>3. /\ SubSeq(scopes, 1, n - 1) \in Seq(Scope)
        /\ Len(SubSeq(scopes, 1, n - 1)) = IF 1 <= n - 1 THEN (n - 1) - 1 + 1 ELSE 0
        /\ \A i \in 1 .. (n - 1) - 1 + 1 : SubSeq(scopes, 1, n - 1)[i] = scopes[1 + i - 1]
    BY ONLY <2>1, <2>2, SubSeqProperties
  <2>4. ASSUME NEW i \in 1 .. n - 1 PROVE SubSeq(scopes, 1, n - 1)[i] = scopes[i]
    <3>1. i \in 1 .. (n - 1) - 1 + 1 /\ 1 + i - 1 = i
      BY <1>1
    <3>2. SubSeq(scopes, 1, n - 1)[i] = scopes[1 + i - 1]
      BY <2>3, <3>1
    <3>. QED
      BY <3>1, <3>2
  <2>. QED
    BY <1>2, <2>2, <2>3, <2>4
<1>4. \A k \in Counters : counter[k] \in Nat /\ scope.ref[k] \in Nat /\ scope.snapshot[k] \in Int
  BY <1>1 DEF TypeOK, Scope
<1>. HIDE DEF scope
<1>5. /\ d = [k \in Counters |-> IF k \in Measured(scope) THEN counter[k] - scope.ref[k] ELSE 0]
      /\ new = [k \in Counters |-> scope.snapshot[k] + d[k]]
  BY DEF Delta, NewInclusive, Plus
<1>. HIDE DEF d, new
<1>6. d \in [Counters -> Int]
  BY <1>4, <1>5
<1>7. new \in [Counters -> Int] /\ \A k \in Counters : new[k] = scope.snapshot[k] + d[k]
  BY <1>4, <1>5, <1>6
<1>8. slots' = Booked(slots, scope, d, new) /\ current_slot' = scope.m_parent
  BY <1>2 DEF CloseScope, Booked, SlotRestored, d, new
<1>9. /\ slots' \in [Slots -> SlotType]
      /\ \A s \in Slots :
              /\ slots'[s].hit_count = slots[s].hit_count
              /\ \A k \in Counters :
                 /\ slots'[s].exclusive[k] = slots[s].exclusive[k] + (IF scope.slot = s THEN d[k] ELSE 0)
                                                                   - (IF scope.m_parent = s THEN d[k] ELSE 0)
                 /\ slots'[s].inclusive[k] = IF s = scope.slot /\ k \in Measured(scope) THEN new[k] ELSE slots[s].inclusive[k]
  <2>1. PICK sl2 : sl2 = slots'
    OBVIOUS
  <2>2. slots \in [Slots -> SlotType] /\ sl2 = Booked(slots, scope, d, new) /\ scope \in Scope
    BY <1>1, <1>8, <2>1 DEF TypeOK
  <2>3. new \in [Counters -> Int]
    BY <1>7
  <2>4. SlotsBooked(slots, sl2, scope, d, new)
    BY ONLY <1>6, <2>2, <2>3, BookedIs
  <2>. QED
    BY <2>1, <2>4 DEF SlotsBooked
<1>10. /\ \A i \in 1 .. n : scopes[i].m_parent = IF i = 1 THEN Root ELSE scopes[i - 1].slot
       /\ scopes[n] = scope
  BY DEF StackInv, Nested, scope
<1>11. TypeOK'
  <2>1. scope.m_parent \in Slots
    BY <1>1 DEF Scope
  <2>. QED
    BY <1>1, <1>3, <1>8, <1>9, <2>1 DEF TypeOK
<1>12. StackInv'
  <2>1. Nested(scopes')
    <3>1. ASSUME NEW i \in 1 .. n - 1 PROVE scopes'[i].m_parent = IF i = 1 THEN Root ELSE scopes'[i - 1].slot
      <4>1. i \in 1 .. n /\ (i # 1 => i - 1 \in 1 .. n - 1)
        BY <1>1
      <4>. QED
        BY <1>3, <1>10, <4>1
    <3>. QED
      BY <1>3, <3>1 DEF Nested
  <2>2. current_slot' = IF scopes' = <<>> THEN Root ELSE scopes'[n - 1].slot
    <3>1. scope.m_parent = IF n = 1 THEN Root ELSE scopes[n - 1].slot
      BY <1>1, <1>10
    <3>2. scopes' = <<>> <=> n = 1
      BY <1>1, <1>3
    <3>3. n # 1 => scopes'[n - 1] = scopes[n - 1]
      BY <1>1, <1>3
    <3>. QED
      BY <1>8, <3>1, <3>2, <3>3
  <2>. QED
    BY <1>1, <1>3, <2>1, <2>2 DEF StackInv
<1>13. ClosedAs(scopes, scopes', counter, slots, slots')
  <2>1. ASSUME NEW k \in Counters PROVE d[k] = Measures(scopes, counter, n, k) /\ (k \in Measured(scope) <=> Watches(scopes, n, k))
    BY <1>5, <1>10 DEF Measures, Watches, Measured
  <2>2. \A i \in 1 .. Len(scopes') : scopes[i] = scopes'[i]
    BY <1>3
  <2>3. Len(scopes) = Len(scopes') + 1
    BY <1>1, <1>3
  <2>4. ASSUME NEW s \in Slots, NEW k \in Counters
        PROVE  /\ slots'[s].exclusive[k] = slots[s].exclusive[k]
                                + (IF scopes[n].slot = s THEN Measures(scopes, counter, n, k) ELSE 0)
                                - (IF scopes[n].m_parent = s THEN Measures(scopes, counter, n, k) ELSE 0)
               /\ slots'[s].inclusive[k] = IF s = scopes[n].slot /\ Watches(scopes, n, k)
                                THEN scopes[n].snapshot[k] + Measures(scopes, counter, n, k)
                                ELSE slots[s].inclusive[k]
    BY <1>7, <1>9, <1>10, <2>1
  <2>. QED
    BY <1>1, <1>3, <1>9, <2>2, <2>3, <2>4 DEF ClosedAs, TypeOK
<1>. QED
  BY <1>2, <1>9, <1>11, <1>12, <1>13

\* So does an advance of a counter.
LEMMA RunSteps ==
  ASSUME TypeOK, StackInv, NEW c \in Counters, Run(c)
  PROVE  TypeOK' /\ StackInv' /\ TickedAs(scopes, counter, counter', slots, c)
<1>1. counter' = [counter EXCEPT ![c] = @ + 1] /\ slots' = slots /\ scopes' = scopes /\ current_slot' = current_slot
      /\ dump' = dump
  BY DEF Run
<1>2. TypeOK'
  BY <1>1 DEF TypeOK
<1>3. StackInv'
  BY <1>1 DEF StackInv, Nested
<1>4. TickedAs(scopes, counter, counter', slots, c)
  BY <1>1 DEF TickedAs, Ticked, TypeOK, StackInv
<1>. QED
  BY <1>2, <1>3, <1>4

\* With no scope open nothing is owed.
LEMMA AllClosed ==
  ASSUME NEW st, st = <<>>, NEW cnt \in [Counters -> Nat], NEW sl \in [Slots -> SlotType], NEW k \in Counters
  PROVE  /\ \A b \in Slots : OwedBy(st, cnt, k, b) = 0
         /\ \A b \in Slots : Selfs(st, cnt, sl)[k][b] = sl[b].exclusive[k]
         /\ \A b \in Blocks : Totals(st, cnt, sl)[k][b] = sl[b].inclusive[k]
<1>1. st \in Seq(Scope) /\ Len(st) = 0 /\ 1 .. Len(st) = {}
  OBVIOUS
<1>2. ASSUME NEW b \in Slots PROVE OwedBy(st, cnt, k, b) = 0
  <2>. DEFINE f == Signed(st, cnt, k, b)
  <2>1. f \in [1 .. Len(st) -> Int] /\ IsFiniteSet(1 .. Len(st))
    BY <1>1, SignedType
  <2>. HIDE DEF f
  <2>2. SumFunctionOnSet(f, {}) = 0
    BY ONLY <2>1, SumAdds
  <2>. QED
    BY <1>1, <2>2 DEF f, OwedBy
<1>3. ASSUME NEW b \in Slots PROVE Selfs(st, cnt, sl)[k][b] = sl[b].exclusive[k]
  <2>1. Selfs(st, cnt, sl)[k][b] = sl[b].exclusive[k] + OwedBy(st, cnt, k, b)
    BY DEF Selfs
  <2>2. sl[b] \in SlotType
    OBVIOUS
  <2>3. sl[b].exclusive[k] \in Int
    BY <2>2 DEF SlotType
  <2>. QED
    BY <1>2, <2>1, <2>3
<1>4. ASSUME NEW b \in Blocks PROVE Totals(st, cnt, sl)[k][b] = sl[b].inclusive[k]
  <2>1. InStack(st, b) = {}
    BY <1>1 DEF InStack
  <2>. QED
    BY <2>1 DEF Totals, TotalBy
<1>. QED
  BY <1>2, <1>3, <1>4

\* At the start all of it holds.
LEMMA InitInv == Init => Inv
<1>. SUFFICES ASSUME Init PROVE Inv
  OBVIOUS
<1>. USE DEF Init
<1>1. NoCount \in [Counters -> Nat] /\ NoCount \in [Counters -> Int] /\ \A k \in Counters : NoCount[k] = 0
  BY DEF NoCount
<1>2. EmptySlot \in SlotType /\ EmptySlot.exclusive = NoCount /\ EmptySlot.inclusive = NoCount
  BY <1>1 DEF EmptySlot, SlotType
<1>3. TypeOK
  BY <1>1, <1>2, SlotsFinite DEF TypeOK
<1>4. StackInv
  BY DEF StackInv, Nested
<1>5. ASSUME NEW k \in Counters
      PROVE  Fair(Selfs(scopes, counter, slots)[k], Totals(scopes, counter, slots)[k], counter[k], k)
  <2>. DEFINE self == Selfs(scopes, counter, slots)[k]
              total == Totals(scopes, counter, slots)[k]
  <2>0. scopes = <<>> /\ counter \in [Counters -> Nat] /\ slots \in [Slots -> SlotType] /\ counter[k] = 0
    BY <1>1, <1>3 DEF TypeOK
  <2>1. \A b \in Slots : slots[b].exclusive[k] = 0 /\ slots[b].inclusive[k] = 0
    BY <1>1, <1>2
  <2>2. \A b \in Slots : self[b] = 0
    BY <2>0, <2>1, AllClosed
  <2>3. \A b \in Blocks : total[b] = 0
    BY <2>0, <2>1, AllClosed, SlotsFinite
  <2>4. self \in [Slots -> Int]
    BY <1>3, <2>0, ReadingsAreIntegers DEF TypeOK
  <2>. HIDE DEF self, total
  <2>5. SumFunctionOnSet(self, Slots) = 0
    BY <2>2, <2>4, SlotsFinite, SumZero
  <2>6. Given(self, k) = 0
    <3>. DEFINE f == [b \in Outside(k) |-> self[b]]
    <3>1. Outside(k) \subseteq Slots /\ IsFiniteSet(Outside(k))
      BY <2>4, GivenType
    <3>2. f \in [Outside(k) -> Int] /\ \A b \in Outside(k) : f[b] = 0
      BY <2>2, <3>1
    <3>. HIDE DEF f
    <3>3. SumFunctionOnSet(f, Outside(k)) = 0
      BY ONLY <3>1, <3>2, SumZero
    <3>. QED
      BY <3>3 DEF f, Given
  <2>7. \A b \in Watching(k) : b \in Slots /\ b \in Blocks
    BY SlotsFinite DEF Watching
  <2>8. \A b \in Outside(k) : b \in Slots /\ b \in Blocks
    BY SlotsFinite DEF Outside
  <2>9. Fair(self, total, 0, k)
    BY <2>2, <2>3, <2>5, <2>6, <2>7, <2>8, SlotsFinite DEF Fair
  <2>. QED
    BY <2>0, <2>9 DEF self, total
<1>. QED
  BY <1>3, <1>4, <1>5 DEF Inv, SharesInv

\* The shares after an advance.
LEMMA FairAfterTick ==
  ASSUME NEW st, NEW cnt, NEW new, NEW sl, NEW c, TickedAs(st, cnt, new, sl, c), NEW k \in Counters,
         Fair(Selfs(st, cnt, sl)[k], Totals(st, cnt, sl)[k], cnt[k], k)
  PROVE  Fair(Selfs(st, new, sl)[k], Totals(st, new, sl)[k], new[k], k)
<1>0. st \in Seq(Scope) /\ Nested(st) /\ sl \in [Slots -> SlotType] /\ cnt \in [Counters -> Nat] /\ new \in [Counters -> Nat]
      /\ new[k] = cnt[k] + IF k = c THEN 1 ELSE 0
  BY DEF TickedAs, Ticked
<1>1. PICK self \in [Slots -> Int], self2 \in [Slots -> Int], total \in [Blocks -> Int], total2 \in [Blocks -> Int],
           n \in Nat :
        /\ self = Selfs(st, cnt, sl)[k] /\ self2 = Selfs(st, new, sl)[k]
        /\ total = Totals(st, cnt, sl)[k] /\ total2 = Totals(st, new, sl)[k]
        /\ n = cnt[k]
  BY <1>0, ReadingsAreIntegers
<1>2. \A b \in Slots : self2[b] = self[b] + IF k = c THEN NetOf(st, c, b, Len(st)) ELSE 0
  BY <1>1, TickSelfs
<1>3. \A b \in Blocks : total2[b] = total[b] + IF k = c /\ InStack(st, b) # {} /\ c \in Watched[b] THEN 1 ELSE 0
  BY <1>1, TickTotals
<1>4. Fair(self, total, n, k)
  BY <1>1
<1>5. CASE k = c
  <2>1. \A b \in Slots : self2[b] = self[b] + NetOf(st, k, b, Len(st))
    BY <1>2, <1>5
  <2>2. \A b \in Blocks : total2[b] = total[b] + IF InStack(st, b) # {} /\ k \in Watched[b] THEN 1 ELSE 0
    BY <1>3, <1>5
  <2>3. Fair(self2, total2, n + 1, k)
    BY ONLY <1>0, <1>4, <2>1, <2>2, k \in Counters, FairTick
  <2>. QED
    BY <1>0, <1>1, <1>5, <2>3
<1>6. CASE k # c
  <2>1. self2 = self
    BY <1>2, <1>6
  <2>2. total2 = total
    BY <1>3, <1>6
  <2>. QED
    BY <1>0, <1>1, <1>6, <2>1, <2>2
<1>. QED
  BY <1>5, <1>6

\* What is printed is a sequence of lines.
LEMMA DumpTyped ==
  ASSUME TypeOK, FinishAndDump
  PROVE  dump' \in Seq(Lines)
<1>. DEFINE lines == [i \in 1 .. NBlocks + 1 |-> Line(i - 1)]
<1>1. \A s \in Slots : Line(s) \in Lines
  <2>. SUFFICES ASSUME NEW s \in Slots PROVE Line(s) \in Lines
    OBVIOUS
  <2>1. slots[s] \in SlotType
    BY DEF TypeOK
  <2>2. slots[s].hit_count \in Nat /\ slots[s].inclusive \in [Counters -> Int] /\ slots[s].exclusive \in [Counters -> Int]
    BY <2>1 DEF SlotType
  <2>. QED
    BY <2>2, SlotsFinite DEF Line, Lines
<1>2. NBlocks + 1 \in Nat /\ \A i \in 1 .. NBlocks + 1 : i - 1 \in Slots
  BY BoundAssumption DEF Slots, Root, Blocks
<1>3. lines \in [1 .. NBlocks + 1 -> Lines]
  BY <1>1, <1>2
<1>4. PICK d : d = dump'
  OBVIOUS
<1>5. d = FoldLeft(Printed, <<>>, insertion_sort(lines))
  BY <1>4 DEF FinishAndDump
<1>. HIDE DEF lines
<1>6. PICK m, p : Listing(d, lines, NBlocks + 1, m, p)
  BY ONLY <1>2, <1>3, <1>5, DumpLists
<1>. QED
  BY <1>4, <1>6 DEF Listing

\* Every step keeps the invariant.
LEMMA StepInv == Inv /\ [Next]_vars => Inv'
<1>. SUFFICES ASSUME Inv, [Next]_vars PROVE Inv'
  OBVIOUS
<1>. USE DEF Inv
<1>1. ASSUME NEW b \in Blocks, OpenScope(b) PROVE Inv'
  <2>1. TypeOK' /\ StackInv' /\ OpenedAs(scopes, scopes', counter, slots, slots', b)
    BY <1>1, OpenScopeSteps
  <2>2. Selfs(scopes', counter, slots') = Selfs(scopes, counter, slots)
    BY <2>1, OpenOwesNothing
  <2>3. Totals(scopes', counter, slots') = Totals(scopes, counter, slots)
    BY <2>1, OpenKeepsTotals
  <2>4. counter' = counter
    BY <1>1 DEF OpenScope
  <2>5. SharesInv'
    BY <2>2, <2>3, <2>4 DEF SharesInv
  <2>. QED
    BY <2>1, <2>5
<1>2. CASE CloseScope
  <2>1. TypeOK' /\ StackInv' /\ ClosedAs(scopes, scopes', counter, slots, slots')
    BY <1>2, CloseScopeSteps
  <2>2. Selfs(scopes', counter, slots') = Selfs(scopes, counter, slots)
    BY <2>1, CloseBooksDebt
  <2>3. Totals(scopes', counter, slots') = Totals(scopes, counter, slots)
    BY <2>1, CloseKeepsTotals
  <2>4. counter' = counter
    BY <1>2 DEF CloseScope
  <2>5. SharesInv'
    BY <2>2, <2>3, <2>4 DEF SharesInv
  <2>. QED
    BY <2>1, <2>5
<1>3. ASSUME NEW c \in Counters, Run(c) PROVE Inv'
  <2>1. TypeOK' /\ StackInv' /\ TickedAs(scopes, counter, counter', slots, c)
    BY <1>3, RunSteps
  <2>2. scopes' = scopes /\ slots' = slots
    BY <1>3 DEF Run
  <2>3. ASSUME NEW k \in Counters
        PROVE  Fair(Selfs(scopes, counter', slots)[k], Totals(scopes, counter', slots)[k], counter'[k], k)
    <3>1. Fair(Selfs(scopes, counter, slots)[k], Totals(scopes, counter, slots)[k], counter[k], k)
      BY DEF SharesInv
    <3>. QED
      BY <2>1, <3>1, FairAfterTick
  <2>4. SharesInv'
    BY <2>2, <2>3 DEF SharesInv
  <2>. QED
    BY <2>1, <2>4
<1>4. CASE FinishAndDump
  <2>1. slots' = slots /\ current_slot' = current_slot /\ scopes' = scopes /\ counter' = counter /\ scopes = <<>>
    BY <1>4 DEF FinishAndDump
  <2>2. dump' \in Seq(Lines)
    BY <1>4, DumpTyped
  <2>3. TypeOK'
    BY <2>1, <2>2 DEF TypeOK
  <2>4. StackInv'
    BY <2>1 DEF StackInv, Nested
  <2>5. SharesInv'
    BY <2>1 DEF SharesInv
  <2>. QED
    BY <2>3, <2>4, <2>5
<1>5. CASE UNCHANGED vars
  BY <1>5 DEF vars, TypeOK, StackInv, Nested, SharesInv
<1>. QED
  BY <1>1, <1>2, <1>3, <1>4, <1>5 DEF Next, Terminating

\* The slots keep their types, the stack its nesting and the current slot, and
\* the shares their order, while any scopes are open (profiling.hpp 102-183,
\* 243-287): the inductive invariant.
THEOREM AlwaysInv == Spec => []Inv
BY InitInv, StepInv, PTL DEF Spec

\* SumFunction of what a slot has of k over T, and Selfs, with all closed.
LEMMA ClosedSums ==
  ASSUME NEW self \in [Slots -> Int], NEW T, T \subseteq Slots, IsFiniteSet(T),
         NEW f, f = [b \in T |-> self[b]]
  PROVE  SumFunction(f) = SumFunctionOnSet(self, T) /\ SumFunction(f) = SumFunctionOnSet(f, T)
<1>1. SumFunction(f) = SumFunctionOnSet(f, T)
  BY DEF SumFunction
<1>2. f \in [T -> Int] /\ T \in SUBSET Slots /\ T \in SUBSET T /\ \A x \in T : self[x] = f[x]
  OBVIOUS
<1>3. SumFunctionOnSet(self, T) = SumFunctionOnSet(f, T)
  BY ONLY <1>2, IsFiniteSet(T), self \in [Slots -> Int], SlotsFinite, SumSame
<1>. QED
  BY <1>1, <1>3

\* With all scopes closed the shares are those of the slots.
LEMMA InvShares == Inv => SharesAddUp
<1>. SUFFICES ASSUME Inv, scopes = <<>>, NEW k \in Counters
              PROVE  /\ CountedTwice(k) >= 0
                     /\ \A b \in Watching(k) :
                           0 <= slots[b].exclusive[k]
                           /\ slots[b].exclusive[k] <= slots[b].inclusive[k] + CountedTwice(k)
                     /\ SumFunction([b \in Watching(k) |-> slots[b].exclusive[k]]) <= counter[k] + CountedTwice(k)
  BY DEF SharesAddUp
<1>1. TypeOK /\ Fair(Selfs(scopes, counter, slots)[k], Totals(scopes, counter, slots)[k], counter[k], k)
  BY DEF Inv, SharesInv
<1>2. PICK self \in [Slots -> Int], total \in [Blocks -> Int] :
        self = Selfs(scopes, counter, slots)[k] /\ total = Totals(scopes, counter, slots)[k]
  BY <1>1, ReadingsAreIntegers DEF TypeOK
<1>3. (\A b \in Slots : slots[b].exclusive[k] = self[b]) /\ (\A b \in Blocks : slots[b].inclusive[k] = total[b])
  BY <1>1, <1>2, AllClosed, SMTT(30) DEF TypeOK
<1>4. Fair(self, total, counter[k], k) /\ counter[k] \in Nat
  BY <1>1, <1>2 DEF TypeOK
<1>5. /\ IsFiniteSet(Outside(k)) /\ Outside(k) \subseteq Slots /\ IsFiniteSet(Watching(k)) /\ Watching(k) \subseteq Slots
      /\ Watching(k) \subseteq Blocks /\ Given(self, k) \in Int
  BY GivenType
<1>6. CountedTwice(k) = 0 - Given(self, k)
  <2>. DEFINE f == [b \in Outside(k) |-> self[b]]
  <2>1. f = [b \in Blocks \ Watching(k) |-> slots[b].exclusive[k]]
    BY <1>3, <1>5 DEF Outside
  <2>2. SumFunction(f) = SumFunctionOnSet(f, Outside(k))
    BY DEF SumFunction
  <2>. HIDE DEF f
  <2>3. CountedTwice(k) = 0 - SumFunction(f)
    BY <2>1 DEF CountedTwice
  <2>. QED
    BY <2>2, <2>3 DEF f, Given
<1>7. Given(self, k) <= 0
  <2>. DEFINE f == [b \in Outside(k) |-> self[b]]
              z == [b \in Outside(k) |-> 0]
  <2>1. f \in [Outside(k) -> Int] /\ z \in [Outside(k) -> Int] /\ \A b \in Outside(k) : f[b] <= z[b] /\ z[b] = 0
    BY <1>4, <1>5 DEF Fair
  <2>. HIDE DEF f, z
  <2>2. SumFunctionOnSet(f, Outside(k)) <= SumFunctionOnSet(z, Outside(k))
    BY ONLY <1>5, <2>1, SumLeq
  <2>3. SumFunctionOnSet(z, Outside(k)) = 0
    BY ONLY <1>5, <2>1, SumZero
  <2>. QED
    BY <2>2, <2>3 DEF f, Given
<1>8. SumFunctionOnSet(self, Watching(k)) <= counter[k] - Given(self, k)
  <2>. DEFINE W == Watching(k)
              U == Slots \ W
  <2>1. W \in SUBSET Slots /\ IsFiniteSet(U) /\ U \in SUBSET Slots /\ Root \in U /\ U = Outside(k) \cup {Root} /\ Root \notin Outside(k)
    BY <1>5, SlotsFinite, FS_Subset DEF Outside
  <2>. HIDE DEF W, U
  <2>2. SumFunctionOnSet(self, Slots) = SumFunctionOnSet(self, W) + SumFunctionOnSet(self, Slots \ W)
    BY ONLY <2>1, SlotsFinite, SumSplits, self \in [Slots -> Int]
  <2>3. SumFunctionOnSet(self, U) = SumFunctionOnSet(self, Outside(k)) + self[Root]
        /\ SumFunctionOnSet(self, Outside(k)) \in Int /\ self[Root] \in Int
    <3>1. Outside(k) \in SUBSET Slots /\ Root \in Slots
      BY <1>5, SlotsFinite
    <3>. QED
      BY ONLY <2>1, <3>1, SlotsFinite, SumAdd, self \in [Slots -> Int]
  <2>4. SumFunctionOnSet(self, Outside(k)) = Given(self, k)
    <3>. DEFINE f == [b \in Outside(k) |-> self[b]]
    <3>1. f = [b \in Outside(k) |-> self[b]]
      OBVIOUS
    <3>. HIDE DEF f
    <3>2. SumFunctionOnSet(self, Outside(k)) = SumFunctionOnSet(f, Outside(k))
      BY <1>5, <3>1, ClosedSums
    <3>. QED
      BY <3>2 DEF f, Given
  <2>5. SumFunctionOnSet(self, W) \in Int
    BY ONLY <2>1, SlotsFinite, SumAdds, self \in [Slots -> Int]
  <2>6. SumFunctionOnSet(self, Slots) = 0 /\ 0 - self[Root] <= counter[k]
    BY <1>4 DEF Fair
  <2>. QED
    BY <1>4, <1>5, <2>2, <2>3, <2>4, <2>5, <2>6 DEF U, W
<1>9. SumFunction([b \in Watching(k) |-> slots[b].exclusive[k]]) = SumFunctionOnSet(self, Watching(k))
  <2>1. PICK f : f = [b \in Watching(k) |-> slots[b].exclusive[k]]
    OBVIOUS
  <2>2. f = [b \in Watching(k) |-> self[b]]
    BY <1>3, <1>5, <2>1
  <2>3. SumFunction(f) = SumFunctionOnSet(self, Watching(k))
    BY <1>5, <2>2, ClosedSums
  <2>. QED
    BY <2>1, <2>3
<1>10. ASSUME NEW b \in Watching(k)
       PROVE  0 <= slots[b].exclusive[k] /\ slots[b].exclusive[k] <= slots[b].inclusive[k] - Given(self, k)
  <2>1. slots[b].exclusive[k] = self[b] /\ slots[b].inclusive[k] = total[b] /\ self[b] \in Int /\ total[b] \in Int
    BY <1>3, <1>5
  <2>2. 0 <= self[b] /\ self[b] + Given(self, k) <= total[b]
    BY <1>4 DEF Fair
  <2>. QED
    BY <1>5, <2>1, <2>2
<1>11. \A b \in Watching(k) : slots[b].inclusive[k] \in Int
  BY <1>3, <1>5
<1>12. SumFunctionOnSet(self, Watching(k)) \in Int
  <2>1. Watching(k) \in SUBSET Slots
    BY <1>5
  <2>. QED
    BY ONLY <2>1, SlotsFinite, SumAdds, self \in [Slots -> Int]
<1>. QED
  BY <1>4, <1>5, <1>6, <1>7, <1>8, <1>9, <1>10, <1>11, <1>12

\* The exclusive shares in the dump are not negative, exceed the inclusive ones
\* and the whole by no more than what blocks without page fault counts hide, for
\* every number of blocks and nesting of calls (profiling.hpp 169-178, 243-287).
THEOREM SharesAreRight == Spec => []SharesAddUp
BY AlwaysInv, InvShares, PTL

(***************************************************************************)
(* The refinement mapping, as operators on the state: a lemma about them   *)
(* can be used of the next state too.                                      *)
(***************************************************************************)

\* What Stopwatch's variables stand for, of any stack, counters and slots.
OpenOf(st) == [i \in DOMAIN st |-> st[i].slot]
DeltaOf(scope, cnt) == [k \in Counters |-> IF k \in Watched[scope.slot] THEN cnt[k] - scope.ref[k] ELSE 0]
OwedAs(st, cnt, k, b) ==
  SumFunction([i \in DOMAIN st |-> (IF st[i].slot = b THEN DeltaOf(st[i], cnt)[k] ELSE 0)
                                 - (IF st[i].m_parent = b THEN DeltaOf(st[i], cnt)[k] ELSE 0)])
SelfOf(st, cnt, sl) ==
  [k \in Counters |-> [b \in Blocks |-> IF b \in Watching(k) THEN sl[b].exclusive[k] + OwedAs(st, cnt, k, b) ELSE 0]]
OpenInAs(st, b) == {i \in DOMAIN st : st[i].slot = b}
SoFarAs(st, cnt, sl, k, b) ==
  IF OpenInAs(st, b) # {} /\ k \in Watched[b]
  THEN Plus(st[Min(OpenInAs(st, b))].snapshot, DeltaOf(st[Min(OpenInAs(st, b))], cnt))[k]
  ELSE sl[b].inclusive[k]
TotalOf(st, cnt, sl) == [k \in Counters |-> [b \in Blocks |-> SoFarAs(st, cnt, sl, k, b)]]
HitsOf(sl) == [b \in Blocks |-> sl[b].hit_count]

\* The abstract actions under the refinement mapping, spelled with these
\* operators.
LEMMA InitMeans ==
  Abstract!Init <=>
    /\ OpenOf(scopes) = <<>>
    /\ SelfOf(scopes, counter, slots) = Abstract!Zero /\ TotalOf(scopes, counter, slots) = Abstract!Zero
    /\ HitsOf(slots) = [b \in Blocks |-> 0]
    /\ dump = <<>>
BY DEF Abstract!Init, OpenOf, SelfOf, TotalOf, HitsOf, OwedAs, DeltaOf, OpenInAs, SoFarAs, Owed, Delta, Measured, SoFar, OpenIn, NewInclusive, Zenon

LEMMA OpenMeans ==
  ASSUME NEW b \in Blocks,
    /\ dump = <<>>
    /\ OpenOf(scopes') = Append(OpenOf(scopes), b)
    /\ HitsOf(slots') = [HitsOf(slots) EXCEPT ![b] = @ + 1]
    /\ SelfOf(scopes', counter', slots') = SelfOf(scopes, counter, slots)
    /\ TotalOf(scopes', counter', slots') = TotalOf(scopes, counter, slots)
    /\ dump' = dump
  PROVE Abstract!Open(b)
BY DEF Abstract!Open, Abstract!Running, OpenOf, SelfOf, TotalOf, HitsOf, OwedAs, DeltaOf, OpenInAs, SoFarAs, Owed, Delta, Measured, SoFar, OpenIn, NewInclusive, Zenon

LEMMA CloseMeans ==
  ASSUME
    /\ dump = <<>>
    /\ OpenOf(scopes) # <<>>
    /\ OpenOf(scopes') = SubSeq(OpenOf(scopes), 1, Len(OpenOf(scopes)) - 1)
    /\ HitsOf(slots') = HitsOf(slots)
    /\ SelfOf(scopes', counter', slots') = SelfOf(scopes, counter, slots)
    /\ TotalOf(scopes', counter', slots') = TotalOf(scopes, counter, slots)
    /\ dump' = dump
  PROVE Abstract!Close
BY DEF Abstract!Close, Abstract!Running, OpenOf, SelfOf, TotalOf, HitsOf, OwedAs, DeltaOf, OpenInAs, SoFarAs, Owed, Delta, Measured, SoFar, OpenIn, NewInclusive, Zenon

LEMMA StutterMeans ==
  ASSUME
    /\ OpenOf(scopes') = OpenOf(scopes)
    /\ HitsOf(slots') = HitsOf(slots)
    /\ SelfOf(scopes', counter', slots') = SelfOf(scopes, counter, slots)
    /\ TotalOf(scopes', counter', slots') = TotalOf(scopes, counter, slots)
    /\ dump' = dump
  PROVE UNCHANGED Abstract!vars
BY DEF Abstract!vars, OpenOf, SelfOf, TotalOf, HitsOf, OwedAs, DeltaOf, OpenInAs, SoFarAs, Owed, Delta, Measured, SoFar, OpenIn, NewInclusive, Zenon

\* Stopwatch!Watching and Charged, of any stack.
WatchingOf(st, k) == {i \in DOMAIN OpenOf(st) : k \in Watched[OpenOf(st)[i]]}
ChargedOf(st, k, b) ==
  Cardinality({i \in WatchingOf(st, k) : OpenOf(st)[i] = b /\ i + 1 \notin WatchingOf(st, k)})

LEMMA AdvanceMeans ==
  ASSUME NEW k \in Counters,
    /\ dump = <<>>
    /\ OpenOf(scopes') = OpenOf(scopes)
    /\ HitsOf(slots') = HitsOf(slots)
    /\ SelfOf(scopes', counter', slots') =
         [SelfOf(scopes, counter, slots) EXCEPT ![k] = [b \in Blocks |-> @[b] + ChargedOf(scopes, k, b)]]
    /\ TotalOf(scopes', counter', slots') =
         [TotalOf(scopes, counter, slots) EXCEPT ![k] =
            [b \in Blocks |-> @[b] + IF \E i \in WatchingOf(scopes, k) : OpenOf(scopes)[i] = b THEN 1 ELSE 0]]
    /\ dump' = dump
  PROVE Abstract!Advance(k)
<1>1. Abstract!Watching(k) = WatchingOf(scopes, k)
  BY DEF Abstract!Watching, WatchingOf, OpenOf
<1>2. ASSUME NEW b PROVE Abstract!Charged(k, b) = ChargedOf(scopes, k, b)
  <2>1. \A S : Abstract!Cardinality(S) = Cardinality(S)
    BY Zenon DEF Abstract!Cardinality, Cardinality
  <2>. QED
    BY <1>1, <2>1, Zenon DEF Abstract!Charged, ChargedOf, OpenOf
<1>3. [SelfOf(scopes, counter, slots) EXCEPT ![k] = [b \in Blocks |-> @[b] + ChargedOf(scopes, k, b)]]
      = [SelfOf(scopes, counter, slots) EXCEPT ![k] = [b \in Blocks |-> @[b] + Abstract!Charged(k, b)]]
  <2>1. \A f : [b \in Blocks |-> f[b] + ChargedOf(scopes, k, b)] = [b \in Blocks |-> f[b] + Abstract!Charged(k, b)]
    BY <1>2
  <2>. QED
    BY <2>1
<1>4. [TotalOf(scopes, counter, slots) EXCEPT ![k] =
            [b \in Blocks |-> @[b] + IF \E i \in WatchingOf(scopes, k) : OpenOf(scopes)[i] = b THEN 1 ELSE 0]]
      = [TotalOf(scopes, counter, slots) EXCEPT ![k] =
            [b \in Blocks |-> @[b] + IF \E i \in Abstract!Watching(k) : OpenOf(scopes)[i] = b THEN 1 ELSE 0]]
  BY <1>1
<1>5. SelfOf(scopes', counter', slots') =
         [SelfOf(scopes, counter, slots) EXCEPT ![k] = [b \in Blocks |-> @[b] + Abstract!Charged(k, b)]]
  BY <1>3, Zenon
<1>6. TotalOf(scopes', counter', slots') =
         [TotalOf(scopes, counter, slots) EXCEPT ![k] =
            [b \in Blocks |-> @[b] + IF \E i \in Abstract!Watching(k) : OpenOf(scopes)[i] = b THEN 1 ELSE 0]]
  BY <1>4, Zenon
<1>. QED
  BY <1>5, <1>6, Zenon DEF Abstract!Advance, Abstract!Running,
       OpenOf, SelfOf, TotalOf, HitsOf, OwedAs, DeltaOf, OpenInAs, SoFarAs, Owed, Delta, Measured, SoFar, OpenIn, NewInclusive

\* The blocks that ran, and what is listed of one.
RanOf(sl) == {b \in Blocks : HitsOf(sl)[b] > 0}
EntryOf(st, cnt, sl, b) ==
  [name |-> b, hit_count |-> HitsOf(sl)[b],
   inclusive |-> [k \in Counters |-> TotalOf(st, cnt, sl)[k][b]],
   exclusive |-> [k \in Counters |-> SelfOf(st, cnt, sl)[k][b]]]

LEMMA ListMeans ==
  ASSUME
    /\ dump = <<>>
    /\ OpenOf(scopes) = <<>>
    /\ RanOf(slots) # {}
    /\ \E order \in [1 .. Cardinality(RanOf(slots)) -> RanOf(slots)] :
          /\ \A i, j \in DOMAIN order : i < j =>
                /\ order[i] # order[j]
                /\ TotalOf(scopes, counter, slots)["ticks"][order[i]] >= TotalOf(scopes, counter, slots)["ticks"][order[j]]
          /\ dump' = [i \in DOMAIN order |-> EntryOf(scopes, counter, slots, order[i])]
    /\ OpenOf(scopes') = OpenOf(scopes)
    /\ HitsOf(slots') = HitsOf(slots)
    /\ SelfOf(scopes', counter', slots') = SelfOf(scopes, counter, slots)
    /\ TotalOf(scopes', counter', slots') = TotalOf(scopes, counter, slots)
  PROVE Abstract!List
<1>1. Abstract!Ran = RanOf(slots)
  BY DEF Abstract!Ran, RanOf, HitsOf
<1>2. ASSUME NEW b PROVE Abstract!Entry(b) = EntryOf(scopes, counter, slots, b)
  BY DEF Abstract!Entry, EntryOf,
       OpenOf, SelfOf, TotalOf, HitsOf, OwedAs, DeltaOf, OpenInAs, SoFarAs, Owed, Delta, Measured, SoFar, OpenIn, NewInclusive, Zenon
<1>3. PICK order \in [1 .. Cardinality(RanOf(slots)) -> RanOf(slots)] :
          /\ \A i, j \in DOMAIN order : i < j =>
                /\ order[i] # order[j]
                /\ TotalOf(scopes, counter, slots)["ticks"][order[i]] >= TotalOf(scopes, counter, slots)["ticks"][order[j]]
          /\ dump' = [i \in DOMAIN order |-> EntryOf(scopes, counter, slots, order[i])]
  OBVIOUS
<1>4. order \in [1 .. Abstract!Cardinality(Abstract!Ran) -> Abstract!Ran]
  <2>1. \A S : Abstract!Cardinality(S) = Cardinality(S)
    BY Zenon DEF Abstract!Cardinality, Cardinality
  <2>. QED
    BY <1>1, <2>1
<1>5. dump' = [i \in DOMAIN order |-> Abstract!Entry(order[i])]
  BY <1>2, <1>3
<1>. QED
  BY <1>1, <1>3, <1>4, <1>5, Zenon DEF Abstract!List, Abstract!Running,
       OpenOf, SelfOf, TotalOf, HitsOf, OwedAs, DeltaOf, OpenInAs, SoFarAs, Owed, Delta, Measured, SoFar, OpenIn, NewInclusive

(***************************************************************************)
(* The actions of the scopes, one by one.                                  *)
(***************************************************************************)

\* What of the selfs Stopwatch sees: those of the blocks that watch the
\* counter.
Shown(S) == [k \in Counters |-> [b \in Blocks |-> IF b \in Watching(k) THEN S[k][b] ELSE 0]]

\* The mapping says of self and total what the invariant does.
LEMMA OwedAsIs ==
  ASSUME NEW st \in Seq(Scope), NEW cnt \in [Counters -> Nat], NEW k \in Counters, NEW b
  PROVE  OwedAs(st, cnt, k, b) = OwedBy(st, cnt, k, b)
<1>. DEFINE f == [i \in DOMAIN st |-> (IF st[i].slot = b THEN DeltaOf(st[i], cnt)[k] ELSE 0)
                                    - (IF st[i].m_parent = b THEN DeltaOf(st[i], cnt)[k] ELSE 0)]
            g == Signed(st, cnt, k, b)
<1>1. DOMAIN st = 1 .. Len(st)
  OBVIOUS
<1>2. \A i \in DOMAIN st : DeltaOf(st[i], cnt)[k] = Measures(st, cnt, i, k)
  BY DEF DeltaOf, Measures, Watches
<1>3. f = g
  BY <1>1, <1>2 DEF Signed
<1>4. DOMAIN g = 1 .. Len(st)
  BY DEF Signed
<1>5. OwedAs(st, cnt, k, b) = SumFunction(f)
  BY DEF OwedAs
<1>. HIDE DEF f, g
<1>6. SumFunction(f) = SumFunctionOnSet(g, 1 .. Len(st))
  BY <1>3, <1>4 DEF SumFunction
<1>. QED
  BY <1>5, <1>6 DEF g, OwedBy

LEMMA SelfOfIs ==
  ASSUME NEW st \in Seq(Scope), NEW cnt \in [Counters -> Nat], NEW sl \in [Slots -> SlotType]
  PROVE  SelfOf(st, cnt, sl) = Shown(Selfs(st, cnt, sl))
<1>1. ASSUME NEW k \in Counters, NEW b \in Blocks
      PROVE  sl[b].exclusive[k] + OwedAs(st, cnt, k, b) = Selfs(st, cnt, sl)[k][b]
  BY OwedAsIs, SlotsFinite DEF Selfs
<1>. QED
  BY <1>1 DEF SelfOf, Shown

LEMMA TotalOfIs ==
  ASSUME NEW st \in Seq(Scope), NEW cnt \in [Counters -> Nat], NEW sl \in [Slots -> SlotType]
  PROVE  TotalOf(st, cnt, sl) = Totals(st, cnt, sl)
<1>1. ASSUME NEW k \in Counters, NEW b \in Blocks
      PROVE  SoFarAs(st, cnt, sl, k, b) = TotalBy(st, cnt, sl, k, b)
  <2>1. OpenInAs(st, b) = InStack(st, b)
    BY DEF OpenInAs, InStack
  <2>2. Min(OpenInAs(st, b)) = FirstOf(st, b)
    BY <2>1 DEF Min, FirstOf
  <2>3. CASE InStack(st, b) # {} /\ k \in Watched[b]
    <3>. DEFINE m == FirstOf(st, b)
    <3>1. m \in 1 .. Len(st)
      BY <2>3, FirstIs DEF InStack
    <3>2. DeltaOf(st[m], cnt)[k] = Measures(st, cnt, m, k)
      BY DEF DeltaOf, Measures, Watches
    <3>3. Plus(st[m].snapshot, DeltaOf(st[m], cnt))[k] = st[m].snapshot[k] + DeltaOf(st[m], cnt)[k]
      BY DEF Plus
    <3>. QED
      BY <2>1, <2>2, <2>3, <3>2, <3>3 DEF SoFarAs, TotalBy
  <2>4. CASE ~ (InStack(st, b) # {} /\ k \in Watched[b])
    BY <2>1, <2>4 DEF SoFarAs, TotalBy
  <2>. QED
    BY <2>3, <2>4
<1>. QED
  BY <1>1 DEF TotalOf, Totals

\* Stopwatch charges a block exactly what an advance nets it.
LEMMA ChargedOfIs ==
  ASSUME NEW st \in Seq(Scope), Nested(st), NEW k \in Counters, NEW b \in Blocks
  PROVE  /\ k \in Watched[b] => ChargedOf(st, k, b) = NetOf(st, k, b, Len(st))
         /\ k \notin Watched[b] => ChargedOf(st, k, b) = 0
         /\ (\E i \in WatchingOf(st, k) : OpenOf(st)[i] = b) <=> InStack(st, b) # {} /\ k \in Watched[b]
<1>1. DOMAIN st = 1 .. Len(st) /\ Len(st) \in Nat /\ Len(st) \in 0 .. Len(st)
  OBVIOUS
<1>2. WatchingOf(st, k) = {i \in 1 .. Len(st) : Watches(st, i, k)}
  BY <1>1 DEF WatchingOf, OpenOf, Watches
<1>3. \A i \in 1 .. Len(st) : OpenOf(st)[i] = st[i].slot
  BY <1>1 DEF OpenOf
<1>4. {i \in WatchingOf(st, k) : OpenOf(st)[i] = b /\ i + 1 \notin WatchingOf(st, k)} = Innermost(st, k, b, Len(st))
  BY <1>1, <1>2, <1>3 DEF Innermost
<1>5. ChargedOf(st, k, b) = Cardinality(Innermost(st, k, b, Len(st)))
  BY <1>4 DEF ChargedOf
<1>6. k \in Watched[b] => ChargedOf(st, k, b) = NetOf(st, k, b, Len(st))
  BY <1>1, <1>5, NetCounts
<1>7. k \notin Watched[b] => ChargedOf(st, k, b) = 0
  <2>1. k \notin Watched[b] => Innermost(st, k, b, Len(st)) = {}
    BY DEF Innermost, Watches
  <2>. QED
    BY <1>5, <2>1, FS_EmptySet
<1>8. (\E i \in WatchingOf(st, k) : OpenOf(st)[i] = b) <=> InStack(st, b) # {} /\ k \in Watched[b]
  BY <1>2, <1>3 DEF InStack, Watches
<1>. QED
  BY <1>6, <1>7, <1>8

\* The open blocks are a sequence of blocks.
LEMMA OpenOfIs ==
  ASSUME NEW st \in Seq(Scope)
  PROVE  /\ OpenOf(st) \in Seq(Blocks) /\ Len(OpenOf(st)) = Len(st) /\ DOMAIN OpenOf(st) = 1 .. Len(st)
         /\ \A i \in 1 .. Len(st) : OpenOf(st)[i] = st[i].slot
<1>1. DOMAIN st = 1 .. Len(st) /\ Len(st) \in Nat
  OBVIOUS
<1>2. \A i \in 1 .. Len(st) : st[i].slot \in Blocks
  BY ScopeBlocks
<1>3. OpenOf(st) \in [1 .. Len(st) -> Blocks]
  BY <1>1, <1>2 DEF OpenOf
<1>4. OpenOf(st) \in Seq(Blocks) /\ Len(OpenOf(st)) = Len(st)
  BY <1>1, <1>3
<1>. QED
  BY <1>1, <1>3, <1>4 DEF OpenOf

\* The constructor is Open.
LEMMA OpenRefines ==
  ASSUME TypeOK, StackInv, NEW b \in Blocks, OpenScope(b)
  PROVE  Abstract!Open(b)
<1>1. TypeOK' /\ OpenedAs(scopes, scopes', counter, slots, slots', b)
  BY OpenScopeSteps
<1>2. counter' = counter /\ dump' = dump /\ dump = <<>> /\ slots' = [slots EXCEPT ![b].hit_count = @ + 1]
  BY DEF OpenScope
<1>3. OpenOf(scopes') = Append(OpenOf(scopes), b)
  <2>. DEFINE o == OpenOf(scopes)
              o2 == OpenOf(scopes')
              n == Len(scopes)
  <2>1. o \in Seq(Blocks) /\ Len(o) = n /\ n \in Nat /\ \A i \in 1 .. n : o[i] = scopes[i].slot
    BY OpenOfIs DEF TypeOK
  <2>2. /\ scopes' \in Seq(Scope) /\ Len(scopes') = n + 1 /\ (\A i \in 1 .. n : scopes'[i] = scopes[i])
        /\ scopes'[n + 1].slot = b
    BY <1>1 DEF TypeOK, OpenedAs
  <2>3. o2 \in Seq(Blocks) /\ Len(o2) = n + 1 /\ \A i \in 1 .. n + 1 : o2[i] = scopes'[i].slot
    BY <2>2, OpenOfIs
  <2>4. \A i \in 1 .. n + 1 : o2[i] = IF i = n + 1 THEN b ELSE o[i]
    BY <2>1, <2>2, <2>3, SMTT(30)
  <2>. HIDE DEF o, o2, n
  <2>5. Append(o, b) \in Seq(Blocks) /\ Len(Append(o, b)) = n + 1
        /\ \A i \in 1 .. n + 1 : Append(o, b)[i] = IF i = n + 1 THEN b ELSE o[i]
    BY <2>1
  <2>6. o2 = Append(o, b)
    BY <2>3, <2>4, <2>5
  <2>. QED
    BY <2>6 DEF o, o2
<1>4. HitsOf(slots') = [HitsOf(slots) EXCEPT ![b] = @ + 1]
  <2>1. ASSUME NEW s \in Blocks PROVE slots'[s].hit_count = IF s = b THEN slots[s].hit_count + 1 ELSE slots[s].hit_count
    <3>1. s \in Slots /\ slots[s] \in SlotType
      BY SlotsFinite DEF TypeOK
    <3>2. slots'[s] = IF s = b THEN [slots[s] EXCEPT !.hit_count = @ + 1] ELSE slots[s]
      BY <1>2, <3>1 DEF TypeOK
    <3>. QED
      BY <3>1, <3>2 DEF SlotType
  <2>. QED
    BY <2>1 DEF HitsOf
<1>5. Selfs(scopes', counter, slots') = Selfs(scopes, counter, slots)
      /\ Totals(scopes', counter, slots') = Totals(scopes, counter, slots)
  BY <1>1, OpenOwesNothing, OpenKeepsTotals
<1>6. SelfOf(scopes', counter', slots') = SelfOf(scopes, counter, slots)
      /\ TotalOf(scopes', counter', slots') = TotalOf(scopes, counter, slots)
  <2>1. /\ scopes \in Seq(Scope) /\ slots \in [Slots -> SlotType] /\ counter \in [Counters -> Nat]
        /\ scopes' \in Seq(Scope) /\ slots' \in [Slots -> SlotType]
    BY <1>1 DEF TypeOK
  <2>2. SelfOf(scopes', counter, slots') = SelfOf(scopes, counter, slots)
    BY ONLY <1>5, <2>1, SelfOfIs
  <2>3. TotalOf(scopes', counter, slots') = TotalOf(scopes, counter, slots)
    BY ONLY <1>5, <2>1, TotalOfIs
  <2>. QED
    BY <1>2, <2>2, <2>3
<1>. QED
  BY <1>2, <1>3, <1>4, <1>6, OpenMeans

\* The destructor is Close.
LEMMA CloseRefines ==
  ASSUME TypeOK, StackInv, CloseScope
  PROVE  Abstract!Close
<1>1. /\ TypeOK' /\ ClosedAs(scopes, scopes', counter, slots, slots')
      /\ \A s \in Slots : slots'[s].hit_count = slots[s].hit_count
  BY CloseScopeSteps
<1>2. counter' = counter /\ dump' = dump /\ dump = <<>> /\ scopes # <<>>
  BY DEF CloseScope
<1>. DEFINE o == OpenOf(scopes)
            o2 == OpenOf(scopes')
            n == Len(scopes)
<1>3. o \in Seq(Blocks) /\ Len(o) = n /\ n \in Nat /\ n >= 1 /\ o # <<>> /\ \A i \in 1 .. n : o[i] = scopes[i].slot
  BY <1>2, OpenOfIs DEF TypeOK
<1>4. scopes' \in Seq(Scope) /\ Len(scopes') = n - 1 /\ (\A i \in 1 .. n - 1 : scopes'[i] = scopes[i])
  BY <1>1 DEF TypeOK, ClosedAs
<1>5. o2 \in Seq(Blocks) /\ Len(o2) = n - 1 /\ \A i \in 1 .. n - 1 : o2[i] = scopes'[i].slot
  BY <1>4, OpenOfIs
<1>6. \A i \in 1 .. n - 1 : o2[i] = o[i]
  BY <1>3, <1>4, <1>5, SMTT(30)
<1>7. o2 = SubSeq(o, 1, Len(o) - 1)
  <2>. HIDE DEF o, o2, n
  <2>1. SubSeq(o, 1, n - 1) \in Seq(Blocks) /\ Len(SubSeq(o, 1, n - 1)) = n - 1
        /\ \A i \in 1 .. n - 1 : SubSeq(o, 1, n - 1)[i] = o[i]
    BY <1>3
  <2>. QED
    BY <1>3, <1>5, <1>6, <2>1
<1>8. HitsOf(slots') = HitsOf(slots)
  BY <1>1, SlotsFinite DEF HitsOf
<1>9. Selfs(scopes', counter, slots') = Selfs(scopes, counter, slots)
      /\ Totals(scopes', counter, slots') = Totals(scopes, counter, slots)
  BY <1>1, CloseBooksDebt, CloseKeepsTotals
<1>10. SelfOf(scopes', counter', slots') = SelfOf(scopes, counter, slots)
       /\ TotalOf(scopes', counter', slots') = TotalOf(scopes, counter, slots)
  BY <1>1, <1>2, <1>9, SelfOfIs, TotalOfIs, SMTT(30) DEF TypeOK
<1>. QED
  BY <1>2, <1>3, <1>7, <1>8, <1>10, CloseMeans

\* An advance of a counter is Advance.
LEMMA RunRefines ==
  ASSUME TypeOK, StackInv, NEW c \in Counters, Run(c)
  PROVE  Abstract!Advance(c)
<1>1. TypeOK' /\ TickedAs(scopes, counter, counter', slots, c)
  BY RunSteps
<1>2. scopes' = scopes /\ slots' = slots /\ dump' = dump /\ dump = <<>>
  BY DEF Run
<1>3. scopes \in Seq(Scope) /\ Nested(scopes) /\ slots \in [Slots -> SlotType] /\ counter \in [Counters -> Nat]
      /\ counter' \in [Counters -> Nat]
  BY <1>1 DEF TypeOK, StackInv
<1>. DEFINE S == Selfs(scopes, counter, slots)
            S2 == Selfs(scopes, counter', slots)
            T == Totals(scopes, counter, slots)
            T2 == Totals(scopes, counter', slots)
<1>4. /\ SelfOf(scopes, counter, slots) = Shown(S) /\ SelfOf(scopes, counter', slots) = Shown(S2)
      /\ TotalOf(scopes, counter, slots) = T /\ TotalOf(scopes, counter', slots) = T2
  BY <1>3, SelfOfIs, TotalOfIs
<1>5. ASSUME NEW k \in Counters, NEW b \in Blocks
      PROVE  Shown(S2)[k][b] = IF k = c THEN Shown(S)[k][b] + ChargedOf(scopes, c, b) ELSE Shown(S)[k][b]
  <2>1. S2[k][b] = S[k][b] + IF k = c THEN NetOf(scopes, c, b, Len(scopes)) ELSE 0
    BY <1>1, TickSelfs, SlotsFinite
  <2>2. S[k][b] \in Int
    <3>1. S[k] \in [Slots -> Int] /\ b \in Slots
      BY <1>3, ReadingsAreIntegers, SlotsFinite
    <3>. HIDE DEF S
    <3>. QED
      BY <3>1
  <2>3. /\ c \in Watched[b] => ChargedOf(scopes, c, b) = NetOf(scopes, c, b, Len(scopes))
        /\ c \notin Watched[b] => ChargedOf(scopes, c, b) = 0
    BY <1>3, ChargedOfIs
  <2>. HIDE DEF S, S2
  <2>4. /\ Shown(S)[k][b] = IF k \in Watched[b] THEN S[k][b] ELSE 0
        /\ Shown(S2)[k][b] = IF k \in Watched[b] THEN S2[k][b] ELSE 0
    BY DEF Shown, Watching
  <2>. QED
    BY <2>1, <2>2, <2>3, <2>4
<1>6. ASSUME NEW k \in Counters, NEW b \in Blocks
      PROVE  T2[k][b] = IF k = c THEN T[k][b] + (IF \E i \in WatchingOf(scopes, c) : OpenOf(scopes)[i] = b THEN 1 ELSE 0)
                        ELSE T[k][b]
  <2>1. T2[k][b] = T[k][b] + IF k = c /\ InStack(scopes, b) # {} /\ c \in Watched[b] THEN 1 ELSE 0
    BY <1>1, TickTotals
  <2>2. T[k][b] \in Int
    <3>1. T[k] \in [Blocks -> Int]
      BY <1>3, ReadingsAreIntegers
    <3>. HIDE DEF T
    <3>. QED
      BY <3>1
  <2>3. (\E i \in WatchingOf(scopes, c) : OpenOf(scopes)[i] = b) <=> InStack(scopes, b) # {} /\ c \in Watched[b]
    BY <1>3, ChargedOfIs
  <2>. HIDE DEF T, T2
  <2>. QED
    BY <2>1, <2>2, <2>3
<1>7. Shown(S2) = [Shown(S) EXCEPT ![c] = [b \in Blocks |-> @[b] + ChargedOf(scopes, c, b)]]
  <2>. HIDE DEF S, S2
  <2>1. \A k \in Counters : DOMAIN Shown(S)[k] = Blocks /\ DOMAIN Shown(S2)[k] = Blocks
    BY DEF Shown
  <2>2. ASSUME NEW k \in Counters
        PROVE  Shown(S2)[k] = [Shown(S) EXCEPT ![c] = [b \in Blocks |-> @[b] + ChargedOf(scopes, c, b)]][k]
    <3>1. Shown(S)[k] = [b \in Blocks |-> IF b \in Watching(k) THEN S[k][b] ELSE 0]
          /\ Shown(S2)[k] = [b \in Blocks |-> IF b \in Watching(k) THEN S2[k][b] ELSE 0]
          /\ DOMAIN Shown(S) = Counters
      BY DEF Shown
    <3>. QED
      BY <1>5, <3>1
  <2>. QED
    BY <2>2 DEF Shown
<1>8. T2 = [T EXCEPT ![c] = [b \in Blocks |-> @[b] +
                                IF \E i \in WatchingOf(scopes, c) : OpenOf(scopes)[i] = b THEN 1 ELSE 0]]
  <2>1. /\ DOMAIN T = Counters /\ DOMAIN T2 = Counters
        /\ T = [k \in Counters |-> T[k]] /\ T2 = [k \in Counters |-> T2[k]]
        /\ \A k \in Counters : T[k] = [b \in Blocks |-> T[k][b]] /\ T2[k] = [b \in Blocks |-> T2[k][b]]
    BY DEF Totals
  <2>. HIDE DEF T, T2
  <2>2. ASSUME NEW k \in Counters
        PROVE  T2[k] = [T EXCEPT ![c] = [b \in Blocks |-> @[b] +
                                IF \E i \in WatchingOf(scopes, c) : OpenOf(scopes)[i] = b THEN 1 ELSE 0]][k]
    BY <1>6, <2>1
  <2>. QED
    BY <2>1, <2>2
<1>. HIDE DEF S, S2, T, T2
<1>9. /\ SelfOf(scopes', counter', slots') =
         [SelfOf(scopes, counter, slots) EXCEPT ![c] = [b \in Blocks |-> @[b] + ChargedOf(scopes, c, b)]]
      /\ TotalOf(scopes', counter', slots') =
         [TotalOf(scopes, counter, slots) EXCEPT ![c] =
            [b \in Blocks |-> @[b] + IF \E i \in WatchingOf(scopes, c) : OpenOf(scopes)[i] = b THEN 1 ELSE 0]]
  BY <1>2, <1>4, <1>7, <1>8
<1>. QED
  BY <1>2, <1>9, AdvanceMeans

(***************************************************************************)
(* The dump.                                                               *)
(***************************************************************************)

\* A line has a name if its block ran.
LEMMA NamedLines ==
  ASSUME NEW s \in Slots, TypeOK
  PROVE  /\ Line(s) \in Lines
         /\ Named(Line(s)) <=> s \in RanOf(slots)
<1>1. slots[s] \in SlotType
  BY DEF TypeOK
<1>2. slots[s].hit_count \in Nat /\ slots[s].inclusive \in [Counters -> Int] /\ slots[s].exclusive \in [Counters -> Int]
  BY <1>1 DEF SlotType
<1>3. Line(s) \in Lines
  BY <1>2, SlotsFinite DEF Line, Lines
<1>4. Named(Line(s)) <=> s # Root /\ slots[s].hit_count > 0
  BY <1>2 DEF Named, Line
<1>5. s \in RanOf(slots) <=> s \in Blocks /\ slots[s].hit_count > 0
  BY DEF RanOf, HitsOf
<1>6. s \in Blocks <=> s # Root
  BY SlotsFinite
<1>. QED
  BY <1>3, <1>4, <1>5, <1>6

\* With all scopes closed a line says what the abstraction has of the block.
LEMMA LineIsEntry ==
  ASSUME Inv, scopes = <<>>, NEW b \in RanOf(slots)
  PROVE  /\ Line(b) = EntryOf(scopes, counter, slots, b)
         /\ TotalOf(scopes, counter, slots)["ticks"][b] = Line(b).inclusive["ticks"]
<1>1. b \in Blocks /\ b \in Slots /\ slots[b].hit_count > 0
  BY SlotsFinite DEF RanOf, HitsOf
<1>2. /\ slots \in [Slots -> SlotType] /\ scopes \in Seq(Scope) /\ counter \in [Counters -> Nat] /\ slots[b] \in SlotType
  BY <1>1 DEF Inv, TypeOK
<1>3. slots[b].inclusive \in [Counters -> Int] /\ slots[b].exclusive \in [Counters -> Int]
  BY <1>2 DEF SlotType
<1>4. ASSUME NEW k \in Counters
      PROVE  /\ TotalOf(scopes, counter, slots)[k][b] = slots[b].inclusive[k]
             /\ SelfOf(scopes, counter, slots)[k][b] =
                  IF slots[b].inclusive[k] = 0 THEN 0 ELSE slots[b].exclusive[k]
  <2>1. TotalOf(scopes, counter, slots) = Totals(scopes, counter, slots)
        /\ SelfOf(scopes, counter, slots) = Shown(Selfs(scopes, counter, slots))
    BY <1>2, SelfOfIs, TotalOfIs
  <2>2. Totals(scopes, counter, slots)[k][b] = slots[b].inclusive[k]
        /\ Selfs(scopes, counter, slots)[k][b] = slots[b].exclusive[k]
    BY <1>1, <1>2, AllClosed
  <2>3. Shown(Selfs(scopes, counter, slots))[k][b] = IF b \in Watching(k) THEN slots[b].exclusive[k] ELSE 0
    BY <1>1, <2>2 DEF Shown
  <2>4. Fair(Selfs(scopes, counter, slots)[k], Totals(scopes, counter, slots)[k], counter[k], k)
    BY DEF Inv, SharesInv
  <2>5. b \in Watching(k) /\ slots[b].inclusive[k] = 0 => slots[b].exclusive[k] = 0
    BY <2>2, <2>4 DEF Fair
  <2>6. b \notin Watching(k) => slots[b].inclusive[k] = 0
    BY <1>1, <2>2, <2>4 DEF Fair, Outside
  <2>. QED
    BY <2>1, <2>2, <2>3, <2>5, <2>6
<1>5. b # Root
  BY <1>1, SlotsFinite
<1>6. Line(b) = [name |-> b, hit_count |-> slots[b].hit_count, inclusive |-> slots[b].inclusive,
                 exclusive |-> [k \in Counters |-> IF slots[b].inclusive[k] = 0 THEN 0 ELSE slots[b].exclusive[k]]]
  BY <1>1 DEF Line
<1>7. slots[b].inclusive = [k \in Counters |-> TotalOf(scopes, counter, slots)[k][b]]
  BY <1>3, <1>4
<1>8. [k \in Counters |-> IF slots[b].inclusive[k] = 0 THEN 0 ELSE slots[b].exclusive[k]]
      = [k \in Counters |-> SelfOf(scopes, counter, slots)[k][b]]
  BY <1>4
<1>9. HitsOf(slots)[b] = slots[b].hit_count
  BY <1>1 DEF HitsOf
<1>10. Line(b) = EntryOf(scopes, counter, slots, b)
  BY <1>6, <1>7, <1>8, <1>9 DEF EntryOf
<1>11. "ticks" \in Counters
  BY DEF Counters
<1>12. TotalOf(scopes, counter, slots)["ticks"][b] = Line(b).inclusive["ticks"]
  BY <1>4, <1>6, <1>11
<1>. QED
  BY <1>10, <1>12

\* Something ran when a hit was counted.
LEMMA SomeRan ==
  ASSUME TypeOK, Opened > 0
  PROVE  RanOf(slots) # {}
<1>. DEFINE f == [b \in Blocks |-> slots[b].hit_count]
<1>1. \A b \in Blocks : slots[b].hit_count \in Nat
  <2>1. \A b \in Blocks : slots[b] \in SlotType
    BY SlotsFinite DEF TypeOK
  <2>. QED
    BY <2>1 DEF SlotType
<1>2. f \in [Blocks -> Int] /\ DOMAIN f = Blocks
  BY <1>1
<1>3. Opened = SumFunction(f)
  BY DEF Opened
<1>4. RanOf(slots) = {} => \A b \in Blocks : f[b] = 0
  <2>. SUFFICES ASSUME NEW b \in Blocks, b \notin RanOf(slots) PROVE f[b] = 0
    OBVIOUS
  <2>1. HitsOf(slots)[b] = slots[b].hit_count /\ ~ (HitsOf(slots)[b] > 0)
    BY DEF RanOf, HitsOf
  <2>. QED
    BY <1>1, <2>1
<1>. HIDE DEF f
<1>5. SumFunction(f) = SumFunctionOnSet(f, Blocks)
  BY <1>2 DEF SumFunction
<1>6. RanOf(slots) = {} => SumFunctionOnSet(f, Blocks) = 0
  BY <1>2, <1>4, SlotsFinite, SumZero
<1>. QED
  BY <1>3, <1>5, <1>6

\* The dump is List.
LEMMA ListRefines ==
  ASSUME Inv, FinishAndDump
  PROVE  Abstract!List
<1>. DEFINE n == NBlocks + 1
            lines == [i \in 1 .. n |-> Line(i - 1)]
            Ran == RanOf(slots)
<1>1. /\ dump = <<>> /\ scopes = <<>> /\ slots' = slots /\ scopes' = scopes /\ counter' = counter
      /\ dump' = FoldLeft(Printed, <<>>, insertion_sort(lines))
      /\ Ran # {} /\ TypeOK
  BY SomeRan DEF FinishAndDump, Inv
<1>2. n \in Nat /\ (\A i \in 1 .. n : i - 1 \in Slots) /\ \A s \in Slots : s + 1 \in 1 .. n /\ (s + 1) - 1 = s
  BY BoundAssumption DEF Slots, Root, Blocks
<1>3. \A i \in 1 .. n : lines[i] = Line(i - 1) /\ lines[i] \in Lines /\ (Named(lines[i]) <=> i - 1 \in Ran)
  BY <1>1, <1>2, NamedLines
<1>4. lines \in [1 .. n -> Lines]
  BY <1>3
<1>. HIDE DEF lines, n, Ran
<1>5. PICK d : d = dump'
  OBVIOUS
<1>6. PICK m, p : Listing(d, lines, n, m, p)
  <2>1. d = FoldLeft(Printed, <<>>, insertion_sort(lines))
    BY <1>1, <1>5
  <2>. QED
    BY ONLY <1>2, <1>4, <2>1, DumpLists
<1>7. /\ m \in 0 .. n /\ m \in Nat /\ p \in [1 .. m -> 1 .. n]
      /\ d \in Seq(Lines) /\ Len(d) = m
      /\ \A j \in 1 .. m : d[j] = lines[p[j]] /\ Named(lines[p[j]])
      /\ \A j, k \in 1 .. m : j < k => p[j] # p[k] /\ d[j].inclusive["ticks"] >= d[k].inclusive["ticks"]
      /\ \A x \in 1 .. n : Named(lines[x]) => \E j \in 1 .. m : p[j] = x
  <2>1. m \in 0 .. n /\ m \in Nat
    <3>1. m \in 0 .. n
      BY <1>6 DEF Listing
    <3>. QED
      BY <1>2, <3>1
  <2>. QED
    BY <1>6, <2>1, Zenon DEF Listing
<1>. DEFINE order == [j \in 1 .. m |-> p[j] - 1]
<1>8. \A j \in 1 .. m : order[j] = p[j] - 1 /\ order[j] \in Ran /\ p[j] \in 1 .. n
  BY <1>3, <1>7
<1>9. order \in [1 .. m -> Ran] /\ DOMAIN order = 1 .. m
  BY <1>8
<1>. HIDE DEF order
<1>10. \A j, k \in 1 .. m : order[j] = order[k] => j = k
  <2>1. \A j \in 1 .. m : p[j] \in Int
    BY <1>7
  <2>2. \A j, k \in 1 .. m : j # k => p[j] # p[k]
    <3>. SUFFICES ASSUME NEW j \in 1 .. m, NEW k \in 1 .. m, j # k PROVE p[j] # p[k]
      OBVIOUS
    <3>1. CASE j < k
      BY <1>7, <3>1
    <3>2. CASE k < j
      BY <1>7, <3>2
    <3>. QED
      BY <3>1, <3>2
  <2>. QED
    BY <1>8, <2>1, <2>2
<1>11. \A b \in Ran : \E j \in 1 .. m : order[j] = b
  <2>. SUFFICES ASSUME NEW b \in Ran PROVE \E j \in 1 .. m : order[j] = b
    OBVIOUS
  <2>1. b \in Slots /\ b + 1 \in 1 .. n /\ (b + 1) - 1 = b
    BY <1>2, SlotsFinite DEF Ran, RanOf
  <2>2. Named(lines[b + 1])
    BY <1>3, <2>1
  <2>3. PICK j \in 1 .. m : p[j] = b + 1
    BY <1>7, <2>1, <2>2
  <2>. QED
    BY <1>8, <2>1, <2>3
<1>12. Cardinality(Ran) = m
  <2>1. order \in Bijection(1 .. m, Ran)
    <3>1. order \in Injection(1 .. m, Ran)
      BY <1>9, <1>10, Zenon DEF Injection, IsInjective
    <3>2. order \in Surjection(1 .. m, Ran)
      BY <1>9, <1>11, Zenon DEF Surjection
    <3>. QED
      BY <3>1, <3>2 DEF Bijection
  <2>2. ExistsBijection(1 .. m, Ran)
    BY <2>1 DEF ExistsBijection
  <2>. QED
    BY ONLY <1>7, <2>2, FS_CountingElements
<1>13. \A j \in 1 .. m : d[j] = Line(order[j])
  BY <1>3, <1>7, <1>8
<1>14. \A b \in Ran : /\ Line(b) = EntryOf(scopes, counter, slots, b)
                      /\ TotalOf(scopes, counter, slots)["ticks"][b] = Line(b).inclusive["ticks"]
  BY <1>1, LineIsEntry DEF Ran
<1>15. dump' = [j \in DOMAIN order |-> EntryOf(scopes, counter, slots, order[j])]
  <2>1. d = [j \in 1 .. m |-> d[j]]
    BY <1>7
  <2>2. \A j \in 1 .. m : d[j] = EntryOf(scopes, counter, slots, order[j])
    BY <1>8, <1>13, <1>14
  <2>3. [j \in 1 .. m |-> d[j]] = [j \in 1 .. m |-> EntryOf(scopes, counter, slots, order[j])]
    BY <2>2, Zenon
  <2>. QED
    BY <1>5, <1>9, <2>1, <2>3
<1>16. \A i, j \in DOMAIN order : i < j =>
          /\ order[i] # order[j]
          /\ TotalOf(scopes, counter, slots)["ticks"][order[i]] >= TotalOf(scopes, counter, slots)["ticks"][order[j]]
  <2>. SUFFICES ASSUME NEW i \in 1 .. m, NEW j \in 1 .. m, i < j
                PROVE  /\ order[i] # order[j]
                       /\ TotalOf(scopes, counter, slots)["ticks"][order[i]]
                            >= TotalOf(scopes, counter, slots)["ticks"][order[j]]
    BY <1>9
  <2>1. i # j /\ order[i] # order[j]
    BY <1>7, <1>10
  <2>2. d[i].inclusive["ticks"] >= d[j].inclusive["ticks"]
    BY <1>7
  <2>3. TotalOf(scopes, counter, slots)["ticks"][order[i]] = d[i].inclusive["ticks"]
        /\ TotalOf(scopes, counter, slots)["ticks"][order[j]] = d[j].inclusive["ticks"]
    BY <1>8, <1>13, <1>14
  <2>. QED
    BY <2>1, <2>2, <2>3
<1>17. OpenOf(scopes) = <<>>
  BY <1>1 DEF OpenOf
<1>18. order \in [1 .. Cardinality(Ran) -> Ran]
  BY <1>9, <1>12
<1>. QED
  BY <1>1, <1>15, <1>16, <1>17, <1>18, ListMeans DEF Ran

\* init_profiler starts a stopwatch.
LEMMA InitRefines == Init => Abstract!Init
<1>. SUFFICES ASSUME Init PROVE Abstract!Init
  OBVIOUS
<1>1. Inv
  BY InitInv
<1>2. /\ scopes = <<>> /\ dump = <<>> /\ counter \in [Counters -> Nat] /\ slots \in [Slots -> SlotType] /\ scopes \in Seq(Scope)
  BY <1>1 DEF Init, Inv, TypeOK
<1>3. \A s \in Slots : slots[s] = EmptySlot
  BY DEF Init
<1>4. \A s \in Slots : \A k \in Counters :
        slots[s].hit_count = 0 /\ slots[s].inclusive[k] = 0 /\ slots[s].exclusive[k] = 0
  BY <1>3 DEF EmptySlot, NoCount
<1>5. \A k \in Counters : \A b \in Blocks : /\ Selfs(scopes, counter, slots)[k][b] = 0
                                            /\ Totals(scopes, counter, slots)[k][b] = 0
  <2>. SUFFICES ASSUME NEW k \in Counters, NEW b \in Blocks
                PROVE  Selfs(scopes, counter, slots)[k][b] = 0 /\ Totals(scopes, counter, slots)[k][b] = 0
    OBVIOUS
  <2>1. b \in Slots
    BY SlotsFinite
  <2>2. /\ Selfs(scopes, counter, slots)[k][b] = slots[b].exclusive[k]
        /\ Totals(scopes, counter, slots)[k][b] = slots[b].inclusive[k]
    BY <1>2, <2>1, AllClosed
  <2>. QED
    BY <1>4, <2>1, <2>2
<1>6. SelfOf(scopes, counter, slots) = Abstract!Zero
  <2>1. SelfOf(scopes, counter, slots) = Shown(Selfs(scopes, counter, slots))
    BY <1>2, SelfOfIs
  <2>. QED
    BY <1>5, <2>1 DEF Shown, Abstract!Zero
<1>7. TotalOf(scopes, counter, slots) = Abstract!Zero
  <2>1. TotalOf(scopes, counter, slots) = Totals(scopes, counter, slots)
    BY <1>2, TotalOfIs
  <2>2. Totals(scopes, counter, slots) = [k \in Counters |-> [b \in Blocks |-> 0]]
    BY <1>5 DEF Totals
  <2>. QED
    BY <2>1, <2>2 DEF Abstract!Zero
<1>8. HitsOf(slots) = [b \in Blocks |-> 0]
  <2>1. \A b \in Blocks : slots[b].hit_count = 0
    <3>1. "ticks" \in Counters
      BY DEF Counters
    <3>. QED
      BY <1>4, <3>1, SlotsFinite
  <2>. QED
    BY <2>1 DEF HitsOf
<1>9. OpenOf(scopes) = <<>>
  BY <1>2 DEF OpenOf
<1>. QED
  BY <1>2, <1>6, <1>7, <1>8, <1>9, InitMeans

\* Every step is one of the stopwatch, or none.
LEMMA StepRefines == Inv /\ [Next]_vars => [Abstract!Next]_Abstract!vars
<1>. SUFFICES ASSUME Inv, [Next]_vars PROVE [Abstract!Next]_Abstract!vars
  OBVIOUS
<1>0. TypeOK /\ StackInv
  BY DEF Inv
<1>1. ASSUME NEW b \in Blocks, OpenScope(b) PROVE Abstract!Next
  BY <1>0, <1>1, OpenRefines DEF Abstract!Next
<1>2. ASSUME CloseScope PROVE Abstract!Next
  BY <1>0, <1>2, CloseRefines DEF Abstract!Next
<1>3. ASSUME NEW k \in Counters, Run(k) PROVE Abstract!Next
  BY <1>0, <1>3, RunRefines DEF Abstract!Next
<1>4. ASSUME FinishAndDump PROVE Abstract!Next
  BY <1>4, ListRefines DEF Abstract!Next
<1>5. ASSUME UNCHANGED vars PROVE UNCHANGED Abstract!vars
  BY <1>5, StutterMeans DEF vars
<1>. QED
  BY <1>1, <1>2, <1>3, <1>4, <1>5 DEF Next, Terminating

\* The profiler is the stopwatch: every advance of a counter is charged once to
\* the block it happened in and once to each around it, also when blocks are
\* open in themselves, and the dump lists them in order (profiling.hpp 102-183).
THEOREM StopwatchImplemented == Spec => ImplementsStopwatch
BY AlwaysInv, InitRefines, StepRefines, PTL DEF Spec, ImplementsStopwatch, Abstract!Spec

===========================================================================
