---------------------------- MODULE Numbers_proofs -----------------------------
(***************************************************************************)
(* What the operators without state compute: sums, rankings and quotients, *)
(* the streak rule, and the windows of days, shares, colours and calendar  *)
(* of the pages.                                                           *)
(*                                                                         *)
(* What a sum over a finite set is, without the order in which its terms   *)
(* are added up, is proved by looking at a smallest set that would be a    *)
(* counterexample.                                                         *)
(***************************************************************************)
EXTENDS Sums, Ranking, Days, StreakRule, Sequences, FiniteSetTheorems, WellFoundedInduction, TLAPS

LEMMA MinimalSet ==
    ASSUME NEW S, IsFiniteSet(S), NEW B \in SUBSET (SUBSET S), B # {}
    PROVE  \E T \in B : \A U \in B : U \subseteq T => U = T
  <1>1. FiniteSubsetsOf(S) = SUBSET S
    BY FS_FiniteSubsetsOfFinite
  <1>2. IsWellFoundedOn(StrictSubsetOrdering(S), SUBSET S)
    BY <1>1, FS_StrictSubsetOrderingWellFounded
  <1>3. PICK T \in B : \A U \in B : <<U, T>> \notin StrictSubsetOrdering(S)
    BY <1>2, WFMin
  <1>4. QED
    BY <1>3 DEF StrictSubsetOrdering

-----------------------------------------------------------------------------
\* The function that the fold is defined by.
First(s) == CHOOSE x \in s : TRUE
IsIter(f, S, it) ==
    it = [s \in SUBSET S |-> IF s = {} THEN 0 ELSE f[First(s)] + it[s \ {First(s)}]]

LEMMA FirstIsIn ==
    ASSUME NEW s, s # {}
    PROVE  First(s) \in s
  BY DEF First

LEMMA SumIsIter ==
    ASSUME NEW f, NEW S
    PROVE  SumOn(f, S) = (CHOOSE it : IsIter(f, S, it))[S]
  BY DEF SumOn, MapThenSumSet, MapThenFoldSet, IsIter, First

LEMMA IterValue ==
    ASSUME NEW f, NEW S, NEW it, IsIter(f, S, it), NEW s \in SUBSET S
    PROVE  it[s] = IF s = {} THEN 0 ELSE f[First(s)] + it[s \ {First(s)}]
  BY DEF IsIter

\* Two of them agree on what both of them are defined for.
LEMMA IterUnique ==
    ASSUME NEW S, IsFiniteSet(S), NEW f, NEW T \in SUBSET S, NEW i, NEW j,
           IsIter(f, S, i), IsIter(f, T, j)
    PROVE  \A s \in SUBSET T : i[s] = j[s]
  <1> DEFINE B == {s \in SUBSET T : i[s] # j[s]}
  <1> SUFFICES ASSUME B # {} PROVE FALSE
    OBVIOUS
  <1>1. IsFiniteSet(T)
    BY FS_Subset
  <1>2. PICK s \in B : \A U \in B : U \subseteq s => U = s
    <2> HIDE DEF B
    <2>1. B \in SUBSET (SUBSET T)
      BY DEF B
    <2>2. QED
      BY <1>1, <2>1, MinimalSet
  <1>3. s \in SUBSET T /\ s \in SUBSET S /\ i[s] # j[s]
    OBVIOUS
  <1>4. /\ i[s] = IF s = {} THEN 0 ELSE f[First(s)] + i[s \ {First(s)}]
        /\ j[s] = IF s = {} THEN 0 ELSE f[First(s)] + j[s \ {First(s)}]
    BY <1>3, IterValue
  <1>5. s # {} /\ First(s) \in s
    BY <1>3, <1>4, FirstIsIn
  <1>6. s \ {First(s)} \notin B /\ s \ {First(s)} \in SUBSET T
    BY <1>2, <1>3, <1>5
  <1>7. i[s \ {First(s)}] = j[s \ {First(s)}]
    BY <1>6
  <1>8. QED
    BY <1>3, <1>4, <1>7

\* It exists, as a smallest set without one would have one.
LEMMA IterExists ==
    ASSUME NEW S, IsFiniteSet(S), NEW f
    PROVE  \A T \in SUBSET S : \E it : IsIter(f, T, it)
  <1> DEFINE B == {T \in SUBSET S : ~ \E it : IsIter(f, T, it)}
             The(T) == CHOOSE it : IsIter(f, T, it)
  <1> SUFFICES ASSUME B # {} PROVE FALSE
    OBVIOUS
  <1>1. PICK T \in B : \A U \in B : U \subseteq T => U = T
    <2> HIDE DEF B
    <2>1. B \in SUBSET (SUBSET S)
      BY DEF B
    <2>2. QED
      BY <2>1, MinimalSet
  <1>2. \A U \in SUBSET T : U # T => IsIter(f, U, The(U))
    BY <1>1
  <1>3. IsFiniteSet(T) /\ T \in SUBSET S
    BY FS_Subset
  <1> HIDE DEF The
  <1> DEFINE new == [s \in SUBSET T |-> IF s = {} THEN 0
                       ELSE f[First(s)] + The(s \ {First(s)})[s \ {First(s)}]]
  <1>4. \A s \in SUBSET T : s # T => new[s] = The(s)[s]
    <2> SUFFICES ASSUME NEW s \in SUBSET T, s # T PROVE new[s] = The(s)[s]
      OBVIOUS
    <2>1. IsIter(f, s, The(s)) /\ IsFiniteSet(s)
      BY <1>2, <1>3, FS_Subset
    <2>2. The(s)[s] = IF s = {} THEN 0 ELSE f[First(s)] + The(s)[s \ {First(s)}]
      BY <2>1, IterValue
    <2>3. CASE s = {}
      BY <2>2, <2>3
    <2>4. CASE s # {}
      <3> DEFINE r == s \ {First(s)}
      <3>1. r \in SUBSET s /\ r \in SUBSET T /\ r # T
        BY <2>4, FirstIsIn
      <3>2. IsIter(f, r, The(r))
        BY <1>2, <3>1
      <3> HIDE DEF r
      <3>3. The(s)[r] = The(r)[r]
        BY <2>1, <3>1, <3>2, IterUnique
      <3>4. new[s] = f[First(s)] + The(r)[r]
        BY <2>4 DEF r
      <3>5. The(s)[s] = f[First(s)] + The(s)[r]
        BY <2>2, <2>4 DEF r
      <3>6. QED
        BY <3>3, <3>4, <3>5
    <2>5. QED
      BY <2>3, <2>4
  <1>5. IsIter(f, T, new)
    <2>1. \A s \in SUBSET T : s # {} =>
            new[s \ {First(s)}] = The(s \ {First(s)})[s \ {First(s)}]
      <3> SUFFICES ASSUME NEW s \in SUBSET T, s # {}
                   PROVE  new[s \ {First(s)}] = The(s \ {First(s)})[s \ {First(s)}]
        OBVIOUS
      <3> HIDE DEF new
      <3>1. s \ {First(s)} \in SUBSET T /\ s \ {First(s)} # T
        BY FirstIsIn
      <3>2. QED
        BY <1>4, <3>1
    <2>2. new = [s \in SUBSET T |-> IF s = {} THEN 0 ELSE f[First(s)] + new[s \ {First(s)}]]
      BY <2>1
    <2>3. QED
      BY <2>2 DEF IsIter
  <1>6. QED
    BY <1>1, <1>5

-----------------------------------------------------------------------------
\* The equations of a sum: no terms, and one term taken out, any one.
LEMMA SumFirst ==
    ASSUME NEW S, IsFiniteSet(S), NEW f
    PROVE  SumOn(f, S) = IF S = {} THEN 0 ELSE f[First(S)] + SumOn(f, S \ {First(S)})
  <1> DEFINE it == CHOOSE i : IsIter(f, S, i)
             R == S \ {First(S)}
             jt == CHOOSE j : IsIter(f, R, j)
  <1>1. IsIter(f, S, it) /\ IsIter(f, R, jt)
    BY IterExists
  <1>2. SumOn(f, S) = it[S] /\ SumOn(f, R) = jt[R]
    BY SumIsIter
  <1> HIDE DEF it, jt
  <1>3. it[R] = jt[R]
    BY <1>1, IterUnique
  <1>4. it[S] = IF S = {} THEN 0 ELSE f[First(S)] + it[R]
    BY <1>1, IterValue
  <1>5. QED
    BY <1>2, <1>3, <1>4

LEMMA SumType ==
    ASSUME NEW S, IsFiniteSet(S), NEW f, \A x \in S : f[x] \in Int
    PROVE  /\ SumOn(f, S) \in Int
           /\ (\A x \in S : f[x] >= 0) => SumOn(f, S) >= 0
  <1> DEFINE Good(T) == /\ SumOn(f, T) \in Int
                        /\ (\A x \in S : f[x] >= 0) => SumOn(f, T) >= 0
             B == {T \in SUBSET S : ~Good(T)}
  <1> SUFFICES ASSUME B # {} PROVE FALSE
    OBVIOUS
  <1>1. PICK T \in B : \A U \in B : U \subseteq T => U = T
    <2> HIDE DEF B
    <2>1. B \in SUBSET (SUBSET S)
      BY DEF B
    <2>2. QED
      BY <2>1, MinimalSet
  <1> DEFINE R == T \ {First(T)}
  <1>2. SumOn(f, T) = IF T = {} THEN 0 ELSE f[First(T)] + SumOn(f, R)
    BY FS_Subset, SumFirst
  <1>3. T # {}
    BY <1>2
  <1>4. First(T) \in T /\ Good(R)
    BY <1>1, <1>3, FirstIsIn
  <1>5. QED
    BY <1>1, <1>2, <1>3, <1>4

LEMMA SumEmpty ==
    ASSUME NEW f
    PROVE  SumOn(f, {}) = 0
  BY FS_EmptySet, SumFirst

LEMMA SumTakeOut ==
    ASSUME NEW S, IsFiniteSet(S), NEW f, \A x \in S : f[x] \in Int, NEW e \in S
    PROVE  SumOn(f, S) = f[e] + SumOn(f, S \ {e})
  <1> DEFINE Good(T) == \A x \in T : SumOn(f, T) = f[x] + SumOn(f, T \ {x})
             B == {T \in SUBSET S : ~Good(T)}
  <1> SUFFICES ASSUME B # {} PROVE FALSE
    OBVIOUS
  <1>1. PICK T \in B : \A U \in B : U \subseteq T => U = T
    <2> HIDE DEF B
    <2>1. B \in SUBSET (SUBSET S)
      BY DEF B
    <2>2. QED
      BY <2>1, MinimalSet
  <1>2. PICK x \in T : SumOn(f, T) # f[x] + SumOn(f, T \ {x})
    OBVIOUS
  <1> DEFINE y == First(T)
             Rest == T \ {x, y}
  <1>3. y \in T /\ IsFiniteSet(T) /\ T \in SUBSET S
    BY FirstIsIn, FS_Subset
  <1>4. SumOn(f, T) = f[y] + SumOn(f, T \ {y})
    BY <1>3, SumFirst
  <1>5. x # y
    BY <1>2, <1>4
  <1> HIDE DEF y
  <1>6. Good(T \ {x}) /\ Good(T \ {y})
    BY <1>1, <1>2, <1>3
  <1>7. SumOn(f, T \ {y}) = f[x] + SumOn(f, Rest)
    <2>1. (T \ {y}) \ {x} = Rest
      OBVIOUS
    <2>2. QED
      BY <1>2, <1>5, <1>6, <2>1
  <1>8. SumOn(f, T \ {x}) = f[y] + SumOn(f, Rest)
    <2>1. (T \ {x}) \ {y} = Rest
      OBVIOUS
    <2>2. QED
      BY <1>3, <1>5, <1>6, <2>1
  <1>9. SumOn(f, Rest) \in Int /\ f[x] \in Int /\ f[y] \in Int
    <2>1. Rest \in SUBSET S
      BY <1>3
    <2>2. IsFiniteSet(Rest)
      BY <2>1, FS_Subset
    <2>3. QED
      BY <1>2, <1>3, <2>1, <2>2, SumType
  <1>10. QED
    BY <1>2, <1>4, <1>7, <1>8, <1>9
-----------------------------------------------------------------------------
LEMMA SumAdd ==
    ASSUME NEW S, IsFiniteSet(S), NEW f, NEW g, NEW h,
           \A x \in S : f[x] \in Int /\ g[x] \in Int /\ h[x] = f[x] + g[x]
    PROVE  SumOn(h, S) = SumOn(f, S) + SumOn(g, S)
  <1> DEFINE Good(T) == SumOn(h, T) = SumOn(f, T) + SumOn(g, T)
             B == {T \in SUBSET S : ~Good(T)}
  <1> SUFFICES ASSUME B # {} PROVE FALSE
    OBVIOUS
  <1>1. PICK T \in B : \A U \in B : U \subseteq T => U = T
    <2> HIDE DEF B
    <2>1. B \in SUBSET (SUBSET S)
      BY DEF B
    <2>2. QED
      BY <2>1, MinimalSet
  <1> DEFINE y == First(T)
             R == T \ {y}
  <1>2. T # {}
    <2>1. SumOn(f, {}) = 0 /\ SumOn(g, {}) = 0 /\ SumOn(h, {}) = 0
      BY SumEmpty
    <2>2. Good({})
      BY <2>1
    <2>3. QED
      BY <2>2
  <1>3. y \in T /\ IsFiniteSet(T) /\ T \in SUBSET S /\ R \in SUBSET S /\ IsFiniteSet(R)
    BY <1>2, FirstIsIn, FS_Subset
  <1>4. /\ SumOn(f, T) = f[y] + SumOn(f, R)
        /\ SumOn(g, T) = g[y] + SumOn(g, R)
        /\ SumOn(h, T) = h[y] + SumOn(h, R)
    BY <1>2, <1>3, SumFirst
  <1> HIDE DEF y
  <1>5. Good(R)
    BY <1>1, <1>3
  <1>6. SumOn(f, R) \in Int /\ SumOn(g, R) \in Int
    BY <1>3, SumType
  <1>7. h[y] = f[y] + g[y] /\ f[y] \in Int /\ g[y] \in Int
    BY <1>3
  <1>8. QED
    BY <1>4, <1>5, <1>6, <1>7

LEMMA SumDouble ==
    ASSUME NEW S, IsFiniteSet(S), NEW f, \A x \in S : f[x] \in Int /\ f[x] = f[x] + f[x]
    PROVE  SumOn(f, S) = SumOn(f, S) + SumOn(f, S)
  BY SumAdd

LEMMA SumZero ==
    ASSUME NEW S, IsFiniteSet(S), NEW f, \A x \in S : f[x] = 0
    PROVE  SumOn(f, S) = 0
  <1>1. \A x \in S : f[x] \in Int /\ f[x] = f[x] + f[x]
    OBVIOUS
  <1>2. SumOn(f, S) = SumOn(f, S) + SumOn(f, S)
    BY <1>1, SumDouble
  <1>3. SumOn(f, S) \in Int
    BY <1>1, SumType
  <1>4. QED
    BY <1>2, <1>3, SMTT(30)

LEMMA SumMono ==
    ASSUME NEW S, IsFiniteSet(S), NEW f, NEW g,
           \A x \in S : f[x] \in Int /\ g[x] \in Int /\ f[x] <= g[x]
    PROVE  SumOn(f, S) <= SumOn(g, S)
  <1> DEFINE d == [x \in S |-> g[x] - f[x]]
  <1>1. \A x \in S : d[x] \in Int /\ d[x] >= 0 /\ g[x] = f[x] + d[x]
    OBVIOUS
  <1> HIDE DEF d
  <1>2. SumOn(g, S) = SumOn(f, S) + SumOn(d, S)
    BY <1>1, SumAdd
  <1>3. SumOn(f, S) \in Int /\ SumOn(d, S) \in Int /\ SumOn(d, S) >= 0
    BY <1>1, SumType
  <1>4. QED
    BY <1>2, <1>3

LEMMA SumAgree ==
    ASSUME NEW S, IsFiniteSet(S), NEW f, NEW g, \A x \in S : f[x] \in Int /\ f[x] = g[x]
    PROVE  SumOn(f, S) = SumOn(g, S)
  <1>1. SumOn(f, S) <= SumOn(g, S) /\ SumOn(g, S) <= SumOn(f, S)
    BY SumMono
  <1>2. SumOn(f, S) \in Int /\ SumOn(g, S) \in Int
    BY SumType
  <1>3. QED
    BY <1>1, <1>2

\* One term changes.
LEMMA SumUpdate ==
    ASSUME NEW S, IsFiniteSet(S), NEW f, NEW g, NEW e \in S,
           \A x \in S : f[x] \in Int /\ g[x] \in Int,
           \A x \in S \ {e} : g[x] = f[x]
    PROVE  SumOn(g, S) = SumOn(f, S) + (g[e] - f[e])
  <1>1. SumOn(f, S) = f[e] + SumOn(f, S \ {e}) /\ SumOn(g, S) = g[e] + SumOn(g, S \ {e})
    BY SumTakeOut
  <1>2. IsFiniteSet(S \ {e})
    BY FS_Subset
  <1>3. SumOn(f, S \ {e}) = SumOn(g, S \ {e}) /\ SumOn(f, S \ {e}) \in Int
    BY <1>2, SumAgree, SumType
  <1>4. f[e] \in Int /\ g[e] \in Int
    OBVIOUS
  <1>5. QED
    BY <1>1, <1>3, <1>4

\* There is one term that may be other than 0.
\* One term is added.
LEMMA SumGrows ==
    ASSUME NEW S, IsFiniteSet(S), NEW f, NEW g, NEW e, e \notin S, g[e] \in Int,
           \A x \in S : f[x] \in Int /\ g[x] = f[x]
    PROVE  /\ SumOn(g, S) = SumOn(f, S)
           /\ SumOn(g, S \cup {e}) = SumOn(f, S) + g[e]
  <1> DEFINE T == S \cup {e}
  <1>1. SumOn(g, S) = SumOn(f, S)
    <2>1. \A x \in S : f[x] \in Int /\ f[x] = g[x]
      OBVIOUS
    <2>2. QED
      BY <2>1, SumAgree
  <1>2. IsFiniteSet(T) /\ e \in T /\ T \ {e} = S
    BY FS_AddElement
  <1>3. \A x \in T : g[x] \in Int
    OBVIOUS
  <1>4. SumOn(g, S) \in Int
    BY SumType
  <1> HIDE DEF T
  <1>5. SumOn(g, T) = g[e] + SumOn(g, T \ {e})
    BY <1>2, <1>3, SumTakeOut
  <1>6. SumOn(g, T \ {e}) = SumOn(g, S)
    BY <1>2, Zenon
  <1>7. SumOn(g, T) = SumOn(g, S) + g[e]
    BY <1>4, <1>5, <1>6
  <1>8. QED
    BY <1>1, <1>7 DEF T

LEMMA SumSingle ==
    ASSUME NEW S, IsFiniteSet(S), NEW f, NEW e \in S, f[e] \in Int,
           \A x \in S \ {e} : f[x] = 0
    PROVE  SumOn(f, S) = f[e]
  <1>1. SumOn(f, S) = f[e] + SumOn(f, S \ {e})
    BY SumTakeOut
  <1>2. SumOn(f, S \ {e}) = 0
    <2>1. IsFiniteSet(S \ {e})
      BY FS_Subset
    <2>2. QED
      BY <2>1, SumZero
  <1>3. QED
    BY <1>1, <1>2
\* The same for sums over the domain of a function into the natural numbers.
LEMMA NatSum ==
    ASSUME NEW S, IsFiniteSet(S), NEW f \in [S -> Nat]
    PROVE  SumOver(f) = SumOn(f, S) /\ SumOver(f) \in Nat
  <1>1. SumOver(f) = SumOn(f, S)
    BY DEF SumOver
  <1>2. \A x \in S : f[x] \in Int /\ f[x] >= 0
    OBVIOUS
  <1>3. SumOn(f, S) \in Int /\ SumOn(f, S) >= 0
    BY <1>2, SumType
  <1>4. QED
    BY <1>1, <1>3

LEMMA NatSumUpdate ==
    ASSUME NEW S, IsFiniteSet(S), NEW f \in [S -> Nat], NEW g \in [S -> Nat], NEW e \in S,
           \A x \in S \ {e} : g[x] = f[x]
    PROVE  SumOver(g) = SumOver(f) + (g[e] - f[e])
  <1>1. \A x \in S : f[x] \in Int /\ g[x] \in Int
    OBVIOUS
  <1>2. QED
    BY <1>1, NatSum, SumUpdate

\* What a function makes of a finite set.
LEMMA FiniteImage ==
    ASSUME NEW S, IsFiniteSet(S), NEW g
    PROVE  /\ IsFiniteSet({g[x] : x \in S})
           /\ Cardinality({g[x] : x \in S}) <= Cardinality(S)
           /\ (\A x, y \in S : g[x] = g[y] => x = y)
                => Cardinality({g[x] : x \in S}) = Cardinality(S)
  <1> DEFINE T == {g[x] : x \in S}
             h == [x \in S |-> g[x]]
  <1>1. h \in Surjection(S, T)
    BY DEF Surjection
  <1>2. (\A x, y \in S : g[x] = g[y] => x = y) => h \in Injection(S, T)
    BY <1>1 DEF Injection, IsInjective
  <1> HIDE DEF T, h
  <1>3. /\ IsFiniteSet(T)
        /\ Cardinality(T) <= Cardinality(S)
        /\ h \in Injection(S, T) => Cardinality(T) = Cardinality(S)
    BY <1>1, FS_Surjection
  <1>4. QED
    BY <1>2, <1>3 DEF T

\* A sum over a set is the one over a part of it and the one over the rest.
LEMMA SumSplit ==
    ASSUME NEW S, IsFiniteSet(S), NEW f, \A x \in S : f[x] \in Int, NEW T \in SUBSET S
    PROVE  SumOn(f, S) = SumOn(f, T) + SumOn(f, S \ T)
  <1> DEFINE B == {U \in SUBSET S : SumOn(f, S) # SumOn(f, U) + SumOn(f, S \ U)}
  <1>1. ASSUME B # {} PROVE FALSE
    <2>1. PICK U \in B : \A V \in B : V \subseteq U => V = U
      <3>1. B \in SUBSET (SUBSET S)
        OBVIOUS
      <3> HIDE DEF B
      <3>2. QED
        BY <1>1, <3>1, MinimalSet
    <2>2. U \in SUBSET S /\ IsFiniteSet(U) /\ IsFiniteSet(S \ U)
      BY FS_Subset
    <2>3. U # {}
      <3>1. SumOn(f, {}) = 0 /\ SumOn(f, S) \in Int
        BY SumEmpty, SumType
      <3>2. S \ {} = S
        OBVIOUS
      <3>3. SumOn(f, S) = SumOn(f, {}) + SumOn(f, S \ {})
        BY <3>1, <3>2
      <3>4. QED
        BY <3>3
    <2>4. PICK e \in U : TRUE
      BY <2>3
    <2> DEFINE R == U \ {e}
    <2>5. R \in SUBSET S /\ R # U /\ R \subseteq U /\ (S \ R) \ {e} = S \ U /\ e \in S \ R
      BY <2>2
    <2>6. SumOn(f, S) = SumOn(f, R) + SumOn(f, S \ R)
      BY <2>1, <2>5
    <2> HIDE DEF R
    <2>7. SumOn(f, U) = f[e] + SumOn(f, R)
      BY <2>2, SumTakeOut DEF R
    <2>8. SumOn(f, S \ R) = f[e] + SumOn(f, S \ U)
      <3>1. IsFiniteSet(S \ R)
        BY FS_Subset
      <3>2. SumOn(f, S \ R) = f[e] + SumOn(f, (S \ R) \ {e})
        BY <2>5, <3>1, SumTakeOut
      <3>3. QED
        BY <2>5, <3>2
    <2>9. f[e] \in Int /\ SumOn(f, R) \in Int /\ SumOn(f, S \ U) \in Int
      <3>1. IsFiniteSet(R)
        BY <2>5, FS_Subset
      <3>2. QED
        BY <2>2, <2>5, <3>1, SumType
    <2>10. SumOn(f, S) = SumOn(f, U) + SumOn(f, S \ U)
      BY <2>6, <2>7, <2>8, <2>9
    <2>11. QED
      BY <2>10
  <1>2. QED
    BY <1>1

LEMMA SumSubset ==
    ASSUME NEW S, IsFiniteSet(S), NEW f, \A x \in S : f[x] \in Nat, NEW T \in SUBSET S
    PROVE  /\ SumOn(f, T) <= SumOn(f, S)
           /\ (\A x \in S \ T : f[x] = 0) => SumOn(f, T) = SumOn(f, S)
  <1>1. IsFiniteSet(T) /\ IsFiniteSet(S \ T)
    BY FS_Subset
  <1>2. SumOn(f, S) = SumOn(f, T) + SumOn(f, S \ T)
    BY SumSplit
  <1>3. SumOn(f, T) \in Int /\ SumOn(f, S \ T) \in Int /\ SumOn(f, S \ T) >= 0
    BY <1>1, SumType
  <1>4. (\A x \in S \ T : f[x] = 0) => SumOn(f, S \ T) = 0
    BY <1>1, SumZero
  <1>5. QED
    BY <1>2, <1>3, <1>4

\* The terms of a sum may be renamed, one to one.
LEMMA SumRenamed ==
    ASSUME NEW S, IsFiniteSet(S), NEW T, NEW g \in Bijection(S, T), NEW h, NEW f,
           \A x \in S : h[x] \in Int /\ h[x] = f[g[x]]
    PROVE  SumOn(h, S) = SumOn(f, T)
  <1>a. /\ \A x \in S : g[x] \in T
        /\ \A x, y \in S : g[x] = g[y] => x = y
        /\ \A y \in T : \E x \in S : y = g[x]
    BY DEF Bijection, Injection, IsInjective, Surjection
  <1> DEFINE im(U) == {g[x] : x \in U}
             B == {U \in SUBSET S : SumOn(h, U) # SumOn(f, im(U))}
  <1>1. ASSUME B # {} PROVE FALSE
    <2>1. PICK U \in B : \A V \in B : V \subseteq U => V = U
      <3>1. B \in SUBSET (SUBSET S)
        OBVIOUS
      <3> HIDE DEF B
      <3>2. QED
        BY <1>1, <3>1, MinimalSet
    <2>2. U \in SUBSET S /\ IsFiniteSet(U) /\ SumOn(h, U) # SumOn(f, im(U))
      BY FS_Subset
    <2>3. IsFiniteSet(im(U))
      BY <2>2, FiniteImage
    <2>4. U # {}
      <3>1. SumOn(f, {}) = 0 /\ SumOn(h, {}) = 0
        BY SumEmpty
      <3>2. im({}) = {}
        OBVIOUS
      <3>3. SumOn(h, {}) = SumOn(f, im({}))
        BY <3>1, <3>2
      <3>4. QED
        BY <2>2, <3>3
    <2>5. PICK e \in U : TRUE
      BY <2>4
    <2> DEFINE R == U \ {e}
    <2>6. R \in SUBSET S /\ R # U /\ R \subseteq U
      BY <2>2
    <2>7. SumOn(h, R) = SumOn(f, im(R))
      BY <2>1, <2>6
    <2>8. im(R) = im(U) \ {g[e]} /\ g[e] \in im(U)
      BY <2>2, <1>a
    <2>9. \A y \in im(U) : f[y] \in Int
      BY <2>2
    <2> HIDE DEF R, im
    <2>10. SumOn(h, U) = h[e] + SumOn(h, R)
      BY <2>2, SumTakeOut DEF R
    <2>11. SumOn(f, im(U)) = f[g[e]] + SumOn(f, im(R))
      BY <2>3, <2>8, <2>9, SumTakeOut
    <2>12. h[e] = f[g[e]]
      BY <2>2
    <2>13. QED
      BY <2>2, <2>7, <2>10, <2>11, <2>12
  <1>2. SumOn(h, S) = SumOn(f, im(S))
    BY <1>1
  <1>3. im(S) = T
    BY <1>a
  <1>4. QED
    BY <1>2, <1>3

\* The elements that g maps to y.
Fibre(g, S, y) == {x \in S : g[x] = y}

\* A sum may be grouped by what g says of its terms.
LEMMA SumFibres ==
    ASSUME NEW S, IsFiniteSet(S), NEW f, \A x \in S : f[x] \in Int,
           NEW T, IsFiniteSet(T), NEW g \in [S -> T],
           NEW F, \A y \in T : F[y] = SumOn(f, Fibre(g, S, y))
    PROVE  SumOn(F, T) = SumOn(f, S)
  <1> DEFINE pre(U) == {x \in S : g[x] \in U}
             at(y)  == Fibre(g, S, y)
             B == {U \in SUBSET T : SumOn(F, U) # SumOn(f, pre(U))}
  <1>0. \A y \in T : F[y] \in Int
    <2> SUFFICES ASSUME NEW y \in T PROVE F[y] \in Int
      OBVIOUS
    <2>1. IsFiniteSet(at(y)) /\ at(y) \subseteq S
      BY FS_Subset DEF Fibre
    <2>2. F[y] = SumOn(f, at(y))
      OBVIOUS
    <2> HIDE DEF at
    <2>3. SumOn(f, at(y)) \in Int
      BY <2>1, SumType
    <2>4. QED
      BY <2>2, <2>3
  <1>1. ASSUME B # {} PROVE FALSE
    <2>1. PICK U \in B : \A V \in B : V \subseteq U => V = U
      <3>1. B \in SUBSET (SUBSET T)
        OBVIOUS
      <3> HIDE DEF B
      <3>2. QED
        BY <1>1, <3>1, MinimalSet
    <2>2. U \in SUBSET T /\ IsFiniteSet(U) /\ SumOn(F, U) # SumOn(f, pre(U))
      BY FS_Subset
    <2>4. U # {}
      <3>1. SumOn(F, {}) = 0 /\ SumOn(f, {}) = 0
        BY SumEmpty
      <3>2. pre({}) = {}
        OBVIOUS
      <3>3. SumOn(F, {}) = SumOn(f, pre({}))
        BY <3>1, <3>2
      <3>4. QED
        BY <2>2, <3>3
    <2>5. PICK e \in U : TRUE
      BY <2>4
    <2> DEFINE R == U \ {e}
    <2>6. R \in SUBSET T /\ R # U /\ R \subseteq U /\ e \in T
      BY <2>2
    <2>7. SumOn(F, R) = SumOn(f, pre(R))
      BY <2>1, <2>6
    <2>8. at(e) \subseteq pre(U) /\ pre(U) \ at(e) = pre(R) /\ pre(U) \subseteq S
      BY <2>2 DEF Fibre
    <2>9. F[e] = SumOn(f, at(e))
      BY <2>6
    <2> HIDE DEF R, pre, at
    <2>10. SumOn(F, U) = F[e] + SumOn(F, R)
      <3>1. \A y \in U : F[y] \in Int
        BY <1>0, <2>2
      <3>2. QED
        BY <2>2, <3>1, SumTakeOut DEF R
    <2>11. SumOn(f, pre(U)) = SumOn(f, at(e)) + SumOn(f, pre(R))
      <3>1. IsFiniteSet(pre(U)) /\ (\A x \in pre(U) : f[x] \in Int) /\ at(e) \in SUBSET pre(U)
        BY <2>8, FS_Subset
      <3>2. SumOn(f, pre(U)) = SumOn(f, at(e)) + SumOn(f, pre(U) \ at(e))
        BY <3>1, SumSplit
      <3>3. QED
        BY <2>8, <3>2
    <2>12. QED
      BY <2>2, <2>7, <2>9, <2>10, <2>11
  <1>2. SumOn(F, T) = SumOn(f, pre(T))
    BY <1>1
  <1>3. pre(T) = S
    OBVIOUS
  <1>4. QED
    BY <1>2, <1>3

LEMMA MinOfTwo ==
    ASSUME NEW a \in Int, NEW b \in Int
    PROVE  Min({a, b}) = IF a <= b THEN a ELSE b
  <1> DEFINE m == IF a <= b THEN a ELSE b
  <1>1. m \in {a, b} /\ \A y \in {a, b} : m <= y
    OBVIOUS
  <1>2. \A n \in {a, b} : (\A y \in {a, b} : n <= y) => n = m
    OBVIOUS
  <1> HIDE DEF m
  <1>3. Min({a, b}) = m
    BY <1>1, <1>2 DEF Min
  <1>4. QED
    BY <1>3 DEF m

LEMMA MaxOfTwo ==
    ASSUME NEW a \in Int, NEW b \in Int
    PROVE  Max({a, b}) = IF a >= b THEN a ELSE b
  <1> DEFINE m == IF a >= b THEN a ELSE b
  <1>1. m \in {a, b} /\ \A y \in {a, b} : m >= y
    OBVIOUS
  <1>2. \A n \in {a, b} : (\A y \in {a, b} : n >= y) => n = m
    OBVIOUS
  <1> HIDE DEF m
  <1>3. Max({a, b}) = m
    BY <1>1, <1>2 DEF Max
  <1>4. QED
    BY <1>3 DEF m

-----------------------------------------------------------------------------
LEMMA TimesGrows ==
    ASSUME NEW a \in Int, NEW b \in Int, NEW n \in Nat \ {0}, a < b
    PROVE  (a + 1) * n <= b * n /\ a * n < b * n
  <1>1. (b - a - 1) * n >= 0
    OBVIOUS
  <1>2. QED
    BY <1>1

\* Division rounds down, also below zero.
LEMMA Division ==
    ASSUME NEW x \in Int, NEW n \in Nat \ {0}
    PROVE  /\ x \div n \in Int
           /\ (x \div n) * n <= x
           /\ x < (x \div n + 1) * n
  OBVIOUS

LEMMA Remainder ==
    ASSUME NEW x \in Int, NEW n \in Nat \ {0}
    PROVE  /\ x % n \in 0..(n - 1)
           /\ x - (x % n) = (x \div n) * n
  <1>1. x % n \in Int /\ 0 <= x % n /\ x % n < n
    OBVIOUS
  <1>2. x % n \in 0..(n - 1)
    BY <1>1
  <1>3. x - (x % n) = (x \div n) * n
    OBVIOUS
  <1>4. QED
    BY <1>2, <1>3

LEMMA Quotient ==
    ASSUME NEW x \in Int, NEW n \in Nat \ {0}, NEW q \in Int
    PROVE  x \div n = q <=> q * n <= x /\ x < (q + 1) * n
  <1> DEFINE p == x \div n
  <1>1. p \in Int /\ p * n <= x /\ x < (p + 1) * n
    BY Division
  <1> HIDE DEF p
  <1>2. CASE p < q
    BY <1>1, <1>2, TimesGrows
  <1>3. CASE q < p
    BY <1>1, <1>3, TimesGrows
  <1>4. QED
    BY <1>1, <1>2, <1>3 DEF p

LEMMA DivisionOrder ==
    ASSUME NEW x \in Int, NEW y \in Int, NEW n \in Nat \ {0}, x <= y
    PROVE  x \div n <= y \div n
  <1> DEFINE p == x \div n
             q == y \div n
  <1>1. p \in Int /\ q \in Int /\ p * n <= x /\ y < (q + 1) * n
    BY Division
  <1> HIDE DEF p, q
  <1>2. CASE q < p
    BY <1>1, <1>2, TimesGrows
  <1>3. QED
    BY <1>1, <1>2 DEF p, q

LEMMA QuotientBelow ==
    ASSUME NEW x \in Int, NEW n \in Int, NEW D \in Nat \ {0}, x < n * D
    PROVE  x \div D < n
  <1>1. x \div D \in Int /\ (x \div D) * D <= x
    BY Division
  <1> DEFINE q == x \div D
  <1>2. q \in Int /\ q * D <= x
    BY <1>1
  <1> HIDE DEF q
  <1>3. n < q => n * D < q * D
    BY <1>2, TimesGrows
  <1>4. n = q => n * D = q * D
    OBVIOUS
  <1>5. n * D \in Int /\ q * D \in Int
    BY <1>2
  <1>6. q < n
    BY <1>2, <1>3, <1>4, <1>5
  <1>7. QED
    BY <1>6 DEF q

-----------------------------------------------------------------------------
(***************************************************************************)
(* A finite set can be ranked: a smallest one that cannot be has an        *)
(* element that nothing is below, and the others can be ranked before it.  *)
(***************************************************************************)
Ranks(s, f, S) ==
    /\ s \in [1..Cardinality(S) -> S]
    /\ \A i, j \in 1..Cardinality(S) : i < j => s[i] # s[j] /\ f[s[i]] >= f[s[j]]

LEMMA LowestExists ==
    ASSUME NEW S, IsFiniteSet(S), S # {}, NEW f, \A x \in S : f[x] \in Int
    PROVE  \E m \in S : \A x \in S : f[x] >= f[m]
  <1> DEFINE Below(m) == {x \in S : f[x] <= f[m]}
             B == {Below(m) : m \in S}
  <1>1. PICK T \in B : \A U \in B : U \subseteq T => U = T
    <2>1. B \in SUBSET (SUBSET S) /\ B # {}
      OBVIOUS
    <2> HIDE DEF B
    <2>2. QED
      BY <2>1, MinimalSet
  <1>2. PICK m \in S : T = Below(m)
    BY <1>1
  <1>3. ASSUME NEW x \in S
        PROVE  f[x] >= f[m]
    <2> SUFFICES ASSUME f[x] < f[m]
                 PROVE  FALSE
      OBVIOUS
    <2>1. \A y \in S : f[y] <= f[x] => f[y] <= f[m]
      OBVIOUS
    <2>2. Below(x) \subseteq T /\ Below(x) \in B
      BY <1>2, <2>1
    <2>3. Below(x) = Below(m)
      BY <1>1, <1>2, <2>2
    <2>4. m \in Below(m)
      OBVIOUS
    <2>5. QED
      BY <2>3, <2>4
  <1>4. QED
    BY <1>3

LEMMA RanksExtend ==
    ASSUME NEW S, IsFiniteSet(S), NEW f, NEW m \in S, \A x \in S : f[x] \in Int /\ f[x] >= f[m],
           NEW s, Ranks(s, f, S \ {m})
    PROVE  \E t : Ranks(t, f, S)
  <1> DEFINE n == Cardinality(S)
             t == [i \in 1..n |-> IF i = n THEN m ELSE s[i]]
  <1>1. n \in Nat /\ n > 0 /\ Cardinality(S \ {m}) = n - 1
    <2>1. n \in Nat /\ Cardinality(S \ {m}) = n - 1
      BY FS_CardinalityType, FS_RemoveElement
    <2>2. n # 0
      BY FS_EmptySet
    <2>3. QED
      BY <2>1, <2>2
  <1>2. /\ s \in [1..(n - 1) -> S \ {m}]
        /\ \A i, j \in 1..(n - 1) : i < j => s[i] # s[j] /\ f[s[i]] >= f[s[j]]
    BY <1>1 DEF Ranks
  <1> HIDE DEF n
  <1>3. \A i \in 1..n : i # n => i \in 1..(n - 1) /\ s[i] \in S /\ s[i] # m
    <2>1. \A i \in 1..n : i # n => i \in 1..(n - 1)
      BY <1>1
    <2>2. QED
      BY <1>2, <2>1
  <1>4. /\ t \in [1..n -> S]
        /\ \A i \in 1..n : i # n => t[i] = s[i]
        /\ t[n] = m
    <2>1. n \in 1..n
      BY <1>1
    <2>2. QED
      BY <1>3, <2>1
  <1> HIDE DEF t
  <1>5. ASSUME NEW i \in 1..n, NEW j \in 1..n, i < j
        PROVE  t[i] # t[j] /\ f[t[i]] >= f[t[j]]
    <2>1. i # n
      BY <1>1, <1>5
    <2>2. CASE j = n
      BY <1>3, <1>4, <2>1, <2>2
    <2>3. CASE j # n
      BY <1>2, <1>3, <1>4, <1>5, <2>1, <2>3
    <2>4. QED
      BY <2>2, <2>3
  <1>6. QED
    BY <1>4, <1>5 DEF Ranks, n

LEMMA RanksExist ==
    ASSUME NEW S, IsFiniteSet(S), NEW f, \A x \in S : f[x] \in Int
    PROVE  \E s : Ranks(s, f, S)
  <1> DEFINE B == {T \in SUBSET S : ~ \E s : Ranks(s, f, T)}
  <1> SUFFICES ASSUME B # {} PROVE FALSE
    OBVIOUS
  <1>1. PICK T \in B : \A U \in B : U \subseteq T => U = T
    <2> HIDE DEF B
    <2>1. B \in SUBSET (SUBSET S)
      BY DEF B
    <2>2. QED
      BY <2>1, MinimalSet
  <1>2. IsFiniteSet(T) /\ T \subseteq S
    BY FS_Subset
  <1>3. T # {}
    <2> SUFFICES ASSUME T = {} PROVE FALSE
      OBVIOUS
    <2> DEFINE s == [i \in 1..0 |-> i]
    <2>1. Cardinality(T) = 0
      BY FS_EmptySet
    <2>2. s \in [1..0 -> T]
      OBVIOUS
    <2>3. Ranks(s, f, T)
      BY <2>1, <2>2 DEF Ranks
    <2>4. QED
      BY <1>1, <2>3
  <1>4. PICK m \in T : \A x \in T : f[x] >= f[m]
    BY <1>2, <1>3, LowestExists
  <1>5. T \ {m} \notin B
    BY <1>1, <1>4
  <1>6. PICK s : Ranks(s, f, T \ {m})
    BY <1>2, <1>5
  <1>7. \E t : Ranks(t, f, T)
    BY <1>2, <1>4, <1>6, RanksExtend
  <1>8. QED
    BY <1>1, <1>7

\* A ranking names everything once, in order.
LEMMA RankingIs ==
    ASSUME NEW S, IsFiniteSet(S), NEW f \in [S -> Int]
    PROVE  /\ Cardinality(S) \in Nat
           /\ Ranking(f) \in [1..Cardinality(S) -> S]
           /\ \A i, j \in 1..Cardinality(S) : Ranking(f)[i] = Ranking(f)[j] => i = j
           /\ \A i, j \in 1..Cardinality(S) : i < j => f[Ranking(f)[i]] >= f[Ranking(f)[j]]
           /\ \A x \in S : \E i \in 1..Cardinality(S) : Ranking(f)[i] = x
  <1> DEFINE n == Cardinality(S)
             s == Ranking(f)
  <1>1. n \in Nat
    BY FS_CardinalityType
  <1>2. PICK t : Ranks(t, f, S)
    BY RanksExist
  <1>3. Ranks(s, f, S)
    <2>1. DOMAIN f = S
      OBVIOUS
    <2>2. \E r \in [1..n -> S] : \A i, j \in 1..n : i < j => r[i] # r[j] /\ f[r[i]] >= f[r[j]]
      BY <1>2 DEF Ranks
    <2>3. /\ s \in [1..n -> S]
          /\ \A i, j \in 1..n : i < j => s[i] # s[j] /\ f[s[i]] >= f[s[j]]
      <3>1. s = CHOOSE r \in [1..n -> S] :
                    \A i, j \in 1..n : i < j => r[i] # r[j] /\ f[r[i]] >= f[r[j]]
        BY <2>1, Zenon DEF Ranking
      <3> HIDE DEF s, n
      <3>2. QED
        BY <2>2, <3>1, Zenon
    <2>4. QED
      BY <2>3 DEF Ranks
  <1> HIDE DEF s
  <1>4. \A i, j \in 1..n : s[i] = s[j] => i = j
    <2> SUFFICES ASSUME NEW i \in 1..n, NEW j \in 1..n, s[i] = s[j], i # j
                 PROVE  FALSE
      OBVIOUS
    <2>1. i < j \/ j < i
      BY <1>1
    <2>2. QED
      BY <1>3, <2>1 DEF Ranks
  <1>5. \A x \in S : \E i \in 1..n : s[i] = x
    <2>1. s \in Injection(1..n, S)
      BY <1>3, <1>4 DEF Ranks, Injection, IsInjective
    <2>2. Cardinality(1..n) = n
      BY <1>1, FS_Interval
    <2>3. s \in Surjection(1..n, S)
      BY <2>1, <2>2, FS_Injection
    <2>4. QED
      BY <2>3 DEF Surjection
  <1>6. QED
    BY <1>1, <1>3, <1>4, <1>5 DEF Ranks, s

\* The head of a ranking; all of it, if the limit allows.
LEMMA RankingHead ==
    ASSUME NEW S, IsFiniteSet(S), NEW f \in [S -> Int], NEW k \in Nat
    PROVE  \E m \in 0..Cardinality(S) :
               /\ Len(Ranking(f)) = Cardinality(S)
               /\ SubSeq(Ranking(f), 1, Min({k, Len(Ranking(f))})) = [i \in 1..m |-> Ranking(f)[i]]
               /\ m = k \/ m = Cardinality(S)
               /\ Cardinality(S) <= k => m = Cardinality(S)
  <1> DEFINE n == Cardinality(S)
             s == Ranking(f)
             m == IF k <= n THEN k ELSE n
  <1>1. n \in Nat /\ s \in [1..n -> S]
    BY RankingIs
  <1> HIDE DEF n, s
  <1>2. s \in Seq(S) /\ Len(s) = n
    BY <1>1
  <1>3. Min({k, n}) = m
    BY <1>1, MinOfTwo
  <1>4. m \in 0..n /\ (m = k \/ m = n) /\ (n <= k => m = n)
    BY <1>1
  <1> HIDE DEF m
  <1>5. SubSeq(s, 1, m) = [i \in 1..m |-> s[i]]
    BY <1>1, <1>2, <1>4
  <1>6. QED
    BY <1>2, <1>3, <1>4, <1>5, Zenon DEF n, s

-----------------------------------------------------------------------------
(***************************************************************************)
(* Facts about the days, counts and colours the pages compute, for every   *)
(* length of a day, offset of a clock and size of a number.                *)
(***************************************************************************)
\* The window that a page asks for is exactly the instants that its own clock and
\* the device's put on that day, so a minute is on one day's page and on no other
\* (utils.ts:96-101, 10-15).
THEOREM WindowIsTheDay ==
    ASSUME NEW t \in Int, NEW d \in Int, NEW offset \in Int
    PROVE  toLocalISODate(t, offset) = d
           <=> localDayBounds(d, offset).since <= t /\ t < localDayBounds(d, offset).until
  <1>1. /\ localDayBounds(d, offset).since = d * HoursPerDay - offset
        /\ localDayBounds(d, offset).until = (d + 1) * HoursPerDay - offset
    BY DEF localDayBounds
  <1>2. (t + offset) \div HoursPerDay = d
        <=> d * HoursPerDay <= t + offset /\ t + offset < (d + 1) * HoursPerDay
    BY Quotient, CalendarAssumption
  <1>3. d * HoursPerDay \in Int /\ (d + 1) * HoursPerDay \in Int
    BY CalendarAssumption
  <1>4. QED
    BY <1>1, <1>2, <1>3 DEF toLocalISODate

\* A filled window has one entry for each of its days, in order, the last one
\* today's, and the entry is what the backend sent of that day (utils.ts:64-84).
THEOREM WindowIsComplete ==
    ASSUME NEW sparse, NEW day \in Int, NEW count \in Nat,
           \A d \in DOMAIN sparse : sparse[d].date = d
    PROVE  \A i \in 1..count :
              LET entry == fillDays(sparse, day, count)[i]
                  d     == day - (count - i)
              IN  /\ entry.date = d
                  /\ d \in DOMAIN sparse => entry = sparse[d]
                  /\ d \notin DOMAIN sparse => Quiet(entry)
  <1> SUFFICES ASSUME NEW i \in 1..count
               PROVE  LET entry == fillDays(sparse, day, count)[i]
                          d     == day - (count - i)
                      IN  /\ entry.date = d
                          /\ d \in DOMAIN sparse => entry = sparse[d]
                          /\ d \notin DOMAIN sparse => Quiet(entry)
    OBVIOUS
  <1> DEFINE d == day - (count - i)
  <1>1. shiftLocalDate(day, i - count) = d
    BY DEF shiftLocalDate
  <1>2. fillDays(sparse, day, count)[i] = IF d \in DOMAIN sparse THEN sparse[d] ELSE NoActivity(d)
    BY <1>1 DEF fillDays
  <1> HIDE DEF d
  <1>3. CASE d \in DOMAIN sparse
    BY <1>2, <1>3 DEF d
  <1>4. CASE d \notin DOMAIN sparse
    BY <1>2, <1>4 DEF d, NoActivity, Quiet
  <1>5. QED
    BY <1>3, <1>4

\* A share of something is never shown as 0 %, and never as more than 100 %
\* (utils.ts:107-120).
THEOREM SharesAreSeen ==
    ASSUME NEW total \in Nat \ {0}, NEW value \in 1..total
    PROVE  formatShare(value, total).pct \in 1..100
  <1> DEFINE pct == Rounded(100 * value, total)
  <1>1. pct = (200 * value + total) \div (2 * total)
    BY DEF Rounded
  <1>2. 2 * total \in Nat \ {0} /\ 200 * value + total \in Nat
    OBVIOUS
  <1>3. pct >= 0
    <2>1. 0 \div (2 * total) = 0
      BY <1>2, Quotient
    <2>2. QED
      BY <1>1, <1>2, <2>1, DivisionOrder
  <1>4. pct <= 100
    <2>1. (201 * total) \div (2 * total) = 100
      BY <1>2, Quotient
    <2>2. 200 * value + total <= 201 * total
      OBVIOUS
    <2>3. QED
      BY <1>1, <1>2, <2>1, <2>2, DivisionOrder
  <1>5. pct \in Int
    BY <1>1, <1>2, Division
  <1> HIDE DEF pct
  <1>6. formatShare(value, total).pct = IF pct = 0 THEN 1 ELSE pct
    BY DEF formatShare, pct
  <1>7. QED
    BY <1>3, <1>4, <1>5, <1>6

\* A cell without activity is the only one without colour, the busiest one has the
\* darkest, and a busier one is never lighter (Heatmap.tsx:72-76).
THEOREM ColoursFollowCounts ==
    ASSUME NEW max \in Nat \ {0}, NEW v \in 0..max, NEW w \in v..max
    PROVE  /\ stepFor(v, max) \in 0..5
           /\ stepFor(v, max) = 0 <=> v = 0
           /\ stepFor(max, max) = 5
           /\ stepFor(v, max) <= stepFor(w, max)
  <1> DEFINE Raw(x)  == (5 * x + max - 1) \div max
             Step(x) == IF Raw(x) <= 1 THEN 1 ELSE IF Raw(x) >= 5 THEN 5 ELSE Raw(x)
  <1>1. ASSUME NEW x \in 0..max
        PROVE  Raw(x) \in Int /\ stepFor(x, max) = IF x = 0 THEN 0 ELSE Step(x)
    <2>1. Raw(x) \in Int
      BY Division
    <2> HIDE DEF Raw
    <2>2. Max({1, Raw(x)}) = IF 1 >= Raw(x) THEN 1 ELSE Raw(x)
      BY <2>1, MaxOfTwo
    <2>3. Max({1, Raw(x)}) \in Int
      BY <2>1, <2>2
    <2>4. Min({5, Max({1, Raw(x)})}) = IF 5 <= Max({1, Raw(x)}) THEN 5 ELSE Max({1, Raw(x)})
      BY <2>3, MinOfTwo
    <2>5. Min({5, Max({1, Raw(x)})}) = Step(x)
      BY <2>1, <2>2, <2>4
    <2>6. stepFor(x, max) = IF x = 0 THEN 0 ELSE Min({5, Max({1, Raw(x)})})
      BY DEF stepFor, Raw
    <2>7. QED
      BY <2>1, <2>5, <2>6
  <1>2. Raw(max) = 5
    BY Quotient
  <1>3. Raw(v) <= Raw(w)
    BY DivisionOrder
  <1>4. v \in 0..max /\ w \in 0..max /\ max \in 0..max /\ v <= w /\ max # 0
    OBVIOUS
  <1> HIDE DEF Raw
  <1>5. Step(v) \in 1..5 /\ Step(w) \in 1..5 /\ Step(v) <= Step(w) /\ Step(max) = 5
    BY <1>1, <1>2, <1>3, <1>4
  <1> HIDE DEF Step
  <1>6. QED
    BY <1>1, <1>4, <1>5

\* The calendar begins on the last Sunday that leaves out no day of its window
\* (Heatmap.tsx:55-62).
THEOREM CalendarStartsOnSunday ==
    ASSUME NEW day \in Int, NEW count \in Nat
    PROVE  LET first == day - (count - 1)
               start == CalendarStart(day, count)
           IN  getDay(start) = 0 /\ start <= first /\ first < start + DaysPerWeek
  <1> DEFINE first == day - (count - 1)
             week  == first \div DaysPerWeek
             start == first - (first % DaysPerWeek)
  <1>1. first \in Int /\ DaysPerWeek \in Nat \ {0}
    BY CalendarAssumption
  <1>2. first % DaysPerWeek \in 0..(DaysPerWeek - 1) /\ week \in Int /\ start = week * DaysPerWeek
    <2> HIDE DEF first
    <2>1. QED
      BY <1>1, Division, Remainder
  <1>3. start % DaysPerWeek = 0
    <2> HIDE DEF first, week, start
    <2>1. start \in Int
      BY <1>1, <1>2
    <2>2. start \div DaysPerWeek = week
      BY <1>1, <1>2, <2>1, Quotient
    <2>3. start = (start \div DaysPerWeek) * DaysPerWeek + (start % DaysPerWeek)
      BY <1>1, <2>1
    <2>4. start % DaysPerWeek \in Int
      BY <1>1, <2>1
    <2>5. QED
      BY <1>1, <1>2, <2>2, <2>3, <2>4
  <1>4. CalendarStart(day, count) = start
    BY DEF CalendarStart, getDay
  <1>5. start <= first /\ first < start + DaysPerWeek
    BY <1>1, <1>2
  <1>6. QED
    BY <1>3, <1>4, <1>5 DEF getDay

\* The last days of a window.
LEMMA LastDaysAre ==
    ASSUME NEW days \in Seq(DayStat), NEW n \in Nat, n <= Len(days)
    PROVE  LastDays(days, n) = [i \in 1..n |-> days[Len(days) - n + i]]
  <1> DEFINE m == Len(days)
  <1>1. m \in Nat /\ n <= m
    OBVIOUS
  <1>2. CASE m <= n
    <2>1. n = m /\ LastDays(days, n) = days
      BY <1>1, <1>2 DEF LastDays
    <2>2. days = [i \in 1..n |-> days[m - n + i]]
      BY <1>1, <2>1
    <2>3. QED
      BY <2>1, <2>2
  <1>3. CASE ~(m <= n)
    <2>1. LastDays(days, n) = SubSeq(days, m - n + 1, m)
      BY <1>3 DEF LastDays
    <2>2. SubSeq(days, m - n + 1, m) = [i \in 1..(m - (m - n + 1) + 1) |-> days[i + (m - n + 1) - 1]]
      BY <1>1
    <2>3. m - (m - n + 1) + 1 = n /\ \A i \in 1..n : i + (m - n + 1) - 1 = m - n + i
      BY <1>1
    <2>4. [i \in 1..(m - (m - n + 1) + 1) |-> days[i + (m - n + 1) - 1]] = [i \in 1..n |-> days[m - n + i]]
      BY <2>3
    <2>5. QED
      BY <2>1, <2>2, <2>4
  <1>4. QED
    BY <1>2, <1>3

LEMMA QuietNumbers ==
    ASSUME NEW d
    PROVE  Quiet(NoActivity(d))
  BY DEF Quiet, NoActivity

\* A set of days, of which there are finitely many.
DaySet(S) == IsFiniteSet(S) /\ S \subseteq Int

LEMMA DaySubset ==
    ASSUME NEW S, DaySet(S), NEW T \in SUBSET S
    PROVE  DaySet(T) /\ IsFiniteSet(T)
  BY FS_Subset DEF DaySet

LEMMA LatestIs ==
    ASSUME NEW S, DaySet(S), S # {}
    PROVE  Max(S) \in S /\ \A y \in S : Max(S) >= y
  <1> DEFINE f == [x \in S |-> -x]
  <1>1. \A x \in S : f[x] = -x
    OBVIOUS
  <1> HIDE DEF f
  <1>2. IsFiniteSet(S) /\ S \subseteq Int /\ \A x \in S : f[x] \in Int
    BY <1>1 DEF DaySet
  <1>3. PICK x \in S : \A y \in S : f[y] >= f[x]
    BY <1>2, LowestExists
  <1>4. ASSUME NEW y \in S
        PROVE  x >= y
    <2>1. -y >= -x
      BY <1>1, <1>3
    <2>2. QED
      BY <1>2, <2>1
  <1>5. QED
    BY <1>4 DEF Max

\* The scale of a chart: at least 1, and no value is beyond it.
LEMMA LargestIs ==
    ASSUME NEW S, IsFiniteSet(S), S \subseteq Nat
    PROVE  Largest(S) \in Nat \ {0} /\ \A v \in S : v <= Largest(S)
  <1> DEFINE T == S \cup {1}
             f == [x \in T |-> -x]
  <1>1. IsFiniteSet(T) /\ T # {} /\ T \subseteq Nat /\ 1 \in T /\ S \subseteq T
    BY FS_AddElement
  <1>2. \A x \in T : f[x] = -x
    OBVIOUS
  <1> HIDE DEF T, f
  <1>3. \A x \in T : f[x] \in Int
    BY <1>1, <1>2
  <1>4. PICK x \in T : \A y \in T : f[y] >= f[x]
    BY <1>1, <1>3, LowestExists
  <1>5. ASSUME NEW y \in T
        PROVE  x >= y
    <2>1. f[y] >= f[x] /\ f[x] = -x /\ f[y] = -y
      BY <1>2, <1>4
    <2>2. x \in Nat /\ y \in Nat
      BY <1>1
    <2>3. -y >= -x
      BY <2>1, Zenon
    <2>4. QED
      BY <2>2, <2>3
  <1>6. Max(T) \in T /\ \A y \in T : Max(T) >= y
    BY <1>5 DEF Max
  <1>7. PICK m : m = Max(T)
    OBVIOUS
  <1>8. m \in Nat /\ m >= 1 /\ \A v \in S : v <= m
    <2>1. m \in T /\ \A y \in T : m >= y
      BY <1>6, <1>7, Zenon
    <2>2. QED
      BY <1>1, <2>1
  <1>9. Largest(S) = m
    BY <1>7, Zenon DEF Largest, T
  <1>10. QED
    BY <1>8, <1>9

\* The largest of some counts, which is at least 1 for a scale and at least 0
\* for a maximum.
LEMMA MostIs ==
    ASSUME NEW S, IsFiniteSet(S), S \subseteq Nat
    PROVE  /\ Largest(S) \in Nat \ {0} /\ \A v \in S : v <= Largest(S)
           /\ Max(S \cup {0}) \in Nat /\ \A v \in S : v <= Max(S \cup {0})
           /\ Max(S \cup {0}) \in S \cup {0}
           /\ Max(S \cup {0}) > 0 => Largest(S) = Max(S \cup {0})
  <1>2. DaySet(S \cup {0}) /\ DaySet(S \cup {1})
    BY FS_AddElement DEF DaySet
  <1>3. Max(S \cup {0}) \in S \cup {0} /\ \A v \in S \cup {0} : Max(S \cup {0}) >= v
    BY <1>2, LatestIs
  <1>4. Max(S \cup {1}) \in S \cup {1} /\ \A v \in S \cup {1} : Max(S \cup {1}) >= v
    BY <1>2, LatestIs
  <1> DEFINE m == Max(S \cup {0})
             l == Max(S \cup {1})
  <1>5. m \in S \cup {0} /\ l \in S \cup {1} /\ (\A v \in S : v <= m) /\ (\A v \in S : v <= l) /\ 1 <= l
    BY <1>3, <1>4
  <1> HIDE DEF m, l
  <1>6. m > 0 => l = m
    BY <1>5
  <1>1. l \in Nat \ {0} /\ m \in Nat
    BY <1>5
  <1>7. QED
    BY <1>1, <1>5, <1>6 DEF m, l, Largest

\* A bar is taller than the sliver of an empty hour just when it has keystrokes.
LEMMA BarsTell ==
    ASSUME NEW hours, IsFiniteSet(DOMAIN hours),
           \A h \in DOMAIN hours : hours[h].keys \in Nat
    PROVE  LET bars == DayTimeline(hours)
           IN  /\ DOMAIN bars = DOMAIN hours
               /\ \A h \in DOMAIN bars : bars[h].height > 3 <=> hours[h].keys > 0
  <1> DEFINE vals == {hours[h].keys : h \in DOMAIN hours}
             max == Largest(vals)
             g == [h \in DOMAIN hours |-> hours[h].keys]
             bars == DayTimeline(hours)
  <1>1. bars = [h \in DOMAIN hours |-> [height |-> BarHeight(hours[h].keys, max, 100, 6, 3),
                                        labelled |-> h % 3 = 0]]
    BY DEF DayTimeline
  <1>2. max \in Nat \ {0}
    <2>1. IsFiniteSet({g[h] : h \in DOMAIN hours})
      BY FiniteImage
    <2>2. {g[h] : h \in DOMAIN hours} = vals
      OBVIOUS
    <2>3. IsFiniteSet(vals) /\ vals \subseteq Nat
      BY <2>1, <2>2
    <2> HIDE DEF vals
    <2>4. QED
      BY <2>3, LargestIs
  <1> HIDE DEF max
  <1>3. \A v \in Nat : BarHeight(v, max, 100, 6, 3) > 3 <=> v > 0
    <2> SUFFICES ASSUME NEW v \in Nat PROVE BarHeight(v, max, 100, 6, 3) > 3 <=> v > 0
      OBVIOUS
    <2> DEFINE x == (v * 100) \div max
    <2>1. x \in Int
      BY <1>2, Division
    <2>2. BarHeight(v, max, 100, 6, 3) = IF v > 0 THEN Max({6, x}) ELSE 3
      BY DEF BarHeight
    <2> HIDE DEF x
    <2>3. Max({6, x}) = IF 6 >= x THEN 6 ELSE x
      BY <2>1, MaxOfTwo
    <2>4. QED
      BY <2>1, <2>2, <2>3
  <1>4. DOMAIN bars = DOMAIN hours
        /\ \A h \in DOMAIN hours : bars[h].height = BarHeight(hours[h].keys, max, 100, 6, 3)
    BY <1>1
  <1> HIDE DEF bars
  <1>5. \A h \in DOMAIN hours : bars[h].height > 3 <=> hours[h].keys > 0
    BY <1>3, <1>4
  <1>6. QED
    BY <1>4, <1>5 DEF bars

-----------------------------------------------------------------------------
(***************************************************************************)
(* The streak rule.                                                        *)
(***************************************************************************)
\* The four ways of updateStreak.
LEMMA StreakCases ==
    ASSUME NEW s, NEW day
    PROVE  /\ s = NoStreak => UpdatedStreak(s, day) = [current |-> 1, longest |-> 1, last |-> day]
           /\ s # NoStreak /\ s.last = day => UpdatedStreak(s, day) = s
           /\ s # NoStreak /\ s.last # day /\ day = s.last + 1 =>
                UpdatedStreak(s, day) = [current |-> s.current + 1,
                                         longest |-> Larger(s.longest, s.current + 1),
                                         last |-> day]
           /\ s # NoStreak /\ s.last # day /\ day # s.last + 1 =>
                UpdatedStreak(s, day) = [current |-> 1,
                                         longest |-> Larger(s.longest, 1),
                                         last |-> day]
  BY DEF UpdatedStreak, isNextDay

LEMMA StreakFields ==
    ASSUME NEW D, NEW s \in StreakRow(D), s # NoStreak
    PROVE  /\ s.current \in Nat \ {0}
           /\ s.longest \in Nat \ {0}
           /\ s.last \in D
           /\ s = [current |-> s.current, longest |-> s.longest, last |-> s.last]
  BY DEF StreakRow

LEMMA LargerIsBound ==
    ASSUME NEW m \in Nat, NEW n \in Nat
    PROVE  /\ Larger(m, n) \in {m, n}
           /\ Larger(m, n) >= m
           /\ Larger(m, n) >= n
  BY DEF Larger

LEMMA UpdatedRow ==
    ASSUME NEW D, NEW s \in StreakRow(D), NEW day \in D
    PROVE  UpdatedStreak(s, day) \in StreakRow(D) \ {NoStreak}
  <1> USE DEF StreakRow
  <1> DEFINE New(c, l) == [current |-> c, longest |-> l, last |-> day]
  <1>1. \A c, l \in Nat \ {0} : New(c, l) \in StreakRow(D) /\ New(c, l) # NoStreak
    <2> SUFFICES ASSUME NEW c \in Nat \ {0}, NEW l \in Nat \ {0}
                 PROVE  New(c, l) \in StreakRow(D) /\ New(c, l) # NoStreak
      OBVIOUS
    <2>1. New(c, l).current # NoStreak.current
      BY DEF NoStreak
    <2>2. QED
      BY <2>1
  <1>2. CASE s = NoStreak
    BY <1>1, <1>2, StreakCases
  <1>3. CASE s # NoStreak
    <2>1. /\ Larger(s.longest, 1) \in Nat \ {0}
          /\ Larger(s.longest, s.current + 1) \in Nat \ {0}
          /\ s.current + 1 \in Nat \ {0}
      BY <1>3, StreakFields DEF Larger
    <2>2. CASE s.last = day
      BY <1>3, <2>2, StreakCases
    <2>3. CASE s.last # day /\ day = s.last + 1
      BY <1>1, <1>3, <2>1, <2>3, StreakCases
    <2>4. CASE s.last # day /\ day # s.last + 1
      BY <1>1, <1>3, <2>1, <2>4, StreakCases
    <2>5. QED
      BY <2>2, <2>3, <2>4
  <1>4. QED
    BY <1>2, <1>3

LEMMA HappenedGrows ==
    ASSUME NEW s, NEW A, NEW B, A \subseteq B, Happened(s, A)
    PROVE  Happened(s, B)
  BY DEF Happened, IsRun

\* The rule invents nothing: what it makes of streaks that happened, and of one
\* more day, happened.
LEMMA RuleInventsNothing ==
    ASSUME NEW D \in SUBSET Int, NEW s \in StreakRow(D), NEW day \in D,
           NEW days, Happened(s, days)
    PROVE  Happened(UpdatedStreak(s, day), days \cup {day})
  <1> USE DEF IsRun
  <1> DEFINE after == days \cup {day}
             t == UpdatedStreak(s, day)
  <1>1. day \in Int /\ IsRun(after, day, 1)
    OBVIOUS
  <1>2. CASE s = NoStreak
    BY <1>1, <1>2, StreakCases DEF Happened
  <1>3. CASE s # NoStreak
    <2> DEFINE last == s.last
               current == s.current
    <2>1. last \in Int /\ current \in Nat \ {0} /\ s.longest \in Nat \ {0}
      BY <1>3, StreakFields
    <2>2. PICK d \in days : IsRun(days, d, s.longest)
      BY <1>3 DEF Happened
    <2>3. d \in after /\ IsRun(after, d, s.longest) /\ IsRun(after, last, current)
      BY <1>3, <2>2 DEF Happened
    <2>4. CASE last = day
      BY <1>3, <2>3, <2>4, StreakCases DEF Happened
    <2>5. CASE last # day /\ day = last + 1
      <3>1. IsRun(after, day, current + 1)
        <4>1. (day - (current + 1) + 1)..day \subseteq ((last - current + 1)..last) \cup {day}
          BY <1>1, <2>1, <2>5
        <4>2. QED
          BY <2>3, <4>1
      <3>2. t = [current |-> current + 1, longest |-> Larger(s.longest, current + 1),
                 last |-> day]
        BY <1>3, <2>5, StreakCases
      <3>3. Larger(s.longest, current + 1) \in {s.longest, current + 1}
        BY <2>1, LargerIsBound
      <3>4. \E e \in after : IsRun(after, e, t.longest)
        BY <2>3, <3>1, <3>2, <3>3
      <3>5. QED
        BY <3>1, <3>2, <3>4 DEF Happened
    <2>6. CASE last # day /\ day # last + 1
      <3>1. t = [current |-> 1, longest |-> Larger(s.longest, 1), last |-> day]
        BY <1>3, <2>6, StreakCases
      <3>2. Larger(s.longest, 1) \in {s.longest, 1}
        BY <2>1, LargerIsBound
      <3>3. \E e \in after : IsRun(after, e, t.longest)
        BY <1>1, <2>3, <3>1, <3>2
      <3>4. QED
        BY <1>1, <3>1, <3>3 DEF Happened
    <2>7. QED
      BY <2>4, <2>5, <2>6
  <1>4. QED
    BY <1>2, <1>3
=============================================================================
