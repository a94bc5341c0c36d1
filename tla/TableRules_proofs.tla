-------------------------- MODULE TableRules_proofs --------------------------
(***************************************************************************)
(* Verdicts about a table, proved for every column, every table, every     *)
(* change of it and every bound.  What rules count are sums over the       *)
(* values of the column, so the first part proves, by induction over       *)
(* finite sets, what SumFunctionOnSet computes.                            *)
(***************************************************************************)
EXTENDS TableRules, FiniteSetTheorems, TLAPS

-----------------------------------------------------------------------------
(* Sums over finite sets                                                   *)

\* A set G that contains a subset of S as soon as it contains the smaller ones
\* contains all subsets of S: induction with a set in place of a predicate.
LEMMA SetInduction ==
    ASSUME NEW S, IsFiniteSet(S), NEW G,
           \A T \in SUBSET S : (\A U \in SUBSET T : U # T => U \in G) => T \in G
    PROVE  \A T \in SUBSET S : T \in G
<1> DEFINE Bad == {T \in SUBSET S : T \notin G}
<1> SUFFICES ASSUME Bad # {} PROVE FALSE
  OBVIOUS
<1>1. IsWellFoundedOn(StrictSubsetOrdering(S), FiniteSubsetsOf(S))
  BY FS_StrictSubsetOrderingWellFounded
<1>2. Bad \subseteq FiniteSubsetsOf(S)
  BY FS_Subset DEF FiniteSubsetsOf
<1>3. PICK T \in Bad : \A U \in Bad : ~ (<<U, T>> \in StrictSubsetOrdering(S))
  <2> HIDE DEF Bad
  <2> QED BY <1>1, <1>2, WFMin
<1>4. ASSUME NEW U \in SUBSET T, U # T PROVE U \in G
  BY <1>3, <1>4 DEF StrictSubsetOrdering
<1> QED BY <1>3, <1>4

\* The element a sum over s takes first.
Pick(s) == CHOOSE x \in s : TRUE

\* What a sum g over the subsets of s is at s.
SumBody(f, g, s) == IF s = {} THEN 0 ELSE f[Pick(s)] + g[s \ {Pick(s)}]

\* g is the sum of f over each subset of S.
Solves(f, g, S) == g = [s \in SUBSET S |-> SumBody(f, g, s)]

\* The function of those sums.
Sums(f, S) == [s \in SUBSET S |-> SumFunctionOnSet(f, s)]

\* SumFunctionOnSet takes whatever function solves the recursion.
LEMMA SumIs ==
    ASSUME NEW f, NEW S
    PROVE  SumFunctionOnSet(f, S) = (CHOOSE g : Solves(f, g, S))[S]
BY DEF SumFunctionOnSet, FoldFunctionOnSet, MapThenFoldSet, SumBody, Solves, Pick

\* There is an element to take.
LEMMA Picked == ASSUME NEW s, s # {} PROVE Pick(s) \in s
BY DEF Pick

\* A solution for the subsets of S is one for those of a subset of it.
LEMMA Restricted ==
    ASSUME NEW f, NEW g, NEW S, Solves(f, g, S), NEW T \in SUBSET S
    PROVE  Solves(f, [s \in SUBSET T |-> g[s]], T)
<1> DEFINE h == [s \in SUBSET T |-> g[s]]
<1>1. ASSUME NEW s \in SUBSET T PROVE g[s] = SumBody(f, h, s)
  <2>1. g[s] = SumBody(f, g, s)
    BY DEF Solves
  <2>2. CASE s = {}
    BY <2>1, <2>2 DEF SumBody
  <2>3. CASE s # {}
    <3>1. s \ {Pick(s)} \in SUBSET T
      OBVIOUS
    <3> QED BY <2>1, <2>3, <3>1 DEF SumBody
  <2> QED BY <2>2, <2>3
<1> HIDE DEF h
<1>2. h = [s \in SUBSET T |-> SumBody(f, h, s)]
  BY <1>1 DEF h
<1> QED BY <1>2 DEF Solves, h

\* The recursion over the subsets of a finite set has a solution, and no other.
LEMMA SumsSolve ==
    ASSUME NEW S, IsFiniteSet(S), NEW f
    PROVE  \A T \in SUBSET S :
              Solves(f, Sums(f, T), T) /\ \A g : Solves(f, g, T) => g = Sums(f, T)
<1> DEFINE Good(T) == Solves(f, Sums(f, T), T) /\ \A g : Solves(f, g, T) => g = Sums(f, T)
<1> DEFINE G == {T \in SUBSET S : Good(T)}
<1>1. ASSUME NEW T \in SUBSET S, \A U \in SUBSET T : U # T => U \in G
      PROVE  T \in G
  <2> DEFINE Whole == IF T = {} THEN 0 ELSE f[Pick(T)] + SumFunctionOnSet(f, T \ {Pick(T)})
  <2> DEFINE k == [s \in SUBSET T |-> IF s = T THEN Whole ELSE SumFunctionOnSet(f, s)]
  <2>1. ASSUME NEW s \in SUBSET T, s # T
        PROVE  SumFunctionOnSet(f, s) = SumBody(f, k, s)
    <3>1. Sums(f, s) = [r \in SUBSET s |-> SumBody(f, Sums(f, s), r)]
      BY <1>1, <2>1 DEF Solves
    <3>2. Sums(f, s)[s] = SumBody(f, Sums(f, s), s)
      BY <3>1
    <3>3. CASE s = {}
      BY <3>2, <3>3 DEF SumBody, Sums
    <3>4. CASE s # {}
      <4>1. s \ {Pick(s)} \in SUBSET s /\ s \ {Pick(s)} # T /\ s \ {Pick(s)} \in SUBSET T
        BY <2>1
      <4> QED BY <3>2, <3>4, <4>1 DEF SumBody, Sums
    <3> QED BY <3>3, <3>4
  <2>2. Whole = SumBody(f, k, T)
    <3>1. CASE T = {}
      BY <3>1 DEF SumBody
    <3>2. CASE T # {}
      <4>1. T \ {Pick(T)} # T /\ T \ {Pick(T)} \in SUBSET T
        BY <3>2, Picked
      <4> QED BY <3>2, <4>1 DEF SumBody
    <3> QED BY <3>1, <3>2
  <2>3. Solves(f, k, T)
    <3>1. ASSUME NEW s \in SUBSET T PROVE k[s] = SumBody(f, k, s)
      BY <2>1, <2>2
    <3>2. k = [s \in SUBSET T |-> k[s]]
      OBVIOUS
    <3> HIDE DEF k
    <3> QED BY <3>1, <3>2 DEF Solves
  <2>4. ASSUME NEW g, Solves(f, g, T) PROVE g = k
    <3>1. g = [s \in SUBSET T |-> SumBody(f, g, s)]
      BY <2>4 DEF Solves
    <3>2. ASSUME NEW s \in SUBSET T, s # T PROVE g[s] = SumFunctionOnSet(f, s)
      <4>1. Solves(f, [r \in SUBSET s |-> g[r]], s)
        BY <2>4, Restricted
      <4>2. [r \in SUBSET s |-> g[r]] = Sums(f, s)
        BY <1>1, <3>2, <4>1
      <4> QED BY <4>2 DEF Sums
    <3>3. g[T] = Whole
      <4>1. g[T] = SumBody(f, g, T)
        BY <3>1
      <4>2. CASE T = {}
        BY <4>1, <4>2 DEF SumBody
      <4>3. CASE T # {}
        <5>1. T \ {Pick(T)} # T /\ T \ {Pick(T)} \in SUBSET T
          BY <4>3, Picked
        <5>2. g[T \ {Pick(T)}] = SumFunctionOnSet(f, T \ {Pick(T)})
          BY <3>2, <5>1
        <5> QED BY <4>1, <4>3, <5>2 DEF SumBody
      <4> QED BY <4>2, <4>3
    <3>4. g = [s \in SUBSET T |-> g[s]]
      BY <3>1
    <3>5. ASSUME NEW s \in SUBSET T PROVE g[s] = k[s]
      BY <3>2, <3>3
    <3>6. k = [s \in SUBSET T |-> k[s]]
      OBVIOUS
    <3> HIDE DEF k
    <3> QED BY <3>4, <3>5, <3>6
  <2>5. SumFunctionOnSet(f, T) = k[T]
    <3> HIDE DEF k
    <3>1. (CHOOSE g : Solves(f, g, T)) = k
      BY <2>3, <2>4
    <3> QED BY <3>1, SumIs
  <2>6. k = Sums(f, T)
    <3>1. ASSUME NEW s \in SUBSET T PROVE k[s] = SumFunctionOnSet(f, s)
      BY <2>5
    <3> QED BY <3>1 DEF Sums
  <2> HIDE DEF k
  <2> QED BY <2>3, <2>4, <2>6
<1> HIDE DEF G
<1>2. \A T \in SUBSET S : T \in G
  BY <1>1, SetInduction
<1> QED BY <1>2 DEF G

\* So a sum is what is taken first, and the sum of the rest.
LEMMA SumRec ==
    ASSUME NEW S, IsFiniteSet(S), NEW f
    PROVE  SumFunctionOnSet(f, S) =
             IF S = {} THEN 0 ELSE f[Pick(S)] + SumFunctionOnSet(f, S \ {Pick(S)})
<1>0. Solves(f, Sums(f, S), S)
  BY SumsSolve
<1>1. Sums(f, S) = [s \in SUBSET S |-> SumBody(f, Sums(f, S), s)]
  BY <1>0 DEF Solves
<1>2. Sums(f, S)[S] = SumBody(f, Sums(f, S), S)
  BY <1>1
<1> QED BY <1>2 DEF SumBody, Sums

\* Sums of naturals are naturals.
LEMMA SumType ==
    ASSUME NEW S, IsFiniteSet(S), NEW f, \A x \in S : f[x] \in Nat
    PROVE  \A T \in SUBSET S : SumFunctionOnSet(f, T) \in Nat
<1> DEFINE G == {T \in SUBSET S : SumFunctionOnSet(f, T) \in Nat}
<1>1. ASSUME NEW T \in SUBSET S, \A U \in SUBSET T : U # T => U \in G
      PROVE  T \in G
  <2>1. IsFiniteSet(T)
    BY FS_Subset
  <2>0. SumFunctionOnSet(f, T) =
          IF T = {} THEN 0 ELSE f[Pick(T)] + SumFunctionOnSet(f, T \ {Pick(T)})
    BY <2>1, SumRec
  <2>2. CASE T = {}
    BY <2>0, <2>2
  <2>3. CASE T # {}
    <3>1. Pick(T) \in T
      BY <2>3, Picked
    <3>2. T \ {Pick(T)} \in G
      BY <1>1, <3>1
    <3>3. f[Pick(T)] \in Nat /\ SumFunctionOnSet(f, T \ {Pick(T)}) \in Nat
      BY <3>1, <3>2
    <3>4. SumFunctionOnSet(f, T) = f[Pick(T)] + SumFunctionOnSet(f, T \ {Pick(T)})
      BY <2>0, <2>3
    <3>5. SumFunctionOnSet(f, T) \in Nat
      BY <3>3, <3>4
    <3> QED BY <3>5
  <2> QED BY <2>2, <2>3
<1> HIDE DEF G
<1>2. \A T \in SUBSET S : T \in G
  BY <1>1, SetInduction
<1> QED BY <1>2 DEF G

\* Any element may be taken first.
LEMMA SumRemoveAll ==
    ASSUME NEW S, IsFiniteSet(S), NEW f, \A x \in S : f[x] \in Nat
    PROVE  \A T \in SUBSET S : \A x \in T :
              SumFunctionOnSet(f, T) = f[x] + SumFunctionOnSet(f, T \ {x})
<1> DEFINE G == {T \in SUBSET S : \A x \in T :
                    SumFunctionOnSet(f, T) = f[x] + SumFunctionOnSet(f, T \ {x})}
<1>1. ASSUME NEW T \in SUBSET S, \A U \in SUBSET T : U # T => U \in G
      PROVE  T \in G
  <2> SUFFICES ASSUME NEW x \in T
               PROVE  SumFunctionOnSet(f, T) = f[x] + SumFunctionOnSet(f, T \ {x})
    OBVIOUS
  <2> DEFINE y == Pick(T)
  <2>1. y \in T /\ SumFunctionOnSet(f, T) = f[y] + SumFunctionOnSet(f, T \ {y})
    BY FS_Subset, Picked, SumRec
  <2> HIDE DEF y
  <2>2. CASE x = y
    BY <2>1, <2>2
  <2>3. CASE x # y
    <3>1. T \ {y} \in G /\ T \ {x} \in G
      BY <1>1, <2>1
    <3>2. (T \ {y}) \ {x} = (T \ {x}) \ {y}
      OBVIOUS
    <3>3. SumFunctionOnSet(f, T \ {y}) = f[x] + SumFunctionOnSet(f, (T \ {y}) \ {x})
      BY <2>1, <2>3, <3>1
    <3>4. SumFunctionOnSet(f, T \ {x}) = f[y] + SumFunctionOnSet(f, (T \ {y}) \ {x})
      BY <2>1, <2>3, <3>1, <3>2
    <3>5. /\ f[x] \in Nat /\ f[y] \in Nat
          /\ SumFunctionOnSet(f, (T \ {y}) \ {x}) \in Nat
      BY <2>1, SumType
    <3> QED BY <2>1, <3>3, <3>4, <3>5
  <2> QED BY <2>2, <2>3
<1> HIDE DEF G
<1>2. \A T \in SUBSET S : T \in G
  BY <1>1, SetInduction
<1> QED BY <1>2 DEF G

\* The same of one sum, with the types.
LEMMA SumRemove ==
    ASSUME NEW S, IsFiniteSet(S), NEW f, \A x \in S : f[x] \in Nat, NEW x \in S
    PROVE  /\ SumFunctionOnSet(f, S) = f[x] + SumFunctionOnSet(f, S \ {x})
           /\ SumFunctionOnSet(f, S) \in Nat /\ SumFunctionOnSet(f, S \ {x}) \in Nat
BY SumRemoveAll, SumType

\* Nothing sums up to nothing.
LEMMA SumEmpty == ASSUME NEW f PROVE SumFunctionOnSet(f, {}) = 0
BY SumRec, FS_EmptySet

\* A sum grows with its terms, and with each of them.
LEMMA SumMono ==
    ASSUME NEW S, IsFiniteSet(S), NEW f, NEW g,
           \A x \in S : f[x] \in Nat /\ g[x] \in Nat /\ f[x] <= g[x]
    PROVE  \A T \in SUBSET S :
              /\ SumFunctionOnSet(f, T) <= SumFunctionOnSet(g, T)
              /\ SumFunctionOnSet(f, T) = SumFunctionOnSet(g, T) => \A x \in T : f[x] = g[x]
<1> DEFINE Good(T) == /\ SumFunctionOnSet(f, T) <= SumFunctionOnSet(g, T)
                      /\ SumFunctionOnSet(f, T) = SumFunctionOnSet(g, T) => \A x \in T : f[x] = g[x]
<1> DEFINE G == {T \in SUBSET S : Good(T)}
<1>1. ASSUME NEW T \in SUBSET S, \A U \in SUBSET T : U # T => U \in G
      PROVE  T \in G
  <2>1. CASE T = {}
    BY <2>1, SumEmpty
  <2>2. CASE T # {}
    <3>1. PICK x \in T : TRUE
      BY <2>2
    <3>2. Good(T \ {x})
      BY <1>1, <3>1
    <3> DEFINE a == SumFunctionOnSet(f, T)
    <3> DEFINE b == SumFunctionOnSet(g, T)
    <3> DEFINE c == SumFunctionOnSet(f, T \ {x})
    <3> DEFINE d == SumFunctionOnSet(g, T \ {x})
    <3>3. IsFiniteSet(T)
      BY FS_Subset
    <3>4. a = f[x] + c /\ a \in Nat /\ c \in Nat
      BY <3>1, <3>3, SumRemove
    <3>5. b = g[x] + d /\ b \in Nat /\ d \in Nat
      BY <3>1, <3>3, SumRemove
    <3>6. f[x] \in Nat /\ g[x] \in Nat /\ f[x] <= g[x]
      BY <3>1
    <3>7. c <= d /\ (c = d => \A y \in T \ {x} : f[y] = g[y])
      BY <3>2
    <3> HIDE DEF a, b, c, d
    <3>8. a <= b /\ (a = b => c = d /\ f[x] = g[x])
      BY <3>4, <3>5, <3>6, <3>7
    <3>9. a <= b /\ (a = b => \A y \in T : f[y] = g[y])
      BY <3>7, <3>8
    <3> QED BY <3>9 DEF a, b
  <2> QED BY <2>1, <2>2
<1> HIDE DEF G
<1>2. \A T \in SUBSET S : T \in G
  BY <1>1, SetInduction
<1> QED BY <1>2 DEF G

\* Equal terms have equal sums.
LEMMA SumSame ==
    ASSUME NEW S, IsFiniteSet(S), NEW f, NEW g, \A x \in S : f[x] \in Nat /\ f[x] = g[x]
    PROVE  SumFunctionOnSet(f, S) = SumFunctionOnSet(g, S)
<1>1. \A x \in S : f[x] <= g[x] /\ g[x] <= f[x] /\ g[x] \in Nat
  OBVIOUS
<1>2. SumFunctionOnSet(f, S) <= SumFunctionOnSet(g, S)
  BY <1>1, SumMono
<1>3. SumFunctionOnSet(g, S) <= SumFunctionOnSet(f, S)
  BY <1>1, SumMono
<1>4. SumFunctionOnSet(f, S) \in Nat /\ SumFunctionOnSet(g, S) \in Nat
  BY <1>1, SumType
<1> QED BY <1>2, <1>3, <1>4

\* A sum over S is the sums over a part of S and over the rest.
LEMMA SumSplit ==
    ASSUME NEW S, IsFiniteSet(S), NEW f, \A x \in S : f[x] \in Nat
    PROVE  \A T \in SUBSET S :
              SumFunctionOnSet(f, S) = SumFunctionOnSet(f, T) + SumFunctionOnSet(f, S \ T)
<1> DEFINE G == {T \in SUBSET S :
              SumFunctionOnSet(f, S) = SumFunctionOnSet(f, T) + SumFunctionOnSet(f, S \ T)}
<1>1. ASSUME NEW T \in SUBSET S, \A U \in SUBSET T : U # T => U \in G
      PROVE  T \in G
  <2> DEFINE whole == SumFunctionOnSet(f, S)
  <2>0. whole \in Nat
    BY SumType
  <2>1. CASE T = {}
    <3>1. S \ T = S
      BY <2>1
    <3>2. whole = SumFunctionOnSet(f, T) + SumFunctionOnSet(f, S \ T)
      BY <2>0, <2>1, <3>1, SumEmpty
    <3> QED BY <3>2
  <2>2. CASE T # {}
    <3>1. PICK x \in T : TRUE
      BY <2>2
    <3> DEFINE a == SumFunctionOnSet(f, T)
    <3> DEFINE b == SumFunctionOnSet(f, S \ T)
    <3> DEFINE c == SumFunctionOnSet(f, T \ {x})
    <3> DEFINE d == SumFunctionOnSet(f, S \ (T \ {x}))
    <3>2. whole = c + d
      BY <1>1, <3>1
    <3>3. IsFiniteSet(T) /\ IsFiniteSet(S \ (T \ {x}))
      BY FS_Subset
    <3>4. a = f[x] + c /\ a \in Nat /\ c \in Nat
      BY <3>1, <3>3, SumRemove
    <3>5. d = f[x] + b /\ d \in Nat /\ b \in Nat
      <4>1. (S \ (T \ {x})) \ {x} = S \ T /\ x \in S \ (T \ {x})
        BY <3>1
      <4>2. \A y \in S \ (T \ {x}) : f[y] \in Nat
        OBVIOUS
      <4>3. /\ d = f[x] + SumFunctionOnSet(f, (S \ (T \ {x})) \ {x})
            /\ d \in Nat /\ SumFunctionOnSet(f, (S \ (T \ {x})) \ {x}) \in Nat
        BY <3>3, <4>1, <4>2, SumRemove
      <4> QED BY <4>1, <4>3
    <3>6. f[x] \in Nat
      BY <3>1
    <3> HIDE DEF a, b, c, d
    <3>7. whole = a + b
      BY <3>2, <3>4, <3>5, <3>6, <2>0
    <3> QED BY <3>7 DEF a, b
  <2> QED BY <2>1, <2>2
<1> HIDE DEF G
<1>2. \A T \in SUBSET S : T \in G
  BY <1>1, SetInduction
<1> QED BY <1>2 DEF G

\* A sum is at least the number of its terms that are not zero, and equal to it
\* only if no term is more than one.
LEMMA SumCounts ==
    ASSUME NEW S, IsFiniteSet(S), NEW f, \A x \in S : f[x] \in Nat
    PROVE  \A T \in SUBSET S :
              LET n == Cardinality({x \in T : f[x] > 0})
              IN  /\ n \in Nat /\ n <= SumFunctionOnSet(f, T)
                  /\ SumFunctionOnSet(f, T) = n => \A x \in T : f[x] <= 1
<1> DEFINE Pos(T) == {x \in T : f[x] > 0}
<1> DEFINE Good(T) ==
              LET n == Cardinality(Pos(T))
              IN  /\ n \in Nat /\ n <= SumFunctionOnSet(f, T)
                  /\ SumFunctionOnSet(f, T) = n => \A x \in T : f[x] <= 1
<1> DEFINE G == {T \in SUBSET S : Good(T)}
<1>1. ASSUME NEW T \in SUBSET S, \A U \in SUBSET T : U # T => U \in G
      PROVE  T \in G
  <2>1. CASE T = {}
    <3>1. Pos(T) = {}
      BY <2>1
    <3> QED BY <2>1, <3>1, SumEmpty, FS_EmptySet
  <2>2. CASE T # {}
    <3>1. PICK x \in T : TRUE
      BY <2>2
    <3>2. Good(T \ {x})
      BY <1>1, <3>1
    <3> DEFINE a == SumFunctionOnSet(f, T)
    <3> DEFINE c == SumFunctionOnSet(f, T \ {x})
    <3> DEFINE n == Cardinality(Pos(T))
    <3> DEFINE m == Cardinality(Pos(T \ {x}))
    <3>3. IsFiniteSet(T) /\ IsFiniteSet(Pos(T))
      BY FS_Subset
    <3>4. a = f[x] + c /\ a \in Nat /\ c \in Nat
      BY <3>1, <3>3, SumRemove
    <3>5. n = IF f[x] > 0 THEN m + 1 ELSE m
      <4>1. Pos(T \ {x}) = Pos(T) \ {x}
        OBVIOUS
      <4>2. m = IF x \in Pos(T) THEN n - 1 ELSE n
        BY <3>3, <4>1, FS_RemoveElement
      <4>3. n \in Nat /\ m \in Nat
        BY <3>2, <3>3, FS_CardinalityType
      <4> HIDE DEF n, m
      <4> QED BY <3>1, <4>2, <4>3
    <3>6. m \in Nat /\ m <= c /\ (c = m => \A y \in T \ {x} : f[y] <= 1)
      BY <3>2
    <3>7. f[x] \in Nat
      BY <3>1
    <3> HIDE DEF a, c, n, m
    <3>8. n \in Nat /\ n <= a /\ (a = n => c = m /\ f[x] <= 1)
      BY <3>4, <3>5, <3>6, <3>7
    <3>9. n \in Nat /\ n <= a /\ (a = n => \A y \in T : f[y] <= 1)
      BY <3>6, <3>8
    <3> QED BY <3>9 DEF a, n
  <2> QED BY <2>1, <2>2
<1> HIDE DEF G
<1>2. \A T \in SUBSET S : T \in G
  BY <1>1, SetInduction
<1> QED BY <1>2 DEF G

\* A sum of naturals is zero only if all of them are.
LEMMA SumZero ==
    ASSUME NEW S, IsFiniteSet(S), NEW f, \A x \in S : f[x] \in Nat, SumFunctionOnSet(f, S) = 0
    PROVE  \A x \in S : f[x] = 0
<1> TAKE x \in S
<1>1. /\ SumFunctionOnSet(f, S) = f[x] + SumFunctionOnSet(f, S \ {x})
      /\ SumFunctionOnSet(f, S \ {x}) \in Nat
  BY SumRemove
<1> QED BY <1>1
-----------------------------------------------------------------------------
(* Counting rows                                                           *)

\* What a row can have in the column, and how the rows can be distributed.
Column == Values \cup {Null}
Tables == [Column -> Counts]

\* There are finitely many values, and each is in a number of rows.
LEMMA ColumnFinite ==
    IsFiniteSet(Column) /\ (\A t \in Tables : \A v \in Column : t[v] \in Nat)
BY TableAssumption, FS_AddElement DEF Column, Tables

\* Every row of a table is in or out of a set of values.
LEMMA RowsSplit ==
    ASSUME NEW t \in Tables, NEW S \in SUBSET Column
    PROVE  /\ SumFunction(t) \in Nat
           /\ SumFunctionOnSet(t, S) \in Nat
           /\ SumFunctionOnSet(t, Column \ S) \in Nat
           /\ SumFunction(t) = SumFunctionOnSet(t, S) + SumFunctionOnSet(t, Column \ S)
<1>1. DOMAIN t = Column
  BY DEF Tables
<1>2. SumFunction(t) = SumFunctionOnSet(t, Column)
  BY <1>1 DEF SumFunction
<1>3. \A v \in Column : t[v] \in Nat
  BY ColumnFinite
<1>4. \A T \in SUBSET Column : SumFunctionOnSet(t, T) \in Nat
  BY <1>3, ColumnFinite, SumType
<1>5. \A T \in SUBSET Column :
        SumFunctionOnSet(t, Column) = SumFunctionOnSet(t, T) + SumFunctionOnSet(t, Column \ T)
  BY <1>3, ColumnFinite, SumSplit
<1> QED BY <1>2, <1>4, <1>5

\* No rows in all, or with values of S, means no row with each of them.
LEMMA NoRows ==
    ASSUME NEW t \in Tables, NEW S \in SUBSET Column, SumFunctionOnSet(t, S) = 0
    PROVE  \A v \in S : t[v] = 0
<1>1. IsFiniteSet(S)
  BY ColumnFinite, FS_Subset
<1>2. \A v \in S : t[v] \in Nat
  BY ColumnFinite
<1> QED BY <1>1, <1>2, SumZero

\* Rows with NULL, and all others.
LEMMA NullRows ==
    ASSUME NEW t \in Tables
    PROVE  /\ SumFunctionOnSet(t, {Null}) = t[Null]
           /\ SumFunction(t) = t[Null] + SumFunctionOnSet(t, Values)
<1>1. Null \in Column /\ t[Null] \in Nat /\ {Null} \in SUBSET Column /\ Column \ {Null} = Values
  BY ColumnFinite, TableAssumption DEF Column
<1>2. IsFiniteSet({Null}) /\ \A v \in {Null} : t[v] \in Nat
  BY <1>1, FS_Singleton
<1>3. {Null} \ {Null} = {}
  OBVIOUS
<1>4. SumFunctionOnSet(t, {Null}) = t[Null] + SumFunctionOnSet(t, {Null} \ {Null})
  BY <1>2, SumRemove
<1>5. SumFunctionOnSet(t, {Null}) = t[Null]
  BY <1>1, <1>3, <1>4, SumEmpty
<1> QED BY <1>1, <1>5, RowsSplit

\* COUNT(*) = COUNT(DISTINCT column) leaves no room for a NULL or for a duplicate.
LEMMA AllDistinct ==
    ASSUME NEW t \in Tables, SumFunction(t) = Cardinality({v \in Values : t[v] > 0})
    PROVE  t[Null] = 0 /\ \A v \in Values : t[v] <= 1
<1> DEFINE n == Cardinality({v \in Values : t[v] > 0})
<1> DEFINE c == SumFunctionOnSet(t, Values)
<1>1. Values \in SUBSET Column /\ Null \in Column /\ \A v \in Values : t[v] \in Nat
  BY ColumnFinite DEF Column
<1>2. c \in Nat /\ t[Null] \in Nat
  BY <1>1, RowsSplit, ColumnFinite
<1>3. n \in Nat /\ n <= c /\ (c = n => \A v \in Values : t[v] <= 1)
  BY <1>1, TableAssumption, SumCounts
<1>4. n = t[Null] + c
  BY NullRows
<1> HIDE DEF n, c
<1>5. t[Null] = 0 /\ c = n
  BY <1>2, <1>3, <1>4
<1> QED BY <1>3, <1>5

\* COUNT(DISTINCT column) is a number.
LEMMA DistinctIsNat ==
    ASSUME NEW t \in Tables
    PROVE  Cardinality({v \in Values : t[v] > 0}) \in Nat
<1>1. IsFiniteSet({v \in Values : t[v] > 0})
  BY TableAssumption, FS_Subset
<1> QED BY <1>1, FS_CardinalityType

\* No column was added and none dropped.
LEMMA NoDrift ==
    ASSUME NEW s \in Schemas, NEW b \in Schemas \cup {{}},
           Cardinality(s \ b) + Cardinality(b \ s) = 0
    PROVE  s = b
<1>1. IsFiniteSet(s) /\ IsFiniteSet(b)
  BY TableAssumption, FS_EmptySet
<1>2. IsFiniteSet(s \ b) /\ IsFiniteSet(b \ s)
  BY <1>1, FS_Subset
<1>3. Cardinality(s \ b) \in Nat /\ Cardinality(b \ s) \in Nat
  BY <1>2, FS_CardinalityType
<1>4. Cardinality(s \ b) = 0 /\ Cardinality(b \ s) = 0
  BY <1>3
<1>5. s \ b = {} /\ b \ s = {}
  BY <1>2, <1>4, FS_EmptySet
<1> QED BY <1>5

\* Half of the rows there were, rounded down, and one at least.
LEMMA HalfAtLeast ==
    ASSUME NEW n \in Nat
    PROVE  /\ MinRows(n) \in Nat
           /\ MinRows(n) >= 1
           /\ \A t \in Nat : t >= MinRows(n) => 2 * t + 1 >= n
BY DEF MinRows, AtLeastOne

-----------------------------------------------------------------------------
(* The inductive invariant                                                 *)

\* Nothing is used before it was read: rules are made when discovery is over.
InOrder ==
    /\ rules # {} \/ procedure # {} => meaning # "not_inferred"
    /\ meaning # "not_inferred" => profile # NoProfile
    /\ profile # NoProfile => rowCount # None /\ columns # {}

\* What editing leaves of the rule the agent made.
Made(r) ==
    /\ r.check = "not_null" => r.parameter = 0
    /\ r.check = "email" => r.parameter = 99
    /\ r.check \in {"amount", "status"} => r.parameter = None
    /\ r.check = "volume" => rowCount > 0 /\ r.minRows = MinRows(rowCount)

AllMade == \A r \in rules \cup procedure : Made(r)

\* The rules that no set of rules for this table is without, but for those taken out.
Complete(set, out) ==
    /\ rowCount > 0 => "volume" \in out \/ \E r \in set : r.check = "volume"
    /\ meaning = "id" => "unique" \in out \/ \E r \in set : r.check = "unique"

NoneMissing ==
    /\ rules # {} => Complete(rules, withdrawn)
    /\ procedure # {} => Complete(procedure, withdrawn)

TInv == TypeOK /\ InOrder /\ AllMade /\ NoneMissing

-----------------------------------------------------------------------------
(* The invariant is inductive                                              *)

\* The rules of the agent are well-formed, once discovery is over.
LEMMA MadeTyped ==
    ASSUME TInv, meaning # "not_inferred"
    PROVE  UNION {VolumeRules, SchemaRules, CompletenessRules, UniquenessRules,
                  ValidityRules, FreshnessRules} \subseteq Rules
<1> USE DEF None
<1>1. rowCount \in Nat \cup {-1} /\ columns \in Schemas \cup {{}} /\ profile \in Profiles
  BY DEF TInv, TypeOK, InOrder
<1>2. VolumeRules \subseteq Rules
  <2>1. CASE rowCount = 0
    BY <2>1 DEF VolumeRules
  <2>2. CASE rowCount # 0
    <3>1. MinRows(rowCount) \in Nat
      BY <1>1, <2>2 DEF MinRows, AtLeastOne, TInv, InOrder
    <3> QED BY <2>2, <3>1 DEF VolumeRules, Rule, Rules, Checks
  <2> QED BY <2>1, <2>2
<1>3. SchemaRules \subseteq Rules
  BY <1>1 DEF SchemaRules, Rule, Rules, Checks
<1>4. CompletenessRules \subseteq Rules
  BY DEF CompletenessRules, Rule, Rules, Checks
<1>5. UniquenessRules \subseteq Rules
  BY DEF UniquenessRules, Rule, Rules, Checks
<1>6. StatusRules \subseteq Rules
  BY <1>1 DEF StatusRules, Rule, Rules, Checks, Profiles
<1>7. ValidityRules \subseteq Rules
  BY <1>6 DEF ValidityRules, Rule, Rules, Checks
<1>8. FreshnessRules \subseteq Rules
  BY DEF FreshnessRules, Rule, Rules, Checks
<1> QED BY <1>2, <1>3, <1>4, <1>5, <1>7, <1>8

\* Before discovery there are no rules.
LEMMA Initial == Init => TInv
<1> SUFFICES ASSUME Init PROVE TInv
  OBVIOUS
<1> USE DEF None
<1>1. TypeOK
  BY TableAssumption DEF Init, TypeOK
<1>2. InOrder /\ AllMade /\ NoneMissing
  BY DEF Init, InOrder, AllMade, NoneMissing
<1> QED BY <1>1, <1>2 DEF TInv

\* Changing a threshold makes no rule another rule.
LEMMA EditedTyped ==
    ASSUME NEW r \in Rules, NEW n \in Nat
    PROVE  /\ [r EXCEPT !.threshold = n] \in Rules
           /\ [r EXCEPT !.threshold = n].check = r.check
           /\ [r EXCEPT !.threshold = n].parameter = r.parameter
           /\ [r EXCEPT !.threshold = n].minRows = r.minRows
BY DEF Rules

\* The rules of an edited list are rules, with the checks there were.
LEMMA ThresholdTyped ==
    ASSUME TypeOK, NEW r \in rules, NEW n \in Thresholds
    PROVE  /\ WithThreshold(r, n) \subseteq Rules
           /\ \A c : (\E q \in rules : q.check = c) => \E q \in WithThreshold(r, n) : q.check = c
<1>1. rules \subseteq Rules /\ r \in Rules /\ n \in Nat
  BY TableAssumption DEF TypeOK
<1>2. [r EXCEPT !.threshold = n] \in Rules /\ [r EXCEPT !.threshold = n].check = r.check
  BY <1>1, EditedTyped
<1> QED BY <1>1, <1>2 DEF WithThreshold

\* A rule that is switched off or on is a rule of the list.
LEMMA ToggledTyped ==
    ASSUME TypeOK, NEW r \in rules
    PROVE  Toggled(r) \subseteq Checks
<1>1. r.check \in Checks /\ inactive \subseteq Checks
  BY DEF TypeOK, Rules
<1> QED BY <1>1 DEF Toggled

\* What is kept of a list, and what is then missing, are of their types.
LEMMA KeptTyped ==
    ASSUME TypeOK, NEW S \in SUBSET Rules, NEW off \in SUBSET Checks, KeepActive(S, off)
    PROVE  rules' \subseteq Rules /\ inactive' \subseteq Checks /\ withdrawn' \subseteq Checks
BY DEF TypeOK, KeepActive, Active

\* Every step keeps the types.
LEMMA TypeStep == TInv /\ [Next]_vars => TypeOK'
<1> SUFFICES ASSUME TInv, [Next]_vars PROVE TypeOK'
  OBVIOUS
<1> USE DEF None
<1>0. TypeOK /\ table \in Tables /\ Total \in Nat
  <2>1. TypeOK /\ table \in Tables
    BY DEF TInv, TypeOK, Tables, Column
  <2> QED BY <2>1, RowsSplit DEF Total
<1>1. CASE Load
  <2>1. table' \in [Values \cup {Null} -> Counts]
    BY <1>0, <1>1 DEF Load, TypeOK
  <2>2. age' \in Ages /\ changes' \in 0 .. MaxChanges
    BY <1>0, <1>1, TableAssumption DEF Load, Change, TypeOK
  <2> QED BY <1>0, <1>1, <2>1, <2>2 DEF Load, TypeOK, discovery, session
<1>2. CASE Delete
  <2>1. table' \in [Values \cup {Null} -> Counts]
    BY <1>0, <1>2 DEF Delete, TypeOK
  <2>2. age' \in Ages \cup {-1} /\ changes' \in 0 .. MaxChanges
    BY <1>0, <1>2, TableAssumption DEF Delete, Change, TypeOK
  <2> QED BY <1>0, <1>2, <2>1, <2>2 DEF Delete, TypeOK, discovery, session
<1>3. CASE Alter
  BY <1>0, <1>3, TableAssumption DEF Alter, Change, TypeOK, discovery, session
<1>4. CASE TimePasses
  BY <1>0, <1>4, TableAssumption DEF TimePasses, Change, TypeOK, discovery, session
<1>5. CASE ReadColumns
  BY <1>0, <1>5 DEF ReadColumns, TypeOK, source, session
<1>6. CASE ReadRowCount
  BY <1>0, <1>6 DEF ReadRowCount, TypeOK, source, session
<1>7. CASE ProfileColumn
  <2>1. profile' \in Profiles
    <3>1. CASE profile' = [total |-> 0, nulls |-> 0, distinct |-> 0, samples |-> {}]
      BY <3>1 DEF Profiles
    <3>2. ASSUME NEW S \in Samples,
                 profile' = [total |-> AtLeastOne(Total), nulls |-> table[Null],
                             distinct |-> Distinct, samples |-> S]
          PROVE  profile' \in Profiles
      <4>1. S \subseteq Values
        BY <3>2 DEF Samples, Present
      <4>2. AtLeastOne(Total) \in Nat
        BY <1>0 DEF AtLeastOne
      <4>3. table[Null] \in Nat
        BY <1>0, ColumnFinite DEF Column
      <4>4. Distinct \in Nat
        BY <1>0, DistinctIsNat DEF Distinct, Present
      <4> QED BY <3>2, <4>1, <4>2, <4>3, <4>4 DEF Profiles
    <3> QED BY <1>7, <3>1, <3>2 DEF ProfileColumn
  <2> QED BY <1>0, <1>7, <2>1 DEF ProfileColumn, TypeOK, source, session
<1>8. CASE InferSemantics
  BY <1>0, <1>8 DEF InferSemantics, TypeOK, source, session
<1>9. CASE GenerateRules
  BY <1>0, <1>9, MadeTyped DEF GenerateRules, TypeOK, source, discovery
<1>10. ASSUME Edit PROVE edits' \in 0 .. MaxEdits
  BY <1>0, <1>10, TableAssumption DEF Edit, TypeOK
<1>11. CASE UpdateRule
  <2>1. rules' \subseteq Rules /\ inactive' \subseteq Checks
    BY <1>0, <1>11, ThresholdTyped, ToggledTyped DEF UpdateRule, TypeOK
  <2>2. edits' \in 0 .. MaxEdits
    BY <1>10, <1>11 DEF UpdateRule
  <2> QED BY <1>0, <1>11, <2>1, <2>2 DEF UpdateRule, TypeOK, source, discovery
<1>12. CASE ModifyRule
  <2>1. PICK S \in SUBSET Rules, off \in SUBSET Checks : KeepActive(S, off)
    <3>1. rules \in SUBSET Rules /\ inactive \in SUBSET Checks
      BY <1>0 DEF TypeOK
    <3>2. ASSUME NEW r \in rules, NEW n \in Thresholds, KeepActive(WithThreshold(r, n), inactive)
          PROVE  \E S \in SUBSET Rules, off \in SUBSET Checks : KeepActive(S, off)
      <4>1. WithThreshold(r, n) \in SUBSET Rules
        BY <1>0, ThresholdTyped
      <4> QED BY <3>1, <3>2, <4>1
    <3>3. ASSUME NEW r \in rules, KeepActive(rules, Toggled(r))
          PROVE  \E S \in SUBSET Rules, off \in SUBSET Checks : KeepActive(S, off)
      <4>1. Toggled(r) \in SUBSET Checks
        BY <1>0, ToggledTyped
      <4> QED BY <3>1, <3>3, <4>1
    <3> QED BY <1>12, <3>2, <3>3 DEF ModifyRule
  <2>2. rules' \subseteq Rules /\ inactive' \subseteq Checks /\ withdrawn' \subseteq Checks
    BY <1>0, <2>1, KeptTyped
  <2>3. edits' \in 0 .. MaxEdits
    BY <1>10, <1>12 DEF ModifyRule
  <2> QED BY <1>0, <1>12, <2>2, <2>3 DEF ModifyRule, TypeOK, source, discovery
<1>13. CASE BuildProcedure
  <2>1. rules' \subseteq Rules /\ inactive' \subseteq Checks /\ withdrawn' \subseteq Checks
    BY <1>0, <1>13, KeptTyped DEF BuildProcedure, TypeOK
  <2>2. procedure' \subseteq Rules
    BY <1>0, <1>13 DEF BuildProcedure, TypeOK, Active
  <2> QED BY <1>0, <1>13, <2>1, <2>2 DEF BuildProcedure, TypeOK, source, discovery
<1>14. CASE UNCHANGED vars
  BY <1>0, <1>14 DEF vars, source, discovery, session, TypeOK
<1> QED
  BY <1>1, <1>2, <1>3, <1>4, <1>5, <1>6, <1>7, <1>8, <1>9, <1>11, <1>12, <1>13, <1>14 DEF Next

\* Others change the table only: the agents' state stays as it was.
Elsewhere == UNCHANGED <<nullable, discovery, session>>

\* Every step keeps the order of discovery, rules and procedure.
LEMMA InOrderStep == TInv /\ [Next]_vars => InOrder'
<1> SUFFICES ASSUME TInv, [Next]_vars PROVE InOrder'
  OBVIOUS
<1>0. InOrder
  BY DEF TInv
<1> USE DEF InOrder
<1>1. CASE Elsewhere
  BY <1>0, <1>1 DEF Elsewhere, discovery, session
<1>2. CASE ReadColumns
  BY <1>0, <1>2 DEF ReadColumns, session
<1>3. CASE ReadRowCount
  BY <1>0, <1>3 DEF ReadRowCount, session
<1>4. CASE ProfileColumn
  BY <1>0, <1>4 DEF ProfileColumn, session
<1>5. CASE InferSemantics
  BY <1>0, <1>5 DEF InferSemantics, session
<1>6. CASE GenerateRules
  BY <1>0, <1>6 DEF GenerateRules, discovery
<1>7. CASE UpdateRule
  BY <1>0, <1>7 DEF UpdateRule, discovery
<1>8. CASE ModifyRule
  BY <1>0, <1>8 DEF ModifyRule, discovery
<1>9. CASE BuildProcedure
  BY <1>0, <1>9 DEF BuildProcedure, discovery
<1> QED
  BY <1>1, <1>2, <1>3, <1>4, <1>5, <1>6, <1>7, <1>8, <1>9
  DEF Next, Load, Delete, Alter, TimePasses, Elsewhere, vars

\* The agent makes each rule as its kind says.
LEMMA MakesRules ==
    ASSUME TInv, meaning # "not_inferred",
           NEW r \in UNION {VolumeRules, SchemaRules, CompletenessRules, UniquenessRules,
                            ValidityRules, FreshnessRules}
    PROVE  Made(r)
<1> USE DEF None, Made, Rule
<1>1. ASSUME r \in VolumeRules PROVE Made(r)
  <2>1. rowCount \in Nat /\ rowCount # 0
    BY <1>1 DEF TInv, TypeOK, InOrder, VolumeRules
  <2> QED BY <1>1, <2>1 DEF VolumeRules
<1>2. ASSUME r \in SchemaRules PROVE Made(r)
  BY <1>2 DEF SchemaRules
<1>3. ASSUME r \in CompletenessRules PROVE Made(r)
  BY <1>3 DEF CompletenessRules
<1>4. ASSUME r \in UniquenessRules PROVE Made(r)
  BY <1>4 DEF UniquenessRules
<1>5. ASSUME r \in ValidityRules PROVE Made(r)
  BY <1>5 DEF ValidityRules, StatusRules
<1>6. ASSUME r \in FreshnessRules PROVE Made(r)
  BY <1>6 DEF FreshnessRules
<1> QED BY <1>1, <1>2, <1>3, <1>4, <1>5, <1>6

\* What a reviewer leaves of a list was made so, too.
LEMMA EditedMade ==
    ASSUME TypeOK, AllMade, NEW r \in rules, NEW n \in Thresholds
    PROVE  \A q \in WithThreshold(r, n) : Made(q)
<1>1. r \in Rules /\ n \in Nat
  BY TableAssumption DEF TypeOK
<1>2. Made([r EXCEPT !.threshold = n])
  BY <1>1, EditedTyped DEF AllMade, Made
<1> QED BY <1>2 DEF WithThreshold, AllMade

\* Every step leaves the rules as they were made, apart from edited thresholds.
LEMMA MadeStep == TInv /\ [Next]_vars => AllMade'
<1> SUFFICES ASSUME TInv, [Next]_vars PROVE AllMade'
  OBVIOUS
<1>0. AllMade /\ InOrder /\ TypeOK
  BY DEF TInv
<1> USE DEF AllMade
<1>1. CASE Elsewhere
  BY <1>0, <1>1 DEF Elsewhere, discovery, session, Made
<1>2. CASE ReadColumns
  BY <1>0, <1>2 DEF ReadColumns, session, Made
<1>3. CASE ReadRowCount
  BY <1>0, <1>3 DEF ReadRowCount, session, Made, InOrder
<1>4. CASE ProfileColumn
  BY <1>0, <1>4 DEF ProfileColumn, session, Made
<1>5. CASE InferSemantics
  BY <1>0, <1>5 DEF InferSemantics, session, Made
<1>6. CASE GenerateRules
  BY <1>0, <1>6, MakesRules DEF GenerateRules, discovery, Made
<1>7. CASE UpdateRule
  <2>1. rowCount' = rowCount /\ procedure' = procedure
    BY <1>7 DEF UpdateRule, discovery
  <2>2. \A q \in rules' : Made(q)
    BY <1>0, <1>7, EditedMade DEF UpdateRule
  <2> QED BY <1>0, <2>1, <2>2 DEF Made
<1>8. CASE ModifyRule
  <2>1. rowCount' = rowCount /\ procedure' = procedure
    BY <1>8 DEF ModifyRule, discovery
  <2>2. \A q \in rules' : Made(q)
    BY <1>0, <1>8, EditedMade DEF ModifyRule, KeepActive, Active
  <2> QED BY <1>0, <2>1, <2>2 DEF Made
<1>9. CASE BuildProcedure
  <2>1. rules' \cup procedure' \subseteq rules \cup procedure /\ rowCount' = rowCount
    BY <1>9 DEF BuildProcedure, KeepActive, Active, discovery
  <2> QED BY <1>0, <2>1 DEF Made
<1> QED
  BY <1>1, <1>2, <1>3, <1>4, <1>5, <1>6, <1>7, <1>8, <1>9
  DEF Next, Load, Delete, Alter, TimePasses, Elsewhere, vars

\* The agent leaves no rule out.
LEMMA MakesAll ==
    ASSUME NEW set, NEW out,
           UNION {VolumeRules, SchemaRules, CompletenessRules, UniquenessRules,
                  ValidityRules, FreshnessRules} \subseteq set
    PROVE  Complete(set, out)
<1>1. ASSUME rowCount > 0 PROVE \E r \in set : r.check = "volume"
  <2>1. [Rule("volume", 50, None) EXCEPT !.minRows = MinRows(rowCount)] \in VolumeRules
    BY <1>1 DEF VolumeRules
  <2>2. [Rule("volume", 50, None) EXCEPT !.minRows = MinRows(rowCount)].check = "volume"
    BY DEF Rule
  <2> QED BY <2>1, <2>2
<1>2. ASSUME meaning = "id" PROVE \E r \in set : r.check = "unique"
  <2>1. Rule("unique", 0, None) \in UniquenessRules
    BY <1>2 DEF UniquenessRules
  <2>2. Rule("unique", 0, None).check = "unique"
    BY DEF Rule
  <2> QED BY <2>1, <2>2
<1> QED BY <1>1, <1>2 DEF Complete

\* Nothing is missing that was not missing, or is inactive.
LEMMA KeptComplete ==
    ASSUME NEW S, NEW out, NEW off, Complete(S, out)
    PROVE  Complete(Active(S, off), out \cup off)
BY DEF Complete, Active

\* A list stays complete when a threshold is edited, ...
LEMMA EditedComplete ==
    ASSUME TypeOK, NoneMissing, NEW r \in rules, NEW n \in Thresholds
    PROVE  Complete(WithThreshold(r, n), withdrawn)
<1>1. Complete(rules, withdrawn)
  BY DEF NoneMissing
<1>2. \A c : (\E q \in rules : q.check = c) => \E q \in WithThreshold(r, n) : q.check = c
  BY ThresholdTyped
<1> QED BY <1>1, <1>2 DEF Complete

\* ... and when inactive rules are left out, which is noted.
LEMMA LeftOut ==
    ASSUME NEW S, NEW off, Complete(S, withdrawn), KeepActive(S, off), UNCHANGED discovery
    PROVE  Complete(rules, withdrawn)'
<1>1. Complete(Active(S, off), withdrawn \cup off)
  BY KeptComplete
<1> QED BY <1>1 DEF KeepActive, Complete, discovery

\* What is complete stays so while more is noted.
LEMMA StaysComplete ==
    ASSUME Complete(procedure, withdrawn), withdrawn \subseteq withdrawn',
           procedure' = procedure, UNCHANGED discovery
    PROVE  Complete(procedure, withdrawn)'
BY DEF Complete, discovery

\* No step takes a rule out that is active.
LEMMA CompleteStep == TInv /\ [Next]_vars => NoneMissing'
<1> SUFFICES ASSUME TInv, [Next]_vars PROVE NoneMissing'
  OBVIOUS
<1>0. NoneMissing /\ InOrder /\ TypeOK
  BY DEF TInv
<1> USE DEF NoneMissing
<1>1. CASE Elsewhere
  BY <1>0, <1>1 DEF Elsewhere, discovery, session, Complete
<1>2. CASE ReadColumns
  BY <1>0, <1>2 DEF ReadColumns, session, Complete
<1>3. CASE ReadRowCount
  BY <1>0, <1>3 DEF ReadRowCount, session, InOrder
<1>4. CASE ProfileColumn
  BY <1>0, <1>4 DEF ProfileColumn, session, Complete
<1>5. CASE InferSemantics
  BY <1>0, <1>5 DEF InferSemantics, session, InOrder
<1>6. CASE GenerateRules
  <2>1. Complete(rules', withdrawn)
    BY <1>6, MakesAll DEF GenerateRules
  <2> QED BY <1>0, <1>6, <2>1 DEF GenerateRules, discovery, Complete
<1>7. CASE UpdateRule
  <2>1. Complete(rules', withdrawn)
    BY <1>0, <1>7, EditedComplete DEF UpdateRule
  <2> QED BY <1>0, <1>7, <2>1 DEF UpdateRule, discovery, Complete
<1>8. CASE ModifyRule
  <2>1. UNCHANGED discovery /\ procedure' = procedure
    BY <1>8 DEF ModifyRule
  <2>2. Complete(rules, withdrawn)'
    <3>1. PICK r \in rules :
            \/ \E n \in Thresholds : KeepActive(WithThreshold(r, n), inactive)
            \/ KeepActive(rules, Toggled(r))
      BY <1>8 DEF ModifyRule
    <3>2. Complete(rules, withdrawn)
      BY <1>0, <3>1
    <3>3. CASE KeepActive(rules, Toggled(r))
      BY <2>1, <3>2, <3>3, LeftOut
    <3>4. ASSUME NEW n \in Thresholds, KeepActive(WithThreshold(r, n), inactive)
          PROVE  Complete(rules, withdrawn)'
      <4>1. Complete(WithThreshold(r, n), withdrawn)
        BY <1>0, EditedComplete
      <4> QED BY <2>1, <3>4, <4>1, LeftOut
    <3> QED BY <3>1, <3>3, <3>4
  <2>3. withdrawn \subseteq withdrawn'
    BY <1>8 DEF ModifyRule, KeepActive
  <2>4. (procedure # {})' => Complete(procedure, withdrawn)'
    BY <1>0, <2>1, <2>3, StaysComplete
  <2> QED BY <2>2, <2>4
<1>9. CASE BuildProcedure
  <2>1. UNCHANGED discovery /\ KeepActive(rules, inactive) /\ Complete(rules, withdrawn)
    BY <1>0, <1>9 DEF BuildProcedure
  <2>2. Complete(rules, withdrawn)'
    BY <2>1, LeftOut
  <2>3. CASE procedure' = rules'
    BY <2>2, <2>3 DEF Complete
  <2>4. CASE procedure' = procedure
    <3>1. withdrawn \subseteq withdrawn'
      BY <2>1 DEF KeepActive
    <3>2. (procedure # {})' => Complete(procedure, withdrawn)'
      BY <1>0, <2>1, <2>4, <3>1, StaysComplete
    <3> QED BY <2>2, <3>2
  <2> QED BY <1>9, <2>3, <2>4 DEF BuildProcedure, KeepActive
<1> QED
  BY <1>1, <1>2, <1>3, <1>4, <1>5, <1>6, <1>7, <1>8, <1>9
  DEF Next, Load, Delete, Alter, TimePasses, Elsewhere, vars

\* All of it holds of every state the table, the agents and the reviewers reach.
THEOREM TableInvariant == Spec => []TInv
<1>1. Init => TInv
  BY Initial
<1>2. TInv /\ [Next]_vars => TInv'
  BY TypeStep, InOrderStep, MadeStep, CompleteStep DEF TInv
<1> QED BY <1>1, <1>2, PTL DEF Spec

\* The types of table, discovery, rules and procedure.
THEOREM TableTypeCorrect == Spec => []TypeOK
<1>1. TInv => TypeOK
  BY DEF TInv
<1> QED BY <1>1, TableInvariant, PTL

-----------------------------------------------------------------------------
(* What a verdict says                                                     *)

\* A rate of at most 0 percent is no row at all.
LEMMA NoneAtZero ==
    ASSUME TypeOK, NEW S \in SUBSET Column, RateAtMost(CountIn(S), 0)
    PROVE  \A v \in S : table[v] = 0
<1>1. table \in Tables
  BY DEF TypeOK, Tables, Column
<1>2. CountIn(S) \in Nat /\ Total \in Nat
  BY <1>1, RowsSplit DEF CountIn, Total
<1>3. CountIn(S) = 0
  BY <1>2 DEF RateAtMost
<1> QED BY <1>1, <1>3, NoRows DEF CountIn

\* Kind by kind: what the status PASS of a rule says of the rows.
LEMMA MeansDescribed == TInv => PassMeansDescribed
<1> SUFFICES ASSUME TInv, NEW r \in procedure, Passes(r)
             PROVE  \/ Described(r)
                    \/ r.check \in {"amount", "status"} /\ r.threshold > 0
                    \/ r.check = "email" /\ 100 * CountIn(Invalid) <= 99 * Total
                    \/ r.check = "fresh" /\ (age = None \/ age = 49)
  BY DEF PassMeansDescribed
<1> USE DEF None
<1>0. TypeOK /\ Made(r) /\ table \in Tables /\ r \in Rules
  BY DEF TInv, TypeOK, AllMade, Tables, Column
<1>1. /\ r.check \in Checks /\ r.threshold \in Nat
      /\ r.allowed \in SUBSET Values /\ r.baseline \in Schemas \cup {{}}
  BY <1>0 DEF Rules
<1>2. CASE r.check = "not_null"
  <2>1. RateAtMost(CountIn({Null}), 0)
    BY <1>0, <1>2 DEF Passes, Violating, Limit, Made
  <2>2. {Null} \in SUBSET Column
    BY DEF Column
  <2>3. table[Null] = 0
    BY <1>0, <2>1, <2>2, NoneAtZero
  <2> QED BY <1>2, <2>3 DEF Described
<1>3. CASE r.check = "unique"
  <2>1. Total = Distinct
    BY <1>3 DEF Passes
  <2>2. \A v \in Values : table[v] <= 1
    BY <1>0, <2>1, AllDistinct DEF Total, Distinct, Present
  <2> QED BY <1>3, <2>2 DEF Described
<1>4. CASE r.check = "email"
  <2>1. RateAtMost(CountIn(Invalid), 99)
    BY <1>0, <1>4 DEF Passes, Violating, Limit, Made
  <2> QED BY <1>4, <2>1 DEF RateAtMost
<1>11. CASE r.check \in {"amount", "status"} /\ r.threshold # 0
  BY <1>1, <1>11
<1>5. CASE r.check = "amount" /\ r.threshold = 0
  <2>1. RateAtMost(CountIn(Invalid), 0)
    BY <1>0, <1>5 DEF Passes, Violating, Limit, Made
  <2>2. Invalid \in SUBSET Column
    BY TableAssumption DEF Column
  <2>3. \A v \in Invalid : table[v] = 0
    BY <1>0, <2>1, <2>2, NoneAtZero
  <2> QED BY <1>5, <2>3 DEF Described
<1>6. CASE r.check = "status" /\ r.threshold = 0
  <2>1. RateAtMost(CountIn(Values \ r.allowed), 0)
    BY <1>0, <1>6 DEF Passes, Violating, Limit, Made
  <2>2. Values \ r.allowed \in SUBSET Column
    BY DEF Column
  <2>3. \A v \in Values \ r.allowed : table[v] = 0
    BY <1>0, <2>1, <2>2, NoneAtZero
  <2> QED BY <1>6, <2>3 DEF Described
<1>7. CASE r.check = "volume"
  <2>1. rowCount \in Nat /\ Total \in Nat
    <3>1. rowCount > 0 /\ rowCount \in Nat \cup {-1}
      BY <1>0, <1>7 DEF Made, TypeOK
    <3>2. Total \in Nat
      BY <1>0, RowsSplit DEF Total
    <3> QED BY <3>1, <3>2
  <2>2. Total >= MinRows(rowCount)
    BY <1>0, <1>7 DEF Passes, Made
  <2>3. 2 * Total + 1 >= rowCount
    BY <2>1, <2>2, HalfAtLeast
  <2> QED BY <1>7, <2>3 DEF Described
<1>8. CASE r.check = "schema"
  <2>1. Cardinality(schema \ r.baseline) + Cardinality(r.baseline \ schema) = 0
    BY <1>8 DEF Passes, Drift
  <2>2. schema = r.baseline
    BY <1>0, <1>1, <2>1, NoDrift DEF TypeOK
  <2> QED BY <1>8, <2>2 DEF Described
<1>9. CASE r.check = "fresh"
  <2>1. age = None \/ age \div 2 <= 24
    BY <1>9 DEF Passes, Fresh, LagHours
  <2>2. age \in Nat \cup {-1}
    BY <1>0, TableAssumption DEF TypeOK
  <2>3. age = None \/ age <= 49
    BY <2>1, <2>2
  <2> QED BY <1>9, <2>2, <2>3 DEF Described
<1>10. CASE r.check = "sparse"
  BY <1>10 DEF Described
<1> QED BY <1>1, <1>2, <1>3, <1>4, <1>5, <1>6, <1>11, <1>7, <1>8, <1>9, <1>10 DEF Checks

\* No rows are less than the one row at least a volume rule asks for.
LEMMA EmptiedFails == TInv => EmptiedTableFails
<1> SUFFICES ASSUME TInv, rowCount > 0, procedure # {}, Total = 0, "volume" \notin withdrawn
             PROVE  \E r \in procedure : r.check = "volume" /\ ~Passes(r)
  BY DEF EmptiedTableFails
<1>1. PICK r \in procedure : r.check = "volume"
  BY DEF TInv, NoneMissing, Complete
<1>2. r.minRows = MinRows(rowCount) /\ rowCount \in Nat
  BY <1>1 DEF TInv, AllMade, Made, TypeOK, None
<1>3. MinRows(rowCount) \in Nat /\ MinRows(rowCount) >= 1
  BY <1>2, HalfAtLeast
<1>4. ~Passes(r)
  BY <1>1, <1>2, <1>3 DEF Passes
<1> QED BY <1>1, <1>4

\* The uniqueness rule of an identifier counts NULLs, and leaves none.
LEMMA IdIsKey == TInv => IdentifierIsKey
<1> SUFFICES ASSUME TInv, procedure # {}, meaning = "id", "unique" \notin withdrawn,
                    \A r \in procedure : Passes(r)
             PROVE  table[Null] = 0 /\ \A v \in Values : table[v] <= 1
  BY DEF IdentifierIsKey
<1>1. PICK r \in procedure : r.check = "unique"
  BY DEF TInv, NoneMissing, Complete
<1>2. Total = Distinct
  BY <1>1 DEF Passes
<1>3. table \in Tables
  BY DEF TInv, TypeOK, Tables, Column
<1> QED BY <1>2, <1>3, AllDistinct DEF Total, Distinct, Present

\* Whatever was loaded, deleted, altered, edited and taken out of use since
\* discovery: a rule that passes means what its description says, with the
\* exceptions stated.
THEOREM PassesMeanDescribed == Spec => []PassMeansDescribed
BY MeansDescribed, TableInvariant, PTL

\* A table that had rows does not lose all of them unnoticed, unless a reviewer
\* took the volume rule out of use: PUT or DELETE /rules, or a modification.
THEOREM EmptiedTablesFail == Spec => []EmptiedTableFails
BY EmptiedFails, TableInvariant, PTL

\* When all rules of a column taken for an identifier pass, it is a key, unless
\* a reviewer took the uniqueness rule out of use.
THEOREM IdentifiersAreKeys == Spec => []IdentifierIsKey
BY IdIsKey, TableInvariant, PTL

-----------------------------------------------------------------------------
(* What more rows do to a verdict                                          *)

\* A bound on a rate survives rows that are not counted against it, ...
LEMMA RateKept ==
    ASSUME NEW p \in Nat, NEW bad \in Nat, NEW all \in Nat, NEW more \in Nat,
           100 * bad <= p * all
    PROVE  100 * bad <= p * (all + more)
<1>1. p * (all + more) = p * all + p * more /\ p * all \in Nat /\ p * more \in Nat
  OBVIOUS
<1> QED BY <1>1

\* ... and a rate over its bound stays over it when all new rows count.
LEMMA RateStaysOver ==
    ASSUME NEW p \in Nat, NEW bad \in Nat, NEW all \in Nat, NEW more \in Nat,
           bad <= all, 100 * bad > p * all
    PROVE  100 * (bad + more) > p * (all + more)
<1>1. p * (all + more) = p * all + p * more /\ p * all \in Nat /\ p * more \in Nat
  OBVIOUS
<1>2. p <= 100
  <2>1. SUFFICES ASSUME p > 100 PROVE p * all >= 100 * all
    BY <2>1
  <2>2. PICK q \in Nat : p = 100 + q
    <3>1. p - 100 \in Nat /\ p = 100 + (p - 100)
      BY <2>1
    <3> QED BY <3>1
  <2>3. p * all = 100 * all + q * all /\ q * all \in Nat
    BY <2>2
  <2> QED BY <2>3
<1>3. p * more <= 100 * more
  <2>1. PICK q \in Nat : 100 = p + q
    <3>1. 100 - p \in Nat /\ 100 = p + (100 - p)
      BY <1>2
    <3> QED BY <3>1
  <2>2. 100 * more = p * more + q * more /\ q * more \in Nat
    BY <2>1
  <2> QED BY <2>2
<1> QED BY <1>1, <1>3

\* Rows are added, all of them with values of S.
LEMMA Gained ==
    ASSUME TypeOK, TypeOK', NEW S \in SUBSET Column, Gains(S)
    PROVE  \E more \in Nat :
             /\ more > 0
             /\ Total' = Total + more
             /\ CountIn(S)' = CountIn(S) + more
             /\ CountIn(Column \ S)' = CountIn(Column \ S)
<1> DEFINE a == SumFunctionOnSet(table, S)
<1> DEFINE b == SumFunctionOnSet(table', S)
<1> DEFINE c == SumFunctionOnSet(table, Column \ S)
<1> DEFINE d == SumFunctionOnSet(table', Column \ S)
<1>1. table \in Tables /\ table' \in Tables
  BY DEF TypeOK, Tables, Column
<1>2. \A v \in Column : table[v] \in Nat /\ table'[v] \in Nat /\ table[v] <= table'[v]
  BY <1>1, ColumnFinite DEF Gains, Column
<1>3. Total = a + c /\ Total' = b + d /\ a \in Nat /\ b \in Nat /\ c \in Nat /\ d \in Nat
  BY <1>1, RowsSplit DEF Total
<1>4. c = d
  <2>1. \A v \in Column \ S : table[v] \in Nat /\ table[v] = table'[v]
    BY <1>2 DEF Gains, Column
  <2>2. IsFiniteSet(Column \ S)
    BY ColumnFinite, FS_Subset
  <2> QED BY <2>1, <2>2, SumSame
<1>5. a <= b /\ (a = b => \A v \in S : table[v] = table'[v])
  <2>1. IsFiniteSet(S)
    BY ColumnFinite, FS_Subset
  <2>2. \A v \in S : table[v] \in Nat /\ table'[v] \in Nat /\ table[v] <= table'[v]
    BY <1>2
  <2> QED BY <2>1, <2>2, SumMono
<1>6. a # b
  <2>1. ASSUME \A v \in S : table[v] = table'[v] PROVE FALSE
    <3>1. \A v \in Column : table[v] = table'[v]
      BY <1>2, <2>1 DEF Gains, Column
    <3>2. table = table'
      BY <1>1, <3>1 DEF Tables
    <3> QED BY <3>2 DEF Gains
  <2> QED BY <1>5, <2>1
<1>7. CountIn(S) = a /\ CountIn(S)' = b /\ CountIn(Column \ S) = c /\ CountIn(Column \ S)' = d
  BY DEF CountIn
<1> HIDE DEF a, b, c, d
<1>8. b - a \in Nat /\ b - a > 0 /\ Total' = Total + (b - a) /\ b = a + (b - a)
  BY <1>3, <1>4, <1>5, <1>6
<1> QED BY <1>4, <1>7, <1>8

\* The limit, the violating values and the minimum of a rule.
LEMMA RuleFacts ==
    ASSUME NEW r \in Rules
    PROVE  /\ Limit(r) \in Nat
           /\ Violating(r) \in SUBSET Column
           /\ r.minRows \in Nat
BY TableAssumption DEF Rules, Limit, Violating, Column, None

\* GoodRowsNeverHurt, of a step: neither the rate nor the volume gets worse.
LEMMA GoodStep ==
    ASSUME TypeOK, TypeOK', NEW r \in Rules,
           r.check \in Counted \cup {"volume"}, Passes(r), Gains(Accepted(r))
    PROVE  Passes(r)'
<1>0. /\ Limit(r) \in Nat /\ Violating(r) \in SUBSET Column /\ r.minRows \in Nat
      /\ table \in Tables
  BY RuleFacts DEF TypeOK, Tables, Column
<1>1. CASE r.check = "volume"
  <2>1. Accepted(r) \in SUBSET Column
    BY <1>1 DEF Accepted, Column
  <2>2. PICK more \in Nat : Total' = Total + more
    BY <2>1, Gained
  <2>3. Total \in Nat /\ Total >= r.minRows
    BY <1>0, <1>1, RowsSplit DEF Passes, Total
  <2>4. Total' >= r.minRows
    BY <1>0, <2>2, <2>3
  <2> QED BY <1>1, <2>4 DEF Passes
<1>2. CASE r.check \in Counted
  <2>1. Accepted(r) = Column \ Violating(r)
    BY <1>2 DEF Accepted, Column, Counted
  <2>2. Accepted(r) \in SUBSET Column /\ Column \ Accepted(r) = Violating(r)
    BY <1>0, <2>1
  <2>3. PICK more \in Nat : /\ Total' = Total + more
                            /\ CountIn(Violating(r))' = CountIn(Violating(r))
    <3>1. \E more \in Nat : /\ Total' = Total + more
                            /\ CountIn(Column \ Accepted(r))' = CountIn(Column \ Accepted(r))
      BY <2>2, Gained
    <3> QED BY <2>2, <3>1 DEF CountIn
  <2>4. /\ Total \in Nat /\ CountIn(Violating(r)) \in Nat
        /\ Total > 0 /\ 100 * CountIn(Violating(r)) <= Limit(r) * Total
    BY <1>0, <1>2, RowsSplit DEF Passes, RateAtMost, Counted, Total, CountIn
  <2>5. 100 * CountIn(Violating(r)) <= Limit(r) * (Total + more)
    BY <1>0, <2>4, RateKept
  <2>6. Total' > 0 /\ 100 * CountIn(Violating(r))' <= Limit(r) * Total'
    BY <2>3, <2>4, <2>5
  <2> QED BY <1>2, <2>6 DEF Passes, RateAtMost, Counted
<1> QED BY <1>1, <1>2

\* BadRowsNeverHeal, of a step: the rate of violating rows does not sink.
LEMMA BadStep ==
    ASSUME TypeOK, TypeOK', NEW r \in Rules,
           r.check \in Counted, ~Passes(r), Total > 0, Gains(Violating(r))
    PROVE  ~Passes(r)'
<1>0. /\ Limit(r) \in Nat /\ Violating(r) \in SUBSET Column
      /\ table \in Tables
  BY RuleFacts DEF TypeOK, Tables, Column
<1>1. PICK more \in Nat : /\ Total' = Total + more
                          /\ CountIn(Violating(r))' = CountIn(Violating(r)) + more
  BY <1>0, Gained
<1>2. /\ Total \in Nat /\ CountIn(Violating(r)) \in Nat /\ CountIn(Violating(r)) <= Total
  <2>1. /\ SumFunction(table) \in Nat
        /\ SumFunctionOnSet(table, Violating(r)) \in Nat
        /\ SumFunctionOnSet(table, Column \ Violating(r)) \in Nat
        /\ SumFunction(table) = SumFunctionOnSet(table, Violating(r))
                                + SumFunctionOnSet(table, Column \ Violating(r))
    BY <1>0, RowsSplit
  <2> QED BY <2>1 DEF Total, CountIn
<1>3. Limit(r) * Total \in Nat /\ 100 * CountIn(Violating(r)) > Limit(r) * Total
  BY <1>0, <1>2 DEF Passes, RateAtMost, Counted
<1>4. 100 * (CountIn(Violating(r)) + more) > Limit(r) * (Total + more)
  BY <1>0, <1>2, <1>3, RateStaysOver
<1>5. ~(100 * CountIn(Violating(r))' <= Limit(r) * Total')
  <2>1. Limit(r) * (Total + more) \in Nat
    BY <1>0, <1>2
  <2> QED BY <1>1, <1>2, <1>4, <2>1
<1> QED BY <1>5 DEF Passes, RateAtMost, Counted

\* Rows a rule accepts never make it fail, in whatever state they arrive.
THEOREM GoodRowsKeepVerdicts == Spec => GoodRowsNeverHurt
<1>1. TypeOK /\ TypeOK' /\ [Next]_vars =>
        [\A r \in procedure :
           r.check \in Counted \cup {"volume"} /\ Gains(Accepted(r)) /\ Passes(r)
             => Passes(r)']_vars
  BY GoodStep DEF TypeOK
<1> QED BY <1>1, TableTypeCorrect, PTL DEF Spec, GoodRowsNeverHurt

\* Rows a rule objects to never make it pass, once there are rows.
THEOREM BadRowsKeepVerdicts == Spec => BadRowsNeverHeal
<1>1. TypeOK /\ TypeOK' /\ [Next]_vars =>
        [\A r \in procedure :
           r.check \in Counted /\ Gains(Violating(r)) /\ ~Passes(r) /\ Total > 0
             => ~Passes(r)']_vars
  BY BadStep DEF TypeOK
<1> QED BY <1>1, TableTypeCorrect, PTL DEF Spec, BadRowsNeverHeal
=============================================================================
