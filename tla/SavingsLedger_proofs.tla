------------------------ MODULE SavingsLedger_proofs ------------------------
(***************************************************************************)
(* Theorems of SavingsLedger, for any number of requests, transactions,    *)
(* products and accounts: the variables have their types whatever overlaps, *)
(* and as long as no two open requests share a row the balance of a product *)
(* is the sum of its transactions and the outbox owes growlio what they    *)
(* stand for.  The hypothesis is the one SavingsLedger_lostupdate shows to *)
(* be needed: the code computes new values from rows it has not locked.    *)
(*                                                                         *)
(* The sums are folds over sets; the first part shows that such a fold does *)
(* not depend on the order it takes the elements in, by induction over the *)
(* subsets of a finite set.                                                *)
(***************************************************************************)
EXTENDS SavingsLedger, TLAPS, FiniteSetTheorems, SequenceTheorems, WellFoundedInduction

-----------------------------------------------------------------------------
(* Induction: over the natural numbers for a set, and over the subsets of a *)
(* finite set, from the smaller ones to the larger.                         *)
LEMMA SetInduction ==
  ASSUME NEW S, S \subseteq Nat, 0 \in S, \A n \in S : n + 1 \in S
  PROVE  S = Nat
  <1> DEFINE Less == {p \in Nat \X Nat : p[1] < p[2]}
             C == Nat \ S
  <1>1. IsWellFoundedOn(Less, Nat)
    BY NatLessThanWellFounded DEF OpToRel
  <1>2. C \subseteq Nat
    OBVIOUS
  <1> SUFFICES ASSUME C # {} PROVE FALSE
    OBVIOUS
  <1> HIDE DEF C, Less
  <1>3. PICK n \in C : \A m \in C : ~(<<m, n>> \in Less)
    BY <1>1, <1>2, WFMin
  <1> USE DEF C
  <1>4. n \in Nat /\ n # 0 /\ n - 1 \in Nat /\ n - 1 < n
    OBVIOUS
  <1>5. n - 1 \notin C
    BY <1>3, <1>4 DEF Less
  <1>6. n - 1 \in S
    BY <1>4, <1>5
  <1>7. (n - 1) + 1 \in S
    BY <1>6
  <1> QED BY <1>4, <1>7

LEMMA SubsetInduction ==
  ASSUME NEW S, IsFiniteSet(S), NEW G, {} \in G,
         \A s \in SUBSET S : s # {} /\ (\A x \in s : s \ {x} \in G) => s \in G
  PROVE  SUBSET S \subseteq G
  <1> DEFINE K == {k \in Nat : \A s \in SUBSET S : Cardinality(s) = k => s \in G}
  <1>1. \A s \in SUBSET S : IsFiniteSet(s) /\ Cardinality(s) \in Nat
    BY FS_Subset, FS_CardinalityType
  <1>2. 0 \in K
    BY <1>1, FS_EmptySet
  <1>3. ASSUME NEW k \in K PROVE k + 1 \in K
    <2> SUFFICES ASSUME NEW s \in SUBSET S, Cardinality(s) = k + 1 PROVE s \in G
      OBVIOUS
    <2>1. s # {}
      BY FS_EmptySet
    <2>2. ASSUME NEW x \in s PROVE s \ {x} \in G
      <3>1. Cardinality(s \ {x}) = Cardinality(s) - 1
        BY <1>1, FS_RemoveElement
      <3>2. Cardinality(s \ {x}) = k
        BY <3>1
      <3> QED BY <3>2
    <2> QED BY <2>1, <2>2
  <1>4. K = Nat
    <2>1. K \subseteq Nat
      OBVIOUS
    <2> HIDE DEF K
    <2> QED BY <2>1, <1>2, <1>3, SetInduction
  <1> QED BY <1>1, <1>4

-----------------------------------------------------------------------------
(* The fold of the community modules takes the elements of a set in some    *)
(* order: what it computes does not depend on it.                           *)
First(s) == CHOOSE x \in s : TRUE

LEMMA FirstIsMember == ASSUME NEW s, s # {} PROVE First(s) \in s
  BY DEF First

AddUp(g, f, s) == IF s = {} THEN 0 ELSE f[First(s)] + g[s \ {First(s)}]

Sums(g, f, S) == g = [s \in SUBSET S |-> AddUp(g, f, s)]

LEMMA SumsExist ==
  ASSUME NEW S, IsFiniteSet(S), NEW f, \A x \in S : f[x] \in Int
  PROVE  \E g : Sums(g, f, S)
  <1> DEFINE Settled(g, k) == \A s \in SUBSET S : Cardinality(s) < k => g[s] = AddUp(g, f, s)
             K == {k \in Nat : \E g \in [SUBSET S -> Int] : Settled(g, k)}
  <1>1. \A s \in SUBSET S : IsFiniteSet(s) /\ Cardinality(s) \in Nat
    BY FS_Subset, FS_CardinalityType
  <1>2. 0 \in K
    <2>1. [s \in SUBSET S |-> 0] \in [SUBSET S -> Int]
      OBVIOUS
    <2>2. \A s \in SUBSET S : ~(Cardinality(s) < 0)
      BY <1>1
    <2> QED BY <2>1, <2>2
  <1>3. ASSUME NEW k \in K PROVE k + 1 \in K
    <2>1. PICK g \in [SUBSET S -> Int] : Settled(g, k)
      OBVIOUS
    <2> DEFINE h == [s \in SUBSET S |-> AddUp(g, f, s)]
    <2>2. \A s \in SUBSET S : AddUp(g, f, s) \in Int
      BY FirstIsMember DEF AddUp
    <2>3. h \in [SUBSET S -> Int]
      BY <2>2
    <2>4. Settled(h, k + 1)
      <3> SUFFICES ASSUME NEW s \in SUBSET S, Cardinality(s) < k + 1
                   PROVE  h[s] = AddUp(h, f, s)
        OBVIOUS
      <3>1. CASE s = {}
        BY <3>1 DEF AddUp
      <3>2. CASE s # {}
        <4> DEFINE u == s \ {First(s)}
        <4>1. u \in SUBSET S /\ Cardinality(u) = Cardinality(s) - 1
          BY <3>2, <1>1, FirstIsMember, FS_RemoveElement
        <4>2. Cardinality(u) < k
          BY <4>1, <1>1
        <4>3. g[u] = AddUp(g, f, u)
          BY <4>1, <4>2, <2>1
        <4> HIDE DEF u
        <4>4. h[u] = g[u]
          BY <4>1, <4>3
        <4>5. AddUp(h, f, s) = f[First(s)] + h[u] /\ AddUp(g, f, s) = f[First(s)] + g[u]
          BY <3>2 DEF AddUp, u
        <4>6. h[s] = AddUp(g, f, s)
          OBVIOUS
        <4> QED BY <4>4, <4>5, <4>6
      <3> QED BY <3>1, <3>2
    <2>5. k + 1 \in Nat
      OBVIOUS
    <2> HIDE DEF h
    <2> QED BY <2>3, <2>4, <2>5
  <1>4. K = Nat
    <2>1. K \subseteq Nat
      OBVIOUS
    <2> HIDE DEF K
    <2> QED BY <2>1, <1>2, <1>3, SetInduction
  <1>5. Cardinality(S) + 1 \in K
    <2>1. Cardinality(S) + 1 \in Nat
      BY FS_CardinalityType
    <2> QED BY <2>1, <1>4
  <1>6. PICK g \in [SUBSET S -> Int] : Settled(g, Cardinality(S) + 1)
    BY <1>5
  <1>7. \A s \in SUBSET S : Cardinality(s) < Cardinality(S) + 1
    BY <1>1, FS_Subset
  <1>8. \A s \in SUBSET S : g[s] = AddUp(g, f, s)
    BY <1>6, <1>7
  <1>9. Sums(g, f, S)
    BY <1>8 DEF Sums
  <1> QED BY <1>9

(* The fold of a set agrees with the folds of its subsets.                 *)
LEMMA SumFacts ==
  ASSUME NEW S, IsFiniteSet(S), NEW f, \A x \in S : f[x] \in Int
  PROVE  \A s \in SUBSET S :
            /\ SumOver(f, s) \in Int
            /\ s = {} => SumOver(f, s) = 0
            /\ s # {} => SumOver(f, s) = f[First(s)] + SumOver(f, s \ {First(s)})
  <1> DEFINE g == CHOOSE h : Sums(h, f, S)
  <1>1. Sums(g, f, S)
    BY SumsExist
  <1> HIDE DEF g
  <1>2. \A s \in SUBSET S : g[s] = AddUp(g, f, s)
    BY <1>1 DEF Sums
  <1>3. ASSUME NEW s \in SUBSET S PROVE g[s] = SumOver(f, s)
    <2> DEFINE i == CHOOSE h : Sums(h, f, s)
               G == {u \in SUBSET s : g[u] = i[u]}
    <2>1. IsFiniteSet(s) /\ \A x \in s : f[x] \in Int
      BY FS_Subset
    <2>2. Sums(i, f, s)
      BY <2>1, SumsExist
    <2>3. SumOver(f, s) = i[s]
      BY Zenon DEF SumOver, MapThenSumSet, MapThenFoldSet, Sums, AddUp, First
    <2> HIDE DEF i
    <2>4. \A u \in SUBSET s : i[u] = AddUp(i, f, u)
      BY <2>2 DEF Sums
    <2>5. {} \in G
      BY <1>2, <2>4 DEF AddUp
    <2>6. ASSUME NEW u \in SUBSET s, u # {}, \A x \in u : u \ {x} \in G
          PROVE  u \in G
      <3>1. First(u) \in u
        BY <2>6, FirstIsMember
      <3>2. g[u \ {First(u)}] = i[u \ {First(u)}]
        BY <2>6, <3>1
      <3>3. g[u] = AddUp(g, f, u) /\ i[u] = AddUp(i, f, u)
        BY <1>2, <2>4
      <3> QED BY <2>6, <3>2, <3>3 DEF AddUp
    <2>7. SUBSET s \subseteq G
      <3> HIDE DEF G
      <3> QED BY <2>1, <2>5, <2>6, SubsetInduction
    <2> QED BY <2>3, <2>7
  <1>4. \A s \in SUBSET S : s # {} => s \ {First(s)} \in SUBSET S /\ First(s) \in s
    BY FirstIsMember
  <1> DEFINE G == {s \in SUBSET S : SumOver(f, s) \in Int}
  <1>5. \A s \in SUBSET S :
            /\ s = {} => SumOver(f, s) = 0
            /\ s # {} => SumOver(f, s) = f[First(s)] + SumOver(f, s \ {First(s)})
    BY <1>2, <1>3, <1>4 DEF AddUp
  <1>6. {} \in G
    <2>1. {} \in SUBSET S
      OBVIOUS
    <2>2. SumOver(f, {}) = 0
      BY <1>5, <2>1
    <2> QED BY <2>1, <2>2
  <1>7. ASSUME NEW s \in SUBSET S, s # {}, \A x \in s : s \ {x} \in G
        PROVE  s \in G
    <2>1. First(s) \in s /\ s \ {First(s)} \in G
      BY <1>4, <1>7
    <2>2. SumOver(f, s) = f[First(s)] + SumOver(f, s \ {First(s)})
      BY <1>5, <1>7
    <2>3. SumOver(f, s \ {First(s)}) \in Int /\ f[First(s)] \in Int
      BY <2>1
    <2>4. SumOver(f, s) \in Int
      BY <2>2, <2>3
    <2> QED BY <2>4
  <1>8. SUBSET S \subseteq G
    <2> HIDE DEF G
    <2> QED BY <1>6, <1>7, SubsetInduction
  <1> QED BY <1>5, <1>8

LEMMA SumInt ==
  ASSUME NEW S, IsFiniteSet(S), NEW f, \A x \in S : f[x] \in Int
  PROVE  SumOver(f, S) \in Int
  BY SumFacts

LEMMA SumEmpty == ASSUME NEW f PROVE SumOver(f, {}) = 0
  BY SumFacts, FS_EmptySet

(* Any element may be taken first.                                         *)
LEMMA SumRemove ==
  ASSUME NEW S, IsFiniteSet(S), NEW f, \A x \in S : f[x] \in Int, NEW y \in S
  PROVE  SumOver(f, S) = f[y] + SumOver(f, S \ {y})
  <1> DEFINE G == {s \in SUBSET S : \A x \in s : SumOver(f, s) = f[x] + SumOver(f, s \ {x})}
  <1>1. {} \in G
    OBVIOUS
  <1>2. ASSUME NEW s \in SUBSET S, s # {}, \A x \in s : s \ {x} \in G
        PROVE  s \in G
    <2> SUFFICES ASSUME NEW x \in s PROVE SumOver(f, s) = f[x] + SumOver(f, s \ {x})
      OBVIOUS
    <2>1. PICK c \in s : c = First(s)
      BY <1>2, FirstIsMember
    <2>2. SumOver(f, s) = f[c] + SumOver(f, s \ {c})
      BY <1>2, <2>1, SumFacts
    <2>3. CASE x = c
      BY <2>2, <2>3
    <2>4. CASE x # c
      <3>1. SumOver(f, s \ {c}) = f[x] + SumOver(f, (s \ {c}) \ {x})
        BY <1>2, <2>4
      <3>2. SumOver(f, s \ {x}) = f[c] + SumOver(f, (s \ {x}) \ {c})
        BY <1>2, <2>4
      <3>3. (s \ {c}) \ {x} = (s \ {x}) \ {c}
        OBVIOUS
      <3>4. SumOver(f, (s \ {x}) \ {c}) \in Int /\ f[x] \in Int /\ f[c] \in Int
        BY SumFacts
      <3>5. PICK i \in Int, j \in Int, k \in Int :
               i = f[c] /\ j = f[x] /\ k = SumOver(f, (s \ {x}) \ {c})
        BY <3>4
      <3>6. SumOver(f, s \ {c}) = j + k /\ SumOver(f, s \ {x}) = i + k
        BY <3>1, <3>2, <3>3, <3>5
      <3>7. SumOver(f, s) = i + (j + k)
        BY <2>2, <3>5, <3>6
      <3> QED BY <3>5, <3>6, <3>7
    <2> QED BY <2>3, <2>4
  <1>3. SUBSET S \subseteq G
    <2> HIDE DEF G
    <2> QED BY <1>1, <1>2, SubsetInduction
  <1> QED BY <1>3

LEMMA SumSame ==
  ASSUME NEW S, IsFiniteSet(S), NEW f, NEW g, \A x \in S : f[x] \in Int /\ g[x] = f[x]
  PROVE  SumOver(g, S) = SumOver(f, S)
  <1> DEFINE G == {s \in SUBSET S : SumOver(g, s) = SumOver(f, s)}
  <1>1. {} \in G
    BY SumEmpty
  <1>2. ASSUME NEW s \in SUBSET S, s # {}, \A x \in s : s \ {x} \in G
        PROVE  s \in G
    <2>1. First(s) \in s
      BY <1>2, FirstIsMember
    <2>2. SumOver(f, s) = f[First(s)] + SumOver(f, s \ {First(s)})
      BY <1>2, SumFacts
    <2>3. SumOver(g, s) = g[First(s)] + SumOver(g, s \ {First(s)})
      BY <1>2, SumFacts
    <2> QED BY <1>2, <2>1, <2>2, <2>3
  <1>3. SUBSET S \subseteq G
    <2> HIDE DEF G
    <2> QED BY <1>1, <1>2, SubsetInduction
  <1> QED BY <1>3

(* A sum over a set is the sum over a part of it and over the rest.        *)
LEMMA SumSplit ==
  ASSUME NEW S, IsFiniteSet(S), NEW f, \A x \in S : f[x] \in Int, NEW A \in SUBSET S
  PROVE  SumOver(f, S) = SumOver(f, A) + SumOver(f, S \ A)
  <1> DEFINE G == {a \in SUBSET A : SumOver(f, S) = SumOver(f, a) + SumOver(f, S \ a)}
  <1>0. IsFiniteSet(A)
    BY FS_Subset
  <1>1. {} \in G
    <2>1. S \ {} = S /\ SumOver(f, S) \in Int
      BY SumInt
    <2> QED BY <2>1, SumEmpty
  <1>2. ASSUME NEW a \in SUBSET A, a # {}, \A x \in a : a \ {x} \in G
        PROVE  a \in G
    <2>1. PICK x \in a : TRUE
      BY <1>2
    <2>2. SumOver(f, S) = SumOver(f, a \ {x}) + SumOver(f, S \ (a \ {x}))
      BY <1>2
    <2>3. (S \ (a \ {x})) \ {x} = S \ a /\ x \in S \ (a \ {x})
      BY <2>1
    <2>4. IsFiniteSet(S \ (a \ {x})) /\ IsFiniteSet(a) /\ IsFiniteSet(a \ {x}) /\ IsFiniteSet(S \ a)
      BY FS_Subset
    <2>5. SumOver(f, S \ (a \ {x})) = f[x] + SumOver(f, S \ a)
      <3> DEFINE T == S \ (a \ {x})
      <3>1. IsFiniteSet(T) /\ x \in T /\ \A y \in T : f[y] \in Int
        BY <2>3, <2>4
      <3> HIDE DEF T
      <3>2. SumOver(f, T) = f[x] + SumOver(f, T \ {x})
        BY <3>1, SumRemove
      <3> QED BY <3>2, <2>3 DEF T
    <2>6. SumOver(f, a) = f[x] + SumOver(f, a \ {x})
      BY <2>1, <2>4, SumRemove
    <2>7. /\ SumOver(f, a \ {x}) \in Int /\ SumOver(f, S \ a) \in Int /\ f[x] \in Int
      BY <2>4, SumInt
    <2>8. PICK i \in Int, j \in Int, k \in Int :
             i = f[x] /\ j = SumOver(f, a \ {x}) /\ k = SumOver(f, S \ a)
      BY <2>7
    <2>9. SumOver(f, S) = j + (i + k) /\ SumOver(f, a) = i + j
      BY <2>2, <2>5, <2>6, <2>8
    <2> QED BY <2>8, <2>9
  <1>3. SUBSET A \subseteq G
    <2> HIDE DEF G
    <2> QED BY <1>0, <1>1, <1>2, SubsetInduction
  <1> QED BY <1>3

LEMMA SumSingle ==
  ASSUME NEW f, NEW x, f[x] \in Int
  PROVE  SumOver(f, {x}) = f[x]
  <1>1. SumOver(f, {x}) = f[x] + SumOver(f, {x} \ {x})
    BY FS_Singleton, SumRemove
  <1>2. {x} \ {x} = {}
    OBVIOUS
  <1> QED BY <1>1, <1>2, SumEmpty
-----------------------------------------------------------------------------
(* The rows a request stages, one after the other.                          *)
AddRows(g, f, s) == IF s = {} THEN <<>> ELSE g[s \ {First(s)}] \o f[First(s)]

Joins(g, f, S) == g = [s \in SUBSET S |-> AddRows(g, f, s)]

LEMMA JoinsExist ==
  ASSUME NEW S, IsFiniteSet(S), NEW f
  PROVE  \E g : Joins(g, f, S)
  <1> DEFINE Settled(g, k) == \A s \in SUBSET S : Cardinality(s) < k => g[s] = AddRows(g, f, s)
             K == {k \in Nat : \E g : Settled(g, k)}
  <1>1. \A s \in SUBSET S : IsFiniteSet(s) /\ Cardinality(s) \in Nat
    BY FS_Subset, FS_CardinalityType
  <1>2. 0 \in K
    <2>1. \A s \in SUBSET S : ~(Cardinality(s) < 0)
      BY <1>1
    <2> QED BY <2>1
  <1>3. ASSUME NEW k \in K PROVE k + 1 \in K
    <2>1. PICK g : Settled(g, k)
      OBVIOUS
    <2> DEFINE h == [s \in SUBSET S |-> AddRows(g, f, s)]
    <2>2. Settled(h, k + 1)
      <3> SUFFICES ASSUME NEW s \in SUBSET S, Cardinality(s) < k + 1
                   PROVE  h[s] = AddRows(h, f, s)
        OBVIOUS
      <3>1. CASE s = {}
        BY <3>1 DEF AddRows
      <3>2. CASE s # {}
        <4> DEFINE u == s \ {First(s)}
        <4>1. u \in SUBSET S /\ Cardinality(u) = Cardinality(s) - 1
          BY <3>2, <1>1, FirstIsMember, FS_RemoveElement
        <4>2. Cardinality(u) < k
          BY <4>1, <1>1
        <4>3. g[u] = AddRows(g, f, u)
          BY <4>1, <4>2, <2>1
        <4> HIDE DEF u
        <4>4. h[u] = g[u]
          BY <4>1, <4>3
        <4>5. AddRows(h, f, s) = h[u] \o f[First(s)] /\ AddRows(g, f, s) = g[u] \o f[First(s)]
          BY <3>2 DEF AddRows, u
        <4>6. h[s] = AddRows(g, f, s)
          OBVIOUS
        <4> QED BY <4>4, <4>5, <4>6
      <3> QED BY <3>1, <3>2
    <2>3. k + 1 \in Nat
      OBVIOUS
    <2> HIDE DEF h
    <2> QED BY <2>2, <2>3
  <1>4. K = Nat
    <2>1. K \subseteq Nat
      OBVIOUS
    <2> HIDE DEF K
    <2> QED BY <2>1, <1>2, <1>3, SetInduction
  <1>5. Cardinality(S) + 1 \in K
    <2>1. Cardinality(S) + 1 \in Nat
      BY FS_CardinalityType
    <2> QED BY <2>1, <1>4
  <1>6. PICK g : Settled(g, Cardinality(S) + 1)
    BY <1>5
  <1>7. \A s \in SUBSET S : Cardinality(s) < Cardinality(S) + 1
    BY <1>1, FS_Subset
  <1> DEFINE h == [s \in SUBSET S |-> g[s]]
  <1>8. ASSUME NEW s \in SUBSET S PROVE h[s] = AddRows(h, f, s)
    <2>1. g[s] = AddRows(g, f, s)
      BY <1>6, <1>7
    <2>2. CASE s = {}
      BY <2>1, <2>2 DEF AddRows
    <2>3. CASE s # {}
      BY <2>1, <2>3, FirstIsMember DEF AddRows
    <2> QED BY <2>2, <2>3
  <1>9. h = [s \in SUBSET S |-> AddRows(h, f, s)]
    BY <1>8
  <1> QED BY <1>9 DEF Joins

LEMMA JoinFacts ==
  ASSUME NEW S, IsFiniteSet(S), NEW f, NEW R, \A x \in S : f[x] \in Seq(R)
  PROVE  \A s \in SUBSET S :
            /\ RowsOver(f, s) \in Seq(R)
            /\ s = {} => RowsOver(f, s) = <<>>
            /\ s # {} => RowsOver(f, s) = RowsOver(f, s \ {First(s)}) \o f[First(s)]
  <1> DEFINE g == CHOOSE h : Joins(h, f, S)
  <1>1. Joins(g, f, S)
    BY JoinsExist
  <1> HIDE DEF g
  <1>2. \A s \in SUBSET S : g[s] = AddRows(g, f, s)
    BY <1>1 DEF Joins
  <1>3. ASSUME NEW s \in SUBSET S PROVE g[s] = RowsOver(f, s)
    <2> DEFINE i == CHOOSE h : Joins(h, f, s)
               G == {u \in SUBSET s : g[u] = i[u]}
    <2>1. IsFiniteSet(s)
      BY FS_Subset
    <2>2. Joins(i, f, s)
      BY <2>1, JoinsExist
    <2>3. RowsOver(f, s) = i[s]
      BY Zenon DEF RowsOver, FoldSet, MapThenFoldSet, Joins, AddRows, First
    <2> HIDE DEF i
    <2>4. \A u \in SUBSET s : i[u] = AddRows(i, f, u)
      BY <2>2 DEF Joins
    <2>5. {} \in G
      BY <1>2, <2>4 DEF AddRows
    <2>6. ASSUME NEW u \in SUBSET s, u # {}, \A x \in u : u \ {x} \in G
          PROVE  u \in G
      <3>1. First(u) \in u
        BY <2>6, FirstIsMember
      <3>2. g[u \ {First(u)}] = i[u \ {First(u)}]
        BY <2>6, <3>1
      <3>3. g[u] = AddRows(g, f, u) /\ i[u] = AddRows(i, f, u)
        BY <1>2, <2>4
      <3> QED BY <2>6, <3>2, <3>3 DEF AddRows
    <2>7. SUBSET s \subseteq G
      <3> HIDE DEF G
      <3> QED BY <2>1, <2>5, <2>6, SubsetInduction
    <2> QED BY <2>3, <2>7
  <1>4. \A s \in SUBSET S : s # {} => s \ {First(s)} \in SUBSET S /\ First(s) \in s
    BY FirstIsMember
  <1> DEFINE G == {s \in SUBSET S : RowsOver(f, s) \in Seq(R)}
  <1>5. \A s \in SUBSET S :
            /\ s = {} => RowsOver(f, s) = <<>>
            /\ s # {} => RowsOver(f, s) = RowsOver(f, s \ {First(s)}) \o f[First(s)]
    BY <1>2, <1>3, <1>4 DEF AddRows
  <1>6. {} \in G
    <2>1. {} \in SUBSET S
      OBVIOUS
    <2>2. RowsOver(f, {}) = <<>>
      BY <1>5, <2>1
    <2>3. <<>> \in Seq(R)
      OBVIOUS
    <2>4. RowsOver(f, {}) \in Seq(R)
      BY Zenon, <2>2, <2>3
    <2> QED BY <2>1, <2>4
  <1>7. ASSUME NEW s \in SUBSET S, s # {}, \A x \in s : s \ {x} \in G
        PROVE  s \in G
    <2>1. First(s) \in s /\ s \ {First(s)} \in G
      BY <1>4, <1>7
    <2>2. RowsOver(f, s) = RowsOver(f, s \ {First(s)}) \o f[First(s)]
      BY <1>5, <1>7
    <2>3. RowsOver(f, s \ {First(s)}) \in Seq(R) /\ f[First(s)] \in Seq(R)
      BY <2>1
    <2>4. RowsOver(f, s) \in Seq(R)
      BY <2>2, <2>3
    <2> QED BY <2>4
  <1>8. SUBSET S \subseteq G
    <2> HIDE DEF G
    <2> QED BY <1>6, <1>7, SubsetInduction
  <1> QED BY <1>5, <1>8

-----------------------------------------------------------------------------
(* Types.  What an open request holds, beside TypeOK: the shape of what it  *)
(* has loaded.                                                              *)
Maps(X, Y) == {<<>>} \cup (UNION {[A -> Y] : A \in SUBSET X})

OpenRequest ==
    [op : {"create", "update", "delete", "form"}, ids : SUBSET TxIds,
     old : Maps(TxIds, Entry), new : Entry \cup {Closed}, loaded : BOOLEAN,
     products : SUBSET Products, bal : Maps(Products, Int),
     acct : Maps(Products, Accounts \cup {NoAccount})]

Shape(r) ==
    /\ r.op \in {"create", "update"} => r.new \in Entry /\ \E t \in TxIds : r.ids = {t}
    /\ r.op = "create" => r.loaded /\ r.products = {r.new.product} \ {NoProduct}
    /\ r.op \in {"update", "delete"} => r.old \in [r.ids -> Entry]
    /\ r.op = "update" =>
          \A t \in r.ids : r.products = {r.new.product, r.old[t].product} \ {NoProduct}
    /\ r.op = "delete" => r.products = {r.old[t].product : t \in r.ids} \ {NoProduct}
    /\ r.op = "form" => r.loaded /\ r.ids = {} /\ \E p \in Products : r.products = {p}
    /\ r.loaded => /\ r.bal \in [r.products -> Int]
                   /\ r.acct \in [r.products -> Accounts \cup {NoAccount}]

TypeInv ==
    /\ TypeOK
    /\ relinks \in Nat
    /\ session \in [Sessions -> OpenRequest \cup {Closed}]
    /\ \A s \in Sessions : session[s] # Closed => Shape(session[s])

USE ConstantsAssumption

LEMMA ClosedIsNoRequest == Closed \notin OpenRequest
  BY DEF Closed, OpenRequest

LEMMA EntryFacts ==
  ASSUME NEW e \in Entry
  PROVE  /\ e.product \in Products \cup {NoProduct} /\ e.amount \in Amounts
         /\ e.amount \in Nat /\ e # Unused /\ e # Deleted
  BY DEF Entry

LEMMA OpenFacts ==
  ASSUME TypeInv, NEW s \in Sessions, session[s] # Closed
  PROVE  /\ session[s] \in OpenRequest /\ Shape(session[s])
         /\ session[s].ids \subseteq TxIds /\ IsFiniteSet(session[s].ids)
         /\ session[s].products \subseteq Products
  <1>1. session[s] \in OpenRequest /\ Shape(session[s])
    BY DEF TypeInv
  <1>2. session[s].ids \in SUBSET TxIds /\ session[s].products \subseteq Products
    BY <1>1 DEF OpenRequest
  <1> QED BY <1>1, <1>2, FS_Subset

(* A request as it is opened, and after it has loaded its products.         *)
LEMMA NothingLoaded == <<>> \in Maps(Products, Int)
                    /\ <<>> \in Maps(Products, Accounts \cup {NoAccount})
  BY DEF Maps

LEMMA LoadedFacts ==
  ASSUME TypeOK, NEW r \in OpenRequest
  PROVE  /\ Loaded(r) \in OpenRequest /\ Loaded(r).loaded
         /\ Loaded(r).op = r.op /\ Loaded(r).ids = r.ids /\ Loaded(r).old = r.old
         /\ Loaded(r).new = r.new /\ Loaded(r).products = r.products
         /\ Loaded(r).bal = [p \in r.products |-> balance[p]]
         /\ Loaded(r).acct = [p \in r.products |-> link[p]]
         /\ Loaded(r).bal \in [r.products -> Int]
         /\ Loaded(r).acct \in [r.products -> Accounts \cup {NoAccount}]
  <1> DEFINE b == [p \in r.products |-> balance[p]]
             a == [p \in r.products |-> link[p]]
  <1>1. r.products \in SUBSET Products
    BY DEF OpenRequest
  <1>2. b \in [r.products -> Int] /\ a \in [r.products -> Accounts \cup {NoAccount}]
    BY <1>1 DEF TypeOK
  <1>3. b \in Maps(Products, Int) /\ a \in Maps(Products, Accounts \cup {NoAccount})
    BY <1>1, <1>2 DEF Maps
  <1>4. Loaded(r) = [r EXCEPT !.bal = b, !.acct = a, !.loaded = TRUE]
    BY DEF Loaded
  <1> HIDE DEF a, b
  <1>5. /\ Loaded(r) \in OpenRequest /\ Loaded(r).loaded
        /\ Loaded(r).op = r.op /\ Loaded(r).ids = r.ids /\ Loaded(r).old = r.old
        /\ Loaded(r).new = r.new /\ Loaded(r).products = r.products
        /\ Loaded(r).bal = b /\ Loaded(r).acct = a
    BY <1>3, <1>4 DEF OpenRequest
  <1> QED BY <1>2, <1>5 DEF a, b

LEMMA InitTypeInv == Init => TypeInv
  <1> SUFFICES ASSUME Init PROVE TypeInv
    OBVIOUS
  <1>1. TypeOK
    BY DEF Init, TypeOK, Closed
  <1> QED BY <1>1 DEF Init, TypeInv

-----------------------------------------------------------------------------
(* The steps that open a request, load for it or close it.                  *)
LEMMA RequestStep ==
  ASSUME TypeInv, NEW s \in Sessions, NEW r \in OpenRequest \cup {Closed},
         r # Closed => Shape(r),
         session' = [session EXCEPT ![s] = r],
         tx' \in [TxIds -> Entry \cup {Unused, Deleted}],
         balance' \in [Products -> Int],
         link' = link,
         queue' \in Seq(Row) /\ Len(queue') =< MaxRows,
         corrected' \in [Products -> Int],
         relinks' = relinks
  PROVE  TypeInv'
  <1>1. /\ session' \in [Sessions -> OpenRequest \cup {Closed}]
        /\ session'[s] = r /\ \A o \in Sessions \ {s} : session'[o] = session[o]
    BY DEF TypeInv
  <1>2. \A o \in Sessions : session'[o] # Closed => Shape(session[o])'
    <2> SUFFICES ASSUME NEW o \in Sessions, session'[o] # Closed PROVE Shape(session[o])'
      OBVIOUS
    <2>1. PICK q : q = session'[o] /\ (q = r \/ q = session[o])
      BY <1>1
    <2>2. Shape(q)
      BY <2>1 DEF TypeInv
    <2>3. UNCHANGED link
      OBVIOUS
    <2> QED BY <2>1, <2>2 DEF Shape
  <1>3. \A o \in Sessions :
          /\ session'[o].op \in {"none", "create", "update", "delete", "form"}
          /\ session'[o].op \in {"create", "update"} => session'[o].new \in Entry
          /\ session'[o].op \in {"update", "delete"} =>
                session'[o].old \in [session'[o].ids -> Entry]
    <2> SUFFICES ASSUME NEW o \in Sessions
                 PROVE  /\ session'[o].op \in {"none", "create", "update", "delete", "form"}
                        /\ session'[o].op \in {"create", "update"} => session'[o].new \in Entry
                        /\ session'[o].op \in {"update", "delete"} =>
                              session'[o].old \in [session'[o].ids -> Entry]
      OBVIOUS
    <2>1. CASE session'[o] = Closed
      BY <2>1 DEF Closed
    <2>2. CASE session'[o] # Closed
      <3>1. session'[o].op \in {"create", "update", "delete", "form"}
        BY <2>2, <1>1 DEF OpenRequest
      <3> QED BY <3>1, <2>2, <1>2 DEF Shape
    <2> QED BY <2>1, <2>2
  <1> QED BY <1>1, <1>2, <1>3 DEF TypeInv, TypeOK

LEMMA StartCreateTyped ==
  ASSUME TypeInv, NEW s \in Sessions, NEW t \in TxIds, NEW e \in Entry, StartCreate(s, t, e)
  PROVE  TypeInv'
  <1> DEFINE q == Request("create", {t}, <<>>, e, {e.product})
             r == Loaded(q)
  <1>1. /\ q \in OpenRequest /\ q.op = "create" /\ q.ids = {t} /\ q.new = e
        /\ q.products = {e.product} \ {NoProduct}
    <2>1. /\ <<>> \in Maps(TxIds, Entry) /\ {t} \in SUBSET TxIds
          /\ {e.product} \in SUBSET (Products \cup {NoProduct}) /\ e \in Entry \cup {Closed}
      BY EntryFacts DEF Maps
    <2> QED BY <2>1, NothingLoaded DEF Request, OpenRequest
  <1> HIDE DEF q
  <1>2. r \in OpenRequest /\ Shape(r)
    BY <1>1, LoadedFacts DEF TypeInv, Shape
  <1>3. session' = [session EXCEPT ![s] = r]
    BY DEF StartCreate, Admit, q
  <1> HIDE DEF r
  <1> QED BY <1>2, <1>3, RequestStep DEF StartCreate, TypeInv, TypeOK

LEMMA MapFacts ==
  ASSUME NEW T \in SUBSET TxIds, NEW f \in [T -> Entry]
  PROVE  f \in Maps(TxIds, Entry)
  BY DEF Maps

LEMMA StartUpdateTyped ==
  ASSUME TypeInv, NEW s \in Sessions, NEW t \in TxIds, NEW e \in Entry, StartUpdate(s, t, e)
  PROVE  TypeInv'
  <1> DEFINE old == [i \in {t} |-> tx[i]]
             r == Request("update", {t}, old, e, {e.product, tx[t].product})
  <1>1. tx[t] \in Entry
    BY DEF StartUpdate, Live, TypeInv, TypeOK
  <1>2. old \in [{t} -> Entry] /\ old[t] = tx[t]
    BY <1>1
  <1>3. old \in Maps(TxIds, Entry)
    BY <1>2, MapFacts
  <1> HIDE DEF old
  <1>4. /\ r \in OpenRequest /\ ~r.loaded /\ r.op = "update" /\ r.ids = {t} /\ r.old = old
        /\ r.new = e /\ r.products = {e.product, tx[t].product} \ {NoProduct}
    <2>1. /\ {t} \in SUBSET TxIds /\ e \in Entry \cup {Closed}
          /\ {e.product, tx[t].product} \in SUBSET (Products \cup {NoProduct})
      BY <1>1, EntryFacts
    <2> QED BY <2>1, <1>3, NothingLoaded DEF Request, OpenRequest
  <1>5. session' = [session EXCEPT ![s] = r]
    BY DEF StartUpdate, Admit, old
  <1> HIDE DEF r
  <1>6. Shape(r)
    BY <1>2, <1>4 DEF Shape
  <1> QED BY <1>4, <1>5, <1>6, RequestStep DEF StartUpdate, TypeInv, TypeOK

LEMMA StartDeleteTyped ==
  ASSUME TypeInv, NEW s \in Sessions, NEW T \in SUBSET TxIds, StartDelete(s, T)
  PROVE  TypeInv'
  <1> DEFINE old == [i \in T |-> tx[i]]
             products == {tx[i].product : i \in T}
             r == Request("delete", T, old, Closed, products)
  <1>1. \A t \in T : tx[t] \in Entry
    BY DEF StartDelete, Live, TypeInv, TypeOK
  <1>2. old \in [T -> Entry] /\ \A t \in T : old[t] = tx[t]
    BY <1>1
  <1>3. old \in Maps(TxIds, Entry) /\ products \in SUBSET (Products \cup {NoProduct})
    BY <1>1, <1>2, MapFacts, EntryFacts
  <1>4. products = {old[i].product : i \in T}
    BY <1>2
  <1>5. session' = [session EXCEPT ![s] = r]
    BY DEF StartDelete, Admit
  <1> HIDE DEF old, products
  <1>6. /\ r \in OpenRequest /\ ~r.loaded /\ r.op = "delete" /\ r.ids = T /\ r.old = old
        /\ r.products = products \ {NoProduct}
    <2>1. /\ T \in SUBSET TxIds /\ Closed \in Entry \cup {Closed}
      OBVIOUS
    <2> QED BY <2>1, <1>3, NothingLoaded DEF Request, OpenRequest
  <1> HIDE DEF r
  <1>7. Shape(r)
    BY <1>2, <1>4, <1>6 DEF Shape
  <1> QED BY <1>5, <1>6, <1>7, RequestStep DEF StartDelete, TypeInv, TypeOK

LEMMA LoadProductsTyped ==
  ASSUME TypeInv, NEW s \in Sessions, LoadProducts(s)
  PROVE  TypeInv'
  <1> DEFINE old == session[s]
             r == Loaded(old)
  <1>1. old # Closed /\ old.op \in {"update", "delete"} /\ session' = [session EXCEPT ![s] = r]
    BY DEF LoadProducts, Closed
  <1>2. old \in OpenRequest /\ Shape(old)
    BY <1>1, OpenFacts
  <1> HIDE DEF old
  <1>3. /\ r \in OpenRequest /\ r.loaded /\ r.op = old.op /\ r.ids = old.ids
        /\ r.old = old.old /\ r.new = old.new /\ r.products = old.products
        /\ r.bal \in [r.products -> Int]
        /\ r.acct \in [r.products -> Accounts \cup {NoAccount}]
    BY <1>2, LoadedFacts DEF TypeInv
  <1> HIDE DEF r
  <1>4. Shape(r)
    BY <1>1, <1>2, <1>3 DEF Shape
  <1>5. UNCHANGED <<tx, balance, link, queue, corrected, relinks>>
    BY DEF LoadProducts
  <1> QED BY <1>1, <1>3, <1>4, <1>5, RequestStep DEF TypeInv, TypeOK

LEMMA OpenFormTyped ==
  ASSUME TypeInv, NEW s \in Sessions, NEW p \in Products, OpenForm(s, p)
  PROVE  TypeInv'
  <1> DEFINE q == Request("form", {}, <<>>, Closed, {p})
             r == Loaded(q)
  <1>1. q \in OpenRequest /\ q.op = "form" /\ q.ids = {} /\ q.products = {p}
    <2>1. /\ <<>> \in Maps(TxIds, Entry) /\ {p} \ {NoProduct} = {p}
          /\ {} \in SUBSET TxIds /\ Closed \in Entry \cup {Closed}
          /\ {p} \in SUBSET (Products \cup {NoProduct})
      BY DEF Maps
    <2> QED BY <2>1, NothingLoaded DEF Request, OpenRequest
  <1> HIDE DEF q
  <1>2. r \in OpenRequest /\ Shape(r)
    BY <1>1, LoadedFacts DEF TypeInv, Shape
  <1>3. session' = [session EXCEPT ![s] = r]
    BY DEF OpenForm, Admit, q
  <1> HIDE DEF r
  <1> QED BY <1>2, <1>3, RequestStep DEF OpenForm, TypeInv, TypeOK

LEMMA AbortTyped ==
  ASSUME TypeInv, NEW s \in Sessions, Abort(s)
  PROVE  TypeInv'
  BY RequestStep DEF Abort, Close, TypeInv, TypeOK

LEMMA SaveFormTyped ==
  ASSUME TypeInv, NEW s \in Sessions, NEW p \in Products, NEW c \in {0} \cup Amounts,
         SaveForm(s, p, c)
  PROVE  TypeInv'
  <1>1. session[s] # Closed /\ session[s].op = "form" /\ p \in session[s].products
    BY DEF SaveForm, Closed
  <1>2. session[s].bal[p] \in Int /\ c \in Int
    BY <1>1, OpenFacts DEF Shape
  <1>3. balance' \in [Products -> Int] /\ corrected' \in [Products -> Int]
    BY <1>2 DEF SaveForm, TypeInv, TypeOK
  <1> QED BY <1>3, RequestStep DEF SaveForm, Close, TypeInv, TypeOK

LEMMA RelinkTyped ==
  ASSUME TypeInv, NEW p \in Products, NEW a \in Accounts \cup {NoAccount}, SetGrowlioLink(p, a)
  PROVE  TypeInv'
  <1>1. link' \in [Products -> Accounts \cup {NoAccount}] /\ relinks' \in Nat
        /\ UNCHANGED <<tx, balance, queue, session, corrected>>
    BY DEF SetGrowlioLink, TypeInv, TypeOK
  <1> QED BY <1>1 DEF TypeInv, TypeOK, Shape

-----------------------------------------------------------------------------
(* The commits: what a request takes out of a product and puts into it is   *)
(* nothing for the products it has not loaded, and the rows it stages are   *)
(* rows.                                                                    *)
Past(r) == [t \in r.ids |-> r.old[t].amount]
OldOf(r, p) == {t \in r.ids : r.old[t].product = p}

LEMMA OldFacts ==
  ASSUME NEW r \in OpenRequest, Shape(r), r.op \in {"update", "delete"}
  PROVE  /\ IsFiniteSet(r.ids) /\ r.ids \in SUBSET TxIds
         /\ \A t \in r.ids : r.old[t] \in Entry /\ Past(r)[t] = r.old[t].amount
                             /\ r.old[t].amount \in Nat
         /\ \A p : OldOf(r, p) \in SUBSET r.ids /\ IsFiniteSet(OldOf(r, p))
         /\ \A p : TakenOut(r, p) = SumOver(Past(r), OldOf(r, p))
  <1>1. IsFiniteSet(r.ids) /\ r.ids \in SUBSET TxIds
    BY FS_Subset DEF OpenRequest
  <1>2. \A t \in r.ids : r.old[t] \in Entry
    BY DEF Shape
  <1>3. \A p : OldOf(r, p) \in SUBSET r.ids
    BY DEF OldOf
  <1>4. \A p : IsFiniteSet(OldOf(r, p))
    BY <1>1, <1>3, FS_Subset
  <1>5. \A p : TakenOut(r, p) = SumOver(Past(r), OldOf(r, p))
    BY DEF TakenOut, Past, OldOf
  <1> QED BY <1>1, <1>2, <1>3, <1>4, <1>5, EntryFacts DEF Past

LEMMA DeltaFacts ==
  ASSUME NEW r \in OpenRequest, Shape(r), r.op # "form", NEW p \in Products
  PROVE  /\ TakenOut(r, p) \in Int /\ PutIn(r, p) \in Int
         /\ p \notin r.products => TakenOut(r, p) = 0 /\ PutIn(r, p) = 0
  <1>0. r.op \in {"create", "update", "delete"} /\ p # NoProduct
    BY DEF OpenRequest
  <1>1. PutIn(r, p) \in Int /\ (p \notin r.products => PutIn(r, p) = 0)
    <2>1. r.op \in {"create", "update"} => r.new \in Entry
      BY DEF Shape
    <2>2. r.op \in {"create", "update"} /\ r.new.product = p => p \in r.products
      BY <1>0 DEF Shape
    <2> QED BY <2>1, <2>2, EntryFacts DEF PutIn
  <1>2. CASE r.op = "create"
    BY <1>1, <1>2 DEF TakenOut
  <1>3. CASE r.op \in {"update", "delete"}
    <2>1. TakenOut(r, p) \in Int
      BY <1>3, OldFacts, SumInt
    <2>2. ASSUME p \notin r.products PROVE OldOf(r, p) = {}
      BY <1>0, <1>3, <2>2 DEF Shape, OldOf
    <2>3. p \notin r.products => TakenOut(r, p) = 0
      <3>1. PICK f : f = Past(r)
        OBVIOUS
      <3>2. TakenOut(r, p) = SumOver(f, OldOf(r, p))
        BY <1>3, <3>1, OldFacts
      <3>3. SumOver(f, {}) = 0
        BY SumEmpty
      <3> QED BY <2>2, <3>2, <3>3
    <2> QED BY <1>1, <2>1, <2>3
  <1> QED BY <1>0, <1>2, <1>3

LEMMA StageFacts ==
  ASSUME NEW r \in OpenRequest, Shape(r), r.loaded, NEW type \in {"DEPOSIT", "WITHDRAWAL"},
         NEW e \in Entry, NEW t \in TxIds, e.product \in Products => e.product \in r.products
  PROVE  /\ Stage(r, type, e, t) \in Seq(Row)
         /\ \/ Stage(r, type, e, t) = <<>>
            \/ \E row \in Row : Stage(r, type, e, t) = <<row>> /\ row.tx = t
  <1>1. CASE e.product \in Products /\ r.acct[e.product] \in Accounts
    <2> DEFINE row == [account |-> r.acct[e.product], type |-> type,
                       amount |-> e.amount, tx |-> t]
    <2>1. row \in Row /\ row.tx = t
      BY <1>1, EntryFacts DEF Row
    <2>2. Stage(r, type, e, t) = <<row>>
      BY <1>1 DEF Stage
    <2> HIDE DEF row
    <2> QED BY <2>1, <2>2
  <1>2. CASE ~(e.product \in Products /\ r.acct[e.product] \in Accounts)
    BY <1>2 DEF Stage
  <1> QED BY <1>1, <1>2

(* The rows that take the loaded entries back.                              *)
Back(r) == [t \in r.ids |-> Stage(r, "WITHDRAWAL", r.old[t], t)]

LEMMA BackFacts ==
  ASSUME NEW r \in OpenRequest, Shape(r), r.loaded, r.op \in {"update", "delete"}
  PROVE  /\ Withdrawals(r) = RowsOver(Back(r), r.ids) /\ Withdrawals(r) \in Seq(Row)
         /\ \A t \in r.ids :
               /\ Back(r)[t] = Stage(r, "WITHDRAWAL", r.old[t], t)
               /\ Back(r)[t] \in Seq(Row)
               /\ \/ Back(r)[t] = <<>>
                  \/ \E row \in Row : Back(r)[t] = <<row>> /\ row.tx = t
  <1>1. ASSUME NEW t \in r.ids
        PROVE  /\ Back(r)[t] = Stage(r, "WITHDRAWAL", r.old[t], t)
               /\ Back(r)[t] \in Seq(Row)
               /\ \/ Back(r)[t] = <<>>
                  \/ \E row \in Row : Back(r)[t] = <<row>> /\ row.tx = t
    <2>1. Back(r)[t] = Stage(r, "WITHDRAWAL", r.old[t], t)
      BY DEF Back
    <2>2. t \in TxIds /\ r.old[t] \in Entry
      BY OldFacts
    <2>3. r.old[t].product \in Products => r.old[t].product \in r.products
      BY DEF Shape
    <2> QED BY <2>1, <2>2, <2>3, StageFacts
  <1>2. Withdrawals(r) = RowsOver(Back(r), r.ids)
    BY DEF Withdrawals, Back
  <1>3. Withdrawals(r) \in Seq(Row)
    <2>1. IsFiniteSet(r.ids) /\ r.ids \in SUBSET r.ids
      BY OldFacts
    <2>2. RowsOver(Back(r), r.ids) \in Seq(Row)
      BY <1>1, <2>1, JoinFacts
    <2> QED BY <1>2, <2>2
  <1> QED BY <1>1, <1>2, <1>3

LEMMA BalanceTyped ==
  ASSUME TypeInv, NEW r \in OpenRequest, Shape(r), r.loaded, r.op # "form", AdjustBalance(r)
  PROVE  /\ balance' \in [Products -> Int]
         /\ \A p \in Products :
               /\ p \notin r.products => balance'[p] = balance[p]
               /\ (p \in r.products /\ r.bal[p] = balance[p]) =>
                     balance'[p] = balance[p] - TakenOut(r, p) + PutIn(r, p)
  <1>1. ASSUME NEW p \in Products
        PROVE  /\ balance'[p] \in Int
               /\ p \notin r.products => balance'[p] = balance[p]
               /\ (p \in r.products /\ r.bal[p] = balance[p]) =>
                     balance'[p] = balance[p] - TakenOut(r, p) + PutIn(r, p)
    <2>1. PICK i \in Int, j \in Int, b \in Int :
             i = TakenOut(r, p) /\ j = PutIn(r, p) /\ b = balance[p]
      BY DeltaFacts DEF TypeInv, TypeOK
    <2>2. p \in r.products => r.bal[p] \in Int
      BY DEF Shape
    <2>3. /\ i = j => balance'[p] = b
          /\ i # j => balance'[p] = r.bal[p] - i + j
      BY <2>1 DEF AdjustBalance
    <2>4. p \notin r.products => i = j
      BY <2>1, DeltaFacts
    <2> QED BY <2>1, <2>2, <2>3, <2>4
  <1>2. balance' = [p \in Products |-> balance'[p]]
    BY DEF AdjustBalance
  <1>3. balance' \in [Products -> Int]
    BY <1>1, <1>2
  <1> QED BY <1>1, <1>3

LEMMA PushTyped ==
  ASSUME TypeInv, NEW rows \in Seq(Row), Push(rows)
  PROVE  queue' \in Seq(Row) /\ Len(queue') =< MaxRows
  <1>1. queue \in Seq(Row)
    BY DEF TypeInv, TypeOK
  <1> QED BY <1>1 DEF Push

LEMMA CommitCreateTyped ==
  ASSUME TypeInv, NEW s \in Sessions, CommitCreate(s)
  PROVE  TypeInv'
  <1>0. PICK r : r = session[s]
    OBVIOUS
  <1>1. r # Closed /\ r.op = "create"
    BY <1>0 DEF CommitCreate, Closed
  <1>2. r \in OpenRequest /\ Shape(r) /\ r.loaded /\ r.new \in Entry
    BY <1>0, <1>1, OpenFacts DEF Shape
  <1>3. balance' \in [Products -> Int]
    BY <1>0, <1>1, <1>2, BalanceTyped DEF CommitCreate
  <1>4. queue' \in Seq(Row) /\ Len(queue') =< MaxRows
    <2>1. PICK t \in r.ids : Push(Stage(r, "DEPOSIT", r.new, t))
      BY <1>0 DEF CommitCreate
    <2>2. t \in TxIds /\ (r.new.product \in Products => r.new.product \in r.products)
      BY <1>1, <1>2 DEF Shape, OpenRequest
    <2>3. Stage(r, "DEPOSIT", r.new, t) \in Seq(Row)
      BY <1>2, <2>2, StageFacts
    <2> QED BY <2>1, <2>3, PushTyped
  <1>5. tx' \in [TxIds -> Entry \cup {Unused, Deleted}]
    BY <1>0, <1>2 DEF CommitCreate, TypeInv, TypeOK
  <1>6. session' = [session EXCEPT ![s] = Closed] /\ UNCHANGED <<link, corrected, relinks>>
    BY DEF CommitCreate, Close
  <1> QED BY <1>3, <1>4, <1>5, <1>6, RequestStep DEF TypeInv, TypeOK

LEMMA CommitUpdateTyped ==
  ASSUME TypeInv, NEW s \in Sessions, CommitUpdate(s)
  PROVE  TypeInv'
  <1>0. PICK r : r = session[s]
    OBVIOUS
  <1>1. r # Closed /\ r.op = "update" /\ r.loaded
    BY <1>0 DEF CommitUpdate, Closed
  <1>2. r \in OpenRequest /\ Shape(r) /\ r.new \in Entry
    BY <1>0, <1>1, OpenFacts DEF Shape
  <1>3. balance' \in [Products -> Int]
    <2>1. CASE SavingsChanged(r)
      BY <1>0, <1>1, <1>2, <2>1, BalanceTyped DEF CommitUpdate
    <2>2. CASE ~SavingsChanged(r)
      BY <1>0, <2>2 DEF CommitUpdate, TypeInv, TypeOK
    <2> QED BY <2>1, <2>2
  <1>4. queue' \in Seq(Row) /\ Len(queue') =< MaxRows
    <2>1. CASE SavingsChanged(r)
      <3>1. PICK t \in r.ids : Push(Withdrawals(r) \o Stage(r, "DEPOSIT", r.new, t))
        BY <1>0, <2>1 DEF CommitUpdate
      <3>2. t \in TxIds /\ (r.new.product \in Products => r.new.product \in r.products)
        BY <1>1, <1>2 DEF Shape, OpenRequest
      <3>3. Stage(r, "DEPOSIT", r.new, t) \in Seq(Row) /\ Withdrawals(r) \in Seq(Row)
        BY <1>1, <1>2, <3>2, StageFacts, BackFacts
      <3>4. Withdrawals(r) \o Stage(r, "DEPOSIT", r.new, t) \in Seq(Row)
        BY <3>3
      <3> QED BY <3>1, <3>4, PushTyped
    <2>2. CASE ~SavingsChanged(r)
      BY <1>0, <2>2 DEF CommitUpdate, TypeInv, TypeOK
    <2> QED BY <2>1, <2>2
  <1>5. tx' \in [TxIds -> Entry \cup {Unused, Deleted}]
    <2>1. ASSUME NEW t \in TxIds PROVE tx'[t] \in Entry \cup {Unused, Deleted}
      <3>1. CASE t \in r.ids
        <4>1. tx[t] \in Entry
          BY <1>0, <3>1 DEF CommitUpdate, Live, TypeInv, TypeOK
        <4>2. tx'[t] = [product |-> IF r.new["product"] # r.old[t]["product"]
                                    THEN r.new["product"] ELSE tx[t]["product"],
                        amount |-> IF r.new["amount"] # r.old[t]["amount"]
                                   THEN r.new["amount"] ELSE tx[t]["amount"]]
          BY <1>0, <3>1 DEF CommitUpdate
        <4> QED BY <1>2, <4>1, <4>2 DEF Entry
      <3>2. CASE t \notin r.ids
        BY <1>0, <3>2 DEF CommitUpdate, TypeInv, TypeOK
      <3> QED BY <3>1, <3>2
    <2>2. tx' = [t \in TxIds |-> tx'[t]]
      BY DEF CommitUpdate
    <2> QED BY <2>1, <2>2
  <1>6. session' = [session EXCEPT ![s] = Closed] /\ UNCHANGED <<link, corrected, relinks>>
    BY DEF CommitUpdate, Close
  <1> QED BY <1>3, <1>4, <1>5, <1>6, RequestStep DEF TypeInv, TypeOK

LEMMA CommitDeleteTyped ==
  ASSUME TypeInv, NEW s \in Sessions, CommitDelete(s)
  PROVE  TypeInv'
  <1>0. PICK r : r = session[s]
    OBVIOUS
  <1>1. r # Closed /\ r.op = "delete" /\ r.loaded
    BY <1>0 DEF CommitDelete, Closed
  <1>2. r \in OpenRequest /\ Shape(r)
    BY <1>0, <1>1, OpenFacts
  <1>3. balance' \in [Products -> Int]
    BY <1>0, <1>1, <1>2, BalanceTyped DEF CommitDelete
  <1>4. queue' \in Seq(Row) /\ Len(queue') =< MaxRows
    BY <1>0, <1>1, <1>2, BackFacts, PushTyped DEF CommitDelete
  <1>5. tx' \in [TxIds -> Entry \cup {Unused, Deleted}]
    BY DEF CommitDelete, TypeInv, TypeOK
  <1>6. session' = [session EXCEPT ![s] = Closed] /\ UNCHANGED <<link, corrected, relinks>>
    BY DEF CommitDelete, Close
  <1> QED BY <1>3, <1>4, <1>5, <1>6, RequestStep DEF TypeInv, TypeOK

LEMMA Typed == TypeInv /\ [Next]_vars => TypeInv'
  <1> SUFFICES ASSUME TypeInv, [Next]_vars PROVE TypeInv'
    OBVIOUS
  <1>1. CASE UNCHANGED vars
    BY <1>1 DEF vars, TypeInv, TypeOK, Shape
  <1>2. ASSUME NEW s \in Sessions, NEW t \in TxIds, NEW e \in Entry,
               StartCreate(s, t, e) \/ StartUpdate(s, t, e)
        PROVE  TypeInv'
    BY <1>2, StartCreateTyped, StartUpdateTyped
  <1>3. ASSUME NEW s \in Sessions, NEW T \in SUBSET TxIds, StartDelete(s, T)
        PROVE  TypeInv'
    BY <1>3, StartDeleteTyped
  <1>4. ASSUME NEW s \in Sessions,
               \/ LoadProducts(s) \/ Abort(s)
               \/ CommitCreate(s) \/ CommitUpdate(s) \/ CommitDelete(s)
        PROVE  TypeInv'
    BY <1>4, LoadProductsTyped, AbortTyped, CommitCreateTyped, CommitUpdateTyped,
       CommitDeleteTyped
  <1>5. ASSUME NEW s \in Sessions, NEW p \in Products, NEW c \in {0} \cup Amounts,
               OpenForm(s, p) \/ SaveForm(s, p, c)
        PROVE  TypeInv'
    BY <1>5, OpenFormTyped, SaveFormTyped
  <1>6. ASSUME NEW p \in Products, NEW a \in Accounts \cup {NoAccount}, SetGrowlioLink(p, a)
        PROVE  TypeInv'
    BY <1>6, RelinkTyped
  <1> QED BY <1>1, <1>2, <1>3, <1>4, <1>5, <1>6 DEF Next

(* Every variable has its type, whatever overlaps: a commit computes with   *)
(* loaded values only where it has loaded them (savings_product_service.py, *)
(* adjust_balance; growlio_push_service.py, stage).                         *)
THEOREM TypeCorrect == Spec => []TypeOK
  <1>1. Spec => []TypeInv
    BY InitTypeInv, Typed, PTL DEF Spec
  <1>2. TypeInv => TypeOK
    BY DEF TypeInv
  <1> QED BY <1>1, <1>2, PTL

-----------------------------------------------------------------------------
(* Requests that share nothing.  What each of them has loaded is then still *)
(* what the tables hold, until the request commits.                         *)
Fresh(r) ==
    /\ r.op = "create" => \A t \in r.ids : tx[t] = Unused
    /\ r.op \in {"update", "delete"} => \A t \in r.ids : tx[t] = r.old[t]
    /\ r.loaded => \A p \in r.products : r.bal[p] = balance[p]
    /\ r.loaded /\ relinks = 0 => \A p \in r.products : r.acct[p] = link[p]

Apart ==
    /\ \A s, o \in Sessions : s # o => Touches(session[s]) \cap Touches(session[o]) = {}
    /\ \A s \in Sessions : session[s] # Closed => Fresh(session[s])

LEMMA TouchesFacts ==
  /\ Touches(Closed) = {}
  /\ \A r \in OpenRequest : Touches(r) = r.ids \cup r.products
  BY DEF Touches, Closed, OpenRequest

LEMMA StaysFresh ==
  ASSUME NEW r, Fresh(r),
         \A t \in r.ids : tx'[t] = tx[t],
         \A p \in r.products : balance'[p] = balance[p],
         link' = link, relinks' = relinks
  PROVE  Fresh(r)'
  BY DEF Fresh

LEMMA OpenedApart ==
  ASSUME TypeInv, Apart, NEW s \in Sessions, NEW r \in OpenRequest, Fresh(r),
         session' = [session EXCEPT ![s] = r],
         \A o \in Sessions \ {s} : Touches(session[o]) \cap Touches(r) = {},
         UNCHANGED <<tx, balance, link, relinks>>
  PROVE  Apart'
  <1>1. /\ session'[s] = r /\ \A o \in Sessions \ {s} : session'[o] = session[o]
    BY DEF TypeInv
  <1>2. ASSUME NEW o \in Sessions, session'[o] # Closed PROVE Fresh(session[o])'
    <2>1. PICK q : q = session'[o] /\ (q = r \/ q = session[o])
      BY <1>1, <1>2
    <2>2. Fresh(q)
      BY <2>1, <1>2 DEF Apart
    <2> QED BY <2>1, <2>2 DEF Fresh
  <1>3. ASSUME NEW u \in Sessions, NEW o \in Sessions, u # o
        PROVE  (Touches(session[u]) \cap Touches(session[o]) = {})'
    <2>1. PICK q, z : q = session'[u] /\ z = session'[o]
      OBVIOUS
    <2>2. Touches(q) \cap Touches(z) = {}
      BY <1>1, <1>3, <2>1 DEF Apart
    <2> QED BY <2>1, <2>2 DEF Touches
  <1> QED BY <1>2, <1>3 DEF Apart

LEMMA ClosedApart ==
  ASSUME TypeInv, Apart, NEW s \in Sessions, NEW r, r = session[s], r # Closed,
         session' = [session EXCEPT ![s] = Closed],
         \A t \in TxIds \ r.ids : tx'[t] = tx[t],
         \A p \in Products \ r.products : balance'[p] = balance[p],
         UNCHANGED <<link, relinks>>
  PROVE  Apart'
  <1>1. /\ session'[s] = Closed /\ \A o \in Sessions \ {s} : session'[o] = session[o]
    BY DEF TypeInv
  <1>2. r \in OpenRequest /\ Touches(r) = r.ids \cup r.products
    BY OpenFacts, TouchesFacts
  <1>3. ASSUME NEW o \in Sessions, session'[o] # Closed PROVE Fresh(session[o])'
    <2>1. PICK q : q = session'[o]
      OBVIOUS
    <2>2. o # s /\ q = session[o] /\ q # Closed
      BY <1>1, <1>3, <2>1
    <2>3. /\ q \in OpenRequest /\ q.ids \subseteq TxIds /\ q.products \subseteq Products
          /\ Touches(q) = q.ids \cup q.products
      BY <2>2, OpenFacts, TouchesFacts
    <2>4. Fresh(q) /\ Touches(q) \cap Touches(r) = {}
      BY <2>2 DEF Apart
    <2>5. q.ids \cap r.ids = {} /\ q.products \cap r.products = {}
      BY <1>2, <2>3, <2>4
    <2>6. /\ \A t \in q.ids : tx'[t] = tx[t]
          /\ \A p \in q.products : balance'[p] = balance[p]
      BY <2>3, <2>5
    <2>7. Fresh(q)'
      BY <2>4, <2>6, StaysFresh
    <2> QED BY <2>1, <2>7 DEF Fresh
  <1>4. ASSUME NEW u \in Sessions, NEW o \in Sessions, u # o
        PROVE  (Touches(session[u]) \cap Touches(session[o]) = {})'
    <2>1. PICK q, z : q = session'[u] /\ z = session'[o]
      OBVIOUS
    <2>2. Touches(q) \cap Touches(z) = {}
      BY <1>1, <1>4, <2>1, TouchesFacts DEF Apart
    <2> QED BY <2>1, <2>2 DEF Touches
  <1> QED BY <1>3, <1>4 DEF Apart

LEMMA AdmittedApart ==
  ASSUME ~MayOverlap, NEW s \in Sessions, NEW r, Admit(s, r)
  PROVE  /\ session' = [session EXCEPT ![s] = r]
         /\ \A o \in Sessions \ {s} : Touches(session[o]) \cap Touches(r) = {}
  BY DEF Admit

LEMMA StartsApart ==
  ASSUME TypeInv, Apart, ~MayOverlap, NEW s \in Sessions,
         \/ \E t \in TxIds, e \in Entry : StartCreate(s, t, e) \/ StartUpdate(s, t, e)
         \/ \E T \in SUBSET TxIds : StartDelete(s, T)
         \/ \E p \in Products : OpenForm(s, p)
  PROVE  Apart'
  <1>0. UNCHANGED <<tx, balance, link, relinks>>
    BY DEF StartCreate, StartUpdate, StartDelete, OpenForm
  <1>1. TypeInv'
    BY StartCreateTyped, StartUpdateTyped, StartDeleteTyped, OpenFormTyped
  <1>2. PICK r : Admit(s, r) /\ Fresh(r) /\ r # Closed
    <2>1. ASSUME NEW t \in TxIds, NEW e \in Entry, StartCreate(s, t, e)
          PROVE  \E r : Admit(s, r) /\ Fresh(r) /\ r # Closed
      <3>1. PICK q : q = Request("create", {t}, <<>>, e, {e.product})
        OBVIOUS
      <3>2. PICK r : r = Loaded(q)
        OBVIOUS
      <3>3. Admit(s, r) /\ tx[t] = Unused
        BY <2>1, <3>1, <3>2 DEF StartCreate
      <3>4. /\ r.op = "create" /\ r.ids = {t} /\ r.products = q.products
            /\ r.bal = [x \in q.products |-> balance[x]]
            /\ r.acct = [x \in q.products |-> link[x]]
        BY <3>1, <3>2 DEF Request, Loaded
      <3> QED BY <3>3, <3>4 DEF Fresh, Closed
    <2>2. ASSUME NEW t \in TxIds, NEW e \in Entry, StartUpdate(s, t, e)
          PROVE  \E r : Admit(s, r) /\ Fresh(r) /\ r # Closed
      <3>1. PICK r : r = Request("update", {t}, [i \in {t} |-> tx[i]], e,
                                 {e.product, tx[t].product})
        OBVIOUS
      <3>2. Admit(s, r)
        BY <2>2, <3>1 DEF StartUpdate
      <3>3. r.op = "update" /\ r.ids = {t} /\ r.old = [i \in {t} |-> tx[i]] /\ r.loaded = FALSE
        BY <3>1 DEF Request
      <3> QED BY <3>2, <3>3 DEF Fresh, Closed
    <2>3. ASSUME NEW T \in SUBSET TxIds, StartDelete(s, T)
          PROVE  \E r : Admit(s, r) /\ Fresh(r) /\ r # Closed
      <3>1. PICK r : r = Request("delete", T, [i \in T |-> tx[i]], Closed,
                                 {tx[i].product : i \in T})
        OBVIOUS
      <3>2. Admit(s, r)
        BY <2>3, <3>1 DEF StartDelete
      <3>3. r.op = "delete" /\ r.ids = T /\ r.old = [i \in T |-> tx[i]] /\ r.loaded = FALSE
        BY <3>1 DEF Request
      <3> QED BY <3>2, <3>3 DEF Fresh, Closed
    <2>4. ASSUME NEW p \in Products, OpenForm(s, p)
          PROVE  \E r : Admit(s, r) /\ Fresh(r) /\ r # Closed
      <3>1. PICK q : q = Request("form", {}, <<>>, Closed, {p})
        OBVIOUS
      <3>2. PICK r : r = Loaded(q)
        OBVIOUS
      <3>3. Admit(s, r)
        BY <2>4, <3>1, <3>2 DEF OpenForm
      <3>4. /\ r.op = "form" /\ r.products = q.products
            /\ r.bal = [x \in q.products |-> balance[x]]
            /\ r.acct = [x \in q.products |-> link[x]]
        BY <3>1, <3>2 DEF Request, Loaded
      <3> QED BY <3>3, <3>4 DEF Fresh, Closed
    <2> QED BY <2>1, <2>2, <2>3, <2>4
  <1>3. /\ session' = [session EXCEPT ![s] = r]
        /\ \A o \in Sessions \ {s} : Touches(session[o]) \cap Touches(r) = {}
    BY <1>2, AdmittedApart
  <1>4. r \in OpenRequest
    <2>1. session'[s] = r
      BY <1>3 DEF TypeInv
    <2> QED BY <1>1, <1>2, <2>1 DEF TypeInv
  <1> QED BY <1>0, <1>2, <1>3, <1>4, OpenedApart

LEMMA LoadProductsApart ==
  ASSUME TypeInv, Apart, NEW s \in Sessions, LoadProducts(s)
  PROVE  Apart'
  <1>1. PICK old, r : old = session[s] /\ r = Loaded(old)
    OBVIOUS
  <1>2. old # Closed /\ session' = [session EXCEPT ![s] = r]
    BY <1>1 DEF LoadProducts, Closed
  <1>3. old \in OpenRequest
    BY <1>1, <1>2, OpenFacts
  <1>4. /\ r \in OpenRequest /\ r.op = old.op /\ r.ids = old.ids /\ r.old = old.old
        /\ r.products = old.products
        /\ r.bal = [p \in old.products |-> balance[p]]
        /\ r.acct = [p \in old.products |-> link[p]]
    BY <1>1, <1>3, LoadedFacts DEF TypeInv
  <1>5. Fresh(r)
    BY <1>1, <1>2, <1>4 DEF Apart, Fresh
  <1>6. \A o \in Sessions \ {s} : Touches(session[o]) \cap Touches(r) = {}
    BY <1>1, <1>3, <1>4, TouchesFacts DEF Apart
  <1>7. UNCHANGED <<tx, balance, link, relinks>>
    BY DEF LoadProducts
  <1> QED BY <1>2, <1>4, <1>5, <1>6, <1>7, OpenedApart

(* What a commit of an open request does, for requests that share nothing:  *)
(* it takes the old entries out of the balances and puts the new one in,    *)
(* and the table holds the new one where it held the old ones.              *)
LEMMA CommitFacts ==
  ASSUME TypeInv, Apart, NEW s \in Sessions, NEW r, r = session[s],
         CommitCreate(s) \/ CommitUpdate(s) \/ CommitDelete(s)
  PROVE  /\ r # Closed /\ r \in OpenRequest /\ Shape(r) /\ r.loaded /\ Fresh(r)
         /\ r.op \in {"create", "update", "delete"}
         /\ CommitCreate(s) <=> r.op = "create"
         /\ CommitUpdate(s) <=> r.op = "update"
         /\ CommitDelete(s) <=> r.op = "delete"
         /\ tx' \in [TxIds -> Entry \cup {Unused, Deleted}]
         /\ \A t \in TxIds \ r.ids : tx'[t] = tx[t]
         /\ r.op \in {"create", "update"} => \A t \in r.ids : tx'[t] = r.new
         /\ r.op = "delete" => \A t \in r.ids : tx'[t] = Deleted
         /\ session' = [session EXCEPT ![s] = Closed]
         /\ UNCHANGED <<link, corrected, relinks>>
  <1>1. /\ r.op \in {"create", "update", "delete"}
        /\ CommitCreate(s) <=> r.op = "create"
        /\ CommitUpdate(s) <=> r.op = "update"
        /\ CommitDelete(s) <=> r.op = "delete"
    BY DEF CommitCreate, CommitUpdate, CommitDelete
  <1>2. r # Closed
    BY <1>1 DEF Closed
  <1>3. r \in OpenRequest /\ Shape(r) /\ Fresh(r)
    BY <1>2, OpenFacts DEF Apart
  <1>4. r.loaded
    BY <1>1, <1>3 DEF CommitUpdate, CommitDelete, Shape
  <1>5. tx' \in [TxIds -> Entry \cup {Unused, Deleted}]
    BY CommitCreateTyped, CommitUpdateTyped, CommitDeleteTyped DEF TypeInv, TypeOK
  <1>6. \A t \in TxIds \ r.ids : tx'[t] = tx[t]
    BY DEF CommitCreate, CommitUpdate, CommitDelete
  <1>7. r.op = "create" => \A t \in r.ids : tx'[t] = r.new
    BY <1>1, <1>3 DEF CommitCreate, OpenRequest
  <1>8. r.op = "delete" => \A t \in r.ids : tx'[t] = Deleted
    BY <1>1, <1>3 DEF CommitDelete, OpenRequest
  <1>9. ASSUME r.op = "update", NEW t \in r.ids PROVE tx'[t] = r.new
    <2>1. t \in TxIds /\ r.old[t] = tx[t] /\ r.old[t] \in Entry /\ r.new \in Entry
      BY <1>3, <1>9 DEF OpenRequest, Fresh, Shape
    <2>2. tx'[t] = [product |-> IF r.new["product"] # r.old[t]["product"]
                                THEN r.new["product"] ELSE tx[t]["product"],
                    amount |-> IF r.new["amount"] # r.old[t]["amount"]
                               THEN r.new["amount"] ELSE tx[t]["amount"]]
      BY <1>1, <1>9, <2>1 DEF CommitUpdate
    <2>3. tx'[t] = [product |-> r.new.product, amount |-> r.new.amount]
      BY <2>1, <2>2
    <2> QED BY <2>1, <2>3 DEF Entry
  <1>10. session' = [session EXCEPT ![s] = Closed] /\ UNCHANGED <<link, corrected, relinks>>
    BY DEF CommitCreate, CommitUpdate, CommitDelete, Close
  <1>11. r.op \in {"create", "update"} => \A t \in r.ids : tx'[t] = r.new
    BY <1>7, <1>9
  <1> QED BY <1>1, <1>2, <1>3, <1>4, <1>5, <1>6, <1>8, <1>10, <1>11

LEMMA CommittedBalance ==
  ASSUME TypeInv, Apart, NEW s \in Sessions, NEW r, r = session[s],
         CommitCreate(s) \/ CommitUpdate(s) \/ CommitDelete(s)
  PROVE  \A p \in Products :
            /\ TakenOut(r, p) \in Int /\ PutIn(r, p) \in Int
            /\ balance'[p] = balance[p] - TakenOut(r, p) + PutIn(r, p)
            /\ p \notin r.products => balance'[p] = balance[p]
  <1>1. /\ r \in OpenRequest /\ Shape(r) /\ r.loaded /\ Fresh(r)
        /\ r.op \in {"create", "update", "delete"}
        /\ r.op = "create" => CommitCreate(s)
        /\ r.op = "update" => CommitUpdate(s)
        /\ r.op = "delete" => CommitDelete(s)
    BY CommitFacts
  <1> SUFFICES ASSUME NEW p \in Products
               PROVE  /\ TakenOut(r, p) \in Int /\ PutIn(r, p) \in Int
                      /\ balance'[p] = balance[p] - TakenOut(r, p) + PutIn(r, p)
                      /\ p \notin r.products => balance'[p] = balance[p]
    OBVIOUS
  <1>2. PICK i \in Int, j \in Int, b \in Int :
           i = TakenOut(r, p) /\ j = PutIn(r, p) /\ b = balance[p]
    BY <1>1, DeltaFacts DEF TypeInv, TypeOK
  <1>3. p \notin r.products => i = 0 /\ j = 0
    BY <1>1, <1>2, DeltaFacts
  <1>4. p \in r.products => r.bal[p] = balance[p]
    BY <1>1 DEF Fresh
  <1>5. ASSUME AdjustBalance(r) PROVE balance'[p] = b - i + j
    <2>1. p \in r.products => balance'[p] = b - i + j
      BY <1>1, <1>2, <1>4, <1>5, BalanceTyped
    <2>2. p \notin r.products => balance'[p] = b
      BY <1>1, <1>2, <1>5, BalanceTyped
    <2> QED BY <1>3, <2>1, <2>2
  <1>6. ASSUME ~AdjustBalance(r) PROVE balance'[p] = b /\ i = j
    <2>1. r.op = "update" /\ ~SavingsChanged(r) /\ balance' = balance
      BY <1>1, <1>6 DEF CommitCreate, CommitUpdate, CommitDelete
    <2>2. PICK t : r.ids = {t} /\ r.old[t] = r.new
      BY <1>1, <2>1 DEF SavingsChanged, Shape
    <2>3. r.old[t] \in Entry /\ Past(r)[t] = r.old[t].amount /\ r.old[t].amount \in Int
      BY <1>1, <2>1, <2>2, OldFacts
    <2>4. TakenOut(r, p) = SumOver(Past(r), OldOf(r, p))
      BY <1>1, <2>1, OldFacts
    <2>5. CASE r.new.product = p
      <3>1. OldOf(r, p) = {t}
        BY <2>2, <2>5 DEF OldOf
      <3>2. TakenOut(r, p) = r.new.amount
        <4>1. SumOver(Past(r), {t}) = Past(r)[t]
          BY <2>3, SumSingle
        <4> QED BY <2>2, <2>3, <2>4, <3>1, <4>1
      <3> QED BY <1>2, <2>1, <2>5, <3>2 DEF PutIn
    <2>6. CASE r.new.product # p
      <3>1. OldOf(r, p) = {}
        BY <2>2, <2>6 DEF OldOf
      <3>2. TakenOut(r, p) = 0
        BY <2>4, <3>1, SumEmpty
      <3> QED BY <1>2, <2>1, <2>6, <3>2 DEF PutIn
    <2> QED BY <2>5, <2>6
  <1>7. balance'[p] = b - i + j
    BY <1>5, <1>6
  <1>8. p \notin r.products => balance'[p] = b
    BY <1>3, <1>7
  <1> QED BY <1>2, <1>7, <1>8

LEMMA SaveFormFacts ==
  ASSUME TypeInv, Apart, NEW s \in Sessions, NEW p \in Products, NEW c \in {0} \cup Amounts,
         SaveForm(s, p, c), NEW r, r = session[s]
  PROVE  /\ r # Closed /\ p \in r.products /\ c \in Int
         /\ session' = [session EXCEPT ![s] = Closed]
         /\ balance' = [balance EXCEPT ![p] = balance[p] + c]
         /\ corrected' = [corrected EXCEPT ![p] = corrected[p] + c]
         /\ UNCHANGED <<tx, link, queue, relinks>>
  <1>1. r # Closed /\ r.op = "form" /\ p \in r.products
    BY DEF SaveForm, Closed
  <1>2. r.bal[p] = balance[p]
    BY <1>1, OpenFacts DEF Apart, Fresh, Shape
  <1> QED BY <1>1, <1>2 DEF SaveForm, Close

LEMMA StaysApart ==
  ASSUME ~MayOverlap, TypeInv, Apart, [Next]_vars
  PROVE  Apart'
  <1>1. CASE UNCHANGED vars
    BY <1>1 DEF vars, Apart, Fresh, Touches
  <1>2. ASSUME NEW s \in Sessions, NEW t \in TxIds, NEW e \in Entry,
               StartCreate(s, t, e) \/ StartUpdate(s, t, e)
        PROVE  Apart'
    BY <1>2, StartsApart
  <1>3. ASSUME NEW s \in Sessions, NEW T \in SUBSET TxIds, StartDelete(s, T)
        PROVE  Apart'
    BY <1>3, StartsApart
  <1>4. ASSUME NEW s \in Sessions, LoadProducts(s)
        PROVE  Apart'
    BY <1>4, LoadProductsApart
  <1>5. ASSUME NEW s \in Sessions, Abort(s)
        PROVE  Apart'
    <2>1. PICK r : r = session[s]
      OBVIOUS
    <2>2. r # Closed /\ session' = [session EXCEPT ![s] = Closed]
          /\ UNCHANGED <<tx, balance, link, relinks>>
      BY <1>5, <2>1 DEF Abort, Close
    <2>3. /\ \A t \in TxIds \ r.ids : tx'[t] = tx[t]
          /\ \A p \in Products \ r.products : balance'[p] = balance[p]
          /\ UNCHANGED <<link, relinks>>
      BY <2>2
    <2>4. r # Closed /\ session' = [session EXCEPT ![s] = Closed]
      BY <2>2
    <2> QED BY <2>1, <2>3, <2>4, ClosedApart
  <1>6. ASSUME NEW s \in Sessions, CommitCreate(s) \/ CommitUpdate(s) \/ CommitDelete(s)
        PROVE  Apart'
    <2>1. PICK r : r = session[s]
      OBVIOUS
    <2>2. \A p \in Products \ r.products : balance'[p] = balance[p]
      BY <1>6, <2>1, CommittedBalance
    <2> QED BY <1>6, <2>1, <2>2, CommitFacts, ClosedApart
  <1>7. ASSUME NEW s \in Sessions, NEW p \in Products, OpenForm(s, p)
        PROVE  Apart'
    BY <1>7, StartsApart
  <1>8. ASSUME NEW s \in Sessions, NEW p \in Products, NEW c \in {0} \cup Amounts,
               SaveForm(s, p, c)
        PROVE  Apart'
    <2>1. PICK r : r = session[s]
      OBVIOUS
    <2>2. \A o \in Products \ r.products : balance'[o] = balance[o]
      BY <1>8, <2>1, SaveFormFacts DEF TypeInv, TypeOK
    <2> QED BY <1>8, <2>1, <2>2, SaveFormFacts, ClosedApart
  <1>9. ASSUME NEW p \in Products, NEW a \in Accounts \cup {NoAccount}, SetGrowlioLink(p, a)
        PROVE  Apart'
    <2>1. relinks' # 0 /\ UNCHANGED <<tx, balance, session>>
      BY <1>9 DEF SetGrowlioLink, TypeInv
    <2> QED BY <2>1 DEF Apart, Fresh, Touches
  <1> QED BY <1>1, <1>2, <1>3, <1>4, <1>5, <1>6, <1>7, <1>8, <1>9 DEF Next

-----------------------------------------------------------------------------
(* The balance of a product is the sum of its transactions: a commit changes *)
(* both by what the request puts in and takes out.                          *)
LiveIn(T) == {t \in TxIds : T[t] \notin {Unused, Deleted}}

Amount(T) == [t \in LiveIn(T) |-> T[t].amount]
OfProduct(T, p, I) == {t \in LiveIn(T) \cap I : T[t].product = p}

Held(T, p, I) == SumOver(Amount(T), OfProduct(T, p, I))

Table == [TxIds -> Entry \cup {Unused, Deleted}]

LEMMA HeldFacts ==
  ASSUME NEW T \in Table, NEW p, NEW I
  PROVE  /\ OfProduct(T, p, I) \in SUBSET TxIds /\ IsFiniteSet(OfProduct(T, p, I))
         /\ \A t \in LiveIn(T) : T[t] \in Entry /\ Amount(T)[t] = T[t].amount
                                 /\ T[t].amount \in Nat
         /\ OfProduct(T, p, I) \subseteq LiveIn(T)
         /\ Held(T, p, I) \in Int
  <1>1. \A t \in LiveIn(T) : T[t] \in Entry /\ Amount(T)[t] = T[t].amount
                             /\ T[t].amount \in Nat
    BY EntryFacts DEF Table, LiveIn, Amount
  <1>2. OfProduct(T, p, I) \in SUBSET TxIds /\ OfProduct(T, p, I) \subseteq LiveIn(T)
    BY DEF OfProduct, LiveIn
  <1>3. IsFiniteSet(OfProduct(T, p, I))
    BY <1>2, FS_Subset
  <1>4. Held(T, p, I) \in Int
    BY <1>1, <1>2, <1>3, SumInt DEF Held
  <1> QED BY <1>1, <1>2, <1>3, <1>4

LEMMA HeldSplit ==
  ASSUME NEW T \in Table, NEW p, NEW I \in SUBSET TxIds
  PROVE  Held(T, p, TxIds) = Held(T, p, I) + Held(T, p, TxIds \ I)
  <1> DEFINE A == OfProduct(T, p, TxIds)
             B == OfProduct(T, p, I)
  <1>1. B \in SUBSET A /\ A \ B = OfProduct(T, p, TxIds \ I)
    BY DEF OfProduct, LiveIn
  <1>2. IsFiniteSet(A) /\ \A t \in A : Amount(T)[t] \in Int
    BY HeldFacts
  <1> HIDE DEF A, B
  <1>3. SumOver(Amount(T), A) = SumOver(Amount(T), B) + SumOver(Amount(T), A \ B)
    BY <1>1, <1>2, SumSplit
  <1> QED BY <1>1, <1>3 DEF Held, A, B

LEMMA HeldElsewhere ==
  ASSUME NEW T \in Table, NEW U \in Table, NEW p, NEW I \in SUBSET TxIds,
         \A t \in TxIds \ I : U[t] = T[t]
  PROVE  Held(U, p, TxIds \ I) = Held(T, p, TxIds \ I)
  <1> DEFINE A == OfProduct(T, p, TxIds \ I)
  <1>1. A = OfProduct(U, p, TxIds \ I)
    BY DEF OfProduct, LiveIn
  <1>2. IsFiniteSet(A)
    BY HeldFacts
  <1>3. \A t \in A : Amount(T)[t] \in Int /\ Amount(U)[t] = Amount(T)[t]
    <2> SUFFICES ASSUME NEW t \in A PROVE Amount(T)[t] \in Int /\ Amount(U)[t] = Amount(T)[t]
      OBVIOUS
    <2>1. t \in LiveIn(T) /\ t \in LiveIn(U) /\ U[t] = T[t]
      BY DEF OfProduct, LiveIn
    <2> QED BY <2>1, HeldFacts
  <1> HIDE DEF A
  <1>4. SumOver(Amount(U), A) = SumOver(Amount(T), A)
    BY <1>2, <1>3, SumSame
  <1> QED BY <1>1, <1>4 DEF Held, A

LEMMA CommittedRows ==
  ASSUME TypeInv, Apart, NEW s \in Sessions, NEW r, r = session[s], NEW p \in Products,
         CommitCreate(s) \/ CommitUpdate(s) \/ CommitDelete(s)
  PROVE  Held(tx', p, TxIds) = Held(tx, p, TxIds) - TakenOut(r, p) + PutIn(r, p)
  <1>1. /\ r \in OpenRequest /\ Shape(r) /\ r.loaded /\ Fresh(r)
        /\ r.op \in {"create", "update", "delete"}
        /\ \A t \in TxIds \ r.ids : tx'[t] = tx[t]
        /\ r.op \in {"create", "update"} => \A t \in r.ids : tx'[t] = r.new
        /\ r.op = "delete" => \A t \in r.ids : tx'[t] = Deleted
    BY CommitFacts
  <1>2. tx \in Table /\ tx' \in Table /\ r.ids \in SUBSET TxIds
    BY <1>1, CommitFacts DEF Table, TypeInv, TypeOK, OpenRequest
  <1>3. PICK T \in Table, U \in Table : T = tx /\ U = tx'
    BY <1>2
  <1>4. Held(T, p, r.ids) = TakenOut(r, p)
    <2>1. CASE r.op = "create"
      <3>1. OfProduct(T, p, r.ids) = {}
        BY <1>1, <1>3, <2>1 DEF OfProduct, LiveIn, Fresh
      <3> QED BY <2>1, <3>1, SumEmpty DEF Held, TakenOut
    <2>2. CASE r.op \in {"update", "delete"}
      <3>1. \A t \in r.ids : T[t] = r.old[t] /\ r.old[t] \in Entry /\ t \in TxIds
        BY <1>1, <1>2, <1>3, <2>2, OldFacts DEF Fresh
      <3>2. r.ids \subseteq LiveIn(T)
        BY <3>1, EntryFacts DEF LiveIn
      <3>3. OfProduct(T, p, r.ids) = OldOf(r, p)
        BY <3>1, <3>2 DEF OfProduct, OldOf
      <3>4. /\ IsFiniteSet(OldOf(r, p))
            /\ \A t \in OldOf(r, p) : Past(r)[t] \in Int /\ Amount(T)[t] = Past(r)[t]
        <4>1. IsFiniteSet(OldOf(r, p))
          BY <1>1, <2>2, OldFacts
        <4>2. ASSUME NEW t \in OldOf(r, p)
              PROVE  Past(r)[t] \in Int /\ Amount(T)[t] = Past(r)[t]
          <5>1. t \in r.ids /\ t \in LiveIn(T)
            BY <3>2 DEF OldOf
          <5>2. Amount(T)[t] = T[t].amount /\ T[t] = r.old[t]
            BY <3>1, <5>1, HeldFacts
          <5>3. Past(r)[t] = r.old[t].amount /\ r.old[t].amount \in Nat
            BY <1>1, <2>2, <5>1, OldFacts
          <5> QED BY <5>2, <5>3
        <4> QED BY <4>1, <4>2
      <3>5. SumOver(Amount(T), OldOf(r, p)) = SumOver(Past(r), OldOf(r, p))
        BY <3>4, SumSame
      <3>6. TakenOut(r, p) = SumOver(Past(r), OldOf(r, p))
        BY <1>1, <2>2, OldFacts
      <3> QED BY <3>3, <3>5, <3>6 DEF Held
    <2> QED BY <1>1, <2>1, <2>2
  <1>5. Held(U, p, r.ids) = PutIn(r, p)
    <2>1. CASE r.op = "delete"
      <3>1. OfProduct(U, p, r.ids) = {}
        BY <1>1, <1>3, <2>1 DEF OfProduct, LiveIn
      <3> QED BY <2>1, <3>1, SumEmpty DEF Held, PutIn
    <2>2. CASE r.op \in {"create", "update"}
      <3>1. PICK t \in TxIds : r.ids = {t}
        BY <1>1, <2>2 DEF Shape
      <3>2. U[t] = r.new /\ r.new \in Entry
        BY <1>1, <1>3, <2>2, <3>1 DEF Shape
      <3>3. t \in LiveIn(U)
        BY <3>2, EntryFacts DEF LiveIn
      <3>4. CASE r.new.product = p
        <4>1. OfProduct(U, p, r.ids) = {t}
          BY <3>1, <3>2, <3>3, <3>4 DEF OfProduct
        <4>2. Amount(U)[t] = r.new.amount /\ r.new.amount \in Int
          BY <3>2, <3>3, HeldFacts
        <4>3. SumOver(Amount(U), {t}) = Amount(U)[t]
          BY <4>2, SumSingle
        <4> QED BY <2>2, <3>4, <4>1, <4>2, <4>3 DEF Held, PutIn
      <3>5. CASE r.new.product # p
        <4>1. OfProduct(U, p, r.ids) = {}
          BY <3>1, <3>2, <3>5 DEF OfProduct
        <4> QED BY <3>5, <4>1, SumEmpty DEF Held, PutIn
      <3> QED BY <3>4, <3>5
    <2> QED BY <1>1, <2>1, <2>2
  <1>6. Held(U, p, TxIds \ r.ids) = Held(T, p, TxIds \ r.ids)
    BY <1>1, <1>2, <1>3, HeldElsewhere
  <1>7. /\ Held(T, p, TxIds) = Held(T, p, r.ids) + Held(T, p, TxIds \ r.ids)
        /\ Held(U, p, TxIds) = Held(U, p, r.ids) + Held(U, p, TxIds \ r.ids)
    BY <1>2, HeldSplit
  <1>8. /\ Held(T, p, r.ids) \in Int /\ Held(U, p, r.ids) \in Int
        /\ Held(T, p, TxIds \ r.ids) \in Int
    BY HeldFacts
  <1>9. PICK i \in Int, j \in Int, k \in Int :
           /\ i = Held(T, p, r.ids) /\ j = Held(U, p, r.ids)
           /\ k = Held(T, p, TxIds \ r.ids)
    BY <1>8
  <1>10. Held(T, p, TxIds) = i + k /\ Held(U, p, TxIds) = j + k
    BY <1>6, <1>7, <1>9
  <1>11. Held(U, p, TxIds) = Held(T, p, TxIds) - i + j
    BY <1>10
  <1>12. i = TakenOut(r, p) /\ j = PutIn(r, p)
    BY <1>4, <1>5, <1>9
  <1> QED BY <1>3, <1>11, <1>12

LEMMA SavedIsHeld == \A p : /\ Saved(p) = Held(tx, p, TxIds)
                           /\ Saved(p)' = Held(tx', p, TxIds)
  <1> SUFFICES ASSUME NEW p
               PROVE  Saved(p) = Held(tx, p, TxIds) /\ Saved(p)' = Held(tx', p, TxIds)
    OBVIOUS
  <1>1. Live = LiveIn(tx) /\ Live' = LiveIn(tx')
    BY DEF Live, LiveIn
  <1>2. /\ {t \in Live : tx[t].product = p} = OfProduct(tx, p, TxIds)
        /\ {t \in Live' : tx'[t].product = p} = OfProduct(tx', p, TxIds)
    BY <1>1 DEF OfProduct, LiveIn
  <1>3. /\ [t \in Live |-> tx[t].amount] = Amount(tx)
        /\ [t \in Live' |-> tx'[t].amount] = Amount(tx')
    BY <1>1 DEF Amount
  <1> QED BY <1>2, <1>3 DEF Saved, Held

LEMMA InitApart == Init => TypeInv /\ Apart /\ BalanceAgrees
  <1> SUFFICES ASSUME Init PROVE Apart /\ BalanceAgrees
    BY InitTypeInv
  <1>1. Apart
    BY TouchesFacts DEF Init, Apart
  <1>2. ASSUME NEW p \in Products PROVE balance[p] = Saved(p) + corrected[p]
    <2>1. OfProduct(tx, p, TxIds) = {}
      BY DEF Init, OfProduct, LiveIn
    <2>2. Saved(p) = 0
      BY <2>1, SavedIsHeld, SumEmpty DEF Held
    <2> QED BY <2>2 DEF Init
  <1> QED BY <1>1, <1>2 DEF BalanceAgrees

LEMMA StaysEqual ==
  ASSUME TypeInv, Apart, BalanceAgrees, [Next]_vars
  PROVE  BalanceAgrees'
  <1>1. \A p \in Products : balance[p] \in Int /\ corrected[p] \in Int /\ Saved(p) \in Int
    BY SavedIsHeld, HeldFacts DEF TypeInv, TypeOK, Table
  <1>2. \A p : Saved(p)' = Held(tx', p, TxIds)
    BY SavedIsHeld
  <1>3. ASSUME UNCHANGED <<tx, balance, corrected>> PROVE BalanceAgrees'
    BY <1>3 DEF BalanceAgrees, Saved, Live
  <1>4. ASSUME NEW s \in Sessions, CommitCreate(s) \/ CommitUpdate(s) \/ CommitDelete(s)
        PROVE  BalanceAgrees'
    <2> SUFFICES ASSUME NEW p \in Products
                 PROVE  balance'[p] = Held(tx', p, TxIds) + corrected'[p]
      BY <1>2 DEF BalanceAgrees
    <2>1. PICK r : r = session[s]
      OBVIOUS
    <2>2. PICK i \in Int, j \in Int, h \in Int, c \in Int :
             /\ i = TakenOut(r, p) /\ j = PutIn(r, p)
             /\ h = Held(tx, p, TxIds) /\ c = corrected[p]
      BY <1>1, <1>4, <2>1, CommittedBalance, SavedIsHeld
    <2>3. balance[p] = h + c
      BY <2>2, SavedIsHeld DEF BalanceAgrees
    <2>4. balance'[p] = balance[p] - i + j
      BY <1>4, <2>1, <2>2, CommittedBalance
    <2>5. Held(tx', p, TxIds) = h - i + j
      BY <1>4, <2>1, <2>2, CommittedRows
    <2>6. corrected'[p] = c
      BY <1>4, <2>1, <2>2, CommitFacts
    <2> QED BY <2>3, <2>4, <2>5, <2>6
  <1>5. ASSUME NEW s \in Sessions, NEW o \in Products, NEW c \in {0} \cup Amounts,
               SaveForm(s, o, c)
        PROVE  BalanceAgrees'
    <2>1. /\ c \in Int /\ tx' = tx
          /\ balance' = [balance EXCEPT ![o] = balance[o] + c]
          /\ corrected' = [corrected EXCEPT ![o] = corrected[o] + c]
      BY <1>5, SaveFormFacts
    <2> SUFFICES ASSUME NEW p \in Products
                 PROVE  balance'[p] = Held(tx', p, TxIds) + corrected'[p]
      BY <1>2 DEF BalanceAgrees
    <2>2. balance[p] = Held(tx, p, TxIds) + corrected[p]
      BY SavedIsHeld DEF BalanceAgrees
    <2>3. PICK h \in Int, k \in Int : h = Held(tx, p, TxIds) /\ k = corrected[p]
      BY <1>1, SavedIsHeld
    <2>4. Held(tx', p, TxIds) = h
      BY <2>1, <2>3
    <2>5. /\ p = o => balance'[p] = balance[p] + c /\ corrected'[p] = k + c
          /\ p # o => balance'[p] = balance[p] /\ corrected'[p] = k
      BY <2>1, <2>3 DEF TypeInv, TypeOK
    <2> QED BY <2>1, <2>2, <2>3, <2>4, <2>5
  <1> QED
    BY <1>3, <1>4, <1>5
    DEF Next, vars, StartCreate, StartUpdate, StartDelete, LoadProducts, OpenForm, Abort,
        SetGrowlioLink

(* Requests that share nothing keep every balance equal to the sum of the   *)
(* product's transactions and the corrections made by hand, whatever fails  *)
(* in between (transaction_service.py, create_transaction,                  *)
(* update_transaction, delete_transaction; savings_product_service.py,      *)
(* adjust_balance and update_product).                                      *)
THEOREM BalancesAgree ==
  ASSUME ~MayOverlap
  PROVE  Spec => []BalanceAgrees
  <1> DEFINE Inv == TypeInv /\ Apart /\ BalanceAgrees
  <1>1. Init => Inv
    BY InitApart
  <1>2. Inv /\ [Next]_vars => Inv'
    BY Typed, StaysApart, StaysEqual
  <1>3. Inv => BalanceAgrees
    OBVIOUS
  <1> QED BY <1>1, <1>2, <1>3, PTL DEF Spec

-----------------------------------------------------------------------------
(* The outbox: what the rows of one transaction on one account add up to,   *)
(* and what a row at the end of the queue adds.                             *)
Of(q, t, a) == {k \in DOMAIN q : q[k].tx = t /\ q[k].account = a}
Signs(q) == [k \in DOMAIN q |-> Signed(q[k])]
Tally(q, t, a) == SumOver(Signs(q), Of(q, t, a))

Worth(row, t, a) == IF row.tx = t /\ row.account = a THEN Signed(row) ELSE 0

LEMMA SignedFacts ==
  ASSUME NEW row \in Row
  PROVE  Signed(row) \in Int /\ \A t, a : Worth(row, t, a) \in Int
  <1>1. PICK n \in Nat : n = row.amount
    BY DEF Row
  <1>2. Signed(row) \in Int
    BY <1>1 DEF Signed
  <1> QED BY <1>2 DEF Worth

LEMMA TallyFacts ==
  ASSUME NEW q \in Seq(Row), NEW t, NEW a
  PROVE  /\ IsFiniteSet(Of(q, t, a))
         /\ \A k \in DOMAIN q : Signs(q)[k] \in Int
         /\ Tally(q, t, a) \in Int
  <1>1. DOMAIN q = 1 .. Len(q) /\ Len(q) \in Nat /\ \A k \in DOMAIN q : q[k] \in Row
    BY LenProperties, ElementOfSeq
  <1>2. Of(q, t, a) \in SUBSET (1 .. Len(q))
    BY <1>1 DEF Of
  <1>3. IsFiniteSet(1 .. Len(q))
    BY <1>1, FS_Interval
  <1>4. IsFiniteSet(Of(q, t, a))
    BY <1>2, <1>3, FS_Subset
  <1>6. \A k \in DOMAIN q : Signs(q)[k] \in Int
    BY <1>1, SignedFacts DEF Signs
  <1>7. \A k \in Of(q, t, a) : Signs(q)[k] \in Int
    BY <1>6 DEF Of
  <1> QED BY <1>4, <1>6, <1>7, SumInt DEF Tally

LEMMA TallyAppend ==
  ASSUME NEW q \in Seq(Row), NEW row \in Row, NEW t, NEW a
  PROVE  /\ q \o <<row>> \in Seq(Row)
         /\ Tally(q \o <<row>>, t, a) = Tally(q, t, a) + Worth(row, t, a)
  <1>1. PICK z : z = q \o <<row>>
    OBVIOUS
  <1>2. PICK n \in Nat : n = Len(q)
    OBVIOUS
  <1>3. /\ z \in Seq(Row) /\ DOMAIN z = 1 .. n + 1 /\ DOMAIN q = 1 .. n
        /\ \A k \in 1 .. n : z[k] = q[k]
        /\ z[n + 1] = row
    BY <1>1, <1>2
  <1>4. \A k \in 1 .. n : Signs(z)[k] = Signs(q)[k]
    BY <1>2, <1>3 DEF Signs
  <1>5. SumOver(Signs(z), Of(q, t, a)) = Tally(q, t, a)
    <2>1. Of(q, t, a) \subseteq 1 .. n
      BY <1>3 DEF Of
    <2>2. IsFiniteSet(Of(q, t, a)) /\ \A k \in 1 .. n : Signs(q)[k] \in Int
      BY <1>3, TallyFacts
    <2>3. \A k \in Of(q, t, a) : Signs(q)[k] \in Int /\ Signs(z)[k] = Signs(q)[k]
      BY <1>4, <2>1, <2>2
    <2> QED BY <2>2, <2>3, SumSame DEF Tally
  <1>6. Signs(z)[n + 1] = Signed(row) /\ Tally(q, t, a) \in Int
    BY <1>2, <1>3, TallyFacts DEF Signs
  <1>7. CASE row.tx = t /\ row.account = a
    <2>1. Of(z, t, a) = Of(q, t, a) \cup {n + 1} /\ n + 1 \notin Of(q, t, a)
      BY <1>2, <1>3, <1>7 DEF Of
    <2>2. Of(z, t, a) \ {n + 1} = Of(q, t, a) /\ n + 1 \in Of(z, t, a)
      BY <2>1
    <2>3. IsFiniteSet(Of(z, t, a)) /\ \A k \in Of(z, t, a) : Signs(z)[k] \in Int
      <3>1. IsFiniteSet(Of(z, t, a)) /\ \A k \in DOMAIN z : Signs(z)[k] \in Int
        BY <1>3, TallyFacts
      <3> QED BY <3>1 DEF Of
    <2>4. Tally(z, t, a) = Signs(z)[n + 1] + SumOver(Signs(z), Of(z, t, a) \ {n + 1})
      BY <2>2, <2>3, SumRemove DEF Tally
    <2>5. Tally(z, t, a) = Signed(row) + Tally(q, t, a)
      BY <1>5, <1>6, <2>2, <2>4
    <2>6. Signed(row) \in Int
      BY SignedFacts
    <2> QED BY <1>1, <1>3, <1>6, <1>7, <2>5, <2>6 DEF Worth
  <1>8. CASE ~(row.tx = t /\ row.account = a)
    <2>1. Of(z, t, a) = Of(q, t, a)
      BY <1>2, <1>3, <1>8 DEF Of
    <2>2. Tally(z, t, a) = Tally(q, t, a)
      BY <1>5, <2>1 DEF Tally
    <2> QED BY <1>1, <1>3, <1>6, <1>8, <2>2 DEF Worth
  <1> QED BY <1>7, <1>8

LEMMA TallyEmpty == ASSUME NEW t, NEW a PROVE Tally(<<>>, t, a) = 0
  <1>1. Of(<<>>, t, a) = {}
    BY DEF Of
  <1> QED BY <1>1, SumEmpty DEF Tally

LEMMA TallyRow ==
  ASSUME NEW row \in Row, NEW t, NEW a
  PROVE  Tally(<<row>>, t, a) = Worth(row, t, a)
  <1>1. <<>> \in Seq(Row) /\ <<>> \o <<row>> = <<row>>
    OBVIOUS
  <1>2. Tally(<<>> \o <<row>>, t, a) = Tally(<<>>, t, a) + Worth(row, t, a)
    <2>1. PICK e : e = <<>>
      OBVIOUS
    <2>2. e \in Seq(Row)
      BY <1>1, <2>1
    <2>3. Tally(e \o <<row>>, t, a) = Tally(e, t, a) + Worth(row, t, a)
      BY <2>2, TallyAppend
    <2> QED BY <2>1, <2>3
  <1>3. Worth(row, t, a) \in Int
    BY SignedFacts
  <1> QED BY <1>1, <1>2, <1>3, TallyEmpty

(* A piece is what stage() adds for one entry: nothing or one row.          *)
IsPiece(rows, i) ==
    \/ rows = <<>>
    \/ \E row \in Row : rows = <<row>> /\ row.tx = i

LEMMA TallyPiece ==
  ASSUME NEW q \in Seq(Row), NEW i, NEW rows, IsPiece(rows, i), NEW t, NEW a
  PROVE  /\ rows \in Seq(Row) /\ q \o rows \in Seq(Row)
         /\ Tally(q, t, a) \in Int /\ Tally(rows, t, a) \in Int
         /\ Tally(q \o rows, t, a) = Tally(q, t, a) + Tally(rows, t, a)
         /\ t # i => Tally(rows, t, a) = 0
  <1>1. CASE rows = <<>>
    <2>1. rows \in Seq(Row) /\ q \o rows = q
      BY <1>1, ConcatEmptySeq
    <2> QED BY <1>1, <2>1, TallyEmpty, TallyFacts
  <1>2. ASSUME NEW row \in Row, rows = <<row>>, row.tx = i
        PROVE  /\ rows \in Seq(Row) /\ q \o rows \in Seq(Row)
               /\ Tally(q, t, a) \in Int /\ Tally(rows, t, a) \in Int
               /\ Tally(q \o rows, t, a) = Tally(q, t, a) + Tally(rows, t, a)
               /\ t # i => Tally(rows, t, a) = 0
    <2>1. rows \in Seq(Row)
      BY <1>2
    <2>2. t # i => Worth(row, t, a) = 0
      BY <1>2 DEF Worth
    <2>3. PICK w : w = Worth(row, t, a)
      OBVIOUS
    <2>4. /\ q \o rows \in Seq(Row) /\ Tally(rows, t, a) = w
          /\ Tally(q \o rows, t, a) = Tally(q, t, a) + w
      BY <1>2, <2>3, TallyAppend, TallyRow
    <2>5. w \in Int /\ Tally(q, t, a) \in Int
      BY <2>3, SignedFacts, TallyFacts
    <2> QED BY <2>1, <2>2, <2>3, <2>4, <2>5
  <1> QED BY <1>1, <1>2 DEF IsPiece

LEMMA Regroup ==
  ASSUME NEW q \in Seq(Row), NEW w \in Seq(Row), NEW y \in Seq(Row)
  PROVE  q \o (w \o y) = (q \o w) \o y
  BY ConcatAssociative

LEMMA TallyJoin ==
  ASSUME NEW S, IsFiniteSet(S), NEW f, \A x \in S : IsPiece(f[x], x),
         NEW q \in Seq(Row), NEW t, NEW a
  PROVE  /\ q \o RowsOver(f, S) \in Seq(Row)
         /\ t \in S => Tally(q \o RowsOver(f, S), t, a) = Tally(q, t, a) + Tally(f[t], t, a)
         /\ t \notin S => Tally(q \o RowsOver(f, S), t, a) = Tally(q, t, a)
  <1>1. \A x \in S : f[x] \in Seq(Row)
    BY TallyPiece
  <1>2. \A s \in SUBSET S :
            /\ RowsOver(f, s) \in Seq(Row)
            /\ s = {} => RowsOver(f, s) = <<>>
            /\ s # {} => RowsOver(f, s) = RowsOver(f, s \ {First(s)}) \o f[First(s)]
    <2>1. PICK R : R = Row
      OBVIOUS
    <2>2. \A x \in S : f[x] \in Seq(R)
      BY <1>1, <2>1
    <2>3. \A s \in SUBSET S :
              /\ RowsOver(f, s) \in Seq(R)
              /\ s = {} => RowsOver(f, s) = <<>>
              /\ s # {} => RowsOver(f, s) = RowsOver(f, s \ {First(s)}) \o f[First(s)]
      BY <2>2, JoinFacts
    <2> QED BY <2>1, <2>3
  <1> DEFINE Good(s) ==
                /\ q \o RowsOver(f, s) \in Seq(Row)
                /\ t \in s => Tally(q \o RowsOver(f, s), t, a) = Tally(q, t, a) + Tally(f[t], t, a)
                /\ t \notin s => Tally(q \o RowsOver(f, s), t, a) = Tally(q, t, a)
             G == {s \in SUBSET S : Good(s)}
  <1>3. {} \in G
    <2>1. RowsOver(f, {}) = <<>> /\ q \o <<>> = q
      BY <1>2, ConcatEmptySeq
    <2>2. q \o RowsOver(f, {}) = q
      BY <2>1
    <2> QED BY <2>2
  <1>4. ASSUME NEW s \in SUBSET S, s # {}, \A x \in s : s \ {x} \in G
        PROVE  s \in G
    <2>1. PICK c \in s : c = First(s)
      BY <1>4, FirstIsMember
    <2>2. PICK w : w = RowsOver(f, s \ {c})
      OBVIOUS
    <2>3. PICK z : z = q \o w
      OBVIOUS
    <2>4. s \ {c} \in G /\ s \ {c} \in SUBSET S
      BY <1>4, <2>1
    <2>5. /\ z \in Seq(Row)
          /\ t \in s \ {c} => Tally(z, t, a) = Tally(q, t, a) + Tally(f[t], t, a)
          /\ t \notin s \ {c} => Tally(z, t, a) = Tally(q, t, a)
      BY <2>2, <2>3, <2>4
    <2>6. w \in Seq(Row) /\ f[c] \in Seq(Row) /\ RowsOver(f, s) = w \o f[c]
      BY <1>1, <1>2, <1>4, <2>1, <2>2, <2>4
    <2>7. q \o RowsOver(f, s) = z \o f[c]
      <3>1. PICK y : y = f[c] /\ y \in Seq(Row)
        BY <2>6
      <3>2. q \o (w \o y) = (q \o w) \o y
        BY <2>6, <3>1, Regroup
      <3> QED BY <2>3, <2>6, <3>1, <3>2
    <2>8. /\ z \o f[c] \in Seq(Row)
          /\ Tally(z, t, a) \in Int /\ Tally(f[c], t, a) \in Int
          /\ Tally(z \o f[c], t, a) = Tally(z, t, a) + Tally(f[c], t, a)
          /\ t # c => Tally(f[c], t, a) = 0
      <3>1. IsPiece(f[c], c)
        BY <2>1
      <3> QED BY <2>5, <3>1, TallyPiece
    <2>9. CASE t = c
      BY <2>1, <2>5, <2>7, <2>8, <2>9
    <2>10. CASE t # c
      <3>1. Tally(z \o f[c], t, a) = Tally(z, t, a)
        BY <2>8, <2>10
      <3>2. t \in s <=> t \in s \ {c}
        BY <2>10
      <3> QED BY <2>5, <2>7, <2>8, <3>1, <3>2
    <2> QED BY <2>9, <2>10
  <1>5. SUBSET S \subseteq G
    <2> HIDE DEF G
    <2> QED BY <1>3, <1>4, SubsetInduction
  <1> QED BY <1>5

(* What a transaction stands for on an account, in the table and in a row   *)
(* of stage().                                                              *)
Worthy(e, L, a) == e.product \in Products /\ L[e.product] = a

Due(T, L, t, a) == IF t \in LiveIn(T) /\ Worthy(T[t], L, a) THEN T[t].amount ELSE 0

LEMMA DueFacts ==
  ASSUME NEW T \in Table, NEW L, NEW t \in TxIds, NEW a
  PROVE  /\ T[t] \in {Unused, Deleted} => Due(T, L, t, a) = 0
         /\ T[t] \in Entry =>
               /\ Worthy(T[t], L, a) => Due(T, L, t, a) = T[t].amount
               /\ ~Worthy(T[t], L, a) => Due(T, L, t, a) = 0
  <1>1. T[t] \in Entry => t \in LiveIn(T)
    BY EntryFacts DEF LiveIn
  <1>2. T[t] \in {Unused, Deleted} => t \notin LiveIn(T)
    BY DEF LiveIn
  <1> QED BY <1>1, <1>2 DEF Due

LEMMA StageTally ==
  ASSUME NEW r \in OpenRequest, Shape(r), r.loaded, NEW L,
         NEW type \in {"DEPOSIT", "WITHDRAWAL"}, NEW e \in Entry, NEW i \in TxIds,
         e.product \in Products => e.product \in r.products /\ r.acct[e.product] = L[e.product],
         NEW a \in Accounts
  PROVE  /\ IsPiece(Stage(r, type, e, i), i)
         /\ Worthy(e, L, a) /\ type = "DEPOSIT" => Tally(Stage(r, type, e, i), i, a) = e.amount
         /\ Worthy(e, L, a) /\ type = "WITHDRAWAL" => Tally(Stage(r, type, e, i), i, a) = -e.amount
         /\ ~Worthy(e, L, a) => Tally(Stage(r, type, e, i), i, a) = 0
  <1>0. IsPiece(Stage(r, type, e, i), i)
    BY StageFacts DEF IsPiece
  <1>1. CASE e.product \in Products /\ r.acct[e.product] \in Accounts
    <2>1. PICK row : row = [account |-> r.acct[e.product], type |-> type,
                            amount |-> e.amount, tx |-> i]
      OBVIOUS
    <2>2. Stage(r, type, e, i) = <<row>>
      BY <1>1, <2>1 DEF Stage
    <2>3. row \in Row
      BY <1>1, <2>1, EntryFacts DEF Row
    <2>4. row.tx = i /\ row.account = L[e.product] /\ row.type = type /\ row.amount = e.amount
      BY <1>1, <2>1
    <2>5. Tally(<<row>>, i, a) = Worth(row, i, a)
      BY <2>3, TallyRow
    <2>6. /\ Worthy(e, L, a) => Worth(row, i, a) = Signed(row)
          /\ ~Worthy(e, L, a) => Worth(row, i, a) = 0
      BY <1>1, <2>4 DEF Worth, Worthy
    <2>7. /\ type = "DEPOSIT" => Signed(row) = e.amount
          /\ type = "WITHDRAWAL" => Signed(row) = -e.amount
      BY <2>4 DEF Signed
    <2> QED BY <1>0, <2>2, <2>5, <2>6, <2>7
  <1>2. CASE ~(e.product \in Products /\ r.acct[e.product] \in Accounts)
    <2>1. ~Worthy(e, L, a)
      BY <1>2 DEF Worthy
    <2>2. Stage(r, type, e, i) = <<>>
      BY <1>2 DEF Stage
    <2> QED BY <1>0, <2>1, <2>2, TallyEmpty
  <1> QED BY <1>1, <1>2

LEMMA OwedIsTally ==
  /\ OutboxAgrees <=>
        (relinks = 0 => \A t \in TxIds, a \in Accounts :
                           Tally(queue, t, a) = Due(tx, link, t, a))
  /\ OutboxAgrees' <=>
        (relinks' = 0 => \A t \in TxIds, a \in Accounts :
                           Tally(queue', t, a) = Due(tx', link', t, a))
  <1>1. \A t, a : Owed(t, a) = Tally(queue, t, a) /\ Owed(t, a)' = Tally(queue', t, a)
    BY DEF Owed, Tally, Signs, Of
  <1>2. Live = LiveIn(tx) /\ Live' = LiveIn(tx')
    BY DEF Live, LiveIn
  <1> QED BY <1>1, <1>2 DEF OutboxAgrees, Due, Worthy

(* What the commit of a request adds to the queue, while no product has     *)
(* been linked anew.                                                        *)
LEMMA LoadedLinks ==
  ASSUME TypeInv, NEW r \in OpenRequest, Shape(r), Fresh(r), r.loaded, relinks = 0
  PROVE  /\ r.op \in {"create", "update"} =>
               (r.new.product \in Products =>
                   r.new.product \in r.products /\ r.acct[r.new.product] = link[r.new.product])
         /\ r.op \in {"update", "delete"} =>
               \A t \in r.ids : r.old[t].product \in Products =>
                   /\ r.old[t].product \in r.products
                   /\ r.acct[r.old[t].product] = link[r.old[t].product]
  <1>1. \A p \in r.products : r.acct[p] = link[p]
    BY DEF Fresh
  <1>2. r.op \in {"create", "update"} =>
           (r.new.product \in Products => r.new.product \in r.products)
    BY DEF Shape
  <1>3. r.op \in {"update", "delete"} =>
           \A t \in r.ids : r.old[t].product \in Products => r.old[t].product \in r.products
    BY DEF Shape
  <1> QED BY <1>1, <1>2, <1>3

LEMMA BackTally ==
  ASSUME TypeInv, NEW r \in OpenRequest, Shape(r), Fresh(r), r.loaded, relinks = 0,
         r.op \in {"update", "delete"}, NEW t \in TxIds, NEW a \in Accounts
  PROVE  /\ queue \o Withdrawals(r) \in Seq(Row) /\ Withdrawals(r) \in Seq(Row)
         /\ t \notin r.ids => Tally(queue \o Withdrawals(r), t, a) = Tally(queue, t, a)
         /\ t \in r.ids =>
               Tally(queue \o Withdrawals(r), t, a) = Tally(queue, t, a) - Due(tx, link, t, a)
  <1>1. /\ IsFiniteSet(r.ids) /\ queue \in Seq(Row)
        /\ Withdrawals(r) = RowsOver(Back(r), r.ids) /\ Withdrawals(r) \in Seq(Row)
        /\ \A x \in r.ids : IsPiece(Back(r)[x], x)
    BY OldFacts, BackFacts DEF IsPiece, TypeInv, TypeOK
  <1>2. /\ queue \o Withdrawals(r) \in Seq(Row)
        /\ t \in r.ids => Tally(queue \o Withdrawals(r), t, a)
                             = Tally(queue, t, a) + Tally(Back(r)[t], t, a)
        /\ t \notin r.ids => Tally(queue \o Withdrawals(r), t, a) = Tally(queue, t, a)
    BY <1>1, TallyJoin
  <1>3. ASSUME t \in r.ids
        PROVE  Tally(queue \o Withdrawals(r), t, a) = Tally(queue, t, a) - Due(tx, link, t, a)
    <2>1. r.old[t] \in Entry /\ tx[t] = r.old[t] /\ r.old[t].amount \in Nat
      BY <1>3, OldFacts DEF Fresh
    <2>2. r.old[t].product \in Products =>
             r.old[t].product \in r.products
             /\ r.acct[r.old[t].product] = link[r.old[t].product]
      BY <1>3, LoadedLinks
    <2>3. Back(r)[t] = Stage(r, "WITHDRAWAL", r.old[t], t)
      BY <1>3, BackFacts
    <2>4. /\ Worthy(r.old[t], link, a) => Tally(Back(r)[t], t, a) = -r.old[t].amount
          /\ ~Worthy(r.old[t], link, a) => Tally(Back(r)[t], t, a) = 0
      BY <2>1, <2>2, <2>3, StageTally
    <2>5. /\ Worthy(r.old[t], link, a) => Due(tx, link, t, a) = r.old[t].amount
          /\ ~Worthy(r.old[t], link, a) => Due(tx, link, t, a) = 0
      BY <2>1, DueFacts DEF TypeInv, TypeOK, Table
    <2>6. PICK n \in Nat, i \in Int : n = r.old[t].amount /\ i = Tally(queue, t, a)
      BY <1>1, <2>1, TallyFacts
    <2>7. Tally(queue \o Withdrawals(r), t, a) = i + Tally(Back(r)[t], t, a)
      BY <1>2, <1>3, <2>6
    <2> QED BY <2>4, <2>5, <2>6, <2>7
  <1> QED BY <1>1, <1>2, <1>3

LEMMA DepositTally ==
  ASSUME TypeInv, NEW r \in OpenRequest, Shape(r), Fresh(r), r.loaded, relinks = 0,
         r.op \in {"create", "update"}, NEW q \in Seq(Row), NEW t \in TxIds, NEW a \in Accounts,
         NEW i \in r.ids, NEW U \in Table, U[i] = r.new
  PROVE  /\ q \o Stage(r, "DEPOSIT", r.new, i) \in Seq(Row)
         /\ Stage(r, "DEPOSIT", r.new, i) \in Seq(Row)
         /\ t # i => Tally(q \o Stage(r, "DEPOSIT", r.new, i), t, a) = Tally(q, t, a)
         /\ t = i => Tally(q \o Stage(r, "DEPOSIT", r.new, i), t, a)
                        = Tally(q, t, a) + Due(U, link, t, a)
  <1>1. r.new \in Entry /\ i \in TxIds
    BY DEF Shape, OpenRequest
  <1>2. r.new.product \in Products =>
           r.new.product \in r.products /\ r.acct[r.new.product] = link[r.new.product]
    BY LoadedLinks
  <1>3. PICK rows : rows = Stage(r, "DEPOSIT", r.new, i)
    OBVIOUS
  <1>4. /\ IsPiece(rows, i)
        /\ Worthy(r.new, link, a) => Tally(rows, i, a) = r.new.amount
        /\ ~Worthy(r.new, link, a) => Tally(rows, i, a) = 0
    <2>1. PICK e \in Entry : e = r.new
      BY <1>1
    <2>2. e.product \in Products => e.product \in r.products /\ r.acct[e.product] = link[e.product]
      BY <1>2, <2>1
    <2>3. /\ IsPiece(Stage(r, "DEPOSIT", e, i), i)
          /\ Worthy(e, link, a) => Tally(Stage(r, "DEPOSIT", e, i), i, a) = e.amount
          /\ ~Worthy(e, link, a) => Tally(Stage(r, "DEPOSIT", e, i), i, a) = 0
      BY <1>1, <2>2, StageTally
    <2> QED BY <1>3, <2>1, <2>3
  <1>5. /\ Worthy(r.new, link, a) => Due(U, link, i, a) = r.new.amount
        /\ ~Worthy(r.new, link, a) => Due(U, link, i, a) = 0
    BY <1>1, DueFacts
  <1>6. Tally(rows, i, a) = Due(U, link, i, a)
    BY <1>4, <1>5
  <1>7. /\ rows \in Seq(Row) /\ q \o rows \in Seq(Row)
        /\ Tally(q, t, a) \in Int /\ Tally(rows, t, a) \in Int
        /\ Tally(q \o rows, t, a) = Tally(q, t, a) + Tally(rows, t, a)
        /\ t # i => Tally(rows, t, a) = 0
    BY <1>4, TallyPiece
  <1>8. t # i => Tally(q \o rows, t, a) = Tally(q, t, a)
    BY <1>7
  <1> QED BY <1>3, <1>6, <1>7, <1>8

LEMMA CommittedOutbox ==
  ASSUME TypeInv, Apart, OutboxAgrees, NEW s \in Sessions,
         CommitCreate(s) \/ CommitUpdate(s) \/ CommitDelete(s)
  PROVE  OutboxAgrees'
  <1>0. PICK r : r = session[s]
    OBVIOUS
  <1>1. /\ r \in OpenRequest /\ Shape(r) /\ r.loaded /\ Fresh(r)
        /\ r.op \in {"create", "update", "delete"}
        /\ r.op = "create" => CommitCreate(s)
        /\ r.op = "update" => CommitUpdate(s)
        /\ r.op = "delete" => CommitDelete(s)
        /\ \A t \in TxIds \ r.ids : tx'[t] = tx[t]
        /\ r.op \in {"create", "update"} => \A t \in r.ids : tx'[t] = r.new
        /\ r.op = "delete" => \A t \in r.ids : tx'[t] = Deleted
        /\ link' = link /\ relinks' = relinks
    BY <1>0, CommitFacts
  <1>2. tx \in Table /\ tx' \in Table /\ queue \in Seq(Row) /\ r.ids \in SUBSET TxIds
    BY <1>0, <1>1, CommitFacts DEF Table, TypeInv, TypeOK, OpenRequest
  <1>3. PICK U \in Table : U = tx'
    BY <1>2
  <1> SUFFICES ASSUME relinks = 0, NEW t \in TxIds, NEW a \in Accounts
               PROVE  Tally(queue', t, a) = Due(U, link, t, a)
    BY <1>1, <1>3, OwedIsTally
  <1>4. Tally(queue, t, a) = Due(tx, link, t, a) /\ Tally(queue, t, a) \in Int
    BY <1>2, OwedIsTally, TallyFacts
  <1>5. t \notin r.ids => Due(U, link, t, a) = Due(tx, link, t, a)
    BY <1>1, <1>3 DEF Due, LiveIn
  <1>6. CASE r.op = "create"
    <2>1. PICK i \in r.ids : queue' = queue \o Stage(r, "DEPOSIT", r.new, i)
      BY <1>0, <1>1, <1>6 DEF CommitCreate, Push
    <2>2. r.ids = {i} /\ U[i] = r.new /\ tx[i] = Unused /\ i \in TxIds
      BY <1>1, <1>2, <1>3, <1>6, <2>1 DEF Shape, Fresh
    <2>3. /\ t # i => Tally(queue', t, a) = Tally(queue, t, a)
          /\ t = i => Tally(queue', t, a) = Tally(queue, t, a) + Due(U, link, t, a)
      <3>1. r.op \in {"create", "update"} /\ i \in r.ids
        BY <1>6, <2>1
      <3>2. PICK d : d = Stage(r, "DEPOSIT", r.new, i)
        OBVIOUS
      <3>3. /\ t # i => Tally(queue \o d, t, a) = Tally(queue, t, a)
            /\ t = i => Tally(queue \o d, t, a) = Tally(queue, t, a) + Due(U, link, t, a)
        BY <1>1, <1>2, <2>2, <3>1, <3>2, DepositTally
      <3> QED BY <2>1, <3>2, <3>3
    <2>4. CASE t # i
      BY <1>4, <1>5, <2>2, <2>3, <2>4
    <2>5. CASE t = i
      <3>1. Due(tx, link, t, a) = 0
        BY <1>2, <2>2, <2>5, DueFacts
      <3>2. PICK d : d = Due(U, link, t, a) /\ d \in Int
        BY <1>1, <1>3, <1>6, <2>2, <2>5, DueFacts, EntryFacts DEF Shape
      <3> QED BY <1>4, <2>3, <2>5, <3>1, <3>2
    <2> QED BY <2>4, <2>5
  <1>7. CASE r.op = "delete"
    <2>1. queue' = queue \o Withdrawals(r)
      BY <1>0, <1>1, <1>7 DEF CommitDelete, Push
    <2>2. /\ t \notin r.ids => Tally(queue', t, a) = Tally(queue, t, a)
          /\ t \in r.ids => Tally(queue', t, a) = Tally(queue, t, a) - Due(tx, link, t, a)
      BY <1>1, <1>7, <2>1, BackTally
    <2>3. t \in r.ids => Due(U, link, t, a) = 0
      BY <1>1, <1>3, <1>7, DueFacts
    <2> QED BY <1>4, <1>5, <2>2, <2>3
  <1>8. CASE r.op = "update"
    <2>1. PICK i \in TxIds : r.ids = {i}
      BY <1>1, <1>8 DEF Shape
    <2>2. U[i] = r.new /\ r.new \in Entry /\ r.old[i] = tx[i]
      BY <1>1, <1>3, <1>8, <2>1 DEF Shape, Fresh
    <2>3. CASE SavingsChanged(r)
      <3>1. PICK w : w = Withdrawals(r)
        OBVIOUS
      <3>2. PICK d : d = Stage(r, "DEPOSIT", r.new, i)
        OBVIOUS
      <3>3. queue' = queue \o (w \o d)
        BY <1>0, <1>1, <1>8, <2>1, <2>3, <3>1, <3>2 DEF CommitUpdate, Push
      <3>4. PICK q : q = queue \o w
        OBVIOUS
      <3>5. /\ q \in Seq(Row) /\ w \in Seq(Row)
            /\ t # i => Tally(q, t, a) = Tally(queue, t, a)
            /\ t = i => Tally(q, t, a) = Tally(queue, t, a) - Due(tx, link, t, a)
        BY <1>1, <1>8, <2>1, <3>1, <3>4, BackTally
      <3>6. /\ d \in Seq(Row)
            /\ t # i => Tally(q \o d, t, a) = Tally(q, t, a)
            /\ t = i => Tally(q \o d, t, a) = Tally(q, t, a) + Due(U, link, t, a)
        <4>1. r.op \in {"create", "update"} /\ i \in r.ids
          BY <1>8, <2>1
        <4> QED BY <1>1, <2>2, <3>2, <3>5, <4>1, DepositTally
      <3>7. queue' = q \o d
        BY <1>2, <3>3, <3>4, <3>5, <3>6, Regroup
      <3>8. CASE t # i
        BY <1>4, <1>5, <2>1, <3>5, <3>6, <3>7, <3>8
      <3>9. CASE t = i
        <4>1. Tally(q, t, a) = 0
          BY <1>4, <3>5, <3>9
        <4>2. PICK n : n = Due(U, link, t, a) /\ n \in Int
          BY <2>2, <3>9, DueFacts, EntryFacts
        <4> QED BY <3>6, <3>7, <3>9, <4>1, <4>2
      <3> QED BY <3>8, <3>9
    <2>4. CASE ~SavingsChanged(r)
      <3>1. queue' = queue
        BY <1>0, <1>1, <1>8, <2>4 DEF CommitUpdate
      <3>2. U[i] = tx[i]
        BY <2>1, <2>2, <2>4 DEF SavingsChanged
      <3>3. t \in r.ids => Due(U, link, t, a) = Due(tx, link, t, a)
        BY <2>1, <3>2 DEF Due, LiveIn
      <3> QED BY <1>4, <1>5, <3>1, <3>3
    <2> QED BY <2>3, <2>4
  <1> QED BY <1>1, <1>6, <1>7, <1>8

LEMMA InitOutbox == Init => OutboxAgrees
  <1> SUFFICES ASSUME Init PROVE OutboxAgrees
    OBVIOUS
  <1>1. tx \in Table /\ queue = <<>> /\ \A t \in TxIds : tx[t] = Unused
    BY DEF Init, Table
  <1>2. \A t \in TxIds, a \in Accounts : Tally(queue, t, a) = 0 /\ Due(tx, link, t, a) = 0
    BY <1>1, TallyEmpty, DueFacts
  <1> QED BY <1>2, OwedIsTally

LEMMA OutboxStays ==
  ASSUME TypeInv, Apart, OutboxAgrees, [Next]_vars
  PROVE  OutboxAgrees'
  <1>1. ASSUME UNCHANGED <<tx, link, queue, relinks>> PROVE OutboxAgrees'
    BY <1>1, OwedIsTally
  <1>2. ASSUME NEW s \in Sessions, CommitCreate(s) \/ CommitUpdate(s) \/ CommitDelete(s)
        PROVE  OutboxAgrees'
    BY <1>2, CommittedOutbox
  <1>3. ASSUME NEW p \in Products, NEW a \in Accounts \cup {NoAccount}, SetGrowlioLink(p, a)
        PROVE  OutboxAgrees'
    <2>1. relinks' # 0
      BY <1>3 DEF SetGrowlioLink, TypeInv
    <2> QED BY <2>1 DEF OutboxAgrees
  <1> QED
    BY <1>1, <1>2, <1>3
    DEF Next, vars, StartCreate, StartUpdate, StartDelete, LoadProducts, OpenForm, SaveForm,
        Abort

(* Requests that share nothing stage, for every transaction, rows that add  *)
(* up to the deposit it stands for now: nothing once it is deleted, its     *)
(* amount on the account of its product, as long as no product is linked    *)
(* anew (growlio_push_service.py, stage; transaction_service.py,            *)
(* update_transaction and delete_transaction).                              *)
THEOREM OutboxesAgree ==
  ASSUME ~MayOverlap
  PROVE  Spec => []OutboxAgrees
  <1> DEFINE Inv == TypeInv /\ Apart /\ OutboxAgrees
  <1>1. Init => Inv
    BY InitApart, InitOutbox
  <1>2. Inv /\ [Next]_vars => Inv'
    BY Typed, StaysApart, OutboxStays
  <1>3. Inv => OutboxAgrees
    OBVIOUS
  <1> QED BY <1>1, <1>2, <1>3, PTL DEF Spec
=============================================================================
