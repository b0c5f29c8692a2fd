------------------------------ MODULE Extremes ------------------------------
(***************************************************************************)
(* Least and greatest elements, lists that grow and sums over finite sets: *)
(* the facts that the proofs about the layers share.                       *)
(***************************************************************************)
EXTENDS Integers, FiniteSets, Functions, FiniteSetTheorems, SequenceTheorems, WellFoundedInduction, TLAPS

\* Every set of numbers that is not empty has a least element.
LEMMA LeastNumber ==
    ASSUME NEW S, S \subseteq Nat, S # {}
    PROVE  \E x \in S : \A y \in S : x <= y
  <1>1. PICK x \in S : \A y \in S : ~(<<y, x>> \in OpToRel(<, Nat))
    BY NatLessThanWellFounded, WFMin, Zenon
  <1>2. \A y \in S : ~(y < x)
    BY <1>1 DEF OpToRel
  <1> QED
    BY <1>2

\* Induction for a set of numbers.
LEMMA NumbersReached ==
    ASSUME NEW S, 0 \in S, \A n \in Nat : n \in S => n + 1 \in S
    PROVE  Nat \subseteq S
  <1> SUFFICES ASSUME Nat \ S # {} PROVE FALSE
    OBVIOUS
  <1>1. PICK n \in Nat \ S : \A y \in Nat \ S : n <= y
    BY LeastNumber
  <1>2. n # 0 /\ n - 1 \in Nat
    BY <1>1
  <1>3. n - 1 \in S
    BY <1>1, <1>2
  <1>4. (n - 1) + 1 \in S
    BY <1>2, <1>3
  <1> QED
    BY <1>1, <1>4

\* Finitely many integers have an upper bound.
LEMMA FamilyBounded ==
    ASSUME NEW f, NEW n \in Nat, \A i \in 1..n : f[i] \in Int
    PROVE  \E m \in Int : \A i \in 1..n : f[i] <= m
  <1> DEFINE Bounded(k) == \E m \in Int : \A i \in 1..k : f[i] <= m
             S == {k \in Nat : k <= n => Bounded(k)}
  <1>1. 0 \in S
    <2>1. \A i \in 1..0 : f[i] <= 0
      OBVIOUS
    <2> QED
      BY <2>1
  <1>2. ASSUME NEW k \in Nat, k \in S PROVE k + 1 \in S
    <2> SUFFICES ASSUME k + 1 <= n PROVE Bounded(k + 1)
      OBVIOUS
    <2>1. PICK m \in Int : \A i \in 1..k : f[i] <= m
      BY <1>2
    <2>2. f[k + 1] \in Int
      OBVIOUS
    <2> DEFINE top == IF f[k + 1] > m THEN f[k + 1] ELSE m
    <2>3. top \in Int /\ top >= m /\ top >= f[k + 1]
      BY <2>2
    <2>4. \A i \in 1..(k + 1) : f[i] <= top
      <3> SUFFICES ASSUME NEW i \in 1..(k + 1) PROVE f[i] <= top
        OBVIOUS
      <3>1. CASE i = k + 1
        BY <2>3, <3>1
      <3>2. CASE i \in 1..k
        <4>1. f[i] \in Int /\ f[i] <= m
          BY <2>1, <3>2
        <4> QED
          BY <2>3, <4>1
      <3> QED
        BY <3>1, <3>2
    <2> QED
      BY <2>3, <2>4
  <1> HIDE DEF S
  <1>3. Nat \subseteq S
    BY <1>1, <1>2, NumbersReached
  <1>4. n \in S /\ n <= n
    BY <1>3
  <1> QED
    BY <1>4 DEF S

\* So finitely many of them have a greatest.
LEMMA GreatestNumber ==
    ASSUME NEW S, S \subseteq Int, IsFiniteSet(S), S # {}
    PROVE  \E x \in S : \A y \in S : x >= y
  <1>1. PICK n \in Nat : \E f \in [1..n -> S] : \A y \in S : \E i \in 1..n : f[i] = y
    <2>1. \E n \in Nat : ExistsSurjection(1..n, S)
      BY FS_NatSurjection
    <2> QED
      BY <2>1 DEF ExistsSurjection, Surjection
  <1>2. PICK f \in [1..n -> S] : \A y \in S : \E i \in 1..n : f[i] = y
    BY <1>1
  <1>3. PICK m \in Int : \A i \in 1..n : f[i] <= m
    <2>1. \A i \in 1..n : f[i] \in Int
      OBVIOUS
    <2> QED
      BY <2>1, FamilyBounded
  <1>4. \A y \in S : y \in Int /\ y <= m
    BY <1>2, <1>3
  <1> DEFINE T == {m - y : y \in S}
  <1>5. T \subseteq Nat /\ T # {}
    BY <1>4
  <1>6. PICK z \in T : \A w \in T : z <= w
    <2> HIDE DEF T
    <2> QED
      BY <1>5, LeastNumber
  <1>7. PICK x \in S : z = m - x
    OBVIOUS
  <1>8. \A y \in S : m - x <= m - y
    BY <1>6, <1>7
  <1>9. \A y \in S : x >= y
    BY <1>4, <1>7, <1>8
  <1> QED
    BY <1>9

\* A record more in a list.
LEMMA RecordAppended ==
    ASSUME NEW S, NEW q \in Seq(S), NEW r \in S
    PROVE  Append(q, r) \in Seq(S) /\ Range(Append(q, r)) = Range(q) \cup {r}
  <1> DEFINE p == Append(q, r)
  <1>1. /\ p \in Seq(S) /\ Len(p) = Len(q) + 1 /\ p[Len(q) + 1] = r
        /\ \A k \in 1..Len(q) : p[k] = q[k]
    BY AppendProperties
  <1> HIDE DEF p
  <1>2. Len(q) \in Nat /\ DOMAIN q = 1..Len(q) /\ DOMAIN p = 1..(Len(q) + 1)
    BY <1>1, LenProperties
  <1>3. PICK last : last = Len(q) + 1
    OBVIOUS
  <1>4. DOMAIN p = DOMAIN q \cup {last} /\ p[last] = r /\ \A k \in DOMAIN q : p[k] = q[k]
    BY <1>1, <1>2, <1>3
  <1>5. Range(p) = Range(q) \cup {r}
    BY <1>4 DEF Range
  <1> QED
    BY <1>1, <1>5 DEF p

-----------------------------------------------------------------------------
\* The order in which the folds of the community modules take the elements of
\* a set.
Pick(s) == CHOOSE x \in s : TRUE

\* f[s] is the sum of g over s, for every part s of S.
SumsOver(S, g, f) ==
    /\ f \in [SUBSET S -> Int] /\ f[{}] = 0
    /\ \A s \in SUBSET S : s # {} => f[s] = g[Pick(s)] + f[s \ {Pick(s)}]

\* The part that is left has one element less.
LEMMA PickedOne ==
    ASSUME NEW S, IsFiniteSet(S), NEW s \in SUBSET S, s # {}
    PROVE  /\ Pick(s) \in s /\ s \ {Pick(s)} \in SUBSET S
           /\ Cardinality(s) \in Nat \ {0} /\ Cardinality(s \ {Pick(s)}) = Cardinality(s) - 1
  <1>1. Pick(s) \in s
    BY DEF Pick
  <1>2. IsFiniteSet(s)
    BY FS_Subset
  <1> QED
    BY <1>1, <1>2, FS_RemoveElement, FS_CardinalityType, FS_EmptySet

\* Induction over the parts of a finite set, by their size.
LEMMA PartsReached ==
    ASSUME NEW S, IsFiniteSet(S), NEW P, {} \in P,
           \A s \in SUBSET S : s # {} => ((\A x \in s : s \ {x} \in P) => s \in P)
    PROVE  SUBSET S \subseteq P
  <1> DEFINE K == {k \in Nat : \A s \in SUBSET S : Cardinality(s) = k => s \in P}
  <1>1. 0 \in K
    <2>1. \A s \in SUBSET S : Cardinality(s) = 0 => s = {}
      BY FS_Subset, FS_EmptySet
    <2> QED
      BY <2>1
  <1>2. ASSUME NEW k \in Nat, k \in K PROVE k + 1 \in K
    <2> SUFFICES ASSUME NEW s \in SUBSET S, Cardinality(s) = k + 1 PROVE s \in P
      OBVIOUS
    <2>1. s # {} /\ IsFiniteSet(s)
      BY FS_Subset, FS_EmptySet
    <2>2. ASSUME NEW x \in s PROVE s \ {x} \in P
      <3>1. PICK r \in SUBSET S : r = s \ {x}
        OBVIOUS
      <3>2. Cardinality(r) = Cardinality(s) - 1
        BY <2>1, <3>1, FS_RemoveElement
      <3>3. Cardinality(r) = k
        BY <3>2
      <3> QED
        BY <1>2, <3>1, <3>3
    <2>3. (\A x \in s : s \ {x} \in P) => s \in P
      BY <2>1, Zenon
    <2> QED
      BY <2>2, <2>3
  <1> HIDE DEF K
  <1>3. Nat \subseteq K
    BY <1>1, <1>2, NumbersReached
  <1>4. ASSUME NEW s \in SUBSET S PROVE s \in P
    <2>1. Cardinality(s) \in Nat
      BY FS_Subset, FS_CardinalityType
    <2> QED
      BY <1>3, <2>1 DEF K
  <1> QED
    BY <1>4

\* There are such sums.
LEMMA SetSumsExist ==
    ASSUME NEW S, IsFiniteSet(S), NEW g, \A x \in S : g[x] \in Int
    PROVE  \E f : SumsOver(S, g, f)
  <1> DEFINE Small(k) == {s \in SUBSET S : Cardinality(s) <= k}
             Summed(k) == \E f \in [Small(k) -> Int] :
                /\ f[{}] = 0
                /\ \A s \in Small(k) : s # {} => f[s] = g[Pick(s)] + f[s \ {Pick(s)}]
             K == {k \in Nat : Summed(k)}
  <1>1. 0 \in K
    <2>1. PICK f : f = [s \in Small(0) |-> 0]
      OBVIOUS
    <2>2. \A s \in Small(0) : s = {}
      <3> SUFFICES ASSUME NEW s \in Small(0) PROVE s = {}
        OBVIOUS
      <3>1. IsFiniteSet(s) /\ Cardinality(s) \in Nat /\ Cardinality(s) <= 0
        BY FS_Subset, FS_CardinalityType
      <3>2. Cardinality(s) = 0
        BY <3>1
      <3> QED
        BY <3>1, <3>2, FS_EmptySet
    <2>3. {} \in Small(0)
      BY FS_EmptySet
    <2>4. f \in [Small(0) -> Int] /\ f[{}] = 0
      BY <2>1, <2>3
    <2>5. \A s \in Small(0) : s # {} => f[s] = g[Pick(s)] + f[s \ {Pick(s)}]
      BY <2>2
    <2> HIDE DEF Small
    <2> QED
      BY <2>4, <2>5
  <1>2. ASSUME NEW k \in Nat, k \in K PROVE k + 1 \in K
    <2>1. PICK f \in [Small(k) -> Int] :
            f[{}] = 0 /\ \A s \in Small(k) : s # {} => f[s] = g[Pick(s)] + f[s \ {Pick(s)}]
      <3> HIDE DEF Small
      <3> QED
        BY <1>2
    <2>2. PICK e : e = [s \in Small(k + 1) |-> IF s \in Small(k) THEN f[s] ELSE g[Pick(s)] + f[s \ {Pick(s)}]]
      OBVIOUS
    <2>3. ASSUME NEW s \in Small(k + 1), s # {} PROVE g[Pick(s)] \in Int /\ s \ {Pick(s)} \in Small(k)
      <3>1. /\ Pick(s) \in s /\ s \ {Pick(s)} \in SUBSET S /\ Cardinality(s) \in Nat
            /\ Cardinality(s \ {Pick(s)}) = Cardinality(s) - 1 /\ Cardinality(s) <= k + 1
        BY <2>3, PickedOne
      <3> QED
        BY <3>1
    <2>4. {} \in Small(k) /\ Small(k) \subseteq Small(k + 1)
      <3>1. \A s \in SUBSET S : Cardinality(s) \in Nat
        BY FS_Subset, FS_CardinalityType
      <3> QED
        BY <3>1, FS_EmptySet
    <2> HIDE DEF Small
    <2>5. ASSUME NEW s \in Small(k + 1) PROVE e[s] \in Int
      <3>1. CASE s \in Small(k)
        BY <2>1, <2>2, <3>1
      <3>2. CASE s \notin Small(k)
        <4>1. s # {}
          BY <2>4, <3>2
        <4>2. g[Pick(s)] \in Int /\ f[s \ {Pick(s)}] \in Int
          BY <2>1, <2>3, <4>1
        <4>3. e[s] = g[Pick(s)] + f[s \ {Pick(s)}]
          BY <2>2, <3>2
        <4> QED
          BY <4>2, <4>3
      <3> QED
        BY <3>1, <3>2
    <2>6. e \in [Small(k + 1) -> Int] /\ e[{}] = 0
      <3>1. e = [s \in Small(k + 1) |-> e[s]]
        BY <2>2
      <3> QED
        BY <2>1, <2>2, <2>4, <2>5, <3>1
    <2>7. ASSUME NEW s \in Small(k + 1), s # {} PROVE e[s] = g[Pick(s)] + e[s \ {Pick(s)}]
      <3>1. s \ {Pick(s)} \in Small(k) /\ e[s \ {Pick(s)}] = f[s \ {Pick(s)}]
        BY <2>2, <2>3, <2>4, <2>7
      <3>2. CASE s \in Small(k)
        <4>1. e[s] = f[s] /\ f[s] = g[Pick(s)] + f[s \ {Pick(s)}]
          BY <2>1, <2>2, <2>7, <3>2
        <4> QED
          BY <3>1, <4>1
      <3>3. CASE s \notin Small(k)
        BY <2>2, <2>7, <3>1, <3>3
      <3> QED
        BY <3>2, <3>3
    <2> QED
      BY <2>6, <2>7
  <1> HIDE DEF K
  <1>3. Nat \subseteq K
    BY <1>1, <1>2, NumbersReached
  <1>4. PICK n \in Nat : n = Cardinality(S)
    BY FS_CardinalityType
  <1>5. Small(n) = SUBSET S
    <2>1. \A s \in SUBSET S : Cardinality(s) <= n
      BY <1>4, FS_Subset
    <2> QED
      BY <2>1
  <1>6. Summed(n)
    BY <1>3 DEF K
  <1> HIDE DEF Small
  <1>7. PICK f \in [Small(n) -> Int] :
            f[{}] = 0 /\ \A s \in Small(n) : s # {} => f[s] = g[Pick(s)] + f[s \ {Pick(s)}]
    BY <1>6
  <1> QED
    BY <1>5, <1>7 DEF SumsOver

\* What the recursive definition of a fold says of its sums.
IsFold(S, g, f) == f = [s \in SUBSET S |-> IF s = {} THEN 0 ELSE g[Pick(s)] + f[s \ {Pick(s)}]]

\* The sums of a fold are these.
LEMMA SetSumsDefined ==
    ASSUME NEW S, IsFiniteSet(S), NEW g, \A x \in S : g[x] \in Int, NEW f
    PROVE  IsFold(S, g, f) <=> SumsOver(S, g, f)
  <1>1. ASSUME f = [s \in SUBSET S |-> IF s = {} THEN 0 ELSE g[Pick(s)] + f[s \ {Pick(s)}]]
        PROVE  SumsOver(S, g, f)
    <2>1. PICK e : e = [s \in SUBSET S |-> IF s = {} THEN 0 ELSE g[Pick(s)] + f[s \ {Pick(s)}]]
      OBVIOUS
    <2>2. f = e
      BY <1>1, <2>1
    <2>3. e[{}] = 0 /\ \A s \in SUBSET S : s # {} => e[s] = g[Pick(s)] + f[s \ {Pick(s)}]
      BY <2>1
    <2>4. f[{}] = 0 /\ \A s \in SUBSET S : s # {} => f[s] = g[Pick(s)] + f[s \ {Pick(s)}]
      BY <2>2, <2>3
    <2> DEFINE P == {s \in SUBSET S : f[s] \in Int}
    <2>5. {} \in P
      BY <2>4
    <2>6. ASSUME NEW s \in SUBSET S, s # {}, \A x \in s : s \ {x} \in P PROVE s \in P
      <3>1. Pick(s) \in s
        BY <2>6 DEF Pick
      <3>2. g[Pick(s)] \in Int /\ f[s \ {Pick(s)}] \in Int
        BY <2>6, <3>1
      <3>3. f[s] = g[Pick(s)] + f[s \ {Pick(s)}]
        BY <2>4, <2>6
      <3> QED
        BY <3>2, <3>3
    <2> HIDE DEF P
    <2>7. SUBSET S \subseteq P
      BY <2>5, <2>6, PartsReached
    <2>8. \A s \in SUBSET S : f[s] \in Int
      BY <2>7 DEF P
    <2>9. DOMAIN e = SUBSET S /\ e = [s \in SUBSET S |-> e[s]]
      BY <2>1
    <2>10. f \in [SUBSET S -> Int]
      BY <2>2, <2>8, <2>9
    <2> QED
      BY <2>4, <2>10 DEF SumsOver
  <1>2. ASSUME SumsOver(S, g, f)
        PROVE  f = [s \in SUBSET S |-> IF s = {} THEN 0 ELSE g[Pick(s)] + f[s \ {Pick(s)}]]
    BY <1>2 DEF SumsOver
  <1> QED
    BY <1>1, <1>2 DEF IsFold

\* Each element adds what it counts to the sum of the others.
TakenApart(S, g, f) == \A s \in SUBSET S : \A a \in s : f[s] = g[a] + f[s \ {a}]

\* The order does not matter: any element may be taken out first.
LEMMA SumTakenApart ==
    ASSUME NEW S, IsFiniteSet(S), NEW g, \A x \in S : g[x] \in Int, NEW f, SumsOver(S, g, f)
    PROVE  TakenApart(S, g, f)
  <1> DEFINE P == {s \in SUBSET S : \A a \in s : f[s] = g[a] + f[s \ {a}]}
  <1>1. /\ f \in [SUBSET S -> Int]
        /\ \A s \in SUBSET S : s # {} => f[s] = g[Pick(s)] + f[s \ {Pick(s)}]
    BY DEF SumsOver
  <1>2. {} \in P
    OBVIOUS
  <1>3. ASSUME NEW s \in SUBSET S, s # {}, \A x \in s : s \ {x} \in P PROVE s \in P
    <2> SUFFICES ASSUME NEW a \in s PROVE f[s] = g[a] + f[s \ {a}]
      OBVIOUS
    <2>1. PICK x \in s : x = Pick(s)
      BY DEF Pick
    <2>2. f[s] = g[x] + f[s \ {x}]
      BY <1>1, <2>1
    <2>3. CASE x = a
      BY <2>2, <2>3
    <2>4. CASE x # a
      <3>1. s \ {x} \in P /\ a \in s \ {x} /\ s \ {a} \in P /\ x \in s \ {a}
        BY <1>3, <2>4
      <3>2. f[s \ {x}] = g[a] + f[(s \ {x}) \ {a}] /\ f[s \ {a}] = g[x] + f[(s \ {a}) \ {x}]
        BY <3>1
      <3>3. PICK r \in SUBSET S : r = (s \ {x}) \ {a} /\ r = (s \ {a}) \ {x}
        OBVIOUS
      <3>4. PICK v, w : v = f[s \ {x}] /\ w = f[s \ {a}]
        OBVIOUS
      <3>5. v = g[a] + f[r] /\ w = g[x] + f[r] /\ f[s] = g[x] + v
        BY <2>2, <3>2, <3>3, <3>4
      <3>6. g[a] \in Int /\ g[x] \in Int /\ f[r] \in Int
        BY <1>1
      <3>7. f[s] = g[a] + w
        BY <3>5, <3>6
      <3> QED
        BY <3>4, <3>7
    <2> QED
      BY <2>3, <2>4
  <1> HIDE DEF P
  <1>4. SUBSET S \subseteq P
    BY <1>2, <1>3, PartsReached
  <1> QED
    BY <1>4 DEF P, TakenApart

\* What is nowhere more, and somewhere less, has a sum that is less.
LEMMA SetSumLess ==
    ASSUME NEW S, IsFiniteSet(S), NEW g, NEW h, \A x \in S : g[x] \in Int /\ h[x] \in Int /\ g[x] <= h[x],
           NEW e, SumsOver(S, g, e), NEW f, SumsOver(S, h, f)
    PROVE  e[S] <= f[S] /\ ((\E x \in S : g[x] < h[x]) => e[S] < f[S])
  <1> DEFINE P == {s \in SUBSET S : e[s] <= f[s] /\ ((\E x \in s : g[x] < h[x]) => e[s] < f[s])}
  <1>1. /\ e \in [SUBSET S -> Int] /\ f \in [SUBSET S -> Int] /\ e[{}] = 0 /\ f[{}] = 0
        /\ \A s \in SUBSET S : s # {} => e[s] = g[Pick(s)] + e[s \ {Pick(s)}]
        /\ \A s \in SUBSET S : s # {} => f[s] = h[Pick(s)] + f[s \ {Pick(s)}]
    BY DEF SumsOver
  <1>2. {} \in P
    BY <1>1
  <1>3. ASSUME NEW s \in SUBSET S, s # {}, \A x \in s : s \ {x} \in P PROVE s \in P
    <2>1. PICK x \in s : x = Pick(s)
      BY <1>3 DEF Pick
    <2>2. PICK r \in SUBSET S : r = s \ {x}
      OBVIOUS
    <2>3. e[s] = g[x] + e[r] /\ f[s] = h[x] + f[r]
      BY <1>1, <1>3, <2>1, <2>2
    <2>4. r \in P
      BY <1>3, <2>2
    <2>5. g[x] \in Int /\ h[x] \in Int /\ g[x] <= h[x] /\ e[r] \in Int /\ f[r] \in Int /\ e[r] <= f[r]
      BY <1>1, <2>4
    <2>6. e[s] <= f[s]
      BY <2>3, <2>5
    <2>7. ASSUME NEW y \in s, g[y] < h[y] PROVE e[s] < f[s]
      <3>1. CASE y = x
        BY <2>3, <2>5, <2>7, <3>1
      <3>2. CASE y # x
        <4>1. y \in r
          BY <2>2, <3>2
        <4>2. e[r] < f[r]
          BY <2>4, <2>7, <4>1
        <4> QED
          BY <2>3, <2>5, <4>2
      <3> QED
        BY <3>1, <3>2
    <2> QED
      BY <2>6, <2>7
  <1> HIDE DEF P
  <1>4. SUBSET S \subseteq P
    BY <1>2, <1>3, PartsReached
  <1> QED
    BY <1>4 DEF P

\* Two sums of the same set.
SameOn(S, e, f) == e[S] = f[S]

\* The sums over a larger set are the same on the parts of a smaller one.
LEMMA SetSumsAgree ==
    ASSUME NEW T, IsFiniteSet(T), NEW S, S \subseteq T, NEW g,
           NEW e, SumsOver(S, g, e), NEW f, SumsOver(T, g, f)
    PROVE  SameOn(S, e, f)
  <1> DEFINE P == {s \in SUBSET S : e[s] = f[s]}
  <1>1. /\ e[{}] = 0 /\ f[{}] = 0
        /\ \A s \in SUBSET S : s # {} => e[s] = g[Pick(s)] + e[s \ {Pick(s)}]
        /\ \A s \in SUBSET S : s # {} => f[s] = g[Pick(s)] + f[s \ {Pick(s)}]
    BY DEF SumsOver
  <1>2. {} \in P
    BY <1>1
  <1>3. ASSUME NEW s \in SUBSET S, s # {}, \A x \in s : s \ {x} \in P PROVE s \in P
    <2>1. PICK x \in s : x = Pick(s)
      BY <1>3 DEF Pick
    <2>2. e[s \ {x}] = f[s \ {x}]
      BY <1>3, <2>1
    <2> QED
      BY <1>1, <1>3, <2>1, <2>2
  <1>4. IsFiniteSet(S)
    BY FS_Subset
  <1> HIDE DEF P
  <1>5. SUBSET S \subseteq P
    BY <1>2, <1>3, <1>4, PartsReached
  <1> QED
    BY <1>5 DEF P, SameOn

-----------------------------------------------------------------------------
\* A total order on S, as a set of pairs; and its elements in that order.
StrictOrder(S, R) ==
    /\ \A x \in S : <<x, x>> \notin R
    /\ \A x, y, z \in S : <<x, y>> \in R /\ <<y, z>> \in R => <<x, z>> \in R
    /\ \A x, y \in S : x # y => <<x, y>> \in R \/ <<y, x>> \in R

Below(S, R, x) == {y \in S : <<y, x>> \in R}

InOrder(S, R, f) ==
    /\ DOMAIN f = 1..Cardinality(S)
    /\ \A i \in DOMAIN f : f[i] \in S
    /\ \A x \in S : \E i \in DOMAIN f : f[i] = x
    /\ \A i, j \in DOMAIN f : i < j => <<f[i], f[j]>> \in R

\* Counting what comes before each element of a finite set puts it in order.
LEMMA Ranking ==
    ASSUME NEW S, IsFiniteSet(S), NEW R, StrictOrder(S, R), NEW f,
           f = [i \in 1..Cardinality(S) |-> CHOOSE x \in S : Cardinality(Below(S, R, x)) = i - 1]
    PROVE  InOrder(S, R, f)
  <1>1. PICK n \in Nat : n = Cardinality(S)
    BY FS_CardinalityType
  <1> DEFINE rank == [x \in S |-> Cardinality(Below(S, R, x))]
  <1>2. ASSUME NEW x \in S PROVE IsFiniteSet(Below(S, R, x)) /\ rank[x] \in 0..(n - 1)
    <2>1. Below(S, R, x) \in SUBSET (S \ {x})
      BY DEF Below, StrictOrder
    <2>2. IsFiniteSet(S \ {x}) /\ Cardinality(S \ {x}) = n - 1
      BY <1>1, FS_RemoveElement
    <2>3. IsFiniteSet(Below(S, R, x)) /\ Cardinality(Below(S, R, x)) <= n - 1
      BY <2>1, <2>2, FS_Subset
    <2> QED
      BY <1>1, <2>3, FS_CardinalityType
  <1>3. ASSUME NEW x \in S, NEW y \in S, <<x, y>> \in R PROVE rank[x] < rank[y]
    <2>1. Below(S, R, x) \in SUBSET Below(S, R, y) /\ x \in Below(S, R, y) /\ x \notin Below(S, R, x)
      BY <1>3 DEF Below, StrictOrder
    <2>2. IsFiniteSet(Below(S, R, x)) /\ IsFiniteSet(Below(S, R, y))
      BY <1>2
    <2>3. /\ Cardinality(Below(S, R, x)) <= Cardinality(Below(S, R, y))
          /\ Cardinality(Below(S, R, x)) # Cardinality(Below(S, R, y))
      BY <2>1, <2>2, FS_Subset
    <2> QED
      BY <1>2, <2>3
  <1> HIDE DEF rank
  <1>4. \A x, y \in S : x # y => rank[x] # rank[y]
    <2> SUFFICES ASSUME NEW x \in S, NEW y \in S, x # y PROVE rank[x] # rank[y]
      OBVIOUS
    <2>1. rank[x] \in Int /\ rank[y] \in Int
      BY <1>1, <1>2
    <2>2. <<x, y>> \in R \/ <<y, x>> \in R
      BY DEF StrictOrder
    <2>3. rank[x] < rank[y] \/ rank[y] < rank[x]
      BY <1>3, <2>2
    <2> QED
      BY <2>1, <2>3
  <1>5. rank \in [S -> 0..(n - 1)]
    BY <1>2 DEF rank
  <1>6. rank \in Injection(S, 0..(n - 1))
    BY <1>4, <1>5 DEF Injection, IsInjective
  <1>7. IsFiniteSet(0..(n - 1)) /\ Cardinality(0..(n - 1)) = n
    <2>1. PICK m \in Int : m = n - 1
      BY <1>1
    <2>2. IsFiniteSet(0..m) /\ Cardinality(0..m) = IF 0 > m THEN 0 ELSE m - 0 + 1
      BY FS_Interval
    <2> QED
      BY <1>1, <2>1, <2>2
  <1>8. \A k \in 0..(n - 1) : \E x \in S : rank[x] = k
    <2>1. rank \in Surjection(S, 0..(n - 1))
      BY <1>1, <1>6, <1>7, FS_Injection
    <2> QED
      BY <2>1 DEF Surjection
  <1>9. DOMAIN f = 1..n
    BY <1>1
  <1>10. ASSUME NEW i \in 1..n PROVE f[i] \in S /\ rank[f[i]] = i - 1
    <2>1. i - 1 \in 0..(n - 1)
      BY <1>10
    <2>2. \E x \in S : Cardinality(Below(S, R, x)) = i - 1
      BY <1>8, <2>1 DEF rank
    <2>3. f[i] = CHOOSE x \in S : Cardinality(Below(S, R, x)) = i - 1
      BY <1>1, <1>10
    <2>4. f[i] \in S /\ Cardinality(Below(S, R, f[i])) = i - 1
      BY <2>2, <2>3
    <2> QED
      BY <2>4 DEF rank
  <1>11. ASSUME NEW x \in S PROVE \E i \in 1..n : f[i] = x
    <2>1. PICK k \in 0..(n - 1) : rank[x] = k
      BY <1>5
    <2>2. k + 1 \in 1..n /\ (k + 1) - 1 = k
      BY <2>1
    <2>3. f[k + 1] \in S /\ rank[f[k + 1]] = k
      BY <1>10, <2>2
    <2> QED
      BY <1>4, <2>1, <2>2, <2>3
  <1>12. ASSUME NEW i \in 1..n, NEW j \in 1..n, i < j PROVE <<f[i], f[j]>> \in R
    <2>1. f[i] \in S /\ f[j] \in S /\ rank[f[i]] = i - 1 /\ rank[f[j]] = j - 1
      BY <1>10
    <2>2. ~(rank[f[j]] < rank[f[i]]) /\ f[i] # f[j]
      BY <1>12, <2>1
    <2> QED
      BY <1>3, <2>1, <2>2 DEF StrictOrder
  <1> QED
    BY <1>1, <1>9, <1>10, <1>11, <1>12 DEF InOrder

-----------------------------------------------------------------------------
\* What a fold over the parts of S says: the elements are taken as pick says,
\* and step[x] takes what the others made to what they make with x.
IsFoldOf(S, pick, b, step, f) ==
    f = [s \in SUBSET S |-> IF s = {} THEN b ELSE step[pick[s]][f[s \ {pick[s]}]]]

\* Such a fold has a value for every part of a finite set.
LEMMA FoldsExist ==
    ASSUME NEW S, IsFiniteSet(S), NEW V, NEW b \in V, NEW step \in [S -> [V -> V]],
           NEW pick, \A s \in SUBSET S : s # {} => pick[s] \in s
    PROVE  \E f \in [SUBSET S -> V] : IsFoldOf(S, pick, b, step, f)
  <1> DEFINE Small(k) == {s \in SUBSET S : Cardinality(s) <= k}
             Folded(k) == \E f \in [Small(k) -> V] :
                /\ f[{}] = b
                /\ \A s \in Small(k) : s # {} => f[s] = step[pick[s]][f[s \ {pick[s]}]]
             K == {k \in Nat : Folded(k)}
  <1>1. 0 \in K
    <2>1. PICK f : f = [s \in Small(0) |-> b]
      OBVIOUS
    <2>2. \A s \in Small(0) : s = {}
      <3> SUFFICES ASSUME NEW s \in Small(0) PROVE s = {}
        OBVIOUS
      <3>1. IsFiniteSet(s) /\ Cardinality(s) \in Nat /\ Cardinality(s) <= 0
        BY FS_Subset, FS_CardinalityType
      <3>2. Cardinality(s) = 0
        BY <3>1
      <3> QED
        BY <3>1, <3>2, FS_EmptySet
    <2>3. {} \in Small(0)
      BY FS_EmptySet
    <2>4. f \in [Small(0) -> V] /\ f[{}] = b
      BY <2>1, <2>3
    <2>5. \A s \in Small(0) : s # {} => f[s] = step[pick[s]][f[s \ {pick[s]}]]
      BY <2>2
    <2> HIDE DEF Small
    <2> QED
      BY <2>4, <2>5
  <1>2. ASSUME NEW k \in Nat, k \in K PROVE k + 1 \in K
    <2>1. PICK f \in [Small(k) -> V] :
            f[{}] = b /\ \A s \in Small(k) : s # {} => f[s] = step[pick[s]][f[s \ {pick[s]}]]
      <3> HIDE DEF Small
      <3> QED
        BY <1>2
    <2>2. PICK e : e = [s \in Small(k + 1) |-> IF s \in Small(k) THEN f[s] ELSE step[pick[s]][f[s \ {pick[s]}]]]
      OBVIOUS
    <2>3. ASSUME NEW s \in Small(k + 1), s # {} PROVE pick[s] \in S /\ s \ {pick[s]} \in Small(k)
      <3>1. s \in SUBSET S /\ pick[s] \in s /\ pick[s] \in S /\ IsFiniteSet(s)
        BY <2>3, FS_Subset
      <3>2. /\ s \ {pick[s]} \in SUBSET S /\ Cardinality(s) \in Nat
            /\ Cardinality(s \ {pick[s]}) = Cardinality(s) - 1 /\ Cardinality(s) <= k + 1
        BY <3>1, FS_RemoveElement, FS_CardinalityType
      <3> QED
        BY <3>1, <3>2
    <2>4. {} \in Small(k) /\ Small(k) \subseteq Small(k + 1)
      <3>1. \A s \in SUBSET S : Cardinality(s) \in Nat
        BY FS_Subset, FS_CardinalityType
      <3> QED
        BY <3>1, FS_EmptySet
    <2> HIDE DEF Small
    <2>5. ASSUME NEW s \in Small(k + 1) PROVE e[s] \in V
      <3>1. CASE s \in Small(k)
        BY <2>1, <2>2, <3>1
      <3>2. CASE s \notin Small(k)
        <4>1. s # {}
          BY <2>4, <3>2
        <4>2. PICK x \in S : x = pick[s] /\ f[s \ {x}] \in V
          BY <2>1, <2>3, <4>1
        <4>3. e[s] = step[x][f[s \ {x}]]
          BY <2>2, <3>2, <4>2
        <4>4. PICK y \in V : y = f[s \ {x}]
          BY <4>2
        <4>5. step[x] \in [V -> V]
          BY <4>2
        <4>6. step[x][y] \in V
          BY <4>4, <4>5
        <4> QED
          BY <4>3, <4>4, <4>6
      <3> QED
        BY <3>1, <3>2
    <2>6. e \in [Small(k + 1) -> V] /\ e[{}] = b
      <3>1. e = [s \in Small(k + 1) |-> e[s]]
        BY <2>2
      <3> QED
        BY <2>1, <2>2, <2>4, <2>5, <3>1
    <2>7. ASSUME NEW s \in Small(k + 1), s # {} PROVE e[s] = step[pick[s]][e[s \ {pick[s]}]]
      <3>1. s \ {pick[s]} \in Small(k) /\ e[s \ {pick[s]}] = f[s \ {pick[s]}]
        BY <2>2, <2>3, <2>4, <2>7
      <3>2. CASE s \in Small(k)
        <4>1. e[s] = f[s] /\ f[s] = step[pick[s]][f[s \ {pick[s]}]]
          BY <2>1, <2>2, <2>7, <3>2
        <4> QED
          BY <3>1, <4>1
      <3>3. CASE s \notin Small(k)
        BY <2>2, <2>7, <3>1, <3>3
      <3> QED
        BY <3>2, <3>3
    <2>8. Folded(k + 1)
      BY <2>6, <2>7, Zenon
    <2> HIDE DEF Folded
    <2> QED
      BY <2>8
  <1> HIDE DEF K
  <1>3. Nat \subseteq K
    BY <1>1, <1>2, NumbersReached
  <1>4. PICK n \in Nat : n = Cardinality(S)
    BY FS_CardinalityType
  <1>5. Small(n) = SUBSET S
    <2>1. \A s \in SUBSET S : Cardinality(s) <= n
      BY <1>4, FS_Subset
    <2> QED
      BY <2>1
  <1>6. Folded(n)
    BY <1>3 DEF K
  <1> HIDE DEF Small
  <1>7. PICK f \in [SUBSET S -> V] :
            f[{}] = b /\ \A s \in SUBSET S : s # {} => f[s] = step[pick[s]][f[s \ {pick[s]}]]
    BY <1>5, <1>6
  <1>8. \A s \in SUBSET S : f[s] = IF s = {} THEN b ELSE step[pick[s]][f[s \ {pick[s]}]]
    BY <1>7
  <1>9. PICK g : g = [s \in SUBSET S |-> IF s = {} THEN b ELSE step[pick[s]][f[s \ {pick[s]}]]]
    OBVIOUS
  <1>10. \A s \in SUBSET S : g[s] = f[s]
    BY <1>8, <1>9
  <1>11. f = [s \in SUBSET S |-> f[s]] /\ g = [s \in SUBSET S |-> g[s]]
    BY <1>7, <1>9
  <1>12. f = g
    BY <1>10, <1>11
  <1> QED
    BY <1>7, <1>9, <1>12 DEF IsFoldOf
=============================================================================
