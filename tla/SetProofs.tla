------------------------------ MODULE SetProofs ------------------------------
(***************************************************************************)
(* Facts about sets of numbers and about sums that the other proofs rest   *)
(* on.                                                                     *)
(***************************************************************************)
EXTENDS Integers, Sums, FiniteSetTheorems, WellFoundedInduction, TLAPS

Smaller == {ss \in Nat \X Nat : ss[1] < ss[2]}

(* A set of natural numbers that is not empty has a smallest element.      *)
LEMMA SmallestOfNaturals ==
    ASSUME NEW S, S \subseteq Nat, S # {}
    PROVE  \E n \in S : \A m \in S : n <= m
<1>1. IsWellFoundedOn(Smaller, Nat)
  BY NatLessThanWellFounded DEF OpToRel, Smaller
<1>2. PICK n \in S : \A m \in S : ~ (<<m, n>> \in Smaller) BY <1>1, WFMin
<1>3. ASSUME NEW m \in S PROVE n <= m
  <2>1. m \in Nat /\ n \in Nat OBVIOUS
  <2>2. CASE m < n BY <2>1, <2>2, <1>2 DEF Smaller
  <2> QED BY <2>1, <2>2
<1> QED BY <1>3

(* So has one of integers that is bounded from below.                      *)
LEMMA SmallestOfBounded ==
    ASSUME NEW S, S \subseteq Int, S # {}, NEW bound \in Int, \A n \in S : n >= bound
    PROVE  \E n \in S : \A m \in S : n <= m
<1> DEFINE T == {n - bound : n \in S}
<1>1. PICK k \in S : TRUE OBVIOUS
<1>2. k - bound \in T BY <1>1
<1>3. ASSUME NEW t \in T PROVE t \in Nat
  <2>1. PICK n \in S : t = n - bound OBVIOUS
  <2>2. n \in Int /\ n >= bound BY <2>1
  <2> QED BY <2>1, <2>2
<1>4. PICK t \in T : \A u \in T : t <= u
  <2> HIDE DEF T
  <2> QED BY <1>2, <1>3, SmallestOfNaturals
<1>5. PICK n \in S : t = n - bound OBVIOUS
<1>6. ASSUME NEW m \in S PROVE n <= m
  <2>1. m - bound \in T BY <1>6
  <2>2. n - bound <= m - bound BY <2>1, <1>4, <1>5
  <2>3. n \in Int /\ m \in Int BY <1>5, <1>6
  <2> HIDE DEF T
  <2> QED BY <2>2, <2>3
<1> QED BY <1>6

-----------------------------------------------------------------------------
(* Of the subsets of a finite set that have a property one is minimal.     *)
LEMMA MinimalSet ==
    ASSUME NEW S, IsFiniteSet(S), NEW B \in SUBSET SUBSET S, B # {}
    PROVE  \E T \in B : \A U \in B : U \subseteq T => U = T
<1> DEFINE sizes == {Cardinality(T) : T \in B}
<1>1. \A T \in B : IsFiniteSet(T) /\ Cardinality(T) \in Nat
  BY FS_Subset, FS_CardinalityType
<1>2. sizes \subseteq Nat /\ sizes # {} BY <1>1
<1> HIDE DEF sizes
<1>3. PICK n \in sizes : \A m \in sizes : n <= m BY <1>2, SmallestOfNaturals
<1>4. PICK T \in B : n = Cardinality(T) BY <1>3 DEF sizes
<1>5. ASSUME NEW U \in B, U \subseteq T PROVE U = T
  <2>1. Cardinality(T) <= Cardinality(U) BY <1>3, <1>4 DEF sizes
  <2>2. Cardinality(U) <= Cardinality(T) BY <1>1, <1>5, FS_Subset
  <2>3. Cardinality(U) = Cardinality(T) BY <1>1, <2>1, <2>2
  <2> QED BY <1>1, <1>5, <2>3, FS_Subset
<1> QED BY <1>5

(* What a sum takes first, and the recursion that defines it.              *)
Picked(s) == CHOOSE x \in s : TRUE

Unpicked(s) == s \ {Picked(s)}

Partial(f, g, s) == IF s = {} THEN 0 ELSE f[Picked(s)] + g[Unpicked(s)]

PartialSums(f, g, T) == g = [s \in SUBSET T |-> Partial(f, g, s)]

LEMMA SumIsPartial ==
    ASSUME NEW f, NEW S
    PROVE  SumOver(f, S) = (CHOOSE g : PartialSums(f, g, S))[S]
BY DEF SumOver, MapThenSumSet, MapThenFoldSet, PartialSums, Partial, Unpicked, Picked

LEMMA PartialSumsAgree ==
    ASSUME NEW f, NEW g, NEW h, NEW T, NEW U, IsFiniteSet(U),
           PartialSums(f, g, T), PartialSums(f, h, U), U \subseteq T
    PROVE  \A s \in SUBSET U : g[s] = h[s]
<1> DEFINE Bad == {s \in SUBSET U : g[s] # h[s]}
<1> SUFFICES ASSUME Bad # {} PROVE FALSE OBVIOUS
<1>1. PICK s \in Bad : \A r \in Bad : r \subseteq s => r = s
  <2>1. Bad \in SUBSET SUBSET U /\ Bad # {} OBVIOUS
  <2> HIDE DEF Bad
  <2> QED BY <2>1, MinimalSet
<1>2. g[s] = Partial(f, g, s) /\ h[s] = Partial(f, h, s) BY <1>1 DEF PartialSums
<1>3. s # {} BY <1>1, <1>2 DEF Partial
<1>4. Picked(s) \in s BY <1>3 DEF Picked
<1>5. g[Unpicked(s)] = h[Unpicked(s)] BY <1>1, <1>4 DEF Unpicked
<1> QED BY <1>1, <1>2, <1>3, <1>5 DEF Partial

LEMMA PartialSumsExist ==
    ASSUME NEW f, NEW S, IsFiniteSet(S)
    PROVE  \E g : PartialSums(f, g, S)
<1> DEFINE Bad == {T \in SUBSET S : ~ \E g : PartialSums(f, g, T)}
<1> SUFFICES ASSUME Bad # {} PROVE FALSE OBVIOUS
<1>1. PICK T \in Bad : \A U \in Bad : U \subseteq T => U = T
  <2>1. Bad \in SUBSET SUBSET S /\ Bad # {} OBVIOUS
  <2> HIDE DEF Bad
  <2> QED BY <2>1, MinimalSet
<1> DEFINE sums(U) == CHOOSE g : PartialSums(f, g, U)
           value(s) == IF s = {} THEN 0 ELSE f[Picked(s)] + sums(Unpicked(s))[Unpicked(s)]
           g == [s \in SUBSET T |-> value(s)]
<1>2. ASSUME NEW U \in SUBSET T, U # T PROVE PartialSums(f, sums(U), U)
  BY <1>1, <1>2
<1>3. ASSUME NEW s \in SUBSET T, s # {} PROVE g[Unpicked(s)] = sums(Unpicked(s))[Unpicked(s)]
  <2> DEFINE u == Unpicked(s)
  <2>1. Picked(s) \in s BY <1>3 DEF Picked
  <2>2. u \in SUBSET T /\ u # T BY <2>1 DEF Unpicked
  <2>3. PartialSums(f, sums(u), u) BY <1>2, <2>2
  <2> HIDE DEF u, sums
  <2>4. sums(u)[u] = Partial(f, sums(u), u) BY <2>3 DEF PartialSums
  <2>5. g[u] = value(u) BY <2>2
  <2>6. CASE u = {} BY <2>4, <2>5, <2>6 DEF Partial, u
  <2>7. CASE u # {}
    <3> DEFINE w == Unpicked(u)
    <3>1. Picked(u) \in u BY <2>7 DEF Picked
    <3>2. w \in SUBSET u /\ w \in SUBSET T /\ w # T BY <2>2, <3>1 DEF Unpicked
    <3>3. PartialSums(f, sums(w), w) BY <1>2, <3>2
    <3>4. IsFiniteSet(w) BY <1>1, <3>2, FS_Subset
    <3>5. sums(u)[w] = sums(w)[w] BY <2>3, <3>2, <3>3, <3>4, PartialSumsAgree
    <3> QED BY <2>4, <2>5, <2>7, <3>5 DEF Partial, u
  <2> QED BY <2>6, <2>7
<1>4. PartialSums(f, g, T)
  <2>1. \A s \in SUBSET T : value(s) = Partial(f, g, s)
    <3> TAKE s \in SUBSET T
    <3> HIDE DEF g, sums
    <3> QED BY <1>3 DEF Partial
  <2> HIDE DEF value
  <2>2. g = [s \in SUBSET T |-> Partial(f, g, s)] BY <2>1
  <2> QED BY <2>2 DEF PartialSums
<1> QED BY <1>1, <1>4

LEMMA SumEmpty == ASSUME NEW f PROVE SumOver(f, {}) = 0
<1>1. PICK g : PartialSums(f, g, {}) BY PartialSumsExist, FS_EmptySet
<1>2. PartialSums(f, CHOOSE h : PartialSums(f, h, {}), {}) BY <1>1
<1> QED BY <1>2, SumIsPartial DEF PartialSums, Partial

(* A sum adds what is picked to the sum of the others ...                  *)
LEMMA SumPicked ==
    ASSUME NEW f, NEW S, IsFiniteSet(S), S # {}
    PROVE  SumOver(f, S) = f[Picked(S)] + SumOver(f, Unpicked(S))
<1> DEFINE sums(U) == CHOOSE g : PartialSums(f, g, U)
           R == Unpicked(S)
<1>1. R \subseteq S /\ IsFiniteSet(R) BY FS_RemoveElement DEF Unpicked
<1>2. PartialSums(f, sums(S), S) /\ PartialSums(f, sums(R), R)
  BY <1>1, PartialSumsExist
<1>3. SumOver(f, S) = sums(S)[S] /\ SumOver(f, R) = sums(R)[R] BY SumIsPartial
<1> HIDE DEF sums, R
<1>4. sums(S)[R] = sums(R)[R] BY <1>1, <1>2, PartialSumsAgree
<1>5. sums(S)[S] = Partial(f, sums(S), S) BY <1>2 DEF PartialSums
<1> QED BY <1>3, <1>4, <1>5 DEF Partial, R

(* ... and so any element to it.                                           *)
LEMMA SumType ==
    ASSUME NEW f, NEW S, IsFiniteSet(S), \A x \in S : f[x] \in Int
    PROVE  /\ SumOver(f, S) \in Int
           /\ (\A x \in S : f[x] >= 0) => SumOver(f, S) >= 0
<1> DEFINE good(s) == /\ SumOver(f, s) \in Int
                      /\ (\A x \in S : f[x] >= 0) => SumOver(f, s) >= 0
           Bad == {s \in SUBSET S : ~ good(s)}
<1> SUFFICES ASSUME Bad # {} PROVE FALSE OBVIOUS
<1>1. PICK s \in Bad : \A r \in Bad : r \subseteq s => r = s
  <2>1. Bad \in SUBSET SUBSET S /\ Bad # {} OBVIOUS
  <2> HIDE DEF Bad
  <2> QED BY <2>1, MinimalSet
<1>2. s # {}
  <2>1. SumOver(f, {}) = 0 BY SumEmpty
  <2>2. good({}) BY <2>1
  <2> QED BY <1>1, <2>2
<1>3. Picked(s) \in s /\ IsFiniteSet(s) BY <1>1, <1>2, FS_Subset DEF Picked
<1>4. good(Unpicked(s)) BY <1>1, <1>3 DEF Unpicked
<1>5. SumOver(f, s) = f[Picked(s)] + SumOver(f, Unpicked(s)) BY <1>2, <1>3, SumPicked
<1>6. f[Picked(s)] \in Int /\ ((\A x \in S : f[x] >= 0) => f[Picked(s)] >= 0)
  BY <1>1, <1>3
<1>7. good(s) BY <1>4, <1>5, <1>6
<1> QED BY <1>1, <1>7

LEMMA SumRemove ==
    ASSUME NEW f, NEW S, IsFiniteSet(S), \A x \in S : f[x] \in Int, NEW x \in S
    PROVE  SumOver(f, S) = f[x] + SumOver(f, S \ {x})
<1> DEFINE good(s) == \A y \in s : SumOver(f, s) = f[y] + SumOver(f, s \ {y})
           Bad == {s \in SUBSET S : ~ good(s)}
<1> SUFFICES ASSUME Bad # {} PROVE FALSE OBVIOUS
<1>1. PICK s \in Bad : \A r \in Bad : r \subseteq s => r = s
  <2>1. Bad \in SUBSET SUBSET S /\ Bad # {} OBVIOUS
  <2> HIDE DEF Bad
  <2> QED BY <2>1, MinimalSet
<1>2. ASSUME NEW y \in s PROVE SumOver(f, s) = f[y] + SumOver(f, s \ {y})
  <2> DEFINE p == Picked(s)
             r == s \ {p, y}
  <2>1. p \in s /\ IsFiniteSet(s) BY <1>1, <1>2, FS_Subset DEF Picked
  <2>2. SumOver(f, s) = f[p] + SumOver(f, s \ {p}) BY <2>1, SumPicked DEF Unpicked
  <2>3. CASE p = y BY <2>2, <2>3
  <2>4. CASE p # y
    <3>1. good(s \ {p}) /\ good(s \ {y}) BY <1>1, <2>1
    <3>2. (s \ {p}) \ {y} = r /\ (s \ {y}) \ {p} = r /\ y \in s \ {p} /\ p \in s \ {y}
      BY <2>1, <2>4
    <3>3. SumOver(f, s \ {p}) = f[y] + SumOver(f, r)
          /\ SumOver(f, s \ {y}) = f[p] + SumOver(f, r)
      BY <3>1, <3>2
    <3>4. r \subseteq S /\ IsFiniteSet(r) BY <1>1, FS_Subset
    <3>5. SumOver(f, r) \in Int BY <3>4, SumType
    <3>6. f[p] \in Int /\ f[y] \in Int BY <1>1, <2>1
    <3> HIDE DEF p, r
    <3> QED BY <2>2, <3>3, <3>5, <3>6
  <2> QED BY <2>3, <2>4
<1> QED BY <1>1, <1>2

LEMMA SumAdd ==
    ASSUME NEW f, NEW S, IsFiniteSet(S), NEW x, x \notin S,
           \A y \in S \cup {x} : f[y] \in Int
    PROVE  SumOver(f, S \cup {x}) = f[x] + SumOver(f, S)
<1>1. IsFiniteSet(S \cup {x}) BY FS_AddElement
<1>2. (S \cup {x}) \ {x} = S OBVIOUS
<1> DEFINE T == S \cup {x}
<1> HIDE DEF T
<1>3. SumOver(f, T) = f[x] + SumOver(f, T \ {x}) BY <1>1, SumRemove DEF T
<1> QED BY <1>2, <1>3 DEF T

(* Only the values on the set matter.                                      *)
LEMMA SumAgrees ==
    ASSUME NEW f, NEW g, NEW S, IsFiniteSet(S), \A x \in S : f[x] = g[x]
    PROVE  SumOver(f, S) = SumOver(g, S)
<1> DEFINE Bad == {s \in SUBSET S : SumOver(f, s) # SumOver(g, s)}
<1> SUFFICES ASSUME Bad # {} PROVE FALSE OBVIOUS
<1>1. PICK s \in Bad : \A r \in Bad : r \subseteq s => r = s
  <2>1. Bad \in SUBSET SUBSET S /\ Bad # {} OBVIOUS
  <2> HIDE DEF Bad
  <2> QED BY <2>1, MinimalSet
<1>2. s # {} BY <1>1, SumEmpty
<1>3. Picked(s) \in s /\ IsFiniteSet(s) BY <1>1, <1>2, FS_Subset DEF Picked
<1>4. SumOver(f, Unpicked(s)) = SumOver(g, Unpicked(s)) BY <1>1, <1>3 DEF Unpicked
<1>5. SumOver(f, s) = f[Picked(s)] + SumOver(f, Unpicked(s))
      /\ SumOver(g, s) = g[Picked(s)] + SumOver(g, Unpicked(s))
  BY <1>2, <1>3, SumPicked
<1>6. f[Picked(s)] = g[Picked(s)] BY <1>1, <1>3
<1> QED BY <1>1, <1>4, <1>5, <1>6

(* Nothing adds up to nothing.                                             *)
LEMMA SumOfZeros ==
    ASSUME NEW f, NEW S, IsFiniteSet(S), \A x \in S : f[x] = 0
    PROVE  SumOver(f, S) = 0
<1> DEFINE Bad == {s \in SUBSET S : SumOver(f, s) # 0}
<1> SUFFICES ASSUME Bad # {} PROVE FALSE OBVIOUS
<1>1. PICK s \in Bad : \A r \in Bad : r \subseteq s => r = s
  <2>1. Bad \in SUBSET SUBSET S /\ Bad # {} OBVIOUS
  <2> HIDE DEF Bad
  <2> QED BY <2>1, MinimalSet
<1>2. s # {} BY <1>1, SumEmpty
<1>3. Picked(s) \in s /\ IsFiniteSet(s) BY <1>1, <1>2, FS_Subset DEF Picked
<1>4. SumOver(f, Unpicked(s)) = 0 BY <1>1, <1>3 DEF Unpicked
<1>5. SumOver(f, s) = f[Picked(s)] + SumOver(f, Unpicked(s)) BY <1>2, <1>3, SumPicked
<1>6. f[Picked(s)] = 0 BY <1>1, <1>3
<1> QED BY <1>1, <1>4, <1>5, <1>6

(* One value changes.                                                      *)
LEMMA SumChange ==
    ASSUME NEW f, NEW g, NEW S, IsFiniteSet(S), NEW x \in S,
           \A y \in S : f[y] \in Int, g[x] \in Int, \A y \in S \ {x} : g[y] = f[y]
    PROVE  SumOver(g, S) = SumOver(f, S) - f[x] + g[x]
<1>1. IsFiniteSet(S \ {x}) BY FS_RemoveElement
<1>2. SumOver(g, S \ {x}) = SumOver(f, S \ {x}) BY <1>1, SumAgrees
<1>3. \A y \in S : g[y] \in Int OBVIOUS
<1>4. SumOver(f, S) = f[x] + SumOver(f, S \ {x}) BY SumRemove
<1>5. SumOver(g, S) = g[x] + SumOver(g, S \ {x}) BY <1>3, SumRemove
<1>6. SumOver(f, S \ {x}) \in Int BY <1>1, SumType
<1> QED BY <1>2, <1>4, <1>5, <1>6

(* What grows by f[i] at each i is the sum so far.                         *)
Runs(f, g, k) ==
    /\ g[0] = 0 /\ \A i \in 0 .. k : g[i] \in Int
    /\ \A i \in 1 .. k : f[i] \in Int /\ g[i] = g[i - 1] + f[i]

LEMMA SumRuns ==
    ASSUME NEW f, NEW g, NEW k \in Nat, Runs(f, g, k)
    PROVE  SumOver(f, 1 .. k) = g[k]
<1> USE DEF Runs
<1> DEFINE Bad == {j \in 0 .. k : SumOver(f, 1 .. j) # g[j]}
<1> SUFFICES ASSUME Bad # {} PROVE FALSE OBVIOUS
<1>1. PICK j \in Bad : \A i \in Bad : j <= i
  <2>1. Bad \subseteq Nat OBVIOUS
  <2> HIDE DEF Bad
  <2> QED BY <2>1, SmallestOfNaturals
<1>2. j \in 0 .. k /\ SumOver(f, 1 .. j) # g[j] BY <1>1
<1>3. j # 0
  <2>1. 1 .. 0 = {} OBVIOUS
  <2> QED BY <1>2, <2>1, SumEmpty
<1>4. j \in 1 .. k /\ j - 1 \in 0 .. k BY <1>2, <1>3
<1>5. SumOver(f, 1 .. (j - 1)) = g[j - 1]
  <2>1. j - 1 \notin Bad
    <3>1. ~ (j <= j - 1) BY <1>2
    <3> HIDE DEF Bad
    <3> QED BY <1>1, <3>1
  <2> QED BY <1>4, <2>1
<1> HIDE DEF Bad
<1>6. SumOver(f, 1 .. j) = f[j] + SumOver(f, 1 .. (j - 1))
  <2>1. (1 .. (j - 1)) \cup {j} = 1 .. j /\ j \notin 1 .. (j - 1) BY <1>4
  <2>2. IsFiniteSet(1 .. (j - 1)) BY <1>4, FS_Interval
  <2>3. \A y \in (1 .. (j - 1)) \cup {j} : f[y] \in Int BY <1>4
  <2> DEFINE S == 1 .. (j - 1)
  <2> HIDE DEF S
  <2>4. SumOver(f, S \cup {j}) = f[j] + SumOver(f, S)
    BY <2>1, <2>2, <2>3, SumAdd DEF S
  <2> QED BY <2>1, <2>4 DEF S
<1>7. g[j] = g[j - 1] + f[j] /\ f[j] \in Int /\ g[j - 1] \in Int BY <1>4
<1> QED BY <1>2, <1>5, <1>6, <1>7

(* What is at most twice as large everywhere is so in sum.                 *)
LEMMA SumAtMostTwice ==
    ASSUME NEW f, NEW g, NEW S, IsFiniteSet(S),
           \A x \in S : f[x] \in Int /\ g[x] \in Int /\ g[x] <= 2 * f[x]
    PROVE  SumOver(g, S) <= 2 * SumOver(f, S)
<1> DEFINE Bad == {s \in SUBSET S : ~ (SumOver(g, s) <= 2 * SumOver(f, s))}
<1> SUFFICES ASSUME Bad # {} PROVE FALSE OBVIOUS
<1>1. PICK s \in Bad : \A r \in Bad : r \subseteq s => r = s
  <2>1. Bad \in SUBSET SUBSET S /\ Bad # {} OBVIOUS
  <2> HIDE DEF Bad
  <2> QED BY <2>1, MinimalSet
<1>2. s # {}
  <2>1. SumOver(f, {}) = 0 /\ SumOver(g, {}) = 0 BY SumEmpty
  <2>2. SumOver(g, {}) <= 2 * SumOver(f, {}) BY <2>1
  <2> QED BY <1>1, <2>2
<1>3. Picked(s) \in s /\ IsFiniteSet(s) /\ IsFiniteSet(Unpicked(s))
  BY <1>1, <1>2, FS_Subset, FS_RemoveElement DEF Picked, Unpicked
<1>4. SumOver(g, Unpicked(s)) <= 2 * SumOver(f, Unpicked(s)) BY <1>1, <1>3 DEF Unpicked
<1>5. SumOver(f, s) = f[Picked(s)] + SumOver(f, Unpicked(s))
      /\ SumOver(g, s) = g[Picked(s)] + SumOver(g, Unpicked(s))
  BY <1>2, <1>3, SumPicked
<1>6. SumOver(f, Unpicked(s)) \in Int /\ SumOver(g, Unpicked(s)) \in Int
  BY <1>1, <1>3, SumType DEF Unpicked
<1>7. f[Picked(s)] \in Int /\ g[Picked(s)] \in Int /\ g[Picked(s)] <= 2 * f[Picked(s)]
  BY <1>1, <1>3
<1> QED BY <1>1, <1>4, <1>5, <1>6, <1>7

=============================================================================
