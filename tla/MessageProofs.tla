---------------------------- MODULE MessageProofs ----------------------------
(***************************************************************************)
(* Proofs, for every message, label and set of subsystems, about what the  *)
(* codecs make of a message and what HandleTransfer does with it.  First   *)
(* come the operators the codecs are built from, for every value of their  *)
(* arguments.                                                              *)
(***************************************************************************)
EXTENDS MessageProperties, SetProofs, SequenceTheorems, FiniteSetTheorems

-----------------------------------------------------------------------------
(* Recursion.  A function whose value at d is a base case or depends on    *)
(* its value at one other element, of a lower rank, exists.  All recursive *)
(* functions of the model and of the sequence operators are of this kind:  *)
(* the lemma is what unrolls them.                                         *)

(* g at d, given the sets and functions of the definition.                 *)
Unrolled(stop, base, pred, step, g, d) ==
    IF d \in stop THEN base[d] ELSE step[<<d, g[pred[d]]>>]

(* The elements of a rank below n, and the functions on them that obey the *)
(* definition.                                                             *)
Below(D, rank, n) == {d \in D : rank[d] < n}

Solutions(D, V, stop, base, pred, step, rank, n) ==
    {g \in [Below(D, rank, n) -> V] :
        \A d \in Below(D, rank, n) : g[d] = Unrolled(stop, base, pred, step, g, d)}

(* The recursion ends, and its values are in V.                            *)
Recursive(D, V, stop, base, pred, step, rank) ==
    /\ rank \in [D -> Nat]
    /\ \A d \in D \ stop : pred[d] \in D /\ rank[pred[d]] < rank[d]
    /\ \A d \in D \cap stop : base[d] \in V
    /\ \A d \in D \ stop, v \in V : step[<<d, v>>] \in V

LEMMA SolutionsAgree ==
    ASSUME NEW D, NEW V, NEW stop, NEW base, NEW pred, NEW step,
           NEW rank \in [D -> Nat],
           \A d \in D \ stop : pred[d] \in D /\ rank[pred[d]] < rank[d],
           NEW n \in Nat, NEW k \in Nat,
           NEW g \in Solutions(D, V, stop, base, pred, step, rank, n),
           NEW h \in Solutions(D, V, stop, base, pred, step, rank, k),
           NEW e \in D, rank[e] < n, rank[e] < k
    PROVE  g[e] = h[e]
<1> DEFINE Differ == {d \in D : rank[d] < n /\ rank[d] < k /\ g[d] # h[d]}
           ranks == {rank[d] : d \in Differ}
<1>1. ASSUME Differ # {} PROVE FALSE
  <2>1. ranks \subseteq Nat /\ ranks # {} BY <1>1
  <2>2. PICK r \in ranks : \A s \in ranks : r <= s BY <2>1, SmallestOfNaturals
  <2>3. PICK d \in Differ : rank[d] = r BY <2>2
  <2>4. d \in Below(D, rank, n) /\ d \in Below(D, rank, k) BY <2>3 DEF Below
  <2>5. g[d] = Unrolled(stop, base, pred, step, g, d)
        /\ h[d] = Unrolled(stop, base, pred, step, h, d)
    BY <2>4 DEF Solutions
  <2>6. d \notin stop BY <2>3, <2>5 DEF Unrolled
  <2>7. pred[d] \in D /\ rank[pred[d]] < rank[d] BY <2>3, <2>6
  <2>8. pred[d] \notin Differ
    <3> SUFFICES ASSUME pred[d] \in Differ PROVE FALSE OBVIOUS
    <3>1. r <= rank[pred[d]] BY <2>2
    <3>2. rank[pred[d]] \in Nat /\ r \in Nat BY <2>3, <2>7
    <3> QED BY <2>3, <2>7, <3>1, <3>2
  <2>9. g[pred[d]] = h[pred[d]]
    <3>1. rank[pred[d]] < n /\ rank[pred[d]] < k BY <2>3, <2>7
    <3> QED BY <2>7, <2>8, <3>1
  <2> QED BY <2>3, <2>5, <2>9 DEF Unrolled
<1> QED BY <1>1

LEMMA SolutionsExist ==
    ASSUME NEW D, NEW V, NEW stop, NEW base, NEW pred, NEW step,
           NEW rank \in [D -> Nat],
           \A d \in D \ stop : pred[d] \in D /\ rank[pred[d]] < rank[d],
           \A d \in D \cap stop : base[d] \in V,
           \A d \in D \ stop, v \in V : step[<<d, v>>] \in V,
           NEW n \in Nat
    PROVE  Solutions(D, V, stop, base, pred, step, rank, n) # {}
<1> DEFINE P(k) == Solutions(D, V, stop, base, pred, step, rank, k)
           None == {k \in Nat : P(k) = {}}
<1>1. ASSUME None # {} PROVE FALSE
  <2>1. PICK k \in None : \A j \in None : k <= j BY <1>1, SmallestOfNaturals
  <2>2. CASE k = 0
    <3>1. Below(D, rank, 0) = {} BY DEF Below
    <3>2. [d \in {} |-> {}] \in P(0) BY <3>1 DEF Solutions
    <3> QED BY <2>1, <2>2, <3>2
  <2>3. CASE k # 0
    <3> DEFINE B == Below(D, rank, k)
               C == Below(D, rank, k - 1)
    <3>1. k - 1 \in Nat /\ k - 1 \notin None BY <2>1, <2>3
    <3>2. PICK g : g \in P(k - 1) BY <3>1
    <3>3. g \in [C -> V] /\ \A d \in C : g[d] = Unrolled(stop, base, pred, step, g, d)
      BY <3>2 DEF Solutions
    <3> DEFINE h == [d \in B |-> Unrolled(stop, base, pred, step, g, d)]
    <3>4. ASSUME NEW d \in B, d \notin stop PROVE pred[d] \in C /\ pred[d] \in B
      <4>1. pred[d] \in D /\ rank[pred[d]] < rank[d] /\ rank[d] < k BY <3>4 DEF Below
      <4>2. rank[pred[d]] \in Nat /\ rank[d] \in Nat BY <4>1, <3>4 DEF Below
      <4>3. rank[pred[d]] < k - 1 /\ rank[pred[d]] < k BY <4>1, <4>2, <3>1, <2>1
      <4> QED BY <4>1, <4>3 DEF Below
    <3>5. h \in [B -> V]
      <4>1. ASSUME NEW d \in B PROVE Unrolled(stop, base, pred, step, g, d) \in V
        <5>1. d \in D BY DEF Below
        <5>2. CASE d \in stop BY <5>1, <5>2 DEF Unrolled
        <5>3. CASE d \notin stop
          <6>1. g[pred[d]] \in V BY <3>3, <3>4, <5>3
          <6> QED BY <5>1, <5>3, <6>1 DEF Unrolled
        <5> QED BY <5>2, <5>3
      <4> QED BY <4>1
    <3>6. ASSUME NEW d \in B PROVE h[d] = Unrolled(stop, base, pred, step, h, d)
      <4>1. h[d] = Unrolled(stop, base, pred, step, g, d) OBVIOUS
      <4>2. CASE d \in stop BY <4>1, <4>2 DEF Unrolled
      <4>3. CASE d \notin stop
        <5>1. pred[d] \in C /\ pred[d] \in B BY <3>4, <4>3
        <5>2. h[pred[d]] = g[pred[d]] BY <3>3, <5>1
        <5> QED BY <4>1, <4>3, <5>2 DEF Unrolled
      <4> QED BY <4>2, <4>3
    <3>7. h \in P(k) 
      <4> HIDE DEF h
      <4> QED BY <3>5, <3>6 DEF Solutions
    <3> QED BY <2>1, <3>7
  <2> QED BY <2>2, <2>3
<1> QED BY <1>1

LEMMA RecursionExists ==
    ASSUME NEW D, NEW V, NEW stop, NEW base, NEW pred, NEW step, NEW rank,
           Recursive(D, V, stop, base, pred, step, rank)
    PROVE  \E g \in [D -> V] : g = [d \in D |-> Unrolled(stop, base, pred, step, g, d)]
<1> DEFINE P(k) == Solutions(D, V, stop, base, pred, step, rank, k)
           chosen(d) == CHOOSE s : s \in P(rank[d] + 1)
           g == [d \in D |-> chosen(d)[d]]
<1>0. /\ rank \in [D -> Nat]
      /\ \A d \in D \ stop : pred[d] \in D /\ rank[pred[d]] < rank[d]
      /\ \A d \in D \cap stop : base[d] \in V
      /\ \A d \in D \ stop, v \in V : step[<<d, v>>] \in V
  BY DEF Recursive
<1>1. ASSUME NEW d \in D
      PROVE  chosen(d) \in P(rank[d] + 1) /\ d \in Below(D, rank, rank[d] + 1)
  <2>1. rank[d] + 1 \in Nat /\ rank[d] < rank[d] + 1 BY <1>0
  <2>2. P(rank[d] + 1) # {} BY <1>0, <2>1, SolutionsExist
  <2> HIDE DEF P
  <2>3. chosen(d) \in P(rank[d] + 1) BY <2>2
  <2> QED BY <2>1, <2>3 DEF Below
<1>2. ASSUME NEW d \in D
      PROVE  g[d] \in V /\ g[d] = Unrolled(stop, base, pred, step, chosen(d), d)
  <2> HIDE DEF chosen
  <2>1. chosen(d)[d] \in V
        /\ chosen(d)[d] = Unrolled(stop, base, pred, step, chosen(d), d)
    BY <1>1 DEF Solutions
  <2> QED BY <2>1
<1>3. ASSUME NEW d \in D PROVE g[d] = Unrolled(stop, base, pred, step, g, d)
  <2>1. CASE d \in stop BY <1>2, <2>1 DEF Unrolled
  <2>2. CASE d \notin stop
    <3>1. pred[d] \in D /\ rank[pred[d]] < rank[d] BY <1>0, <2>2
    <3>2. rank[pred[d]] \in Nat /\ rank[d] \in Nat BY <1>0, <3>1
    <3>3. rank[pred[d]] < rank[pred[d]] + 1 /\ rank[pred[d]] < rank[d] + 1
          /\ rank[d] + 1 \in Nat /\ rank[pred[d]] + 1 \in Nat
      BY <3>1, <3>2
    <3>4. chosen(d) \in P(rank[d] + 1) /\ chosen(pred[d]) \in P(rank[pred[d]] + 1)
      BY <1>1, <3>1
    <3> HIDE DEF chosen
    <3>5. chosen(d)[pred[d]] = chosen(pred[d])[pred[d]]
      BY <1>0, <3>1, <3>3, <3>4, SolutionsAgree
    <3>6. g[pred[d]] = chosen(d)[pred[d]] BY <3>1, <3>5
    <3> QED BY <1>2, <2>2, <3>6 DEF Unrolled
  <2> QED BY <2>1, <2>2
<1> HIDE DEF chosen, P
<1>4. g \in [D -> V] BY <1>2
<1>5. g = [d \in D |-> g[d]] OBVIOUS
<1> HIDE DEF g
<1>6. g = [d \in D |-> Unrolled(stop, base, pred, step, g, d)] BY <1>3, <1>5
<1> QED BY <1>4, <1>6

-----------------------------------------------------------------------------
(* Folds over a sequence, which the library defines over the subsets of    *)
(* its domain.                                                             *)

LEMMA MaxOfInterval ==
    ASSUME NEW n \in Nat, NEW k \in 1 .. n
    PROVE  /\ 1 .. k \in SUBSET (1 .. n) /\ 1 .. k # {}
           /\ Max(1 .. k) = k /\ (1 .. k) \ {k} = 1 .. k - 1
<1>1. k \in 1 .. k /\ \A y \in 1 .. k : k >= y OBVIOUS
<1>2. \A x \in 1 .. k : (\A y \in 1 .. k : x >= y) => x = k OBVIOUS
<1>3. Max(1 .. k) = k BY <1>1, <1>2 DEF Max
<1>4. (1 .. k) \ {k} = 1 .. k - 1 OBVIOUS
<1>5. 1 .. k \in SUBSET (1 .. n) OBVIOUS
<1> QED BY <1>1, <1>3, <1>4, <1>5

LEMMA MaxIsIn ==
    ASSUME NEW n \in Nat, NEW s \in SUBSET (1 .. n), s # {}
    PROVE  Max(s) \in s
<1> DEFINE upper == {m \in Nat : \A y \in s : y <= m}
<1>1. n \in upper OBVIOUS
<1>2. PICK m \in upper : \A u \in upper : m <= u BY <1>1, SmallestOfNaturals
<1>3. m \in s
  <2> SUFFICES ASSUME m \notin s PROVE FALSE OBVIOUS
  <2>1. PICK y \in s : TRUE OBVIOUS
  <2>2. y \in 1 .. n /\ y <= m /\ m \in Nat BY <1>2, <2>1
  <2>3. m - 1 \in Nat BY <2>2
  <2>4. \A z \in s : z <= m - 1
    <3> TAKE z \in s
    <3>1. z \in 1 .. n /\ z <= m /\ z # m BY <1>2
    <3> QED BY <2>2, <3>1
  <2>5. m <= m - 1 BY <1>2, <2>3, <2>4
  <2> QED BY <2>2, <2>5
<1>4. \A y \in s : m >= y
  <2> TAKE y \in s
  <2>1. y \in Int /\ y <= m /\ m \in Nat BY <1>2
  <2> QED BY <2>1
<1> QED BY <1>3, <1>4 DEF Max

(* A fold of n steps has its values in V.                                  *)
Folding(n, V, base, step) ==
    /\ n \in Nat
    /\ base \in V
    /\ \A k \in 1 .. n, v \in V : step[<<k, v>>] \in V

Folded(n, base, step, iter) ==
    iter = [s \in SUBSET (1 .. n) |->
              IF s = {} THEN base ELSE step[<<Max(s), iter[s \ {Max(s)}]>>]]

LEMMA FoldExists ==
    ASSUME NEW n, NEW V, NEW base, NEW step, Folding(n, V, base, step)
    PROVE  \E iter \in [SUBSET (1 .. n) -> V] : Folded(n, base, step, iter)
<1> DEFINE D == SUBSET (1 .. n)
           stop == {{}}
           first == [s \in D |-> base]
           pred == [s \in D |-> s \ {Max(s)}]
           next == [x \in D \X V |-> step[<<Max(x[1]), x[2]>>]]
           rank == [s \in D |-> Cardinality(s)]
<1>0. /\ n \in Nat
      /\ base \in V
      /\ \A k \in 1 .. n, v \in V : step[<<k, v>>] \in V
  BY DEF Folding
<1>1. \A s \in D : IsFiniteSet(s) /\ Cardinality(s) \in Nat
  <2>1. IsFiniteSet(1 .. n) BY <1>0, FS_Interval
  <2>2. ASSUME NEW s \in D PROVE IsFiniteSet(s) /\ Cardinality(s) \in Nat
    <3>1. IsFiniteSet(s) BY <2>1, FS_Subset
    <3> QED BY <3>1, FS_CardinalityType
  <2> QED BY <2>2
<1>2. rank \in [D -> Nat] BY <1>1
<1>3. ASSUME NEW s \in D \ stop PROVE pred[s] \in D /\ rank[pred[s]] < rank[s]
  <2>1. Max(s) \in s BY <1>0, MaxIsIn
  <2>2. pred[s] = s \ {Max(s)} /\ pred[s] \in D OBVIOUS
  <2>3. Cardinality(s \ {Max(s)}) = Cardinality(s) - 1 BY <1>1, <2>1, FS_RemoveElement
  <2>4. rank[pred[s]] = rank[s] - 1 /\ rank[s] \in Nat BY <1>1, <2>2, <2>3
  <2> HIDE DEF rank, pred
  <2> QED BY <2>2, <2>4
<1>4. \A s \in D \cap stop : first[s] \in V BY <1>0
<1>5. ASSUME NEW s \in D \ stop, NEW v \in V PROVE next[<<s, v>>] \in V
  <2>1. Max(s) \in 1 .. n BY <1>0, MaxIsIn
  <2> QED BY <1>0, <2>1
<1>7. \A s \in D \ stop, v \in V : next[<<s, v>>] = step[<<Max(s), v>>] OBVIOUS
<1>8. \A s \in D : pred[s] = s \ {Max(s)} /\ first[s] = base OBVIOUS
<1>9. \A s \in D : s \in stop <=> s = {} OBVIOUS
<1>12. Recursive(D, V, stop, first, pred, next, rank)
  <2> HIDE DEF D, stop, first, pred, next, rank
  <2> QED BY <1>2, <1>3, <1>4, <1>5 DEF Recursive
<1> HIDE DEF D, stop, first, pred, next, rank
<1>6. PICK g \in [D -> V] : g = [s \in D |-> Unrolled(stop, first, pred, next, g, s)]
  BY <1>12, RecursionExists
<1>10. ASSUME NEW s \in D
       PROVE  g[s] = IF s = {} THEN base ELSE step[<<Max(s), g[s \ {Max(s)}]>>]
  <2>1. g[s] = Unrolled(stop, first, pred, next, g, s) BY <1>6
  <2>2. CASE s = {} BY <1>8, <1>9, <2>1, <2>2 DEF Unrolled
  <2>3. CASE s # {}
    <3>1. g[s] = next[<<s, g[pred[s]]>>] BY <1>9, <2>1, <2>3 DEF Unrolled
    <3>2. pred[s] \in D BY <1>3, <1>9, <2>3
    <3>3. g[pred[s]] \in V BY <1>6, <3>2
    <3>4. g[s] = step[<<Max(s), g[pred[s]]>>] BY <1>7, <1>9, <2>3, <3>1, <3>3
    <3> QED BY <1>8, <2>3, <3>4
  <2> QED BY <2>2, <2>3
<1>11. g = [s \in D |-> IF s = {} THEN base ELSE step[<<Max(s), g[s \ {Max(s)}]>>]]
  <2>1. g = [s \in D |-> g[s]] BY <1>6
  <2> QED BY <1>10, <2>1
<1> QED BY <1>11 DEF D, Folded

(* The tuples of some parts are the sequences with an element of each.     *)
LEMMA TuplesAre ==
    ASSUME NEW n \in Nat, NEW parts, DOMAIN parts = 1 .. n,
           NEW U, \A i \in 1 .. n : parts[i] \subseteq U
    PROVE  Tuples(parts) = {t \in Seq(U) : Len(t) = n /\ \A i \in 1 .. n : t[i] \in parts[i]}
<1> DEFINE V == SUBSET Seq(U)
           longer(v, part) == {Append(t, p) : t \in v, p \in part}
           step == [x \in (1 .. n) \X V |-> longer(x[2], parts[x[1]])]
           body(g) == [s \in SUBSET (1 .. n) |->
                         IF s = {} THEN {<<>>} ELSE longer(g[s \ {Max(s)}], parts[Max(s)])]
           it == CHOOSE g : g = body(g)
           Of(k) == {t \in Seq(U) : Len(t) = k /\ \A i \in 1 .. k : t[i] \in parts[i]}
<1>1. ASSUME NEW k \in 1 .. n, NEW v \in V
      PROVE  longer(v, parts[k]) \in V /\ step[<<k, v>>] = longer(v, parts[k])
  <2>1. ASSUME NEW t \in v, NEW p \in parts[k] PROVE Append(t, p) \in Seq(U)
    BY AppendProperties
  <2>2. longer(v, parts[k]) \in V BY <2>1
  <2> HIDE DEF longer, V
  <2> QED BY <2>2
<1>2. {<<>>} \in V OBVIOUS
<1>3. Folding(n, V, {<<>>}, step)
  <2> HIDE DEF step, V, longer
  <2>1. ASSUME NEW k \in 1 .. n, NEW v \in V PROVE step[<<k, v>>] \in V BY <1>1
  <2> QED BY <1>2, <2>1 DEF Folding
<1>4. it = body(it)
  <2>1. PICK g \in [SUBSET (1 .. n) -> V] : Folded(n, {<<>>}, step, g)
    <3> HIDE DEF step, V
    <3> QED BY <1>3, FoldExists
  <2>2. ASSUME NEW s \in SUBSET (1 .. n), s # {}
        PROVE  step[<<Max(s), g[s \ {Max(s)}]>>] = longer(g[s \ {Max(s)}], parts[Max(s)])
    <3>1. Max(s) \in 1 .. n /\ s \ {Max(s)} \in SUBSET (1 .. n) BY <2>2, MaxIsIn
    <3>2. g[s \ {Max(s)}] \in V BY <3>1
    <3> HIDE DEF step, V, longer
    <3> QED BY <1>1, <3>1, <3>2
  <2> HIDE DEF step, longer
  <2>3. g = body(g) BY <2>1, <2>2 DEF Folded
  <2> HIDE DEF body
  <2> QED BY <2>3
<1>5. Tuples(parts) = it[1 .. n] BY DEF Tuples, FoldLeft, MapThenFoldSet
<1> HIDE DEF it
<1>6. it[{}] = {<<>>}
  <2>1. {} \in SUBSET (1 .. n) OBVIOUS
  <2>2. body(it)[{}] = {<<>>} BY <2>1
  <2> HIDE DEF body
  <2> QED BY <1>4, <2>2
<1>7. ASSUME NEW k \in 1 .. n PROVE it[1 .. k] = longer(it[1 .. k - 1], parts[k])
  <2>1. 1 .. k \in SUBSET (1 .. n) /\ 1 .. k # {} BY MaxOfInterval
  <2>2. Max(1 .. k) = k /\ (1 .. k) \ {k} = 1 .. k - 1 BY MaxOfInterval
  <2> HIDE DEF longer
  <2>3. body(it)[1 .. k] = longer(it[1 .. k - 1], parts[k]) BY <2>1, <2>2
  <2> HIDE DEF body
  <2> QED BY <1>4, <2>3
<1>8. ASSUME NEW k \in 1 .. n PROVE longer(Of(k - 1), parts[k]) = Of(k)
  <2>1. ASSUME NEW t \in Of(k - 1), NEW p \in parts[k] PROVE Append(t, p) \in Of(k)
    <3>1. t \in Seq(U) /\ Len(t) = k - 1 /\ p \in U OBVIOUS
    <3>2. /\ Append(t, p) \in Seq(U) /\ Len(Append(t, p)) = k
          /\ \A i \in 1 .. k - 1 : Append(t, p)[i] = t[i]
          /\ Append(t, p)[k] = p
      BY <3>1, AppendProperties
    <3>3. ASSUME NEW i \in 1 .. k PROVE Append(t, p)[i] \in parts[i]
      <4>1. CASE i = k BY <3>2, <4>1
      <4>2. CASE i # k
        <5>1. i \in 1 .. k - 1 BY <4>2
        <5> QED BY <3>2, <5>1
      <4> QED BY <4>1, <4>2
    <3> QED BY <3>2, <3>3
  <2>2. ASSUME NEW u \in Of(k) PROVE u \in longer(Of(k - 1), parts[k])
    <3>1. u \in Seq(U) /\ Len(u) = k /\ k > 0 /\ u[k] \in parts[k] OBVIOUS
    <3>2. u # <<>> BY <3>1
    <3>3. PICK t \in Seq(U), p \in U : u = Append(t, p)
      BY <3>1, <3>2, SequenceEmptyOrAppend
    <3>4. /\ Len(u) = Len(t) + 1 /\ Len(t) \in Nat
          /\ \A i \in 1 .. Len(t) : u[i] = t[i]
          /\ u[Len(t) + 1] = p
      BY <3>3, AppendProperties, LenProperties
    <3>5. t \in Of(k - 1) /\ p \in parts[k]
      <4>1. Len(t) = k - 1 BY <3>1, <3>4
      <4>2. \A i \in 1 .. k - 1 : t[i] \in parts[i] BY <3>4, <4>1
      <4> QED BY <3>1, <3>4, <4>1, <4>2
    <3> HIDE DEF Of
    <3> QED BY <3>3, <3>5
  <2> HIDE DEF Of
  <2>3. ASSUME NEW x \in longer(Of(k - 1), parts[k]) PROVE x \in Of(k)
    <3>1. PICK t \in Of(k - 1), p \in parts[k] : x = Append(t, p) OBVIOUS
    <3> QED BY <2>1, <3>1
  <2> HIDE DEF longer
  <2> QED BY <2>2, <2>3
<1>9. \A k \in 0 .. n : it[1 .. k] = Of(k)
  <2> DEFINE Bad == {k \in 0 .. n : it[1 .. k] # Of(k)}
  <2>1. ASSUME Bad # {} PROVE FALSE
    <3>1. Bad \subseteq Nat OBVIOUS
    <3>2. PICK k \in Bad : \A j \in Bad : k <= j BY <2>1, <3>1, SmallestOfNaturals
    <3>3. CASE k = 0
      <4>1. 1 .. 0 = {} OBVIOUS
      <4>2. Of(0) = {<<>>}
        <5>1. ASSUME NEW t \in Seq(U) PROVE Len(t) = 0 <=> t = <<>> BY EmptySeq
        <5>2. <<>> \in Seq(U) OBVIOUS
        <5>3. ASSUME NEW t \in Seq(U), Len(t) = 0
              PROVE  \A i \in 1 .. 0 : t[i] \in parts[i]
          BY <4>1
        <5> QED BY <4>1, <5>1, <5>2, <5>3
      <4> QED BY <1>6, <3>2, <3>3, <4>1, <4>2
    <3>4. CASE k # 0
      <4>1. k \in 1 .. n /\ k - 1 \in 0 .. n /\ k - 1 < k BY <3>2, <3>4
      <4>2. k - 1 \notin Bad BY <3>2, <4>1
      <4>3. it[1 .. k - 1] = Of(k - 1) BY <4>1, <4>2
      <4> HIDE DEF Of, longer
      <4> QED BY <1>7, <1>8, <3>2, <4>1, <4>3
    <3> QED BY <3>3, <3>4
  <2> QED BY <2>1
<1> HIDE DEF Of
<1>10. Tuples(parts) = Of(n) BY <1>5, <1>9
<1> QED BY <1>10 DEF Of

(* f[k] is the length of the first k of the parts s.                       *)
Counts(n, s, f) ==
    /\ f \in [0 .. n -> Nat]
    /\ f[0] = 0
    /\ \A k \in 1 .. n : f[k] = f[k - 1] + Len(s[k])

LEMMA LengthOfUnrolled ==
    ASSUME NEW n \in Nat, NEW s, DOMAIN s = 1 .. n, \A i \in 1 .. n : Len(s[i]) \in Nat
    PROVE  \E f : Counts(n, s, f) /\ LengthOf(s) = f[n]
<1> DEFINE step == [x \in (1 .. n) \X Nat |-> x[2] + Len(s[x[1]])]
           body(g) == [d \in SUBSET (1 .. n) |->
                         IF d = {} THEN 0 ELSE g[d \ {Max(d)}] + Len(s[Max(d)])]
           it == CHOOSE g : g = body(g)
           partial(k) == it[1 .. k]
           f == [k \in 0 .. n |-> partial(k)]
<1>1. ASSUME NEW k \in 1 .. n, NEW v \in Nat
      PROVE  step[<<k, v>>] \in Nat /\ step[<<k, v>>] = v + Len(s[k])
  OBVIOUS
<1>2. Folding(n, Nat, 0, step)
  <2> HIDE DEF step
  <2> QED BY <1>1 DEF Folding
<1>3. PICK g \in [SUBSET (1 .. n) -> Nat] : Folded(n, 0, step, g)
  <2> HIDE DEF step
  <2> QED BY <1>2, FoldExists
<1>4. g = body(g)
  <2>1. ASSUME NEW d \in SUBSET (1 .. n), d # {}
        PROVE  step[<<Max(d), g[d \ {Max(d)}]>>] = g[d \ {Max(d)}] + Len(s[Max(d)])
    <3>1. Max(d) \in 1 .. n /\ d \ {Max(d)} \in SUBSET (1 .. n) BY <2>1, MaxIsIn
    <3>2. g[d \ {Max(d)}] \in Nat BY <3>1
    <3> HIDE DEF step
    <3> QED BY <1>1, <3>1, <3>2
  <2> HIDE DEF step
  <2> QED BY <1>3, <2>1 DEF Folded
<1>5. it = body(it)
  <2> HIDE DEF body
  <2> QED BY <1>4
<1>6. LengthOf(s) = it[1 .. n] BY DEF LengthOf, FoldLeft, MapThenFoldSet
<1> HIDE DEF it
<1>7. it[1 .. 0] = 0
  <2>1. {} \in SUBSET (1 .. n) /\ 1 .. 0 = {} OBVIOUS
  <2>2. body(it)[{}] = 0 BY <2>1
  <2> HIDE DEF body
  <2> QED BY <1>5, <2>1, <2>2
<1>8. ASSUME NEW k \in 1 .. n PROVE it[1 .. k] = it[1 .. k - 1] + Len(s[k])
  <2>1. 1 .. k \in SUBSET (1 .. n) /\ 1 .. k # {} BY MaxOfInterval
  <2>2. Max(1 .. k) = k /\ (1 .. k) \ {k} = 1 .. k - 1 BY MaxOfInterval
  <2>3. body(it)[1 .. k] = it[1 .. k - 1] + Len(s[k]) BY <2>1, <2>2
  <2> HIDE DEF body
  <2> QED BY <1>5, <2>3
<1>9. \A k \in 0 .. n : it[1 .. k] \in Nat
  <2> DEFINE Bad == {k \in 0 .. n : it[1 .. k] \notin Nat}
  <2>1. ASSUME Bad # {} PROVE FALSE
    <3>1. Bad \subseteq Nat OBVIOUS
    <3>2. PICK k \in Bad : \A j \in Bad : k <= j BY <2>1, <3>1, SmallestOfNaturals
    <3>3. k # 0 BY <1>7, <3>2
    <3>4. k \in 1 .. n /\ k - 1 \in 0 .. n /\ k - 1 < k BY <3>2, <3>3
    <3>5. it[1 .. k - 1] \in Nat BY <3>2, <3>4
    <3> QED BY <1>8, <3>2, <3>4, <3>5
  <2> QED BY <2>1
<1>10. \A k \in 0 .. n : f[k] = it[1 .. k]
  <2> HIDE DEF partial
  <2>1. \A k \in 0 .. n : f[k] = partial(k) OBVIOUS
  <2> QED BY <2>1 DEF partial
<1>11. f \in [0 .. n -> Nat] BY <1>9
<1> HIDE DEF f
<1>12. \A k \in 1 .. n : f[k] = f[k - 1] + Len(s[k])
  <2> TAKE k \in 1 .. n
  <2>1. k \in 0 .. n /\ k - 1 \in 0 .. n OBVIOUS
  <2> QED BY <1>8, <1>10, <2>1
<1>13. 0 \in 0 .. n /\ n \in 0 .. n OBVIOUS
<1>14. f[0] = 0 BY <1>7, <1>10, <1>13
<1>15. LengthOf(s) = f[n] BY <1>6, <1>10, <1>13
<1> QED BY <1>11, <1>12, <1>14, <1>15 DEF Counts

(* Parts none of which is longer have together no greater length.          *)
LEMMA LengthOfMonotone ==
    ASSUME NEW n \in Nat, NEW s, NEW t, DOMAIN s = 1 .. n, DOMAIN t = 1 .. n,
           \A i \in 1 .. n : /\ Len(s[i]) \in Nat /\ Len(t[i]) \in Nat
                             /\ Len(s[i]) <= Len(t[i])
    PROVE  LengthOf(s) \in Nat /\ LengthOf(t) \in Nat /\ LengthOf(s) <= LengthOf(t)
<1>1. PICK f : Counts(n, s, f) /\ LengthOf(s) = f[n] BY LengthOfUnrolled
<1>2. PICK g : Counts(n, t, g) /\ LengthOf(t) = g[n] BY LengthOfUnrolled
<1>3. \A k \in 0 .. n : f[k] \in Nat /\ g[k] \in Nat BY <1>1, <1>2 DEF Counts
<1> DEFINE Bad == {k \in 0 .. n : ~ (f[k] <= g[k])}
<1>4. ASSUME Bad # {} PROVE FALSE
  <2>1. Bad \subseteq Nat OBVIOUS
  <2>2. PICK k \in Bad : \A j \in Bad : k <= j BY <1>4, <2>1, SmallestOfNaturals
  <2>3. k # 0 BY <1>1, <1>2, <2>2 DEF Counts
  <2>4. k \in 1 .. n /\ k - 1 \in 0 .. n /\ k - 1 < k BY <2>2, <2>3
  <2>5. f[k - 1] <= g[k - 1] BY <2>2, <2>4
  <2>6. f[k] = f[k - 1] + Len(s[k]) /\ g[k] = g[k - 1] + Len(t[k])
    BY <1>1, <1>2, <2>4 DEF Counts
  <2>7. f[k] <= g[k] BY <1>3, <2>4, <2>5, <2>6
  <2> QED BY <2>2, <2>7
<1>5. n \in 0 .. n OBVIOUS
<1> QED BY <1>1, <1>2, <1>3, <1>4, <1>5

(* The concatenation of some parts is as long as they are together.        *)
LEMMA FlattenLength ==
    ASSUME NEW U, NEW s \in Seq(Seq(U))
    PROVE  FlattenSeq(s) \in Seq(U) /\ Len(FlattenSeq(s)) = LengthOf(s)
<1> DEFINE n == Len(s)
<1>1. n \in Nat /\ DOMAIN s = 1 .. n /\ \A i \in 1 .. n : s[i] \in Seq(U) /\ Len(s[i]) \in Nat
  <2>1. ASSUME NEW i \in 1 .. n PROVE s[i] \in Seq(U) BY ElementOfSeq
  <2> QED BY <2>1, LenProperties
<1>2. PICK f : Counts(n, s, f) /\ LengthOf(s) = f[n] BY <1>1, LengthOfUnrolled
<1>3. CASE n = 0
  <2>1. FlattenSeq(s) = s BY <1>3 DEF FlattenSeq
  <2>2. s = <<>> BY <1>3, EmptySeq
  <2>3. LengthOf(s) = 0 BY <1>2, <1>3 DEF Counts
  <2> QED BY <1>3, <2>1, <2>2, <2>3
<1>4. CASE n # 0
  <2> DEFINE D == 1 .. n
             V == Seq(U)
             stop == {1}
             pred == [d \in D |-> d - 1]
             next == [x \in D \X V |-> x[2] \o s[x[1]]]
             rank == [d \in D |-> d]
             body(g) == [i \in D |-> IF i = 1 THEN s[i] ELSE g[i - 1] \o s[i]]
             flat == CHOOSE g : g = body(g)
  <2>1. ASSUME NEW i \in D \ stop, NEW v \in V
        PROVE  next[<<i, v>>] \in V /\ next[<<i, v>>] = v \o s[i]
    <3>1. v \o s[i] \in V BY <1>1, ConcatProperties
    <3> QED BY <3>1
  <2>2. Recursive(D, V, stop, s, pred, next, rank)
    <3>1. rank \in [D -> Nat] OBVIOUS
    <3>2. \A d \in D \ stop : pred[d] \in D /\ rank[pred[d]] < rank[d] OBVIOUS
    <3>3. \A d \in D \cap stop : s[d] \in V BY <1>1
    <3> HIDE DEF D, V, stop, pred, next, rank
    <3> QED BY <2>1, <3>1, <3>2, <3>3 DEF Recursive
  <2>3. PICK g \in [D -> V] : g = [d \in D |-> Unrolled(stop, s, pred, next, g, d)]
    <3> HIDE DEF D, V, stop, pred, next, rank
    <3> QED BY <2>2, RecursionExists
  <2>4. g = body(g)
    <3>1. ASSUME NEW d \in D
          PROVE  Unrolled(stop, s, pred, next, g, d) = IF d = 1 THEN s[d] ELSE g[d - 1] \o s[d]
      <4>1. CASE d = 1 BY <4>1 DEF Unrolled
      <4>2. CASE d # 1
        <5>1. d \in D \ stop /\ d - 1 \in D /\ pred[d] = d - 1 BY <4>2
        <5>2. g[d - 1] \in V BY <2>3, <5>1
        <5>3. next[<<d, g[d - 1]>>] = g[d - 1] \o s[d] BY <2>1, <5>1, <5>2
        <5> HIDE DEF pred, next, D, V
        <5> QED BY <4>2, <5>1, <5>3 DEF Unrolled
      <4> QED BY <4>1, <4>2
    <3> HIDE DEF stop, pred, next
    <3> QED BY <2>3, <3>1
  <2>5. flat = body(flat)
    <3> HIDE DEF body
    <3> QED BY <2>4
  <2>6. FlattenSeq(s) = flat[n] BY <1>4 DEF FlattenSeq
  <2> HIDE DEF flat
  <2>7. \A i \in D : flat[i] = IF i = 1 THEN s[i] ELSE flat[i - 1] \o s[i]
    <3> TAKE i \in D
    <3>1. body(flat)[i] = IF i = 1 THEN s[i] ELSE flat[i - 1] \o s[i] OBVIOUS
    <3> HIDE DEF body, D
    <3> QED BY <2>5, <3>1
  <2> DEFINE Bad == {i \in D : ~ (flat[i] \in Seq(U) /\ Len(flat[i]) = f[i])}
  <2>8. ASSUME Bad # {} PROVE FALSE
    <3>1. Bad \subseteq Nat OBVIOUS
    <3>2. PICK k \in Bad : \A j \in Bad : k <= j BY <2>8, <3>1, SmallestOfNaturals
    <3>3. f[0] = 0 /\ f[k] = f[k - 1] + Len(s[k]) BY <1>2, <3>2 DEF Counts
    <3>4. CASE k = 1
      <4>1. flat[k] = s[k] /\ s[k] \in Seq(U) /\ Len(s[k]) \in Nat BY <1>1, <2>7, <3>2, <3>4
      <4>2. f[k] = Len(s[k])
        <5>1. f[k - 1] = 0 BY <3>3, <3>4
        <5> QED BY <3>3, <4>1, <5>1
      <4> QED BY <3>2, <4>1, <4>2
    <3>5. CASE k # 1
      <4>1. k - 1 \in D /\ k - 1 < k BY <3>2, <3>5
      <4>2. flat[k - 1] \in Seq(U) /\ Len(flat[k - 1]) = f[k - 1] BY <3>2, <4>1
      <4>3. s[k] \in Seq(U) BY <1>1, <3>2
      <4>4. flat[k] = flat[k - 1] \o s[k] BY <2>7, <3>2, <3>5
      <4>5. ASSUME NEW a \in Seq(U), NEW b \in Seq(U)
            PROVE  a \o b \in Seq(U) /\ Len(a \o b) = Len(a) + Len(b)
        BY ConcatProperties
      <4>6. flat[k] \in Seq(U) /\ Len(flat[k]) = Len(flat[k - 1]) + Len(s[k])
        BY <4>2, <4>3, <4>4, <4>5
      <4> QED BY <3>2, <3>3, <4>2, <4>6
    <3> QED BY <3>4, <3>5
  <2>9. n \in D BY <1>1, <1>4
  <2> QED BY <1>2, <2>6, <2>8, <2>9
<1> QED BY <1>3, <1>4

-----------------------------------------------------------------------------
(* The encoder: a message with a shorter parameter can be encoded if the   *)
(* message with the longer one can, and is no longer.                      *)

Shorter(s, t) ==
    /\ Len(s) = Len(t)
    /\ \A i \in 1 .. Len(t) : Len(s[i]) <= Len(t[i])

(* s and t are the same after the first m.                                 *)
SameAfter(m, s, t) == \A i \in 1 .. Len(t) : i > m => s[i] = t[i]

(* What the sequences of a part list are, in the terms of the lemmas above. *)
LEMMA PartsAre ==
    ASSUME NEW U, NEW s \in Seq(Seq(U))
    PROVE  /\ Len(s) \in Nat /\ DOMAIN s = 1 .. Len(s)
           /\ \A i \in 1 .. Len(s) : s[i] \in Seq(U) /\ Len(s[i]) \in Nat
<1>1. ASSUME NEW i \in 1 .. Len(s) PROVE s[i] \in Seq(U) /\ Len(s[i]) \in Nat
  <2>1. s[i] \in Seq(U) BY ElementOfSeq
  <2> QED BY <2>1, LenProperties
<1> QED BY <1>1, LenProperties

LEMMA ShorterWith ==
    ASSUME NEW U, NEW s \in Seq(Seq(U)), NEW t \in Seq(Seq(U)), NEW o \in Seq(Seq(U)),
           Shorter(s, t)
    PROVE  /\ s \o o \in Seq(Seq(U)) /\ t \o o \in Seq(Seq(U)) /\ Shorter(s \o o, t \o o)
           /\ SameAfter(Len(t), s \o o, t \o o)
<1>1. /\ Len(s) \in Nat /\ Len(t) \in Nat /\ Len(o) \in Nat /\ Len(s) = Len(t)
      /\ \A i \in 1 .. Len(t) : Len(s[i]) <= Len(t[i])
  BY LenProperties DEF Shorter
<1>2. /\ s \o o \in Seq(Seq(U)) /\ Len(s \o o) = Len(s) + Len(o)
      /\ \A i \in 1 .. Len(s) + Len(o) :
           (s \o o)[i] = IF i <= Len(s) THEN s[i] ELSE o[i - Len(s)]
  BY ConcatProperties
<1>3. /\ t \o o \in Seq(Seq(U)) /\ Len(t \o o) = Len(t) + Len(o)
      /\ \A i \in 1 .. Len(t) + Len(o) :
           (t \o o)[i] = IF i <= Len(t) THEN t[i] ELSE o[i - Len(t)]
  BY ConcatProperties
<1>4. ASSUME NEW i \in 1 .. Len(t \o o)
      PROVE  /\ Len((s \o o)[i]) <= Len((t \o o)[i])
             /\ i > Len(t) => (s \o o)[i] = (t \o o)[i]
  <2>1. CASE i <= Len(t)
    <3>1. i \in 1 .. Len(t) BY <1>3, <2>1
    <3>2. (s \o o)[i] = s[i] /\ (t \o o)[i] = t[i] BY <1>1, <1>2, <1>3, <2>1
    <3> QED BY <1>1, <2>1, <3>1, <3>2
  <2>2. CASE i > Len(t)
    <3>1. (s \o o)[i] = (t \o o)[i] BY <1>1, <1>2, <1>3, <2>2
    <3>2. Len((t \o o)[i]) \in Nat BY <1>3, PartsAre
    <3> QED BY <3>1, <3>2
  <2> QED BY <1>1, <1>3, <2>1, <2>2
<1>5. Shorter(s \o o, t \o o) BY <1>1, <1>2, <1>3, <1>4 DEF Shorter
<1>6. SameAfter(Len(t), s \o o, t \o o) BY <1>4 DEF SameAfter
<1> QED BY <1>2, <1>3, <1>5, <1>6

LEMMA LengthOfShorter ==
    ASSUME NEW U, NEW s \in Seq(Seq(U)), NEW t \in Seq(Seq(U)), Shorter(s, t)
    PROVE  LengthOf(s) \in Nat /\ LengthOf(t) \in Nat /\ LengthOf(s) <= LengthOf(t)
BY PartsAre, LengthOfMonotone DEF Shorter

(* So are their first parts.                                               *)
LEMMA ShorterFirst ==
    ASSUME NEW U, NEW s \in Seq(Seq(U)), NEW t \in Seq(Seq(U)), Shorter(s, t),
           NEW k \in 0 .. Len(t)
    PROVE  /\ SubSeq(s, 1, k) \in Seq(Seq(U)) /\ SubSeq(t, 1, k) \in Seq(Seq(U))
           /\ Shorter(SubSeq(s, 1, k), SubSeq(t, 1, k))
<1>1. Len(s) = Len(t) /\ Len(t) \in Nat /\ k \in Int BY LenProperties DEF Shorter
<1>2. \A i \in 1 .. k : s[i] \in Seq(U) /\ t[i] \in Seq(U) BY <1>1, PartsAre
<1>3. /\ SubSeq(s, 1, k) \in Seq(Seq(U))
      /\ Len(SubSeq(s, 1, k)) = IF 1 <= k THEN k - 1 + 1 ELSE 0
      /\ \A i \in 1 .. k - 1 + 1 : SubSeq(s, 1, k)[i] = s[1 + i - 1]
  BY <1>1, <1>2, SubSeqProperties
<1>4. /\ SubSeq(t, 1, k) \in Seq(Seq(U))
      /\ Len(SubSeq(t, 1, k)) = IF 1 <= k THEN k - 1 + 1 ELSE 0
      /\ \A i \in 1 .. k - 1 + 1 : SubSeq(t, 1, k)[i] = t[1 + i - 1]
  BY <1>1, <1>2, SubSeqProperties
<1>5. Len(SubSeq(s, 1, k)) = k /\ Len(SubSeq(t, 1, k)) = k BY <1>3, <1>4
<1>6. \A i \in 1 .. k : SubSeq(s, 1, k)[i] = s[i] /\ SubSeq(t, 1, k)[i] = t[i]
  BY <1>3, <1>4
<1>7. \A i \in 1 .. k : Len(s[i]) <= Len(t[i]) BY <1>1 DEF Shorter
<1>8. Shorter(SubSeq(s, 1, k), SubSeq(t, 1, k)) BY <1>5, <1>6, <1>7 DEF Shorter
<1> QED BY <1>3, <1>4, <1>8

LEMMA PointersShorter ==
    ASSUME NEW U, NEW s \in Seq(Seq(U)), NEW t \in Seq(Seq(U)), Shorter(s, t),
           NEW m \in Nat, SameAfter(m, s, t),
           NEW ptrAt \in Nat, NEW size \in {1, 2}
    PROVE  \A i \in 1 .. Len(t) :
              /\ PointersTo(s, m, ptrAt, size)[i] \in Int
              /\ PointersTo(t, m, ptrAt, size)[i] \in Int
              /\ PointersTo(s, m, ptrAt, size)[i] <= PointersTo(t, m, ptrAt, size)[i]
<1>1. TAKE i \in 1 .. Len(t)
<1>2. Len(s) = Len(t) /\ Len(t) \in Nat BY LenProperties DEF Shorter
<1> DEFINE ls == LengthOf(SubSeq(s, 1, i - 1))
           lt == LengthOf(SubSeq(t, 1, i - 1))
<1>3. ls \in Nat /\ lt \in Nat /\ ls <= lt
  <2>1. i - 1 \in 0 .. Len(t) BY <1>2
  <2> QED BY <2>1, ShorterFirst, LengthOfShorter
<1>4. /\ PointersTo(s, m, ptrAt, size)[i] =
           IF i > m /\ s[i] = <<>> THEN 0
           ELSE Point(ptrAt, i, size, ptrAt + Len(s) * size + ls)
      /\ PointersTo(t, m, ptrAt, size)[i] =
           IF i > m /\ t[i] = <<>> THEN 0
           ELSE Point(ptrAt, i, size, ptrAt + Len(t) * size + lt)
  <2> HIDE DEF Point
  <2> QED BY <1>2 DEF PointersTo
<1> HIDE DEF ls, lt
<1>5. Len(t) * size \in Nat /\ (i - 1) * size \in Nat BY <1>2
<1> DEFINE ps == Point(ptrAt, i, size, ptrAt + Len(s) * size + ls)
           pt == Point(ptrAt, i, size, ptrAt + Len(t) * size + lt)
<1>6. ps \in Int /\ pt \in Int /\ ps <= pt BY <1>2, <1>3, <1>5 DEF Point
<1> HIDE DEF ps, pt
<1>7. CASE i > m /\ t[i] = <<>>
  <2>1. s[i] = <<>> BY <1>7 DEF SameAfter
  <2> QED BY <1>4, <1>7, <2>1
<1>8. CASE ~ (i > m /\ t[i] = <<>>)
  <2>1. ~ (i > m /\ s[i] = <<>>) BY <1>8 DEF SameAfter
  <2> QED BY <1>4, <1>6, <1>8, <2>1 DEF ps, pt
<1> QED BY <1>7, <1>8

(* The octets of the pointers.                                             *)
PointerOctets(pointers, size) == [i \in DOMAIN pointers |-> LittleEndian(pointers[i], size)]

(* n parts of `size` octets.                                               *)
Parts(p, n, size, U) ==
    /\ p \in Seq(Seq(U))
    /\ Len(p) = n
    /\ \A i \in 1 .. n : Len(p[i]) = size

LEMMA PointersAreOctets ==
    ASSUME NEW n \in Nat, NEW pointers \in [1 .. n -> Int],
           NEW size \in {1, 2}, NEW U, Octet \subseteq U
    PROVE  Parts(PointerOctets(pointers, size), n, size, U)
<1> DEFINE p == PointerOctets(pointers, size)
<1>1. ASSUME NEW i \in 1 .. n
      PROVE  LittleEndian(pointers[i], size) \in Seq(U) /\ Len(LittleEndian(pointers[i], size)) = size
  <2>1. ASSUME NEW v \in Int PROVE v % 256 \in U /\ (v \div 256) % 256 \in U
    <3>1. v % 256 \in 0 .. 255 /\ (v \div 256) % 256 \in 0 .. 255 OBVIOUS
    <3> QED BY <3>1 DEF Octet
  <2>4. pointers[i] % 256 \in U /\ (pointers[i] \div 256) % 256 \in U BY <2>1
  <2>2. CASE size = 1 BY <2>4, <2>2 DEF LittleEndian
  <2>3. CASE size = 2 BY <2>4, <2>3 DEF LittleEndian
  <2> QED BY <2>2, <2>3
<1>2. p = [i \in 1 .. n |-> LittleEndian(pointers[i], size)] BY DEF PointerOctets
<1>3. p \in [1 .. n -> Seq(U)] BY <1>1, <1>2
<1>4. p \in Seq(Seq(U)) BY <1>3, SeqDef
<1>5. Len(p) = n BY <1>2
<1>6. \A i \in 1 .. n : Len(p[i]) = size BY <1>1, <1>2
<1> QED BY <1>4, <1>5, <1>6 DEF Parts

(* A message that is written is a sequence of octets and as long as its    *)
(* parts.                                                                  *)
Joined(code, f, pointers, params) ==
    <<code>> \o f \o FlattenSeq(pointers) \o FlattenSeq(params)

LEMMA ConcatLength ==
    ASSUME NEW U, NEW a \in Seq(U), NEW b \in Seq(U)
    PROVE  a \o b \in Seq(U) /\ Len(a \o b) = Len(a) + Len(b)
BY ConcatProperties

LEMMA JoinedLength ==
    ASSUME NEW U, NEW code \in U, NEW f \in Seq(U),
           NEW pointers \in Seq(Seq(U)), NEW params \in Seq(Seq(U))
    PROVE  /\ Joined(code, f, pointers, params) \in Seq(U)
           /\ Len(Joined(code, f, pointers, params)) =
                1 + Len(f) + LengthOf(pointers) + LengthOf(params)
<1> DEFINE p == FlattenSeq(pointers)
           q == FlattenSeq(params)
           c == <<code>>
<1>1. c \in Seq(U) /\ Len(c) = 1 OBVIOUS
<1>2. p \in Seq(U) /\ Len(p) = LengthOf(pointers) BY FlattenLength
<1>3. q \in Seq(U) /\ Len(q) = LengthOf(params) BY FlattenLength
<1>4. Joined(code, f, pointers, params) = c \o f \o p \o q BY DEF Joined
<1> HIDE DEF p, q, c
<1>5. c \o f \in Seq(U) /\ Len(c \o f) = 1 + Len(f) BY <1>1, ConcatLength
<1> DEFINE cf == c \o f
           cfp == cf \o p
<1> HIDE DEF cf, cfp
<1>6. cfp \in Seq(U) /\ Len(cfp) = 1 + Len(f) + LengthOf(pointers)
  <2>1. cf \in Seq(U) /\ Len(cf) = 1 + Len(f) BY <1>5 DEF cf
  <2>2. cf \o p \in Seq(U) /\ Len(cf \o p) = Len(cf) + Len(p)
    BY <1>2, <2>1, ConcatLength
  <2> QED BY <1>2, <2>1, <2>2 DEF cfp
<1>7. /\ cfp \o q \in Seq(U)
      /\ Len(cfp \o q) = 1 + Len(f) + LengthOf(pointers) + LengthOf(params)
  <2>1. cfp \o q \in Seq(U) /\ Len(cfp \o q) = Len(cfp) + Len(q)
    BY <1>3, <1>6, ConcatLength
  <2> QED BY <1>3, <1>6, <2>1
<1> QED BY <1>4, <1>7 DEF cf, cfp

LEMMA JoinedOctets ==
    ASSUME NEW U, NEW code \in U
    PROVE  \A f \in Seq(U) : \A p, q \in Seq(Seq(U)) :
              /\ Joined(code, f, p, q) \in Seq(U)
              /\ Len(Joined(code, f, p, q)) = 1 + Len(f) + LengthOf(p) + LengthOf(q)
BY JoinedLength

LEMMA ReachesLess ==
    ASSUME NEW v \in Int, NEW w \in Int, v <= w, NEW size \in {1, 2}, Reaches(w, size)
    PROVE  Reaches(v, size)
<1>1. 256 ^ size \in Int OBVIOUS
<1> QED BY <1>1 DEF Reaches

LEMMA WrittenShorter ==
    ASSUME NEW U, Octet \subseteq U, NEW code \in U, NEW size \in {1, 2},
           NEW f \in Seq(U), NEW g \in Seq(U), Len(g) = Len(f),
           NEW s \in Seq(Seq(U)), NEW t \in Seq(Seq(U)), NEW o \in Seq(Seq(U)),
           Shorter(s, t), NEW b \in Written(code, f, size, t, o)
    PROVE  /\ b \in Seq(U)
           /\ \E a \in Written(code, g, size, s, o) : a \in Seq(U) /\ Len(a) <= Len(b)
<1> DEFINE so == s \o o
           to == t \o o
           n == Len(to)
           m == Len(t)
           ptrAt == 1 + Len(f)
           ps == PointersTo(so, m, ptrAt, size)
           pt == PointersTo(to, m, ptrAt, size)
<1>1. /\ so \in Seq(Seq(U)) /\ to \in Seq(Seq(U)) /\ Shorter(so, to)
      /\ SameAfter(m, so, to)
  BY ShorterWith
<1>2. Len(s) = m /\ m \in Nat /\ Len(so) = n /\ n \in Nat /\ ptrAt \in Nat /\ Len(f) \in Nat
  BY <1>1, LenProperties DEF Shorter
<1>3. DOMAIN ps = 1 .. n /\ DOMAIN pt = 1 .. n BY <1>2 DEF PointersTo
<1>4. Written(code, f, size, t, o) =
        When(\A i \in 1 .. n : Reaches(pt[i], size),
             Joined(code, f, PointerOctets(pt, size), to))
  <2>1. PointerOctets(pt, size) = [i \in 1 .. n |-> LittleEndian(pt[i], size)]
    BY <1>3 DEF PointerOctets
  <2> HIDE DEF PointerOctets
  <2> QED BY <2>1 DEF Written, Joined
<1>5. Written(code, g, size, s, o) =
        When(\A i \in 1 .. n : Reaches(ps[i], size),
             Joined(code, g, PointerOctets(ps, size), so))
  <2>1. PointerOctets(ps, size) = [i \in 1 .. n |-> LittleEndian(ps[i], size)]
    BY <1>3 DEF PointerOctets
  <2>2. Written(code, g, size, s, o) =
          When(\A i \in 1 .. Len(so) : Reaches(ps[i], size),
               <<code>> \o g \o FlattenSeq([i \in 1 .. Len(so) |-> LittleEndian(ps[i], size)])
               \o FlattenSeq(so))
    BY <1>2 DEF Written
  <2> QED BY <1>2, <2>1, <2>2 DEF Joined
<1>6. \A i \in 1 .. n : ps[i] \in Int /\ pt[i] \in Int /\ ps[i] <= pt[i]
  <2> HIDE DEF so, to
  <2> QED BY <1>1, <1>2, PointersShorter
<1> HIDE DEF ps, pt
<1>7. /\ \A i \in 1 .. n : Reaches(pt[i], size)
      /\ b = Joined(code, f, PointerOctets(pt, size), to)
  BY <1>4 DEF When
<1>8. \A i \in 1 .. n : Reaches(ps[i], size)
  <2> TAKE i \in 1 .. n
  <2>1. ps[i] \in Int /\ pt[i] \in Int /\ ps[i] <= pt[i] BY <1>6
  <2>2. Reaches(pt[i], size) BY <1>7
  <2> QED BY <2>1, <2>2, ReachesLess
<1> DEFINE os == PointerOctets(ps, size)
           ot == PointerOctets(pt, size)
           a == Joined(code, g, os, so)
           c == Joined(code, f, ot, to)
<1> HIDE DEF a, c
<1>9. /\ os \in Seq(Seq(U)) /\ ot \in Seq(Seq(U)) /\ Len(os) = n /\ Len(ot) = n
      /\ \A i \in 1 .. n : Len(os[i]) = size /\ Len(ot[i]) = size
  <2>1. ps = [i \in 1 .. n |-> ps[i]] /\ pt = [i \in 1 .. n |-> pt[i]]
    BY <1>3 DEF ps, pt, PointersTo
  <2>2. ps \in [1 .. n -> Int] /\ pt \in [1 .. n -> Int] BY <1>6, <2>1
  <2> HIDE DEF so, to
  <2>3. n \in Nat BY <1>2
  <2> HIDE DEF n
  <2>4. ASSUME NEW p \in [1 .. n -> Int]
        PROVE  Parts(PointerOctets(p, size), n, size, U)
    BY <2>3, PointersAreOctets
  <2> QED BY <2>2, <2>4 DEF Parts
<1>10. a \in Written(code, g, size, s, o) BY <1>5, <1>8 DEF When, a
<1> HIDE DEF os, ot, so, to
<1>11. Shorter(os, ot) BY <1>9 DEF Shorter
<1>12. /\ LengthOf(os) \in Nat /\ LengthOf(ot) \in Nat /\ LengthOf(os) <= LengthOf(ot)
       /\ LengthOf(so) \in Nat /\ LengthOf(to) \in Nat /\ LengthOf(so) <= LengthOf(to)
  BY <1>1, <1>9, <1>11, LengthOfShorter
<1>13. a \in Seq(U) /\ Len(a) = 1 + Len(f) + LengthOf(os) + LengthOf(so)
  <2>1. a \in Seq(U) /\ Len(a) = 1 + Len(g) + LengthOf(os) + LengthOf(so)
    <3>1. os \in Seq(Seq(U)) /\ so \in Seq(Seq(U)) BY <1>1, <1>9
    <3>2. \A h \in Seq(U) : \A p, q \in Seq(Seq(U)) :
             /\ Joined(code, h, p, q) \in Seq(U)
             /\ Len(Joined(code, h, p, q)) = 1 + Len(h) + LengthOf(p) + LengthOf(q)
      BY JoinedOctets
    <3>3. /\ Joined(code, g, os, so) \in Seq(U)
          /\ Len(Joined(code, g, os, so)) = 1 + Len(g) + LengthOf(os) + LengthOf(so)
      BY <3>1, <3>2, Zenon
    <3> QED BY <3>3 DEF a
  <2> QED BY <2>1
<1>14. b \in Seq(U) /\ Len(b) = 1 + Len(f) + LengthOf(ot) + LengthOf(to)
  <2>1. c \in Seq(U) /\ Len(c) = 1 + Len(f) + LengthOf(ot) + LengthOf(to)
    BY <1>1, <1>9, JoinedLength DEF c
  <2> QED BY <1>7, <2>1 DEF c, ot, to
<1>15. Len(a) <= Len(b) BY <1>2, <1>12, <1>13, <1>14
<1> QED BY <1>10, <1>13, <1>14, <1>15

(* The mandatory variable parameters are the addresses and the data.       *)
LEMMA TuplesOfThree ==
    ASSUME NEW U, NEW A, NEW B, NEW C, A \subseteq U, B \subseteq U, C \subseteq U, NEW t
    PROVE  t \in Tuples(<<A, B, C>>) <=>
             t \in Seq(U) /\ Len(t) = 3 /\ t[1] \in A /\ t[2] \in B /\ t[3] \in C
<1> DEFINE parts == <<A, B, C>>
<1>1. DOMAIN parts = 1 .. 3 /\ parts[1] = A /\ parts[2] = B /\ parts[3] = C OBVIOUS
<1>2. ASSUME NEW i \in 1 .. 3 PROVE i = 1 \/ i = 2 \/ i = 3 OBVIOUS
<1> HIDE DEF parts
<1>3. \A i \in 1 .. 3 : parts[i] \subseteq U BY <1>1, <1>2
<1>4. Tuples(parts) = {u \in Seq(U) : Len(u) = 3 /\ \A i \in 1 .. 3 : u[i] \in parts[i]}
  BY <1>1, <1>3, TuplesAre
<1>5. t \in Tuples(parts) <=> t \in Seq(U) /\ Len(t) = 3 /\ \A i \in 1 .. 3 : t[i] \in parts[i]
  BY <1>4
<1>6. (\A i \in 1 .. 3 : t[i] \in parts[i]) <=> t[1] \in A /\ t[2] \in B /\ t[3] \in C
  BY <1>1, <1>2
<1> QED BY <1>5, <1>6 DEF parts

LEMMA WrittenIn ==
    ASSUME NEW code, NEW size, NEW fixed, NEW variables, NEW optional,
           NEW b \in Layout(code, fixed, size, variables, optional)
    PROVE  \E f \in Concat(fixed), t \in Tuples(variables), o \in Tuples(optional) :
              b \in Written(code, f, size, t, o)
<1> DEFINE all == {Written(code, f, size, t, o) :
                     f \in Concat(fixed), t \in Tuples(variables), o \in Tuples(optional)}
<1>1. b \in UNION all BY DEF Layout
<1> HIDE DEF all
<1>2. PICK w \in all : b \in w BY <1>1
<1>3. PICK f \in Concat(fixed), t \in Tuples(variables), o \in Tuples(optional) :
        w = Written(code, f, size, t, o)
  BY <1>2 DEF all
<1> QED BY <1>2, <1>3

(* Every sequence of F has one of its length in G.                         *)
Alike(F, G, U) == \A f \in F : f \in Seq(U) /\ \E g \in G : g \in Seq(U) /\ Len(g) = Len(f)

(* A message of a fixed part, two addresses A and B, data and an optional  *)
(* part: with x for y it can still be encoded, and no longer.              *)
LEMMA LayoutShorter ==
    ASSUME NEW U, Octet \subseteq U, NEW code \in U, NEW size \in {1, 2},
           NEW fixed, NEW other, Alike(Concat(fixed), Concat(other), U),
           NEW A, A \subseteq Seq(U), NEW B, B \subseteq Seq(U),
           NEW x \in Seq(U), NEW y \in Seq(U), Len(x) <= Len(y),
           NEW optional, Tuples(optional) \subseteq Seq(Seq(U)),
           NEW b \in Layout(code, fixed, size, <<A, B, {y}>>, optional)
    PROVE  /\ b \in Seq(U)
           /\ \E a \in Layout(code, other, size, <<A, B, {x}>>, optional) :
                a \in Seq(U) /\ Len(a) <= Len(b)
<1>1. PICK f \in Concat(fixed), t \in Tuples(<<A, B, {y}>>), o \in Tuples(optional) :
        b \in Written(code, f, size, t, o)
  BY WrittenIn
<1>2. t \in Seq(Seq(U)) /\ Len(t) = 3 /\ t[1] \in A /\ t[2] \in B /\ t[3] = y
  <2> DEFINE C == {y}
             W == Seq(U)
  <2>1. A \subseteq W /\ B \subseteq W /\ C \subseteq W OBVIOUS
  <2>3. t \in Tuples(<<A, B, C>>) BY <1>1
  <2> HIDE DEF C, W
  <2>4. t \in Seq(W) /\ Len(t) = 3 /\ t[1] \in A /\ t[2] \in B /\ t[3] \in C
    BY <2>1, <2>3, TuplesOfThree
  <2>2. t[3] \in {y} /\ t \in Seq(Seq(U)) /\ Len(t) = 3 /\ t[1] \in A /\ t[2] \in B
    BY <2>4 DEF C, W
  <2> QED BY <2>2
<1> DEFINE s == <<t[1], t[2], x>>
<1>3. /\ s \in Seq(Seq(U)) /\ Len(s) = 3
      /\ s[1] = t[1] /\ s[2] = t[2] /\ s[3] = x
  <2>1. t[1] \in Seq(U) /\ t[2] \in Seq(U) BY <1>2
  <2> QED BY <2>1
<1> HIDE DEF s
<1>4. s \in Tuples(<<A, B, {x}>>)
  <2>1. {x} \subseteq Seq(U) /\ s[3] \in {x} BY <1>3
  <2> QED BY <1>2, <1>3, <2>1, TuplesOfThree
<1>5. Shorter(s, t)
  <2>1. ASSUME NEW i \in 1 .. 3 PROVE Len(s[i]) <= Len(t[i])
    <3>1. i = 1 \/ i = 2 \/ i = 3 OBVIOUS
    <3>2. Len(t[1]) \in Nat /\ Len(t[2]) \in Nat
      <4>1. t[1] \in Seq(U) /\ t[2] \in Seq(U) BY <1>2
      <4> QED BY <4>1, LenProperties
    <3> QED BY <1>2, <1>3, <3>1, <3>2
  <2> QED BY <1>2, <1>3, <2>1 DEF Shorter
<1>6. o \in Seq(Seq(U)) BY <1>1
<1>7. PICK g \in Concat(other) : f \in Seq(U) /\ g \in Seq(U) /\ Len(g) = Len(f)
  BY <1>1 DEF Alike
<1>8. /\ b \in Seq(U)
      /\ \E a \in Written(code, g, size, s, o) : a \in Seq(U) /\ Len(a) <= Len(b)
  BY <1>1, <1>2, <1>3, <1>5, <1>6, <1>7, WrittenShorter
<1>9. Written(code, g, size, s, o) \subseteq Layout(code, other, size, <<A, B, {x}>>, optional)
  BY <1>1, <1>4, <1>7 DEF Layout
<1> QED BY <1>8, <1>9

LEMMA NoLayout ==
    ASSUME NEW code, NEW size, NEW fixed, NEW A, NEW B, NEW optional
    PROVE  Layout(code, fixed, size, <<A, B, {}>>, optional) = {}
<1> DEFINE U == A \cup B
<1>1. A \subseteq U /\ B \subseteq U /\ {} \subseteq U OBVIOUS
<1> HIDE DEF U
<1>2. ASSUME NEW t \in Tuples(<<A, B, {}>>) PROVE FALSE
  <2>1. t[3] \in {} BY <1>1, TuplesOfThree
  <2> QED BY <2>1
<1>3. ASSUME NEW b \in Layout(code, fixed, size, <<A, B, {}>>, optional) PROVE FALSE
  <2>1. PICK f \in Concat(fixed), t \in Tuples(<<A, B, {}>>), o \in Tuples(optional) :
          b \in Written(code, f, size, t, o)
    BY WrittenIn
  <2> QED BY <1>2
<1> QED BY <1>3

-----------------------------------------------------------------------------
(* What the encoders of the parameters return is a sequence: the lemmas on *)
(* the layout need no more of their octets.                                *)

IsSequence(s) == \E U : s \in Seq(U)

Sequences(S) == \A s \in S : IsSequence(s)

LEMMA CommonSet ==
    ASSUME NEW S, Sequences(S)
    PROVE  \E U : Octet \subseteq U /\ S \subseteq Seq(U)
<1> DEFINE values(s) == {s[i] : i \in 1 .. Len(s)}
           U == Octet \cup UNION {values(s) : s \in S}
<1>1. ASSUME NEW s \in S PROVE s \in Seq(U)
  <2>1. PICK V : s \in Seq(V) BY DEF Sequences, IsSequence
  <2>2. Len(s) \in Nat /\ s = [i \in 1 .. Len(s) |-> s[i]]
    BY <2>1, LenProperties
  <2>3. \A i \in 1 .. Len(s) : s[i] \in U OBVIOUS
  <2> HIDE DEF U
  <2>4. s \in [1 .. Len(s) -> U] BY <2>2, <2>3
  <2> QED BY <2>2, <2>4
<1>2. Octet \subseteq U OBVIOUS
<1> HIDE DEF U
<1> QED BY <1>1, <1>2

LEMMA ShortSequences ==
    /\ IsSequence(<<>>)
    /\ \A x : IsSequence(<<x>>)
    /\ \A x, y : IsSequence(<<x, y>>)
    /\ \A x, y, z : IsSequence(<<x, y, z>>)
<1>1. <<>> \in Seq({}) OBVIOUS
<1>2. ASSUME NEW x PROVE <<x>> \in Seq({x}) OBVIOUS
<1>3. ASSUME NEW x, NEW y PROVE <<x, y>> \in Seq({x, y}) OBVIOUS
<1>4. ASSUME NEW x, NEW y, NEW z PROVE <<x, y, z>> \in Seq({x, y, z}) OBVIOUS
<1> QED BY <1>1, <1>2, <1>3, <1>4 DEF IsSequence

LEMMA JoinedSequences ==
    ASSUME NEW a, NEW b, IsSequence(a), IsSequence(b)
    PROVE  IsSequence(a \o b)
<1>1. PICK V : a \in Seq(V) BY DEF IsSequence
<1>2. PICK W : b \in Seq(W) BY DEF IsSequence
<1> DEFINE U == V \cup W
<1>3. Seq(V) \subseteq Seq(U) /\ Seq(W) \subseteq Seq(U) OBVIOUS
<1> HIDE DEF U
<1>4. a \o b \in Seq(U) BY <1>1, <1>2, <1>3, ConcatProperties
<1> QED BY <1>4 DEF IsSequence

LEMMA TheIs == ASSUME NEW option, NEW default PROVE The(option, default) \in option \cup {default}
BY DEF The

(* The addresses of a decoded message: their titles hold octets.           *)
AddressRead(a) == \A g \in a.globalTitle : IsSequence(g.information)

LEMMA TitleIsSequence ==
    ASSUME NEW g, IsSequence(g.information)
    PROVE  IsSequence(AppendTitle(g))
<1> DEFINE one(x) == <<x>> \o g.information
           two(x, y) == <<x, y>> \o g.information
           three(x, y, z) == <<x, y, z>> \o g.information
<1>1. \A x : IsSequence(one(x)) BY ShortSequences, JoinedSequences
<1>2. \A x, y : IsSequence(two(x, y)) BY ShortSequences, JoinedSequences
<1>3. \A x, y, z : IsSequence(three(x, y, z)) BY ShortSequences, JoinedSequences
<1> DEFINE i == g.indicator
           none == g.information
<1> HIDE DEF one, two, three, i, none
<1>4. AppendTitle(g) =
          CASE i = 1 -> one(g.nature + Flag(g.oddDigits, 128))
            [] i = 2 -> one(g.translationType)
            [] i = 3 -> two(g.translationType, PlanOctet(g))
            [] i = 4 -> three(g.translationType, PlanOctet(g), g.nature)
            [] OTHER -> none
  BY Zenon DEF AppendTitle, one, two, three, i, none
<1>5. IsSequence(none) BY DEF none
<1>6. CASE i = 1 BY <1>1, <1>4, <1>6
<1>7. CASE i = 2 BY <1>1, <1>4, <1>7
<1>8. CASE i = 3 BY <1>2, <1>4, <1>8
<1>9. CASE i = 4 BY <1>3, <1>4, <1>9
<1>10. CASE i \notin {1, 2, 3, 4} BY <1>4, <1>5, <1>10
<1> QED BY <1>6, <1>7, <1>8, <1>9, <1>10

LEMMA AddressIsSequence ==
    ASSUME NEW a, AddressRead(a)
    PROVE  Sequences(AppendAddress(a))
<1> DEFINE codes == {<<pc % 256, pc \div 256>> : pc \in a.pointCode}
           numbers == {<<ssn>> : ssn \in a.ssn}
           titles == {AppendTitle(g) : g \in a.globalTitle}
           whole == <<AddressIndicator(a)>> \o The(codes, <<>>) \o The(numbers, <<>>)
                    \o The(titles, <<>>)
<1>1. \A s \in codes : IsSequence(s) BY ShortSequences
<1>2. \A s \in numbers : IsSequence(s) BY ShortSequences
<1>3. \A s \in titles : IsSequence(s) BY TitleIsSequence DEF AddressRead
<1>4. AppendAddress(a) \subseteq {whole} BY DEF AppendAddress, When
<1> HIDE DEF codes, numbers, titles
<1>5. /\ IsSequence(The(codes, <<>>)) /\ IsSequence(The(numbers, <<>>))
      /\ IsSequence(The(titles, <<>>))
  BY <1>1, <1>2, <1>3, TheIs, ShortSequences
<1>6. IsSequence(<<AddressIndicator(a)>>) BY ShortSequences
<1>7. IsSequence(whole) BY <1>5, <1>6, JoinedSequences
<1> HIDE DEF whole
<1> QED BY <1>4, <1>7 DEF Sequences

LEMMA LengthenedSequences ==
    ASSUME NEW contents, Sequences(contents)
    PROVE  Sequences(Lengthened(contents))
<1>1. ASSUME NEW c \in contents PROVE IsSequence(<<Len(c) % 256>> \o c)
  BY ShortSequences, JoinedSequences DEF Sequences
<1> QED BY <1>1 DEF Lengthened, Sequences

LEMMA EncodedAddress ==
    ASSUME NEW a, AddressRead(a), NEW indicatorOnlyAllowed
    PROVE  Sequences(Address(a, indicatorOnlyAllowed))
<1>1. Sequences(Lengthened(AppendAddress(a))) BY AddressIsSequence, LengthenedSequences
<1> QED BY <1>1 DEF Address, Sequences

LEMMA SegmentationIsSequence == ASSUME NEW s PROVE Sequences(AppendSegmentation(s))
<1> DEFINE first == <<s.remaining + Flag(s.first, 128) + Flag(s.inSequence, 64)>>
           whole == first \o Uint24(s.reference)
<1>1. IsSequence(first) /\ IsSequence(Uint24(s.reference)) BY ShortSequences DEF Uint24
<1>2. IsSequence(whole) BY <1>1, JoinedSequences
<1>3. AppendSegmentation(s) \subseteq {whole} BY DEF AppendSegmentation, When
<1> HIDE DEF whole
<1> QED BY <1>2, <1>3 DEF Sequences

-----------------------------------------------------------------------------
(* The parts of a service message.                                         *)

(* n sets of sequences over U, and one sequence of each.                   *)
PartsOf(parts, n, U) ==
    /\ n \in Nat
    /\ DOMAIN parts = 1 .. n
    /\ \A i \in 1 .. n : parts[i] \subseteq Seq(U)

OneOfEach(t, parts, n, U) ==
    /\ t \in Seq(Seq(U)) /\ Len(t) = n
    /\ \A i \in 1 .. n : t[i] \in parts[i]

LEMMA PartsOver ==
    ASSUME NEW U, NEW n, NEW parts, PartsOf(parts, n, U)
    PROVE  /\ \A t : t \in Tuples(parts) <=> OneOfEach(t, parts, n, U)
           /\ \A t \in Tuples(parts) :
                FlattenSeq(t) \in Seq(U) /\ Len(FlattenSeq(t)) = LengthOf(t)
<1> DEFINE W == Seq(U)
<1> HIDE DEF W
<1>1. \A i \in 1 .. n : parts[i] \subseteq W BY DEF W, PartsOf
<1>5. n \in Nat /\ DOMAIN parts = 1 .. n BY DEF PartsOf
<1>2. Tuples(parts) = {t \in Seq(W) : Len(t) = n /\ \A i \in 1 .. n : t[i] \in parts[i]}
  BY <1>1, <1>5, TuplesAre
<1>3. Tuples(parts) \subseteq Seq(Seq(U)) BY <1>2 DEF W
<1>4. ASSUME NEW t \in Tuples(parts)
      PROVE  FlattenSeq(t) \in Seq(U) /\ Len(FlattenSeq(t)) = LengthOf(t)
  BY <1>3, FlattenLength
<1> QED BY <1>2, <1>4 DEF W, OneOfEach

LEMMA ConcatSequences ==
    ASSUME NEW n \in Nat, NEW parts, DOMAIN parts = 1 .. n,
           \A i \in 1 .. n : Sequences(parts[i])
    PROVE  Sequences(Concat(parts))
<1> DEFINE S == UNION {parts[i] : i \in 1 .. n}
<1>1. Sequences(S) BY DEF Sequences
<1>2. PICK U : S \subseteq Seq(U) BY <1>1, CommonSet
<1>3. PartsOf(parts, n, U) BY <1>2 DEF PartsOf
<1>4. \A t \in Tuples(parts) : FlattenSeq(t) \in Seq(U) BY <1>3, PartsOver
<1> QED BY <1>4 DEF Concat, Sequences, IsSequence

LEMMA FinishedSequences ==
    ASSUME NEW S, Sequences(S)
    PROVE  Sequences({Finish(o) : o \in S})
<1>1. ASSUME NEW o \in S PROVE IsSequence(Finish(o))
  BY ShortSequences, JoinedSequences DEF Sequences, Finish, EndOfOptional
<1> QED BY <1>1 DEF Sequences

LEMMA NamedSequences ==
    ASSUME NEW name, NEW contents, Sequences(contents)
    PROVE  Sequences({<<name>> \o c : c \in Lengthened(contents)})
<1> DEFINE named(c) == <<name>> \o c
<1>1. Sequences(Lengthened(contents)) BY LengthenedSequences
<1>2. ASSUME NEW c \in Lengthened(contents) PROVE IsSequence(named(c))
  <2>1. IsSequence(c) BY <1>1 DEF Sequences
  <2>2. IsSequence(<<name>>) BY ShortSequences
  <2> QED BY <2>1, <2>2, JoinedSequences
<1> HIDE DEF named
<1>3. Sequences({named(c) : c \in Lengthened(contents)}) BY <1>2 DEF Sequences
<1> QED BY <1>3 DEF named

(* Where P[i] has a part, Q[i] has one of the same length.                 *)
LEMMA AlikeParts ==
    ASSUME NEW U, NEW n \in Nat, NEW P, NEW Q, DOMAIN P = 1 .. n, DOMAIN Q = 1 .. n,
           \A i \in 1 .. n : Alike(P[i], Q[i], U) /\ Q[i] \subseteq Seq(U)
    PROVE  Alike(Concat(P), Concat(Q), U)
<1>1. PartsOf(P, n, U) /\ PartsOf(Q, n, U) BY DEF Alike, PartsOf
<1>2. ASSUME NEW t \in Tuples(P)
      PROVE  /\ FlattenSeq(t) \in Seq(U)
             /\ \E u \in Tuples(Q) : /\ FlattenSeq(u) \in Seq(U)
                                     /\ Len(FlattenSeq(u)) = Len(FlattenSeq(t))
  <2>1. /\ t \in Seq(Seq(U)) /\ Len(t) = n /\ \A i \in 1 .. n : t[i] \in P[i]
        /\ FlattenSeq(t) \in Seq(U) /\ Len(FlattenSeq(t)) = LengthOf(t)
    <3>1. OneOfEach(t, P, n, U) BY <1>1, PartsOver
    <3>2. FlattenSeq(t) \in Seq(U) /\ Len(FlattenSeq(t)) = LengthOf(t) BY <1>1, PartsOver
    <3> QED BY <3>1, <3>2 DEF OneOfEach
  <2> DEFINE u == [i \in 1 .. n |-> CHOOSE y \in Q[i] : y \in Seq(U) /\ Len(y) = Len(t[i])]
  <2>2. \A i \in 1 .. n : u[i] \in Q[i] /\ u[i] \in Seq(U) /\ Len(u[i]) = Len(t[i])
    BY <2>1 DEF Alike
  <2>3. u = [i \in 1 .. n |-> u[i]] OBVIOUS
  <2>4. DOMAIN u = 1 .. n OBVIOUS
  <2> HIDE DEF u
  <2>5. u \in Seq(Seq(U)) /\ Len(u) = n
    <3>1. u \in [1 .. n -> Seq(U)] BY <2>2, <2>3
    <3> QED BY <3>1
  <2>6. u \in Tuples(Q)
    <3>1. OneOfEach(u, Q, n, U) BY <2>2, <2>5 DEF OneOfEach
    <3> QED BY <1>1, <3>1, PartsOver
  <2>7. FlattenSeq(u) \in Seq(U) /\ Len(FlattenSeq(u)) = LengthOf(u)
    BY <1>1, <2>6, PartsOver
  <2>8. \A i \in 1 .. n : Len(t[i]) \in Nat
    <3>1. \A i \in 1 .. n : t[i] \in Seq(U) BY <1>1, <2>1 DEF PartsOf
    <3> QED BY <3>1, LenProperties
  <2>9. DOMAIN t = 1 .. n BY <2>1, LenProperties
  <2>10. LengthOf(u) <= LengthOf(t) /\ LengthOf(t) <= LengthOf(u)
         /\ LengthOf(u) \in Nat /\ LengthOf(t) \in Nat
    <3>1. \A i \in 1 .. n : /\ Len(u[i]) \in Nat /\ Len(t[i]) \in Nat
                            /\ Len(u[i]) <= Len(t[i]) /\ Len(t[i]) <= Len(u[i])
      BY <2>2, <2>8
    <3>2. LengthOf(u) <= LengthOf(t) /\ LengthOf(u) \in Nat /\ LengthOf(t) \in Nat
      BY <3>1, <2>4, <2>9, LengthOfMonotone
    <3>3. LengthOf(t) <= LengthOf(u) BY <3>1, <2>4, <2>9, LengthOfMonotone
    <3> QED BY <3>2, <3>3
  <2> QED BY <2>1, <2>6, <2>7, <2>10
<1> QED BY <1>2 DEF Concat, Alike

LEMMA AlikeSingle ==
    ASSUME NEW U, NEW x \in U, NEW y \in U, NEW S, S \subseteq {<<x>>}, NEW T, T = {<<y>>}
    PROVE  Alike(S, T, U) /\ T \subseteq Seq(U)
<1>1. <<x>> \in Seq(U) /\ <<y>> \in Seq(U) /\ Len(<<x>>) = 1 /\ Len(<<y>>) = 1 OBVIOUS
<1> QED BY <1>1 DEF Alike

LEMMA FixedPartsAlike ==
    ASSUME NEW U, Octet \subseteq U, NEW c \in 0 .. 254, NEW d \in 0 .. 254, NEW h \in 1 .. 15
    PROVE  /\ Alike(Concat(<<Cause(c)>>), Concat(<<Cause(d)>>), U)
           /\ Alike(Concat(<<Cause(c), AppendHopCounter(h)>>),
                    Concat(<<Cause(d), AppendHopCounter(h)>>), U)
<1>1. c \in U /\ d \in U /\ h \in U BY DEF Octet
<1>2. Alike(Cause(c), Cause(d), U) /\ Cause(d) \subseteq Seq(U)
  <2>1. Cause(c) \subseteq {<<c>>} /\ Cause(d) = {<<d>>} BY DEF Cause, When
  <2> QED BY <1>1, <2>1, AlikeSingle
<1>3. Alike(AppendHopCounter(h), AppendHopCounter(h), U) /\ AppendHopCounter(h) \subseteq Seq(U)
  <2>1. AppendHopCounter(h) = {<<h>>} BY DEF AppendHopCounter, When
  <2> QED BY <1>1, <2>1, AlikeSingle
<1>4. Alike(Concat(<<Cause(c)>>), Concat(<<Cause(d)>>), U)
  <2> DEFINE P == <<Cause(c)>>
             Q == <<Cause(d)>>
  <2>1. DOMAIN P = 1 .. 1 /\ DOMAIN Q = 1 .. 1 /\ P[1] = Cause(c) /\ Q[1] = Cause(d) OBVIOUS
  <2> HIDE DEF P, Q
  <2>2. \A i \in 1 .. 1 : Alike(P[i], Q[i], U) /\ Q[i] \subseteq Seq(U) BY <1>2, <2>1
  <2>3. Alike(Concat(P), Concat(Q), U) BY <2>1, <2>2, AlikeParts
  <2> QED BY <2>3 DEF P, Q
<1>5. Alike(Concat(<<Cause(c), AppendHopCounter(h)>>),
            Concat(<<Cause(d), AppendHopCounter(h)>>), U)
  <2> DEFINE P == <<Cause(c), AppendHopCounter(h)>>
             Q == <<Cause(d), AppendHopCounter(h)>>
  <2>1. /\ DOMAIN P = 1 .. 2 /\ DOMAIN Q = 1 .. 2 /\ P[1] = Cause(c) /\ Q[1] = Cause(d)
        /\ P[2] = AppendHopCounter(h) /\ Q[2] = AppendHopCounter(h)
    OBVIOUS
  <2> HIDE DEF P, Q
  <2>2. ASSUME NEW i \in 1 .. 2 PROVE Alike(P[i], Q[i], U) /\ Q[i] \subseteq Seq(U)
    <3>1. i = 1 \/ i = 2 OBVIOUS
    <3> QED BY <1>2, <1>3, <2>1, <3>1
  <2>3. Alike(Concat(P), Concat(Q), U) BY <2>1, <2>2, AlikeParts
  <2> QED BY <2>3 DEF P, Q
<1> QED BY <1>4, <1>5

(* Y is empty or X and Y hold one sequence each, that of X no longer.      *)
NoLonger(X, Y) ==
    \/ Y = {}
    \/ \E x, y : /\ X = {x} /\ Y = {y}
                 /\ IsSequence(x) /\ IsSequence(y) /\ Len(x) <= Len(y)

LEMMA PrefixLength ==
    ASSUME NEW U, NEW d \in Seq(U), NEW k \in 0 .. Len(d)
    PROVE  SubSeq(d, 1, k) \in Seq(U) /\ Len(SubSeq(d, 1, k)) = k
<1>1. Len(d) \in Nat /\ d = [i \in 1 .. Len(d) |-> d[i]] BY LenProperties
<1> DEFINE s == SubSeq(d, 1, k)
<1>2. s = [i \in 1 .. k |-> d[i]] BY <1>1
<1>3. \A i \in 1 .. k : d[i] \in U BY <1>1
<1> HIDE DEF s
<1>4. s \in [1 .. k -> U] BY <1>2, <1>3
<1>5. DOMAIN s = 1 .. k BY <1>2
<1> QED BY <1>4, <1>5 DEF s

LEMMA DataIs ==
    ASSUME NEW c
    PROVE  /\ Len(c) \in 1 .. MaxData => Data(c, MaxData) = {<<Len(c) % 256>> \o c}
           /\ Len(c) \notin 1 .. MaxData => Data(c, MaxData) = {}
           /\ Len(c) \in 1 .. MaxLongData => LongData(c) = {LittleEndian(Len(c), 2) \o c}
           /\ Len(c) \notin 1 .. MaxLongData => LongData(c) = {}
<1> DEFINE lengthened(v) == <<Len(v) % 256>> \o v
           short(v) == Len(v) <= MaxVariableLength
<1>1. Lengthened({c}) = {lengthened(v) : v \in {v \in {c} : short(v)}} BY DEF Lengthened
<1>2. Len(c) \in 1 .. MaxData => short(c)
  <2>1. \A n \in 1 .. MaxData : n <= MaxVariableLength BY DEF MaxData, MaxVariableLength
  <2> QED BY <2>1, Zenon
<1> HIDE DEF lengthened, short
<1>3. Len(c) \in 1 .. MaxData => Lengthened({c}) = {lengthened(c)} BY <1>1, <1>2
<1>4. Len(c) \in 1 .. MaxData => Data(c, MaxData) = {lengthened(c)} BY <1>3 DEF Data
<1>5. Len(c) \notin 1 .. MaxData => Data(c, MaxData) = {} BY DEF Data
<1> DEFINE long == LittleEndian(Len(c), 2) \o c
<1>6. LongData(c) = When(Len(c) \in 1 .. MaxLongData, long) BY DEF LongData
<1> HIDE DEF long
<1>7. /\ Len(c) \in 1 .. MaxLongData => LongData(c) = {long}
      /\ Len(c) \notin 1 .. MaxLongData => LongData(c) = {}
  BY <1>6 DEF When
<1> QED BY <1>4, <1>5, <1>7 DEF lengthened, long

(* The shorter a prefix of the user data, the shorter its encoding.        *)
LEMMA DataNoLonger ==
    ASSUME NEW U, NEW d \in Seq(U), NEW n \in 1 .. Len(d), NEW k \in 1 .. n
    PROVE  /\ NoLonger(Data(SubSeq(d, 1, k), MaxData), Data(SubSeq(d, 1, n), MaxData))
           /\ NoLonger(LongData(SubSeq(d, 1, k)), LongData(SubSeq(d, 1, n)))
<1> DEFINE x == SubSeq(d, 1, k)
           y == SubSeq(d, 1, n)
<1>1. x \in Seq(U) /\ y \in Seq(U) /\ Len(x) = k /\ Len(y) = n /\ k \in 0 .. Len(d)
  <2>1. k \in 0 .. Len(d) /\ n \in 0 .. Len(d) BY LenProperties
  <2> QED BY <2>1, PrefixLength
<1>2. IsSequence(x) /\ IsSequence(y) BY <1>1 DEF IsSequence
<1>3. k \in Nat /\ n \in Nat /\ k <= n /\ 1 <= k BY LenProperties
<1> HIDE DEF x, y
<1> DEFINE head(v) == <<v % 256>>
           head2(v) == LittleEndian(v, 2)
<1>4. \A v : IsSequence(head(v)) /\ Len(head(v)) = 1 BY ShortSequences
<1>5. \A v : IsSequence(head2(v)) /\ Len(head2(v)) = 2 BY ShortSequences DEF LittleEndian
<1> HIDE DEF head, head2
<1>6. ASSUME NEW a, IsSequence(a), NEW b, IsSequence(b) PROVE Len(a \o b) = Len(a) + Len(b)
  <2>1. PICK V : a \in Seq(V) BY <1>6 DEF IsSequence
  <2>2. PICK W : b \in Seq(W) BY <1>6 DEF IsSequence
  <2>3. Seq(V) \subseteq Seq(V \cup W) /\ Seq(W) \subseteq Seq(V \cup W) OBVIOUS
  <2> QED BY <2>1, <2>2, <2>3, ConcatLength
<1>7. ASSUME Data(y, MaxData) # {}
      PROVE  Data(x, MaxData) = {head(k) \o x} /\ Data(y, MaxData) = {head(n) \o y}
  <2>1. Len(y) \in 1 .. MaxData BY <1>7, DataIs
  <2>2. Len(x) \in 1 .. MaxData BY <1>1, <1>3, <2>1 DEF MaxData
  <2>3. Data(x, MaxData) = {head(Len(x)) \o x} /\ Data(y, MaxData) = {head(Len(y)) \o y}
    BY <2>1, <2>2, DataIs DEF head
  <2> QED BY <1>1, <2>3
<1>8. ASSUME LongData(y) # {}
      PROVE  LongData(x) = {head2(k) \o x} /\ LongData(y) = {head2(n) \o y}
  <2>1. Len(y) \in 1 .. MaxLongData BY <1>8, DataIs
  <2>2. Len(x) \in 1 .. MaxLongData BY <1>1, <1>3, <2>1 DEF MaxLongData
  <2>3. LongData(x) = {head2(Len(x)) \o x} /\ LongData(y) = {head2(Len(y)) \o y}
    BY <2>1, <2>2, DataIs DEF head2
  <2> QED BY <1>1, <2>3
<1>9. /\ IsSequence(head(k) \o x) /\ IsSequence(head(n) \o y)
      /\ Len(head(k) \o x) <= Len(head(n) \o y)
  BY <1>1, <1>2, <1>3, <1>4, <1>6, JoinedSequences
<1>10. /\ IsSequence(head2(k) \o x) /\ IsSequence(head2(n) \o y)
       /\ Len(head2(k) \o x) <= Len(head2(n) \o y)
  BY <1>1, <1>2, <1>3, <1>5, <1>6, JoinedSequences
<1>11. NoLonger(Data(x, MaxData), Data(y, MaxData)) BY <1>7, <1>9 DEF NoLonger
<1>12. NoLonger(LongData(x), LongData(y)) BY <1>8, <1>10 DEF NoLonger
<1> QED BY <1>11, <1>12 DEF x, y

(* A fixed part that is no longer with other values.                       *)
AlikeFixed(fixed, other) == \A U : Octet \subseteq U => Alike(Concat(fixed), Concat(other), U)

(* No optional part, or one of sequences.                                  *)
OptionalSequences(optional) == optional = <<>> \/ \E S : optional = <<S>> /\ Sequences(S)

LEMMA OptionalTuples ==
    ASSUME NEW U, NEW optional, NEW S, S \subseteq Seq(U), optional = <<>> \/ optional = <<S>>
    PROVE  Tuples(optional) \subseteq Seq(Seq(U))
<1> DEFINE n == Len(optional)
<1>1. PartsOf(optional, n, U)
  <2>1. CASE optional = <<>> BY <2>1 DEF PartsOf
  <2>2. CASE optional = <<S>>
    <3>1. n = 1 /\ DOMAIN optional = 1 .. 1 /\ optional[1] = S BY <2>2
    <3> HIDE DEF n
    <3> QED BY <3>1 DEF PartsOf
  <2> QED BY <2>1, <2>2
<1> HIDE DEF n
<1> QED BY <1>1, PartsOver DEF OneOfEach

(* One of the encodings is of `limit` octets at most.                      *)
Fits(encodings, limit) == \E b \in encodings : Len(b) <= limit

LEMMA FitsShorter ==
    ASSUME NEW code \in Octet, NEW size \in {1, 2}, NEW fixed, NEW other,
           AlikeFixed(fixed, other), NEW A, Sequences(A), NEW B, Sequences(B),
           NEW X, NEW Y, NoLonger(X, Y), NEW optional, OptionalSequences(optional),
           NEW limit \in Int, Fits(Layout(code, fixed, size, <<A, B, Y>>, optional), limit)
    PROVE  Fits(Layout(code, other, size, <<A, B, X>>, optional), limit)
<1>1. Y # {} BY NoLayout DEF Fits
<1>2. PICK x, y : X = {x} /\ Y = {y} /\ IsSequence(x) /\ IsSequence(y) /\ Len(x) <= Len(y)
  BY <1>1 DEF NoLonger
<1>3. PICK S : Sequences(S) /\ (optional = <<>> \/ optional = <<S>>)
  BY DEF OptionalSequences, Sequences
<1> DEFINE all == A \cup B \cup {x, y} \cup S
<1>4. Sequences(all) BY <1>2, <1>3 DEF Sequences
<1>5. PICK U : Octet \subseteq U /\ all \subseteq Seq(U) BY <1>4, CommonSet
<1>6. /\ A \subseteq Seq(U) /\ B \subseteq Seq(U) /\ x \in Seq(U) /\ y \in Seq(U)
      /\ S \subseteq Seq(U) /\ code \in U
  BY <1>5
<1>7. Tuples(optional) \subseteq Seq(Seq(U)) BY <1>3, <1>6, OptionalTuples
<1>8. Alike(Concat(fixed), Concat(other), U) BY <1>5 DEF AlikeFixed
<1>9. PICK b \in Layout(code, fixed, size, <<A, B, {y}>>, optional) : Len(b) <= limit
  BY <1>2 DEF Fits
<1>10. /\ b \in Seq(U)
       /\ \E a \in Layout(code, other, size, <<A, B, {x}>>, optional) :
            a \in Seq(U) /\ Len(a) <= Len(b)
  BY <1>2, <1>5, <1>6, <1>7, <1>8, <1>9, LayoutShorter
<1>11. PICK a \in Layout(code, other, size, <<A, B, {x}>>, optional) :
         a \in Seq(U) /\ Len(a) <= Len(b)
  BY <1>10
<1>12. Len(a) <= limit
  <2>1. Len(a) \in Nat /\ Len(b) \in Nat BY <1>10, <1>11, LenProperties
  <2> QED BY <1>9, <1>11, <2>1
<1> QED BY <1>2, <1>11, <1>12 DEF Fits

-----------------------------------------------------------------------------
(* The optional part of a service message: the segmentation parameter.     *)
LEMMA SegmentationPart ==
    ASSUME NEW m, m.importance = {}, m.unrecognized = <<>>
    PROVE  OptionalSequences(SegmentationImportancePart(m))
<1> DEFINE segmentation == Optional(16, m.segmentation, AppendSegmentation)
           importance == Optional(18, m.importance, AppendImportance)
           raw == [i \in DOMAIN m.unrecognized |->
                     Raw(m.unrecognized[i], SegmentationImportance)]
           raws == Raws(m.unrecognized, SegmentationImportance)
           parts == <<segmentation, importance, raws>>
<1>1. Sequences(segmentation)
  <2>1. CASE m.segmentation = {}
    <3>1. segmentation = {<<>>} BY <2>1 DEF Optional
    <3> HIDE DEF segmentation
    <3> QED BY <3>1, ShortSequences DEF Sequences
  <2>2. CASE m.segmentation # {}
    <3> DEFINE contents == UNION {AppendSegmentation(v) : v \in m.segmentation}
    <3>1. segmentation = {<<16>> \o c : c \in Lengthened(contents)} BY <2>2 DEF Optional
    <3>2. Sequences(contents) BY SegmentationIsSequence DEF Sequences
    <3> HIDE DEF contents, segmentation
    <3>3. Sequences({<<16>> \o c : c \in Lengthened(contents)}) BY <3>2, NamedSequences
    <3> QED BY <3>1, <3>3
  <2> QED BY <2>1, <2>2
<1>2. Sequences(importance)
  <2>1. importance = {<<>>} BY DEF Optional
  <2> HIDE DEF importance
  <2> QED BY <2>1, ShortSequences DEF Sequences
<1>3. Sequences(raws)
  <2>1. DOMAIN raw = 1 .. 0 OBVIOUS
  <2> HIDE DEF raw
  <2>2. Sequences(Concat(raw)) BY <2>1, ConcatSequences
  <2> QED BY <2>2 DEF Raws, raw
<1> HIDE DEF segmentation, importance, raws
<1>4. DOMAIN parts = 1 .. 3 /\ parts[1] = segmentation /\ parts[2] = importance /\ parts[3] = raws
  OBVIOUS
<1> HIDE DEF parts
<1>5. \A i \in 1 .. 3 : Sequences(parts[i])
  <2> TAKE i \in 1 .. 3
  <2>1. i = 1 \/ i = 2 \/ i = 3 OBVIOUS
  <2> QED BY <1>1, <1>2, <1>3, <1>4, <2>1
<1>6. Sequences(Concat(parts)) BY <1>4, <1>5, ConcatSequences
<1> DEFINE finished == {Finish(o) : o \in Concat(parts)}
<1>7. Sequences(finished) BY <1>6, FinishedSequences
<1>8. SegmentationImportancePart(m) = <<finished>>
  BY DEF SegmentationImportancePart, OptionalPart, parts, segmentation, importance, raws
<1> HIDE DEF finished
<1> QED BY <1>7, <1>8 DEF OptionalSequences

-----------------------------------------------------------------------------
(* What the decoder reads of the connectionless messages.                  *)

LEMMA TypesDecoded ==
    ASSUME NEW b, NEW m
    PROVE  /\ m \in UnmarshalCR(b)    => m.type = "CR"
           /\ m \in UnmarshalCC(b)    => m.type = "CC"
           /\ m \in UnmarshalCREF(b)  => m.type = "CREF"
           /\ m \in UnmarshalRLSD(b)  => m.type = "RLSD"
           /\ m \in UnmarshalRLC(b)   => m.type = "RLC"
           /\ m \in UnmarshalRSC(b)   => m.type = "RSC"
           /\ m \in UnmarshalEA(b)    => m.type = "EA"
           /\ m \in UnmarshalDT1(b)   => m.type = "DT1"
           /\ m \in UnmarshalDT2(b)   => m.type = "DT2"
           /\ m \in UnmarshalED(b)    => m.type = "ED"
           /\ m \in UnmarshalAK(b)    => m.type = "AK"
           /\ m \in UnmarshalRSR(b)   => m.type = "RSR"
           /\ m \in UnmarshalERR(b)   => m.type = "ERR"
           /\ m \in UnmarshalIT(b)    => m.type = "IT"
           /\ m \in UnmarshalUDTS(b)  => m.type = "UDTS"
           /\ m \in UnmarshalXUDTS(b) => m.type = "XUDTS"
           /\ m \in UnmarshalLUDTS(b) => m.type = "LUDTS"
<1>1. m \in UnmarshalCR(b) => m.type = "CR" BY DEF UnmarshalCR
<1>2. m \in UnmarshalCC(b) => m.type = "CC" BY DEF UnmarshalCC
<1>3. m \in UnmarshalCREF(b) => m.type = "CREF" BY DEF UnmarshalCREF
<1>4. m \in UnmarshalRLSD(b) => m.type = "RLSD" BY DEF UnmarshalRLSD
<1>5. m \in UnmarshalRLC(b) => m.type = "RLC" BY DEF UnmarshalRLC
<1>6. m \in UnmarshalRSC(b) => m.type = "RSC" BY DEF UnmarshalRSC
<1>7. m \in UnmarshalEA(b) => m.type = "EA" BY DEF UnmarshalEA
<1>8. m \in UnmarshalDT1(b) => m.type = "DT1" BY DEF UnmarshalDT1
<1>9. m \in UnmarshalDT2(b) => m.type = "DT2" BY DEF UnmarshalDT2
<1>10. m \in UnmarshalED(b) => m.type = "ED" BY DEF UnmarshalED
<1>11. m \in UnmarshalAK(b) => m.type = "AK" BY DEF UnmarshalAK
<1>12. m \in UnmarshalRSR(b) => m.type = "RSR" BY DEF UnmarshalRSR
<1>13. m \in UnmarshalERR(b) => m.type = "ERR" BY DEF UnmarshalERR
<1>14. m \in UnmarshalIT(b) => m.type = "IT" BY DEF UnmarshalIT
<1>15. m \in UnmarshalUDTS(b) => m.type = "UDTS" BY DEF UnmarshalUDTS
<1>16. m \in UnmarshalXUDTS(b) => m.type = "XUDTS" BY DEF UnmarshalXUDTS
<1>17. m \in UnmarshalLUDTS(b) => m.type = "LUDTS" BY DEF UnmarshalLUDTS
<1> QED BY <1>1, <1>2, <1>3, <1>4, <1>5, <1>6, <1>7, <1>8, <1>9, <1>10, <1>11, <1>12, <1>13,
           <1>14, <1>15, <1>16, <1>17

LEMMA UnitdataDecoded ==
    ASSUME NEW b, NEW m \in ParseMessage(b), m.type \in {"UDT", "XUDT", "LUDT"}
    PROVE  m \in UnmarshalUDT(b) \/ m \in UnmarshalXUDT(b) \/ m \in UnmarshalLUDT(b)
BY TypesDecoded DEF ParseMessage

LEMMA PartIsOctets ==
    ASSUME NEW b \in Seq(Octet), NEW from \in Nat
    PROVE  /\ \A n \in Nat : Slice(b, from, n) \subseteq Seq(Octet)
           /\ From(b, from) \in Seq(Octet)
<1>1. Len(b) \in Nat /\ \A i \in 1 .. Len(b) : b[i] \in Octet BY LenProperties
<1>2. ASSUME NEW n \in Nat, from + n <= Len(b)
      PROVE  SubSeq(b, from + 1, from + n) \in Seq(Octet)
  <2> DEFINE s == SubSeq(b, from + 1, from + n)
  <2>1. s = [i \in 1 .. n |-> b[from + i]] BY <1>1, <1>2
  <2>2. \A i \in 1 .. n : b[from + i] \in Octet
    <3> TAKE i \in 1 .. n
    <3>1. from + i \in 1 .. Len(b) BY <1>1, <1>2
    <3> QED BY <1>1, <3>1
  <2> HIDE DEF s
  <2>3. s \in [1 .. n -> Octet] BY <2>1, <2>2
  <2>4. s \in Seq(Octet) BY <2>3
  <2> QED BY <2>4 DEF s
<1>3. \A n \in Nat : Slice(b, from, n) \subseteq Seq(Octet) BY <1>2 DEF Slice, When
<1>4. From(b, from) \in Seq(Octet)
  <2>1. CASE from <= Len(b)
    <3>1. Len(b) - from \in Nat /\ from + (Len(b) - from) = Len(b) BY <1>1, <2>1
    <3>2. SubSeq(b, from + 1, from + (Len(b) - from)) \in Seq(Octet) BY <1>2, <3>1
    <3> QED BY <3>1, <3>2 DEF From
  <2>2. CASE ~ (from <= Len(b))
    <3>1. From(b, from) = <<>> BY <1>1, <2>2 DEF From
    <3> QED BY <3>1
  <2> QED BY <2>1, <2>2
<1> QED BY <1>3, <1>4

(* The octets a decoder reads are numbers.                                 *)
LEMMA OctetsBounded ==
    ASSUME NEW b \in Seq(Octet)
    PROVE  Len(b) \in Nat /\ \A i \in 1 .. Len(b) : b[i] \in 0 .. 255
<1>1. Len(b) \in Nat /\ \A i \in 1 .. Len(b) : b[i] \in Octet BY LenProperties
<1> QED BY <1>1 DEF Octet

(* The parameter a pointer leads to.                                       *)
LEMMA VariableOctets ==
    ASSUME NEW b \in Seq(Octet), NEW p, p.end \in Nat, NEW i
    PROVE  Variable(b, p, i) \subseteq Seq(Octet) /\ LongVariable(b, p, i) \subseteq Seq(Octet)
<1>1. Len(b) \in Nat /\ \A j \in 1 .. Len(b) : b[j] \in 0 .. 255 BY OctetsBounded
<1>2. ASSUME NEW t \in MandatoryTarget(b, p, i) PROVE t \in Nat /\ t < Len(b)
  <2>1. t \in Target(b, p, i) /\ t < Len(b) BY DEF MandatoryTarget
  <2>2. t \in p.end .. Len(b) BY <2>1 DEF Target, When
  <2> QED BY <1>1, <2>1, <2>2
<1>3. ASSUME NEW t \in MandatoryTarget(b, p, i)
      PROVE  Slice(b, t + 1, b[t + 1]) \subseteq Seq(Octet)
  <2>1. t + 1 \in Nat /\ t + 1 \in 1 .. Len(b) BY <1>1, <1>2
  <2>2. b[t + 1] \in 0 .. 255 BY <1>1, <2>1
  <2>3. \A x \in 0 .. 255 : x \in Nat OBVIOUS
  <2>4. b[t + 1] \in Nat BY <2>2, <2>3, Zenon
  <2> QED BY <2>1, <2>4, PartIsOctets
<1>4. ASSUME NEW t \in MandatoryTarget(b, p, i), t + 2 <= Len(b)
      PROVE  Slice(b, t + 2, b[t + 1] + 256 * b[t + 2]) \subseteq Seq(Octet)
  <2>1. t + 2 \in Nat /\ t + 1 \in 1 .. Len(b) /\ t + 2 \in 1 .. Len(b) BY <1>1, <1>2, <1>4
  <2>2. b[t + 1] \in 0 .. 255 /\ b[t + 2] \in 0 .. 255 BY <1>1, <2>1
  <2>3. \A x \in 0 .. 255, y \in 0 .. 255 : x + 256 * y \in Nat OBVIOUS
  <2>4. b[t + 1] + 256 * b[t + 2] \in Nat BY <2>2, <2>3, Zenon
  <2> QED BY <2>1, <2>4, PartIsOctets
<1>5. Variable(b, p, i) \subseteq Seq(Octet) BY <1>3 DEF Variable
<1>6. LongVariable(b, p, i) \subseteq Seq(Octet) BY <1>4 DEF LongVariable
<1> QED BY <1>5, <1>6

LEMMA AddressIsRead ==
    ASSUME NEW v \in Seq(Octet), NEW a \in UnmarshalAddress(v)
    PROVE  AddressRead(a)
<1> DEFINE ssnAt == IF Set(v[1], 0) THEN 4 ELSE 2
           titleAt == ssnAt + Flag(Set(v[1], 1), 1)
           rest == From(v, titleAt - 1)
<1>1. rest \in Seq(Octet)
  <2>1. titleAt - 1 \in Nat BY DEF Flag
  <2> HIDE DEF titleAt
  <2> QED BY <2>1, PartIsOctets
<1>2. ASSUME NEW indicator, NEW g \in UnmarshalTitle(indicator, rest)
      PROVE  IsSequence(g.information)
  <2>1. TitleHeader(indicator) \in Nat BY DEF TitleHeader
  <2>2. From(rest, TitleHeader(indicator)) \in Seq(Octet)
    <3> HIDE DEF rest
    <3> QED BY <1>1, <2>1, PartIsOctets
  <2> HIDE DEF rest
  <2>3. g.information = From(rest, TitleHeader(indicator)) BY DEF UnmarshalTitle
  <2> QED BY <2>2, <2>3 DEF IsSequence
<1> DEFINE indicator == Bits(v[1], 2, 4)
           titles == IF indicator = 0 THEN {{}} ELSE {{g} : g \in UnmarshalTitle(indicator, rest)}
<1>3. a.globalTitle \in titles
  <2>1. v # <<>> /\ ~ (Len(v) < titleAt - 1) BY DEF UnmarshalAddress
  <2> DEFINE pointCode == IF Set(v[1], 0) THEN {(v[2] + 256 * v[3]) % 2 ^ 14} ELSE {}
             ssn == IF Set(v[1], 1) THEN {v[ssnAt]} ELSE {}
             read(title) == [routeOnSSN |-> Set(v[1], 6), nationalUse |-> Set(v[1], 7),
                             pointCode |-> pointCode, ssn |-> ssn, globalTitle |-> title]
  <2>2. a \in {read(title) : title \in titles} BY <2>1 DEF UnmarshalAddress
  <2> HIDE DEF titles, pointCode, ssn
  <2> QED BY <2>2
<1>4. a.globalTitle = {} \/ \E g \in UnmarshalTitle(indicator, rest) : a.globalTitle = {g}
  <2> HIDE DEF rest, indicator
  <2> QED BY <1>3
<1> HIDE DEF rest, indicator
<1> QED BY <1>2, <1>4 DEF AddressRead

LEMMA AddressParamIsRead ==
    ASSUME NEW b \in Seq(Octet), NEW p, p.end \in Nat, NEW i,
           NEW a \in VariableParam(b, p, i, UnmarshalAddress)
    PROVE  AddressRead(a)
<1>1. PICK v \in Variable(b, p, i) : a \in UnmarshalAddress(v) BY DEF VariableParam
<1>2. v \in Seq(Octet) BY <1>1, VariableOctets
<1> QED BY <1>1, <1>2, AddressIsRead

LEMMA UnitdataIsRead ==
    ASSUME NEW b \in Seq(Octet), NEW m \in ParseMessage(b), m.type \in {"UDT", "XUDT", "LUDT"}
    PROVE  m.data \in Seq(Octet) /\ AddressRead(m.called) /\ AddressRead(m.calling)
<1>1. \A at, count, size \in Nat : Pointers(at, count, size).end \in Nat BY DEF Pointers
<1>2. CASE m \in UnmarshalUDT(b)
  <2> DEFINE p == Pointers(2, 3, 1)
  <2>1. /\ m.called \in VariableParam(b, p, 0, UnmarshalAddress)
        /\ m.calling \in VariableParam(b, p, 1, UnmarshalAddress)
        /\ m.data \in Variable(b, p, 2)
    BY <1>2 DEF UnmarshalUDT
  <2>2. p.end \in Nat BY <1>1
  <2> HIDE DEF p
  <2> QED BY <2>1, <2>2, AddressParamIsRead, VariableOctets
<1>3. CASE m \in UnmarshalXUDT(b)
  <2> DEFINE p == Pointers(3, 4, 1)
  <2>1. /\ m.called \in VariableParam(b, p, 0, UnmarshalAddress)
        /\ m.calling \in VariableParam(b, p, 1, UnmarshalAddress)
        /\ m.data \in Variable(b, p, 2)
    BY <1>3 DEF UnmarshalXUDT
  <2>2. p.end \in Nat BY <1>1
  <2> HIDE DEF p
  <2> QED BY <2>1, <2>2, AddressParamIsRead, VariableOctets
<1>4. CASE m \in UnmarshalLUDT(b)
  <2> DEFINE p == Pointers(3, 4, 2)
  <2>1. /\ m.called \in VariableParam(b, p, 0, UnmarshalAddress)
        /\ m.calling \in VariableParam(b, p, 1, UnmarshalAddress)
        /\ m.data \in LongVariable(b, p, 2)
    BY <1>4 DEF UnmarshalLUDT
  <2>2. p.end \in Nat BY <1>1
  <2> HIDE DEF p
  <2> QED BY <2>1, <2>2, AddressParamIsRead, VariableOctets
<1> QED BY <1>2, <1>3, <1>4, UnitdataDecoded

-----------------------------------------------------------------------------
(* Octets are read as one unitdata message at most: the sets that stand    *)
(* for what the decoder returns have no second element.                    *)

AtMostOne(S) == \A x, y \in S : x = y

LEMMA DecodersReadOne ==
    ASSUME NEW v
    PROVE  /\ AtMostOne(UnmarshalClass(v)) /\ AtMostOne(UnmarshalOctet(v))
           /\ AtMostOne(UnmarshalImportance(v)) /\ AtMostOne(UnmarshalSegmentation(v))
<1>1. AtMostOne(UnmarshalClass(v)) BY DEF UnmarshalClass, Sized, AtMostOne
<1>2. AtMostOne(UnmarshalOctet(v)) BY DEF UnmarshalOctet, Sized, AtMostOne
<1>3. AtMostOne(UnmarshalImportance(v)) BY DEF UnmarshalImportance, Sized, AtMostOne
<1>4. AtMostOne(UnmarshalSegmentation(v)) BY DEF UnmarshalSegmentation, Sized, AtMostOne
<1> QED BY <1>1, <1>2, <1>3, <1>4

LEMMA AddressReadsOne == ASSUME NEW v PROVE AtMostOne(UnmarshalAddress(v))
<1> DEFINE ssnAt == IF Set(v[1], 0) THEN 4 ELSE 2
           titleAt == ssnAt + Flag(Set(v[1], 1), 1)
           indicator == Bits(v[1], 2, 4)
           read == UnmarshalTitle(indicator, From(v, titleAt - 1))
           titles == IF indicator = 0 THEN {{}} ELSE {{g} : g \in read}
           pointCode == IF Set(v[1], 0) THEN {(v[2] + 256 * v[3]) % 2 ^ 14} ELSE {}
           ssn == IF Set(v[1], 1) THEN {v[ssnAt]} ELSE {}
           address(title) == [routeOnSSN |-> Set(v[1], 6), nationalUse |-> Set(v[1], 7),
                              pointCode |-> pointCode, ssn |-> ssn, globalTitle |-> title]
<1>1. AtMostOne(read) BY DEF UnmarshalTitle, AtMostOne
<1>2. UnmarshalAddress(v) = {} \/ UnmarshalAddress(v) = {address(title) : title \in titles}
  BY DEF UnmarshalAddress
<1> HIDE DEF address, read, indicator
<1>3. AtMostOne(titles) BY <1>1 DEF AtMostOne
<1> HIDE DEF titles
<1>4. AtMostOne({address(title) : title \in titles}) BY <1>3 DEF AtMostOne
<1> QED BY <1>2, <1>4 DEF AtMostOne

LEMMA SlicesReadOne == ASSUME NEW b, NEW from, NEW n PROVE AtMostOne(Slice(b, from, n))
BY DEF Slice, When, AtMostOne

LEMMA FixedReadsOne ==
    ASSUME NEW b, NEW off, NEW n
    PROVE  /\ AtMostOne(FixedParam(b, off, n, UnmarshalClass))
           /\ AtMostOne(FixedParam(b, off, n, UnmarshalOctet))
<1>1. AtMostOne(Slice(b, off, n)) BY SlicesReadOne
<1>2. \A v : AtMostOne(UnmarshalClass(v)) /\ AtMostOne(UnmarshalOctet(v)) BY DecodersReadOne
<1>3. AtMostOne(FixedParam(b, off, n, UnmarshalClass)) BY <1>1, <1>2 DEF FixedParam, AtMostOne
<1>4. AtMostOne(FixedParam(b, off, n, UnmarshalOctet)) BY <1>1, <1>2 DEF FixedParam, AtMostOne
<1> QED BY <1>3, <1>4

LEMMA VariablesReadOne ==
    ASSUME NEW b, NEW p, NEW i
    PROVE  /\ AtMostOne(Variable(b, p, i)) /\ AtMostOne(LongVariable(b, p, i))
           /\ AtMostOne(VariableParam(b, p, i, UnmarshalAddress))
<1>1. AtMostOne(Target(b, p, i)) BY DEF Target, When, AtMostOne
<1>2. AtMostOne(MandatoryTarget(b, p, i)) BY <1>1 DEF MandatoryTarget, AtMostOne
<1>3. \A from, n : AtMostOne(Slice(b, from, n)) BY SlicesReadOne
<1>4. AtMostOne(Variable(b, p, i)) BY <1>2, <1>3 DEF Variable, AtMostOne
<1>5. AtMostOne(LongVariable(b, p, i)) BY <1>2, <1>3 DEF LongVariable, AtMostOne
<1>6. \A v : AtMostOne(UnmarshalAddress(v)) BY AddressReadsOne
<1>7. AtMostOne(VariableParam(b, p, i, UnmarshalAddress))
  BY <1>4, <1>6 DEF VariableParam, AtMostOne
<1> QED BY <1>4, <1>5, <1>7

(* The parameters of an optional part, one list of them at most.           *)
ParameterLists == Seq([code : Octet, value : Seq(Octet)])

LEMMA WithinRest ==
    ASSUME NEW n \in Nat, NEW t \in Nat, t + 2 <= n, NEW k \in 0 .. 255, ~ (t + 2 + k > n)
    PROVE  t + 2 \in Nat /\ k \in Nat /\ t + 2 + k <= n /\ t + 2 + k \in 0 .. n /\ t < t + 2 + k
OBVIOUS

LEMMA OptionalReadsOne ==
    ASSUME NEW b \in Seq(Octet), NEW from \in 0 .. Len(b)
    PROVE  /\ AtMostOne(OptionalParameters(b, from))
           /\ OptionalParameters(b, from) \subseteq ParameterLists
<1> DEFINE n == Len(b)
           D == 0 .. n
           V == {S \in SUBSET ParameterLists : AtMostOne(S)}
           ended(t) == t = n \/ b[t + 1] = 0
           refused(t) == t + 2 > n \/ t + 2 + b[t + 2] > n
           next(t) == t + 2 + b[t + 2]
           first(t) == [code |-> b[t + 1], value |-> SubSeq(b, t + 3, next(t))]
           longer(t, S) == {<<first(t)>> \o rest : rest \in S}
           body(g) == [t \in D |-> IF ended(t) THEN {<<>>}
                                   ELSE IF refused(t) THEN {} ELSE longer(t, g[next(t)])]
           scan == CHOOSE g : g = body(g)
           stop == {t \in D : ended(t) \/ refused(t)}
           base == [t \in D |-> IF ended(t) THEN {<<>>} ELSE {}]
           pred == [t \in D |-> next(t)]
           step == [x \in D \X V |-> longer(x[1], x[2])]
           rank == [t \in D |-> n - t]
<1>1. OptionalParameters(b, from) = scan[from] BY DEF OptionalParameters
<1>2. n \in Nat /\ \A i \in 1 .. n : b[i] \in 0 .. 255 BY OctetsBounded
<1>3. ASSUME NEW t \in D \ stop
      PROVE  next(t) \in D /\ t < next(t) /\ first(t) \in [code : Octet, value : Seq(Octet)]
  <2>1. t \in Nat /\ t + 2 <= n /\ ~ ended(t) /\ ~ refused(t)
    <3>1. t \in Nat /\ t <= n /\ ~ ended(t) /\ ~ refused(t) BY <1>2
    <3> QED BY <1>2, <3>1
  <2>2. b[t + 2] \in 0 .. 255 /\ b[t + 1] \in 0 .. 255
    <3>1. t + 2 \in 1 .. n /\ t + 1 \in 1 .. n BY <1>2, <2>1
    <3> QED BY <1>2, <3>1
  <2> DEFINE k == b[t + 2]
  <2>3. k \in 0 .. 255 /\ ~ (t + 2 + k > n) BY <2>1, <2>2
  <2>4. t + 2 \in Nat /\ k \in Nat /\ t + 2 + k <= n /\ t + 2 + k \in 0 .. n /\ t < t + 2 + k
    <3> HIDE DEF k, n
    <3> QED BY <1>2, <2>1, <2>3, WithinRest
  <2>5. next(t) \in D /\ t < next(t)
    <3> HIDE DEF n
    <3> QED BY <2>4
  <2>6. SubSeq(b, t + 3, next(t)) \in Seq(Octet)
    <3>1. t + 2 \in Nat /\ b[t + 2] \in Nat /\ t + 2 + b[t + 2] <= Len(b) BY <2>4
    <3>2. Slice(b, t + 2, b[t + 2]) \subseteq Seq(Octet) BY <3>1, PartIsOctets
    <3>3. SubSeq(b, t + 2 + 1, t + 2 + b[t + 2]) \in Seq(Octet)
      BY <3>1, <3>2 DEF Slice, When
    <3>4. t + 2 + 1 = t + 3 BY <2>1
    <3> QED BY <3>3, <3>4
  <2>7. b[t + 1] \in Octet BY <2>2 DEF Octet
  <2> QED BY <2>5, <2>6, <2>7
<1>4. ASSUME NEW t \in D \ stop, NEW S \in V PROVE longer(t, S) \in V
  <2> DEFINE f == first(t)
             R == [code : Octet, value : Seq(Octet)]
  <2>1. f \in R BY <1>3
  <2> HIDE DEF f, R
  <2>2. <<f>> \in Seq(R) BY <2>1
  <2>3. \A rest \in S : rest \in Seq(R) BY DEF ParameterLists, R
  <2>4. \A rest \in S : <<f>> \o rest \in Seq(R) BY <2>2, <2>3, ConcatProperties
  <2>5. {<<f>> \o rest : rest \in S} \in SUBSET ParameterLists BY <2>4 DEF ParameterLists, R
  <2>6. AtMostOne({<<f>> \o rest : rest \in S}) BY DEF AtMostOne
  <2> QED BY <2>5, <2>6 DEF f
<1>5. rank \in [D -> Nat]
  <2>1. \A t \in D : n - t \in Nat BY <1>2
  <2> QED BY <2>1
<1>6. \A t \in D \ stop : pred[t] \in D /\ rank[pred[t]] < rank[t]
  <2> TAKE t \in D \ stop
  <2>1. pred[t] = next(t) /\ next(t) \in D /\ t < next(t) /\ t \in Nat BY <1>2, <1>3
  <2>2. rank[next(t)] = n - next(t) /\ rank[t] = n - t BY <2>1
  <2> HIDE DEF rank, pred, next
  <2> QED BY <1>2, <2>1, <2>2
<1>7. \A t \in D \cap stop : base[t] \in V
  <2>1. {<<>>} \in V /\ {} \in V BY DEF AtMostOne, ParameterLists
  <2> HIDE DEF V
  <2> QED BY <2>1
<1>8. \A t \in D \ stop, S \in V : step[<<t, S>>] = longer(t, S)
  <2> HIDE DEF D, V, stop, longer
  <2> QED OBVIOUS
<1>9. Recursive(D, V, stop, base, pred, step, rank)
  <2> HIDE DEF D, V, stop, base, pred, step, rank, longer
  <2> QED BY <1>4, <1>5, <1>6, <1>7, <1>8 DEF Recursive
<1>10. PICK g \in [D -> V] : g = [t \in D |-> Unrolled(stop, base, pred, step, g, t)]
  <2> HIDE DEF D, V, stop, base, pred, step, rank
  <2> QED BY <1>9, RecursionExists
<1>11. ASSUME NEW t \in D, NEW h \in [D -> V]
       PROVE  Unrolled(stop, base, pred, step, h, t) = body(h)[t]
  <2>1. CASE t \in stop
    <3>1. Unrolled(stop, base, pred, step, h, t) = base[t] BY <2>1 DEF Unrolled
    <3> HIDE DEF ended, refused, longer
    <3> QED BY <2>1, <3>1
  <2>2. CASE t \notin stop
    <3>1. pred[t] = next(t) /\ next(t) \in D BY <1>3, <2>2
    <3>2. h[next(t)] \in V
      <4> HIDE DEF V, D, next
      <4> QED BY <3>1
    <3>3. step[<<t, h[next(t)]>>] = longer(t, h[next(t)])
      <4> HIDE DEF D, V, stop, step, longer, next
      <4>1. t \in D \ stop BY <2>2
      <4> QED BY <1>8, <3>2, <4>1
    <3>4. Unrolled(stop, base, pred, step, h, t) = step[<<t, h[next(t)]>>]
      BY <2>2, <3>1 DEF Unrolled
    <3> HIDE DEF ended, refused, longer, next, step
    <3>5. ~ ended(t) /\ ~ refused(t) BY <2>2
    <3>6. body(h)[t] = longer(t, h[next(t)]) BY <3>5
    <3> QED BY <3>3, <3>4, <3>6
  <2> QED BY <2>1, <2>2
<1>12. g = body(g)
  <2>1. DOMAIN body(g) = D /\ body(g) = [t \in D |-> body(g)[t]] OBVIOUS
  <2> HIDE DEF D, V, stop, base, pred, step, rank, body
  <2> QED BY <1>10, <1>11, <2>1
<1>13. scan = body(scan)
  <2> HIDE DEF body
  <2> QED BY <1>12
<1>14. \A t \in D : scan[t] = body(scan)[t]
  <2> HIDE DEF D, scan, body
  <2> QED BY <1>13
<1>15. \A t \in stop : scan[t] \in V
  <2> TAKE t \in stop
  <2>1. t \in D OBVIOUS
  <2>2. scan[t] = (IF ended(t) THEN {<<>>} ELSE IF refused(t) THEN {} ELSE longer(t, scan[next(t)]))
    <3> HIDE DEF ended, refused, longer, next, scan, V
    <3> QED BY <1>14, <2>1
  <2>3. ended(t) \/ refused(t) OBVIOUS
  <2>4. {<<>>} \in V /\ {} \in V BY DEF AtMostOne, ParameterLists
  <2> HIDE DEF ended, refused, longer, next, scan, V
  <2> QED BY <2>2, <2>3, <2>4
<1>16. \A t \in D \ stop : scan[t] = longer(t, scan[next(t)])
  <2> TAKE t \in D \ stop
  <2>1. t \in D /\ ~ ended(t) /\ ~ refused(t) OBVIOUS
  <2> HIDE DEF ended, refused, longer, next, scan, D
  <2> QED BY <1>14, <2>1
<1>17. \A t \in D : scan[t] \in V
  <2> SUFFICES ASSUME NEW s \in D, scan[s] \notin V PROVE FALSE OBVIOUS
  <2> DEFINE bad == {t \in D : scan[t] \notin V}
             ranks == {rank[t] : t \in bad}
  <2> HIDE DEF scan, V, stop, next, longer
  <2>1. ranks \subseteq Nat /\ ranks # {}
    <3> HIDE DEF rank, D
    <3> QED BY <1>5
  <2> HIDE DEF ranks
  <2>2. PICK r \in ranks : \A k \in ranks : r <= k BY <2>1, SmallestOfNaturals
  <2>3. PICK t \in bad : rank[t] = r BY <2>2 DEF ranks
  <2>4. t \in D \ stop BY <1>15, <2>3
  <2>5. next(t) \in D /\ rank[next(t)] < rank[t]
    <3>1. pred[t] = next(t) BY <2>4
    <3> HIDE DEF pred, rank, D
    <3> QED BY <1>6, <2>4, <3>1
  <2>6. scan[next(t)] \notin V
    <3>1. longer(t, scan[next(t)]) \notin V
      <4> HIDE DEF D
      <4> QED BY <1>16, <2>3, <2>4
    <3> HIDE DEF D
    <3> QED BY <1>4, <2>4, <3>1
  <2>7. rank[next(t)] \in ranks BY <2>5, <2>6 DEF ranks
  <2>8. r <= rank[next(t)] BY <2>2, <2>7
  <2>9. rank[next(t)] \in Nat /\ r \in Nat
    <3> HIDE DEF rank, D
    <3> QED BY <1>5, <2>3, <2>5
  <2> HIDE DEF rank
  <2> QED BY <2>3, <2>5, <2>8, <2>9
<1>18. scan[from] \in V
  <2> HIDE DEF scan, V
  <2> QED BY <1>17
<1> HIDE DEF scan
<1> QED BY <1>1, <1>18

LEMMA NamedIsOne ==
    ASSUME NEW o \in ParameterLists, NEW name, ~ Twice(o, name)
    PROVE  AtMostOne(Named(o, name))
<1> DEFINE S == {i \in DOMAIN o : o[i].code = name}
<1>1. DOMAIN o = 1 .. Len(o) /\ Len(o) \in Nat BY DEF ParameterLists
<1>2. IsFiniteSet(1 .. Len(o)) BY <1>1, FS_Interval
<1>3. IsFiniteSet(S) BY <1>1, <1>2, FS_Subset
<1>4. Cardinality(S) \in Nat BY <1>3, FS_CardinalityType
<1>5. Cardinality(S) <= 1 BY <1>4 DEF Twice
<1>6. S = {} \/ \E x : S = {x}
  <2>1. Cardinality(S) = 0 \/ Cardinality(S) = 1 BY <1>4, <1>5
  <2> HIDE DEF S
  <2> QED BY <1>3, <2>1, FS_EmptySet, FS_Singleton
<1>7. Named(o, name) = {o[i].value : i \in S} BY DEF Named
<1> HIDE DEF S
<1> QED BY <1>6, <1>7 DEF AtMostOne

(* What OptionalOf reads: one list of parameters at most, with no          *)
(* recognised parameter twice.                                             *)
ReadOnce(parts, recognized) ==
    /\ AtMostOne(parts)
    /\ \A o \in parts : o \in ParameterLists /\ \A code \in recognized : ~ Twice(o, code)

LEMMA OptionalIsReadOnce ==
    ASSUME NEW b \in Seq(Octet), NEW p, p.end \in Nat, NEW i, NEW recognized
    PROVE  ReadOnce(OptionalOf(b, p, i, recognized), recognized)
<1>1. <<>> \in ParameterLists BY DEF ParameterLists
<1>2. \A code : ~ Twice(<<>>, code)
  <2> TAKE code
  <2>1. {j \in DOMAIN <<>> : <<>>[j].code = code} = {} OBVIOUS
  <2>2. Cardinality({j \in DOMAIN <<>> : <<>>[j].code = code}) = 0 BY <2>1, FS_EmptySet
  <2> QED BY <2>2 DEF Twice
<1>3. \A t \in Target(b, p, i) : t \in 0 .. Len(b)
  <2> TAKE t \in Target(b, p, i)
  <2>1. t \in p.end .. Len(b) BY DEF Target, When
  <2>2. Len(b) \in Nat BY LenProperties
  <2> QED BY <2>1, <2>2
<1>4. AtMostOne(Target(b, p, i)) BY DEF Target, When, AtMostOne
<1> DEFINE read == UNION {OptionalParameters(b, t) : t \in Target(b, p, i)}
<1>5. \A t \in Target(b, p, i) :
        /\ AtMostOne(OptionalParameters(b, t))
        /\ OptionalParameters(b, t) \subseteq ParameterLists
  BY <1>3, OptionalReadsOne
<1>6. AtMostOne(read) BY <1>4, <1>5 DEF AtMostOne
<1>7. \A o \in read : o \in ParameterLists BY <1>5
<1>8. CASE p.end > Len(b) BY <1>8 DEF OptionalOf, ReadOnce, AtMostOne
<1>9. CASE ~ (p.end > Len(b)) /\ PointerValue(b, p, i) = 0
  <2>1. OptionalOf(b, p, i, recognized) = {<<>>} BY <1>9 DEF OptionalOf
  <2> QED BY <1>1, <1>2, <2>1 DEF ReadOnce, AtMostOne
<1>10. CASE ~ (p.end > Len(b)) /\ PointerValue(b, p, i) # 0
  <2>1. OptionalOf(b, p, i, recognized) = {o \in read : \A code \in recognized : ~ Twice(o, code)}
    BY <1>10 DEF OptionalOf
  <2> HIDE DEF read
  <2> QED BY <1>6, <1>7, <2>1 DEF ReadOnce, AtMostOne
<1> QED BY <1>8, <1>9, <1>10

LEMMA OptionalFieldsReadOne ==
    ASSUME NEW parts, ReadOnce(parts, SegmentationImportance)
    PROVE  /\ AtMostOne(OptionalValue(parts, 16, UnmarshalSegmentation))
           /\ AtMostOne(OptionalValue(parts, 18, UnmarshalImportance))
           /\ AtMostOne(Unrecognized(parts, SegmentationImportance))
<1>1. \A o \in parts : AtMostOne(Named(o, 16)) /\ AtMostOne(Named(o, 18))
  BY NamedIsOne DEF ReadOnce, SegmentationImportance
<1>2. AtMostOne(parts) BY DEF ReadOnce
<1>3. \A v : AtMostOne(UnmarshalSegmentation(v)) /\ AtMostOne(UnmarshalImportance(v))
  BY DecodersReadOne
<1>4. AtMostOne(OptionalValue(parts, 16, UnmarshalSegmentation))
  <2> DEFINE values(o) == UNION {UnmarshalSegmentation(x) : x \in Named(o, 16)}
             value(o) == IF Named(o, 16) = {} THEN {{}} ELSE {{v} : v \in values(o)}
  <2>1. \A o \in parts : AtMostOne(values(o)) BY <1>1, <1>3 DEF AtMostOne
  <2> HIDE DEF values
  <2>2. \A o \in parts : AtMostOne(value(o)) BY <2>1 DEF AtMostOne
  <2>3. OptionalValue(parts, 16, UnmarshalSegmentation) = UNION {value(o) : o \in parts}
    BY DEF OptionalValue, values
  <2> HIDE DEF value
  <2> QED BY <1>2, <2>2, <2>3 DEF AtMostOne
<1>5. AtMostOne(OptionalValue(parts, 18, UnmarshalImportance))
  <2> DEFINE values(o) == UNION {UnmarshalImportance(x) : x \in Named(o, 18)}
             value(o) == IF Named(o, 18) = {} THEN {{}} ELSE {{v} : v \in values(o)}
  <2>1. \A o \in parts : AtMostOne(values(o)) BY <1>1, <1>3 DEF AtMostOne
  <2> HIDE DEF values
  <2>2. \A o \in parts : AtMostOne(value(o)) BY <2>1 DEF AtMostOne
  <2>3. OptionalValue(parts, 18, UnmarshalImportance) = UNION {value(o) : o \in parts}
    BY DEF OptionalValue, values
  <2> HIDE DEF value
  <2> QED BY <1>2, <2>2, <2>3 DEF AtMostOne
<1>6. AtMostOne(Unrecognized(parts, SegmentationImportance)) BY <1>2 DEF Unrecognized, AtMostOne
<1> QED BY <1>4, <1>5, <1>6

(* The messages with an optional part, given what each field may be.       *)
ReadAs(type, C, H, A, B, D, S, I, R) ==
    {[type |-> type, class |-> class, hopCounter |-> hop, called |-> called,
      calling |-> calling, data |-> data, segmentation |-> segmentation,
      importance |-> importance, unrecognized |-> raws] :
        class \in C, hop \in H, called \in A, calling \in B, data \in D,
        segmentation \in S, importance \in I, raws \in R}

LEMMA RecordsAreOne ==
    ASSUME NEW type, NEW C, AtMostOne(C), NEW H, AtMostOne(H), NEW A, AtMostOne(A),
           NEW B, AtMostOne(B), NEW D, AtMostOne(D), NEW S, AtMostOne(S),
           NEW I, AtMostOne(I), NEW R, AtMostOne(R)
    PROVE  AtMostOne(ReadAs(type, C, H, A, B, D, S, I, R))
BY DEF AtMostOne, ReadAs

LEMMA MessagesReadOne ==
    ASSUME NEW b \in Seq(Octet)
    PROVE  /\ AtMostOne(UnmarshalUDT(b)) /\ AtMostOne(UnmarshalXUDT(b))
           /\ AtMostOne(UnmarshalLUDT(b))
<1>1. \A at, count, size \in Nat : Pointers(at, count, size).end \in Nat BY DEF Pointers
<1>2. AtMostOne(UnmarshalUDT(b))
  <2> DEFINE p == Pointers(2, 3, 1)
             C == FixedParam(b, 1, 1, UnmarshalClass)
             A == VariableParam(b, p, 0, UnmarshalAddress)
             B == VariableParam(b, p, 1, UnmarshalAddress)
             D == Variable(b, p, 2)
  <2>1. AtMostOne(C) /\ AtMostOne(A) /\ AtMostOne(B) /\ AtMostOne(D)
    BY FixedReadsOne, VariablesReadOne
  <2>2. UnmarshalUDT(b) = {[type |-> "UDT", class |-> class, called |-> called,
                            calling |-> calling, data |-> data] :
                              class \in C, called \in A, calling \in B, data \in D}
    BY DEF UnmarshalUDT
  <2> HIDE DEF C, A, B, D
  <2> QED BY <2>1, <2>2 DEF AtMostOne
<1>3. AtMostOne(UnmarshalXUDT(b))
  <2> DEFINE p == Pointers(3, 4, 1)
             o == OptionalOf(b, p, 3, SegmentationImportance)
             C == FixedParam(b, 1, 1, UnmarshalClass)
             H == FixedParam(b, 2, 1, UnmarshalOctet)
             A == VariableParam(b, p, 0, UnmarshalAddress)
             B == VariableParam(b, p, 1, UnmarshalAddress)
             D == Variable(b, p, 2)
             S == OptionalValue(o, 16, UnmarshalSegmentation)
             I == OptionalValue(o, 18, UnmarshalImportance)
             R == Unrecognized(o, SegmentationImportance)
  <2>1. /\ AtMostOne(C) /\ AtMostOne(H) /\ AtMostOne(A) /\ AtMostOne(B) /\ AtMostOne(D)
    BY FixedReadsOne, VariablesReadOne
  <2>2. p.end \in Nat BY <1>1
  <2>3. ReadOnce(o, SegmentationImportance)
    <3> HIDE DEF p
    <3> QED BY <2>2, OptionalIsReadOnce
  <2>4. AtMostOne(S) /\ AtMostOne(I) /\ AtMostOne(R)
    <3> HIDE DEF o
    <3> QED BY <2>3, OptionalFieldsReadOne
  <2>5. UnmarshalXUDT(b) = ReadAs("XUDT", C, H, A, B, D, S, I, R)
    BY DEF UnmarshalXUDT, ReadAs
  <2> HIDE DEF C, H, A, B, D, S, I, R
  <2>6. AtMostOne(ReadAs("XUDT", C, H, A, B, D, S, I, R)) BY <2>1, <2>4, RecordsAreOne
  <2> QED BY <2>5, <2>6
<1>4. AtMostOne(UnmarshalLUDT(b))
  <2> DEFINE p == Pointers(3, 4, 2)
             o == OptionalOf(b, p, 3, SegmentationImportance)
             C == FixedParam(b, 1, 1, UnmarshalClass)
             H == FixedParam(b, 2, 1, UnmarshalOctet)
             A == VariableParam(b, p, 0, UnmarshalAddress)
             B == VariableParam(b, p, 1, UnmarshalAddress)
             D == LongVariable(b, p, 2)
             S == OptionalValue(o, 16, UnmarshalSegmentation)
             I == OptionalValue(o, 18, UnmarshalImportance)
             R == Unrecognized(o, SegmentationImportance)
  <2>1. /\ AtMostOne(C) /\ AtMostOne(H) /\ AtMostOne(A) /\ AtMostOne(B) /\ AtMostOne(D)
    BY FixedReadsOne, VariablesReadOne
  <2>2. p.end \in Nat BY <1>1
  <2>3. ReadOnce(o, SegmentationImportance)
    <3> HIDE DEF p
    <3> QED BY <2>2, OptionalIsReadOnce
  <2>4. AtMostOne(S) /\ AtMostOne(I) /\ AtMostOne(R)
    <3> HIDE DEF o
    <3> QED BY <2>3, OptionalFieldsReadOne
  <2>5. UnmarshalLUDT(b) = ReadAs("LUDT", C, H, A, B, D, S, I, R)
    BY DEF UnmarshalLUDT, ReadAs
  <2> HIDE DEF C, H, A, B, D, S, I, R
  <2>6. AtMostOne(ReadAs("LUDT", C, H, A, B, D, S, I, R)) BY <2>1, <2>4, RecordsAreOne
  <2> QED BY <2>5, <2>6
<1> QED BY <1>2, <1>3, <1>4

(* Octets that can be read as a unitdata message can be read as no other   *)
(* message.                                                                *)
LEMMA UnitdataReadOne ==
    ASSUME NEW b \in Seq(Octet), NEW m \in ParseMessage(b), m.type \in {"UDT", "XUDT", "LUDT"}
    PROVE  ParseMessage(b) = {m}
<1>1. b # <<>> /\ (b[1] = 9 \/ b[1] = 17 \/ b[1] = 19) BY TypesDecoded DEF ParseMessage
<1>2. ParseMessage(b) \in {UnmarshalUDT(b), UnmarshalXUDT(b), UnmarshalLUDT(b)}
  <2>1. CASE b[1] = 9 BY <1>1, <2>1 DEF ParseMessage
  <2>2. CASE b[1] = 17 BY <1>1, <2>2 DEF ParseMessage
  <2>3. CASE b[1] = 19 BY <1>1, <2>3 DEF ParseMessage
  <2> QED BY <1>1, <2>1, <2>2, <2>3
<1>3. AtMostOne(ParseMessage(b)) BY <1>2, MessagesReadOne
<1> QED BY <1>3 DEF AtMostOne

-----------------------------------------------------------------------------
(* What becomes of an arriving message.                                    *)

(* The indications that deliver a message to a user.                       *)
Delivered(r) ==
    {i \in DOMAIN r.indications : r.indications[i].type \in {"unitdata", "notice"}}

(* What a Result says became of a message m; asked: it asked for return on *)
(* error.                                                                  *)
DeliveredOnly(r) ==
    \E indication : /\ r.indications = <<indication>>
                    /\ indication.type \in {"unitdata", "notice"}
                    /\ r.discards = <<>> /\ r.transfers = <<>> /\ r.handed = "none"

HandedOnly(r) ==
    /\ r.indications = <<>> /\ r.discards = <<>> /\ r.transfers = <<>>
    /\ r.handed # "none"

Undelivered(r) ==
    \/ r.indications = <<>>
    \/ \E type : r.indications = <<[type |-> "maintenance", messageType |-> type]>>

DiscardedOnly(r, asked) ==
    /\ Undelivered(r) /\ r.handed = "none"
    /\ \/ \E d : r.discards = <<d>> /\ r.transfers = <<>>
       \/ \E d, t : r.discards = <<d>> /\ r.transfers = <<t>> /\ asked
       \/ \E d, e : r.discards = <<d, e>> /\ r.transfers = <<>>

HasOneFate(r, asked) == DeliveredOnly(r) \/ HandedOnly(r) \/ DiscardedOnly(r, asked)

(* What adding to a Result that has little gives.                          *)
LEMMA Appended ==
    /\ \A e : Append(<<>>, e) = <<e>>
    /\ \A d, e : Append(<<d>>, e) = <<d, e>>
<1>1. ASSUME NEW e PROVE Append(<<>>, e) = <<e>> OBVIOUS
<1>2. ASSUME NEW d, NEW e PROVE Append(<<d>>, e) = <<d, e>>
  <2> DEFINE S == {d, e}
             a == Append(<<d>>, e)
             b == <<d, e>>
  <2>1. <<d>> \in Seq(S) /\ Len(<<d>>) = 1 /\ e \in S OBVIOUS
  <2>2. a \in Seq(S) /\ Len(a) = 2 /\ a[1] = d /\ a[2] = e
    BY <2>1, AppendProperties
  <2>3. b \in Seq(S) /\ Len(b) = 2 /\ b[1] = d /\ b[2] = e OBVIOUS
  <2> HIDE DEF a, b, S
  <2>4. a = b BY <2>2, <2>3, SeqEqual
  <2> QED BY <2>4 DEF a, b
<1> QED BY <1>1, <1>2

LEMMA DiscardedFirst ==
    ASSUME NEW type, NEW reason
    PROVE  Discard(NoResult, type, reason) =
             [transfers |-> <<>>, indications |-> <<>>,
              discards |-> <<[type |-> type, reason |-> reason]>>, handed |-> "none"]
<1> DEFINE d == [type |-> type, reason |-> reason]
<1>1. Append(<<>>, d) = <<d>> BY Appended
<1> HIDE DEF d
<1>2. [NoResult EXCEPT !.discards = Append(@, d)] = [NoResult EXCEPT !.discards = <<d>>]
  BY <1>1 DEF NoResult
<1> QED BY <1>2 DEF Discard, NoResult, d

LEMMA DiscardFate ==
    ASSUME NEW type, NEW reason, NEW asked
    PROVE  HasOneFate(Discard(NoResult, type, reason), asked)
<1> DEFINE r == Discard(NoResult, type, reason)
<1>1. r.indications = <<>> /\ r.handed = "none" /\ r.transfers = <<>>
      /\ r.discards = <<[type |-> type, reason |-> reason]>>
  BY DiscardedFirst
<1> HIDE DEF r
<1>2. DiscardedOnly(r, asked) BY <1>1 DEF DiscardedOnly, Undelivered
<1> QED BY <1>2 DEF HasOneFate, r

LEMMA IndicateFate ==
    ASSUME NEW indication, indication.type \in {"unitdata", "notice"}, NEW asked
    PROVE  HasOneFate(Indicate(NoResult, indication), asked)
<1> DEFINE r == Indicate(NoResult, indication)
<1>1. r.indications = <<indication>> /\ r.handed = "none" /\ r.transfers = <<>>
      /\ r.discards = <<>>
  BY Appended DEF Indicate, NoResult
<1> HIDE DEF r
<1>2. DeliveredOnly(r) BY <1>1 DEF DeliveredOnly
<1> QED BY <1>2 DEF HasOneFate, r

LEMMA HandFate ==
    ASSUME NEW component, component # "none", NEW asked
    PROVE  HasOneFate(Hand(NoResult, component), asked)
<1> DEFINE r == Hand(NoResult, component)
<1>1. r.indications = <<>> /\ r.handed = component /\ r.transfers = <<>> /\ r.discards = <<>>
  BY DEF Hand, NoResult
<1>2. HandedOnly(r) BY <1>1 DEF HandedOnly
<1> QED BY <1>2 DEF HasOneFate

(* reject and returnMessage, whatever fitReturn finds.                     *)
LEMMA RejectFate ==
    ASSUME NEW label, NEW m, NEW cause, NEW limit
    PROVE  LET r == Reject(NoResult, label, m, cause, limit)
           IN /\ DiscardedOnly(r, m.class.returnOnError) /\ r.indications = <<>>
              /\ r = [transfers |-> r.transfers, indications |-> r.indications,
                      discards |-> r.discards, handed |-> r.handed]
<1> DEFINE d == [type |-> m.type, reason |-> "undeliverable"]
           once == [transfers |-> <<>>, indications |-> <<>>, discards |-> <<d>>,
                    handed |-> "none"]
           r == Reject(NoResult, label, m, cause, limit)
           sent == UNION {FitReturn(type, m, cause, limit) : type \in ServiceTypes(m)}
           Shaped(x) == x = [transfers |-> x.transfers, indications |-> x.indications,
                             discards |-> x.discards, handed |-> x.handed]
           t == [label |-> OriginLabel(label, m.calling), message |-> Preferred(sent).message,
                 octets |-> Preferred(sent).octets]
<1>1. Discard(NoResult, m.type, "undeliverable") = once BY DiscardedFirst
<1>2. Discard(once, m.type, "undeliverable") = [once EXCEPT !.discards = <<d, d>>]
  BY Appended DEF Discard
<1>3. Transfer(once, OriginLabel(label, m.calling), Preferred(sent)) =
        [once EXCEPT !.transfers = <<t>>]
  BY Appended DEF Transfer
<1>4. CASE ~ m.class.returnOnError
  <2>1. r = once BY <1>1, <1>4 DEF Reject
  <2> HIDE DEF r
  <2>2. Shaped(r) BY <2>1
  <2> QED BY <2>1, <2>2 DEF DiscardedOnly, Undelivered, r
<1>5. CASE m.class.returnOnError
  <2>1. r = Answer(once, label, m, sent) BY <1>1, <1>5 DEF Reject, ReturnMessage
  <2> HIDE DEF sent
  <2>2. CASE sent = {}
    <3>1. r = [once EXCEPT !.discards = <<d, d>>] BY <1>2, <2>1, <2>2 DEF Answer
    <3>2. r.discards = <<d, d>> /\ r.transfers = <<>> /\ r.indications = <<>> /\ r.handed = "none"
      BY <3>1
    <3>3. Shaped(r) BY <3>1
    <3> HIDE DEF r, d
    <3> QED BY <3>2, <3>3 DEF DiscardedOnly, Undelivered, r
  <2>3. CASE sent # {}
    <3>1. r = [once EXCEPT !.transfers = <<t>>] BY <1>3, <2>1, <2>3 DEF Answer
    <3>2. r.discards = <<d>> /\ r.transfers = <<t>> /\ r.indications = <<>> /\ r.handed = "none"
      BY <3>1
    <3>3. Shaped(r) BY <3>1
    <3> HIDE DEF r, d, t
    <3> QED BY <3>2, <3>3, <1>5 DEF DiscardedOnly, Undelivered, r
  <2> QED BY <2>2, <2>3
<1> QED BY <1>4, <1>5

LEMMA AlertFate ==
    ASSUME NEW r, NEW type, NEW cause, NEW asked,
           DiscardedOnly(r, asked), r.indications = <<>>,
           r = [transfers |-> r.transfers, indications |-> r.indications,
                discards |-> r.discards, handed |-> r.handed]
    PROVE  HasOneFate(AlertHopCounter(r, type, cause), asked)
<1> DEFINE i == [type |-> "maintenance", messageType |-> type]
           a == AlertHopCounter(r, type, cause)
<1>1. Append(<<>>, i) = <<i>> BY Appended
<1>2. CASE cause = HopCounterViolation
  <2>1. a = Indicate(r, i) BY <1>2 DEF AlertHopCounter
  <2> HIDE DEF i
  <2>2. a = [r EXCEPT !.indications = <<i>>] BY <1>1, <2>1 DEF Indicate
  <2> HIDE DEF a
  <2>3. a.indications = <<i>> /\ a.discards = r.discards /\ a.transfers = r.transfers
        /\ a.handed = r.handed
    BY <2>2
  <2>4. Undelivered(a) BY <2>3 DEF Undelivered, i
  <2> QED BY <2>3, <2>4 DEF DiscardedOnly, HasOneFate, a
<1>3. CASE cause # HopCounterViolation
  BY <1>3 DEF AlertHopCounter, HasOneFate
<1> QED BY <1>2, <1>3

-----------------------------------------------------------------------------
(* The handlers.                                                           *)

LEMMA VerdictOfRoute ==
    ASSUME NEW called, NEW hop, NEW local
    PROVE  Route(called, hop, local).verdict \in {"deliver", "return", "discard"}
<1> DEFINE known == called.ssn \notin {{}, {0}}
<1>1. \A x : /\ Deliver(x).verdict = "deliver"
             /\ Return(x).verdict = "return"
             /\ Drop(x).verdict = "discard"
  BY DEF Deliver, Return, Drop
<1> HIDE DEF known
<1> QED BY <1>1 DEF Route, known

LEMMA HandleUnitdataFate ==
    ASSUME NEW label, NEW m, NEW local, NEW status, NEW limit
    PROVE  HasOneFate(HandleUnitdata(label, m, local, status, limit), m.class.returnOnError)
<1> DEFINE route == Route(m.called, HopOf(m), local)
           causes == RejectCause(route, m, status)
           cause == The(causes, 0)
           asked == m.class.returnOnError
           rejected == Reject(NoResult, label, m, cause, limit)
           r == HandleUnitdata(label, m, local, status, limit)
<1> HIDE DEF route, causes, cause, rejected
<1>1. \/ r = Discard(NoResult, m.type, "syntax")
      \/ r = Discard(NoResult, m.type, route.reason)
      \/ r = AlertHopCounter(rejected, m.type, cause)
      \/ r = Hand(NoResult, "reassembly")
      \/ r = Indicate(NoResult, UnitdataIndication(m))
  BY DEF HandleUnitdata, route, causes, cause, rejected
<1> HIDE DEF r
<1>2. HasOneFate(AlertHopCounter(rejected, m.type, cause), asked)
  BY RejectFate, AlertFate DEF rejected
<1>3. HasOneFate(Indicate(NoResult, UnitdataIndication(m)), asked)
  <2>1. UnitdataIndication(m).type = "unitdata" BY DEF UnitdataIndication
  <2> QED BY <2>1, IndicateFate
<1>4. HasOneFate(r, asked) BY <1>1, <1>2, <1>3, DiscardFate, HandFate
<1> QED BY <1>4 DEF r

LEMMA HandleServiceFate ==
    ASSUME NEW m, NEW local, NEW status, NEW asked
    PROVE  HasOneFate(HandleService(m, local, status), asked)
<1> DEFINE route == Route(m.called, HopOf(m), local)
           undeliverable == Discard(NoResult, m.type, "undeliverable")
           r == HandleService(m, local, status)
<1>1. route.verdict \in {"deliver", "return", "discard"} BY VerdictOfRoute
<1> HIDE DEF route, undeliverable
<1>2. \/ r = Discard(NoResult, m.type, route.reason)
      \/ r = AlertHopCounter(undeliverable, m.type, route.cause)
      \/ r = undeliverable
      \/ r = Indicate(NoResult, NoticeIndication(m))
  BY <1>1 DEF HandleService, route, undeliverable
<1> HIDE DEF r
<1>3. HasOneFate(AlertHopCounter(undeliverable, m.type, route.cause), asked)
  <2>1. DiscardedOnly(undeliverable, asked)
    BY DiscardedFirst DEF undeliverable, DiscardedOnly, Undelivered
  <2>2. undeliverable.indications = <<>>
        /\ undeliverable = [transfers |-> undeliverable.transfers,
                            indications |-> undeliverable.indications,
                            discards |-> undeliverable.discards,
                            handed |-> undeliverable.handed]
    BY DiscardedFirst DEF undeliverable
  <2> QED BY <2>1, <2>2, AlertFate
<1>4. HasOneFate(Indicate(NoResult, NoticeIndication(m)), asked)
  <2>1. NoticeIndication(m).type = "notice" BY DEF NoticeIndication
  <2> QED BY <2>1, IndicateFate
<1>5. HasOneFate(r, asked) BY <1>2, <1>3, <1>4, DiscardFate DEF undeliverable
<1> QED BY <1>5 DEF r

LEMMA HandleFate ==
    ASSUME NEW label, NEW b, NEW local, NEW status, NEW limit,
           NEW r \in Handle(label, b, local, status, limit)
    PROVE  HasOneFate(r, \E m \in ParseMessage(b) : Asked(m))
<1> DEFINE asked == \E m \in ParseMessage(b) : Asked(m)
<1>1. CASE ~ ValidLabel(label)
  <2>1. r = Discard(NoResult, "octet", "invalid request") BY <1>1 DEF Handle
  <2> QED BY <2>1, DiscardFate
<1>2. CASE ValidLabel(label) /\ ParseMessage(b) = {}
  <2>1. r = Discard(NoResult, "octet", "syntax") BY <1>2 DEF Handle
  <2> QED BY <2>1, DiscardFate
<1>3. CASE ValidLabel(label) /\ ParseMessage(b) # {}
  <2>1. PICK m \in ParseMessage(b) : r = Dispatch(label, m, local, status, limit)
    BY <1>3 DEF Handle
  <2>2. CASE m.type \in Unitdata
    <3>1. HasOneFate(r, m.class.returnOnError) BY <2>1, <2>2, HandleUnitdataFate DEF Dispatch
    <3>2. m.class.returnOnError => asked BY <2>2 DEF Asked
    <3> QED BY <3>1, <3>2 DEF HasOneFate, DiscardedOnly
  <2>3. CASE m.type \notin Unitdata /\ m.type \in Service
    <3>1. HasOneFate(r, FALSE) BY <2>1, <2>3, HandleServiceFate DEF Dispatch
    <3> QED BY <3>1 DEF HasOneFate, DiscardedOnly
  <2>4. CASE m.type \notin Unitdata /\ m.type \notin Service
    <3>1. r = Hand(NoResult, "connection") BY <2>1, <2>4 DEF Dispatch
    <3> QED BY <3>1, HandFate
  <2> QED BY <2>2, <2>3, <2>4
<1> QED BY <1>1, <1>2, <1>3

-----------------------------------------------------------------------------
AskedForReturn == \E m \in UNION {ParseMessage(b) : b \in wire} : Asked(m)

(* A message that is handled is there, and its Result has one fate.        *)
Inv == handled => wire # {} /\ HasOneFate(result, AskedForReturn)

LEMMA InvStep == Inv /\ [Next]_vars => Inv'
<1> SUFFICES ASSUME Inv, [Next]_vars PROVE Inv' OBVIOUS
<1>1. ASSUME UNCHANGED <<wire, handled, result>> PROVE Inv'
  <2>1. AskedForReturn' = AskedForReturn BY <1>1 DEF AskedForReturn
  <2> QED BY <1>1, <2>1 DEF Inv, HasOneFate, DeliveredOnly, HandedOnly, DiscardedOnly,
                            Undelivered
<1>2. ASSUME NEW ssn \in Subsystems, RegisterSubsystem(ssn) PROVE Inv'
  BY <1>1, <1>2 DEF RegisterSubsystem
<1>3. ASSUME NEW ssn \in Subsystems, UnregisterSubsystem(ssn) PROVE Inv'
  BY <1>1, <1>3 DEF UnregisterSubsystem
<1>4. ASSUME NEW ssn \in Subsystems, NEW available \in BOOLEAN,
             SetSubsystemAvailable(ssn, available)
      PROVE  Inv'
  BY <1>1, <1>4 DEF SetSubsystemAvailable
<1>5. CASE Send BY <1>5 DEF Send, Inv
<1>6. CASE Cut BY <1>6 DEF Cut, Altered, Inv
<1>7. CASE ChangeOctet BY <1>7 DEF ChangeOctet, Altered, Inv
<1>8. ASSUME NEW local \in BOOLEAN, HandleTransfer(local) PROVE Inv'
  <2>1. wire # {} /\ wire' = wire BY <1>8 DEF HandleTransfer
  <2>2. PICK b \in wire :
          result' \in Handle(case.label, b, local, subsystems, case.maxMessageSize)
    BY <1>8 DEF HandleTransfer
  <2>3. HasOneFate(result', \E m \in ParseMessage(b) : Asked(m)) BY <2>2, HandleFate
  <2>4. (\E m \in ParseMessage(b) : Asked(m)) => AskedForReturn'
    BY <2>1, <2>2 DEF AskedForReturn
  <2>5. HasOneFate(result', AskedForReturn') BY <2>3, <2>4 DEF HasOneFate, DiscardedOnly
  <2>6. HasOneFate(result, AskedForReturn)'
    BY <2>5 DEF HasOneFate, DeliveredOnly, HandedOnly, DiscardedOnly, Undelivered
  <2> QED BY <2>1, <2>6 DEF Inv
<1>9. CASE UNCHANGED vars BY <1>1, <1>9 DEF vars
<1> QED BY <1>2, <1>3, <1>4, <1>5, <1>6, <1>7, <1>8, <1>9 DEF Next

LEMMA FateIsOne ==
    ASSUME NEW r, NEW asked, HasOneFate(r, asked)
    PROVE  /\ Cardinality(Delivered(r)) + Flag(Len(r.discards) > 0, 1)
                + Flag(r.handed # "none", 1) = 1
           /\ Len(r.transfers) <= 1
           /\ Len(r.transfers) > 0 => Len(r.discards) = 1 /\ asked
<1>1. \A d, e : Len(<<>>) = 0 /\ Len(<<d>>) = 1 /\ Len(<<d, e>>) = 2 OBVIOUS
<1>2. CASE DeliveredOnly(r)
  <2>1. PICK i : r.indications = <<i>> /\ i.type \in {"unitdata", "notice"}
    BY <1>2 DEF DeliveredOnly
  <2>2. Delivered(r) = {1} BY <2>1 DEF Delivered
  <2>3. Cardinality(Delivered(r)) = 1 BY <2>2, FS_Singleton
  <2> QED BY <1>1, <1>2, <2>3 DEF DeliveredOnly, Flag
<1>3. ASSUME Undelivered(r) PROVE Cardinality(Delivered(r)) = 0
  <2>1. Delivered(r) = {}
    <3>1. CASE r.indications = <<>> BY <3>1 DEF Delivered
    <3>2. CASE \E type : r.indications = <<[type |-> "maintenance", messageType |-> type]>>
      BY <3>2 DEF Delivered
    <3> QED BY <1>3, <3>1, <3>2 DEF Undelivered
  <2> QED BY <2>1, FS_EmptySet
<1>4. CASE HandedOnly(r)
  <2>1. Cardinality(Delivered(r)) = 0 BY <1>3, <1>4 DEF HandedOnly, Undelivered
  <2> QED BY <1>1, <1>4, <2>1 DEF HandedOnly, Flag
<1>5. CASE DiscardedOnly(r, asked)
  <2>1. Cardinality(Delivered(r)) = 0 BY <1>3, <1>5 DEF DiscardedOnly
  <2>2. r.handed = "none" BY <1>5 DEF DiscardedOnly
  <2>3. CASE asked /\ \E d, t : r.discards = <<d>> /\ r.transfers = <<t>>
    <3>1. Len(r.discards) = 1 /\ Len(r.transfers) = 1 BY <1>1, <2>3
    <3>2. Cardinality(Delivered(r)) + Flag(Len(r.discards) > 0, 1)
            + Flag(r.handed # "none", 1) = 1
      BY <2>1, <2>2, <3>1 DEF Flag
    <3> QED BY <2>3, <3>1, <3>2
  <2>4. CASE r.transfers = <<>> /\ \E d, e : r.discards = <<d>> \/ r.discards = <<d, e>>
    <3>1. Len(r.discards) > 0 /\ Len(r.transfers) = 0 BY <1>1, <2>4
    <3>2. Cardinality(Delivered(r)) + Flag(Len(r.discards) > 0, 1)
            + Flag(r.handed # "none", 1) = 1
      BY <2>1, <2>2, <3>1 DEF Flag
    <3>3. Len(r.transfers) <= 1 /\ ~ (Len(r.transfers) > 0) BY <3>1
    <3> QED BY <3>2, <3>3
  <2> QED BY <1>5, <2>3, <2>4 DEF DiscardedOnly
<1> QED BY <1>2, <1>4, <1>5 DEF HasOneFate

(* Whatever the decoder makes of the octets that arrive, wherever the      *)
(* message is addressed and whatever fits a service message: HandleTransfer *)
(* delivers, discards or hands it on, and sends at most one message back.  *)
THEOREM EachHasOneFate == Spec => []OneFate
<1>1. Init => Inv BY DEF Init, Inv
<1>2. Inv => OneFate
  <2> SUFFICES ASSUME Inv, handled PROVE OneFate BY DEF OneFate
  <2>1. HasOneFate(result, AskedForReturn) BY DEF Inv
  <2>2. /\ Cardinality(Delivered(result)) + Flag(Len(result.discards) > 0, 1)
             + Flag(result.handed # "none", 1) = 1
        /\ Len(result.transfers) <= 1
        /\ Len(result.transfers) > 0 => Len(result.discards) = 1 /\ AskedForReturn
    BY <2>1, FateIsOne
  <2> QED BY <2>2 DEF OneFate, Delivered, AskedForReturn
<1> QED BY <1>1, <1>2, InvStep, PTL DEF Spec

-----------------------------------------------------------------------------
(* The bisection of fitReturn.                                             *)

(* If the prefix of length n >= 1 fits, so do the shorter ones.            *)
Monotonic(built, top) ==
    \A n \in 1 .. top, k \in 1 .. top : k <= n /\ built[n] # {} => built[k] # {}

(* n is the greatest length up to top that fits, or 0 if none does.        *)
Longest(built, n, top) ==
    /\ n \in 0 .. top
    /\ n = 0 \/ built[n] # {}
    /\ \A k \in n + 1 .. top : built[k] = {}

Ranges(top) == (0 .. top) \X (0 .. top)

Searched(search, built, top) ==
    search = [r \in Ranges(top) |->
                IF r[1] >= r[2] THEN built[r[1]] ELSE search[Narrow(r, built[Middle(r)] # {})]]

LEMMA Halves ==
    ASSUME NEW top \in Nat, NEW r \in Ranges(top), r[1] < r[2], NEW fits \in BOOLEAN
    PROVE  /\ Middle(r) \in r[1] + 1 .. r[2] /\ Narrow(r, fits) \in Ranges(top)
           /\ Narrow(r, fits)[1] <= Narrow(r, fits)[2]
           /\ Narrow(r, fits)[2] - Narrow(r, fits)[1] < r[2] - r[1]
           /\ fits => Narrow(r, fits)[1] = Middle(r) /\ Narrow(r, fits)[2] = r[2]
           /\ ~ fits => Narrow(r, fits)[1] = r[1] /\ Narrow(r, fits)[2] = Middle(r) - 1
<1>1. r[1] \in 0 .. top /\ r[2] \in 0 .. top BY DEF Ranges
<1>2. Middle(r) \in r[1] + 1 .. r[2] BY <1>1 DEF Middle
<1>3. CASE fits
  <2>1. Narrow(r, fits) = <<Middle(r), r[2]>> BY <1>3 DEF Narrow
  <2>2. Middle(r) \in 0 .. top BY <1>1, <1>2
  <2> HIDE DEF Middle
  <2>3. Narrow(r, fits)[1] = Middle(r) /\ Narrow(r, fits)[2] = r[2] BY <2>1
  <2>4. Narrow(r, fits) \in Ranges(top) BY <1>1, <2>1, <2>2 DEF Ranges
  <2>5. Middle(r) <= r[2] /\ r[2] - Middle(r) < r[2] - r[1] BY <1>1, <1>2
  <2> HIDE DEF Narrow
  <2> QED BY <1>2, <1>3, <2>3, <2>4, <2>5
<1>4. CASE ~ fits
  <2>1. Narrow(r, fits) = <<r[1], Middle(r) - 1>> BY <1>4 DEF Narrow
  <2>2. Middle(r) - 1 \in 0 .. top BY <1>1, <1>2
  <2>3. Narrow(r, fits)[1] = r[1] /\ Narrow(r, fits)[2] = Middle(r) - 1 BY <2>1
  <2>4. Narrow(r, fits) \in Ranges(top) BY <1>1, <2>1, <2>2 DEF Ranges
  <2> QED BY <1>1, <1>2, <1>4, <2>3, <2>4
<1> QED BY <1>3, <1>4

LEMMA SearchExists ==
    ASSUME NEW top \in Nat, NEW built
    PROVE  \E search : Searched(search, built, top)
<1> DEFINE D == Ranges(top)
           V == {built[n] : n \in 0 .. top}
           stop == {r \in D : r[1] >= r[2]}
           base == [r \in D |-> built[r[1]]]
           pred == [r \in D |-> Narrow(r, built[Middle(r)] # {})]
           step == [x \in D \X V |-> x[2]]
           rank == [r \in D |-> IF r[1] >= r[2] THEN 0 ELSE r[2] - r[1]]
<1>1. \A r \in D : r[1] \in 0 .. top /\ r[2] \in 0 .. top BY DEF Ranges
<1>2. rank \in [D -> Nat]
  <2>1. \A r \in D : (IF r[1] >= r[2] THEN 0 ELSE r[2] - r[1]) \in Nat BY <1>1
  <2> HIDE DEF D
  <2> QED BY <2>1
<1>3. ASSUME NEW r \in D \ stop PROVE pred[r] \in D /\ rank[pred[r]] < rank[r]
  <2> DEFINE q == Narrow(r, built[Middle(r)] # {})
  <2>1. r \in Ranges(top) /\ r[1] < r[2] BY <1>1
  <2>2. (built[Middle(r)] # {}) \in BOOLEAN OBVIOUS
  <2>3. q \in D /\ q[1] <= q[2] /\ q[2] - q[1] < r[2] - r[1] BY <2>1, <2>2, Halves
  <2>4. pred[r] = q /\ rank[r] = r[2] - r[1] BY <2>1, <1>1
  <2> HIDE DEF q
  <2>5. rank[q] = q[2] - q[1] BY <1>1, <2>3
  <2> QED BY <2>3, <2>4, <2>5
<1>4. \A r \in D \cap stop : base[r] \in V BY <1>1
<1>5. \A r \in D \ stop, v \in V : step[<<r, v>>] = v
  <2> HIDE DEF D, V, stop
  <2> QED OBVIOUS
<1>6. Recursive(D, V, stop, base, pred, step, rank)
  <2> HIDE DEF D, V, stop, base, pred, step, rank
  <2> QED BY <1>2, <1>3, <1>4, <1>5 DEF Recursive
<1>7. PICK g \in [D -> V] : g = [r \in D |-> Unrolled(stop, base, pred, step, g, r)]
  <2> HIDE DEF D, V, stop, base, pred, step, rank
  <2> QED BY <1>6, RecursionExists
<1>8. ASSUME NEW r \in D
      PROVE  Unrolled(stop, base, pred, step, g, r) =
               IF r[1] >= r[2] THEN built[r[1]] ELSE g[Narrow(r, built[Middle(r)] # {})]
  <2>1. CASE r \in stop BY <2>1 DEF Unrolled
  <2>2. CASE r \notin stop
    <3>1. pred[r] \in D BY <1>3, <2>2
    <3>2. g[pred[r]] \in V
      <4> HIDE DEF D, V, pred
      <4> QED BY <1>7, <3>1
    <3>3. step[<<r, g[pred[r]]>>] = g[pred[r]] BY <1>5, <2>2, <3>2
    <3>4. ~ (r[1] >= r[2]) BY <2>2
    <3>5. pred[r] = Narrow(r, built[Middle(r)] # {}) OBVIOUS
    <3> HIDE DEF D, V, stop, base, pred, step, rank
    <3> QED BY <2>2, <3>3, <3>4, <3>5 DEF Unrolled
  <2> QED BY <2>1, <2>2
<1>9. g = [r \in D |-> IF r[1] >= r[2] THEN built[r[1]]
                       ELSE g[Narrow(r, built[Middle(r)] # {})]]
  <2> HIDE DEF D, V, stop, base, pred, step, rank
  <2> QED BY <1>7, <1>8
<1> QED BY <1>9 DEF Searched

(* It narrows a range around the greatest length that fits.                *)
LEMMA SearchFinds ==
    ASSUME NEW top \in Nat, NEW built, Monotonic(built, top),
           NEW search, Searched(search, built, top)
    PROVE  \E n : Longest(built, n, top) /\ search[<<0, top>>] = built[n]
<1> DEFINE Around(r) == /\ r \in Ranges(top) /\ r[1] <= r[2]
                        /\ r[1] = 0 \/ built[r[1]] # {}
                        /\ \A k \in r[2] + 1 .. top : built[k] = {}
           Found(r) == \E n : Longest(built, n, top) /\ search[r] = built[n]
           Bad == {r \in Ranges(top) : Around(r) /\ ~ Found(r)}
           widths == {r[2] - r[1] : r \in Bad}
<1>1. \A r \in Ranges(top) : r[1] \in 0 .. top /\ r[2] \in 0 .. top BY DEF Ranges
<1>2. ASSUME Bad # {} PROVE FALSE
  <2>1. widths \subseteq Nat /\ widths # {} BY <1>1, <1>2
  <2>2. PICK w \in widths : \A v \in widths : w <= v BY <2>1, SmallestOfNaturals
  <2>3. PICK r \in Bad : w = r[2] - r[1] BY <2>2
  <2>4. /\ r \in Ranges(top) /\ r[1] \in 0 .. top /\ r[2] \in 0 .. top /\ r[1] <= r[2]
        /\ r[1] = 0 \/ built[r[1]] # {}
        /\ \A k \in r[2] + 1 .. top : built[k] = {}
    BY <1>1
  <2>5. search[r] = IF r[1] >= r[2] THEN built[r[1]]
                    ELSE search[Narrow(r, built[Middle(r)] # {})]
    BY <2>4 DEF Searched
  <2>6. CASE r[1] >= r[2]
    <3>1. Longest(built, r[1], top) BY <2>4, <2>6 DEF Longest
    <3>2. search[r] = built[r[1]] BY <2>5, <2>6
    <3> QED BY <3>1, <3>2
  <2>7. CASE ~ (r[1] >= r[2])
    <3> DEFINE fits == built[Middle(r)] # {}
               q == Narrow(r, fits)
    <3>1. fits \in BOOLEAN /\ r[1] < r[2] BY <2>4, <2>7
    <3>2. /\ Middle(r) \in r[1] + 1 .. r[2] /\ q \in Ranges(top)
          /\ q[1] <= q[2] /\ q[2] - q[1] < r[2] - r[1]
          /\ fits => q[1] = Middle(r) /\ q[2] = r[2]
          /\ ~ fits => q[1] = r[1] /\ q[2] = Middle(r) - 1
      BY <2>4, <3>1, Halves
    <3>3. search[r] = search[q] BY <2>5, <2>7
    <3> HIDE DEF q
    <3>4. Around(q)
      <4>1. CASE fits BY <2>4, <3>2, <4>1
      <4>2. CASE ~ fits
        <5>1. ASSUME NEW k \in q[2] + 1 .. top PROVE built[k] = {}
          <6>1. Middle(r) \in 1 .. top /\ k \in 1 .. top /\ Middle(r) <= k
            BY <2>4, <3>2, <4>2
          <6>2. built[Middle(r)] = {} BY <4>2
          <6> QED BY <6>1, <6>2 DEF Monotonic
        <5> QED BY <2>4, <3>2, <4>2, <5>1
      <4> QED BY <4>1, <4>2
    <3>5. ~ Found(q) BY <2>3, <3>3
    <3>6. q \in Bad BY <3>2, <3>4, <3>5
    <3>7. w <= q[2] - q[1] BY <2>2, <3>6
    <3> QED BY <1>1, <2>3, <2>4, <3>2, <3>7
  <2> QED BY <2>6, <2>7
<1>3. Around(<<0, top>>) BY DEF Ranges
<1>4. Found(<<0, top>>) BY <1>2, <1>3
<1> QED BY <1>4

-----------------------------------------------------------------------------
(* The service messages that fitReturn tries.                              *)

(* What is needed of a decoded message to answer it.                       *)
Returnable(m) ==
    /\ m.type \in Unitdata /\ m.data \in Seq(Octet)
    /\ AddressRead(m.called) /\ AddressRead(m.calling)

ServiceOptional(m) ==
    OptionalPart(<<Optional(16, SegmentationOf(m), AppendSegmentation),
                   Optional(18, {}, AppendImportance), Raws(<<>>, SegmentationImportance)>>)

LEMMA ServiceLayouts ==
    ASSUME NEW m, NEW cause, NEW data
    PROVE  /\ AppendMessage(ServiceFor("UDTS", m, cause, data)) =
                Layout(10, <<Cause(cause)>>, 1,
                       <<Address(m.calling, FALSE), Address(m.called, FALSE), Data(data, MaxData)>>,
                       <<>>)
           /\ AppendMessage(ServiceFor("XUDTS", m, cause, data)) =
                Layout(18, <<Cause(cause), AppendHopCounter(HopCounter)>>, 1,
                       <<Address(m.calling, FALSE), Address(m.called, FALSE), Data(data, MaxData)>>,
                       ServiceOptional(m))
           /\ AppendMessage(ServiceFor("LUDTS", m, cause, data)) =
                Layout(20, <<Cause(cause), AppendHopCounter(HopCounter)>>, 2,
                       <<Address(m.calling, FALSE), Address(m.called, FALSE), LongData(data)>>,
                       ServiceOptional(m))
<1> DEFINE service(type) == ServiceFor(type, m, cause, data)
<1>1. /\ service("UDTS").type = "UDTS" /\ service("UDTS").cause = cause
      /\ service("UDTS").called = m.calling /\ service("UDTS").calling = m.called
      /\ service("UDTS").data = data
  BY DEF ServiceFor
<1>2. ASSUME NEW type \in {"XUDTS", "LUDTS"}
      PROVE  /\ service(type).type = type /\ service(type).cause = cause
             /\ service(type).hopCounter = HopCounter
             /\ service(type).called = m.calling /\ service(type).calling = m.called
             /\ service(type).data = data /\ service(type).segmentation = SegmentationOf(m)
             /\ service(type).importance = {} /\ service(type).unrecognized = <<>>
  BY DEF ServiceFor
<1> HIDE DEF service
<1>3. AppendMessage(service("UDTS")) = AppendUDTS(service("UDTS"))
  BY <1>1 DEF AppendMessage
<1>4. AppendMessage(service("XUDTS")) = AppendXUDTS(service("XUDTS"))
  BY <1>2 DEF AppendMessage
<1>5. AppendMessage(service("LUDTS")) = AppendLUDTS(service("LUDTS"))
  BY <1>2 DEF AppendMessage
<1>6. \A type \in {"XUDTS", "LUDTS"} :
        SegmentationImportancePart(service(type)) = ServiceOptional(m)
  BY <1>2 DEF SegmentationImportancePart, ServiceOptional
<1>7. AppendUDTS(service("UDTS")) =
        Layout(10, <<Cause(cause)>>, 1,
               <<Address(m.calling, FALSE), Address(m.called, FALSE), Data(data, MaxData)>>, <<>>)
  BY <1>1 DEF AppendUDTS, NoOptionalPart
<1>8. AppendXUDTS(service("XUDTS")) =
        Layout(18, <<Cause(cause), AppendHopCounter(HopCounter)>>, 1,
               <<Address(m.calling, FALSE), Address(m.called, FALSE), Data(data, MaxData)>>,
               ServiceOptional(m))
  BY <1>2, <1>6 DEF AppendXUDTS
<1>9. AppendLUDTS(service("LUDTS")) =
        Layout(20, <<Cause(cause), AppendHopCounter(HopCounter)>>, 2,
               <<Address(m.calling, FALSE), Address(m.called, FALSE), LongData(data)>>,
               ServiceOptional(m))
  BY <1>2, <1>6 DEF AppendLUDTS
<1> QED BY <1>3, <1>4, <1>5, <1>7, <1>8, <1>9 DEF service

LEMMA ServiceOptionalSequences == ASSUME NEW m PROVE OptionalSequences(ServiceOptional(m))
<1> DEFINE service == [segmentation |-> SegmentationOf(m), importance |-> {}, unrecognized |-> <<>>]
<1>1. service.segmentation = SegmentationOf(m) /\ service.importance = {}
      /\ service.unrecognized = <<>>
  OBVIOUS
<1> HIDE DEF service
<1>2. SegmentationImportancePart(service) = ServiceOptional(m)
  BY <1>1 DEF SegmentationImportancePart, ServiceOptional
<1>3. OptionalSequences(SegmentationImportancePart(service)) BY <1>1, SegmentationPart
<1> QED BY <1>2, <1>3

Prefix(m, n) == SubSeq(m.data, 1, n)

LEMMA BuiltIs ==
    ASSUME NEW type, NEW m, NEW cause, NEW limit, NEW n
    PROVE  LET service == ServiceFor(type, m, cause, Prefix(m, n))
           IN /\ Built(type, m, cause, limit, n) =
                   {[message |-> service, octets |-> b] : b \in Marshal(service, limit)}
              /\ Built(type, m, cause, limit, n) # {} <=> Marshal(service, limit) # {}
              /\ Marshal(service, limit) # {} <=> Fits(AppendMessage(service), limit)
<1> DEFINE service == ServiceFor(type, m, cause, Prefix(m, n))
           encoded(s) == {[message |-> s, octets |-> b] : b \in Marshal(s, limit)}
<1>1. Built(type, m, cause, limit, n) = UNION {encoded(s) : s \in {service}}
  BY DEF Built, Prefix
<1> HIDE DEF service
<1>2. UNION {encoded(s) : s \in {service}} = encoded(service) OBVIOUS
<1>3. encoded(service) # {} <=> Marshal(service, limit) # {} OBVIOUS
<1>4. Marshal(service, limit) # {} <=> Fits(AppendMessage(service), limit)
  BY DEF Marshal, Fits
<1> QED BY <1>1, <1>2, <1>3, <1>4 DEF service

(* What fits with n octets of the data fits with fewer, for any cause.     *)
LessFits(type, m, c, d, limit) ==
    \A n \in 1 .. Len(m.data) : \A k \in 1 .. n :
       Built(type, m, c, limit, n) # {} => Built(type, m, d, limit, k) # {}

LEMMA FitsWithLess ==
    ASSUME NEW m, Returnable(m), NEW type \in Service, NEW c \in 0 .. 254, NEW d \in 0 .. 254,
           NEW limit \in Int
    PROVE  LessFits(type, m, c, d, limit)
<1> SUFFICES ASSUME NEW n \in 1 .. Len(m.data), NEW k \in 1 .. n,
                    Built(type, m, c, limit, n) # {}
             PROVE  Built(type, m, d, limit, k) # {}
  BY DEF LessFits
<1> DEFINE A == Address(m.calling, FALSE)
           B == Address(m.called, FALSE)
           x == Prefix(m, k)
           y == Prefix(m, n)
<1>1. Sequences(A) /\ Sequences(B) BY EncodedAddress DEF Returnable
<1>2. NoLonger(Data(x, MaxData), Data(y, MaxData)) /\ NoLonger(LongData(x), LongData(y))
  BY DataNoLonger DEF Returnable, Prefix
<1>3. Fits(AppendMessage(ServiceFor(type, m, c, y)), limit) BY BuiltIs
<1>4. /\ AlikeFixed(<<Cause(c)>>, <<Cause(d)>>)
      /\ AlikeFixed(<<Cause(c), AppendHopCounter(HopCounter)>>,
                    <<Cause(d), AppendHopCounter(HopCounter)>>)
  <2>1. HopCounter \in 1 .. 15 BY HandlingAssumption
  <2> SUFFICES ASSUME NEW U, Octet \subseteq U
               PROVE  /\ Alike(Concat(<<Cause(c)>>), Concat(<<Cause(d)>>), U)
                      /\ Alike(Concat(<<Cause(c), AppendHopCounter(HopCounter)>>),
                               Concat(<<Cause(d), AppendHopCounter(HopCounter)>>), U)
    BY DEF AlikeFixed
  <2> QED BY <2>1, FixedPartsAlike
<1>5. OptionalSequences(ServiceOptional(m)) /\ OptionalSequences(<<>>)
  BY ServiceOptionalSequences DEF OptionalSequences
<1>6. 10 \in Octet /\ 18 \in Octet /\ 20 \in Octet BY DEF Octet
<1> HIDE DEF A, B, x, y
<1>7. Fits(AppendMessage(ServiceFor(type, m, d, x)), limit)
  <2>1. CASE type = "UDTS"
    <3>1. Fits(Layout(10, <<Cause(c)>>, 1, <<A, B, Data(y, MaxData)>>, <<>>), limit)
      BY <1>3, <2>1, ServiceLayouts DEF A, B
    <3>2. Fits(Layout(10, <<Cause(d)>>, 1, <<A, B, Data(x, MaxData)>>, <<>>), limit)
      BY <1>1, <1>2, <1>4, <1>5, <1>6, <3>1, FitsShorter
    <3> QED BY <2>1, <3>2, ServiceLayouts DEF A, B
  <2>2. CASE type = "XUDTS"
    <3> DEFINE P == <<Cause(c), AppendHopCounter(HopCounter)>>
               Q == <<Cause(d), AppendHopCounter(HopCounter)>>
    <3>1. Fits(Layout(18, P, 1, <<A, B, Data(y, MaxData)>>, ServiceOptional(m)), limit)
      BY <1>3, <2>2, ServiceLayouts DEF A, B
    <3>2. AlikeFixed(P, Q) BY <1>4
    <3> HIDE DEF P, Q
    <3>3. Fits(Layout(18, Q, 1, <<A, B, Data(x, MaxData)>>, ServiceOptional(m)), limit)
      BY <1>1, <1>2, <1>5, <1>6, <3>1, <3>2, FitsShorter
    <3> QED BY <2>2, <3>3, ServiceLayouts DEF A, B, Q
  <2>3. CASE type = "LUDTS"
    <3> DEFINE P == <<Cause(c), AppendHopCounter(HopCounter)>>
               Q == <<Cause(d), AppendHopCounter(HopCounter)>>
    <3>1. Fits(Layout(20, P, 2, <<A, B, LongData(y)>>, ServiceOptional(m)), limit)
      BY <1>3, <2>3, ServiceLayouts DEF A, B
    <3>2. AlikeFixed(P, Q) BY <1>4
    <3> HIDE DEF P, Q
    <3>3. Fits(Layout(20, Q, 2, <<A, B, LongData(x)>>, ServiceOptional(m)), limit)
      BY <1>1, <1>2, <1>5, <1>6, <3>1, <3>2, FitsShorter
    <3> QED BY <2>3, <3>3, ServiceLayouts DEF A, B, Q
  <2> QED BY <2>1, <2>2, <2>3 DEF Service
<1> QED BY <1>7, BuiltIs DEF x

LEMMA NoDataLength ==
    ASSUME NEW n \in Nat, n = 0 \/ n > MaxLongData
    PROVE  n \notin 1 .. MaxData /\ n \notin 1 .. MaxLongData
<1>1. MaxData \in Nat /\ MaxLongData \in Nat /\ MaxData <= MaxLongData
  BY DEF MaxData, MaxLongData
<1>2. \A k \in Nat : n \in 1 .. k => 1 <= n /\ n <= k OBVIOUS
<1>3. n = 0 => ~ (1 <= n) OBVIOUS
<1>4. \A k \in Nat : n > MaxLongData /\ k <= MaxLongData => ~ (n <= k) BY <1>1
<1> QED BY <1>1, <1>2, <1>3, <1>4

(* No data and more than a long message may carry fit no service message.  *)
LEMMA NothingBuilt ==
    ASSUME NEW m, Returnable(m), NEW type \in Service, NEW cause, NEW limit,
           NEW n \in 0 .. Len(m.data), n = 0 \/ n > MaxLongData
    PROVE  Built(type, m, cause, limit, n) = {}
<1> DEFINE data == Prefix(m, n)
<1>1. Len(data) = n BY PrefixLength DEF Returnable, Prefix
<1>2. Data(data, MaxData) = {} /\ LongData(data) = {}
  <2>1. n \notin 1 .. MaxData /\ n \notin 1 .. MaxLongData
    <3>1. n \in Nat BY LenProperties DEF Returnable
    <3> QED BY <3>1, NoDataLength, Zenon
  <2> HIDE DEF data
  <2> QED BY <1>1, <2>1, DataIs
<1> HIDE DEF data
<1>3. AppendMessage(ServiceFor(type, m, cause, data)) = {}
  <2> DEFINE A == Address(m.calling, FALSE)
             B == Address(m.called, FALSE)
  <2> HIDE DEF A, B
  <2>1. \A code, fixed, size, optional :
          /\ Layout(code, fixed, size, <<A, B, Data(data, MaxData)>>, optional) = {}
          /\ Layout(code, fixed, size, <<A, B, LongData(data)>>, optional) = {}
    BY <1>2, NoLayout
  <2>2. CASE type = "UDTS"
    <3>1. AppendMessage(ServiceFor(type, m, cause, data)) =
            Layout(10, <<Cause(cause)>>, 1, <<A, B, Data(data, MaxData)>>, <<>>)
      BY <2>2, ServiceLayouts DEF A, B
    <3> QED BY <2>1, <3>1
  <2>3. CASE type = "XUDTS"
    <3>1. AppendMessage(ServiceFor(type, m, cause, data)) =
            Layout(18, <<Cause(cause), AppendHopCounter(HopCounter)>>, 1,
                   <<A, B, Data(data, MaxData)>>, ServiceOptional(m))
      BY <2>3, ServiceLayouts DEF A, B
    <3> QED BY <2>1, <3>1
  <2>4. CASE type = "LUDTS"
    <3>1. AppendMessage(ServiceFor(type, m, cause, data)) =
            Layout(20, <<Cause(cause), AppendHopCounter(HopCounter)>>, 2,
                   <<A, B, LongData(data)>>, ServiceOptional(m))
      BY <2>4, ServiceLayouts DEF A, B
    <3> QED BY <2>1, <3>1
  <2> QED BY <2>2, <2>3, <2>4 DEF Service
<1>4. ~ Fits(AppendMessage(ServiceFor(type, m, cause, data)), limit) BY <1>3 DEF Fits
<1> QED BY <1>4, BuiltIs DEF data

(* fitReturn finds the longest prefix of the data that fits, if any does.  *)
LEMMA FitReturnLongest ==
    ASSUME NEW m, Returnable(m), NEW type \in Service, NEW cause \in 0 .. 254, NEW limit \in Int
    PROVE  \E n \in 0 .. Len(m.data) :
              /\ FitReturn(type, m, cause, limit) = Built(type, m, cause, limit, n)
              /\ n = 0 \/ Built(type, m, cause, limit, n) # {}
              /\ \A k \in n + 1 .. Len(m.data) : Built(type, m, cause, limit, k) = {}
<1> DEFINE built == [n \in Nat |-> Built(type, m, cause, limit, n)]
           size == Len(m.data)
           top == Min2(size, MaxLongData)
           body(s) == [r \in Ranges(top) |->
                         IF r[1] >= r[2] THEN built[r[1]]
                         ELSE s[Narrow(r, built[Middle(r)] # {})]]
           search == CHOOSE s : s = body(s)
<1>1. FitReturn(type, m, cause, limit) =
        IF built[size] # {} THEN built[size] ELSE search[<<0, top>>]
  BY DEF FitReturn, Ranges
<1>2. size \in Nat BY LenProperties DEF Returnable
<1>3. \A n \in Nat : built[n] = Built(type, m, cause, limit, n) OBVIOUS
<1>4. LessFits(type, m, cause, cause, limit) BY FitsWithLess
<1>5. top \in 0 .. size /\ top \in Nat /\ (top = size \/ top = MaxLongData)
  <2> HIDE DEF size
  <2> QED BY <1>2 DEF Min2, MaxLongData
<1>6. CASE built[size] # {}
  <2> HIDE DEF built, size
  <2>1. FitReturn(type, m, cause, limit) = Built(type, m, cause, limit, size)
    BY <1>1, <1>2, <1>3, <1>6
  <2>2. size \in 0 .. size /\ \A k \in size + 1 .. size : FALSE BY <1>2
  <2>3. Built(type, m, cause, limit, size) # {} BY <1>2, <1>3, <1>6
  <2> QED BY <2>1, <2>2, <2>3 DEF size
<1>7. CASE built[size] = {}
  <2>1. Monotonic(built, top)
    <3>1. ASSUME NEW n \in 1 .. top, NEW k \in 1 .. top, k <= n, built[n] # {}
          PROVE  built[k] # {}
      <4>1. n \in 1 .. Len(m.data) /\ k \in 1 .. n /\ n \in Nat /\ k \in Nat
        <5> HIDE DEF top
        <5> QED BY <1>2, <1>5, <3>1
      <4>2. Built(type, m, cause, limit, n) # {} BY <1>3, <3>1, <4>1
      <4>3. Built(type, m, cause, limit, k) # {} BY <1>4, <4>1, <4>2 DEF LessFits
      <4> QED BY <1>3, <4>1, <4>3
    <3> QED BY <3>1 DEF Monotonic
  <2>2. Searched(search, built, top)
    <3> HIDE DEF built, top
    <3>1. \E s : s = body(s) BY <1>5, SearchExists DEF Searched
    <3>2. search = body(search) BY <3>1
    <3> HIDE DEF search
    <3> QED BY <3>2 DEF Searched
  <2> HIDE DEF built, search, top, body
  <2>3. PICK n : Longest(built, n, top) /\ search[<<0, top>>] = built[n]
    BY <1>5, <2>1, <2>2, SearchFinds
  <2>4. n \in 0 .. size /\ n \in Nat BY <1>2, <1>5, <2>3 DEF Longest
  <2>5. FitReturn(type, m, cause, limit) = Built(type, m, cause, limit, n)
    BY <1>1, <1>3, <1>7, <2>3, <2>4
  <2>6. ASSUME NEW k \in n + 1 .. size PROVE Built(type, m, cause, limit, k) = {}
    <3>1. k \in Nat /\ k \in 0 .. size BY <1>2, <2>4
    <3>2. CASE k <= top
      <4>1. k \in n + 1 .. top BY <1>5, <2>4, <3>1, <3>2
      <4> QED BY <1>3, <2>3, <3>1, <4>1 DEF Longest
    <3>3. CASE ~ (k <= top)
      <4>1. k > MaxLongData BY <1>2, <1>5, <3>1, <3>3
      <4> QED BY <3>1, <4>1, NothingBuilt DEF size
    <3> QED BY <3>2, <3>3
  <2>7. n = 0 \/ Built(type, m, cause, limit, n) # {} BY <1>3, <2>3, <2>4 DEF Longest
  <2> QED BY <2>4, <2>5, <2>6, <2>7 DEF size
<1> QED BY <1>6, <1>7

-----------------------------------------------------------------------------
(* What the Result of HandleTransfer says of the message return.           *)

Causes == 0 .. 254

(* m came back with the longest prefix of its data that fits.              *)
Returned(r, m, limit) ==
    \E type \in ServiceTypes(m), cause \in Causes, n \in 0 .. Len(m.data) :
        /\ DOMAIN r.transfers = {1}
        /\ r.transfers[1].message = ServiceFor(type, m, cause, Prefix(m, n))
        /\ \A k \in n + 1 .. Len(m.data) : Built(type, m, cause, limit, k) = {}

(* No prefix of the data of m fits, whatever the cause.                    *)
Unreturnable(m, limit) ==
    \A type \in ServiceTypes(m), n \in 1 .. Len(m.data), cause \in Causes :
       Built(type, m, cause, limit, n) = {}

Undeliverable(r) == \E i \in DOMAIN r.discards : r.discards[i].reason = "undeliverable"

Quiet(r) == r.transfers = <<>> /\ Len(r.discards) <= 1

Silent(r) == Quiet(r) /\ ~ Undeliverable(r)

(* m came back, or was reported a second time because it could not.        *)
Returning(r, m, limit) ==
    /\ Asked(m) /\ Undeliverable(r)
    /\ \/ /\ Len(r.discards) = 1 /\ Len(r.transfers) = 1
          /\ Returned(r, m, limit) /\ ~ Unreturnable(m, limit)
       \/ Len(r.discards) = 2 /\ r.transfers = <<>> /\ Unreturnable(m, limit)

Accounted(r, m, limit) ==
    \/ Quiet(r) /\ ~ (Asked(m) /\ Undeliverable(r))
    \/ Returning(r, m, limit)

LEMMA TypesOfService ==
    ASSUME NEW m, m.type \in Unitdata
    PROVE  ServiceTypes(m) \subseteq Service /\ ServiceTypes(m) # {}
BY DEF ServiceTypes, Service, Unitdata

LEMMA FitReturnIs ==
    ASSUME NEW m, Returnable(m), NEW type \in ServiceTypes(m), NEW cause \in Causes,
           NEW limit \in Int
    PROVE  \E n \in 0 .. Len(m.data) :
              /\ FitReturn(type, m, cause, limit) = Built(type, m, cause, limit, n)
              /\ n = 0 \/ Built(type, m, cause, limit, n) # {}
              /\ \A k \in n + 1 .. Len(m.data) : Built(type, m, cause, limit, k) = {}
<1>1. type \in Service BY TypesOfService DEF Returnable
<1> QED BY <1>1, FitReturnLongest DEF Causes

LEMMA NoneFits ==
    ASSUME NEW m, Returnable(m), NEW cause \in Causes, NEW limit \in Int,
           NEW type \in ServiceTypes(m), FitReturn(type, m, cause, limit) = {},
           NEW d \in Causes, NEW k \in 1 .. Len(m.data)
    PROVE  Built(type, m, d, limit, k) = {}
<1> DEFINE size == Len(m.data)
<1>1. size \in Nat BY LenProperties DEF Returnable
<1>2. PICK n \in 0 .. size :
        /\ FitReturn(type, m, cause, limit) = Built(type, m, cause, limit, n)
        /\ n = 0 \/ Built(type, m, cause, limit, n) # {}
        /\ \A j \in n + 1 .. size : Built(type, m, cause, limit, j) = {}
  BY FitReturnIs
<1>3. n = 0 BY <1>2
<1>4. LessFits(type, m, d, cause, limit)
  BY FitsWithLess, TypesOfService DEF Returnable, Causes
<1>5. SUFFICES ASSUME Built(type, m, d, limit, k) # {} PROVE FALSE OBVIOUS
<1>6. k \in 1 .. size /\ 1 \in 1 .. k /\ 1 \in n + 1 .. size
  <2> HIDE DEF size
  <2> QED BY <1>1, <1>3 DEF size
<1>7. Built(type, m, cause, limit, 1) # {} BY <1>4, <1>5, <1>6 DEF LessFits
<1> QED BY <1>2, <1>6, <1>7

(* The cause is one octet: it does not matter to what fits.                *)
LEMMA FitsWhateverCause ==
    ASSUME NEW m, Returnable(m), NEW limit \in Int
    PROVE  ~ Unreturnable(m, limit) <=>
             \E type \in ServiceTypes(m), n \in 1 .. Len(m.data) :
                Built(type, m, NoTranslation, limit, n) # {}
<1>1. NoTranslation \in Causes BY DEF NoTranslation, Causes
<1>2. ASSUME NEW type \in ServiceTypes(m), NEW n \in 1 .. Len(m.data), NEW cause \in Causes,
             Built(type, m, cause, limit, n) # {}
      PROVE  Built(type, m, NoTranslation, limit, n) # {}
  <2>1. LessFits(type, m, cause, NoTranslation, limit)
    BY <1>1, FitsWithLess, TypesOfService DEF Returnable, Causes
  <2>2. n \in 1 .. n OBVIOUS
  <2> QED BY <1>2, <2>1, <2>2 DEF LessFits
<1> QED BY <1>1, <1>2 DEF Unreturnable

LEMMA PreferredIsSent == ASSUME NEW sent, sent # {} PROVE Preferred(sent) \in sent
<1>1. \E s \in sent : s.message.type = "LUDTS" \/ \A t \in sent : t.message.type # "LUDTS"
  OBVIOUS
<1> QED BY <1>1 DEF Preferred

(* reject and returnMessage.                                               *)
LEMMA RejectAccounted ==
    ASSUME NEW label, NEW m, Returnable(m), NEW cause \in Causes, NEW limit \in Int
    PROVE  LET r == Reject(NoResult, label, m, cause, limit)
           IN /\ Accounted(r, m, limit)
              /\ r = [transfers |-> r.transfers, indications |-> r.indications,
                      discards |-> r.discards, handed |-> r.handed]
<1> DEFINE d == [type |-> m.type, reason |-> "undeliverable"]
           once == [transfers |-> <<>>, indications |-> <<>>, discards |-> <<d>>,
                    handed |-> "none"]
           r == Reject(NoResult, label, m, cause, limit)
           sent == UNION {FitReturn(type, m, cause, limit) : type \in ServiceTypes(m)}
           t == [label |-> OriginLabel(label, m.calling), message |-> Preferred(sent).message,
                 octets |-> Preferred(sent).octets]
<1>1. Discard(NoResult, m.type, "undeliverable") = once BY DiscardedFirst
<1>2. Discard(once, m.type, "undeliverable") = [once EXCEPT !.discards = <<d, d>>]
  BY Appended DEF Discard
<1>3. Transfer(once, OriginLabel(label, m.calling), Preferred(sent)) =
        [once EXCEPT !.transfers = <<t>>]
  BY Appended DEF Transfer
<1>4. r = [transfers |-> r.transfers, indications |-> r.indications,
           discards |-> r.discards, handed |-> r.handed]
  BY RejectFate
<1>5. Len(<<d>>) = 1 /\ Len(<<d, d>>) = 2 OBVIOUS
<1>6. ASSUME NEW x, 1 \in DOMAIN x.discards, x.discards[1] = d PROVE Undeliverable(x)
  <2>1. x.discards[1].reason = "undeliverable" BY <1>6
  <2> QED BY <1>6, <2>1, Zenon DEF Undeliverable
<1>7. CASE ~ m.class.returnOnError
  <2>1. r = once BY <1>1, <1>7 DEF Reject
  <2>2. r.transfers = <<>> /\ Len(r.discards) <= 1 BY <1>5, <2>1
  <2> HIDE DEF r
  <2> QED BY <1>4, <1>7, <2>2 DEF Accounted, Quiet, Asked, r
<1>8. CASE m.class.returnOnError
  <2>1. r = Answer(once, label, m, sent) BY <1>1, <1>8 DEF Reject, ReturnMessage
  <2>2. Asked(m) BY <1>8 DEF Asked, Returnable
  <2>3. CASE sent = {}
    <3>1. \A type \in ServiceTypes(m) : FitReturn(type, m, cause, limit) = {} BY <2>3
    <3>2. Unreturnable(m, limit) BY <3>1, NoneFits DEF Unreturnable
    <3> HIDE DEF sent
    <3>3. r = [once EXCEPT !.discards = <<d, d>>] BY <1>2, <2>1, <2>3 DEF Answer
    <3>4. r.transfers = <<>> /\ r.discards = <<d, d>> BY <3>3
    <3>5. Len(r.discards) = 2 BY <1>5, <3>4
    <3>6. Undeliverable(r)
      <4> HIDE DEF r, d
      <4>1. 1 \in DOMAIN r.discards /\ r.discards[1] = d BY <3>4
      <4> QED BY <1>6, <4>1
    <3> HIDE DEF r
    <3> QED BY <1>4, <2>2, <3>2, <3>4, <3>5, <3>6 DEF Accounted, Returning, r
  <2>4. CASE sent # {}
    <3>1. Preferred(sent) \in sent
      <4> HIDE DEF sent
      <4> QED BY <2>4, PreferredIsSent
    <3>2. PICK type \in ServiceTypes(m) : Preferred(sent) \in FitReturn(type, m, cause, limit)
      BY <3>1
    <3>3. PICK n \in 0 .. Len(m.data) :
            /\ FitReturn(type, m, cause, limit) = Built(type, m, cause, limit, n)
            /\ \A k \in n + 1 .. Len(m.data) : Built(type, m, cause, limit, k) = {}
      BY FitReturnIs
    <3> HIDE DEF sent
    <3>4. Preferred(sent).message = ServiceFor(type, m, cause, Prefix(m, n))
      <4>1. Built(type, m, cause, limit, n) =
              {[message |-> ServiceFor(type, m, cause, Prefix(m, n)), octets |-> b] :
                 b \in Marshal(ServiceFor(type, m, cause, Prefix(m, n)), limit)}
        BY BuiltIs
      <4> QED BY <3>2, <3>3, <4>1
    <3>5. t.message = ServiceFor(type, m, cause, Prefix(m, n)) BY <3>4
    <3>6. r = [once EXCEPT !.transfers = <<t>>] BY <1>3, <2>1, <2>4 DEF Answer
    <3>7. /\ DOMAIN r.transfers = {1} /\ Len(r.transfers) = 1 /\ r.transfers[1] = t
          /\ r.discards = <<d>>
      <4> HIDE DEF t
      <4> QED BY <3>6
    <3>8. ~ Unreturnable(m, limit)
      <4>1. Built(type, m, cause, limit, n) # {} BY <3>2, <3>3
      <4>2. Built(type, m, cause, limit, 0) = {}
        <5>1. 0 \in 0 .. Len(m.data) BY LenProperties DEF Returnable
        <5> QED BY <5>1, NothingBuilt, TypesOfService DEF Returnable
      <4>3. n \in 1 .. Len(m.data)
        <5>1. n # 0 BY <4>1, <4>2
        <5>2. Len(m.data) \in Nat BY LenProperties DEF Returnable
        <5> QED BY <5>1, <5>2
      <4> QED BY <4>1, <4>3 DEF Unreturnable
    <3>9. Len(r.discards) = 1 BY <1>5, <3>7
    <3>10. Undeliverable(r)
      <4> HIDE DEF r, d
      <4>1. 1 \in DOMAIN r.discards /\ r.discards[1] = d BY <3>7
      <4> QED BY <1>6, <4>1
    <3> HIDE DEF r, t
    <3>11. Returned(r, m, limit) BY <3>3, <3>5, <3>7 DEF Returned
    <3> QED BY <1>4, <2>2, <3>7, <3>8, <3>9, <3>10, <3>11 DEF Accounted, Returning, r
  <2> QED BY <2>3, <2>4
<1> QED BY <1>7, <1>8

LEMMA AlertAccounted ==
    ASSUME NEW r, NEW type, NEW cause, NEW m, NEW limit, Accounted(r, m, limit),
           r = [transfers |-> r.transfers, indications |-> r.indications,
                discards |-> r.discards, handed |-> r.handed]
    PROVE  Accounted(AlertHopCounter(r, type, cause), m, limit)
<1> DEFINE a == AlertHopCounter(r, type, cause)
<1>1. a.discards = r.discards /\ a.transfers = r.transfers BY DEF AlertHopCounter, Indicate
<1> HIDE DEF a
<1> QED BY <1>1 DEF Accounted, Quiet, Undeliverable, Returning, Returned, a

LEMMA ReasonOfRoute ==
    ASSUME NEW called, NEW hop, NEW local, Route(called, hop, local).verdict = "discard"
    PROVE  Route(called, hop, local).reason # "undeliverable"
<1> DEFINE known == called.ssn \notin {{}, {0}}
<1>1. \A x : /\ Deliver(x).verdict = "deliver" /\ Return(x).verdict = "return"
             /\ Drop(x).reason = x
  BY DEF Deliver, Return, Drop
<1> HIDE DEF known
<1> QED BY <1>1, VerdictOfRoute DEF Route, known

LEMMA CauseOfRoute ==
    ASSUME NEW called, NEW hop, NEW local, Route(called, hop, local).verdict = "return"
    PROVE  Route(called, hop, local).cause \in {NoTranslation, HopCounterViolation}
<1> DEFINE known == called.ssn \notin {{}, {0}}
<1>1. \A x : /\ Deliver(x).verdict = "deliver" /\ Drop(x).verdict = "discard"
             /\ Return(x).cause = x
  BY DEF Deliver, Return, Drop
<1> HIDE DEF known
<1> QED BY <1>1, VerdictOfRoute DEF Route, known

LEMMA CauseIsCoded ==
    ASSUME NEW called, NEW hop, NEW local, NEW m, NEW status
    PROVE  The(RejectCause(Route(called, hop, local), m, status), 0) \in Causes
<1> DEFINE route == Route(called, hop, local)
           causes == RejectCause(route, m, status)
<1>1. causes \subseteq {NoTranslation, HopCounterViolation, UnequippedUser, SubsystemFailure}
  <2>1. \A ssn : SubsystemCause(status, ssn) \subseteq {UnequippedUser, SubsystemFailure}
    BY DEF SubsystemCause
  <2>2. route.verdict = "return" => route.cause \in {NoTranslation, HopCounterViolation}
    BY CauseOfRoute
  <2> HIDE DEF route
  <2> QED BY <2>1, <2>2 DEF RejectCause
<1>2. The(causes, 0) \in causes \cup {0} BY TheIs
<1> HIDE DEF causes
<1>3. The(causes, 0) \in
        {NoTranslation, HopCounterViolation, UnequippedUser, SubsystemFailure, 0}
  BY <1>1, <1>2
<1> QED BY <1>3 DEF causes, Causes, NoTranslation, HopCounterViolation, UnequippedUser,
                    SubsystemFailure

LEMMA QuietResults ==
    /\ \A type, reason : Quiet(Discard(NoResult, type, reason))
    /\ \A type, reason : reason # "undeliverable" => Silent(Discard(NoResult, type, reason))
    /\ \A component : Silent(Hand(NoResult, component))
    /\ \A indication : Silent(Indicate(NoResult, indication))
    /\ \A r, type, cause : Quiet(r) => Quiet(AlertHopCounter(r, type, cause))
<1>1. \A d : Len(<<d>>) = 1 /\ Len(<<>>) = 0 OBVIOUS
<1>2. ASSUME NEW type, NEW reason
      PROVE  LET r == Discard(NoResult, type, reason)
             IN Quiet(r) /\ (reason # "undeliverable" => Silent(r))
  <2> DEFINE d == [type |-> type, reason |-> reason]
             r == Discard(NoResult, type, reason)
  <2>1. r.transfers = <<>> /\ r.discards = <<d>> BY DiscardedFirst
  <2>2. d.reason = reason OBVIOUS
  <2> HIDE DEF r, d
  <2>3. DOMAIN r.discards = {1} /\ r.discards[1] = d BY <2>1
  <2> QED BY <1>1, <2>1, <2>2, <2>3 DEF Quiet, Silent, Undeliverable, r
<1>3. \A component : Silent(Hand(NoResult, component))
  BY <1>1 DEF Hand, NoResult, Quiet, Silent, Undeliverable
<1>4. \A indication : Silent(Indicate(NoResult, indication))
  BY <1>1 DEF Indicate, NoResult, Quiet, Silent, Undeliverable
<1>5. ASSUME NEW r, NEW type, NEW cause, Quiet(r) PROVE Quiet(AlertHopCounter(r, type, cause))
  BY <1>5 DEF AlertHopCounter, Indicate, Quiet
<1> QED BY <1>2, <1>3, <1>4, <1>5

LEMMA HandleUnitdataAccounted ==
    ASSUME NEW label, NEW m, Returnable(m), NEW local, NEW status, NEW limit \in Int
    PROVE  Accounted(HandleUnitdata(label, m, local, status, limit), m, limit)
<1> DEFINE route == Route(m.called, HopOf(m), local)
           causes == RejectCause(route, m, status)
           cause == The(causes, 0)
           rejected == Reject(NoResult, label, m, cause, limit)
           r == HandleUnitdata(label, m, local, status, limit)
<1>1. cause \in Causes BY CauseIsCoded
<1> HIDE DEF route, causes, cause, rejected
<1>2. \/ r = Discard(NoResult, m.type, "syntax")
      \/ route.verdict = "discard" /\ r = Discard(NoResult, m.type, route.reason)
      \/ r = AlertHopCounter(rejected, m.type, cause)
      \/ r = Hand(NoResult, "reassembly")
      \/ r = Indicate(NoResult, UnitdataIndication(m))
  BY DEF HandleUnitdata, route, causes, cause, rejected
<1> HIDE DEF r
<1>3. Accounted(AlertHopCounter(rejected, m.type, cause), m, limit)
  BY <1>1, RejectAccounted, AlertAccounted DEF rejected
<1>4. route.verdict = "discard" => route.reason # "undeliverable"
  BY ReasonOfRoute DEF route
<1>5. Silent(r) => Accounted(r, m, limit) BY DEF Silent, Accounted
<1>6. Accounted(r, m, limit) BY <1>2, <1>3, <1>4, <1>5, QuietResults
<1> QED BY <1>6 DEF r

LEMMA HandleServiceQuiet ==
    ASSUME NEW m, NEW local, NEW status
    PROVE  Quiet(HandleService(m, local, status))
<1> DEFINE route == Route(m.called, HopOf(m), local)
           undeliverable == Discard(NoResult, m.type, "undeliverable")
           r == HandleService(m, local, status)
<1>1. route.verdict \in {"deliver", "return", "discard"} BY VerdictOfRoute
<1> HIDE DEF route, undeliverable
<1>2. \/ r = Discard(NoResult, m.type, route.reason)
      \/ r = AlertHopCounter(undeliverable, m.type, route.cause)
      \/ r = undeliverable
      \/ r = Indicate(NoResult, NoticeIndication(m))
  BY <1>1 DEF HandleService, route, undeliverable
<1> HIDE DEF r
<1>3. Quiet(undeliverable) BY QuietResults DEF undeliverable
<1>4. Quiet(r) BY <1>2, <1>3, QuietResults DEF Silent
<1> QED BY <1>4 DEF r

(* What the octets b are read as is accounted for.                         *)
AllAccounted(r, b, limit) ==
    /\ ParseMessage(b) # {}
    /\ \A m \in ParseMessage(b) : Accounted(r, m, limit)

LEMMA HandleAccounted ==
    ASSUME NEW label, NEW b \in Seq(Octet), NEW local, NEW status, NEW limit \in Int,
           NEW r \in Handle(label, b, local, status, limit)
    PROVE  Silent(r) \/ AllAccounted(r, b, limit)
<1>1. CASE ~ ValidLabel(label)
  <2>1. r = Discard(NoResult, "octet", "invalid request") BY <1>1 DEF Handle
  <2> QED BY <2>1, QuietResults
<1>2. CASE ValidLabel(label) /\ ParseMessage(b) = {}
  <2>1. r = Discard(NoResult, "octet", "syntax") BY <1>2 DEF Handle
  <2> QED BY <2>1, QuietResults
<1>3. CASE ValidLabel(label) /\ ParseMessage(b) # {}
  <2>1. PICK m \in ParseMessage(b) : r = Dispatch(label, m, local, status, limit)
    BY <1>3 DEF Handle
  <2>2. \A n \in ParseMessage(b) : n.type \in Unitdata => n = m
    BY UnitdataReadOne DEF Unitdata
  <2>3. CASE m.type \in Unitdata
    <3>1. Returnable(m) BY <2>3, UnitdataIsRead DEF Returnable, Unitdata
    <3>2. Accounted(r, m, limit) BY <2>1, <2>3, <3>1, HandleUnitdataAccounted DEF Dispatch
    <3>3. ParseMessage(b) = {m} BY <2>3, UnitdataReadOne DEF Unitdata
    <3> QED BY <3>2, <3>3 DEF AllAccounted
  <2>4. CASE m.type \notin Unitdata /\ m.type \in Service
    <3>1. Quiet(r) BY <2>1, <2>4, HandleServiceQuiet DEF Dispatch
    <3>2. \A n \in ParseMessage(b) : ~ Asked(n) BY <2>2, <2>4 DEF Asked
    <3> QED BY <1>3, <3>1, <3>2 DEF AllAccounted, Accounted
  <2>5. CASE m.type \notin Unitdata /\ m.type \notin Service
    <3>1. r = Hand(NoResult, "connection") BY <2>1, <2>5 DEF Dispatch
    <3> QED BY <3>1, QuietResults
  <2> QED BY <2>3, <2>4, <2>5
<1> QED BY <1>1, <1>2, <1>3

-----------------------------------------------------------------------------
AccountedFor ==
    Silent(result) \/ \E b \in wire : AllAccounted(result, b, case.maxMessageSize)

(* What is on the wire is octets, and what came of them is accounted for.  *)
ReturnInv ==
    /\ case \in Cases
    /\ \A b \in wire : b \in Seq(Octet) /\ wire = {b}
    /\ ~ handled => Silent(result)
    /\ AccountedFor

LEMMA SizeIsInt == ReturnInv => case.maxMessageSize \in Int
<1> SUFFICES ASSUME ReturnInv PROVE case.maxMessageSize \in Int OBVIOUS
<1>1. case.maxMessageSize \in MinMessageSize .. MaxBroadbandMessageSize
  BY HandlingAssumption, Zenon DEF ReturnInv
<1>2. \A n \in MinMessageSize .. MaxBroadbandMessageSize : n \in Int
  BY DEF MinMessageSize, MaxBroadbandMessageSize
<1> QED BY <1>1, <1>2, Zenon

LEMMA ReturnInvStep == ReturnInv /\ [Next]_vars => ReturnInv'
<1> SUFFICES ASSUME ReturnInv, [Next]_vars PROVE ReturnInv' OBVIOUS
<1>1. ASSUME UNCHANGED <<case, wire, handled, result>> PROVE ReturnInv'
  <2>1. AccountedFor' = AccountedFor BY <1>1 DEF AccountedFor
  <2>2. Silent(result)' = Silent(result) BY <1>1
  <2> QED BY <1>1, <2>1, <2>2 DEF ReturnInv
<1>2. ASSUME NEW ssn \in Subsystems, RegisterSubsystem(ssn) PROVE ReturnInv'
  BY <1>1, <1>2 DEF RegisterSubsystem
<1>3. ASSUME NEW ssn \in Subsystems, UnregisterSubsystem(ssn) PROVE ReturnInv'
  BY <1>1, <1>3 DEF UnregisterSubsystem
<1>4. ASSUME NEW ssn \in Subsystems, NEW available \in BOOLEAN,
             SetSubsystemAvailable(ssn, available)
      PROVE  ReturnInv'
  BY <1>1, <1>4 DEF SetSubsystemAvailable
<1>5. ASSUME NEW b \in Seq(Octet), wire' = {b}, Silent(result),
             UNCHANGED <<case, handled, result>>
      PROVE  ReturnInv'
  <2>1. Silent(result)' BY <1>5
  <2>2. AccountedFor' BY <2>1 DEF AccountedFor
  <2> QED BY <1>5, <2>1, <2>2 DEF ReturnInv
<1>6. CASE Send
  <2>1. PICK b \in Marshal(case.message, MaxBroadbandMessageSize) : wire' = {b}
    BY <1>6 DEF Send
  <2>2. b \in Seq(Octet) BY HandlingAssumption DEF ReturnInv
  <2>3. Silent(result) BY <1>6 DEF Send, ReturnInv, AccountedFor
  <2>4. UNCHANGED <<case, handled, result>> BY <1>6 DEF Send
  <2> QED BY <1>5, <2>1, <2>2, <2>3, <2>4
<1>7. CASE Cut
  <2>1. PICK b \in wire : \E n \in 0 .. Len(b) - 1 : Altered("cut", SubSeq(b, 1, n))
    BY <1>7 DEF Cut
  <2>2. PICK n \in 0 .. Len(b) - 1 : Altered("cut", SubSeq(b, 1, n)) BY <2>1
  <2>3. b \in Seq(Octet) BY DEF ReturnInv
  <2>4. n \in 0 .. Len(b)
    <3>1. Len(b) \in Nat BY <2>3, LenProperties
    <3> QED BY <3>1
  <2>5. SubSeq(b, 1, n) \in Seq(Octet) BY <2>3, <2>4, PrefixLength
  <2> QED BY <1>5, <2>2, <2>5 DEF Altered, ReturnInv
<1>8. CASE ChangeOctet
  <2>1. PICK b \in wire :
          \E i \in DOMAIN b, v \in NewOctets : Altered("changed", [b EXCEPT ![i] = v])
    BY <1>8 DEF ChangeOctet
  <2>2. PICK i \in DOMAIN b, v \in NewOctets : Altered("changed", [b EXCEPT ![i] = v])
    BY <2>1
  <2>3. b \in Seq(Octet) /\ v \in Octet BY HandlingAssumption DEF ReturnInv
  <2>4. [b EXCEPT ![i] = v] \in Seq(Octet) BY <2>3, ExceptSeq
  <2> QED BY <1>5, <2>2, <2>4 DEF Altered, ReturnInv
<1>9. ASSUME NEW local \in BOOLEAN, HandleTransfer(local) PROVE ReturnInv'
  <2>1. handled' /\ wire' = wire /\ case' = case BY <1>9 DEF HandleTransfer
  <2>2. PICK b \in wire :
          result' \in Handle(case.label, b, local, subsystems, case.maxMessageSize)
    BY <1>9 DEF HandleTransfer
  <2>3. b \in Seq(Octet) BY DEF ReturnInv
  <2>4. case.maxMessageSize \in Int BY SizeIsInt
  <2>5. Silent(result') \/ AllAccounted(result', b, case.maxMessageSize)
    BY <2>2, <2>3, <2>4, HandleAccounted
  <2>6. AccountedFor' BY <2>1, <2>5 DEF AccountedFor
  <2> QED BY <2>1, <2>6 DEF ReturnInv
<1>10. CASE UNCHANGED vars BY <1>1, <1>10 DEF vars
<1> QED BY <1>2, <1>3, <1>4, <1>6, <1>7, <1>8, <1>9, <1>10 DEF Next

LEMMA ReturnInvAlways == Spec => []ReturnInv
<1>1. Init => ReturnInv
  <2>1. Silent(NoResult)
    <3>1. Len(<<>>) <= 1 OBVIOUS
    <3> QED BY <3>1 DEF Silent, Quiet, Undeliverable, NoResult
  <2> QED BY <2>1 DEF Init, ReturnInv, AccountedFor
<1> QED BY <1>1, ReturnInvStep, PTL DEF Spec

LEMMA ReceivedIs ==
    ASSUME ReturnInv, NEW b \in wire, NEW m \in ParseMessage(b), Returnable(m)
    PROVE  UNION {ParseMessage(w) : w \in wire} = {m}
<1>1. b \in Seq(Octet) /\ wire = {b} BY DEF ReturnInv
<1>2. ParseMessage(b) = {m} BY <1>1, UnitdataReadOne DEF Returnable, Unitdata
<1>3. UNION {ParseMessage(w) : w \in {b}} = ParseMessage(b) OBVIOUS
<1> QED BY <1>1, <1>2, <1>3

(* What the received message asked for, if it is sent back or reported.    *)
LEMMA ReturningIs ==
    ASSUME ReturnInv, NEW b \in wire, NEW m \in ParseMessage(b)
    PROVE  \/ Quiet(result) /\ ~ (Asked(m) /\ Undeliverable(result))
           \/ Returnable(m) /\ Returning(result, m, case.maxMessageSize)
<1>1. b \in Seq(Octet) /\ wire = {b} BY DEF ReturnInv
<1>2. Silent(result) \/ Accounted(result, m, case.maxMessageSize)
  BY <1>1 DEF ReturnInv, AccountedFor, AllAccounted
<1>3. Asked(m) => Returnable(m) BY <1>1, UnitdataIsRead DEF Asked, Returnable, Unitdata
<1> QED BY <1>2, <1>3 DEF Silent, Accounted, Returning

LEMMA SentBack ==
    ASSUME ReturnInv, result.transfers # <<>>
    PROVE  \E b \in wire : \E m \in ParseMessage(b) :
              Returnable(m) /\ Returned(result, m, case.maxMessageSize)
<1>1. ~ Quiet(result) BY DEF Quiet
<1>2. PICK b \in wire : AllAccounted(result, b, case.maxMessageSize)
  BY <1>1 DEF ReturnInv, AccountedFor, Silent
<1>3. PICK m \in ParseMessage(b) : TRUE BY <1>2 DEF AllAccounted
<1>4. Returnable(m) /\ Returning(result, m, case.maxMessageSize) BY <1>1, ReturningIs
<1> QED BY <1>4 DEF Returning

LEMMA ServiceWithData ==
    ASSUME NEW type \in Service, NEW m, NEW cause, NEW data, NEW other
    PROVE  /\ ServiceFor(type, m, cause, data).data = data
           /\ ServiceFor(type, m, cause, data).type = type
           /\ [ServiceFor(type, m, cause, data) EXCEPT !.data = other]
                = ServiceFor(type, m, cause, other)
<1>1. CASE type = "UDTS" BY <1>1 DEF ServiceFor
<1>2. CASE type # "UDTS"
  <2>1. ServiceFor(type, m, cause, data) =
            [type |-> type, cause |-> cause, hopCounter |-> HopCounter, called |-> m.calling,
             calling |-> m.called, data |-> data, segmentation |-> SegmentationOf(m),
             importance |-> {}, unrecognized |-> <<>>]
    BY <1>2 DEF ServiceFor
  <2>2. ServiceFor(type, m, cause, other) =
            [type |-> type, cause |-> cause, hopCounter |-> HopCounter, called |-> m.calling,
             calling |-> m.called, data |-> other, segmentation |-> SegmentationOf(m),
             importance |-> {}, unrecognized |-> <<>>]
    BY <1>2 DEF ServiceFor
  <2>3. [ServiceFor(type, m, cause, data) EXCEPT !.data = other]
            = ServiceFor(type, m, cause, other)
    <3> DEFINE called == m.calling
               calling == m.called
               segmentation == SegmentationOf(m)
               empty == {}
               none == <<>>
    <3> HIDE DEF called, calling, segmentation, empty, none
    <3>1. [[type |-> type, cause |-> cause, hopCounter |-> HopCounter, called |-> called,
            calling |-> calling, data |-> data, segmentation |-> segmentation,
            importance |-> empty, unrecognized |-> none] EXCEPT !.data = other]
            = [type |-> type, cause |-> cause, hopCounter |-> HopCounter, called |-> called,
               calling |-> calling, data |-> other, segmentation |-> segmentation,
               importance |-> empty, unrecognized |-> none]
      OBVIOUS
    <3> QED BY Zenon, <2>1, <2>2, <3>1 DEF called, calling, segmentation, empty, none
  <2>4. /\ ServiceFor(type, m, cause, data).data = data
        /\ ServiceFor(type, m, cause, data).type = type
    BY SMT, <2>1
  <2> QED BY <2>3, <2>4
<1> QED BY <1>1, <1>2

(* Whatever message comes back: it holds the longest prefix of the user    *)
(* data for which a service message of its type can be encoded within the  *)
(* maximum message size.  fitReturn says that fitting is monotonic in the  *)
(* length; here that follows from the layout of the message, its pointers  *)
(* and lengths of one or two octets included, for all octets that arrive,  *)
(* all addresses and all sizes, and the bisection from that.               *)
THEOREM LongestIsReturned == Spec => []LongestReturned
<1>1. ReturnInv => LongestReturned
  <2> SUFFICES ASSUME ReturnInv, NEW i \in DOMAIN result.transfers
               PROVE  LET sent == result.transfers[i].message
                          received == CHOOSE m \in UNION {ParseMessage(b) : b \in wire} : TRUE
                      IN /\ IsPrefix(sent.data, received.data)
                         /\ \A n \in Len(sent.data) + 1 .. Len(received.data) :
                              Marshal([sent EXCEPT !.data = SubSeq(received.data, 1, n)],
                                      case.maxMessageSize) = {}
    BY DEF LongestReturned
  <2> DEFINE limit == case.maxMessageSize
             sent == result.transfers[i].message
             parsed == UNION {ParseMessage(b) : b \in wire}
             received == CHOOSE m \in parsed : TRUE
  <2>1. result.transfers # <<>> OBVIOUS
  <2>2. PICK b \in wire : \E m \in ParseMessage(b) : Returnable(m) /\ Returned(result, m, limit)
    BY <2>1, SentBack
  <2>3. PICK m \in ParseMessage(b) : Returnable(m) /\ Returned(result, m, limit) BY <2>2
  <2>4. Returned(result, m, limit) BY <2>3
  <2>5. PICK type \in ServiceTypes(m), cause \in Causes, n \in 0 .. Len(m.data) :
          /\ DOMAIN result.transfers = {1}
          /\ result.transfers[1].message = ServiceFor(type, m, cause, Prefix(m, n))
          /\ \A k \in n + 1 .. Len(m.data) : Built(type, m, cause, limit, k) = {}
    BY <2>4 DEF Returned
  <2>6. sent = ServiceFor(type, m, cause, Prefix(m, n))
    <3>1. i = 1 BY <2>5
    <3> QED BY <2>5, <3>1
  <2>7. parsed = {m} BY <2>3, ReceivedIs
  <2>8. received = m
    <3> HIDE DEF parsed
    <3> QED BY <2>7
  <2>9. type \in Service BY <2>3, TypesOfService DEF Returnable
  <2>10. sent.data = Prefix(m, n) BY <2>6, <2>9, ServiceWithData
  <2>11. Len(Prefix(m, n)) = n BY <2>3, PrefixLength DEF Returnable, Prefix
  <2>12. IsPrefix(Prefix(m, n), m.data)
    <3>1. SubSeq(Prefix(m, n), 1, n) = Prefix(m, n)
      <4>1. Prefix(m, n) \in Seq(Octet) BY <2>3, PrefixLength DEF Returnable, Prefix
      <4> HIDE DEF Prefix
      <4> QED BY <2>11, <4>1
    <3>2. n <= Len(m.data)
      <4>1. Len(m.data) \in Nat BY <2>3, LenProperties DEF Returnable
      <4> QED BY <4>1
    <3> QED BY <2>11, <3>1, <3>2 DEF IsPrefix, Prefix
  <2>13. ASSUME NEW k \in n + 1 .. Len(m.data)
         PROVE  Marshal([sent EXCEPT !.data = Prefix(m, k)], limit) = {}
    <3>1. [sent EXCEPT !.data = Prefix(m, k)] = ServiceFor(type, m, cause, Prefix(m, k))
      BY <2>6, <2>9, ServiceWithData
    <3>2. Built(type, m, cause, limit, k) = {} BY <2>5
    <3> HIDE DEF sent, limit
    <3> QED BY <3>1, <3>2, BuiltIs
  <2>14. received = m => LET r == received
                         IN /\ IsPrefix(sent.data, r.data)
                            /\ \A k \in Len(sent.data) + 1 .. Len(r.data) :
                                 Marshal([sent EXCEPT !.data = SubSeq(r.data, 1, k)], limit) = {}
    <3> HIDE DEF sent, received, limit
    <3> QED BY <2>10, <2>11, <2>12, <2>13 DEF Prefix
  <2> QED BY <2>8, <2>14
<1> QED BY <1>1, ReturnInvAlways, PTL

(* A message that asked for its return and cannot be delivered comes back  *)
(* if and only if some prefix of its data fits a service message that may  *)
(* carry it; it is reported a second time if and only if none does, and no *)
(* other message is sent back or reported twice: for all octets that       *)
(* arrive, all addresses, subsystems and sizes.  The bisection ends with   *)
(* no data when no prefix fits, because fitting is monotonic.              *)
THEOREM ReturnedIfPossible == Spec => []ReturnedOrReported
<1>1. ReturnInv => ReturnedOrReported
  <2> DEFINE limit == case.maxMessageSize
             fits(m) == \E type \in ServiceTypes(m), n \in 1 .. Len(m.data) :
                           Built(type, m, NoTranslation, limit, n) # {}
             due(m) == Asked(m) /\ Undeliverable(result)
  <2> SUFFICES ASSUME ReturnInv, NEW b \in wire, NEW m \in ParseMessage(b)
               PROVE  /\ Len(result.transfers) = 1 <=> due(m) /\ fits(m)
                      /\ Len(result.discards) = 2 <=> due(m) /\ ~ fits(m)
    BY DEF ReturnedOrReported, Undeliverable
  <2> HIDE DEF limit, fits, due
  <2>1. CASE Quiet(result) /\ ~ due(m)
    <3>1. Len(result.transfers) # 1
      <4>1. Len(<<>>) # 1 OBVIOUS
      <4> QED BY <2>1, <4>1 DEF Quiet
    <3>2. Len(result.discards) # 2
      <4>1. ~ (2 <= 1) OBVIOUS
      <4> QED BY <2>1, <4>1, Zenon DEF Quiet
    <3> QED BY Zenon, <2>1, <3>1, <3>2
  <2>2. CASE Returnable(m) /\ Returning(result, m, limit)
    <3>1. due(m) BY <2>2, Zenon DEF Returning, due
    <3>2. limit \in Int BY SizeIsInt DEF limit
    <3>3. fits(m) <=> ~ Unreturnable(m, limit)
      <4>1. ~ Unreturnable(m, limit) <=>
              \E type \in ServiceTypes(m), n \in 1 .. Len(m.data) :
                 Built(type, m, NoTranslation, limit, n) # {}
        BY <2>2, <3>2, FitsWhateverCause
      <4> QED BY <4>1, Zenon DEF fits
    <3>4. CASE Unreturnable(m, limit)
      <4>1. Len(result.discards) = 2 /\ result.transfers = <<>> BY <2>2, <3>4 DEF Returning
      <4>2. Len(<<>>) # 1 OBVIOUS
      <4>3. Len(result.transfers) # 1 BY <4>1, <4>2
      <4> QED BY Zenon, <3>1, <3>3, <3>4, <4>1, <4>3
    <3>5. CASE ~ Unreturnable(m, limit)
      <4>1. Len(result.discards) = 1 /\ Len(result.transfers) = 1 BY <2>2, <3>5 DEF Returning
      <4>2. Len(result.discards) # 2 BY <4>1
      <4> QED BY Zenon, <3>1, <3>3, <3>5, <4>1, <4>2
    <3> QED BY <3>4, <3>5
  <2> QED BY Zenon, <2>1, <2>2, ReturningIs DEF limit, due
<1> QED BY <1>1, ReturnInvAlways, PTL

=============================================================================
