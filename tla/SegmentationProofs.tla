------------------------- MODULE SegmentationProofs -------------------------
(***************************************************************************)
(* Proofs, for every value of the constants, about Segmentation.           *)
(***************************************************************************)
EXTENDS SegmentationProperties, SequenceTheorems, FiniteSetTheorems, SetProofs, TLAPS

Freezes == Thawed .. SegmentationReferenceFreeze

Entry == [ref : SegReference, left : Freezes]

(* TypeOK, with the frozen references a list of entries.                   *)
Typed ==
    /\ nextReference \in SegReference
    /\ DOMAIN frozen \subseteq SegReference
    /\ frozen \in [DOMAIN frozen -> Freezes]
    /\ order \in Seq(Entry)
    /\ sinceUsed \in [SegReference -> Nat]

(* OrderAgrees, entry by entry.                                            *)
Agree ==
    /\ \A i, j \in DOMAIN order : order[i].ref = order[j].ref => i = j
    /\ \A i \in DOMAIN order :
          order[i].ref \in DOMAIN frozen /\ frozen[order[i].ref] = order[i].left
    /\ \A r \in DOMAIN frozen : \E i \in DOMAIN order : order[i].ref = r

(* How long ago the reference of an entry was allocated.                   *)
Used(i) == sinceUsed[order[i].ref]

(* What an entry says of the age of its reference: the freeze began at its *)
(* allocation, by a clock that was at most MaxLag old.                     *)
Ages ==
    \A i \in DOMAIN order :
        /\ order[i].left + Used(i) >= SegmentationReferenceFreeze - MaxLag
        /\ order[i].left > Thawed
              => order[i].left + Used(i) <= SegmentationReferenceFreeze

(* The list is in the order of the allocations.                            *)
Sorted == \A i, j \in DOMAIN order : i <= j => Used(j) <= Used(i)

(* A reference that is not frozen was not used for long.                   *)
UsedLongAgo ==
    \A r \in SegReference \ DOMAIN frozen :
        sinceUsed[r] >= SegmentationReferenceFreeze - MaxLag

(* What the next allocation finds.                                         *)
Kept == Typed /\ Agree /\ Ages /\ Sorted /\ UsedLongAgo

Inv == Kept /\ FreezeKept /\ ExhaustedOnlyWhenFrozen

LEMMA ConstantsTyped ==
    /\ MaxReference \in Nat /\ MaxLag \in Nat
    /\ SegmentationReferenceFreeze \in Nat /\ SegmentationReferenceFreeze > 0
    /\ Thawed \in Int /\ Thawed = -MaxLag
BY SegmentationAssumption DEF Thawed

LEMMA ReferenceWraps ==
    ASSUME NEW n \in Nat
    PROVE  n % (MaxReference + 1) \in SegReference
<1>1. MaxReference + 1 \in Nat /\ MaxReference + 1 > 0 BY ConstantsTyped
<1>2. ASSUME NEW a \in Nat, NEW b \in Nat, b > 0 PROVE a % b \in 0 .. b - 1
  BY <1>2
<1>3. n % (MaxReference + 1) \in 0 .. (MaxReference + 1) - 1
  BY <1>1, <1>2
<1> QED BY <1>3, ConstantsTyped DEF SegReference

LEMMA EntriesTyped ==
    ASSUME Kept, NEW i \in DOMAIN order
    PROVE  /\ Len(order) \in Nat /\ DOMAIN order = 1 .. Len(order)
           /\ order[i].ref \in SegReference /\ order[i].left \in Freezes
           /\ order[i] \in Entry /\ order[i].left \in Int /\ Used(i) \in Nat
<1>1. order \in Seq(Entry) BY DEF Kept, Typed
<1>2. Len(order) \in Nat /\ DOMAIN order = 1 .. Len(order) BY <1>1
<1>3. order[i] \in Entry BY <1>1
<1>4. order[i].ref \in SegReference /\ order[i].left \in Freezes BY <1>3 DEF Entry
<1>5. Used(i) \in Nat BY <1>4 DEF Kept, Typed, Used
<1> QED BY <1>2, <1>3, <1>4, <1>5, ConstantsTyped DEF Freezes

LEMMA InitKept == Init => Kept /\ FreezeKept /\ ExhaustedOnlyWhenFrozen
<1> SUFFICES ASSUME Init PROVE Kept /\ FreezeKept /\ ExhaustedOnlyWhenFrozen OBVIOUS
<1>1. nextReference \in SegReference BY ReferenceWraps DEF Init
<1>2. DOMAIN frozen = {} /\ frozen \in [DOMAIN frozen -> Freezes] BY DEF Init
<1>3. order \in Seq(Entry) /\ DOMAIN order = {} BY DEF Init
<1>4. \A r \in SegReference :
        sinceUsed[r] \in Nat /\ sinceUsed[r] >= SegmentationReferenceFreeze - MaxLag
  BY ConstantsTyped DEF Init
<1>5. sinceUsed \in [SegReference -> Nat] BY ConstantsTyped DEF Init
<1>6. Typed /\ Agree /\ Ages /\ Sorted /\ UsedLongAgo
  BY <1>1, <1>2, <1>3, <1>4, <1>5 DEF Typed, Agree, Ages, Sorted, UsedLongAgo
<1>7. request.type = "none" BY DEF Init, NoRequest
<1> QED BY <1>6, <1>7 DEF Kept, FreezeKept, ExhaustedOnlyWhenFrozen

(* Time passes.                                                            *)
LEMMA TickKept == ASSUME Kept, Tick PROVE Kept'
<1> USE ConstantsTyped
<1>1. \A i \in DOMAIN order :
        /\ order[i] \in Entry
        /\ order[i].ref \in SegReference /\ order[i].left \in Freezes
        /\ Used(i) \in Nat
  BY EntriesTyped
<1>2. DOMAIN order' = DOMAIN order /\ DOMAIN frozen' = DOMAIN frozen BY DEF Tick
<1>3. \A i \in DOMAIN order :
        order'[i].ref = order[i].ref /\ order'[i].left = Floor(order[i].left)
  BY <1>1 DEF Tick, Entry
<1>4. \A n \in Freezes : Floor(n) \in Freezes /\ (n > Thawed => Floor(n) = n - 1)
                         /\ (Floor(n) > Thawed => n > Thawed) /\ Floor(n) >= n - 1
                         /\ (~ (n > Thawed) => Floor(n) = Thawed)
  BY DEF Floor, Freezes
<1>5. \A r \in SegReference : sinceUsed'[r] = Longer(sinceUsed[r]) BY DEF Tick
<1>6. \A n \in Nat : Longer(n) \in Nat /\ n <= Longer(n) /\ Longer(n) <= n + 1
                     /\ (Longer(n) = n + 1 \/ n >= SegmentationReferenceFreeze + MaxLag)
  BY DEF Longer
<1>7. \A m, n \in Nat : m <= n => Longer(m) <= Longer(n) BY DEF Longer
<1>8. Typed'
  <2>1. frozen' \in [DOMAIN frozen' -> Freezes]
    BY <1>2, <1>4 DEF Kept, Typed, Tick
  <2>2. order' \in Seq(Entry)
    <3>1. Len(order) \in Nat /\ DOMAIN order = 1 .. Len(order) BY DEF Kept, Typed
    <3>2. \A i \in 1 .. Len(order) : [order[i] EXCEPT !.left = Floor(@)] \in Entry
      BY <3>1, <1>1, <1>4 DEF Entry
    <3>3. order' = [i \in 1 .. Len(order) |-> [order[i] EXCEPT !.left = Floor(@)]]
      BY <3>1 DEF Tick
    <3> QED BY <3>1, <3>2, <3>3
  <2>3. sinceUsed' \in [SegReference -> Nat] BY <1>6 DEF Kept, Typed, Tick
  <2> QED BY <2>1, <2>2, <2>3, <1>2 DEF Kept, Typed, Tick
<1>9. Agree'
  <2>1. \A r \in DOMAIN frozen : frozen'[r] = Floor(frozen[r]) BY DEF Tick
  <2> QED BY <2>1, <1>2, <1>3 DEF Kept, Agree
<1>10. \A i \in DOMAIN order : Used(i)' = Longer(Used(i))
  BY <1>1, <1>2, <1>3, <1>5 DEF Used
<1>11. Ages'
  <2> SUFFICES ASSUME NEW i \in DOMAIN order
               PROVE  /\ order'[i].left + Used(i)' >= SegmentationReferenceFreeze - MaxLag
                      /\ order'[i].left > Thawed
                           => order'[i].left + Used(i)' <= SegmentationReferenceFreeze
    BY <1>2 DEF Ages
  <2> DEFINE n == order[i].left
             u == Used(i)
  <2>1. n \in Freezes /\ u \in Nat BY <1>1
  <2>2. order'[i].left = Floor(n) /\ Used(i)' = Longer(u) BY <1>3, <1>10
  <2>3. n + u >= SegmentationReferenceFreeze - MaxLag
        /\ (n > Thawed => n + u <= SegmentationReferenceFreeze)
    BY DEF Kept, Ages
  <2> HIDE DEF n, u
  <2>4. CASE n > Thawed
    BY <2>1, <2>2, <2>3, <2>4, <1>4, <1>6 DEF Freezes
  <2>5. CASE ~ (n > Thawed)
    BY <2>1, <2>2, <2>3, <2>5, <1>4, <1>6 DEF Freezes
  <2> QED BY <2>4, <2>5
<1>12. Sorted' BY <1>1, <1>2, <1>7, <1>10 DEF Kept, Sorted
<1>13. UsedLongAgo'
  <2> SUFFICES ASSUME NEW r \in SegReference, r \notin DOMAIN frozen
               PROVE  sinceUsed'[r] >= SegmentationReferenceFreeze - MaxLag
    BY <1>2 DEF UsedLongAgo
  <2>1. sinceUsed[r] \in Nat /\ sinceUsed[r] >= SegmentationReferenceFreeze - MaxLag
    BY DEF Kept, Typed, UsedLongAgo
  <2> QED BY <2>1, <1>5, <1>6
<1> QED BY <1>8, <1>9, <1>11, <1>12, <1>13 DEF Kept

(* Where the loop over the order stops: every entry before is over, and    *)
(* the next one, if there is one, is not.                                  *)
LEMMA PrefixStops ==
    ASSUME Kept, NEW age \in 0 .. MaxLag
    PROVE  /\ ThawedPrefix(age) \in 0 .. Len(order)
           /\ \A j \in 1 .. ThawedPrefix(age) : Over(order[j].left, age)
           /\ ThawedPrefix(age) < Len(order) => ~ Over(order[ThawedPrefix(age) + 1].left, age)
<1> DEFINE Stops(i) == i < Len(order) => ~ Over(order[i + 1].left, age)
           S == {i \in 0 .. Len(order) : Stops(i)}
<1>1. Len(order) \in Nat BY DEF Kept, Typed
<1>2. S \subseteq Nat /\ Len(order) \in S BY <1>1
<1>3. PICK i \in S : \A m \in S : i <= m
  <2> HIDE DEF S
  <2> QED BY <1>2, SmallestOfNaturals
<1>4. \A j \in 1 .. i : Over(order[j].left, age)
  <2> SUFFICES ASSUME NEW j \in 1 .. i PROVE Over(order[j].left, age) OBVIOUS
  <2>1. i \in 0 .. Len(order) BY <1>3
  <2>2. j - 1 \in 0 .. Len(order) /\ j - 1 < i /\ (j - 1) + 1 = j /\ j - 1 < Len(order)
    BY <2>1, <1>1
  <2>3. j - 1 \notin S
    <3> HIDE DEF S
    <3> QED BY <2>1, <2>2, <1>3
  <2>4. ~ Stops(j - 1) BY <2>2, <2>3
  <2> QED BY <2>2, <2>4
<1>5. \E k \in 0 .. Len(order) :
        /\ \A j \in 1 .. k : Over(order[j].left, age)
        /\ k < Len(order) => ~ Over(order[k + 1].left, age)
  BY <1>3, <1>4
<1> QED BY <1>5 DEF ThawedPrefix

(* What is still frozen is what the remaining order lists.                 *)
LEMMA StillFrozenListed ==
    ASSUME Kept, NEW age \in 0 .. MaxLag
    PROVE  /\ StillFrozen(age) \subseteq DOMAIN frozen
           /\ \A i \in DOMAIN order :
                 order[i].ref \in StillFrozen(age) <=> i > ThawedPrefix(age)
           /\ \A r \in DOMAIN frozen \ StillFrozen(age) : frozen[r] <= -age
<1> DEFINE p == ThawedPrefix(age)
<1>1. p \in 0 .. Len(order) /\ Len(order) \in Nat BY PrefixStops DEF Kept, Typed
<1>2. DOMAIN order = 1 .. Len(order) BY DEF Kept, Typed
<1>3. ThawedReferences(age) = {order[j].ref : j \in 1 .. p}
  <2>1. \A j \in 1 .. p : j \in DOMAIN order BY <1>1, <1>2
  <2>2. {i \in 1 .. p : order[i].ref \in DOMAIN frozen
                        /\ frozen[order[i].ref] = order[i].left} = 1 .. p
    BY <2>1 DEF Kept, Agree
  <2> QED BY <2>2 DEF ThawedReferences
<1>4. ASSUME NEW i \in DOMAIN order
      PROVE  order[i].ref \in StillFrozen(age) <=> i > p
  <2>1. order[i].ref \in DOMAIN frozen BY DEF Kept, Agree
  <2>2. CASE i > p
    <3>1. order[i].ref \notin ThawedReferences(age)
      <4> SUFFICES ASSUME NEW j \in 1 .. p, order[j].ref = order[i].ref PROVE FALSE
        BY <1>3
      <4>1. j \in DOMAIN order /\ j # i BY <1>1, <1>2, <2>2
      <4> QED BY <4>1 DEF Kept, Agree
    <3> QED BY <3>1, <2>1, <2>2 DEF StillFrozen
  <2>3. CASE ~ (i > p)
    <3>1. i \in 1 .. p BY <2>3, <1>1, <1>2
    <3> QED BY <3>1, <1>3, <2>3 DEF StillFrozen
  <2> QED BY <2>2, <2>3
<1>5. ASSUME NEW r \in DOMAIN frozen \ StillFrozen(age)
      PROVE  frozen[r] <= -age
  <2>1. PICK j \in 1 .. p : r = order[j].ref BY <1>3 DEF StillFrozen
  <2>2. j \in DOMAIN order BY <1>1, <1>2
  <2> QED BY <2>1, <2>2, PrefixStops DEF Kept, Agree, Over
<1> QED BY <1>4, <1>5 DEF StillFrozen

(* A reference that an allocation may take was not used for long.          *)
LEMMA FreeIsOld ==
    ASSUME Kept, NEW age \in 0 .. MaxLag, NEW r \in SegReference, r \notin StillFrozen(age)
    PROVE  sinceUsed[r] >= SegmentationReferenceFreeze - MaxLag
<1>1. CASE r \notin DOMAIN frozen BY <1>1 DEF Kept, UsedLongAgo
<1>2. CASE r \in DOMAIN frozen
  <2>1. frozen[r] <= -age BY <1>2, StillFrozenListed
  <2>2. PICK i \in DOMAIN order : order[i].ref = r BY <1>2 DEF Kept, Agree
  <2>3. order[i].left = frozen[r] /\ Used(i) = sinceUsed[r]
    BY <2>2 DEF Kept, Agree, Used
  <2>4. order[i].left \in Int /\ Used(i) \in Nat BY EntriesTyped
  <2>5. order[i].left + Used(i) >= SegmentationReferenceFreeze - MaxLag
    BY DEF Kept, Ages
  <2> QED BY <2>1, <2>3, <2>4, <2>5, ConstantsTyped
<1> QED BY <1>1, <1>2

(* A reference that is still frozen was used within the freeze: the entry  *)
(* the loop stopped at was, and all behind it later still.                 *)
LEMMA StillFrozenIsYoung ==
    ASSUME Kept, NEW age \in 0 .. MaxLag, NEW r \in StillFrozen(age)
    PROVE  sinceUsed[r] < SegmentationReferenceFreeze + age
<1> DEFINE p == ThawedPrefix(age)
<1>1. PICK i \in DOMAIN order : order[i].ref = r /\ i > p
  BY StillFrozenListed DEF Kept, Agree
<1>2. Len(order) \in Nat /\ DOMAIN order = 1 .. Len(order) BY EntriesTyped, <1>1
<1>3. p \in 0 .. Len(order) BY PrefixStops
<1>4. p + 1 \in DOMAIN order /\ p + 1 <= i /\ p < Len(order)
  BY <1>1, <1>2, <1>3
<1>5. ~ (order[p + 1].left <= -age) BY <1>4, PrefixStops DEF Over
<1>6. order[p + 1].left \in Int /\ Used(p + 1) \in Nat /\ Used(i) \in Nat
  BY <1>1, <1>4, EntriesTyped
<1>7. order[p + 1].left > Thawed BY <1>5, <1>6, ConstantsTyped
<1>8. order[p + 1].left + Used(p + 1) <= SegmentationReferenceFreeze
  BY <1>4, <1>7 DEF Kept, Ages
<1>9. Used(i) <= Used(p + 1) BY <1>1, <1>4 DEF Kept, Sorted
<1>10. sinceUsed[r] = Used(i) BY <1>1 DEF Used
<1> HIDE DEF p
<1> QED BY <1>5, <1>6, <1>8, <1>9, <1>10, ConstantsTyped

(* When no reference is left, every one is still frozen.                   *)
LEMMA ExhaustedIsAll ==
    ASSUME Kept, NEW age \in 0 .. MaxLag, Exhausted(age)
    PROVE  StillFrozen(age) = SegReference
<1>1. IsFiniteSet(SegReference) /\ Cardinality(SegReference) = MaxReference + 1
  BY FS_Interval, ConstantsTyped DEF SegReference
<1>2. StillFrozen(age) \subseteq SegReference
  BY DEF Kept, Typed, StillFrozen
<1>3. /\ IsFiniteSet(StillFrozen(age))
      /\ Cardinality(StillFrozen(age)) <= Cardinality(SegReference)
      /\ Cardinality(SegReference) = Cardinality(StillFrozen(age))
           => SegReference = StillFrozen(age)
  BY <1>1, <1>2, FS_Subset
<1>4. Cardinality(StillFrozen(age)) \in Nat BY <1>3, FS_CardinalityType
<1> QED BY <1>1, <1>3, <1>4, ConstantsTyped DEF Exhausted

(* The entries of the remaining order are those behind the loop's stop.    *)
LEMMA RemainingEntries ==
    ASSUME Kept, NEW age \in 0 .. MaxLag
    PROVE  LET p == ThawedPrefix(age)
               rem == RemainingOrder(age)
           IN  /\ rem \in Seq(Entry)
               /\ Len(rem) = Len(order) - p
               /\ \A i \in 1 .. Len(rem) : p + i \in DOMAIN order /\ rem[i] = order[p + i]
<1> DEFINE p == ThawedPrefix(age)
           rem == RemainingOrder(age)
<1>1. Len(order) \in Nat /\ p \in 0 .. Len(order) /\ order \in Seq(Entry)
      /\ DOMAIN order = 1 .. Len(order)
  BY PrefixStops DEF Kept, Typed
<1>2. rem = SubSeq(order, p + 1, Len(order)) BY DEF RemainingOrder
<1> HIDE DEF p, rem
<1>3. \A i \in p + 1 .. Len(order) : order[i] \in Entry BY <1>1
<1>4. /\ rem \in Seq(Entry)
      /\ Len(rem) = IF p + 1 <= Len(order) THEN Len(order) - (p + 1) + 1 ELSE 0
      /\ \A i \in 1 .. Len(order) - (p + 1) + 1 : rem[i] = order[(p + 1) + i - 1]
  BY <1>1, <1>2, <1>3, SubSeqProperties
<1>5. Len(rem) = Len(order) - p
  <2>1. CASE p + 1 <= Len(order) BY <2>1, <1>1, <1>4
  <2>2. CASE ~ (p + 1 <= Len(order))
    <3>1. p \in Int /\ Len(order) \in Int /\ p <= Len(order) BY <1>1
    <3>2. p = Len(order) BY <2>2, <3>1
    <3>3. Len(rem) = 0 BY <2>2, <1>4
    <3> QED BY <3>1, <3>2, <3>3
  <2> QED BY <2>1, <2>2
<1>6. ASSUME NEW i \in 1 .. Len(rem) PROVE p + i \in DOMAIN order /\ rem[i] = order[p + i]
  <2>1. i \in 1 .. Len(order) - (p + 1) + 1 /\ (p + 1) + i - 1 = p + i
    BY <1>1, <1>5
  <2>2. p + i \in 1 .. Len(order) BY <1>1, <1>5
  <2> QED BY <2>1, <2>2, <1>1, <1>4
<1> QED BY <1>4, <1>5, <1>6 DEF p, rem

(* No reference is left: the freezes that are over end.                    *)
LEMMA FindKept ==
    ASSUME Kept, NEW n, NEW age \in 0 .. MaxLag, FindNoReference(n, age)
    PROVE  Kept' /\ FreezeKept' /\ ExhaustedOnlyWhenFrozen'
<1> DEFINE p == ThawedPrefix(age)
           rem == RemainingOrder(age)
           still == StillFrozen(age)
<1>1. /\ rem \in Seq(Entry)
      /\ Len(rem) = Len(order) - p
      /\ \A i \in 1 .. Len(rem) : p + i \in DOMAIN order /\ rem[i] = order[p + i]
  BY RemainingEntries
<1>2. p \in Nat /\ Len(order) \in Nat /\ DOMAIN order = 1 .. Len(order)
  BY PrefixStops DEF Kept, Typed
<1>3. /\ still \subseteq DOMAIN frozen
      /\ \A i \in DOMAIN order : order[i].ref \in still <=> i > p
  BY StillFrozenListed
<1>4. still = SegReference BY ExhaustedIsAll DEF FindNoReference
<1>5. \A r \in SegReference : sinceUsed[r] < SegmentationReferenceFreeze + age
  BY <1>4, StillFrozenIsYoung
<1>6. frozen' = [r \in still |-> frozen[r]] /\ order' = rem
      /\ nextReference' = nextReference /\ sinceUsed' = sinceUsed
      /\ request' = Exhaustion(n, age)
  BY DEF FindNoReference
<1> HIDE DEF p, rem, still
<1>7. DOMAIN order' = 1 .. Len(rem) /\ Len(rem) \in Nat BY <1>1, <1>6
<1>8. \A i \in DOMAIN order' :
        p + i \in DOMAIN order /\ order'[i] = order[p + i] /\ Used(i)' = Used(p + i)
  BY <1>1, <1>6, <1>7 DEF Used
<1>9. Typed' BY <1>1, <1>3, <1>6 DEF Kept, Typed
<1>10. Agree'
  <2>1. \A i, j \in DOMAIN order' : order'[i].ref = order'[j].ref => i = j
    <3> SUFFICES ASSUME NEW i \in DOMAIN order', NEW j \in DOMAIN order',
                        order'[i].ref = order'[j].ref
                 PROVE  i = j
      OBVIOUS
    <3>1. p + i = p + j BY <1>8 DEF Kept, Agree
    <3> QED BY <3>1, <1>2, <1>7
  <2>2. \A i \in DOMAIN order' :
          order'[i].ref \in DOMAIN frozen' /\ frozen'[order'[i].ref] = order'[i].left
    <3> SUFFICES ASSUME NEW i \in DOMAIN order'
                 PROVE  order[p + i].ref \in still
                        /\ frozen[order[p + i].ref] = order[p + i].left
      BY <1>6, <1>8
    <3>1. p + i > p BY <1>2, <1>7
    <3> QED BY <3>1, <1>3, <1>8 DEF Kept, Agree
  <2>3. \A r \in DOMAIN frozen' : \E i \in DOMAIN order' : order'[i].ref = r
    <3> SUFFICES ASSUME NEW r \in still PROVE \E i \in DOMAIN order' : order'[i].ref = r
      BY <1>6
    <3>1. PICK k \in DOMAIN order : order[k].ref = r BY <1>3 DEF Kept, Agree
    <3>2. k > p BY <3>1, <1>3
    <3>3. k - p \in 1 .. Len(rem) /\ p + (k - p) = k BY <3>1, <3>2, <1>1, <1>2
    <3> QED BY <3>1, <3>3, <1>7, <1>8
  <2> QED BY <2>1, <2>2, <2>3 DEF Agree
<1>11. Ages' BY <1>8 DEF Kept, Ages
<1>12. Sorted'
  <2> SUFFICES ASSUME NEW i \in DOMAIN order', NEW j \in DOMAIN order', i <= j
               PROVE  Used(p + j) <= Used(p + i)
    BY <1>8 DEF Sorted
  <2>1. p + i <= p + j BY <1>2, <1>7
  <2> QED BY <2>1, <1>8 DEF Kept, Sorted
<1>13. UsedLongAgo' BY <1>4, <1>6 DEF UsedLongAgo
<1>14. request'.type = "exhausted" /\ request'.lag = age BY <1>6 DEF Exhaustion
<1>15. FreezeKept' /\ ExhaustedOnlyWhenFrozen'
  BY <1>5, <1>6, <1>14 DEF FreezeKept, ExhaustedOnlyWhenFrozen
<1> QED BY <1>9, <1>10, <1>11, <1>12, <1>13, <1>15 DEF Kept

(* A reference is allocated: its entry is the last of the list, and the    *)
(* youngest.                                                               *)
LEMMA AllocateKept ==
    ASSUME Kept, NEW age \in 0 .. MaxLag, NEW ref \in SegReference,
           Allocates(ref, age), FreezeReference(ref, age)
    PROVE  Kept'
<1> DEFINE p == ThawedPrefix(age)
           rem == RemainingOrder(age)
           still == StillFrozen(age)
           ends == SegmentationReferenceFreeze - age
           new == [ref |-> ref, left |-> ends]
<1>1. /\ rem \in Seq(Entry)
      /\ Len(rem) = Len(order) - p
      /\ \A i \in 1 .. Len(rem) : p + i \in DOMAIN order /\ rem[i] = order[p + i]
  BY RemainingEntries
<1>2. p \in Nat /\ Len(order) \in Nat /\ DOMAIN order = 1 .. Len(order)
  BY PrefixStops DEF Kept, Typed
<1>3. /\ still \subseteq DOMAIN frozen /\ still \subseteq SegReference
      /\ \A i \in DOMAIN order : order[i].ref \in still <=> i > p
  BY StillFrozenListed DEF Kept, Typed
<1>4. ref \notin still BY DEF Allocates
<1>5. ends \in Freezes /\ ends \in Int
      /\ SegmentationReferenceFreeze - MaxLag <= ends /\ ends <= SegmentationReferenceFreeze
  BY ConstantsTyped DEF Freezes
<1>6. new \in Entry BY <1>5 DEF Entry
<1>7. /\ frozen' = [r \in still \cup {ref} |-> IF r = ref THEN ends ELSE frozen[r]]
      /\ order' = Append(rem, new)
      /\ nextReference' = NextAfter(ref)
      /\ sinceUsed' = [sinceUsed EXCEPT ![ref] = 0]
  BY DEF FreezeReference
<1>8. /\ \A r \in SegReference \ {ref} : sinceUsed'[r] = sinceUsed[r]
      /\ sinceUsed'[ref] = 0
  BY <1>7 DEF Kept, Typed
<1>10. \A r2 \in SegReference \ still :
        sinceUsed[r2] >= SegmentationReferenceFreeze - MaxLag
  BY FreeIsOld
<1>11. new.ref = ref /\ new.left = ends OBVIOUS
<1> HIDE DEF p, rem, still, ends, new
<1>12. /\ order' \in Seq(Entry) /\ Len(order') = Len(rem) + 1 /\ Len(rem) \in Nat
       /\ DOMAIN order' = 1 .. Len(rem) + 1
       /\ order'[Len(rem) + 1] = new
       /\ \A i \in 1 .. Len(rem) : order'[i] = rem[i]
  <2>1. /\ order' \in Seq(Entry) /\ Len(order') = Len(rem) + 1
        /\ order'[Len(rem) + 1] = new
        /\ \A i \in 1 .. Len(rem) : order'[i] = rem[i]
    BY <1>1, <1>6, <1>7, AppendProperties
  <2>2. Len(rem) \in Nat BY <1>1
  <2>3. DOMAIN order' = 1 .. Len(order') BY <2>1
  <2> QED BY <2>1, <2>2, <2>3
<1>13. \A i \in 1 .. Len(rem) :
        /\ p + i \in DOMAIN order /\ order'[i] = order[p + i]
        /\ order[p + i].ref \in still /\ order[p + i].ref # ref
        /\ Used(i)' = Used(p + i)
  <2> SUFFICES ASSUME NEW i \in 1 .. Len(rem)
               PROVE  /\ p + i \in DOMAIN order /\ order'[i] = order[p + i]
                      /\ order[p + i].ref \in still /\ order[p + i].ref # ref
                      /\ Used(i)' = Used(p + i)
    OBVIOUS
  <2>1. p + i \in DOMAIN order /\ order'[i] = order[p + i] BY <1>1, <1>12
  <2>2. p + i > p BY <1>2, <1>12
  <2>3. order[p + i].ref \in still BY <2>1, <2>2, <1>3
  <2> QED BY <2>1, <2>3, <1>3, <1>4, <1>8 DEF Used
<1>14. sinceUsed'[order'[Len(rem) + 1].ref] = 0 BY <1>8, <1>11, <1>12
<1>15. Typed'
  <2>1. NextAfter(ref) \in SegReference
    BY ReferenceWraps, ConstantsTyped DEF NextAfter, SegReference
  <2>2. DOMAIN frozen' \subseteq SegReference BY <1>3, <1>7
  <2>3. \A r \in still : frozen[r] \in Freezes BY <1>3 DEF Kept, Typed
  <2>4. frozen' \in [DOMAIN frozen' -> Freezes] BY <2>3, <1>5, <1>7
  <2>5. sinceUsed' \in [SegReference -> Nat] BY <1>7 DEF Kept, Typed
  <2> QED BY <2>1, <2>2, <2>4, <2>5, <1>7, <1>12 DEF Typed
<1>16. Agree'
  <2>1. \A i, j \in DOMAIN order' : order'[i].ref = order'[j].ref => i = j
    <3> SUFFICES ASSUME NEW i \in 1 .. Len(rem) + 1, NEW j \in 1 .. Len(rem) + 1,
                        order'[i].ref = order'[j].ref
                 PROVE  i = j
      BY <1>12
    <3>1. CASE i \in 1 .. Len(rem) /\ j \in 1 .. Len(rem)
      <4>1. p + i = p + j BY <3>1, <1>13 DEF Kept, Agree
      <4> QED BY <4>1, <1>2, <1>12
    <3>2. CASE i \in 1 .. Len(rem) /\ j \notin 1 .. Len(rem)
      <4>1. j = Len(rem) + 1 BY <3>2, <1>12
      <4> QED BY <4>1, <3>2, <1>11, <1>12, <1>13
    <3>3. CASE i \notin 1 .. Len(rem) /\ j \in 1 .. Len(rem)
      <4>1. i = Len(rem) + 1 BY <3>3, <1>12
      <4> QED BY <4>1, <3>3, <1>11, <1>12, <1>13
    <3>4. CASE i \notin 1 .. Len(rem) /\ j \notin 1 .. Len(rem) BY <3>4, <1>12
    <3> QED BY <3>1, <3>2, <3>3, <3>4
  <2>2. ASSUME NEW i \in DOMAIN order'
        PROVE  order'[i].ref \in DOMAIN frozen' /\ frozen'[order'[i].ref] = order'[i].left
    <3>1. CASE i \in 1 .. Len(rem) BY <3>1, <1>7, <1>13 DEF Kept, Agree
    <3>2. CASE i \notin 1 .. Len(rem)
      <4>1. i = Len(rem) + 1 BY <3>2, <1>12
      <4> QED BY <4>1, <1>7, <1>11, <1>12
    <3> QED BY <3>1, <3>2
  <2>3. ASSUME NEW r \in DOMAIN frozen' PROVE \E i \in DOMAIN order' : order'[i].ref = r
    <3>1. CASE r = ref BY <3>1, <1>11, <1>12
    <3>2. CASE r # ref
      <4>1. r \in still BY <3>2, <1>7
      <4>2. PICK k \in DOMAIN order : order[k].ref = r BY <4>1, <1>3 DEF Kept, Agree
      <4>3. k > p BY <4>1, <4>2, <1>3
      <4>4. k - p \in 1 .. Len(rem) /\ p + (k - p) = k BY <4>2, <4>3, <1>1, <1>2
      <4>5. k - p \in DOMAIN order' BY <4>4, <1>12
      <4> QED BY <4>2, <4>4, <4>5, <1>13
    <3> QED BY <3>1, <3>2
  <2> QED BY <2>1, <2>2, <2>3 DEF Agree
<1>17. Ages'
  <2> SUFFICES ASSUME NEW i \in 1 .. Len(rem) + 1
               PROVE  /\ order'[i].left + Used(i)' >= SegmentationReferenceFreeze - MaxLag
                      /\ order'[i].left > Thawed
                           => order'[i].left + Used(i)' <= SegmentationReferenceFreeze
    BY <1>12 DEF Ages
  <2>1. CASE i \in 1 .. Len(rem) BY <2>1, <1>13 DEF Kept, Ages
  <2>2. CASE i \notin 1 .. Len(rem)
    <3>1. i = Len(rem) + 1 BY <2>2, <1>12
    <3>2. order'[i].left = ends /\ Used(i)' = 0
      BY <3>1, <1>11, <1>12, <1>14 DEF Used
    <3> QED BY <3>2, <1>5
  <2> QED BY <2>1, <2>2
<1>18. Sorted'
  <2> SUFFICES ASSUME NEW i \in 1 .. Len(rem) + 1, NEW j \in 1 .. Len(rem) + 1, i <= j
               PROVE  Used(j)' <= Used(i)'
    BY <1>12 DEF Sorted
  <2>1. CASE j \in 1 .. Len(rem)
    <3>1. i \in 1 .. Len(rem) /\ p + i <= p + j BY <2>1, <1>2, <1>12
    <3> QED BY <3>1, <2>1, <1>13 DEF Kept, Sorted
  <2>2. CASE j \notin 1 .. Len(rem)
    <3>1. j = Len(rem) + 1 BY <2>2, <1>12
    <3>2. Used(i)' >= 0
      <4>1. CASE i \in 1 .. Len(rem) BY <4>1, <1>13, EntriesTyped
      <4>2. CASE i \notin 1 .. Len(rem)
        <5>1. i = Len(rem) + 1 BY <4>2, <1>12
        <5> QED BY <5>1, <1>14 DEF Used
      <4> QED BY <4>1, <4>2
    <3> QED BY <3>1, <3>2, <1>14 DEF Used
  <2> QED BY <2>1, <2>2
<1>19. UsedLongAgo' BY <1>7, <1>8, <1>10 DEF UsedLongAgo
<1> QED BY <1>15, <1>16, <1>17, <1>18, <1>19 DEF Kept

(* A request that is sent in one message, or refused, takes no reference.  *)
LEMMA NoAllocationKept ==
    ASSUME Kept, UNCHANGED <<nextReference, frozen, order, sinceUsed>>
    PROVE  Kept'
BY DEF Kept, Typed, Agree, Ages, Sorted, UsedLongAgo, Used

LEMMA InitInv == Init => Inv
BY InitKept DEF Inv

LEMMA UnitdataInv == ASSUME Inv, NEW n, NEW asked, Unitdata(n, asked) PROVE Inv'
<1>1. CASE SendSingle(n)
  <2>1. request'.type = "single" BY <1>1 DEF SendSingle, Single
  <2>2. Kept' BY <1>1, NoAllocationKept DEF Inv, SendSingle
  <2> QED BY <2>1, <2>2 DEF Inv, FreezeKept, ExhaustedOnlyWhenFrozen
<1>2. CASE Refuse(n)
  <2>1. request'.type = "refused" BY <1>2 DEF Refuse, Refused
  <2>2. Kept' BY <1>2, NoAllocationKept DEF Inv, Refuse
  <2> QED BY <2>1, <2>2 DEF Inv, FreezeKept, ExhaustedOnlyWhenFrozen
<1>3. ASSUME NEW age \in 0 .. MaxLag, FindNoReference(n, age) PROVE Inv'
  BY <1>3, FindKept DEF Inv
<1>4. ASSUME NEW age \in 0 .. MaxLag, NEW ref \in SegReference, SendSegments(n, asked, ref, age)
      PROVE  Inv'
  <2>1. Kept' BY <1>4, AllocateKept DEF Inv, SendSegments
  <2>2. request'.type = "segments" /\ request'.idle = sinceUsed[ref]
    BY <1>4 DEF SendSegments, Segments
  <2>3. ref \notin StillFrozen(age) BY <1>4 DEF SendSegments, Allocates
  <2>4. sinceUsed[ref] >= SegmentationReferenceFreeze - MaxLag
    BY <2>3, FreeIsOld DEF Inv
  <2> QED BY <2>1, <2>2, <2>4 DEF Inv, FreezeKept, ExhaustedOnlyWhenFrozen
<1> QED BY <1>1, <1>2, <1>3, <1>4 DEF Unitdata

LEMMA NextInv == Inv /\ [Next]_vars => Inv'
<1> SUFFICES ASSUME Inv, [Next]_vars PROVE Inv' OBVIOUS
<1>1. CASE Tick
  <2>1. request'.type = "none" BY <1>1 DEF Tick, NoRequest
  <2>2. Kept' BY <1>1, TickKept DEF Inv
  <2> QED BY <2>1, <2>2 DEF Inv, FreezeKept, ExhaustedOnlyWhenFrozen
<1>2. CASE \E n \in 1 .. MaxLongData + 1, asked \in BOOLEAN : Unitdata(n, asked)
  BY <1>2, UnitdataInv
<1>3. CASE UNCHANGED vars
  <2>1. Kept' BY <1>3, NoAllocationKept DEF vars, Inv
  <2> QED BY <1>3, <2>1 DEF vars, Inv, FreezeKept, ExhaustedOnlyWhenFrozen
<1> QED BY <1>1, <1>2, <1>3 DEF Next

(* The invariant holds for any number of references, any duration of the   *)
(* freeze and any age of the clock readings.                               *)
THEOREM InvHolds == Spec => []Inv
BY InitInv, NextInv, PTL DEF Spec

(* The variables keep the shapes the code gives them (unitdata.go).        *)
THEOREM TypesHold == Spec => []TypeOK
<1>1. Inv => TypeOK
  <2> SUFFICES ASSUME Inv PROVE TypeOK OBVIOUS
  <2>1. \A i \in DOMAIN order : order[i].ref \in SegReference
    BY EntriesTyped DEF Inv
  <2> QED BY <2>1 DEF Inv, Kept, Typed, TypeOK, Freezes
<1> QED BY <1>1, InvHolds, PTL

(* The map and the list of frozen references agree, whatever allocations   *)
(* thaw and freeze (allocateSegmentationReference).                        *)
THEOREM ListAgrees == Spec => []OrderAgrees
<1>1. Inv => OrderAgrees
  <2> SUFFICES ASSUME Inv PROVE OrderAgrees OBVIOUS
  <2> DEFINE refs == [i \in DOMAIN order |-> order[i].ref]
  <2>1. \A i, j \in DOMAIN order : order[i].ref = order[j].ref => i = j
    BY DEF Inv, Kept, Agree
  <2>2. IsInjective(refs) BY <2>1 DEF IsInjective
  <2>3. {order[i].ref : i \in DOMAIN order} = DOMAIN frozen
    <3>1. \A i \in DOMAIN order : order[i].ref \in DOMAIN frozen
      BY DEF Inv, Kept, Agree
    <3>2. \A r \in DOMAIN frozen : \E i \in DOMAIN order : order[i].ref = r
      BY DEF Inv, Kept, Agree
    <3> QED BY <3>1, <3>2
  <2>4. \A i \in DOMAIN order : frozen[order[i].ref] = order[i].left
    BY DEF Inv, Kept, Agree
  <2> QED BY <2>2, <2>3, <2>4 DEF OrderAgrees
<1> QED BY <1>1, InvHolds, PTL

(* No segmentation local reference is used again before its freeze is      *)
(* over, up to the age of a clock reading.                                 *)
THEOREM NoEarlyReuse == Spec => []FreezeKept
<1>1. Inv => FreezeKept BY DEF Inv
<1> QED BY <1>1, InvHolds, PTL

(* A request is refused for want of a reference only when all of them were *)
(* used within the freeze, although the list is only thawed from its head. *)
THEOREM NoFalseExhaustion == Spec => []ExhaustedOnlyWhenFrozen
<1>1. Inv => ExhaustedOnlyWhenFrozen BY DEF Inv
<1> QED BY <1>1, InvHolds, PTL

-----------------------------------------------------------------------------
(* How user data is split: count segments of n \div count octets, the      *)
(* first n % count of them one longer.                                     *)

LEMMA ProductGrows ==
    ASSUME NEW a \in Nat, NEW b \in Nat, NEW c \in Nat, a <= b
    PROVE  c * a <= c * b
<1>1. PICK d \in Nat : b = a + d
  <2>1. b - a \in Nat /\ b = a + (b - a) OBVIOUS
  <2> QED BY <2>1
<1>2. c * d \in Nat OBVIOUS
<1>3. c * b = c * a + c * d BY <1>1
<1> QED BY <1>2, <1>3

LEMMA QuotientAndRemainder ==
    ASSUME NEW n \in Nat, NEW k \in Nat, k > 0
    PROVE  /\ n \div k \in Nat /\ n % k \in Nat /\ n % k < k
           /\ n = k * (n \div k) + (n % k)
OBVIOUS

(* As many segments as octets at most, and enough of them.                 *)
LEMMA CountBounds ==
    ASSUME NEW n \in Nat, n > 0, SegmentSize \in Nat, SegmentSize > 0
    PROVE  /\ Count(n) \in Nat /\ Count(n) > 0 /\ Count(n) <= n
           /\ n <= SegmentSize * Count(n)
<1> DEFINE size == SegmentSize
           k == Count(n)
           over == (n + size - 1) % size
<1> HIDE DEF size
<1>0. size \in Nat /\ size > 0 BY DEF size
<1>1. n + size - 1 \in Nat BY <1>0
<1>2. k = (n + size - 1) \div size BY DEF Count, size
<1> HIDE DEF k, over
<1>3. k \in Nat /\ over \in Nat /\ over < size /\ n + size - 1 = size * k + over
  BY <1>0, <1>1, <1>2, QuotientAndRemainder DEF over
<1>4. size * k \in Nat BY <1>0, <1>3
<1>5. n <= size * k BY <1>0, <1>3, <1>4
<1>6. k > 0
  <2> SUFFICES ASSUME k = 0 PROVE FALSE BY <1>3
  <2>1. size * k = 0 BY <1>0
  <2> QED BY <1>5, <2>1
<1>7. k <= n
  <2> SUFFICES ASSUME n + 1 <= k PROVE FALSE BY <1>3
  <2>1. size * (n + 1) <= size * k BY <1>0, <1>3, ProductGrows
  <2>2. n * 1 <= n * size BY <1>0, ProductGrows
  <2>3. size * (n + 1) = n * size + size /\ n * 1 = n /\ n * size \in Nat BY <1>0
  <2> QED BY <1>0, <1>3, <1>4, <2>1, <2>2, <2>3
<1> QED BY <1>3, <1>5, <1>6, <1>7 DEF k, size

(* No segment is too long and none is empty.                               *)
LEMMA ShareBounds ==
    ASSUME NEW n \in Nat, NEW k \in Nat, NEW size \in Nat, k > 0, k <= n, n <= size * k
    PROVE  /\ n \div k \in Nat /\ n \div k > 0 /\ n % k \in Nat /\ n % k < k
           /\ n \div k <= size
           /\ n % k > 0 => n \div k + 1 <= size
<1> DEFINE q == n \div k
           b == n % k
<1>1. q \in Nat /\ b \in Nat /\ b < k /\ n = k * q + b BY QuotientAndRemainder
<1> HIDE DEF q, b
<1>2. q > 0
  <2> SUFFICES ASSUME q = 0 PROVE FALSE BY <1>1
  <2>1. k * q = 0 OBVIOUS
  <2> QED BY <1>1, <2>1
<1>3. k * q \in Nat /\ k * size \in Nat /\ size * k = k * size BY <1>1
<1>4. q <= size
  <2> SUFFICES ASSUME size + 1 <= q PROVE FALSE BY <1>1
  <2>1. k * (size + 1) <= k * q BY <1>1, ProductGrows
  <2>2. k * (size + 1) = k * size + k OBVIOUS
  <2> QED BY <1>1, <1>3, <2>1, <2>2
<1>5. ASSUME b > 0 PROVE q + 1 <= size
  <2> SUFFICES ASSUME size <= q PROVE FALSE BY <1>1
  <2>1. k * size <= k * q BY <1>1, ProductGrows
  <2> QED BY <1>1, <1>3, <1>5, <2>1
<1> QED BY <1>1, <1>2, <1>4, <1>5 DEF q, b

(* The segments add up to the user data.                                   *)
LEMMA SharesAddUp ==
    ASSUME NEW n \in Nat, NEW k \in Nat, k > 0
    PROVE  SumOver(SplitSegments(n, k), 1 .. k) = n
<1> DEFINE q == n \div k
           b == n % k
           f == SplitSegments(n, k)
           g == [j \in 0 .. k |-> q * j + (IF j <= b THEN j ELSE b)]
<1>1. q \in Nat /\ b \in Nat /\ b < k /\ n = k * q + b BY QuotientAndRemainder
<1>2. \A i \in 1 .. k : f[i] = q + (IF i <= b THEN 1 ELSE 0) BY DEF SplitSegments
<1> HIDE DEF q, b, f
<1>3. \A i \in 1 .. k : f[i] \in Int BY <1>1, <1>2
<1>4. \A j \in 0 .. k : q * j \in Nat /\ g[j] \in Int BY <1>1
<1>5. g[0] = 0
  <2>1. q * 0 = 0 /\ 0 <= b /\ 0 \in 0 .. k BY <1>1
  <2> QED BY <2>1
<1>6. ASSUME NEW i \in 1 .. k PROVE g[i] = g[i - 1] + f[i]
  <2>1. i - 1 \in 0 .. k /\ i \in 0 .. k OBVIOUS
  <2>2. q * i = q * (i - 1) + q BY <1>1
  <2>3. q * i \in Nat /\ q * (i - 1) \in Nat BY <1>4, <2>1
  <2>4. f[i] = q + (IF i <= b THEN 1 ELSE 0) BY <1>2
  <2>5. g[i] = q * i + (IF i <= b THEN i ELSE b)
        /\ g[i - 1] = q * (i - 1) + (IF i - 1 <= b THEN i - 1 ELSE b)
    BY <2>1
  <2> HIDE DEF g
  <2> QED BY <1>1, <2>2, <2>3, <2>4, <2>5
<1>7. g[k] = n
  <2>1. k \in 0 .. k /\ q * k = k * q BY <1>1
  <2>2. g[k] = q * k + b BY <1>1, <2>1
  <2> QED BY <1>1, <2>1, <2>2
<1> HIDE DEF g
<1>8. SumOver(f, 1 .. k) = g[k]
  <2>1. Runs(f, g, k) BY <1>3, <1>4, <1>5, <1>6 DEF Runs
  <2> QED BY <2>1, SumRuns
<1> QED BY <1>7, <1>8 DEF f

LEMMA LargestIs ==
    ASSUME NEW S, NEW x \in S, S \subseteq Int, \A y \in S : y <= x
    PROVE  Max(S) = x
<1>1. x \in Int /\ \A y \in S : x >= y OBVIOUS
<1>2. Max(S) \in S /\ \A y \in S : Max(S) >= y BY <1>1 DEF Max
<1>3. Max(S) \in Int /\ Max(S) >= x /\ Max(S) <= x BY <1>2
<1> QED BY <1>1, <1>3

LEMMA SmallestIn ==
    ASSUME NEW S, NEW x \in S, S \subseteq Int, \A y \in S : x <= y
    PROVE  Min(S) = x
<1>1. Min(S) \in S /\ \A y \in S : Min(S) <= y BY DEF Min
<1>2. Min(S) \in Int /\ x \in Int /\ Min(S) <= x /\ x <= Min(S) BY <1>1
<1> QED BY <1>2

LEMMA SegmentsAreWhole ==
    ASSUME NEW n \in 1 .. MaxLongData + 1, NEW ref, NEW asked, NeedsSegments(n),
           request' = Segments(n, ref, asked)
    PROVE  SegmentsWhole'
<1> DEFINE k == Count(n)
           m == request'.messages
           share == SplitSegments(n, k)
           q == n \div k
           b == n % k
           lens == [i \in DOMAIN m |-> m[i].len]
           sizes == {m[i].len : i \in DOMAIN m}
           top == q + (IF 1 <= b THEN 1 ELSE 0)
<1>1. n \in Nat /\ n > 0 BY SegmentationAssumption
<1>2. SegmentSize \in Nat /\ SegmentSize > 0
  BY SegmentationAssumption DEF NeedsSegments, CanSegment, SegmentSize
<1>3. /\ k \in Nat /\ k > 0 /\ k <= n /\ n <= SegmentSize * k
      /\ k > 1 /\ k <= MaxSegments
  BY <1>1, <1>2, CountBounds DEF NeedsSegments, CanSegment
<1>4. /\ q \in Nat /\ q > 0 /\ b \in Nat /\ b < k
      /\ q <= SegmentSize /\ (b > 0 => q + 1 <= SegmentSize)
  BY <1>1, <1>2, <1>3, ShareBounds
<1>5. /\ request'.length = n
      /\ m = [i \in 1 .. k |-> [first |-> i = 1, remaining |-> k - i, len |-> share[i],
                                returnOnError |-> asked /\ i = 1]]
  BY DEF Segments
<1>6. \A i \in 1 .. k : share[i] = q + (IF i <= b THEN 1 ELSE 0) BY DEF SplitSegments
<1>7. SumOver(share, 1 .. k) = n BY <1>1, <1>3, SharesAddUp
<1> HIDE DEF k, m, share, q, b
<1>8. DOMAIN m = 1 .. k /\ Len(m) = k BY <1>3, <1>5
<1>9. \A i \in 1 .. k : m[i].len = share[i] /\ m[i].remaining = k - i BY <1>5
<1>10. SumOver(lens, DOMAIN m) = n
  <2>1. \A i \in 1 .. k : lens[i] = share[i] BY <1>8, <1>9
  <2>2. IsFiniteSet(1 .. k) BY <1>3, FS_Interval
  <2> HIDE DEF lens
  <2>3. SumOver(lens, 1 .. k) = SumOver(share, 1 .. k) BY <2>1, <2>2, SumAgrees
  <2> QED BY <1>7, <1>8, <2>3
<1>11. \A i \in 1 .. k : m[i].len \in Int /\ q <= m[i].len /\ m[i].len <= top
  BY <1>4, <1>6, <1>9
<1>12. 1 \in 1 .. k /\ k \in 1 .. k BY <1>3
<1>13. m[1].len = top /\ m[k].len = q BY <1>4, <1>6, <1>9, <1>12
<1>14. sizes \subseteq Int /\ top \in sizes /\ q \in sizes /\ \A y \in sizes : q <= y /\ y <= top
  BY <1>8, <1>11, <1>12, <1>13
<1> HIDE DEF sizes, top, lens
<1>15. Max(sizes) = top /\ Min(sizes) = q BY <1>14, LargestIs, SmallestIn
<1>16. top <= SegmentSize /\ top - q <= 1 BY <1>2, <1>4 DEF top
<1>17. \A i \in DOMAIN m : m[i].remaining = Len(m) - i /\ m[i].len > 0
  BY <1>4, <1>8, <1>9, <1>11
<1>18. Len(m) \in 2 .. MaxSegments BY <1>3, <1>8, SegmentationAssumption
<1> QED BY <1>5, <1>10, <1>13, <1>15, <1>16, <1>17, <1>18 DEF SegmentsWhole, m, sizes, lens

(* Every request that is segmented is sent whole: the segments add up to   *)
(* its user data, none is empty or too long, they differ by one octet at   *)
(* most with the longer ones first, and they are numbered down to zero.    *)
THEOREM SegmentsAlwaysWhole == Spec => []SegmentsWhole
<1>1. Init => SegmentsWhole BY DEF Init, NoRequest, SegmentsWhole
<1>2. SegmentsWhole /\ [Next]_vars => SegmentsWhole'
  <2> SUFFICES ASSUME SegmentsWhole, [Next]_vars PROVE SegmentsWhole' OBVIOUS
  <2>1. ASSUME request'.type # "segments" PROVE SegmentsWhole' BY <2>1 DEF SegmentsWhole
  <2>2. CASE Tick
    <3>1. request'.type = "none" BY <2>2 DEF Tick, NoRequest
    <3> QED BY <2>1, <3>1
  <2>3. ASSUME NEW n \in 1 .. MaxLongData + 1, NEW asked \in BOOLEAN, Unitdata(n, asked)
        PROVE  SegmentsWhole'
    <3>1. CASE SendSingle(n)
      <4>1. request'.type = "single" BY <3>1 DEF SendSingle, Single
      <4> QED BY <2>1, <4>1
    <3>2. CASE Refuse(n)
      <4>1. request'.type = "refused" BY <3>2 DEF Refuse, Refused
      <4> QED BY <2>1, <4>1
    <3>3. ASSUME NEW lag, FindNoReference(n, lag) PROVE SegmentsWhole'
      <4>1. request'.type = "exhausted" BY <3>3 DEF FindNoReference, Exhaustion
      <4> QED BY <2>1, <4>1
    <3>4. ASSUME NEW lag, NEW ref, SendSegments(n, asked, ref, lag) PROVE SegmentsWhole'
      BY <3>4, SegmentsAreWhole DEF SendSegments
    <3> QED BY <2>3, <3>1, <3>2, <3>3, <3>4 DEF Unitdata
  <2>4. CASE UNCHANGED vars BY <2>4 DEF vars, SegmentsWhole
  <2> QED BY <2>2, <2>3, <2>4 DEF Next
<1> QED BY <1>1, <1>2, PTL DEF Spec

=============================================================================
