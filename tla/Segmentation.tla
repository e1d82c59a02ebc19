---------------------------- MODULE Segmentation ----------------------------
(***************************************************************************)
(* The sending side of connectionless data transfer in one Stack           *)
(* (unitdata.go: unitdata, splitSegments, allocateSegmentationReference).  *)
(*                                                                         *)
(* A request is its length and whether it asks for a return; what its      *)
(* addresses leave of a message is SingleCapacity, and SegmentCapacity of  *)
(* a segment, the values the code finds by encoding.  The requests it      *)
(* refuses for other parameters change nothing and are left out.           *)
(*                                                                         *)
(* A freeze has no timer: it ends when an allocation finds it over.  Time  *)
(* is relative, and a freeze that is over for every clock reading stays at *)
(* Thawed.                                                                 *)
(***************************************************************************)
EXTENDS Integers, Sequences, FiniteSets

CONSTANTS
    MaxReference,                 \* references are 0 .. MaxReference
    SegmentationReferenceFreeze,
    SingleCapacity,               \* octets that fit one UDT or XUDT
    SegmentCapacity,              \* octets that fit one segment
    SegmentationThreshold,        \* Z, zero: none
    MaxSegments,
    MaxLongData,
    MaxLag                        \* bound on the age of a clock reading

SegReference == 0 .. MaxReference

ASSUME SegmentationAssumption ==
    /\ MaxReference \in Nat
    /\ SegmentationReferenceFreeze \in Nat \ {0}
    /\ SegmentCapacity \in Nat /\ SingleCapacity \in Nat
    /\ SegmentCapacity <= SingleCapacity
    /\ SegmentationThreshold \in Nat
    /\ MaxSegments \in Nat \ {0}
    /\ MaxLongData \in Nat \ {0}
    /\ MaxLag \in Nat

VARIABLES
    nextReference,   \* nextSegmentationReference
    frozen,          \* frozenSegmentation: ticks left, by reference
    order,           \* frozenSegmentationOrder
    request,         \* the last request, and the messages it produced
    sinceUsed        \* history: ticks since a reference was allocated

vars == <<nextReference, frozen, order, request, sinceUsed>>

-----------------------------------------------------------------------------
(* How many messages a request takes.                                      *)

Fits(n) == n <= SingleCapacity

BelowThreshold(n) == SegmentationThreshold = 0 \/ n < SegmentationThreshold

SegmentSize ==
    IF SegmentationThreshold # 0 /\ SegmentationThreshold < SegmentCapacity
    THEN SegmentationThreshold ELSE SegmentCapacity

Count(n) == (n + SegmentSize - 1) \div SegmentSize

Unsegmented(n) == BelowThreshold(n) /\ Fits(n)

CanSegment(n) == SegmentSize >= 1 /\ Count(n) <= MaxSegments

(* Fault: the remainder goes to the last segments.                         *)
SplitLate(n, count) ==
    [i \in 1 .. count |-> n \div count + (IF i > count - (n % count) THEN 1 ELSE 0)]

(* splitSegments: the length of each segment, the longer ones first.       *)
SplitSegments(n, count) ==
    [i \in 1 .. count |-> n \div count + (IF i <= (n % count) THEN 1 ELSE 0)]

-----------------------------------------------------------------------------
(* allocateSegmentationReference.                                          *)

(* Over for every reading of the clock.                                    *)
Thawed == -MaxLag

(* Fault: a freeze outlasts its end.                                       *)
OverLate(left, lag) == left < -lag

Over(left, lag) == left <= -lag

(* Fault: the entry the loop stops at is thawed too.                       *)
ThawedPrefixPast(lag) ==
    CHOOSE i \in 0 .. Len(order) :
        /\ \A j \in 1 .. i - 1 : Over(order[j].left, lag)
        /\ i < Len(order) => i > 0 /\ ~Over(order[i].left, lag)

(* The loop over the order stops at the first freeze that is not over.     *)
ThawedPrefix(lag) ==
    CHOOSE i \in 0 .. Len(order) :
        /\ \A j \in 1 .. i : Over(order[j].left, lag)
        /\ i < Len(order) => ~Over(order[i + 1].left, lag)

(* A reference whose freeze ends as its entry says.                        *)
ThawedReferences(lag) ==
    {order[j].ref : j \in {i \in 1 .. ThawedPrefix(lag) :
        order[i].ref \in DOMAIN frozen /\ frozen[order[i].ref] = order[i].left}}

(* Fault: the freeze is not looked at.                                     *)
StillFrozenNone(lag) == {}

StillFrozen(lag) == DOMAIN frozen \ ThawedReferences(lag)

(* Every reference is frozen.                                              *)
Exhausted(lag) == Cardinality(StillFrozen(lag)) > MaxReference

Nth(k) == (nextReference + k) % (MaxReference + 1)

(* The loop takes the first reference from nextReference on that is not    *)
(* frozen.                                                                 *)
Allocates(ref, lag) ==
    /\ ~Exhausted(lag)
    /\ \E k \in 0 .. MaxReference :
          /\ ref = Nth(k) /\ ref \notin StillFrozen(lag)
          /\ \A j \in 0 .. k - 1 : Nth(j) \in StillFrozen(lag)

(* Fault: the order keeps the entries of the references it thawed.         *)
RemainingOrderKept(lag) == order

RemainingOrder(lag) == SubSeq(order, ThawedPrefix(lag) + 1, Len(order))

(* Fault: the counter is not masked.                                       *)
NextAfterUnmasked(ref) == ref + 1

NextAfter(ref) == (ref + 1) % (MaxReference + 1)

FreezeReference(ref, lag) ==
    LET left == SegmentationReferenceFreeze - lag IN
    /\ frozen' = [r \in StillFrozen(lag) \cup {ref} |-> IF r = ref THEN left ELSE frozen[r]]
    /\ order' = Append(RemainingOrder(lag), [ref |-> ref, left |-> left])
    /\ nextReference' = NextAfter(ref)
    /\ sinceUsed' = [sinceUsed EXCEPT ![ref] = 0]

-----------------------------------------------------------------------------
NoRequest == [type |-> "none"]

Single(n) == [type |-> "single", length |-> n]

Refused(n) == [type |-> "refused", length |-> n]

Exhaustion(n, lag) == [type |-> "exhausted", length |-> n, lag |-> lag]

(* Only the first segment asks for the return.  History: idle is how long  *)
(* the reference was not used.                                             *)
Segments(n, ref, asked) ==
    [type |-> "segments", length |-> n, ref |-> ref, idle |-> sinceUsed[ref],
     messages |-> [i \in 1 .. Count(n) |->
         [first |-> i = 1, remaining |-> Count(n) - i, len |-> SplitSegments(n, Count(n))[i],
          returnOnError |-> asked /\ i = 1]]]

Init ==
    /\ nextReference = 1 % (MaxReference + 1)
    /\ frozen = [r \in {} |-> 0]
    /\ order = <<>>
    /\ request = NoRequest
    /\ sinceUsed = [r \in SegReference |-> SegmentationReferenceFreeze + MaxLag]

Floor(left) == IF left > Thawed THEN left - 1 ELSE Thawed

(* sinceUsed stops where it says no more.                                  *)
Longer(age) == IF age < SegmentationReferenceFreeze + MaxLag THEN age + 1 ELSE age

Tick ==
    /\ frozen' = [r \in DOMAIN frozen |-> Floor(frozen[r])]
    /\ order' = [i \in DOMAIN order |-> [order[i] EXCEPT !.left = Floor(@)]]
    /\ sinceUsed' = [r \in SegReference |-> Longer(sinceUsed[r])]
    /\ request' = NoRequest
    /\ UNCHANGED nextReference

(* The user data goes in one message, or in none.                          *)
SendSingle(n) ==
    /\ n <= MaxLongData
    /\ Unsegmented(n) \/ (CanSegment(n) /\ Count(n) = 1)
    /\ request' = Single(n)
    /\ UNCHANGED <<nextReference, frozen, order, sinceUsed>>

Refuse(n) ==
    /\ n > MaxLongData \/ (~Unsegmented(n) /\ ~CanSegment(n))
    /\ request' = Refused(n)
    /\ UNCHANGED <<nextReference, frozen, order, sinceUsed>>

NeedsSegments(n) == n <= MaxLongData /\ ~Unsegmented(n) /\ CanSegment(n) /\ Count(n) > 1

(* The freezes that are over end although no reference is left.            *)
FindNoReference(n, lag) ==
    /\ NeedsSegments(n)
    /\ Exhausted(lag)
    /\ frozen' = [r \in StillFrozen(lag) |-> frozen[r]]
    /\ order' = RemainingOrder(lag)
    /\ request' = Exhaustion(n, lag)
    /\ UNCHANGED <<nextReference, sinceUsed>>

SendSegments(n, asked, ref, lag) ==
    /\ NeedsSegments(n)
    /\ Allocates(ref, lag)
    /\ FreezeReference(ref, lag)
    /\ request' = Segments(n, ref, asked)

(* The clock is read before the lock: lag is the age of the reading.       *)
Unitdata(n, asked) ==
    \/ SendSingle(n)
    \/ Refuse(n)
    \/ \E lag \in 0 .. MaxLag :
          \/ FindNoReference(n, lag)
          \/ \E ref \in SegReference : SendSegments(n, asked, ref, lag)

Next == Tick \/ \E n \in 1 .. MaxLongData + 1, asked \in BOOLEAN : Unitdata(n, asked)

Spec == Init /\ [][Next]_vars

=============================================================================
