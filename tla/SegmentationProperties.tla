----------------------- MODULE SegmentationProperties -----------------------
(***************************************************************************)
(* What the sending side of Segmentation must keep.                        *)
(***************************************************************************)
EXTENDS Segmentation, Sums, Functions

(* Every variable has the shape the code gives it.                         *)
TypeOK ==
    /\ nextReference \in SegReference
    /\ DOMAIN frozen \subseteq SegReference
    /\ \A r \in DOMAIN frozen : frozen[r] \in Thawed .. SegmentationReferenceFreeze
    /\ \A i \in DOMAIN order : order[i].ref \in SegReference
    /\ sinceUsed \in [SegReference -> Nat]

(* The map and the list of frozen references say the same, each reference  *)
(* once: otherwise one thaws early or never (allocateSegmentationReference *)
(* deletes from the map what it finds in the list).                        *)
OrderAgrees ==
    /\ IsInjective([i \in DOMAIN order |-> order[i].ref])
    /\ {order[i].ref : i \in DOMAIN order} = DOMAIN frozen
    /\ \A i \in DOMAIN order : frozen[order[i].ref] = order[i].left

(* A segmentation local reference is not used again before its freeze is   *)
(* over, up to the age of a clock reading (ITU-T Q.714 4.1.1.1.2).         *)
FreezeKept ==
    request.type = "segments" => request.idle >= SegmentationReferenceFreeze - MaxLag

(* "Every segmentation local reference is frozen" is said only while each  *)
(* was used within the freeze and the age of the clock reading: the list   *)
(* is in the order of the calls, not of the ends of the freezes, and an    *)
(* entry that is over can wait behind one that is not, but no longer.      *)
ExhaustedOnlyWhenFrozen ==
    request.type = "exhausted" =>
        \A r \in SegReference : sinceUsed[r] < SegmentationReferenceFreeze + request.lag

(* The segments are the request's user data, at most 16, none too long,    *)
(* "as equal in size as possible, the first being the largest", numbered   *)
(* down to zero (Stack.Unitdata).                                          *)
SegmentsWhole ==
    request.type = "segments" =>
        LET m == request.messages
            sizes == {m[i].len : i \in DOMAIN m}
        IN  /\ SumOver([i \in DOMAIN m |-> m[i].len], DOMAIN m) = request.length
            /\ Len(m) \in 2 .. MaxSegments
            /\ Max(sizes) <= SegmentSize /\ Max(sizes) - Min(sizes) <= 1
            /\ m[1].len = Max(sizes)
            /\ \A i \in DOMAIN m : m[i].remaining = Len(m) - i /\ m[i].len > 0

=============================================================================
