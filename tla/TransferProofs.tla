--------------------------- MODULE TransferProofs ---------------------------
(***************************************************************************)
(* Proofs, for every value of the constants, about SegmentedTransfer, from *)
(* the invariants of Segmentation and Reassembly.                          *)
(***************************************************************************)
EXTENDS SegmentedTransfer, SequenceTheorems, FiniteSetTheorems, TLAPS

Sending == INSTANCE SegmentationProofs WITH
    SingleCapacity <- SegmentCapacity, SegmentationThreshold <- 0

Receiving == INSTANCE ReassemblyProofs WITH
    Peers <- {Sender}, References <- 0 .. MaxReference,
    Contents <- Message \X (1 .. MaxSegments), Lengths <- 1 .. SegmentCapacity,
    MaxReassemblyOctetsPerPeer <- 0

Reference == 0 .. MaxReference

KeyOf(r) == [peer |-> Sender, reference |-> r]

-----------------------------------------------------------------------------
(* Until when a reference is in use at the far end.                        *)

(* k waits for a segment.                                                  *)
Waiting(k) ==
    \/ Receiving!InProgress(stack, k)
    \/ Receiving!Failed(stack, k) /\ stack.reassemblies[k].hash = Receiving!NoHash

(* A segment is not older than its message ...                             *)
Young ==
    \A f \in inFlight :
        /\ f \in [age : 0 .. NetworkDelay, segment : Receiving!Segment]
        /\ sinceUsed[f.segment.key.reference] <= f.age

(* ... and what waits for segments runs a timer that a segment started.    *)
Expires ==
    \A t \in stack.timers : Waiting(t.key) =>
        LET since == sinceUsed[t.key.reference]
        IN  /\ t.left + since <= NetworkDelay + ReassemblyTimeout
            /\ t.left >= 0 - MaxLate \/ since <= NetworkDelay

-----------------------------------------------------------------------------
(* Whose segments they are.                                                *)

(* What a reference was last used for: a message, its length, how many     *)
(* segments.                                                               *)
Shape(w) ==
    /\ w.length \in 1 .. MaxLongData
    /\ w.count \in 2 .. MaxSegments
    /\ w.count <= w.length /\ w.length <= SegmentCapacity * w.count

Use(w) == Shape(w) /\ w.message \in 1 .. sentCount

NthSegment(w, r, i) ==
    [key |-> KeyOf(r), first |-> i = 1, remaining |-> w.count - i,
     content |-> <<w.message, i>>, len |-> Sending!SplitSegments(w.length, w.count)[i],
     returnOnError |-> i = 1]

(* The octets of the first j segments.                                     *)
UpTo(w, j) ==
    LET larger == w.length % w.count
    IN  (w.length \div w.count) * j + (IF j < larger THEN j ELSE larger)

SegmentsOf(use) ==
    \A f \in inFlight :
        LET r == f.segment.key.reference
        IN  Use(use[r]) /\ \E i \in 1 .. use[r].count : f.segment = NthSegment(use[r], r, i)

AllOf(m, n) == [j \in 1 .. n |-> <<m, j>>]

InOrder(data, m) == \A j \in 1 .. Len(data) : data[j] = <<m, j>>

PrefixOf(p, w, r) ==
    /\ p.first = NthSegment(w, r, 1)
    /\ InOrder(p.data, w.message)
    /\ p.len = UpTo(w, Len(p.data))

ProcessesOf(use) ==
    \A k \in DOMAIN stack.reassemblies :
        Receiving!InProgress(stack, k) =>
            Use(use[k.reference]) /\ PrefixOf(stack.reassemblies[k], use[k.reference], k.reference)

(* A message has one reference.                                            *)
Apart(use) ==
    /\ \A r \in Reference : use[r].message \in 0 .. sentCount
    /\ \A q, r \in Reference :
          use[q].message = use[r].message /\ use[r].message # 0 => q = r

Assigned(use) == SegmentsOf(use) /\ ProcessesOf(use) /\ Apart(use)

-----------------------------------------------------------------------------
(* What became of a message.                                               *)

ProcessOf(m, k) == Receiving!InProgress(stack, k) /\ stack.reassemblies[k].first.content[1] = m

UnderWay(m) == {f \in inFlight : f.segment.content[1] = m}

NoProcess(m) == \A k \in DOMAIN stack.reassemblies : ~ ProcessOf(m, k)

(* The record of the message w, and that it outlasts the segment f.        *)
Remembered(w, f) ==
    LET k == f.segment.key
    IN  /\ Receiving!Failed(stack, k)
        /\ stack.reassemblies[k].hash = Receiving!SegmentHash(NthSegment(w, k.reference, 1))
        /\ \A t \in stack.timers : t.key = k => t.left + f.age >= ReassemblyTimeout - MaxLag

Gone(use, m) ==
    NoProcess(m) /\ \A f \in UnderWay(m) : Remembered(use[f.segment.key.reference], f)

Returned(use) ==
    \A m \in Message :
        /\ returned[m] \in 0 .. 1 /\ delivered[m] \in 0 .. 2
        /\ m > sentCount => returned[m] = 0 /\ delivered[m] = 0
        /\ returned[m] = 1 => Gone(use, m)

Owned(use) == Assigned(use) /\ Returned(use)

Over(m) == NoProcess(m) /\ UnderWay(m) = {}

(* As long as no segment is repeated.                                      *)
Ahead ==
    \A f \in inFlight : LET k == f.segment.key IN
        Receiving!InProgress(stack, k) => f.segment.content[2] > Len(stack.reassemblies[k].data)

Single ==
    \A m \in Message : returned[m] + delivered[m] <= 1 /\ (delivered[m] = 1 => Over(m))

Once ==
    /\ repeats \in Nat
    /\ \A f, g \in inFlight : f.segment = g.segment => f = g
    /\ repeats = 0 => Ahead /\ Single

(* What the last step delivered.                                           *)
ResultsWhole ==
    \A i \in DOMAIN stack.res : stack.res[i].type = "unitdata" => WholeMessage(stack.res[i].data)

Quiet == Young /\ Expires

-----------------------------------------------------------------------------
(* The two stacks, as their own proofs have them.                          *)

LEMMA SendingAssumed ==
    /\ MaxReference \in Nat
    /\ SegmentationReferenceFreeze \in Nat \ {0}
    /\ SegmentCapacity \in Nat /\ SegmentCapacity \in Nat
    /\ SegmentCapacity <= SegmentCapacity
    /\ 0 \in Nat
    /\ MaxSegments \in Nat \ {0}
    /\ MaxLongData \in Nat \ {0}
    /\ MaxLag \in Nat
BY StackAssumption

LEMMA ReceivingAssumed ==
    /\ 1 .. SegmentCapacity \subseteq Nat \ {0}
    /\ MaxSegments \in 1 .. 16
    /\ MaxLongData \in Nat \ {0}
    /\ MaxReassemblies \in Nat \ {0}
    /\ MaxReassemblyOctets \in Nat \ {0}
    /\ 0 \in Nat
    /\ ReassemblyTimeout \in Nat \ {0}
    /\ MaxLag \in Nat /\ MaxLate \in Nat
BY StackAssumption

LEMMA SameFreezes ==
    ASSUME NEW age
    PROVE  /\ Origin!StillFrozen(age) = Sending!StillFrozen(age)
           /\ Origin!RemainingOrder(age) = Sending!RemainingOrder(age)
           /\ Origin!Exhausted(age) <=> Sending!Exhausted(age)
           /\ \A ref : Origin!Allocates(ref, age) <=> Sending!Allocates(ref, age)
<1>1. Origin!ThawedPrefix(age) = Sending!ThawedPrefix(age)
  BY Zenon DEF Origin!Over, Sending!Over, Origin!ThawedPrefix, Sending!ThawedPrefix
<1>2. Origin!StillFrozen(age) = Sending!StillFrozen(age)
  BY Zenon, <1>1 DEF Origin!ThawedReferences, Sending!ThawedReferences, Origin!StillFrozen,
               Sending!StillFrozen
<1>3. Origin!RemainingOrder(age) = Sending!RemainingOrder(age)
  BY Zenon, <1>1 DEF Origin!RemainingOrder, Sending!RemainingOrder
<1>4. Origin!Exhausted(age) <=> Sending!Exhausted(age)
  BY Zenon, <1>2 DEF Origin!Exhausted, Sending!Exhausted, Origin!Cardinality,
               Sending!Cardinality
<1>5. \A k : Origin!Nth(k) = Sending!Nth(k) BY Zenon DEF Origin!Nth, Sending!Nth
<1>6. ASSUME NEW ref PROVE Origin!Allocates(ref, age) <=> Sending!Allocates(ref, age)
  BY <1>2, <1>4, <1>5 DEF Origin!Allocates, Sending!Allocates
<1> QED BY Zenon, <1>2, <1>3, <1>4, <1>6

LEMMA SameSegments ==
    ASSUME NEW n
    PROVE  /\ Origin!NeedsSegments(n) <=> Sending!NeedsSegments(n)
           /\ \A ref : Origin!Segments(n, ref, TRUE) = Sending!Segments(n, ref, TRUE)
           /\ Origin!SendSingle(n) <=> Sending!SendSingle(n)
           /\ Origin!Refuse(n) <=> Sending!Refuse(n)
<1>1. Origin!SegmentSize = Sending!SegmentSize BY DEF Origin!SegmentSize, Sending!SegmentSize
<1>2. Origin!Count(n) = Sending!Count(n) BY <1>1 DEF Origin!Count, Sending!Count
<1>3. Origin!Unsegmented(n) <=> Sending!Unsegmented(n)
  BY Zenon DEF Origin!Unsegmented, Sending!Unsegmented, Origin!BelowThreshold,
               Sending!BelowThreshold, Origin!Fits, Sending!Fits
<1>4. Origin!CanSegment(n) <=> Sending!CanSegment(n)
  BY Zenon, <1>1, <1>2 DEF Origin!CanSegment, Sending!CanSegment
<1>5. Origin!NeedsSegments(n) <=> Sending!NeedsSegments(n)
  BY Zenon, <1>2, <1>3, <1>4 DEF Origin!NeedsSegments, Sending!NeedsSegments
<1>6. Origin!SendSingle(n) <=> Sending!SendSingle(n)
  BY Zenon, <1>2, <1>3, <1>4 DEF Origin!SendSingle, Sending!SendSingle,
               Origin!Single, Sending!Single
<1>7. Origin!Refuse(n) <=> Sending!Refuse(n)
  BY Zenon, <1>3, <1>4 DEF Origin!Refuse, Sending!Refuse, Origin!Refused, Sending!Refused
<1>8. ASSUME NEW c PROVE Origin!SplitSegments(n, c) = Sending!SplitSegments(n, c)
  BY Zenon DEF Origin!SplitSegments, Sending!SplitSegments
<1>9. ASSUME NEW ref PROVE Origin!Segments(n, ref, TRUE) = Sending!Segments(n, ref, TRUE)
  BY <1>2, <1>8 DEF Origin!Segments, Sending!Segments
<1> QED BY Zenon, <1>5, <1>6, <1>7, <1>9

LEMMA SameSender ==
    /\ Origin!Init <=> Sending!Init
    /\ Origin!Tick <=> Sending!Tick
    /\ \A n, age, ref :
          Origin!SendSegments(n, TRUE, ref, age) <=> Sending!SendSegments(n, TRUE, ref, age)
    /\ \A n : Origin!Unitdata(n, TRUE) <=> Sending!Unitdata(n, TRUE)
<1>1. Origin!Init <=> Sending!Init
  BY Zenon DEF Origin!Init, Sending!Init, Origin!NoRequest, Sending!NoRequest,
               Origin!SegReference, Sending!SegReference
<1>2. Origin!Tick <=> Sending!Tick
  BY Zenon DEF Origin!Tick, Sending!Tick, Origin!NoRequest, Sending!NoRequest,
               Origin!SegReference, Sending!SegReference, Origin!Floor, Sending!Floor,
               Origin!Thawed, Sending!Thawed, Origin!Longer, Sending!Longer
<1>3. ASSUME NEW n, NEW age, NEW ref
      PROVE  Origin!SendSegments(n, TRUE, ref, age) <=> Sending!SendSegments(n, TRUE, ref, age)
  <2>1. Origin!FreezeReference(ref, age) <=> Sending!FreezeReference(ref, age)
    BY Zenon, SameFreezes DEF Origin!FreezeReference, Sending!FreezeReference, Origin!NextAfter,
               Sending!NextAfter
  <2> QED BY Zenon, <2>1, SameFreezes, SameSegments DEF Origin!SendSegments, Sending!SendSegments
<1>4. ASSUME NEW n, NEW age
      PROVE  Origin!FindNoReference(n, age) <=> Sending!FindNoReference(n, age)
  BY Zenon, SameFreezes, SameSegments
     DEF Origin!FindNoReference, Sending!FindNoReference, Origin!Exhaustion,
         Sending!Exhaustion
<1>5. ASSUME NEW n PROVE Origin!Unitdata(n, TRUE) <=> Sending!Unitdata(n, TRUE)
  BY Zenon, <1>3, <1>4, SameSegments
     DEF Origin!Unitdata, Sending!Unitdata, Origin!SegReference, Sending!SegReference
<1> QED BY Zenon, <1>1, <1>2, <1>3, <1>5

LEMMA SameReceiver ==
    /\ Destination!Init <=> Receiving!Init
    /\ Destination!Tick <=> Receiving!Tick
    /\ Destination!Call <=> Receiving!Call
    /\ Destination!Fire <=> Receiving!Fire
    /\ Destination!HandleTimeout <=> Receiving!HandleTimeout
    /\ \A u : Destination!HandleSegment(u) <=> Receiving!HandleSegment(u)
<1>1. Destination!Init <=> Receiving!Init
  BY Zenon
  DEF Destination!Key, Receiving!Key, Destination!NoSegment, Receiving!NoSegment, Destination!Init,
      Receiving!Init
<1>2. Destination!Tick <=> Receiving!Tick
  BY Zenon
  DEF Destination!Key, Receiving!Key, Destination!NoSegment, Receiving!NoSegment,
      Destination!Known, Receiving!Known, Destination!Failed, Receiving!Failed, Destination!Fresh,
      Receiving!Fresh, Destination!Longer, Receiving!Longer, Destination!Tick, Receiving!Tick
<1>3. Destination!Call <=> Receiving!Call
  BY Zenon
  DEF Destination!NoSegment, Receiving!NoSegment, Destination!Fresh, Receiving!Fresh,
      Destination!Call, Receiving!Call
<1>4. Destination!Fire <=> Receiving!Fire
  BY Zenon
  DEF Destination!Key, Receiving!Key, Destination!NoSegment, Receiving!NoSegment,
      Destination!SegmentHash, Receiving!SegmentHash, Destination!Known, Receiving!Known,
      Destination!Failed, Receiving!Failed, Destination!Remove, Receiving!Remove,
      Destination!After, Receiving!After, Destination!Schedule, Receiving!Schedule,
      Destination!Stop, Receiving!Stop, Destination!Due, Receiving!Due, Destination!Hold,
      Receiving!Hold, Destination!Return, Receiving!Return, Destination!EndReassembly,
      Receiving!EndReassembly, Destination!FailReassembly, Receiving!FailReassembly,
      Destination!Fresh, Receiving!Fresh, Destination!AgeRecords, Receiving!AgeRecords,
      Destination!Becomes, Receiving!Becomes, Destination!Fire, Receiving!Fire
<1>5. Destination!HandleTimeout <=> Receiving!HandleTimeout
  BY Zenon
  DEF Destination!NoSegment, Receiving!NoSegment, Destination!Due, Receiving!Due,
      Destination!Ready, Receiving!Ready, Destination!Unlock, Receiving!Unlock, Destination!Fresh,
      Receiving!Fresh, Destination!HandleTimeout, Receiving!HandleTimeout
<1>6. ASSUME NEW u PROVE Destination!AbsorbSegment(u) <=> Receiving!AbsorbSegment(u)
  BY Zenon
  DEF Destination!Key, Receiving!Key, Destination!SegmentHash, Receiving!SegmentHash,
      Destination!NoHash, Receiving!NoHash, Destination!Known, Receiving!Known, Destination!Failed,
      Receiving!Failed, Destination!Fresh, Receiving!Fresh, Destination!AgeRecords,
      Receiving!AgeRecords, Destination!Becomes, Receiving!Becomes, Destination!OfFailedMessage,
      Receiving!OfFailedMessage, Destination!AbsorbSegment, Receiving!AbsorbSegment
<1>7. ASSUME NEW u PROVE Destination!BusyReference(u) <=> Receiving!BusyReference(u)
  BY Zenon
  DEF Destination!Key, Receiving!Key, Destination!SegmentHash, Receiving!SegmentHash,
      Destination!NoHash, Receiving!NoHash, Destination!Known, Receiving!Known,
      Destination!InProgress, Receiving!InProgress, Destination!Failed, Receiving!Failed,
      Destination!Put, Receiving!Put, Destination!Remove, Receiving!Remove, Destination!After,
      Receiving!After, Destination!Schedule, Receiving!Schedule, Destination!Stop, Receiving!Stop,
      Destination!Hold, Receiving!Hold, Destination!Return, Receiving!Return,
      Destination!EndReassembly, Receiving!EndReassembly, Destination!RejectSegment,
      Receiving!RejectSegment, Destination!Fresh, Receiving!Fresh, Destination!AgeRecords,
      Receiving!AgeRecords, Destination!Becomes, Receiving!Becomes, Destination!BusyReference,
      Receiving!BusyReference
<1>8. ASSUME NEW u, NEW v PROVE Destination!RefuseSegment(u, v) <=> Receiving!RefuseSegment(u, v)
  BY Zenon
  DEF Destination!Key, Receiving!Key, Destination!SegmentHash, Receiving!SegmentHash,
      Destination!NoHash, Receiving!NoHash, Destination!Known, Receiving!Known,
      Destination!InProgress, Receiving!InProgress, Destination!Failed, Receiving!Failed,
      Destination!Put, Receiving!Put, Destination!Remove, Receiving!Remove, Destination!After,
      Receiving!After, Destination!Schedule, Receiving!Schedule, Destination!Stop, Receiving!Stop,
      Destination!Hold, Receiving!Hold, Destination!Return, Receiving!Return,
      Destination!EndReassembly, Receiving!EndReassembly, Destination!RejectSegment,
      Receiving!RejectSegment, Destination!Fresh, Receiving!Fresh, Destination!AgeRecords,
      Receiving!AgeRecords, Destination!Becomes, Receiving!Becomes, Destination!OfFailedMessage,
      Receiving!OfFailedMessage, Destination!Cleared, Receiving!Cleared, Destination!StartsMessage,
      Receiving!StartsMessage, Destination!NoAssociation, Receiving!NoAssociation,
      Destination!RefuseSegment, Receiving!RefuseSegment
<1>9. ASSUME NEW u, NEW v PROVE Destination!FailSegment(u, v) <=> Receiving!FailSegment(u, v)
  BY Zenon
  DEF Destination!Key, Receiving!Key, Destination!SegmentHash, Receiving!SegmentHash,
      Destination!Known, Receiving!Known, Destination!InProgress, Receiving!InProgress,
      Destination!Failed, Receiving!Failed, Destination!After, Receiving!After,
      Destination!Schedule, Receiving!Schedule, Destination!Stop, Receiving!Stop,
      Destination!RoomFor, Receiving!RoomFor, Destination!Hold, Receiving!Hold, Destination!Return,
      Receiving!Return, Destination!FailReassembly, Receiving!FailReassembly, Destination!Fresh,
      Receiving!Fresh, Destination!AgeRecords, Receiving!AgeRecords, Destination!Becomes,
      Receiving!Becomes, Destination!Continues, Receiving!Continues, Destination!Asked,
      Receiving!Asked, Destination!Bound, Receiving!Bound, Destination!Fits, Receiving!Fits,
      Destination!FailSegment, Receiving!FailSegment
<1>10. ASSUME NEW u PROVE Destination!RefuseStart(u) <=> Receiving!RefuseStart(u)
  BY Zenon
  DEF Destination!Key, Receiving!Key, Destination!SegmentHash, Receiving!SegmentHash,
      Destination!NoHash, Receiving!NoHash, Destination!Known, Receiving!Known,
      Destination!InProgress, Receiving!InProgress, Destination!Failed, Receiving!Failed,
      Destination!Put, Receiving!Put, Destination!Remove, Receiving!Remove, Destination!After,
      Receiving!After, Destination!Schedule, Receiving!Schedule, Destination!Stop, Receiving!Stop,
      Destination!RoomFor, Receiving!RoomFor, Destination!Hold, Receiving!Hold, Destination!Return,
      Receiving!Return, Destination!EndReassembly, Receiving!EndReassembly,
      Destination!RejectSegment, Receiving!RejectSegment, Destination!Fresh, Receiving!Fresh,
      Destination!AgeRecords, Receiving!AgeRecords, Destination!Becomes, Receiving!Becomes,
      Destination!OfFailedMessage, Receiving!OfFailedMessage, Destination!Cleared,
      Receiving!Cleared, Destination!StartsMessage, Receiving!StartsMessage, Destination!CanStart,
      Receiving!CanStart, Destination!RefuseStart, Receiving!RefuseStart
<1>11. ASSUME NEW u PROVE Destination!StartReassembly(u) <=> Receiving!StartReassembly(u)
  BY Zenon
  DEF Destination!Key, Receiving!Key, Destination!SegmentHash, Receiving!SegmentHash,
      Destination!NoHash, Receiving!NoHash, Destination!Known, Receiving!Known,
      Destination!InProgress, Receiving!InProgress, Destination!Failed, Receiving!Failed,
      Destination!Put, Receiving!Put, Destination!Remove, Receiving!Remove, Destination!After,
      Receiving!After, Destination!Schedule, Receiving!Schedule, Destination!Stop, Receiving!Stop,
      Destination!RoomFor, Receiving!RoomFor, Destination!Hold, Receiving!Hold,
      Destination!EndReassembly, Receiving!EndReassembly, Destination!Fresh, Receiving!Fresh,
      Destination!AgeRecords, Receiving!AgeRecords, Destination!Becomes, Receiving!Becomes,
      Destination!OfFailedMessage, Receiving!OfFailedMessage, Destination!Cleared,
      Receiving!Cleared, Destination!StartsMessage, Receiving!StartsMessage, Destination!CanStart,
      Receiving!CanStart, Destination!StartReassembly, Receiving!StartReassembly
<1>12. ASSUME NEW u PROVE Destination!ExtendReassembly(u) <=> Receiving!ExtendReassembly(u)
  BY Zenon
  DEF Destination!Key, Receiving!Key, Destination!Known, Receiving!Known, Destination!InProgress,
      Receiving!InProgress, Destination!Failed, Receiving!Failed, Destination!RoomFor,
      Receiving!RoomFor, Destination!Hold, Receiving!Hold, Destination!Fresh, Receiving!Fresh,
      Destination!AgeRecords, Receiving!AgeRecords, Destination!Becomes, Receiving!Becomes,
      Destination!Continues, Receiving!Continues, Destination!Asked, Receiving!Asked,
      Destination!Bound, Receiving!Bound, Destination!Fits, Receiving!Fits, Destination!Extended,
      Receiving!Extended, Destination!ExtendReassembly, Receiving!ExtendReassembly
<1>13. ASSUME NEW u PROVE Destination!CompleteReassembly(u) <=> Receiving!CompleteReassembly(u)
  BY Zenon
  DEF Destination!Key, Receiving!Key, Destination!Known, Receiving!Known, Destination!InProgress,
      Receiving!InProgress, Destination!Failed, Receiving!Failed, Destination!Remove,
      Receiving!Remove, Destination!Stop, Receiving!Stop, Destination!RoomFor, Receiving!RoomFor,
      Destination!Hold, Receiving!Hold, Destination!Deliver, Receiving!Deliver,
      Destination!EndReassembly, Receiving!EndReassembly, Destination!Fresh, Receiving!Fresh,
      Destination!AgeRecords, Receiving!AgeRecords, Destination!Becomes, Receiving!Becomes,
      Destination!Continues, Receiving!Continues, Destination!Asked, Receiving!Asked,
      Destination!Bound, Receiving!Bound, Destination!Fits, Receiving!Fits, Destination!Extended,
      Receiving!Extended, Destination!CompleteReassembly, Receiving!CompleteReassembly
<1>14. ASSUME NEW u PROVE Destination!HandleSegment(u) <=> Receiving!HandleSegment(u)
  BY Zenon, <1>6, <1>7, <1>8, <1>9, <1>10, <1>11, <1>12, <1>13
  DEF Destination!Due, Receiving!Due, Destination!Ready, Receiving!Ready, Destination!Unlock,
      Receiving!Unlock, Destination!Reassemble, Receiving!Reassemble, Destination!Segmented,
      Receiving!Segmented, Destination!HandleSegment, Receiving!HandleSegment
<1> QED BY Zenon, <1>1, <1>2, <1>3, <1>4, <1>5, <1>14

LEMMA SenderSteps ==
    /\ Sending!Init => Sending!Inv
    /\ Sending!Inv /\ Sending!Tick => Sending!Inv'
    /\ \A n : Sending!Inv /\ Sending!Unitdata(n, TRUE) => Sending!Inv'
    /\ Sending!Inv /\ UNCHANGED sender => Sending!Inv'
<1>1. Sending!Init => Sending!Inv BY SendingAssumed, Sending!InitInv
<1>2. \A n : Sending!Inv /\ Sending!Unitdata(n, TRUE) => Sending!Inv'
  BY SendingAssumed, Sending!UnitdataInv
<1>3. Sending!Inv /\ (Sending!Tick \/ UNCHANGED sender) => Sending!Inv'
  BY SendingAssumed, Sending!NextInv DEF Sending!Next, Sending!vars, sender
<1> QED BY <1>1, <1>2, <1>3

LEMMA ReceiverSteps ==
    /\ Receiving!Init => Receiving!Inv
    /\ Receiving!Inv /\ Receiving!Tick =>
          /\ Receiving!Inv'
          /\ stack'.reassemblies = stack.reassemblies /\ stack'.res = <<>>
          /\ \A n \in stack'.timers : \E t \in stack.timers :
                 n.key = t.key /\ n.left = t.left - 1 /\ t.left > 0 - MaxLate
    /\ Receiving!Inv /\ (Receiving!Call \/ Receiving!HandleTimeout) =>
          Receiving!Inv' /\ Receiving!Unmoved
    /\ Receiving!Inv /\ Receiving!Fire =>
          Receiving!Inv' /\ \E k \in Receiving!Key : Receiving!Fires(k)
    /\ \A u \in Receiving!Segment :
          Receiving!Inv /\ Receiving!HandleSegment(u) => Receiving!Inv' /\ Receiving!Moves(u)
    /\ Receiving!Inv /\ UNCHANGED receiver => Receiving!Inv'
<1>1. Receiving!Init => Receiving!Inv BY ReceivingAssumed, Receiving!InitInv
<1>2. Receiving!Inv /\ Receiving!Tick =>
        /\ Receiving!Inv'
        /\ stack'.reassemblies = stack.reassemblies /\ stack'.res = <<>>
        /\ \A n \in stack'.timers : \E t \in stack.timers :
               n.key = t.key /\ n.left = t.left - 1 /\ t.left > 0 - MaxLate
  BY ReceivingAssumed, Receiving!TickStep, Receiving!TickMoves
<1>3. Receiving!Inv /\ (Receiving!Call \/ Receiving!HandleTimeout) =>
          Receiving!Inv' /\ Receiving!Unmoved
  BY ReceivingAssumed, Receiving!CallStep, Receiving!CallMoves
<1>4. Receiving!Inv /\ Receiving!Fire =>
          Receiving!Inv' /\ \E k \in Receiving!Key : Receiving!Fires(k)
  BY ReceivingAssumed, Receiving!FireStep
<1>5. \A u \in Receiving!Segment :
          Receiving!Inv /\ Receiving!HandleSegment(u) => Receiving!Inv' /\ Receiving!Moves(u)
  BY ReceivingAssumed, Receiving!SegmentStep
<1>6. Receiving!Inv /\ UNCHANGED receiver => Receiving!Inv'
  BY ReceivingAssumed, Receiving!NextInv DEF receiver, Receiving!vars
<1> QED BY <1>1, <1>2, <1>3, <1>4, <1>5, <1>6

-----------------------------------------------------------------------------
(* What Send does.                                                         *)

(* A message becomes the use w of the reference r.                         *)
Sends(r, w) ==
    /\ r \in Reference /\ request'.ref = r
    /\ sinceUsed[r] >= SegmentationReferenceFreeze - MaxLag
    /\ sinceUsed' = [sinceUsed EXCEPT ![r] = 0]
    /\ Shape(w) /\ w.message = sentCount + 1
    /\ sentCount < MaxMessages /\ sentCount' = sentCount + 1
    /\ inFlight' = inFlight \cup
          {[age |-> 0, segment |-> NthSegment(w, r, i)] : i \in 1 .. w.count}
    /\ UNCHANGED <<receiver, repeats, outcome>>

LEMMA ShapeOf ==
    ASSUME NEW n \in DataSizes, Sending!NeedsSegments(n)
    PROVE  /\ n \in 1 .. MaxLongData
           /\ Sending!Count(n) \in 2 .. MaxSegments /\ Sending!Count(n) <= n
           /\ n <= SegmentCapacity * Sending!Count(n)
<1>1. SegmentCapacity \in Nat /\ MaxLongData \in Nat /\ MaxSegments \in Nat
      /\ n \in SegmentCapacity + 1 .. MaxLongData
  BY TransferAssumption, StackAssumption
<1>2. Sending!SegmentSize = SegmentCapacity BY DEF Sending!SegmentSize
<1>3. SegmentCapacity >= 1 /\ Sending!Count(n) <= MaxSegments /\ Sending!Count(n) > 1
  BY <1>2 DEF Sending!NeedsSegments, Sending!CanSegment
<1>4. n \in Nat /\ n > 0 BY <1>1
<1>5. /\ Sending!Count(n) \in Nat /\ Sending!Count(n) <= n
      /\ n <= SegmentCapacity * Sending!Count(n)
  BY <1>1, <1>2, <1>3, <1>4, SendingAssumed, Sending!CountBounds
<1> QED BY <1>1, <1>3, <1>4, <1>5

LEMMA SegmentInRange ==
    ASSUME NEW w, Shape(w), w.message \in Message, NEW r \in Reference, NEW i \in 1 .. w.count
    PROVE  NthSegment(w, r, i) \in Receiving!Segment
<1> DEFINE q == w.length \div w.count
           b == w.length % w.count
           size == Sending!SplitSegments(w.length, w.count)[i]
<1>1. /\ w.length \in Nat /\ w.count \in Nat /\ w.count > 0 /\ w.count <= MaxSegments
      /\ w.count <= w.length /\ w.length <= SegmentCapacity * w.count
      /\ SegmentCapacity \in Nat /\ MaxSegments \in Nat
  BY StackAssumption DEF Shape
<1>2. q \in Nat /\ q > 0 /\ b \in Nat /\ q <= SegmentCapacity /\ (b > 0 => q + 1 <= SegmentCapacity)
  BY <1>1, SendingAssumed, Sending!ShareBounds
<1>3. size = q + (IF i <= b THEN 1 ELSE 0) BY DEF Sending!SplitSegments
<1> HIDE DEF q, b, size
<1>4. size \in 1 .. SegmentCapacity BY <1>1, <1>2, <1>3
<1>5. KeyOf(r) \in Receiving!Key BY DEF KeyOf, Receiving!Key, Reference
<1>6. w.count - i \in 0 .. MaxSegments - 1 /\ i \in 1 .. MaxSegments BY <1>1
<1>7. (i = 1) \in BOOLEAN /\ <<w.message, i>> \in Message \X (1 .. MaxSegments) BY <1>6
<1>8. NthSegment(w, r, i) =
        [key |-> KeyOf(r), first |-> i = 1, remaining |-> w.count - i,
         content |-> <<w.message, i>>, len |-> size, returnOnError |-> i = 1]
  BY DEF NthSegment, size
<1> QED BY <1>4, <1>5, <1>6, <1>7, <1>8 DEF Receiving!Segment

LEMMA SendMoves ==
    ASSUME Sending!Inv, NEW n \in DataSizes, Send(n)
    PROVE  \E r, w : Sends(r, w)
<1>1. Sending!Unitdata(n, TRUE) /\ request'.type = "segments" BY SameSender DEF Send
<1>2. ~ Sending!SendSingle(n) BY <1>1 DEF Sending!SendSingle, Sending!Single
<1>3. ~ Sending!Refuse(n) BY <1>1 DEF Sending!Refuse, Sending!Refused
<1>4. \A age : ~ Sending!FindNoReference(n, age)
  BY <1>1 DEF Sending!FindNoReference, Sending!Exhaustion
<1>5. PICK age \in 0 .. MaxLag, r \in Reference : Sending!SendSegments(n, TRUE, r, age)
  BY <1>1, <1>2, <1>3, <1>4 DEF Sending!Unitdata, Sending!SegReference, Reference
<1> DEFINE c == Sending!Count(n)
           w == [message |-> sentCount + 1, length |-> n, count |-> c]
<1>6. /\ Sending!NeedsSegments(n) /\ Sending!Allocates(r, age)
      /\ Sending!FreezeReference(r, age) /\ request' = Sending!Segments(n, r, TRUE)
  BY <1>5 DEF Sending!SendSegments
<1> DEFINE R(i) == [first |-> i = 1, remaining |-> c - i,
                    len |-> Sending!SplitSegments(n, c)[i], returnOnError |-> i = 1]
<1>7. request'.ref = r /\ request'.messages = [i \in 1 .. c |-> R(i)]
  <2>1. Sending!Segments(n, r, TRUE).messages =
          [i \in 1 .. c |-> [first |-> i = 1, remaining |-> c - i,
              len |-> Sending!SplitSegments(n, c)[i], returnOnError |-> TRUE /\ i = 1]]
    BY Zenon DEF Sending!Segments
  <2>2. ASSUME NEW i PROVE (TRUE /\ i = 1) = (i = 1) OBVIOUS
  <2>3. Sending!Segments(n, r, TRUE).messages = [i \in 1 .. c |-> R(i)] BY Zenon, <2>1, <2>2
  <2>4. Sending!Segments(n, r, TRUE).ref = r BY DEF Sending!Segments
  <2> QED BY <1>6, <2>3, <2>4
<1>8. sinceUsed[r] >= SegmentationReferenceFreeze - MaxLag
  <2>1. r \in Sending!SegReference /\ r \notin Sending!StillFrozen(age)
    BY <1>6 DEF Sending!Allocates, Reference, Sending!SegReference
  <2> QED BY <2>1, SendingAssumed, Sending!FreeIsOld DEF Sending!Inv
<1>9. Shape(w) BY <1>6, ShapeOf DEF Shape
<1>10. inFlight' = inFlight \cup InTransit(sentCount + 1, r, request'.messages)
  BY <1>7 DEF Send
<1>11. InTransit(sentCount + 1, r, request'.messages) =
         {[age |-> 0, segment |-> NthSegment(w, r, i)] : i \in 1 .. c}
  <2> DEFINE m == request'.messages
             Sent(i) == [age |-> 0, segment |-> NthSegment(w, r, i)]
             Put(i) == [age |-> 0, segment |->
                [key |-> [peer |-> Sender, reference |-> r], first |-> m[i].first,
                 remaining |-> m[i].remaining, content |-> <<sentCount + 1, i>>,
                 len |-> m[i].len, returnOnError |-> m[i].returnOnError]]
  <2>1. /\ \A i \in 1 .. c : R(i).first = (i = 1) /\ R(i).returnOnError = (i = 1)
        /\ \A i \in 1 .. c : R(i).remaining = c - i
        /\ \A i \in 1 .. c : R(i).len = Sending!SplitSegments(n, c)[i]
    BY Zenon
  <2> HIDE DEF R
  <2>2. DOMAIN m = 1 .. c /\ \A i \in 1 .. c : m[i] = R(i) BY <1>7
  <2>3. w.message = sentCount + 1 /\ w.length = n /\ w.count = c OBVIOUS
  <2>4. InTransit(sentCount + 1, r, m) = {Put(i) : i \in 1 .. c} BY <2>2 DEF InTransit
  <2> HIDE DEF m, w, c
  <2>5. ASSUME NEW i \in 1 .. c PROVE Sent(i) = Put(i)
    <3>0. m[i] = R(i) /\ R(i).first = (i = 1) /\ R(i).returnOnError = (i = 1)
      BY Zenon, <2>1, <2>2
    <3>1. m[i].first = (i = 1) /\ m[i].returnOnError = (i = 1) BY <3>0
    <3>2. m[i].remaining = w.count - i BY Zenon, <2>1, <2>2, <2>3
    <3>3. m[i].len = Sending!SplitSegments(w.length, w.count)[i] BY Zenon, <2>1, <2>2, <2>3
    <3>4. NthSegment(w, r, i) =
            [key |-> [peer |-> Sender, reference |-> r], first |-> m[i].first,
             remaining |-> m[i].remaining, content |-> <<sentCount + 1, i>>,
             len |-> m[i].len, returnOnError |-> m[i].returnOnError]
      BY Zenon, <2>3, <3>1, <3>2, <3>3 DEF NthSegment, KeyOf
    <3> QED BY Zenon, <3>4
  <2> HIDE DEF Sent, Put
  <2>6. {Sent(i) : i \in 1 .. c} = {Put(i) : i \in 1 .. c} BY <2>5
  <2> QED BY <2>4, <2>6 DEF Sent, m
<1>12. sinceUsed' = [sinceUsed EXCEPT ![r] = 0] BY <1>6 DEF Sending!FreezeReference
<1>13. w.count = c /\ w.message = sentCount + 1 OBVIOUS
<1> HIDE DEF w, c, R
<1>14. Sends(r, w) BY <1>7, <1>8, <1>9, <1>10, <1>11, <1>12, <1>13 DEF Sends, Send
<1> QED BY <1>14

-----------------------------------------------------------------------------
(* Until when a reference is in use: the steps.                            *)

LEMMA TimersTyped ==
    ASSUME Receiving!Inv
    PROVE  /\ lag \in Nat /\ lag <= MaxLag
           /\ \A t \in stack.timers :
                 /\ t.key \in Receiving!Key /\ t.key.reference \in Reference
                 /\ t.key = KeyOf(t.key.reference)
                 /\ t.left \in Int /\ Receiving!Known(stack, t.key)
           /\ \A t, o \in stack.timers : t.key = o.key => t = o
           /\ \A k \in DOMAIN stack.reassemblies :
                 k \in Receiving!Key /\ k = KeyOf(k.reference) /\ k.reference \in Reference
<1>1. stack \in Receiving!StackRecord /\ Receiving!Timed(stack, {})
  BY DEF Receiving!Inv, Receiving!Whole, Receiving!WholeBut
<1>2. \A k \in Receiving!Key : k.reference \in Reference /\ k = KeyOf(k.reference)
  BY DEF Receiving!Key, Reference, KeyOf
<1>3. \A t \in stack.timers : t.key \in Receiving!Key /\ t.left \in Int
  BY <1>1 DEF Receiving!StackRecord, Receiving!Timer
<1>4. /\ \A t \in stack.timers : Receiving!Known(stack, t.key)
      /\ \A t, o \in stack.timers : t.key = o.key => t = o
  BY <1>1 DEF Receiving!Timed
<1>5. \A k \in DOMAIN stack.reassemblies : k \in Receiving!Key
  BY <1>1, ReceivingAssumed, Receiving!StackTyped
<1>6. lag \in Nat /\ lag <= MaxLag
  BY StackAssumption DEF Receiving!Inv, Receiving!ClockOK
<1> QED BY <1>2, <1>3, <1>4, <1>5, <1>6

LEMMA AgesTyped == Sending!Inv => sinceUsed \in [Reference -> Nat]
BY DEF Sending!Inv, Sending!Kept, Sending!Typed, Sending!SegReference, Reference

(* An entry that is as it was waits as it did.                             *)
LEMMA WaitingSame ==
    ASSUME NEW k, Receiving!Known(stack, k) <=> Receiving!Known(stack', k),
           Receiving!Known(stack, k) => stack'.reassemblies[k] = stack.reassemblies[k]
    PROVE  Waiting(k)' <=> Waiting(k)
BY DEF Waiting, Receiving!InProgress, Receiving!Failed, Receiving!NoHash

LEMMA QuietTick == ASSUME Sending!Inv, Receiving!Inv, Quiet, Tick PROVE Quiet'
<1>1. Sending!Tick /\ Receiving!Tick BY SameSender, SameReceiver DEF Tick
<1>2. NetworkDelay \in Nat /\ sinceUsed \in [Reference -> Nat] BY TransferAssumption, AgesTyped
<1>3. \A r \in Reference : sinceUsed'[r] \in Nat /\ sinceUsed'[r] <= sinceUsed[r] + 1
  BY <1>1, <1>2 DEF Sending!Tick, Sending!Longer, Sending!SegReference, Reference
<1>4. Young'
  <2> SUFFICES ASSUME NEW g \in inFlight'
               PROVE  /\ g \in [age : 0 .. NetworkDelay, segment : Receiving!Segment]
                      /\ sinceUsed'[g.segment.key.reference] <= g.age
    BY DEF Young
  <2>1. PICK f \in inFlight : f.age < NetworkDelay /\ g = [f EXCEPT !.age = @ + 1] BY DEF Tick
  <2>2. /\ f \in [age : 0 .. NetworkDelay, segment : Receiving!Segment]
        /\ sinceUsed[f.segment.key.reference] <= f.age
    BY DEF Quiet, Young
  <2>3. g.segment = f.segment /\ g.age = f.age + 1
        /\ g \in [age : 0 .. NetworkDelay, segment : Receiving!Segment]
    BY <1>2, <2>1, <2>2
  <2>4. f.segment.key.reference \in Reference
    BY <2>2 DEF Receiving!Segment, Receiving!Key, Reference
  <2> QED BY <1>2, <1>3, <2>2, <2>3, <2>4
<1>5. Expires'
  <2> SUFFICES ASSUME NEW n \in stack'.timers, Waiting(n.key)'
               PROVE  LET since == sinceUsed'[n.key.reference]
                      IN  /\ n.left + since <= NetworkDelay + ReassemblyTimeout
                          /\ n.left >= 0 - MaxLate \/ since <= NetworkDelay
    BY DEF Expires
  <2>1. /\ stack'.reassemblies = stack.reassemblies
        /\ \E t \in stack.timers :
              n.key = t.key /\ n.left = t.left - 1 /\ t.left > 0 - MaxLate
    BY <1>1, ReceiverSteps
  <2>2. PICK t \in stack.timers : n.key = t.key /\ n.left = t.left - 1 /\ t.left > 0 - MaxLate
    BY <2>1
  <2>3. Waiting(t.key) BY <2>1, <2>2, WaitingSame DEF Receiving!Known
  <2>4. t.left + sinceUsed[t.key.reference] <= NetworkDelay + ReassemblyTimeout
    BY <2>3 DEF Quiet, Expires
  <2>5. t.left \in Int /\ t.key.reference \in Reference BY TimersTyped
  <2>6. MaxLate \in Nat /\ ReassemblyTimeout \in Nat BY StackAssumption
  <2> QED BY <1>2, <1>3, <2>2, <2>4, <2>5, <2>6
<1> QED BY <1>4, <1>5 DEF Quiet

(* What a step is about that is not about time: a key.                     *)
LEMMA QuietChanges ==
    ASSUME Sending!Inv, Receiving!Inv, Quiet, UNCHANGED sinceUsed, inFlight' \subseteq inFlight,
           NEW k \in Receiving!Key, Receiving!Changes(stack, stack', k),
           Waiting(k)' => sinceUsed[k.reference] <= NetworkDelay
    PROVE  Quiet'
<1>1. Young' BY DEF Quiet, Young
<1>2. ASSUME NEW n \in stack'.timers, Waiting(n.key)'
      PROVE  LET since == sinceUsed[n.key.reference]
             IN  /\ n.left + since <= NetworkDelay + ReassemblyTimeout
                 /\ n.left >= 0 - MaxLate \/ since <= NetworkDelay
  <2>1. CASE n \in Receiving!Others(stack, k)
    <3>1. n \in stack.timers /\ n.key # k BY <2>1 DEF Receiving!Others
    <3>2. Waiting(n.key)
      BY <1>2, <3>1, WaitingSame DEF Receiving!Changes, Receiving!SameBut, Receiving!Known
    <3> QED BY <3>1, <3>2 DEF Quiet, Expires
  <2>2. CASE n \notin Receiving!Others(stack, k)
    <3>1. n.key = k /\ n.left = ReassemblyTimeout - lag
      BY <2>2 DEF Receiving!Changes, Receiving!NewTimer, Receiving!After
    <3>2. k.reference \in Reference BY DEF Receiving!Key, Reference
    <3>3. sinceUsed[k.reference] \in Nat BY <3>2, AgesTyped
    <3>4. lag \in Nat /\ ReassemblyTimeout \in Nat /\ NetworkDelay \in Nat
      BY TimersTyped, StackAssumption, TransferAssumption
    <3> QED BY <1>2, <3>1, <3>3, <3>4
  <2> QED BY <2>1, <2>2
<1>3. Expires' BY <1>2 DEF Expires
<1> QED BY <1>1, <1>3 DEF Quiet

LEMMA QuietUnmoved ==
    ASSUME Quiet, UNCHANGED sinceUsed, inFlight' \subseteq inFlight, stack'.timers = stack.timers,
           \A k : Waiting(k)' => Waiting(k)
    PROVE  Quiet'
<1>1. Young' BY DEF Quiet, Young
<1>2. Expires' BY DEF Quiet, Expires
<1> QED BY <1>1, <1>2 DEF Quiet

(* Who waits has a timer.                                                  *)
LEMMA WaitingTimed ==
    ASSUME Receiving!Inv, NEW k, Waiting(k)
    PROVE  \E t \in stack.timers : t.key = k
<1>1. k \in DOMAIN stack.reassemblies \ {}
  BY DEF Waiting, Receiving!InProgress, Receiving!Failed, Receiving!Known
<1> QED BY <1>1 DEF Receiving!Inv, Receiving!Whole, Receiving!WholeBut, Receiving!Timed

(* Nothing is under way or waits with a reference that may be used.        *)
LEMMA FreeIsQuiet ==
    ASSUME Sending!Inv, Receiving!Inv, Quiet, NEW r \in Reference,
           sinceUsed[r] >= SegmentationReferenceFreeze - MaxLag
    PROVE  ~ Waiting(KeyOf(r)) /\ \A f \in inFlight : f.segment.key.reference # r
<1>1. /\ sinceUsed[r] \in Nat /\ NetworkDelay \in Nat /\ ReassemblyTimeout \in Nat
      /\ MaxLate \in Nat /\ MaxLag \in Nat /\ SegmentationReferenceFreeze \in Nat
  BY AgesTyped, StackAssumption, TransferAssumption
<1>2. sinceUsed[r] > NetworkDelay + ReassemblyTimeout + MaxLate BY <1>1, FreezeAssumption
<1>3. \A f \in inFlight : f.segment.key.reference # r
  BY <1>1, <1>2 DEF Quiet, Young
<1>4. ~ Waiting(KeyOf(r))
  <2> SUFFICES ASSUME Waiting(KeyOf(r)) PROVE FALSE OBVIOUS
  <2>1. PICK t \in stack.timers : t.key = KeyOf(r) BY WaitingTimed
  <2>2. t.key.reference = r /\ t.left \in Int BY <2>1, TimersTyped DEF KeyOf
  <2>3. /\ t.left + sinceUsed[r] <= NetworkDelay + ReassemblyTimeout
        /\ t.left >= 0 - MaxLate \/ sinceUsed[r] <= NetworkDelay
    BY <2>1, <2>2 DEF Quiet, Expires
  <2> QED BY <1>1, <1>2, <2>2, <2>3
<1> QED BY <1>3, <1>4

LEMMA QuietSend ==
    ASSUME Sending!Inv, Receiving!Inv, Quiet, NEW r, NEW w, Sends(r, w), sentCount \in Nat
    PROVE  Quiet'
<1>1. /\ r \in Reference /\ Shape(w) /\ w.message \in Message
      /\ sinceUsed' = [sinceUsed EXCEPT ![r] = 0] /\ sinceUsed \in [Reference -> Nat]
      /\ UNCHANGED stack /\ NetworkDelay \in Nat
  BY AgesTyped, TransferAssumption DEF Sends, receiver, Message
<1>2. \A q \in Reference : sinceUsed'[q] \in Nat /\ sinceUsed'[q] <= sinceUsed[q] BY <1>1
<1>3. Young'
  <2> SUFFICES ASSUME NEW f \in inFlight'
               PROVE  /\ f \in [age : 0 .. NetworkDelay, segment : Receiving!Segment]
                      /\ sinceUsed'[f.segment.key.reference] <= f.age
    BY DEF Young
  <2>1. CASE f \in inFlight
    <3>1. /\ f \in [age : 0 .. NetworkDelay, segment : Receiving!Segment]
          /\ sinceUsed[f.segment.key.reference] <= f.age
      BY <2>1 DEF Quiet, Young
    <3>2. f.age \in Nat /\ f.segment.key.reference \in Reference
      BY <1>1, <3>1 DEF Receiving!Segment, Receiving!Key, Reference
    <3> QED BY <1>1, <1>2, <3>1, <3>2
  <2>2. CASE f \notin inFlight
    <3>1. PICK i \in 1 .. w.count : f = [age |-> 0, segment |-> NthSegment(w, r, i)]
      BY <2>2 DEF Sends
    <3>2. f.age = 0 /\ f.segment \in Receiving!Segment /\ f.segment.key.reference = r
      BY <1>1, <3>1, SegmentInRange DEF NthSegment, KeyOf
    <3>3. sinceUsed'[r] = 0 BY <1>1
    <3> QED BY <1>1, <3>1, <3>2, <3>3
  <2> QED BY <2>1, <2>2
<1>4. Expires'
  <2> SUFFICES ASSUME NEW t \in stack.timers, Waiting(t.key)
               PROVE  LET since == sinceUsed'[t.key.reference]
                      IN  /\ t.left + since <= NetworkDelay + ReassemblyTimeout
                          /\ t.left >= 0 - MaxLate \/ since <= NetworkDelay
    BY <1>1, WaitingSame DEF Expires, Receiving!Known
  <2>1. sinceUsed[r] >= SegmentationReferenceFreeze - MaxLag BY DEF Sends
  <2>2. t.key # KeyOf(r) BY <1>1, <2>1, FreeIsQuiet
  <2>3. t.key.reference \in Reference /\ t.key.reference # r BY <2>2, TimersTyped
  <2>4. sinceUsed'[t.key.reference] = sinceUsed[t.key.reference] BY <1>1, <2>3
  <2> QED BY <2>4 DEF Quiet, Expires
<1> QED BY <1>3, <1>4 DEF Quiet

LEMMA HashIsKnown ==
    ASSUME NEW s, NEW k, s.reassemblies[k].hash = Receiving!NoHash
    PROVE  \A p : s.reassemblies[k] # Receiving!FailedRecord(p)
<1>1. \A p : Receiving!FailedRecord(p).hash # <<>>
  BY DEF Receiving!FailedRecord, Receiving!SegmentHash
<1> QED BY <1>1 DEF Receiving!NoHash

LEMMA QuietFire ==
    ASSUME Sending!Inv, Receiving!Inv, Quiet, UNCHANGED <<sender, inFlight>>,
           NEW k \in Receiving!Key, Receiving!Fires(k)
    PROVE  Quiet'
<1>1. UNCHANGED sinceUsed BY DEF sender
<1>2. Receiving!Changes(stack, stack', k)
  BY ReceivingAssumed, Receiving!DroppedOrMade DEF Receiving!Fires, Receiving!Failing
<1>3. ~ Waiting(k)'
  <2>1. CASE Receiving!Failing(k, stack.reassemblies[k].returnOnError)
    BY <2>1, HashIsKnown
       DEF Receiving!Failing, Receiving!Made, Waiting, Receiving!InProgress, Receiving!Failed,
           Receiving!FailedRecord
  <2>2. CASE Receiving!Dropped(stack, stack', k)
    BY <2>2 DEF Receiving!Dropped, Waiting, Receiving!InProgress, Receiving!Failed
  <2> QED BY <2>1, <2>2 DEF Receiving!Fires
<1> QED BY <1>1, <1>2, <1>3, QuietChanges

LEMMA QuietArrive ==
    ASSUME Sending!Inv, Receiving!Inv, Quiet, NEW f \in inFlight, Arrive(f),
           Receiving!Moves(f.segment)
    PROVE  Quiet'
<1> DEFINE u == f.segment
           k == u.key
<1>1. UNCHANGED sinceUsed /\ inFlight' \subseteq inFlight BY DEF Arrive, sender
<1>2. k \in Receiving!Key /\ sinceUsed[k.reference] <= NetworkDelay
  <2>1. /\ f \in [age : 0 .. NetworkDelay, segment : Receiving!Segment]
        /\ sinceUsed[f.segment.key.reference] <= f.age
    BY DEF Quiet, Young
  <2>2. k \in Receiving!Key BY <2>1 DEF Receiving!Segment
  <2>3. sinceUsed[k.reference] \in Nat /\ NetworkDelay \in Nat
    BY <2>2, AgesTyped, TransferAssumption DEF Receiving!Key, Reference
  <2> QED BY <2>1, <2>2, <2>3
<1>3. CASE Receiving!Unmoved
  <2>1. \A q : Waiting(q)' => Waiting(q)
    BY <1>3, WaitingSame DEF Receiving!Unmoved, Receiving!Known
  <2> QED BY <1>1, <1>3, <2>1, QuietUnmoved DEF Receiving!Unmoved
<1>4. CASE Receiving!Extending(u)
  <2>1. /\ Receiving!SameBut(stack, stack', k) /\ stack'.timers = stack.timers
        /\ Waiting(k)
    BY <1>4 DEF Receiving!Extending, Receiving!Continues, Waiting
  <2>2. \A q : Waiting(q)' => Waiting(q)
    BY <2>1, WaitingSame DEF Receiving!SameBut, Receiving!Known
  <2> QED BY <1>1, <2>1, <2>2, QuietUnmoved
<1>5. CASE Receiving!Changes(stack, stack', k) BY <1>1, <1>2, <1>5, QuietChanges
<1> QED
  BY <1>3, <1>4, <1>5, ReceivingAssumed, Receiving!DroppedOrMade
     DEF Receiving!Moves, Receiving!Rejected, Receiving!Started, Receiving!Failing,
         Receiving!Completed

-----------------------------------------------------------------------------
(* What holds whatever the segments carry.                                 *)

Core == Sending!Inv /\ Receiving!Inv /\ sentCount \in 0 .. MaxMessages /\ Quiet

LEMMA CoreInit == Init => Core
<1> SUFFICES ASSUME Init PROVE Core OBVIOUS
<1>1. Sending!Inv /\ Receiving!Inv
  BY SameSender, SenderSteps, SameReceiver, ReceiverSteps DEF Init
<1>2. sentCount \in 0 .. MaxMessages BY TransferAssumption DEF Init
<1>3. stack.timers = {} BY SameReceiver DEF Init, Receiving!Init
<1>4. Quiet BY <1>3 DEF Init, Quiet, Young, Expires
<1> QED BY <1>1, <1>2, <1>4 DEF Core

LEMMA CoreSend ==
    ASSUME Core, NEW n \in DataSizes, Send(n)
    PROVE  Core' /\ \E r, w : Sends(r, w)
<1>1. PICK r, w : Sends(r, w) BY SendMoves DEF Core
<1>2. Sending!Inv' BY SameSender, SenderSteps DEF Send, Core
<1>3. Receiving!Inv' BY <1>1, ReceiverSteps DEF Sends, Core
<1>4. sentCount \in Nat /\ sentCount' \in 0 .. MaxMessages
  BY <1>1, TransferAssumption DEF Sends, Core
<1>5. Quiet' BY <1>1, <1>4, QuietSend DEF Core
<1> QED BY <1>1, <1>2, <1>3, <1>4, <1>5 DEF Core

LEMMA CoreArrive ==
    ASSUME Core, NEW f \in inFlight, Arrive(f)
    PROVE  Core' /\ f.segment \in Receiving!Segment /\ Receiving!Moves(f.segment)
<1>1. f.segment \in Receiving!Segment
  <2>1. f \in [age : 0 .. NetworkDelay, segment : Receiving!Segment] BY DEF Core, Quiet, Young
  <2> QED BY <2>1
<1>2. Receiving!HandleSegment(f.segment) BY SameReceiver DEF Arrive
<1>3. Receiving!Inv' /\ Receiving!Moves(f.segment) BY <1>1, <1>2, ReceiverSteps DEF Core
<1>4. Sending!Inv' BY SenderSteps DEF Arrive, Core
<1>5. Quiet' BY <1>3, QuietArrive DEF Core
<1> QED BY <1>1, <1>3, <1>4, <1>5 DEF Core, Arrive

LEMMA CoreFire ==
    ASSUME Core, Fire
    PROVE  Core' /\ \E k \in Receiving!Key : Receiving!Fires(k)
<1>1. Receiving!Fire BY SameReceiver DEF Fire
<1>2. Receiving!Inv' /\ \E k \in Receiving!Key : Receiving!Fires(k)
  BY <1>1, ReceiverSteps DEF Core
<1>3. Sending!Inv' BY SenderSteps DEF Fire, Core
<1>4. Quiet' BY <1>2, QuietFire DEF Core, Fire, network
<1> QED BY <1>2, <1>3, <1>4 DEF Core, Fire, network

LEMMA CoreCall == ASSUME Core, Call \/ HandleTimeout PROVE Core' /\ Receiving!Unmoved
<1>1. Receiving!Call \/ Receiving!HandleTimeout BY SameReceiver DEF Call, HandleTimeout
<1>2. Receiving!Inv' /\ Receiving!Unmoved BY <1>1, ReceiverSteps DEF Core
<1>3. UNCHANGED <<sender, network>> BY DEF Call, HandleTimeout
<1>4. Sending!Inv' BY <1>3, SenderSteps DEF Core
<1>5. \A k : Waiting(k)' => Waiting(k)
  BY <1>2, WaitingSame DEF Receiving!Unmoved, Receiving!Known
<1>6. Quiet'
  BY <1>2, <1>3, <1>5, QuietUnmoved DEF Core, Receiving!Unmoved, sender, network
<1> QED BY <1>2, <1>3, <1>4, <1>6 DEF Core, network

LEMMA CoreTick ==
    ASSUME Core, Tick
    PROVE  /\ Core'
           /\ stack'.reassemblies = stack.reassemblies /\ stack'.res = <<>>
           /\ \A n \in stack'.timers : \E t \in stack.timers :
                 n.key = t.key /\ n.left = t.left - 1
<1>1. Sending!Tick /\ Receiving!Tick BY SameSender, SameReceiver DEF Tick
<1>2. Sending!Inv' /\ Quiet' BY <1>1, SenderSteps, QuietTick DEF Core
<1>3. /\ Receiving!Inv'
      /\ stack'.reassemblies = stack.reassemblies /\ stack'.res = <<>>
      /\ \A n \in stack'.timers : \E t \in stack.timers :
            n.key = t.key /\ n.left = t.left - 1
  BY <1>1, ReceiverSteps DEF Core
<1> QED BY <1>2, <1>3 DEF Core, Tick

LEMMA CoreStutter == ASSUME Core, UNCHANGED vars PROVE Core'
<1>1. Sending!Inv' /\ Receiving!Inv' BY SenderSteps, ReceiverSteps DEF Core, vars
<1>2. UNCHANGED <<stack, sinceUsed, inFlight, sentCount>> BY DEF vars, sender, receiver, network
<1>3. \A k : Waiting(k)' => Waiting(k) BY <1>2, WaitingSame DEF Receiving!Known
<1>4. Quiet' BY <1>2, <1>3, QuietUnmoved DEF Core
<1> QED BY <1>1, <1>2, <1>4 DEF Core

(* The action of ReferenceQuiet.                                           *)
TakenQuiet ==
    \A r \in Reference :
        sentCount' # sentCount /\ request'.ref = r =>
            ~ Waiting(KeyOf(r)) /\ \A f \in inFlight : f.segment.key # KeyOf(r)

LEMMA CoreNext == Core /\ [Next]_vars => Core' /\ [TakenQuiet]_vars
<1> SUFFICES ASSUME Core, [Next]_vars PROVE Core' /\ TakenQuiet OBVIOUS
<1>1. CASE Tick BY <1>1, CoreTick DEF Tick, TakenQuiet
<1>2. ASSUME NEW n \in DataSizes, Send(n) PROVE Core' /\ TakenQuiet
  <2>1. PICK r, w : Sends(r, w) BY <1>2, CoreSend
  <2>2. request'.ref = r /\ ~ Waiting(KeyOf(r)) /\ \A f \in inFlight : f.segment.key.reference # r
    BY <2>1, FreeIsQuiet DEF Sends, Core
  <2>3. TakenQuiet BY <2>2 DEF TakenQuiet, KeyOf
  <2> QED BY <1>2, <2>3, CoreSend
<1>3. ASSUME NEW f \in inFlight, Arrive(f) PROVE Core' /\ TakenQuiet
  BY <1>3, CoreArrive DEF Arrive, TakenQuiet
<1>4. CASE Call \/ HandleTimeout
  BY <1>4, CoreCall DEF Call, HandleTimeout, TakenQuiet, network
<1>5. CASE Fire BY <1>5, CoreFire DEF Fire, TakenQuiet, network
<1>6. CASE UNCHANGED vars BY <1>6, CoreStutter DEF vars, network, TakenQuiet
<1> QED BY <1>1, <1>2, <1>3, <1>4, <1>5, <1>6 DEF Next

(* A reference is taken again only when no process waits for segments with *)
(* it, no record for its first one, and none of its segments is under way, *)
(* for any delay of the network, repetition of segments and ages of the    *)
(* clock readings within which the freeze is long enough                   *)
(* (allocateSegmentationReference, DefaultSegmentationReferenceFreeze).    *)
THEOREM ReferencesAreQuiet == Spec => ReferenceQuiet
<1>1. [TakenQuiet]_vars =>
        [\A r \in 0 .. MaxReference :
          sentCount' # sentCount /\ request'.ref = r =>
              LET k == [peer |-> Sender, reference |-> r] IN
              /\ ~Destination!InProgress(stack, k)
              /\ ~(Destination!Failed(stack, k) /\ stack.reassemblies[k].hash = <<>>)
              /\ \A f \in inFlight : f.segment.key # k]_vars
  BY DEF TakenQuiet, Waiting, KeyOf, Reference, Receiving!NoHash, Receiving!InProgress,
         Receiving!Failed, Receiving!Known, Destination!InProgress, Destination!Failed,
         Destination!Known
<1> QED BY <1>1, CoreInit, CoreNext, PTL DEF Spec, ReferenceQuiet

-----------------------------------------------------------------------------
(* Whose segments they are: the steps.                                     *)

LEMMA NthFields ==
    ASSUME NEW w, NEW r, NEW i
    PROVE  LET u == NthSegment(w, r, i) IN
           /\ u.key = KeyOf(r) /\ u.remaining = w.count - i
           /\ u.content = <<w.message, i>> /\ u.content[1] = w.message /\ u.content[2] = i
           /\ u.len = Sending!SplitSegments(w.length, w.count)[i]
<1>1. /\ NthSegment(w, r, i).content = <<w.message, i>>
      /\ NthSegment(w, r, i).key = KeyOf(r) /\ NthSegment(w, r, i).remaining = w.count - i
      /\ NthSegment(w, r, i).len = Sending!SplitSegments(w.length, w.count)[i]
  BY Zenon DEF NthSegment
<1> QED BY <1>1

LEMMA NthFlags ==
    ASSUME NEW w, NEW r, NEW i
    PROVE  LET u == NthSegment(w, r, i) IN u.first = (i = 1) /\ u.returnOnError = (i = 1)
BY Zenon DEF NthSegment

(* The bounds of a use.                                                    *)
LEMMA UseShape ==
    ASSUME NEW w, Use(w)
    PROVE  /\ Shape(w) /\ w.count \in Nat /\ w.count \in 2 .. MaxSegments
           /\ w.length \in 1 .. MaxLongData /\ MaxLongData \in Nat
<1>1. MaxSegments \in Nat /\ MaxLongData \in Nat BY StackAssumption
<1> QED BY <1>1 DEF Use, Shape

(* A prefix grows by a segment ...                                         *)
LEMMA UpToNext ==
    ASSUME NEW w, Shape(w), NEW j \in Nat, j < w.count
    PROVE  /\ UpTo(w, 0) = 0 /\ UpTo(w, j) \in Nat
           /\ UpTo(w, j + 1) = UpTo(w, j) + NthSegment(w, 0, j + 1).len
<1> DEFINE q == w.length \div w.count
           b == w.length % w.count
<1>1. w.length \in Nat /\ w.count \in Nat /\ w.count > 0
  BY StackAssumption DEF Shape
<1>2. q \in Nat /\ b \in Nat BY <1>1
<1>3. NthSegment(w, 0, j + 1).len = q + (IF j + 1 <= b THEN 1 ELSE 0)
  <2>1. j + 1 \in 1 .. w.count BY <1>1
  <2>2. NthSegment(w, 0, j + 1).len = Sending!SplitSegments(w.length, w.count)[j + 1]
    BY NthFields
  <2> QED BY <2>1, <2>2 DEF Sending!SplitSegments
<1>4. /\ UpTo(w, 0) = q * 0 + (IF 0 < b THEN 0 ELSE b)
      /\ UpTo(w, j) = q * j + (IF j < b THEN j ELSE b)
      /\ UpTo(w, j + 1) = q * (j + 1) + (IF j + 1 < b THEN j + 1 ELSE b)
  BY DEF UpTo
<1> HIDE DEF q, b
<1>5. q * 0 = 0 /\ q * j \in Nat /\ q * (j + 1) = q * j + q BY <1>2
<1> QED BY <1>2, <1>3, <1>4, <1>5

(* ... to the whole message, and never beyond what its first segment       *)
(* announces.                                                              *)
LEMMA UpToBounds ==
    ASSUME NEW w, Shape(w), NEW j \in 0 .. w.count
    PROVE  /\ UpTo(w, j) <= w.length
           /\ UpTo(w, j) <= NthSegment(w, 0, 1).len * w.count
<1> DEFINE q == w.length \div w.count
           b == w.length % w.count
           first == NthSegment(w, 0, 1).len
<1>1. w.length \in Nat /\ w.count \in Nat /\ w.count > 0
  BY StackAssumption DEF Shape
<1>2. q \in Nat /\ b \in Nat /\ b < w.count /\ w.length = w.count * q + b
  BY <1>1, SendingAssumed, Sending!QuotientAndRemainder
<1>3. first = q + (IF 1 <= b THEN 1 ELSE 0)
  <2>1. 1 \in 1 .. w.count BY <1>1
  <2>2. NthSegment(w, 0, 1).len = Sending!SplitSegments(w.length, w.count)[1]
    BY NthFields
  <2> QED BY <2>1, <2>2 DEF Sending!SplitSegments
<1>4. UpTo(w, j) = q * j + (IF j < b THEN j ELSE b) BY DEF UpTo
<1> HIDE DEF q, b, first
<1>5. q * j <= q * w.count BY <1>1, <1>2, SendingAssumed, Sending!ProductGrows
<1>6. /\ q * w.count = w.count * q /\ q * j \in Nat /\ w.count * q \in Nat
      /\ (q + 1) * w.count = w.count * q + w.count
  BY <1>1, <1>2
<1>7. UpTo(w, j) <= w.length BY <1>1, <1>2, <1>4, <1>5, <1>6
<1>8. UpTo(w, j) <= first * w.count
  <2>1. CASE b = 0
    <3>1. first = q BY <1>2, <1>3, <2>1
    <3> QED BY <1>2, <1>6, <1>7, <2>1, <3>1
  <2>2. CASE b # 0
    <3>1. first = q + 1 BY <1>2, <1>3, <2>2
    <3>2. first * w.count = w.count * q + w.count BY <1>6, <3>1
    <3>3. UpTo(w, j) <= w.count * q + b BY <1>2, <1>7
    <3>4. UpTo(w, j) \in Int BY <1>2, <1>4, <1>6
    <3> QED BY <1>1, <1>2, <1>6, <3>2, <3>3, <3>4
  <2> QED BY <2>1, <2>2
<1> QED BY <1>7, <1>8 DEF first

LEMMA ProcessTyped ==
    ASSUME Core, NEW k, Receiving!InProgress(stack, k)
    PROVE  LET p == stack.reassemblies[k] IN
           /\ k \in DOMAIN stack.reassemblies /\ k = KeyOf(k.reference) /\ k.reference \in Reference
           /\ p.data \in Seq(Message \X (1 .. MaxSegments)) /\ p.len \in Nat /\ p.expected \in Nat
           /\ Len(p.data) >= 1 /\ Len(p.data) + p.expected = p.first.remaining
<1>1. k \in DOMAIN stack.reassemblies \ {} /\ ~ stack.reassemblies[k].failed
  BY DEF Receiving!InProgress, Receiving!Known
<1>2. stack \in Receiving!StackRecord /\ Receiving!Consistent(stack, {})
  BY DEF Core, Receiving!Inv, Receiving!Whole, Receiving!WholeBut
<1>3. stack.reassemblies[k] \in Receiving!Process
  BY <1>1, <1>2, ReceivingAssumed, Receiving!StackTyped
<1>4. Receiving!ConsistentProcess(stack.reassemblies[k]) BY <1>1, <1>2 DEF Receiving!Consistent
<1>5. k = KeyOf(k.reference) /\ k.reference \in Reference BY <1>1, TimersTyped DEF Core
<1>6. /\ stack.reassemblies[k].data \in Seq(Message \X (1 .. MaxSegments))
      /\ stack.reassemblies[k].len \in Nat
  BY <1>3 DEF Receiving!Process
<1>7. LET p == stack.reassemblies[k]
      IN  Len(p.data) >= 1 /\ Len(p.data) + p.expected = p.first.remaining
  BY <1>4 DEF Receiving!ConsistentProcess
<1>8. stack.reassemblies[k].expected \in Nat
  <2>1. stack.reassemblies[k].expected \in 0 .. 255 BY <1>3 DEF Receiving!Process
  <2> QED BY <2>1
<1>9. k \in DOMAIN stack.reassemblies BY <1>1
<1> QED BY Zenon, <1>5, <1>6, <1>7, <1>8, <1>9

LEMMA SegmentKnown ==
    ASSUME Core, NEW use, SegmentsOf(use), NEW f \in inFlight
    PROVE  LET r == f.segment.key.reference IN
           /\ r \in Reference /\ f.segment.key = KeyOf(r) /\ f.age \in 0 .. NetworkDelay
           /\ Use(use[r]) /\ use[r].count \in Nat
           /\ f.segment.content[1] = use[r].message
           /\ f.segment.content[2] \in 1 .. use[r].count
           /\ f.segment = NthSegment(use[r], r, f.segment.content[2])
<1> DEFINE u == f.segment
           r == u.key.reference
<1>1. f \in [age : 0 .. NetworkDelay, segment : Receiving!Segment]
  BY DEF Core, Quiet, Young
<1>2. r \in Reference /\ f.age \in 0 .. NetworkDelay
  BY <1>1 DEF Receiving!Segment, Receiving!Key, Reference
<1>3. PICK i \in 1 .. use[r].count : u = NthSegment(use[r], r, i) BY DEF SegmentsOf
<1>4. u.key = KeyOf(r) /\ u.content[1] = use[r].message /\ u.content[2] = i
  BY <1>3, NthFields
<1>5. Use(use[r]) /\ use[r].count \in Nat BY StackAssumption DEF SegmentsOf, Use, Shape
<1> QED BY <1>2, <1>3, <1>4, <1>5

(* What is in order stays so with the next segment.                        *)
LEMMA NextInOrder ==
    ASSUME NEW S, NEW d \in Seq(S), NEW e \in S, NEW m, e = <<m, Len(d) + 1>>, InOrder(d, m)
    PROVE  /\ Append(d, e) = AllOf(m, Len(d) + 1)
           /\ Len(Append(d, e)) = Len(d) + 1 /\ InOrder(Append(d, e), m)
<1> DEFINE a == Append(d, e)
<1>1. /\ a \in Seq(S) /\ Len(a) = Len(d) + 1 /\ Len(d) \in Nat
      /\ \A i \in 1 .. Len(d) : a[i] = d[i]
      /\ a[Len(d) + 1] = <<m, Len(d) + 1>>
  BY AppendProperties
<1> HIDE DEF a
<1>2. \A j \in 1 .. Len(d) + 1 : a[j] = <<m, j>>
  <2> SUFFICES ASSUME NEW j \in 1 .. Len(d) + 1 PROVE a[j] = <<m, j>> OBVIOUS
  <2>1. CASE j \in 1 .. Len(d) BY <1>1, <2>1 DEF InOrder
  <2>2. CASE j = Len(d) + 1 BY <1>1, <2>2
  <2> QED BY <1>1, <2>1, <2>2
<1>3. a = [j \in 1 .. Len(a) |-> a[j]] BY <1>1
<1> QED BY <1>1, <1>2, <1>3 DEF a, InOrder, AllOf

(* The segment a process waits for is the next of its message.             *)
LEMMA NextOfMessage ==
    ASSUME Core, NEW use, Assigned(use), NEW f \in inFlight,
           Receiving!Continues(f.segment),
           f.segment.remaining = stack.reassemblies[f.segment.key].expected
    PROVE  LET u == f.segment
               r == u.key.reference
               p == stack.reassemblies[u.key]
           IN  /\ Use(use[r]) /\ PrefixOf(p, use[r], r) /\ u.content[1] = use[r].message
               /\ Len(p.data) + 1 \in 2 .. use[r].count
               /\ u = NthSegment(use[r], r, Len(p.data) + 1)
               /\ u.remaining = use[r].count - (Len(p.data) + 1)
<1> DEFINE u == f.segment
           r == u.key.reference
           p == stack.reassemblies[u.key]
           i == u.content[2]
<1>1. Receiving!InProgress(stack, u.key) BY DEF Receiving!Continues
<1>2. /\ u.key \in DOMAIN stack.reassemblies
      /\ Len(p.data) \in Nat /\ p.expected \in Nat /\ Len(p.data) >= 1
      /\ Len(p.data) + p.expected = p.first.remaining
  BY <1>1, ProcessTyped
<1>3. /\ Use(use[r]) /\ use[r].count \in Nat
      /\ u.content[1] = use[r].message /\ i \in 1 .. use[r].count
      /\ u = NthSegment(use[r], r, i)
  BY SegmentKnown DEF Assigned
<1>4. PrefixOf(p, use[r], r) BY <1>1, <1>2 DEF Assigned, ProcessesOf
<1>5. p.first.remaining = use[r].count - 1 BY <1>4, NthFields DEF PrefixOf
<1>6. u.remaining = use[r].count - i BY <1>3, NthFields
<1>7. u.remaining = p.expected OBVIOUS
<1> DEFINE n == Len(p.data)
           c == use[r].count
<1>8. /\ n \in Nat /\ n >= 1 /\ c \in Nat /\ i \in 1 .. c
      /\ p.expected \in Nat /\ n + p.expected = c - 1 /\ p.expected = c - i
  BY <1>2, <1>3, <1>5, <1>6, <1>7
<1> HIDE DEF n, c, i
<1>9. i = n + 1 /\ n + 1 \in 2 .. c BY <1>8
<1>10. Len(p.data) + 1 = i /\ Len(p.data) + 1 \in 2 .. use[r].count BY Zenon, <1>9 DEF n, c
<1> HIDE DEF u, r, p
<1>11. u = NthSegment(use[r], r, Len(p.data) + 1) BY <1>3, <1>10
<1>12. u.remaining = use[r].count - (Len(p.data) + 1) BY <1>6, <1>10
<1> QED BY Zenon, <1>3, <1>4, <1>10, <1>11, <1>12 DEF u, r, p

(* A new use of a reference takes nothing from the messages under way.     *)
LEMMA AssignedSend ==
    ASSUME Core, NEW use, Assigned(use), NEW r, NEW w, Sends(r, w),
           NEW new, new = [q \in Reference |-> IF q = r THEN w ELSE use[q]]
    PROVE  Assigned(new)'
<1>1. /\ r \in Reference /\ Shape(w) /\ w.message = sentCount + 1 /\ sentCount \in Nat
      /\ sentCount' = sentCount + 1 /\ UNCHANGED stack
      /\ inFlight' = inFlight \cup
            {[age |-> 0, segment |-> NthSegment(w, r, i)] : i \in 1 .. w.count}
      /\ ~ Waiting(KeyOf(r)) /\ \A f \in inFlight : f.segment.key.reference # r
  BY FreeIsQuiet, TransferAssumption DEF Sends, Core, receiver
<1>2. \A v : Use(v) => Use(v)' BY <1>1 DEF Use
<1>3. Use(w)' BY <1>1 DEF Use
<1>4. SegmentsOf(new)'
  <2> SUFFICES ASSUME NEW f \in inFlight'
               PROVE  LET q == f.segment.key.reference IN
                      /\ Use(new[q])'
                      /\ \E i \in 1 .. new[q].count : f.segment = NthSegment(new[q], q, i)
    BY DEF SegmentsOf
  <2>1. CASE f \in inFlight
    <3>1. f.segment.key.reference \in Reference /\ f.segment.key.reference # r
      <4>1. SegmentsOf(use) BY DEF Assigned
      <4>2. f.segment.key.reference \in Reference BY <2>1, <4>1, SegmentKnown
      <4> QED BY <1>1, <2>1, <4>2
    <3>2. new[f.segment.key.reference] = use[f.segment.key.reference] BY <3>1
    <3> QED BY <1>2, <2>1, <3>2 DEF Assigned, SegmentsOf
  <2>2. CASE f \notin inFlight
    <3>1. PICK i \in 1 .. w.count : f = [age |-> 0, segment |-> NthSegment(w, r, i)]
      BY <1>1, <2>2
    <3>2. f.segment = NthSegment(w, r, i) BY <3>1
    <3>3. f.segment.key.reference = r
      <4>1. f.segment.key = KeyOf(r) BY <3>2, NthFields
      <4> QED BY <4>1 DEF KeyOf
    <3>4. new[r] = w BY <1>1
    <3> QED BY <1>3, <3>2, <3>3, <3>4
  <2> QED BY <2>1, <2>2
<1>5. ProcessesOf(new)'
  <2> SUFFICES ASSUME NEW k \in DOMAIN stack.reassemblies, Receiving!InProgress(stack, k)
               PROVE  /\ Use(new[k.reference])'
                      /\ PrefixOf(stack.reassemblies[k], new[k.reference], k.reference)
    BY <1>1 DEF ProcessesOf
  <2>1. k = KeyOf(k.reference) /\ k.reference \in Reference BY ProcessTyped
  <2>2. k.reference # r BY <1>1, <2>1 DEF Waiting
  <2>3. new[k.reference] = use[k.reference] BY <2>1, <2>2
  <2> QED BY <1>2, <2>3 DEF Assigned, ProcessesOf
<1>6. Apart(new)'
  <2>1. \A q \in Reference : new[q].message = IF q = r THEN sentCount + 1 ELSE use[q].message
    BY <1>1
  <2>2. /\ \A q \in Reference : use[q].message \in 0 .. sentCount
        /\ \A q, s \in Reference :
              use[q].message = use[s].message /\ use[s].message # 0 => q = s
    BY DEF Assigned, Apart
  <2>3. \A q \in Reference : new[q].message \in 0 .. sentCount' BY <1>1, <2>1, <2>2
  <2>4. ASSUME NEW q \in Reference, NEW s \in Reference,
               new[q].message = new[s].message, new[s].message # 0
        PROVE  q = s
    BY <1>1, <2>1, <2>2, <2>4
  <2> QED BY <2>3, <2>4 DEF Apart
<1> QED BY <1>4, <1>5, <1>6 DEF Assigned

(* No message takes a reference: what counts is the process of one key.    *)
LEMMA AssignedChange ==
    ASSUME NEW use, Assigned(use), UNCHANGED sentCount,
           \A g \in inFlight' : \E f \in inFlight : g.segment = f.segment,
           NEW k, Receiving!SameBut(stack, stack', k),
           Receiving!InProgress(stack', k) =>
              /\ Use(use[k.reference])
              /\ PrefixOf(stack'.reassemblies[k], use[k.reference], k.reference)
    PROVE  Assigned(use)'
<1>1. \A v : Use(v) <=> Use(v)' BY DEF Use
<1>2. SegmentsOf(use)' BY <1>1 DEF Assigned, SegmentsOf
<1>3. Apart(use)' BY DEF Assigned, Apart
<1>4. ProcessesOf(use)'
  <2> SUFFICES ASSUME NEW q \in DOMAIN stack'.reassemblies, Receiving!InProgress(stack', q)
               PROVE  /\ Use(use[q.reference])
                      /\ PrefixOf(stack'.reassemblies[q], use[q.reference], q.reference)
    BY <1>1 DEF ProcessesOf
  <2>1. CASE q # k
    <3>1. /\ q \in DOMAIN stack.reassemblies /\ Receiving!InProgress(stack, q)
          /\ stack'.reassemblies[q] = stack.reassemblies[q]
      BY <2>1 DEF Receiving!SameBut, Receiving!InProgress, Receiving!Known
    <3> QED BY <3>1 DEF Assigned, ProcessesOf
  <2> QED BY <2>1
<1> QED BY <1>2, <1>3, <1>4 DEF Assigned

LEMMA AssignedUnmoved ==
    ASSUME NEW use, Assigned(use), UNCHANGED sentCount,
           \A g \in inFlight' : \E f \in inFlight : g.segment = f.segment,
           stack'.reassemblies = stack.reassemblies
    PROVE  Assigned(use)'
<1>1. \A v : Use(v) <=> Use(v)' BY DEF Use
<1>2. SegmentsOf(use)' BY <1>1 DEF Assigned, SegmentsOf
<1>3. Apart(use)' BY DEF Assigned, Apart
<1>4. ProcessesOf(use)'
  BY <1>1 DEF Assigned, ProcessesOf, Receiving!InProgress, Receiving!Known
<1> QED BY <1>2, <1>3, <1>4 DEF Assigned

LEMMA AssignedFire ==
    ASSUME Core, NEW use, Assigned(use), Fire, NEW k, Receiving!Fires(k)
    PROVE  Assigned(use)'
<1>1. UNCHANGED sentCount /\ inFlight' = inFlight BY DEF Fire, network
<1>2. Receiving!SameBut(stack, stack', k) /\ ~ Receiving!InProgress(stack', k)
  <2>1. CASE Receiving!Failing(k, stack.reassemblies[k].returnOnError)
    BY <2>1 DEF Receiving!Failing, Receiving!Made, Receiving!FailedRecord, Receiving!InProgress
  <2>2. CASE Receiving!Dropped(stack, stack', k)
    BY <2>2 DEF Receiving!Dropped, Receiving!InProgress
  <2> QED BY <2>1, <2>2 DEF Receiving!Fires
<1> QED BY <1>1, <1>2, AssignedChange

LEMMA AssignedArrive ==
    ASSUME Core, NEW use, Assigned(use), NEW f \in inFlight, Arrive(f),
           Receiving!Moves(f.segment)
    PROVE  Assigned(use)'
<1> DEFINE u == f.segment
           k == u.key
           r == k.reference
           w == use[r]
<1>0. u \in Receiving!Segment BY CoreArrive
<1>1. UNCHANGED sentCount /\ \A g \in inFlight' : \E e \in inFlight : g.segment = e.segment
  BY DEF Arrive
<1>2. /\ Use(w) /\ w.count \in Nat /\ u.content[2] \in 1 .. w.count
      /\ u = NthSegment(w, r, u.content[2])
  BY SegmentKnown DEF Assigned
<1>3. CASE Receiving!Unmoved BY <1>1, <1>3, AssignedUnmoved DEF Receiving!Unmoved
<1>4. CASE \/ Receiving!Rejected(u) \/ Receiving!Failing(k, Receiving!Asked(u))
           \/ Receiving!Completed(u)
  <2> HIDE DEF r, w
  <2>1. Receiving!SameBut(stack, stack', k) /\ ~ Receiving!InProgress(stack', k)
    <3>1. \/ Receiving!Dropped(stack, stack', k)
          \/ Receiving!Made(stack, stack', k, "record", Receiving!OrphanRecord(u))
          \/ Receiving!Made(stack, stack', k, "record",
                            Receiving!FailedRecord(stack.reassemblies[k]))
      BY Zenon, <1>4 DEF Receiving!Rejected, Receiving!Completed, Receiving!Failing
    <3> HIDE DEF u, k
    <3> QED BY Zenon, <3>1, ReceivingAssumed, Receiving!RecordsFailed, Receiving!NotInProgress
  <2> QED BY <1>1, <2>1, AssignedChange
<1>5. CASE Receiving!Started(u)
  <2>1. /\ u.first /\ Receiving!SameBut(stack, stack', k)
        /\ stack'.reassemblies[k] = Receiving!StartedProcess(u)
    BY <1>5 DEF Receiving!Started, Receiving!StartsMessage, Receiving!Made
  <2> DEFINE q == stack'.reassemblies[k]
  <2>2. q.first = u /\ q.len = u.len /\ q.data = <<u.content>>
    BY <2>1 DEF Receiving!StartedProcess
  <2> HIDE DEF u, k, r, w, q
  <2>3. u.content[2] = 1
    <3>1. NthSegment(w, r, u.content[2]).first = (u.content[2] = 1) BY NthFlags
    <3> QED BY Zenon, <1>2, <2>1, <3>1
  <2>4. u = NthSegment(w, r, 1) BY <1>2, <2>3
  <2>5. u.content = <<w.message, 1>> /\ u.len = NthSegment(w, 0, 1).len BY <2>4, NthFields
  <2>6. UpTo(w, 1) = u.len
    <3>1. Shape(w) /\ 0 < w.count BY <1>2 DEF Use
    <3>2. UpTo(w, 0) = 0 /\ UpTo(w, 0 + 1) = UpTo(w, 0) + NthSegment(w, 0, 0 + 1).len
      BY <3>1, UpToNext
    <3>3. u.len \in Nat BY <1>0, StackAssumption DEF Receiving!Segment
    <3> QED BY <2>5, <3>2, <3>3
  <2>7. InOrder(q.data, w.message) /\ Len(q.data) = 1
    <3> DEFINE c == u.content
               m == w.message
    <3>1. c = <<m, 1>> /\ q.data = <<c>> BY <2>2, <2>5
    <3> HIDE DEF c, m
    <3> QED BY <3>1 DEF InOrder, m
  <2>8. PrefixOf(q, w, r) BY Zenon, <2>2, <2>4, <2>6, <2>7 DEF PrefixOf
  <2> QED BY <1>1, <1>2, <2>1, <2>8, AssignedChange DEF q, w, r
<1>6. CASE Receiving!Extending(u)
  <2> DEFINE p == stack.reassemblies[k]
             n == Len(p.data)
             q == stack'.reassemblies[k]
  <2>1. /\ Receiving!Continues(u) /\ u.remaining = p.expected
        /\ Receiving!SameBut(stack, stack', k) /\ Receiving!Extends(p, u, q)
    BY <1>6 DEF Receiving!Extending
  <2>2. /\ PrefixOf(p, w, r) /\ n + 1 \in 2 .. w.count /\ u = NthSegment(w, r, n + 1)
    BY <2>1, NextOfMessage
  <2>3. p.data \in Seq(Message \X (1 .. MaxSegments)) /\ n \in Nat
    BY <2>1, ProcessTyped DEF Receiving!Continues
  <2> HIDE DEF u, k, r, w, p, q
  <2>4. u.content = <<w.message, n + 1>> /\ u.len = NthSegment(w, 0, n + 1).len
    BY <2>2, NthFields
  <2>5. q.first = p.first /\ q.data = Append(p.data, u.content) /\ q.len = p.len + u.len
    BY <2>1 DEF Receiving!Extends
  <2>6. Len(q.data) = n + 1 /\ InOrder(q.data, w.message)
    <3>1. InOrder(p.data, w.message) BY <2>2 DEF PrefixOf
    <3>2. u.content \in Message \X (1 .. MaxSegments) BY <1>0 DEF Receiving!Segment
    <3>3. /\ Len(Append(p.data, u.content)) = n + 1
          /\ InOrder(Append(p.data, u.content), w.message)
      BY <2>3, <2>4, <3>1, <3>2, NextInOrder
    <3> QED BY <2>5, <3>3
  <2>7. q.len = UpTo(w, n) + NthSegment(w, 0, n + 1).len BY <2>2, <2>4, <2>5 DEF PrefixOf
  <2>8. UpTo(w, n + 1) = UpTo(w, n) + NthSegment(w, 0, n + 1).len
    <3> DEFINE c == w.count
    <3>1. c \in Nat /\ n \in Nat /\ n + 1 \in 2 .. c BY <1>2, <2>2, <2>3
    <3> HIDE DEF c, n
    <3>2. n < c BY <3>1
    <3>3. Shape(w) /\ n < w.count BY <1>2, <3>2 DEF Use, c
    <3> QED BY <3>1, <3>3, UpToNext
  <2>9. q.first = NthSegment(w, r, 1) BY <2>2, <2>5 DEF PrefixOf
  <2>10. PrefixOf(q, w, r) BY <2>6, <2>7, <2>8, <2>9 DEF PrefixOf
  <2> QED BY <1>1, <1>2, <2>1, <2>10, AssignedChange DEF q, w, r
<1> QED BY <1>3, <1>4, <1>5, <1>6 DEF Receiving!Moves

(* What is delivered is the message its reference was used for.            *)
LEMMA DeliveredIs ==
    ASSUME Core, NEW use, Assigned(use), NEW f \in inFlight, Receiving!Completed(f.segment)
    PROVE  LET u == f.segment
               w == use[u.key.reference]
               d == Append(stack.reassemblies[u.key].data, u.content)
           IN  /\ d = AllOf(w.message, w.count)
               /\ w.count \in 2 .. MaxSegments /\ d[1][1] = w.message
               /\ Len(stack.reassemblies[u.key].data) = w.count - 1
<1> DEFINE u == f.segment
           r == u.key.reference
           w == use[r]
           p == stack.reassemblies[u.key]
           n == Len(p.data)
           d == Append(p.data, u.content)
<1>1. Receiving!Continues(u) /\ u.remaining = p.expected /\ u.remaining = 0
  BY DEF Receiving!Completed
<1>2. /\ Use(w) /\ PrefixOf(p, w, r) /\ n + 1 \in 2 .. w.count
      /\ u = NthSegment(w, r, n + 1) /\ u.remaining = w.count - (n + 1)
  BY <1>1, NextOfMessage
<1>3. p.data \in Seq(Message \X (1 .. MaxSegments)) /\ n \in Nat
  BY <1>1, ProcessTyped DEF Receiving!Continues
<1>4. u.content \in Message \X (1 .. MaxSegments)
  <2>1. f \in [age : 0 .. NetworkDelay, segment : Receiving!Segment]
    BY DEF Core, Quiet, Young
  <2>2. u \in Receiving!Segment BY <2>1
  <2> QED BY <2>2 DEF Receiving!Segment
<1> HIDE DEF u, r, w, p, n, d
<1>5. u.content = <<w.message, n + 1>> BY <1>2, NthFields
<1>6. w.count \in Nat /\ w.count \in 2 .. MaxSegments BY Zenon, <1>2, UseShape
<1>7. InOrder(p.data, w.message) BY <1>2 DEF PrefixOf, n
<1>8. w.count = n + 1 BY <1>1, <1>2, <1>3, <1>6
<1>9. d = AllOf(w.message, w.count)
  <2> DEFINE e == u.content
             x == p.data
  <2>1. x \in Seq(Message \X (1 .. MaxSegments)) /\ e \in Message \X (1 .. MaxSegments)
    BY <1>3, <1>4
  <2>2. Len(x) = n /\ d = Append(x, e) BY DEF n, d
  <2>3. e = <<w.message, Len(x) + 1>> /\ InOrder(x, w.message) BY <1>5, <1>7, <2>2
  <2> HIDE DEF e, x
  <2>4. Append(x, e) = AllOf(w.message, Len(x) + 1)
    BY <2>1, <2>3, NextInOrder
  <2> QED BY Zenon, <1>8, <2>2, <2>4
<1>10. d[1][1] = w.message BY <1>6, <1>9 DEF AllOf
<1>11. n = w.count - 1 BY <1>3, <1>8
<1> QED BY Zenon, <1>6, <1>9, <1>10, <1>11 DEF u, r, w, p, n, d

-----------------------------------------------------------------------------
(* What became of a message: the steps.                                    *)

(* The receiver changes what it has for k.                                 *)
About(k) ==
    /\ Receiving!SameBut(stack, stack', k)
    /\ \A t \in stack'.timers : t.key # k => t \in stack.timers
    /\ inFlight' \subseteq inFlight /\ UNCHANGED sentCount

(* All there is of a message has one key.                                  *)
LEMMA MessageKey ==
    ASSUME Core, NEW use, Assigned(use), NEW r \in Reference
    PROVE  /\ \A f \in inFlight :
                 f.segment.content[1] = use[r].message <=> f.segment.key = KeyOf(r)
           /\ \A q \in DOMAIN stack.reassemblies :
                 ProcessOf(use[r].message, q) <=> q = KeyOf(r) /\ Receiving!InProgress(stack, q)
<1>1. \A q, s \in Reference :
         use[q].message = use[s].message /\ use[q].message # 0 => q = s
  BY DEF Assigned, Apart
<1>2. \A v : Use(v) => v.message # 0
  <2> SUFFICES ASSUME NEW v, Use(v) PROVE v.message # 0 OBVIOUS
  <2>1. v.message \in 1 .. sentCount /\ sentCount \in Nat BY DEF Use, Core
  <2> QED BY <2>1
<1>3. ASSUME NEW f \in inFlight
      PROVE  f.segment.content[1] = use[r].message <=> f.segment.key = KeyOf(r)
  <2>1. LET q == f.segment.key.reference
        IN  /\ q \in Reference /\ f.segment.key = KeyOf(q) /\ Use(use[q])
            /\ f.segment.content[1] = use[q].message
    BY SegmentKnown DEF Assigned
  <2> QED BY <1>1, <1>2, <2>1 DEF KeyOf
<1>4. ASSUME NEW q \in DOMAIN stack.reassemblies
      PROVE  ProcessOf(use[r].message, q) <=> q = KeyOf(r) /\ Receiving!InProgress(stack, q)
  <2>1. CASE ~ Receiving!InProgress(stack, q) BY <2>1 DEF ProcessOf
  <2>2. CASE Receiving!InProgress(stack, q)
    <3>1. q = KeyOf(q.reference) /\ q.reference \in Reference BY <2>2, ProcessTyped
    <3>2. /\ Use(use[q.reference])
          /\ stack.reassemblies[q].first = NthSegment(use[q.reference], q.reference, 1)
      BY <2>2 DEF Assigned, ProcessesOf, PrefixOf
    <3>3. stack.reassemblies[q].first.content[1] = use[q.reference].message
      BY <3>2, NthFields
    <3> QED BY <1>1, <1>2, <2>2, <3>1, <3>2, <3>3 DEF ProcessOf, KeyOf
  <2> QED BY <2>1, <2>2
<1> QED BY <1>3, <1>4

(* What is about another key.                                              *)
LEMMA NoProcessElsewhere ==
    ASSUME NEW k, About(k), NEW m, NoProcess(m),
           Receiving!InProgress(stack', k) => stack'.reassemblies[k].first.content[1] # m
    PROVE  NoProcess(m)'
<1> SUFFICES ASSUME NEW q \in DOMAIN stack'.reassemblies, ProcessOf(m, q)' PROVE FALSE
  BY DEF NoProcess
<1>1. q # k BY DEF ProcessOf
<1>2. q \in DOMAIN stack.reassemblies /\ stack'.reassemblies[q] = stack.reassemblies[q]
  BY <1>1 DEF About, Receiving!SameBut
<1>3. ProcessOf(m, q)
  BY <1>2 DEF ProcessOf, Receiving!InProgress, Receiving!Known
<1> QED BY <1>2, <1>3 DEF NoProcess

LEMMA GoneElsewhere ==
    ASSUME Core, NEW use, Assigned(use), NEW r \in Reference, About(KeyOf(r)),
           Receiving!InProgress(stack', KeyOf(r)) =>
              stack'.reassemblies[KeyOf(r)].first.content[1] = use[r].message,
           NEW m, m # use[r].message, Gone(use, m)
    PROVE  Gone(use, m)'
<1>1. NoProcess(m)' BY NoProcessElsewhere DEF Gone
<1>2. ASSUME NEW f \in UnderWay(m)'
      PROVE  Remembered(use[f.segment.key.reference], f)'
  <2>1. f \in inFlight /\ f \in UnderWay(m) BY DEF UnderWay, About
  <2>2. f.segment.key # KeyOf(r) BY <2>1, MessageKey DEF UnderWay
  <2>3. Remembered(use[f.segment.key.reference], f) BY <2>1 DEF Gone
  <2> QED
    BY <2>2, <2>3 DEF Remembered, About, Receiving!SameBut, Receiving!Failed, Receiving!Known
<1> QED BY <1>1, <1>2 DEF Gone

LEMMA OverElsewhere ==
    ASSUME NEW k, About(k), NEW m, Over(m),
           Receiving!InProgress(stack', k) => stack'.reassemblies[k].first.content[1] # m
    PROVE  Over(m)'
<1>1. NoProcess(m)' BY NoProcessElsewhere DEF Over
<1>2. UnderWay(m)' = {} BY DEF Over, UnderWay, About
<1> QED BY <1>1, <1>2 DEF Over

(* A new record of the message of k.                                       *)
LEMMA GoneHere ==
    ASSUME Core, NEW use, Assigned(use), NEW r \in Reference, About(KeyOf(r)),
           Receiving!Failed(stack', KeyOf(r)),
           stack'.reassemblies[KeyOf(r)].hash = Receiving!SegmentHash(NthSegment(use[r], r, 1)),
           \A t \in stack'.timers : t.key = KeyOf(r) => t.left = ReassemblyTimeout - lag
    PROVE  Gone(use, use[r].message)'
<1> DEFINE k == KeyOf(r)
<1>1. NoProcess(use[r].message)'
  <2> SUFFICES ASSUME NEW q \in DOMAIN stack'.reassemblies, ProcessOf(use[r].message, q)'
               PROVE  FALSE
    BY DEF NoProcess
  <2>1. q # k BY DEF ProcessOf, Receiving!InProgress, Receiving!Failed
  <2>2. q \in DOMAIN stack.reassemblies /\ stack'.reassemblies[q] = stack.reassemblies[q]
    BY <2>1 DEF About, Receiving!SameBut
  <2>3. ProcessOf(use[r].message, q)
    BY <2>2 DEF ProcessOf, Receiving!InProgress, Receiving!Known
  <2> QED BY <2>1, <2>2, <2>3, MessageKey
<1>2. ASSUME NEW f \in UnderWay(use[r].message)'
      PROVE  Remembered(use[f.segment.key.reference], f)'
  <2>1. f \in inFlight /\ f.segment.content[1] = use[r].message BY DEF UnderWay, About
  <2>2. f.segment.key = k /\ f.segment.key.reference = r BY <2>1, MessageKey DEF KeyOf
  <2>3. f.age \in Nat
    <3>1. f \in [age : 0 .. NetworkDelay, segment : Receiving!Segment]
      BY <2>1 DEF Core, Quiet, Young
    <3> QED BY <3>1, TransferAssumption
  <2>4. lag \in Nat /\ lag <= MaxLag /\ MaxLag \in Nat /\ ReassemblyTimeout \in Nat
    BY TimersTyped, StackAssumption DEF Core
  <2>5. \A t \in stack'.timers : t.key = k => t.left + f.age >= ReassemblyTimeout - MaxLag
    BY <2>3, <2>4
  <2> QED BY <2>2, <2>5 DEF Remembered
<1> QED BY <1>1, <1>2 DEF Gone

(* Only one message has an outcome.                                        *)
OthersKept(m) ==
    \A o \in Message : o # m => returned'[o] = returned[o] /\ delivered'[o] = delivered[o]

LEMMA ReturnedStep ==
    ASSUME Core, NEW use, Owned(use), NEW r \in Reference, About(KeyOf(r)),
           Receiving!InProgress(stack', KeyOf(r)) =>
              stack'.reassemblies[KeyOf(r)].first.content[1] = use[r].message,
           OthersKept(use[r].message),
           \A m \in Message : m = use[r].message =>
              /\ delivered'[m] \in 0 .. 2 /\ returned'[m] \in 0 .. 1
              /\ returned'[m] = 1 => Gone(use, m)'
    PROVE  Returned(use)'
<1> SUFFICES ASSUME NEW m \in Message
             PROVE  /\ returned'[m] \in 0 .. 1 /\ delivered'[m] \in 0 .. 2
                    /\ m > sentCount => returned'[m] = 0 /\ delivered'[m] = 0
                    /\ returned'[m] = 1 => Gone(use, m)'
  BY DEF Returned, About
<1>1. CASE m = use[r].message
  <2>1. m \in 0 .. sentCount /\ sentCount \in Nat
    BY <1>1 DEF Owned, Assigned, Apart, Core
  <2> QED BY <1>1, <2>1
<1>2. CASE m # use[r].message
  <2>1. returned'[m] = returned[m] /\ delivered'[m] = delivered[m] BY <1>2 DEF OthersKept
  <2>2. Gone(use, m) => Gone(use, m)' BY <1>2, GoneElsewhere DEF Owned
  <2> QED BY <2>1, <2>2 DEF Owned, Returned
<1> QED BY <1>1, <1>2

LEMMA OnceStep ==
    ASSUME Core, NEW use, Owned(use), Once, NEW r \in Reference, About(KeyOf(r)),
           Receiving!InProgress(stack', KeyOf(r)) =>
              stack'.reassemblies[KeyOf(r)].first.content[1] = use[r].message,
           OthersKept(use[r].message),
           repeats' \in Nat, repeats' = 0 => repeats = 0,
           repeats' = 0 => \A m \in Message : m = use[r].message =>
              returned'[m] + delivered'[m] <= 1 /\ (delivered'[m] = 1 => Over(m)'),
           repeats' = 0 => \A f \in inFlight' :
              f.segment.key = KeyOf(r) /\ Receiving!InProgress(stack', KeyOf(r)) =>
                 f.segment.content[2] > Len(stack'.reassemblies[KeyOf(r)].data)
    PROVE  Once'
<1>1. \A f, g \in inFlight' : f.segment = g.segment => f = g BY DEF Once, About
<1>2. ASSUME repeats' = 0 PROVE Ahead'
  <2> SUFFICES ASSUME NEW f \in inFlight', Receiving!InProgress(stack', f.segment.key)
               PROVE  f.segment.content[2] > Len(stack'.reassemblies[f.segment.key].data)
    BY DEF Ahead
  <2>1. CASE f.segment.key = KeyOf(r) BY <1>2, <2>1
  <2>2. CASE f.segment.key # KeyOf(r)
    <3>1. f \in inFlight /\ Ahead BY <1>2 DEF About, Once
    <3>2. /\ Receiving!InProgress(stack, f.segment.key)
          /\ stack'.reassemblies[f.segment.key] = stack.reassemblies[f.segment.key]
      BY <2>2 DEF About, Receiving!SameBut, Receiving!InProgress, Receiving!Known
    <3> QED BY <3>1, <3>2 DEF Ahead
  <2> QED BY <2>1, <2>2
<1>3. ASSUME repeats' = 0 PROVE Single'
  <2> SUFFICES ASSUME NEW m \in Message
               PROVE  returned'[m] + delivered'[m] <= 1 /\ (delivered'[m] = 1 => Over(m)')
    BY DEF Single
  <2>1. CASE m = use[r].message BY <1>3, <2>1
  <2>2. CASE m # use[r].message
    <3>1. Single BY <1>3 DEF Once
    <3>2. returned'[m] = returned[m] /\ delivered'[m] = delivered[m]
      BY <2>2 DEF OthersKept
    <3>3. Over(m) => Over(m)' BY <2>2, OverElsewhere
    <3> QED BY <3>1, <3>2, <3>3 DEF Single
  <2> QED BY <2>1, <2>2
<1> QED BY <1>1, <1>2, <1>3 DEF Once

(* What the messages' outcomes become by what a step puts out.             *)
LEMMA SeveralIs == Several(0) = 0 /\ Several(1) = 1 /\ Several(2) = 2 /\ Several(3) = 2
BY DEF Several

LEMMA ResultsOf ==
    ASSUME NEW type, NEW m, NEW s
    PROVE  /\ s.res = <<>> => Results(s, type, m) = 0
           /\ \A x : s.res = <<x>> =>
                 Results(s, type, m) = IF x.type = type /\ x.data[1][1] = m THEN 1 ELSE 0
<1> DEFINE found == {i \in DOMAIN s.res : s.res[i].type = type /\ s.res[i].data[1][1] = m}
<1>1. Results(s, type, m) = Cardinality(found) BY DEF Results
<1>2. CASE s.res = <<>>
  <2>1. found = {} BY <1>2
  <2> QED BY <1>1, <1>2, <2>1, FS_EmptySet
<1>3. ASSUME NEW x, s.res = <<x>>
      PROVE  Results(s, type, m) = IF x.type = type /\ x.data[1][1] = m THEN 1 ELSE 0
  <2>1. DOMAIN s.res = {1} /\ s.res[1] = x BY <1>3
  <2>2. CASE x.type = type /\ x.data[1][1] = m
    <3>1. found = {1} BY <2>1, <2>2
    <3> QED BY <1>1, <2>2, <3>1, FS_Singleton
  <2>3. CASE ~ (x.type = type /\ x.data[1][1] = m)
    <3>1. found = {} BY <2>1, <2>3
    <3> QED BY <1>1, <2>3, <3>1, FS_EmptySet
  <2> QED BY <2>2, <2>3
<1>4. s.res = <<>> \/ s.res # <<>> OBVIOUS
<1> QED BY <1>2, <1>3

Counted == \A m \in Message : returned[m] \in 0 .. 1 /\ delivered[m] \in 0 .. 2

(* What a step may do to the outcomes: nothing, or return or deliver one   *)
(* message that was sent and not returned.                                 *)
SameOutcomes == \A m \in Message : returned'[m] = returned[m] /\ delivered'[m] = delivered[m]

Outcome(m) ==
    /\ m <= sentCount /\ OthersKept(m) /\ returned[m] = 0
    /\ repeats = 0 => delivered[m] = 0
    /\ \/ returned'[m] = 1 /\ delivered'[m] = delivered[m]
       \/ returned'[m] = 0 /\ delivered'[m] = Several(delivered[m] + 1)

Fated == SameOutcomes \/ \E m \in Message : Outcome(m)

LEMMA ObserveNothing ==
    ASSUME Counted, Observe, stack'.res = <<>>
    PROVE  /\ \A m \in Message : returned'[m] = returned[m] /\ delivered'[m] = delivered[m]
           /\ ResultsWhole'
<1>1. ASSUME NEW m \in Message PROVE returned'[m] = returned[m] /\ delivered'[m] = delivered[m]
  <2>1. Results(stack', "return", m) = 0 /\ Results(stack', "unitdata", m) = 0 BY ResultsOf
  <2>2. returned'[m] = Several(returned[m] + 0) /\ delivered'[m] = Several(delivered[m] + 0)
    BY <2>1 DEF Observe
  <2>3. returned[m] \in {0, 1} /\ delivered[m] \in {0, 1, 2} BY DEF Counted
  <2> QED BY <2>2, <2>3, SeveralIs
<1> QED BY <1>1 DEF ResultsWhole

LEMMA ObserveReturn ==
    ASSUME Counted, Observe, NEW k, NEW c, NEW asked,
           stack'.res = Receiving!ReturnOf(k, c, asked)
    PROVE  /\ \A m \in Message :
                 /\ delivered'[m] = delivered[m]
                 /\ \/ returned'[m] = returned[m]
                    \/ asked /\ m = c[1] /\ returned'[m] = Several(returned[m] + 1)
           /\ ResultsWhole'
<1> DEFINE x == [type |-> "return", key |-> k, data |-> <<c>>]
<1>1. CASE ~ asked
  <2>1. stack'.res = <<>> BY <1>1 DEF Receiving!ReturnOf
  <2> QED BY Zenon, <2>1, ObserveNothing
<1>2. CASE asked
  <2>1. stack'.res = <<x>> BY Zenon, <1>2 DEF Receiving!ReturnOf
  <2>2. x.type = "return" /\ x.data[1] = c OBVIOUS
  <2> HIDE DEF x
  <2>3. ASSUME NEW m \in Message
        PROVE  /\ delivered'[m] = delivered[m]
               /\ \/ returned'[m] = returned[m]
                  \/ m = c[1] /\ returned'[m] = Several(returned[m] + 1)
    <3>1. /\ Results(stack', "unitdata", m) = 0
          /\ Results(stack', "return", m) = IF c[1] = m THEN 1 ELSE 0
      BY <2>1, <2>2, ResultsOf
    <3>2. /\ returned'[m] = Several(returned[m] + IF c[1] = m THEN 1 ELSE 0)
          /\ delivered'[m] = Several(delivered[m] + 0)
      BY <3>1 DEF Observe
    <3>3. returned[m] \in {0, 1} /\ delivered[m] \in {0, 1, 2} BY DEF Counted
    <3> QED BY <3>2, <3>3, SeveralIs
  <2>4. ResultsWhole' BY <2>1, <2>2 DEF ResultsWhole
  <2> QED BY Zenon, <1>2, <2>3, <2>4
<1> QED BY Zenon, <1>1, <1>2

LEMMA ObserveDelivery ==
    ASSUME Counted, Observe, NEW k, NEW d,
           stack'.res = <<[type |-> "unitdata", key |-> k, data |-> d]>>
    PROVE  /\ \A m \in Message :
                 /\ returned'[m] = returned[m]
                 /\ delivered'[m] = IF d[1][1] = m THEN Several(delivered[m] + 1) ELSE delivered[m]
           /\ WholeMessage(d) => ResultsWhole'
<1> DEFINE x == [type |-> "unitdata", key |-> k, data |-> d]
<1>1. x.type = "unitdata" /\ x.data = d OBVIOUS
<1>2. stack'.res = <<x>> OBVIOUS
<1> HIDE DEF x
<1>3. ASSUME NEW m \in Message
      PROVE  /\ returned'[m] = returned[m]
             /\ delivered'[m] = IF d[1][1] = m THEN Several(delivered[m] + 1) ELSE delivered[m]
  <2>1. /\ Results(stack', "return", m) = 0
        /\ Results(stack', "unitdata", m) = IF d[1][1] = m THEN 1 ELSE 0
    BY <1>1, <1>2, ResultsOf
  <2>2. /\ returned'[m] = Several(returned[m] + 0)
        /\ delivered'[m] = Several(delivered[m] + IF d[1][1] = m THEN 1 ELSE 0)
    BY <2>1 DEF Observe
  <2>3. returned[m] \in {0, 1} /\ delivered[m] \in {0, 1, 2} BY DEF Counted
  <2> QED BY <2>2, <2>3, SeveralIs
<1>4. WholeMessage(d) => ResultsWhole' BY <1>1, <1>2 DEF ResultsWhole
<1> QED BY Zenon, <1>3, <1>4

LEMMA OwnedSend ==
    ASSUME Core, NEW use, Owned(use), NEW r, NEW w, Sends(r, w),
           NEW new, new = [q \in Reference |-> IF q = r THEN w ELSE use[q]]
    PROVE  Owned(new)' /\ (Once => Once')
<1>1. /\ r \in Reference /\ Shape(w) /\ w.message = sentCount + 1 /\ sentCount \in Nat
      /\ sentCount' = sentCount + 1 /\ UNCHANGED <<stack, repeats, returned, delivered>>
      /\ inFlight' = inFlight \cup
            {[age |-> 0, segment |-> NthSegment(w, r, i)] : i \in 1 .. w.count}
      /\ ~ Waiting(KeyOf(r)) /\ \A f \in inFlight : f.segment.key.reference # r
  BY FreeIsQuiet, TransferAssumption DEF Sends, Core, receiver, outcome
<1>2. \A f \in inFlight' : f \in inFlight \/
         \E i \in 1 .. w.count :
            f.segment = NthSegment(w, r, i) /\ f.age = 0 /\ f.segment.key = KeyOf(r)
            /\ f.segment.content[1] = sentCount + 1 /\ f.segment.content[2] = i
  <2> SUFFICES ASSUME NEW f \in inFlight', f \notin inFlight
               PROVE  \E i \in 1 .. w.count :
                         f.segment = NthSegment(w, r, i) /\ f.age = 0 /\ f.segment.key = KeyOf(r)
                         /\ f.segment.content[1] = sentCount + 1 /\ f.segment.content[2] = i
    OBVIOUS
  <2>1. PICK i \in 1 .. w.count : f = [age |-> 0, segment |-> NthSegment(w, r, i)] BY <1>1
  <2>2. f.segment = NthSegment(w, r, i) /\ f.age = 0 BY <2>1
  <2> QED BY <1>1, <2>2, NthFields
<1>3. ASSUME NEW m \in Message, m # sentCount + 1
      PROVE  /\ UnderWay(m)' = UnderWay(m) /\ (NoProcess(m) <=> NoProcess(m)')
             /\ Gone(use, m) => Gone(new, m)'
  <2>1. inFlight \subseteq inFlight' BY <1>1
  <2>2. UnderWay(m)' = UnderWay(m) BY <1>2, <1>3, <2>1 DEF UnderWay
  <2>3. NoProcess(m) <=> NoProcess(m)'
    BY <1>1 DEF NoProcess, ProcessOf, Receiving!InProgress, Receiving!Known
  <2>4. ASSUME NEW f \in UnderWay(m), Remembered(use[f.segment.key.reference], f)
        PROVE  Remembered(new[f.segment.key.reference], f)'
    <3>1. f \in inFlight BY DEF UnderWay
    <3>2. f.segment.key.reference \in Reference BY <3>1, SegmentKnown DEF Owned, Assigned
    <3>3. new[f.segment.key.reference] = use[f.segment.key.reference] BY <1>1, <3>1, <3>2
    <3> QED BY <1>1, <2>4, <3>3 DEF Remembered, Receiving!Failed, Receiving!Known
  <2> QED BY <2>2, <2>3, <2>4 DEF Gone
<1>4. Returned(new)'
  <2> SUFFICES ASSUME NEW m \in Message
               PROVE  /\ returned[m] \in 0 .. 1 /\ delivered[m] \in 0 .. 2
                      /\ m > sentCount' => returned[m] = 0 /\ delivered[m] = 0
                      /\ returned[m] = 1 => Gone(new, m)'
    BY <1>1 DEF Returned
  <2>1. m \in Nat BY TransferAssumption DEF Message
  <2>2. /\ returned[m] \in 0 .. 1 /\ delivered[m] \in 0 .. 2
        /\ m > sentCount => returned[m] = 0 /\ delivered[m] = 0
        /\ returned[m] = 1 => Gone(use, m)
    BY DEF Owned, Returned
  <2>3. CASE m = sentCount + 1 BY <1>1, <2>1, <2>2, <2>3
  <2>4. CASE m # sentCount + 1 BY <1>1, <1>3, <2>1, <2>2, <2>4
  <2> QED BY <2>3, <2>4
<1>5. ASSUME Once PROVE Once'
  <2>1. ASSUME NEW f \in inFlight', NEW g \in inFlight', f.segment = g.segment PROVE f = g
    <3>1. CASE f \in inFlight /\ g \in inFlight BY <1>5, <2>1, <3>1 DEF Once
    <3>2. CASE f \in inFlight /\ g \notin inFlight BY <1>1, <1>2, <2>1, <3>2 DEF KeyOf
    <3>3. CASE f \notin inFlight /\ g \in inFlight BY <1>1, <1>2, <2>1, <3>3 DEF KeyOf
    <3>4. CASE f \notin inFlight /\ g \notin inFlight
      <4>1. PICK i \in 1 .. w.count : f = [age |-> 0, segment |-> NthSegment(w, r, i)]
        BY <1>1, <3>4
      <4>2. PICK j \in 1 .. w.count : g = [age |-> 0, segment |-> NthSegment(w, r, j)]
        BY <1>1, <3>4
      <4>3. f.segment = NthSegment(w, r, i) /\ g.segment = NthSegment(w, r, j) BY <4>1, <4>2
      <4> QED BY <2>1, <4>1, <4>2, <4>3
    <3> QED BY <3>1, <3>2, <3>3, <3>4
  <2>2. ASSUME repeats = 0 PROVE Ahead'
    <3> SUFFICES ASSUME NEW f \in inFlight', Receiving!InProgress(stack, f.segment.key)
                 PROVE  f.segment.content[2] > Len(stack.reassemblies[f.segment.key].data)
      BY <1>1 DEF Ahead, Receiving!InProgress, Receiving!Known
    <3>1. f \in inFlight BY <1>1, <1>2 DEF Waiting
    <3> QED BY <1>5, <2>2, <3>1 DEF Once, Ahead
  <2>3. ASSUME repeats = 0 PROVE Single'
    <3> SUFFICES ASSUME NEW m \in Message
                 PROVE  returned[m] + delivered[m] <= 1 /\ (delivered[m] = 1 => Over(m)')
      BY <1>1 DEF Single
    <3>1. returned[m] + delivered[m] <= 1 /\ (delivered[m] = 1 => Over(m))
      BY <1>5, <2>3 DEF Once, Single
    <3>2. m \in Nat BY TransferAssumption DEF Message
    <3>3. m = sentCount + 1 => delivered[m] = 0 BY <1>1, <3>2 DEF Owned, Returned
    <3>4. CASE m = sentCount + 1 BY <3>1, <3>3, <3>4
    <3>5. CASE m # sentCount + 1 BY <1>3, <3>1, <3>5 DEF Over
    <3> QED BY <3>4, <3>5
  <2> QED BY <1>1, <1>5, <2>1, <2>2, <2>3 DEF Once
<1>6. Assigned(new)' BY AssignedSend DEF Owned
<1> QED BY <1>4, <1>5, <1>6 DEF Owned

(* Time and calls keep what there is.                                      *)
LEMMA OwnedUnmoved ==
    ASSUME Core, NEW use, Owned(use), UNCHANGED <<sentCount, repeats, returned, delivered>>,
           stack'.reassemblies = stack.reassemblies, NEW ages, ages \in {0, 1},
           \A n \in stack'.timers : \E t \in stack.timers :
              n.key = t.key /\ n.left = t.left - ages,
           \A g \in inFlight' : \E f \in inFlight :
              g = [age |-> f.age + ages, segment |-> f.segment]
    PROVE  Owned(use)' /\ (Once => Once')
<1>1. \A g \in inFlight' : \E f \in inFlight : g.segment = f.segment /\ g.age = f.age + ages
  OBVIOUS
<1>2. Assigned(use)' BY <1>1, AssignedUnmoved DEF Owned
<1>3. \A k : Receiving!InProgress(stack', k) <=> Receiving!InProgress(stack, k)
  BY DEF Receiving!InProgress, Receiving!Known
<1>4. \A m : NoProcess(m) => NoProcess(m)' BY <1>3 DEF NoProcess, ProcessOf
<1>5. ASSUME NEW m, Gone(use, m) PROVE Gone(use, m)'
  <2>1. ASSUME NEW g \in UnderWay(m)'
        PROVE  Remembered(use[g.segment.key.reference], g)'
    <3>1. PICK f \in inFlight : g.segment = f.segment /\ g.age = f.age + ages
      BY <1>1 DEF UnderWay
    <3>2. Remembered(use[f.segment.key.reference], f) BY <1>5, <3>1 DEF Gone, UnderWay
    <3>3. f.age \in Int
      <4>1. f \in [age : 0 .. NetworkDelay, segment : Receiving!Segment]
        BY <3>1 DEF Core, Quiet, Young
      <4> QED BY <4>1
    <3>4. \A n \in stack'.timers :
             n.key = g.segment.key => n.left + g.age >= ReassemblyTimeout - MaxLag
      <4> SUFFICES ASSUME NEW n \in stack'.timers, n.key = g.segment.key
                   PROVE  n.left + g.age >= ReassemblyTimeout - MaxLag
        OBVIOUS
      <4>1. PICK t \in stack.timers : n.key = t.key /\ n.left = t.left - ages OBVIOUS
      <4>2. t.left + f.age >= ReassemblyTimeout - MaxLag BY <3>1, <3>2, <4>1 DEF Remembered
      <4>3. t.left \in Int /\ ages \in Int BY TimersTyped DEF Core
      <4> QED BY <3>1, <3>3, <4>1, <4>2, <4>3
    <3> QED BY <3>1, <3>2, <3>4 DEF Remembered, Receiving!Failed, Receiving!Known
  <2> QED BY <1>4, <1>5, <2>1 DEF Gone
<1>6. Returned(use)' BY <1>5 DEF Owned, Returned
<1>7. ASSUME Once PROVE Once'
  <2>1. ASSUME NEW g \in inFlight', NEW h \in inFlight', g.segment = h.segment PROVE g = h
    <3>1. PICK f \in inFlight : g = [age |-> f.age + ages, segment |-> f.segment] OBVIOUS
    <3>2. PICK e \in inFlight : h = [age |-> e.age + ages, segment |-> e.segment] OBVIOUS
    <3>3. f = e BY <1>7, <2>1, <3>1, <3>2 DEF Once
    <3> QED BY <3>1, <3>2, <3>3
  <2>2. Ahead => Ahead' BY <1>1, <1>3 DEF Ahead
  <2>3. \A m : UnderWay(m) = {} => UnderWay(m)' = {} BY <1>1 DEF UnderWay
  <2>4. Single => Single' BY <1>4, <2>3 DEF Single, Over
  <2> QED BY <1>7, <2>1, <2>2, <2>4 DEF Once
<1> QED BY <1>2, <1>6, <1>7 DEF Owned

(* A message that has a process is neither returned nor delivered.         *)
LEMMA NoOutcomeYet ==
    ASSUME NEW use, Owned(use), NEW m \in Message,
           NEW k \in DOMAIN stack.reassemblies, ProcessOf(m, k)
    PROVE  returned[m] = 0 /\ (Single => delivered[m] = 0)
<1>1. returned[m] \in 0 .. 1 /\ delivered[m] \in 0 .. 2 /\ returned[m] # 1
  BY DEF Owned, Returned, Gone, NoProcess
<1>2. Single => delivered[m] # 1 /\ returned[m] + delivered[m] <= 1
  BY DEF Single, Over, NoProcess
<1> QED BY <1>1, <1>2

(* Nor is one with a segment that has no process and no record.            *)
LEMMA NotReturnedYet ==
    ASSUME Core, NEW use, Owned(use), NEW f \in inFlight, NEW m \in Message,
           f.segment.content[1] = m, Receiving!Alone(f.segment)
    PROVE  returned[m] = 0
<1> DEFINE u == f.segment
           k == u.key
           w == use[k.reference]
<1>1. returned[m] \in 0 .. 1 BY DEF Owned, Returned
<1>2. ASSUME returned[m] = 1 PROVE FALSE
  <2>1. Remembered(w, f) BY <1>2 DEF Owned, Returned, Gone, UnderWay
  <2>2. /\ Receiving!Failed(stack, k)
        /\ stack.reassemblies[k].hash = Receiving!SegmentHash(NthSegment(w, k.reference, 1))
    BY <2>1 DEF Remembered
  <2>3. u.first => u = NthSegment(w, k.reference, 1)
    <3>1. u = NthSegment(w, k.reference, u.content[2]) BY SegmentKnown DEF Owned, Assigned
    <3>2. NthSegment(w, k.reference, u.content[2]).first = (u.content[2] = 1) BY NthFlags
    <3>3. u.first => u.content[2] = 1 BY Zenon, <3>1, <3>2
    <3> QED BY Zenon, <3>1, <3>3
  <2>4. Receiving!Known(stack, k) /\ ~ Receiving!InProgress(stack, k)
    BY <2>2 DEF Receiving!Failed, Receiving!InProgress
  <2>5. Receiving!StartsMessage(u) BY <2>4 DEF Receiving!Alone, Receiving!NoAssociation
  <2>6. u.first /\ stack.reassemblies[k].hash # Receiving!SegmentHash(u)
    BY <2>2, <2>5 DEF Receiving!StartsMessage, Receiving!OfFailedMessage
  <2> QED BY <2>2, <2>3, <2>6
<1> QED BY <1>1, <1>2

LEMMA CountedWhen == ASSUME NEW use, Owned(use) PROVE Counted
BY DEF Owned, Returned, Counted

(* A process that fails is returned, if that: its message is over.         *)
LEMMA OwnedFailing ==
    ASSUME Core, NEW use, Owned(use), Assigned(use)', Once, Observe,
           NEW k, NEW asked, Receiving!Failing(k, asked),
           inFlight' \subseteq inFlight, UNCHANGED sentCount,
           repeats' \in Nat, repeats' = 0 => repeats = 0
    PROVE  Owned(use)' /\ Once' /\ ResultsWhole' /\ Fated
<1> DEFINE p == stack.reassemblies[k]
           r == k.reference
           w == use[r]
<1>1. /\ Receiving!InProgress(stack, k)
      /\ Receiving!Made(stack, stack', k, "record", Receiving!FailedRecord(p))
      /\ stack'.res = Receiving!ReturnOf(k, p.first.content, asked)
  BY DEF Receiving!Failing
<1>2. k \in DOMAIN stack.reassemblies /\ k = KeyOf(r) /\ r \in Reference
  BY <1>1, ProcessTyped
<1>3. Use(w) /\ p.first = NthSegment(w, r, 1)
  BY <1>1, <1>2 DEF Owned, Assigned, ProcessesOf, PrefixOf
<1>4. p.first.content[1] = w.message BY <1>3, NthFields
<1>5. w.message \in Message
  <2>1. w.message \in 1 .. sentCount /\ sentCount \in 0 .. MaxMessages BY <1>3 DEF Use, Core
  <2> QED BY <2>1, TransferAssumption DEF Message
<1>6. ProcessOf(w.message, k) BY <1>1, <1>4 DEF ProcessOf
<1>7. /\ About(k) /\ Receiving!Failed(stack', k) /\ ~ Receiving!InProgress(stack', k)
      /\ stack'.reassemblies[k].hash = Receiving!SegmentHash(NthSegment(w, r, 1))
      /\ \A t \in stack'.timers : t.key = k => t.left = ReassemblyTimeout - lag
  BY <1>1, <1>3
     DEF Receiving!Made, Receiving!FailedRecord, Receiving!Failed, Receiving!InProgress, About,
         Receiving!Others, Receiving!NewTimer, Receiving!After
<1>8. Gone(use, w.message)' BY <1>2, <1>7, GoneHere DEF Owned
<1>9. Counted BY CountedWhen
<1>10. /\ \A m \in Message :
             /\ delivered'[m] = delivered[m]
             /\ \/ returned'[m] = returned[m]
                \/ asked /\ m = p.first.content[1] /\ returned'[m] = Several(returned[m] + 1)
       /\ ResultsWhole'
  BY <1>1, <1>9, ObserveReturn
<1>11. OthersKept(w.message) BY Zenon, <1>4, <1>10 DEF OthersKept
<1>12. returned[w.message] = 0 /\ (Single => delivered[w.message] = 0)
  BY <1>2, <1>5, <1>6, NoOutcomeYet
<1>13. \/ returned'[w.message] = returned[w.message]
       \/ returned'[w.message] = Several(returned[w.message] + 1)
  BY Zenon, <1>5, <1>10
<1>14. returned'[w.message] \in 0 .. 1 /\ delivered'[w.message] = delivered[w.message]
  BY <1>5, <1>10, <1>12, <1>13, SeveralIs
<1> HIDE DEF p, r, w
<1>15. Returned(use)'
  <2>1. delivered[w.message] \in 0 .. 2 BY <1>5, <1>9 DEF Counted
  <2> QED BY <1>2, <1>7, <1>8, <1>11, <1>14, <2>1, ReturnedStep DEF w
<1>16. Once'
  <2>1. repeats' = 0 =>
          returned'[w.message] + delivered'[w.message] <= 1 /\ delivered'[w.message] # 1
    BY <1>12, <1>14 DEF Once
  <2> QED BY <1>2, <1>7, <1>11, <2>1, OnceStep DEF w
<1>17. Fated
  <2>1. w.message <= sentCount
    <3>1. w.message \in 1 .. sentCount BY <1>3 DEF Use
    <3> QED BY <3>1 DEF Core
  <2>2. repeats = 0 => delivered[w.message] = 0 BY <1>12 DEF Once
  <2>3. CASE returned'[w.message] = returned[w.message]
    <3>1. SameOutcomes BY <1>10, <1>11, <2>3 DEF SameOutcomes, OthersKept
    <3> QED BY <3>1 DEF Fated
  <2>4. CASE returned'[w.message] = Several(returned[w.message] + 1)
    <3>1. returned'[w.message] = 1 BY <1>12, <2>4, SeveralIs
    <3>2. Outcome(w.message) BY <1>11, <1>12, <1>14, <2>1, <2>2, <3>1 DEF Outcome
    <3> QED BY <1>5, <3>2 DEF Fated
  <2> QED BY <1>13, <2>3, <2>4
<1> QED BY <1>10, <1>15, <1>16, <1>17 DEF Owned

LEMMA OwnedFire ==
    ASSUME Core, NEW use, Owned(use), Once, Fire, NEW k \in Receiving!Key, Receiving!Fires(k)
    PROVE  Owned(use)' /\ Once' /\ ResultsWhole' /\ Fated
<1>1. /\ UNCHANGED <<inFlight, sentCount, repeats>> /\ Observe
  BY DEF Fire, network
<1>2. Assigned(use)' BY AssignedFire DEF Owned
<1>3. repeats \in Nat BY DEF Once
<1>4. CASE Receiving!Failing(k, stack.reassemblies[k].returnOnError)
  BY <1>1, <1>2, <1>3, <1>4, OwnedFailing
<1>5. CASE /\ Receiving!Failed(stack, k)
           /\ Receiving!Dropped(stack, stack', k) /\ stack'.res = <<>>
  <2> DEFINE r == k.reference
             m == use[r].message
  <2>1. k = KeyOf(r) /\ r \in Reference BY DEF Receiving!Key, Reference, KeyOf
  <2>2. About(k) /\ ~ Receiving!InProgress(stack', k)
    BY <1>1, <1>5 DEF Receiving!Dropped, Receiving!Others, Receiving!InProgress, About
  <2>3. Counted BY CountedWhen
  <2>4. /\ \A o \in Message : returned'[o] = returned[o] /\ delivered'[o] = delivered[o]
        /\ ResultsWhole'
    BY <1>1, <1>5, <2>3, ObserveNothing
  <2>5. ASSUME m \in Message, Gone(use, m) PROVE Gone(use, m)'
    <3>1. NoProcess(m)' BY <2>2, <2>5, NoProcessElsewhere DEF Gone
    <3>2. UnderWay(m) = {}
      <4> SUFFICES ASSUME NEW f \in UnderWay(m) PROVE FALSE OBVIOUS
      <4>1. f \in inFlight /\ f.segment.content[1] = m BY DEF UnderWay
      <4>2. f.segment.key = k /\ f.segment.key.reference = r
        BY <2>1, <4>1, MessageKey DEF Owned, KeyOf
      <4>3. PICK t \in stack.timers : t.key = k /\ t.left <= 0 - lag
        <5>1. PICK t \in stack.timers : t.key = k /\ Receiving!Due(t) BY DEF Receiving!Fires
        <5>2. t.left <= -lag BY <5>1 DEF Receiving!Due
        <5>3. -lag = 0 - lag BY TimersTyped DEF Core
        <5> QED BY <5>1, <5>2, <5>3
      <4>4. t.left + f.age >= ReassemblyTimeout - MaxLag
        BY <2>5, <4>2, <4>3 DEF Gone, Remembered
      <4>5. f.age \in Nat /\ f.age <= NetworkDelay /\ NetworkDelay \in Nat
        <5>1. f \in [age : 0 .. NetworkDelay, segment : Receiving!Segment]
          BY <4>1 DEF Core, Quiet, Young
        <5> QED BY <5>1, TransferAssumption
      <4>6. t.left \in Int /\ lag \in Nat BY TimersTyped DEF Core
      <4>7. ReassemblyTimeout \in Nat /\ MaxLag \in Nat /\ ReassemblyTimeout - MaxLag > NetworkDelay
        BY StackAssumption, RecordAssumption
      <4> QED BY <4>3, <4>4, <4>5, <4>6, <4>7
    <3>3. UnderWay(m)' = {} BY <1>1, <3>2 DEF UnderWay
    <3> QED BY <3>1, <3>3 DEF Gone
  <2>6. OthersKept(m) BY <2>4 DEF OthersKept
  <2> HIDE DEF r
  <2>7. Returned(use)'
    <3>1. \A o \in Message : o = m =>
             /\ delivered'[o] \in 0 .. 2 /\ returned'[o] \in 0 .. 1
             /\ returned'[o] = 1 => Gone(use, o)'
      BY <2>3, <2>4, <2>5 DEF Counted, Owned, Returned
    <3> QED BY <2>1, <2>2, <2>6, <3>1, ReturnedStep
  <2>8. Once'
    <3>1. ASSUME repeats' = 0, NEW o \in Message
          PROVE  returned'[o] + delivered'[o] <= 1 /\ (delivered'[o] = 1 => Over(o)')
      <4>1. returned[o] + delivered[o] <= 1 /\ (delivered[o] = 1 => Over(o))
        BY <1>1, <3>1 DEF Once, Single
      <4>2. Over(o) => Over(o)' BY <2>2, OverElsewhere
      <4> QED BY <2>4, <4>1, <4>2
    <3> QED BY <1>1, <1>3, <2>1, <2>2, <2>6, <3>1, OnceStep
  <2>9. Fated BY <2>4 DEF Fated, SameOutcomes
  <2> QED BY <1>2, <2>4, <2>7, <2>8, <2>9 DEF Owned
<1> QED BY <1>4, <1>5 DEF Receiving!Fires

(* The network after a segment arrived.                                    *)
LEMMA ArriveLeaves ==
    ASSUME Core, NEW use, Assigned(use), Once, NEW f \in inFlight, Arrive(f)
    PROVE  /\ inFlight' \subseteq inFlight /\ UNCHANGED sentCount /\ repeats' \in Nat
           /\ repeats' = 0 =>
                 /\ repeats = 0
                 /\ \A g \in inFlight' : g.segment.key = f.segment.key =>
                       /\ g.segment.content[2] \in 1 .. use[f.segment.key.reference].count
                       /\ g.segment.content[2] # f.segment.content[2]
<1>1. /\ inFlight' \subseteq inFlight /\ UNCHANGED sentCount /\ repeats' \in Nat
      /\ repeats' = 0 => repeats = 0 /\ inFlight' = inFlight \ {f}
  BY TransferAssumption DEF Arrive, Once
<1>2. ASSUME repeats' = 0, NEW g \in inFlight', g.segment.key = f.segment.key
      PROVE  /\ g.segment.content[2] \in 1 .. use[f.segment.key.reference].count
             /\ g.segment.content[2] # f.segment.content[2]
  <2> DEFINE r == f.segment.key.reference
  <2>1. g \in inFlight /\ g # f BY <1>1, <1>2
  <2>2. /\ g.segment.content[2] \in 1 .. use[r].count
        /\ g.segment = NthSegment(use[r], r, g.segment.content[2])
        /\ f.segment = NthSegment(use[r], r, f.segment.content[2])
    BY <1>2, <2>1, SegmentKnown DEF Assigned
  <2>3. g.segment # f.segment BY <2>1 DEF Once
  <2> QED BY <2>2, <2>3
<1> QED BY <1>1, <1>2

LEMMA OwnedArrive ==
    ASSUME Core, NEW use, Owned(use), Once, NEW f \in inFlight, Arrive(f),
           Receiving!Moves(f.segment)
    PROVE  Owned(use)' /\ Once' /\ ResultsWhole' /\ Fated
<1> DEFINE u == f.segment
           k == u.key
           r == k.reference
           w == use[r]
           m == w.message
<1>1. Assigned(use)' BY AssignedArrive DEF Owned
<1>2. /\ r \in Reference /\ k = KeyOf(r) /\ Use(w) /\ u.content[1] = m
      /\ u.content[2] \in 1 .. w.count /\ u = NthSegment(w, r, u.content[2])
  BY SegmentKnown DEF Owned, Assigned
<1>3. m \in Message /\ m <= sentCount
  <2>1. m \in 1 .. sentCount /\ sentCount \in 0 .. MaxMessages BY <1>2 DEF Use, Core
  <2> QED BY <2>1, TransferAssumption DEF Message
<1>4. /\ inFlight' \subseteq inFlight /\ UNCHANGED sentCount /\ repeats' \in Nat
      /\ repeats' = 0 =>
            /\ repeats = 0
            /\ \A g \in inFlight' : g.segment.key = k =>
                  /\ g.segment.content[2] \in 1 .. w.count
                  /\ g.segment.content[2] # u.content[2]
  BY ArriveLeaves DEF Owned
<1>5. Counted /\ Observe BY CountedWhen DEF Arrive
<1>6. returned[m] \in 0 .. 1 /\ delivered[m] \in 0 .. 2 BY <1>3, <1>5 DEF Counted
<1>7. repeats' = 0 => Ahead /\ Single BY <1>4 DEF Once
<1>8. Single => delivered[m] = 0
  <2>1. UnderWay(m) # {} BY <1>2 DEF UnderWay
  <2>2. Single => delivered[m] # 1 /\ returned[m] + delivered[m] <= 1
    BY <1>3, <2>1 DEF Single, Over
  <2> QED BY <1>6, <2>2
<1>8a. ASSUME About(k), OthersKept(m),
              Receiving!InProgress(stack', k) => stack'.reassemblies[k].first.content[1] = m,
              delivered'[m] \in 0 .. 2, returned'[m] \in 0 .. 1,
              returned'[m] = 1 => Gone(use, m)'
       PROVE  Returned(use)'
  BY <1>2, <1>8a, ReturnedStep
<1>8b. ASSUME About(k), OthersKept(m),
              Receiving!InProgress(stack', k) => stack'.reassemblies[k].first.content[1] = m,
              repeats' = 0 => returned'[m] + delivered'[m] <= 1 /\ (delivered'[m] = 1 => Over(m)'),
              \A g \in inFlight' :
                 repeats' = 0 /\ g.segment.key = k /\ Receiving!InProgress(stack', k) =>
                    g.segment.content[2] > Len(stack'.reassemblies[k].data)
       PROVE  Once'
  BY <1>2, <1>4, <1>8b, OnceStep
<1>9. CASE Receiving!Unmoved
  <2> DEFINE g == stack'.reassemblies
  <2>1. \A o \in Message : returned'[o] = returned[o] /\ delivered'[o] = delivered[o]
    BY <1>5, <1>9, ObserveNothing DEF Receiving!Unmoved
  <2>2. ResultsWhole' BY <1>5, <1>9, ObserveNothing DEF Receiving!Unmoved
  <2>3. About(k)
    BY <1>4, <1>9 DEF Receiving!Unmoved, About, Receiving!SameBut
  <2>4. \A q : Receiving!InProgress(stack', q) <=> Receiving!InProgress(stack, q)
    BY <1>9 DEF Receiving!Unmoved, Receiving!InProgress, Receiving!Known
  <2>5. Gone(use, m) => Gone(use, m)'
    BY <1>4, <1>9, <2>4
       DEF Receiving!Unmoved, Gone, NoProcess, ProcessOf, UnderWay, Remembered,
           Receiving!Failed, Receiving!Known
  <2>6. Receiving!InProgress(stack', k) => stack'.reassemblies[k].first.content[1] = m
    <3>1. Receiving!InProgress(stack, k) => ProcessOf(m, k)
      BY <1>2, ProcessTyped, MessageKey DEF Owned
    <3> QED BY <1>9, <2>4, <3>1 DEF ProcessOf, Receiving!Unmoved
  <2>7. OthersKept(m) BY <2>1 DEF OthersKept
  <2>8. Returned(use)'
    <3>1. returned[m] = 1 => Gone(use, m) BY <1>3 DEF Owned, Returned
    <3>2. /\ delivered'[m] \in 0 .. 2 /\ returned'[m] \in 0 .. 1
          /\ returned'[m] = 1 => Gone(use, m)'
      BY <1>3, <1>6, <2>1, <2>5, <3>1
    <3> QED BY <1>8a, <2>3, <2>6, <2>7, <3>2
  <2>9. Once'
    <3>1. ASSUME repeats' = 0
          PROVE  returned'[m] + delivered'[m] <= 1 /\ (delivered'[m] = 1 => Over(m)')
      BY <1>3, <1>6, <1>7, <1>8, <2>1, <3>1
    <3>2. ASSUME repeats' = 0, NEW g1 \in inFlight', g1.segment.key = k,
                 Receiving!InProgress(stack', k)
          PROVE  g1.segment.content[2] > Len(stack'.reassemblies[k].data)
      BY <1>4, <1>7, <1>9, <2>4, <3>2 DEF Ahead, Receiving!Unmoved
    <3> QED BY <1>8b, <2>3, <2>6, <2>7, <3>1, <3>2
  <2>10. Fated BY <2>1 DEF Fated, SameOutcomes
  <2> QED BY <1>1, <2>2, <2>8, <2>9, <2>10 DEF Owned
<1>10. CASE Receiving!Rejected(u)
  <2>1. /\ Receiving!Alone(u) /\ About(k) /\ ~ Receiving!InProgress(stack', k)
    BY <1>4, <1>10
       DEF Receiving!Rejected, Receiving!Dropped, Receiving!Made, Receiving!OrphanRecord,
           Receiving!Others, Receiving!NewTimer, Receiving!InProgress, About
  <2>2. returned[m] = 0 BY <1>2, <1>3, <2>1, NotReturnedYet
  <2>3. /\ OthersKept(m) /\ ResultsWhole' /\ delivered'[m] = delivered[m]
        /\ returned'[m] \in 0 .. 1 /\ (returned'[m] = 1 => Gone(use, m)')
        /\ SameOutcomes \/ returned'[m] = 1
    <3>1. CASE Receiving!Dropped(stack, stack', k) /\ stack'.res = <<>>
      <4>1. /\ \A o \in Message : returned'[o] = returned[o] /\ delivered'[o] = delivered[o]
            /\ ResultsWhole'
        BY <1>5, <3>1, ObserveNothing
      <4> QED BY <1>3, <2>2, <4>1 DEF OthersKept, SameOutcomes
    <3>2. CASE /\ Receiving!Made(stack, stack', k, "record", Receiving!OrphanRecord(u))
               /\ stack'.res = Receiving!ReturnOf(k, u.content, u.returnOnError)
      <4>1. /\ \A o \in Message :
                  /\ delivered'[o] = delivered[o]
                  /\ \/ returned'[o] = returned[o]
                     \/ /\ u.returnOnError /\ o = u.content[1]
                        /\ returned'[o] = Several(returned[o] + 1)
            /\ ResultsWhole'
        BY <1>5, <3>2, ObserveReturn
      <4>2. OthersKept(m) BY Zenon, <1>2, <4>1 DEF OthersKept
      <4>3. \/ returned'[m] = returned[m]
            \/ u.returnOnError /\ returned'[m] = Several(returned[m] + 1)
        BY Zenon, <1>3, <4>1
      <4>4. returned'[m] \in 0 .. 1 /\ (returned'[m] = 1 => u.returnOnError)
        <5>1. CASE returned'[m] = returned[m] BY <2>2, <5>1
        <5>2. CASE u.returnOnError /\ returned'[m] = Several(returned[m] + 1)
          <6>1. returned'[m] = 1 BY <2>2, <5>2, SeveralIs
          <6> QED BY <5>2, <6>1
        <5> QED BY <4>3, <5>1, <5>2
      <4>5. u.returnOnError => u.first /\ u = NthSegment(w, r, 1)
        <5>1. /\ NthSegment(w, r, u.content[2]).first = (u.content[2] = 1)
              /\ NthSegment(w, r, u.content[2]).returnOnError = (u.content[2] = 1)
          BY NthFlags
        <5>2. u.first = (u.content[2] = 1) /\ u.returnOnError = (u.content[2] = 1)
          BY Zenon, <1>2, <5>1
        <5> QED BY Zenon, <1>2, <5>2
      <4>6. ASSUME u.first, u = NthSegment(w, r, 1) PROVE Gone(use, m)'
        <5>1. /\ Receiving!Failed(stack', k)
              /\ stack'.reassemblies[k].hash = Receiving!SegmentHash(u)
              /\ \A t \in stack'.timers : t.key = k => t.left = ReassemblyTimeout - lag
          BY <3>2, <4>6
             DEF Receiving!Made, Receiving!OrphanRecord, Receiving!Failed, Receiving!Others,
                 Receiving!NewTimer, Receiving!After
        <5> QED BY <1>2, <2>1, <4>6, <5>1, GoneHere DEF Owned
      <4>7. SameOutcomes \/ returned'[m] = 1
        <5>1. CASE returned'[m] = returned[m]
          <6> SUFFICES ASSUME NEW o \in Message
                       PROVE  returned'[o] = returned[o] /\ delivered'[o] = delivered[o]
            BY DEF SameOutcomes
          <6> QED BY <4>1, <4>2, <5>1 DEF OthersKept
        <5>2. CASE returned'[m] = Several(returned[m] + 1) BY <2>2, <5>2, SeveralIs
        <5> QED BY <4>3, <5>1, <5>2
      <4> QED BY <1>3, <4>1, <4>2, <4>4, <4>5, <4>6, <4>7
    <3> QED BY <1>10, <3>1, <3>2 DEF Receiving!Rejected
  <2>4. Returned(use)' BY <1>8a, <1>6, <2>1, <2>3
  <2>5. Once'
    <3> HIDE DEF u, k, r, w, m
    <3>1. repeats' = 0 => returned'[m] + delivered'[m] <= 1 /\ delivered'[m] # 1
      BY <1>7, <1>8, <2>3
    <3> QED BY <1>8b, <2>1, <2>3, <3>1
  <2>6. Fated
    <3>1. returned'[m] = 1 => Outcome(m) BY <1>3, <1>8, <2>2, <2>3 DEF Outcome, Once
    <3> QED BY <1>3, <2>3, <3>1 DEF Fated
  <2> QED BY <1>1, <2>3, <2>4, <2>5, <2>6 DEF Owned
<1>11. CASE Receiving!Started(u)
  <2>1. /\ Receiving!StartsMessage(u) /\ stack'.res = <<>> /\ About(k)
        /\ stack'.reassemblies[k] = Receiving!StartedProcess(u)
    BY <1>4, <1>11
       DEF Receiving!Started, Receiving!Made, Receiving!Others, Receiving!NewTimer, About
  <2>2. u.first /\ Receiving!Alone(u) BY <2>1 DEF Receiving!StartsMessage, Receiving!Alone
  <2>3. /\ stack'.reassemblies[k].first.content[1] = m
        /\ stack'.reassemblies[k].data = <<u.content>>
    BY <1>2, <2>1 DEF Receiving!StartedProcess
  <2>4. u.content[2] = 1
    <3>1. NthSegment(w, r, u.content[2]).first = (u.content[2] = 1) BY NthFlags
    <3> QED BY Zenon, <1>2, <2>2, <3>1
  <2>5. returned[m] = 0 BY <1>2, <1>3, <2>2, NotReturnedYet
  <2>6. /\ \A o \in Message : returned'[o] = returned[o] /\ delivered'[o] = delivered[o]
        /\ ResultsWhole'
    BY <1>5, <2>1, ObserveNothing
  <2>7. OthersKept(m) BY <2>6 DEF OthersKept
  <2>8. Returned(use)'
    <3>1. returned'[m] = 0 /\ delivered'[m] \in 0 .. 2 BY <1>3, <1>6, <2>5, <2>6
    <3> QED BY <1>8a, <2>1, <2>3, <2>7, <3>1
  <2>9. Once'
    <3>1. repeats' = 0 => returned'[m] + delivered'[m] <= 1 /\ delivered'[m] # 1
      BY <1>3, <1>7, <1>8, <2>5, <2>6
    <3>2. ASSUME repeats' = 0, NEW g \in inFlight', g.segment.key = k
          PROVE  g.segment.content[2] > Len(stack'.reassemblies[k].data)
      <4>1. Len(stack'.reassemblies[k].data) = 1 BY <2>3
      <4>2. w.count \in Nat BY <1>2, UseShape
      <4> QED BY <1>4, <2>4, <3>2, <4>1, <4>2
    <3> QED BY <1>8b, <2>1, <2>3, <2>7, <3>1, <3>2
  <2>10. Fated BY <2>6 DEF Fated, SameOutcomes
  <2> QED BY <1>1, <2>6, <2>8, <2>9, <2>10 DEF Owned
<1>12. CASE Receiving!Continues(u) /\ Receiving!Failing(k, Receiving!Asked(u))
  BY <1>1, <1>4, <1>5, <1>12, OwnedFailing
<1>13. CASE Receiving!Extending(u)
  <2> DEFINE p == stack.reassemblies[k]
             n == Len(p.data)
  <2>1. /\ Receiving!Continues(u) /\ u.remaining = p.expected /\ stack'.res = <<>> /\ About(k)
        /\ Receiving!Extends(p, u, stack'.reassemblies[k])
    BY <1>4, <1>13 DEF Receiving!Extending, About
  <2>2. k \in DOMAIN stack.reassemblies /\ ProcessOf(m, k)
    BY <1>2, <2>1, ProcessTyped, MessageKey DEF Receiving!Continues, Owned
  <2>3. stack'.reassemblies[k].first.content[1] = m
    BY <2>1, <2>2 DEF Receiving!Extends, ProcessOf
  <2>4. /\ n \in Nat /\ Len(stack'.reassemblies[k].data) = n + 1
        /\ u.content[2] = n + 1
    <3>1. p.data \in Seq(Message \X (1 .. MaxSegments)) BY <2>2, ProcessTyped DEF ProcessOf
    <3>2. stack'.reassemblies[k].data = Append(p.data, u.content)
      BY <2>1 DEF Receiving!Extends
    <3>3. u.content \in Message \X (1 .. MaxSegments)
      <4>1. u \in Receiving!Segment BY CoreArrive
      <4> QED BY <4>1 DEF Receiving!Segment
    <3>4. u = NthSegment(w, r, n + 1) BY <2>1, NextOfMessage DEF Owned
    <3>5. u.content[2] = n + 1 BY <3>4, NthFields
    <3> DEFINE x == p.data
               e == u.content
    <3>6. /\ x \in Seq(Message \X (1 .. MaxSegments)) /\ e \in Message \X (1 .. MaxSegments)
          /\ n = Len(x) /\ stack'.reassemblies[k].data = Append(x, e)
      BY <3>1, <3>2, <3>3
    <3> HIDE DEF x, e, n, w
    <3>7. Len(Append(x, e)) = Len(x) + 1 /\ Len(x) \in Nat BY <3>6, AppendProperties
    <3> QED BY <3>5, <3>6, <3>7
  <2>5. returned[m] = 0 BY <1>3, <2>2, NoOutcomeYet
  <2>6. /\ \A o \in Message : returned'[o] = returned[o] /\ delivered'[o] = delivered[o]
        /\ ResultsWhole'
    BY <1>5, <2>1, ObserveNothing
  <2>7. OthersKept(m) BY <2>6 DEF OthersKept
  <2>8. Returned(use)'
    <3>1. returned'[m] = 0 /\ delivered'[m] \in 0 .. 2 BY <1>3, <1>6, <2>5, <2>6
    <3> HIDE DEF u, k, r, w, m, p, n
    <3> QED BY <1>8a, <2>1, <2>3, <2>7, <3>1
  <2>9. Once'
    <3>1. repeats' = 0 => returned'[m] + delivered'[m] <= 1 /\ delivered'[m] # 1
      BY <1>3, <1>7, <1>8, <2>5, <2>6
    <3>2. ASSUME repeats' = 0, NEW g \in inFlight', g.segment.key = k
          PROVE  g.segment.content[2] > Len(stack'.reassemblies[k].data)
      <4>1. Ahead /\ g \in inFlight BY <1>4, <1>7, <3>2
      <4>2. g.segment.content[2] > n BY <2>2, <3>2, <4>1 DEF Ahead, ProcessOf
      <4>3. w.count \in Nat BY <1>2, UseShape
      <4>4. g.segment.content[2] \in 1 .. w.count /\ g.segment.content[2] # n + 1
        BY <1>4, <2>4, <3>2
      <4> DEFINE i == g.segment.content[2]
                 l == Len(stack'.reassemblies[k].data)
      <4>5. n \in Nat /\ l = n + 1 BY <2>4
      <4>6. i \in Nat /\ i > n /\ i # n + 1 BY <4>2, <4>3, <4>4
      <4> HIDE DEF i, l, n
      <4>7. i > l BY <4>5, <4>6
      <4> QED BY <4>7 DEF i, l
    <3> QED BY <1>8b, <2>1, <2>3, <2>7, <3>1, <3>2
  <2>10. Fated BY <2>6 DEF Fated, SameOutcomes
  <2> QED BY <1>1, <2>6, <2>8, <2>9, <2>10 DEF Owned
<1>14. CASE Receiving!Completed(u)
  <2> DEFINE p == stack.reassemblies[k]
             n == Len(p.data)
             d == Append(p.data, u.content)
  <2>1. /\ Receiving!Continues(u) /\ u.remaining = p.expected
        /\ stack'.res = <<[type |-> "unitdata", key |-> k, data |-> d]>>
        /\ About(k) /\ ~ Receiving!InProgress(stack', k)
    BY <1>4, <1>14
       DEF Receiving!Completed, Receiving!Dropped, Receiving!Others, Receiving!InProgress, About
  <2>2. k \in DOMAIN stack.reassemblies /\ ProcessOf(m, k)
    BY <1>2, <2>1, ProcessTyped, MessageKey DEF Receiving!Continues, Owned
  <2>3. /\ d = AllOf(m, w.count) /\ w.count \in 2 .. MaxSegments /\ d[1][1] = m
        /\ n = w.count - 1
    BY <1>14, DeliveredIs DEF Owned
  <2>4. WholeMessage(d)
    <3>1. d = AllOf(d[1][1], w.count) BY <2>3
    <3> QED BY Zenon, <2>3, <3>1 DEF WholeMessage, AllOf
  <2>5. returned[m] = 0 /\ (Single => delivered[m] = 0) BY <1>3, <2>2, NoOutcomeYet
  <2> HIDE DEF d
  <2>6. /\ \A o \in Message :
              /\ returned'[o] = returned[o]
              /\ delivered'[o] = IF d[1][1] = o THEN Several(delivered[o] + 1) ELSE delivered[o]
        /\ WholeMessage(d) => ResultsWhole'
    BY <1>5, <2>1, ObserveDelivery
  <2>7. OthersKept(m) BY <2>3, <2>6 DEF OthersKept
  <2>8. returned'[m] = 0 /\ delivered'[m] = Several(delivered[m] + 1)
    BY <1>3, <2>3, <2>5, <2>6
  <2>9. delivered'[m] \in 0 .. 2 /\ (Single => delivered'[m] = 1)
    <3>1. delivered[m] \in {0, 1, 2} BY <1>6
    <3> DEFINE before == delivered[m]
               after == delivered'[m]
    <3>2. before \in {0, 1, 2} /\ after = Several(before + 1) /\ (Single => before = 0)
      BY <2>5, <2>8, <3>1
    <3> HIDE DEF before, after
    <3>3. after \in 0 .. 2 /\ (Single => after = 1) BY <3>2, SeveralIs
    <3> QED BY <3>3 DEF after
  <2>10. Returned(use)'
    <3> HIDE DEF u, k, r, w, m, p, n
    <3>1. returned'[m] \in 0 .. 1 /\ returned'[m] # 1 BY <2>8
    <3> QED BY Zenon, <1>8a, <2>1, <2>7, <2>9, <3>1
  <2>11. Once'
    <3>1. ASSUME repeats' = 0
          PROVE  returned'[m] + delivered'[m] <= 1 /\ (delivered'[m] = 1 => Over(m)')
      <4>1. NoProcess(m)'
        <5> SUFFICES ASSUME NEW q \in DOMAIN stack'.reassemblies, ProcessOf(m, q)' PROVE FALSE
          BY DEF NoProcess
        <5>1. q # k BY <2>1 DEF ProcessOf
        <5>2. q \in DOMAIN stack.reassemblies /\ stack'.reassemblies[q] = stack.reassemblies[q]
          BY <2>1, <5>1 DEF About, Receiving!SameBut
        <5>3. ProcessOf(m, q)
          BY <5>2 DEF ProcessOf, Receiving!InProgress, Receiving!Known
        <5> QED BY <1>2, <5>1, <5>2, <5>3, MessageKey DEF Owned
      <4>2. UnderWay(m)' = {}
        <5> SUFFICES ASSUME NEW g \in UnderWay(m)' PROVE FALSE OBVIOUS
        <5>1. g \in inFlight /\ g \in inFlight' /\ g.segment.content[1] = m
          BY <1>4 DEF UnderWay
        <5>2. g.segment.key = k BY <1>2, <5>1, MessageKey DEF Owned
        <5>3. g.segment.content[2] > n
          BY <1>7, <2>2, <3>1, <5>1, <5>2 DEF Ahead, ProcessOf
        <5>4. u.content[2] = w.count
          <6>1. u.remaining = 0 BY <1>14 DEF Receiving!Completed
          <6>2. u.remaining = w.count - u.content[2] BY <1>2, NthFields
          <6>3. w.count \in Nat /\ u.content[2] \in Nat
            BY <1>2, UseShape
          <6> QED BY <6>1, <6>2, <6>3
        <5>5. g.segment.content[2] \in 1 .. w.count /\ g.segment.content[2] # w.count
          BY <1>4, <3>1, <5>1, <5>2, <5>4
        <5>6. w.count \in Nat BY <1>2, UseShape
        <5> DEFINE i == g.segment.content[2]
                   c == w.count
        <5>7. i > n /\ i \in 1 .. c /\ i # c /\ c \in Nat /\ n = c - 1
          BY <2>3, <5>3, <5>5, <5>6
        <5> HIDE DEF i, c, n
        <5> QED BY <5>7
      <4>3. returned'[m] + delivered'[m] <= 1 BY <1>7, <2>8, <2>9, <3>1
      <4> QED BY <4>1, <4>2, <4>3 DEF Over
    <3> QED BY <1>8b, <2>1, <2>7, <3>1
  <2>12. Fated
    <3>1. Outcome(m) BY <1>3, <1>8, <2>5, <2>7, <2>8 DEF Outcome, Once
    <3> QED BY <1>3, <3>1 DEF Fated
  <2> QED BY <1>1, <2>4, <2>6, <2>10, <2>11, <2>12 DEF Owned
<1> QED BY <1>9, <1>10, <1>11, <1>12, <1>13, <1>14 DEF Receiving!Moves

-----------------------------------------------------------------------------
(* What is delivered, returned and refused.                                *)

Inv == Core /\ Once /\ ResultsWhole /\ \E use : Owned(use)

LEMMA InvInit == Init => Inv
<1> SUFFICES ASSUME Init PROVE Inv OBVIOUS
<1> DEFINE use == [r \in Reference |-> [message |-> 0]]
<1>1. Core BY CoreInit
<1>2. stack.reassemblies = [k \in {} |-> Receiving!NoSegment] /\ stack.res = <<>>
  BY SameReceiver DEF Init, Receiving!Init
<1>3. DOMAIN stack.reassemblies = {} /\ inFlight = {} /\ sentCount = 0 /\ repeats = 0
      /\ \A m \in Message : returned[m] = 0 /\ delivered[m] = 0
  BY <1>2 DEF Init
<1>4. ResultsWhole BY <1>2 DEF ResultsWhole
<1>5. Once BY <1>3 DEF Once, Ahead, Single
<1>6. Assigned(use) BY <1>3 DEF Assigned, SegmentsOf, ProcessesOf, Apart
<1>7. Returned(use) BY <1>3 DEF Returned
<1> QED BY <1>1, <1>4, <1>5, <1>6, <1>7 DEF Inv, Owned

LEMMA InvNext == Inv /\ [Next]_vars => Inv'
<1> SUFFICES ASSUME Inv, [Next]_vars PROVE Inv' OBVIOUS
<1>1. Core' BY CoreNext DEF Inv
<1>2. PICK use : Owned(use) BY DEF Inv
<1>3. \A g \in inFlight : g = [age |-> g.age + 0, segment |-> g.segment]
  <2> SUFFICES ASSUME NEW g \in inFlight
               PROVE  g = [age |-> g.age + 0, segment |-> g.segment]
    OBVIOUS
  <2>1. g \in [age : 0 .. NetworkDelay, segment : Receiving!Segment]
    BY DEF Inv, Core, Quiet, Young
  <2> QED BY <2>1
<1>4. \A t \in stack.timers : t.left = t.left - 0 BY TimersTyped DEF Inv, Core
<1>5. CASE Tick
  <2>1. /\ stack'.reassemblies = stack.reassemblies /\ stack'.res = <<>>
        /\ \A n \in stack'.timers : \E t \in stack.timers :
              n.key = t.key /\ n.left = t.left - 1
    BY <1>5, CoreTick DEF Inv
  <2>2. \A g \in inFlight' : \E f \in inFlight : g = [age |-> f.age + 1, segment |-> f.segment]
    <3> SUFFICES ASSUME NEW g \in inFlight'
                 PROVE  \E f \in inFlight : g = [age |-> f.age + 1, segment |-> f.segment]
      OBVIOUS
    <3>1. PICK f \in inFlight : g = [f EXCEPT !.age = @ + 1] BY <1>5 DEF Tick
    <3>2. f \in [age : 0 .. NetworkDelay, segment : Receiving!Segment]
      BY DEF Inv, Core, Quiet, Young
    <3>3. g = [age |-> f.age + 1, segment |-> f.segment] BY <3>1, <3>2
    <3> QED BY <3>3
  <2>3. UNCHANGED <<sentCount, repeats, returned, delivered>> BY <1>5 DEF Tick, outcome
  <2>4. Owned(use)' /\ Once' BY <1>2, <2>1, <2>2, <2>3, OwnedUnmoved DEF Inv
  <2>5. ResultsWhole' BY <2>1 DEF ResultsWhole
  <2> QED BY <1>1, <2>4, <2>5 DEF Inv
<1>6. ASSUME NEW n \in DataSizes, Send(n) PROVE Inv'
  <2>1. PICK r, w : Sends(r, w) BY <1>6, CoreSend DEF Inv
  <2> DEFINE new == [q \in Reference |-> IF q = r THEN w ELSE use[q]]
  <2>2. Owned(new)' /\ Once' BY <1>2, <2>1, OwnedSend DEF Inv
  <2>3. ResultsWhole' BY <2>1 DEF Sends, receiver, ResultsWhole, Inv
  <2> QED BY <1>1, <2>2, <2>3 DEF Inv
<1>7. ASSUME NEW f \in inFlight, Arrive(f) PROVE Inv'
  <2>1. Receiving!Moves(f.segment) BY <1>7, CoreArrive DEF Inv
  <2> QED BY <1>1, <1>2, <1>7, <2>1, OwnedArrive DEF Inv
<1>8. CASE Fire
  <2>1. PICK k \in Receiving!Key : Receiving!Fires(k) BY <1>8, CoreFire DEF Inv
  <2> QED BY <1>1, <1>2, <1>8, <2>1, OwnedFire DEF Inv
<1>9. CASE Call \/ HandleTimeout
  <2>1. Receiving!Unmoved BY <1>9, CoreCall DEF Inv
  <2>2. UNCHANGED <<inFlight, sentCount, repeats, returned, delivered>>
    BY <1>9 DEF Call, HandleTimeout, network, outcome
  <2>3. Owned(use)' /\ Once'
    BY <1>2, <1>3, <1>4, <2>1, <2>2, OwnedUnmoved DEF Inv, Receiving!Unmoved
  <2>4. ResultsWhole' BY <2>1 DEF ResultsWhole, Receiving!Unmoved
  <2> QED BY <1>1, <2>3, <2>4 DEF Inv
<1>10. CASE UNCHANGED vars
  <2>1. UNCHANGED <<stack, inFlight, sentCount, repeats, returned, delivered>>
    BY <1>10 DEF vars, receiver, network, outcome
  <2>2. Owned(use)' /\ Once' BY <1>2, <1>3, <1>4, <2>1, OwnedUnmoved DEF Inv
  <2>3. ResultsWhole' BY <2>1 DEF ResultsWhole, Inv
  <2> QED BY <1>1, <2>2, <2>3 DEF Inv
<1> QED BY <1>5, <1>6, <1>7, <1>8, <1>9, <1>10 DEF Next

(* What reassembly delivers is one message, whole and in order: segments   *)
(* of two messages are never put together, though a reference is used by   *)
(* one message after another, and the network reorders and repeats         *)
(* segments (handleUnitdata, reassemble, allocateSegmentationReference).   *)
THEOREM MessagesAreWhole == Spec => DeliveredWhole
<1>1. Inv' => [\A i \in DOMAIN stack'.res :
                  stack'.res[i].type = "unitdata" => WholeMessage(stack'.res[i].data)]_vars
  BY DEF Inv, ResultsWhole
<1> QED BY <1>1, InvInit, InvNext, PTL DEF Spec, DeliveredWhole

(* A message is returned at most once, and without repeated segments it is *)
(* delivered or returned, once, or lost: the record of a failed message    *)
(* outlasts its segments (rejectSegment, failReassembly, reassemble).      *)
THEOREM OutcomesAreSingle == Spec => []OneOutcome
<1>1. Inv => OneOutcome
  <2> SUFFICES ASSUME Inv, NEW m \in Message
               PROVE  returned[m] <= 1 /\ (repeats = 0 => returned[m] + delivered[m] <= 1)
    BY DEF OneOutcome
  <2>1. returned[m] \in 0 .. 1 BY DEF Inv, Owned, Returned
  <2> QED BY <2>1 DEF Inv, Once, Single
<1> QED BY <1>1, InvInit, InvNext, PTL DEF Spec

(* A segment that is next in its message is never refused for its length:  *)
(* the segments of splitSegments are never longer than the first, whose    *)
(* length and count are the bound of reassemble.                           *)
THEOREM SegmentsFit == Spec => []NextSegmentFits
<1>1. Inv => NextSegmentFits
  <2> SUFFICES ASSUME Inv, NEW f \in inFlight, Destination!Continues(f.segment),
                      f.segment.remaining = stack.reassemblies[f.segment.key].expected
               PROVE  LET p == stack.reassemblies[f.segment.key]
                          n == p.len + f.segment.len
                      IN  n <= Destination!Bound(p) /\ n <= MaxLongData
    BY DEF NextSegmentFits
  <2>1. PICK use : Owned(use) BY DEF Inv
  <2> DEFINE u == f.segment
             p == stack.reassemblies[u.key]
             r == u.key.reference
             w == use[r]
             n == Len(p.data)
  <2>2. Receiving!Continues(u)
    BY DEF Destination!Continues, Destination!InProgress, Destination!Known,
           Receiving!Continues, Receiving!InProgress, Receiving!Known
  <2>3. /\ Use(w) /\ PrefixOf(p, w, r) /\ n + 1 \in 2 .. w.count
        /\ u = NthSegment(w, r, n + 1)
    BY <2>1, <2>2, NextOfMessage DEF Inv, Owned
  <2>4. n \in Nat BY <2>2, ProcessTyped DEF Inv, Receiving!Continues
  <2>5. Shape(w) /\ w.count \in Nat /\ w.length \in 1 .. MaxLongData /\ MaxLongData \in Nat
    BY Zenon, <2>3, UseShape
  <2>6. p.len = UpTo(w, n) /\ p.first = NthSegment(w, r, 1) BY <2>3 DEF PrefixOf
  <2>7. u.len = NthSegment(w, 0, n + 1).len BY <2>3, NthFields
  <2>8. p.first.len = NthSegment(w, 0, 1).len /\ p.first.remaining = w.count - 1
    BY <2>6, NthFields
  <2> HIDE DEF n, w, u, p
  <2>9. p.len + u.len = UpTo(w, n + 1)
    <3>1. n < w.count BY <2>3, <2>4, <2>5
    <3>2. UpTo(w, n + 1) = UpTo(w, n) + NthSegment(w, 0, n + 1).len
      BY <2>4, <2>5, <3>1, UpToNext
    <3> QED BY <2>6, <2>7, <3>2
  <2>10. /\ UpTo(w, n + 1) <= w.length
         /\ UpTo(w, n + 1) <= NthSegment(w, 0, 1).len * w.count
    <3>1. n + 1 \in 0 .. w.count BY <2>3, <2>4, <2>5
    <3> QED BY <2>5, <3>1, UpToBounds
  <2>11. Destination!Bound(p) = NthSegment(w, 0, 1).len * w.count
    <3>1. p.first.remaining + 1 = w.count BY <2>5, <2>8
    <3> QED BY <2>8, <3>1 DEF Destination!Bound
  <2>12. UpTo(w, n + 1) \in Nat
    <3>1. n < w.count BY <2>3, <2>4, <2>5
    <3>2. CASE n + 1 < w.count
      <4>1. n + 1 \in Nat BY <2>4
      <4> QED BY <2>5, <3>2, <4>1, UpToNext
    <3>3. CASE n + 1 = w.count
      <4>1. UpTo(w, n) \in Nat BY <2>4, <2>5, <3>1, UpToNext
      <4>2. u.len \in Nat
        <5>1. f \in [age : 0 .. NetworkDelay, segment : Receiving!Segment]
          BY DEF Inv, Core, Quiet, Young
        <5>2. u \in Receiving!Segment BY <5>1 DEF u
        <5> QED BY <5>2, StackAssumption DEF Receiving!Segment
      <4> QED BY <2>6, <2>9, <4>1, <4>2
    <3> QED BY <2>4, <2>5, <3>1, <3>2, <3>3
  <2>13. p.len + u.len <= MaxLongData BY <2>5, <2>9, <2>10, <2>12
  <2>14. p.len + u.len <= Destination!Bound(p) BY <2>9, <2>10, <2>11
  <2> QED BY <2>13, <2>14 DEF u, p
<1> QED BY <1>1, InvInit, InvNext, PTL DEF Spec

-----------------------------------------------------------------------------
(* The refinement: what a step does to the outcomes of the messages.       *)

Tabled ==
    /\ returned = [m \in Message |-> returned[m]]
    /\ delivered = [m \in Message |-> delivered[m]]

LEMMA TabledInit == Init => Tabled
BY DEF Init, Tabled

LEMMA TabledNext == Tabled /\ [Next]_vars => Tabled'
<1> SUFFICES ASSUME Tabled, [Next]_vars PROVE Tabled' OBVIOUS
<1>1. CASE Observe BY <1>1 DEF Observe, Tabled
<1>2. CASE UNCHANGED outcome BY <1>2 DEF outcome, Tabled
<1>3. Observe \/ UNCHANGED outcome
  BY DEF Next, Tick, Send, Arrive, Call, Fire, HandleTimeout, vars
<1> QED BY <1>1, <1>2, <1>3

LEMMA RepeatedStays ==
    ASSUME repeats \in Nat, repeats' \in Nat, repeats' = 0 => repeats = 0
    PROVE  UNCHANGED (repeats > 0) \/ (repeats > 0)'
<1>1. CASE repeats' > 0 BY Zenon, <1>1
<1>2. CASE repeats' = 0
  <2>1. repeats' = repeats BY <1>2
  <2> QED BY Zenon, <2>1
<1> QED BY <1>1, <1>2

LEMMA SentService ==
    ASSUME Core, NEW r, NEW w, Sends(r, w)
    PROVE  \E m \in Message : Service!Send(m)
<1>1. /\ sentCount \in Nat /\ sentCount + 1 \in Message /\ sentCount' = sentCount + 1
      /\ UNCHANGED <<returned, delivered>>
  BY TransferAssumption DEF Sends, Core, outcome, Message
<1>2. sentCount + 1 \notin 1 .. sentCount /\ 1 .. sentCount' = (1 .. sentCount) \cup {sentCount + 1}
  BY <1>1
<1> QED BY <1>1, <1>2 DEF Service!Send

LEMMA OutcomeService ==
    ASSUME Core, Counted, Tabled, Tabled', UNCHANGED sentCount, repeats \in Nat,
           NEW m \in Message, Outcome(m)
    PROVE  Service!Deliver(m) \/ Service!Return(m)
<1>1. /\ m \in 1 .. sentCount /\ returned[m] = 0 /\ delivered[m] \in {0, 1, 2}
      /\ UNCHANGED (1 .. sentCount)
  BY TransferAssumption DEF Core, Counted, Outcome, Message
<1>2. delivered[m] = 0 \/ repeats > 0 BY DEF Outcome
<1>3. Service!Pending(m) BY <1>1, <1>2 DEF Service!Pending
<1>4. OthersKept(m) BY DEF Outcome
<1>5. CASE returned'[m] = 1 /\ delivered'[m] = delivered[m]
  <2>1. /\ \A o \in Message : delivered'[o] = delivered[o]
        /\ \A o \in Message : o # m => returned'[o] = returned[o]
    BY <1>4, <1>5 DEF OthersKept
  <2>2. delivered' = delivered /\ returned' = [returned EXCEPT ![m] = 1]
    BY <1>5, <2>1 DEF Tabled
  <2> QED BY <1>1, <1>3, <2>2 DEF Service!Return
<1>6. CASE returned'[m] = 0 /\ delivered'[m] = Several(delivered[m] + 1)
  <2>1. /\ \A o \in Message : returned'[o] = returned[o]
        /\ \A o \in Message : o # m => delivered'[o] = delivered[o]
    BY <1>1, <1>4, <1>6 DEF OthersKept
  <2>2. delivered'[m] = IF delivered[m] = 0 THEN 1 ELSE 2 BY <1>1, <1>6, SeveralIs
  <2>3. /\ returned' = returned
        /\ delivered' = [delivered EXCEPT ![m] = IF @ = 0 THEN 1 ELSE 2]
    BY <2>1, <2>2 DEF Tabled
  <2> QED BY <1>1, <1>3, <2>3 DEF Service!Deliver
<1> QED BY <1>5, <1>6 DEF Outcome

LEMMA FatedService ==
    ASSUME Core, Counted, Tabled, Tabled', Fated, UNCHANGED sentCount,
           repeats \in Nat, repeats' \in Nat, repeats' = 0 => repeats = 0
    PROVE  Service!Next
<1>1. CASE SameOutcomes
  <2>1. UNCHANGED <<1 .. sentCount, returned, delivered>> BY <1>1 DEF SameOutcomes, Tabled
  <2> QED BY Zenon, <2>1, RepeatedStays DEF Service!Next
<1>2. CASE \E m \in Message : Outcome(m)
  <2>1. \E m \in Message : Service!Deliver(m) \/ Service!Return(m) BY Zenon, <1>2, OutcomeService
  <2> QED BY Zenon, <2>1, RepeatedStays DEF Service!Next
<1> QED BY <1>1, <1>2 DEF Fated

LEMMA ServiceStep == Inv /\ Tabled /\ [Next]_vars => Service!Next
<1> SUFFICES ASSUME Inv, Tabled, Tabled', [Next]_vars PROVE Service!Next BY TabledNext
<1>1. PICK use : Owned(use) BY DEF Inv
<1>2. Core /\ Once /\ Counted /\ repeats \in Nat BY <1>1, CountedWhen DEF Inv, Once
<1>3. ASSUME NEW n \in DataSizes, Send(n) PROVE Service!Next
  <2>1. PICK r, w : Sends(r, w) BY <1>2, <1>3, CoreSend
  <2>2. repeats' = repeats BY <2>1 DEF Sends
  <2>3. UNCHANGED (repeats > 0) \/ (repeats > 0)' BY <1>2, <2>2, RepeatedStays
  <2>4. \E m \in Message : Service!Send(m) BY <1>2, <2>1, SentService
  <2> QED BY Zenon, <2>3, <2>4 DEF Service!Next
<1>4. ASSUME NEW f \in inFlight, Arrive(f) PROVE Service!Next
  <2>1. Receiving!Moves(f.segment) BY <1>2, <1>4, CoreArrive
  <2>2. Fated BY <1>1, <1>2, <1>4, <2>1, OwnedArrive
  <2>3. UNCHANGED sentCount /\ repeats' \in Nat /\ (repeats' = 0 => repeats = 0)
    BY <1>1, <1>2, <1>4, ArriveLeaves DEF Owned
  <2> QED BY <1>2, <2>2, <2>3, FatedService
<1>5. CASE Fire
  <2>1. PICK k \in Receiving!Key : Receiving!Fires(k) BY <1>2, <1>5, CoreFire
  <2>2. Fated BY <1>1, <1>2, <1>5, <2>1, OwnedFire
  <2>3. UNCHANGED <<sentCount, repeats>> BY <1>5 DEF Fire, network
  <2> QED BY <1>2, <2>2, <2>3, FatedService
<1>6. CASE Tick \/ Call \/ HandleTimeout \/ UNCHANGED vars
  <2>1. UNCHANGED <<sentCount, repeats, returned, delivered>>
    BY <1>6 DEF Tick, Call, HandleTimeout, vars, network, outcome
  <2>2. Fated BY <2>1 DEF Fated, SameOutcomes
  <2> QED BY <1>2, <2>1, <2>2, FatedService
<1> QED BY <1>3, <1>4, <1>5, <1>6 DEF Next

(* Segments, references, reassembly and timers together do to a message    *)
(* what ConnectionlessService says: it is sent, then delivered or returned *)
(* or lost; after a return nothing, after a delivery only what a repeated  *)
(* segment brings (UnitDataRequest, handleUnitdata, reassemble,            *)
(* rejectSegment, failReassembly).                                         *)
THEOREM TransferIsService == Spec => ImplementsService
<1>1. Init => Service!Init
  <2> SUFFICES ASSUME Init PROVE Service!Init OBVIOUS
  <2>1. 1 .. sentCount = {} /\ repeats = 0 BY DEF Init
  <2>2. (repeats > 0) = FALSE BY <2>1
  <2> QED BY Zenon, <2>1, <2>2 DEF Service!Init, Init
<1>2. Inv /\ Tabled /\ [Next]_vars => [Service!Next]_(Service!vars)
  BY TabledNext, ServiceStep
<1> QED BY <1>1, <1>2, InvInit, InvNext, TabledInit, TabledNext, PTL
        DEF Spec, ImplementsService, Service!Spec

=============================================================================
