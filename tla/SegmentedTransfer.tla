------------------------- MODULE SegmentedTransfer -------------------------
(***************************************************************************)
(* Segmented messages from one Stack to another: the sending side of       *)
(* Segmentation, the reassembly of Reassembly, and an MTP network between  *)
(* them that may lose segments, hold them back for up to NetworkDelay and  *)
(* thereby reorder them, and repeat up to MaxRepeats of them.              *)
(*                                                                         *)
(* The two stacks have clocks of their own, which run at the same rate.    *)
(* A message is its number; the content of a segment is the message and    *)
(* the position in it, so that what is delivered can be compared with what *)
(* was sent.                                                               *)
(***************************************************************************)
EXTENDS Integers, Sequences, FiniteSets

CONSTANTS
    Sender,                       \* the sending signalling point
    MaxMessages,                  \* bound on the messages sent
    DataSizes,                    \* octets of user data in a request
    NetworkDelay,
    MaxRepeats,                   \* bound on the segments that arrive again
    MaxReference, SegmentationReferenceFreeze, SegmentCapacity,
    MaxSegments, MaxLongData,
    MaxReassemblies, MaxReassemblyOctets, ReassemblyTimeout,
    MaxLag, MaxLate

Message == 1 .. MaxMessages

ASSUME TransferAssumption ==
    /\ MaxMessages \in Nat \ {0}
    /\ DataSizes \subseteq SegmentCapacity + 1 .. MaxLongData
    /\ NetworkDelay \in Nat
    /\ MaxRepeats \in Nat

(* What Segmentation and Reassembly assume of theirs.                      *)
ASSUME StackAssumption ==
    /\ MaxReference \in Nat
    /\ SegmentationReferenceFreeze \in Nat \ {0}
    /\ SegmentCapacity \in Nat
    /\ MaxSegments \in 1 .. 16
    /\ MaxLongData \in Nat \ {0}
    /\ MaxReassemblies \in Nat \ {0}
    /\ MaxReassemblyOctets \in Nat \ {0}
    /\ ReassemblyTimeout \in Nat \ {0}
    /\ MaxLag \in Nat /\ MaxLate \in Nat

(* The freeze is "long enough for the far end's T(reassembly) to end"      *)
(* (DefaultSegmentationReferenceFreeze): the last segment arrives up to    *)
(* NetworkDelay after the reference was taken, starts a timer, and that is *)
(* fired up to MaxLate after its end; a clock reading shortens the freeze  *)
(* by its age.                                                             *)
ASSUME FreezeAssumption ==
    SegmentationReferenceFreeze - MaxLag > NetworkDelay + ReassemblyTimeout + MaxLate

(* A record, shortened by the age of a clock reading, outlasts the         *)
(* segments of its message.                                                *)
ASSUME RecordAssumption == ReassemblyTimeout - MaxLag > NetworkDelay

VARIABLES
    nextReference, frozen, order, request, sinceUsed,   \* the sender
    stack, locked, lag, arrived, recordAge,             \* the receiver
    inFlight,     \* segments in the network, with their age
    sentCount,    \* messages sent
    repeats,      \* segments that arrived and remained in the network
    returned,     \* history: returns of each message
    delivered     \* history: indications of each message

sender == <<nextReference, frozen, order, request, sinceUsed>>
receiver == <<stack, locked, lag, arrived, recordAge>>
network == <<inFlight, sentCount, repeats>>
outcome == <<returned, delivered>>
vars == <<sender, receiver, network, outcome>>

Origin == INSTANCE Segmentation WITH
    SingleCapacity <- SegmentCapacity, SegmentationThreshold <- 0

Destination == INSTANCE Reassembly WITH
    Peers <- {Sender}, References <- 0 .. MaxReference,
    Contents <- Message \X (1 .. MaxSegments), Lengths <- 1 .. SegmentCapacity,
    MaxReassemblyOctetsPerPeer <- 0

-----------------------------------------------------------------------------
(* What becomes of the messages: the stack returns a message by its first  *)
(* segment and delivers it by its data.                                    *)

Results(s, type, m) ==
    Cardinality({i \in DOMAIN s.res : s.res[i].type = type /\ s.res[i].data[1][1] = m})

(* Bound on the counts: more than once is all that matters.                *)
Several(n) == IF n > 2 THEN 2 ELSE n

Observe ==
    /\ returned' = [m \in Message |-> Several(returned[m] + Results(stack', "return", m))]
    /\ delivered' = [m \in Message |-> Several(delivered[m] + Results(stack', "unitdata", m))]

InTransit(m, r, messages) ==
    {[age |-> 0,
      segment |-> [key |-> [peer |-> Sender, reference |-> r], first |-> messages[i].first,
                   remaining |-> messages[i].remaining, content |-> <<m, i>>,
                   len |-> messages[i].len, returnOnError |-> messages[i].returnOnError]] :
        i \in DOMAIN messages}

-----------------------------------------------------------------------------
Init ==
    /\ Origin!Init
    /\ Destination!Init
    /\ inFlight = {}
    /\ sentCount = 0
    /\ repeats = 0
    /\ returned = [m \in Message |-> 0]
    /\ delivered = [m \in Message |-> 0]

(* What is older than NetworkDelay is lost.                                *)
Tick ==
    /\ Origin!Tick
    /\ Destination!Tick
    /\ inFlight' = {[f EXCEPT !.age = @ + 1] : f \in {f \in inFlight : f.age < NetworkDelay}}
    /\ UNCHANGED <<sentCount, repeats, outcome>>

Send(n) ==
    /\ sentCount < MaxMessages
    /\ Origin!Unitdata(n, TRUE)
    /\ request'.type = "segments"
    /\ sentCount' = sentCount + 1
    /\ inFlight' = inFlight \cup InTransit(sentCount + 1, request'.ref, request'.messages)
    /\ UNCHANGED <<receiver, repeats, outcome>>

Arrive(f) ==
    /\ Destination!HandleSegment(f.segment)
    /\ \/ inFlight' = inFlight \ {f} /\ repeats' = repeats
       \/ repeats < MaxRepeats /\ inFlight' = inFlight /\ repeats' = repeats + 1
    /\ Observe
    /\ UNCHANGED <<sender, sentCount>>

Call == Destination!Call /\ UNCHANGED <<sender, network, outcome>>

Fire == Destination!Fire /\ Observe /\ UNCHANGED <<sender, network>>

HandleTimeout == Destination!HandleTimeout /\ UNCHANGED <<sender, network, outcome>>

Next ==
    \/ Tick
    \/ \E n \in DataSizes : Send(n)
    \/ \E f \in inFlight : Arrive(f)
    \/ Call
    \/ Fire
    \/ HandleTimeout

Spec == Init /\ [][Next]_vars

-----------------------------------------------------------------------------
(* What is delivered is one message, whole and in order, whatever the      *)
(* network does: segments of two messages that used the same reference are *)
(* never put together (allocateSegmentationReference freezes a reference   *)
(* long enough for T(reassembly) at the far end; reassemble checks the     *)
(* rest).                                                                  *)
WholeMessage(data) ==
    \E count \in 2 .. MaxSegments :
        data = [j \in 1 .. count |-> <<data[1][1], j>>]

DeliveredWhole ==
    [][\A i \in DOMAIN stack'.res :
          stack'.res[i].type = "unitdata" => WholeMessage(stack'.res[i].data)]_vars

(* A message is returned at most once ("only one XUDTS/LUDTS message will  *)
(* be sent", above rejectSegment), duplicates or not: the record of a      *)
(* failed message outlasts its segments.  Until a segment is repeated it   *)
(* is delivered or returned, once, or lost.                                *)
OneOutcome ==
    \A m \in Message :
        /\ returned[m] <= 1
        /\ repeats = 0 => returned[m] + delivered[m] <= 1

(* When a reference is used again, the far end is done with the message    *)
(* that had it: no process waits for its segments, no record waits for its *)
(* first one, and none of its segments is under way, repeated or not       *)
(* ("long enough for the far end's T(reassembly) to end",                  *)
(* DefaultSegmentationReferenceFreeze).                                    *)
ReferenceQuiet ==
    [][\A r \in 0 .. MaxReference :
          sentCount' # sentCount /\ request'.ref = r =>
              LET k == [peer |-> Sender, reference |-> r] IN
              /\ ~Destination!InProgress(stack, k)
              /\ ~(Destination!Failed(stack, k) /\ stack.reassemblies[k].hash = <<>>)
              /\ \A f \in inFlight : f.segment.key # k]_vars

(* A segment that is next in its message is never refused for its length:  *)
(* splitSegments keeps to the bounds reassemble checks.                    *)
NextSegmentFits ==
    \A f \in inFlight : LET u == f.segment
                            k == u.key IN
        /\ Destination!Continues(u)
        /\ Head(stack.reassemblies[k].data)[1] = u.content[1]
        /\ u.remaining = stack.reassemblies[k].expected
        => LET p == stack.reassemblies[k]
           IN  p.len + u.len <= Destination!Bound(p) /\ p.len + u.len <= MaxLongData

(* What becomes of the messages is what ConnectionlessService promises: a  *)
(* message that was returned is never delivered, and a delivered one is    *)
(* delivered again or returned only if a segment was repeated before, for  *)
(* every message separately, whatever happens to the others (reassemble,   *)
(* rejectSegment, failReassembly).                                         *)
Service == INSTANCE ConnectionlessService WITH
    Messages <- Message, sent <- 1 .. sentCount, repeated <- repeats > 0

ImplementsService == Service!Spec

=============================================================================
