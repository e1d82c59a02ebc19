----------------------------- MODULE Reassembly -----------------------------
(***************************************************************************)
(* Reassembly of segmented connectionless messages in one Stack            *)
(* (unitdata.go: reassemble, rejectSegment, failReassembly, endReassembly, *)
(* roomFor, hold).                                                         *)
(*                                                                         *)
(* The network is open: any segment may arrive at any time, from any peer. *)
(* What the procedures change is one record, stack, as it is one struct in *)
(* the code, and each function of the code is an operator on it.  Lock,    *)
(* clock and timers are those of ConnectionStack: Call reads the clock and *)
(* takes the lock, Fire runs what is due, the call's own step ends it.     *)
(*                                                                         *)
(* The user data of a segment is its content, an opaque value, and its     *)
(* length.  A key's reference stands for the whole reassemblyKey but the   *)
(* peer: label, calling party address and segmentation local reference.    *)
(***************************************************************************)
EXTENDS Integers, Sequences, FiniteSets

CONSTANTS
    Peers,                       \* signalling points: (OPC, NI) pairs
    References,
    Contents,                    \* what the user data of a segment may be
    Lengths,                     \* and how long
    MaxSegments,                 \* segments of a message
    MaxLongData,                 \* octets of a message
    MaxReassemblies,
    MaxReassemblyOctets,
    MaxReassemblyOctetsPerPeer,  \* zero: no bound
    ReassemblyTimeout,           \* T(reassembly)
    MaxLag,                      \* bound on the age of a clock reading
    MaxLate                      \* bound on how late a due timer is fired

(* NewStack refuses negative values and replaces zero by a default; a      *)
(* message without user data does not get here.                            *)
ASSUME ReassemblyAssumption ==
    /\ Lengths \subseteq Nat \ {0}
    /\ MaxSegments \in 1 .. 16
    /\ MaxLongData \in Nat \ {0}
    /\ MaxReassemblies \in Nat \ {0}
    /\ MaxReassemblyOctets \in Nat \ {0}
    /\ MaxReassemblyOctetsPerPeer \in Nat
    /\ ReassemblyTimeout \in Nat \ {0}
    /\ MaxLag \in Nat /\ MaxLate \in Nat

VARIABLES
    stack,      \* the reassembly fields of the Stack, and the call's Result
    locked,     \* a method holds Stack.mu
    lag,        \* age of that method's clock reading
    arrived,    \* history: the segment the last step handled
    recordAge   \* history: ticks since the record of a key was made

vars == <<stack, locked, lag, arrived, recordAge>>

-----------------------------------------------------------------------------
Key == [peer: Peers, reference: References]

Segment == [key: Key, first: BOOLEAN, remaining: 0 .. MaxSegments - 1,
            content: Contents, len: Lengths, returnOnError: BOOLEAN]

NoSegment == [first |-> FALSE]

(* What segmentHash tells apart.                                           *)
SegmentHash(u) == <<u.content, u.len, u.remaining>>

NoHash == <<>>

(* A reassembly that is neither failed nor over ...                        *)
Process == [failed: {FALSE}, first: Segment, expected: 0 .. 255,
            data: Seq(Contents), len: Nat, returnOnError: BOOLEAN]

(* ... and the record of a failed message; without its first segment the   *)
(* hash is NoHash (firstKnown).                                            *)
Record == [failed: {TRUE}, orphan: BOOLEAN,
           hash: (Contents \X Lengths \X (0 .. MaxSegments - 1)) \cup {NoHash}]

Timer == [key: Key, kind: {"process", "record"}, left: Int]

Known(s, k) == k \in DOMAIN s.reassemblies

InProgress(s, k) == Known(s, k) /\ ~s.reassemblies[k].failed

Failed(s, k) == Known(s, k) /\ s.reassemblies[k].failed

Put(reassemblies, k, e) ==
    [q \in DOMAIN reassemblies \cup {k} |-> IF q = k THEN e ELSE reassemblies[q]]

Remove(reassemblies, k) == [q \in DOMAIN reassemblies \ {k} |-> reassemblies[q]]

-----------------------------------------------------------------------------
(* The timer heap.                                                         *)

After(d) == d - lag

Schedule(s, k, kind) ==
    [s EXCEPT !.timers = @ \cup {[key |-> k, kind |-> kind, left |-> After(ReassemblyTimeout)]}]

Stop(s, k, kind) ==
    [s EXCEPT !.timers = {t \in @ : t.key # k \/ t.kind # kind}]

Due(t) == t.left <= -lag

(* expire has fired everything that is due: the method goes on.            *)
Ready == locked /\ \A t \in stack.timers : ~Due(t)

Unlock == locked' = FALSE /\ lag' = 0

-----------------------------------------------------------------------------
(* Accounts.                                                               *)

RoomFor(s, peer, n) ==
    /\ s.octets + n <= MaxReassemblyOctets
    /\ MaxReassemblyOctetsPerPeer = 0 \/ s.peerOctets[peer] + n <= MaxReassemblyOctetsPerPeer

(* A peer without octets has no entry in the code, zero here.              *)
Hold(s, peer, n) == [s EXCEPT !.octets = @ + n, !.peerOctets[peer] = @ + n]

-----------------------------------------------------------------------------
(* The message return procedure, for what has its first segment in hash.   *)

Return(s, k, content, asked) ==
    IF asked THEN [s EXCEPT !.res = Append(@, [type |-> "return", key |-> k, data |-> <<content>>])]
    ELSE s

Deliver(s, k, data) ==
    [s EXCEPT !.res = Append(@, [type |-> "unitdata", key |-> k, data |-> data])]

(* Fault: the record of a failed process is taken for an orphan's.         *)
EndReassemblyByFailure(s, k) ==
    LET e == s.reassemblies[k]
        removed == [s EXCEPT !.reassemblies = Remove(@, k)]
    IN  IF e.failed
        THEN Stop([removed EXCEPT !.orphans = @ - 1], k, "record")
        ELSE Stop(Hold([removed EXCEPT !.slots = @ - 1], k.peer, -e.len), k, "process")

(* Fault: the timer goes on.                                               *)
EndReassemblyUntimed(s, k) ==
    LET e == s.reassemblies[k]
        removed == [s EXCEPT !.reassemblies = Remove(@, k)]
    IN  IF e.failed
        THEN [removed EXCEPT !.orphans = @ - (IF e.orphan THEN 1 ELSE 0),
                             !.slots = @ - (IF e.orphan THEN 0 ELSE 1)]
        ELSE Hold([removed EXCEPT !.slots = @ - 1], k.peer, -e.len)

(* endReassembly of what k has: a record holds no octets.                  *)
EndReassembly(s, k) ==
    LET e == s.reassemblies[k]
        removed == [s EXCEPT !.reassemblies = Remove(@, k)]
    IN  IF e.failed
        THEN Stop([removed EXCEPT !.orphans = @ - (IF e.orphan THEN 1 ELSE 0),
                                  !.slots = @ - (IF e.orphan THEN 0 ELSE 1)], k, "record")
        ELSE Stop(Hold([removed EXCEPT !.slots = @ - 1], k.peer, -e.len), k, "process")

(* Fault: the record of an orphan has no timer.                            *)
RejectSegmentUntimed(s, u) ==
    LET record == [failed |-> TRUE, orphan |-> TRUE,
                   hash |-> IF u.first THEN SegmentHash(u) ELSE NoHash]
        returned == Return(s, u.key, u.content, u.returnOnError)
    IN  IF s.orphans >= MaxReassemblies THEN s
        ELSE [returned EXCEPT !.reassemblies = Put(@, u.key, record), !.orphans = @ + 1]

(* rejectSegment: u has no process; without a record left, no return.      *)
RejectSegment(s, u) ==
    LET k == u.key
        record == [failed |-> TRUE, orphan |-> TRUE,
                   hash |-> IF u.first THEN SegmentHash(u) ELSE NoHash]
        returned == Return(s, k, u.content, u.returnOnError)
    IN  IF s.orphans >= MaxReassemblies THEN s
        ELSE Schedule([returned EXCEPT !.reassemblies = Put(@, k, record),
                                       !.orphans = @ + 1], k, "record")

(* Fault: the octets of the failed process stay in the accounts.           *)
FailReassemblyHolding(s, k, asked) ==
    LET p == s.reassemblies[k]
        record == [failed |-> TRUE, orphan |-> FALSE, hash |-> SegmentHash(p.first)]
        returned == Return(s, k, p.first.content, asked)
    IN  Schedule(Stop([returned EXCEPT !.reassemblies[k] = record], k, "process"), k, "record")

(* Fault: the message is returned and its process goes on.                 *)
FailReassemblyKept(s, k, asked) == Return(s, k, s.reassemblies[k].first.content, asked)

(* failReassembly: the process of k becomes the record of its message.     *)
FailReassembly(s, k, asked) ==
    LET p == s.reassemblies[k]
        record == [failed |-> TRUE, orphan |-> FALSE, hash |-> SegmentHash(p.first)]
        returned == Return(s, k, p.first.content, asked)
        dropped == [Hold(returned, k.peer, -p.len) EXCEPT !.reassemblies[k] = record]
    IN  Schedule(Stop(dropped, k, "process"), k, "record")

-----------------------------------------------------------------------------
Init ==
    /\ stack = [reassemblies |-> [k \in {} |-> NoSegment], timers |-> {},
                slots |-> 0, orphans |-> 0, octets |-> 0,
                peerOctets |-> [p \in Peers |-> 0], res |-> <<>>]
    /\ locked = FALSE
    /\ lag = 0
    /\ arrived = NoSegment
    /\ recordAge = [k \in Key |-> 0]

(* Each step starts a Result of its own.                                   *)
Fresh == [stack EXCEPT !.res = <<>>]

(* A record that was made by this step is new.                             *)
AgeRecords ==
    recordAge' = [k \in Key |->
        IF Failed(stack', k) /\ Failed(stack, k) /\ stack'.reassemblies[k] = stack.reassemblies[k]
        THEN recordAge[k] ELSE 0]

Becomes(s) == stack' = s /\ AgeRecords

(* recordAge stops where it says no more.                                  *)
Longer(age) == IF age < ReassemblyTimeout THEN age + 1 ELSE age

Tick ==
    /\ ~locked
    /\ \A t \in stack.timers : t.left > -MaxLate
    /\ stack' = [Fresh EXCEPT !.timers = {[t EXCEPT !.left = @ - 1] : t \in @}]
    /\ recordAge' = [k \in Key |-> IF Failed(stack, k) THEN Longer(recordAge[k]) ELSE 0]
    /\ arrived' = NoSegment
    /\ UNCHANGED <<locked, lag>>

Call ==
    /\ ~locked
    /\ locked' = TRUE
    /\ lag' \in 0 .. MaxLag
    /\ arrived' = NoSegment
    /\ stack' = Fresh
    /\ UNCHANGED recordAge

(* The callbacks of T(reassembly): a process fails, a record ends.         *)
Fire ==
    /\ locked
    /\ \E t \in stack.timers :
          LET popped == [Fresh EXCEPT !.timers = @ \ {t}]
              k == t.key
          IN /\ Due(t)
             /\ \A o \in stack.timers : t.left <= o.left
             /\ \/ /\ t.kind = "process"
                   /\ Becomes(FailReassembly(popped, k, stack.reassemblies[k].returnOnError))
                \/ /\ t.kind = "record"
                   /\ Becomes(EndReassembly(popped, k))
    /\ arrived' = NoSegment
    /\ UNCHANGED <<locked, lag>>

(* HandleTimeout, and every call that has nothing to reassemble.           *)
HandleTimeout ==
    /\ Ready
    /\ Unlock
    /\ stack' = Fresh
    /\ arrived' = NoSegment
    /\ UNCHANGED recordAge

-----------------------------------------------------------------------------
(* reassemble(u).                                                          *)

(* Fault: a first segment is never taken for that of the failed message.   *)
OfFailedMessageUnhashed(u) == Failed(stack, u.key) /\ ~u.first

(* The rest of a failed message; its first segment too when that was never *)
(* seen or is the one that was.                                            *)
OfFailedMessage(u) ==
    LET k == u.key IN
    /\ Failed(stack, k)
    /\ \/ ~u.first
       \/ stack.reassemblies[k].hash \in {NoHash, SegmentHash(u)}

AbsorbSegment(u) == OfFailedMessage(u) /\ Becomes(Fresh)

(* A first segment for a busy reference discards both.                     *)
BusyReference(u) ==
    /\ u.first /\ InProgress(stack, u.key)
    /\ Becomes(RejectSegment(EndReassembly(Fresh, u.key), u))

(* The state a message that starts with u finds: another first segment     *)
(* ends the record of an earlier message.                                  *)
Cleared(u) == IF Failed(stack, u.key) THEN EndReassembly(Fresh, u.key) ELSE Fresh

StartsMessage(u) == u.first /\ ~InProgress(stack, u.key) /\ ~OfFailedMessage(u)

NoAssociation(u) == ~u.first /\ ~Known(stack, u.key)

(* No process for u: it cannot be delivered, or has no first segment.      *)
RefuseSegment(u, available) ==
    /\ StartsMessage(u) \/ NoAssociation(u)
    /\ ~available \/ NoAssociation(u)
    /\ Becomes(RejectSegment(Cleared(u), u))

(* Fault: the records of failed processes do not count.                    *)
CanStartBeyond(s, u) ==
    /\ Cardinality({k \in DOMAIN s.reassemblies : InProgress(s, k)}) < MaxReassemblies
    /\ RoomFor(s, u.key.peer, u.len)

CanStart(s, u) == s.slots < MaxReassemblies /\ RoomFor(s, u.key.peer, u.len)

RefuseStart(u) ==
    /\ StartsMessage(u)
    /\ ~CanStart(Cleared(u), u)
    /\ Becomes(RejectSegment(Cleared(u), u))

(* expected and its decrements are uint8.                                  *)
StartReassembly(u) ==
    LET k == u.key
        process == [failed |-> FALSE, first |-> u, expected |-> (u.remaining - 1) % 256,
                    data |-> <<u.content>>, len |-> u.len, returnOnError |-> u.returnOnError]
        admitted == [Cleared(u) EXCEPT !.reassemblies = Put(@, k, process), !.slots = @ + 1]
    IN  /\ StartsMessage(u)
        /\ CanStart(Cleared(u), u)
        /\ Becomes(Schedule(Hold(admitted, k.peer, u.len), k, "process"))

Continues(u) == ~u.first /\ InProgress(stack, u.key)

(* Any of the segments may ask for the return.                             *)
Asked(u) == stack.reassemblies[u.key].returnOnError \/ u.returnOnError

Bound(p) == p.first.len * (p.first.remaining + 1)

Fits(u) ==
    LET p == stack.reassemblies[u.key]
        total == p.len + u.len
    IN  /\ u.remaining = p.expected
        /\ total <= Bound(p)
        /\ total <= MaxLongData
        /\ RoomFor(stack, u.key.peer, u.len)

FailSegment(u, available) ==
    /\ Continues(u)
    /\ ~available \/ ~Fits(u)
    /\ Becomes(FailReassembly(Fresh, u.key, Asked(u)))

(* The process with u appended, and its octets held.                       *)
Extended(u) ==
    LET k == u.key
        p == stack.reassemblies[k]
        longer == [p EXCEPT !.data = Append(@, u.content), !.len = @ + u.len,
                            !.returnOnError = Asked(u)]
    IN  Hold([Fresh EXCEPT !.reassemblies[k] = longer], k.peer, u.len)

ExtendReassembly(u) ==
    /\ Continues(u) /\ Fits(u) /\ u.remaining > 0
    /\ Becomes([Extended(u) EXCEPT !.reassemblies[u.key].expected = (@ - 1) % 256])

CompleteReassembly(u) ==
    LET k == u.key IN
    /\ Continues(u) /\ Fits(u) /\ u.remaining = 0
    /\ Becomes(Deliver(EndReassembly(Extended(u), k), k, Extended(u).reassemblies[k].data))

Reassemble(u, available) ==
    \/ AbsorbSegment(u)
    \/ BusyReference(u)
    \/ RefuseSegment(u, available)
    \/ FailSegment(u, available)
    \/ available /\ (\/ RefuseStart(u)
                     \/ StartReassembly(u)
                     \/ ExtendReassembly(u)
                     \/ CompleteReassembly(u))

(* Fault: a whole message is reassembled too.                              *)
SegmentedAny(u) == TRUE

(* handleUnitdata: a first segment with none remaining is a whole message. *)
Segmented(u) == ~u.first \/ u.remaining # 0

(* The subsystem the message is for is available or not.                   *)
HandleSegment(u) ==
    /\ Ready
    /\ Unlock
    /\ Segmented(u)
    /\ arrived' = u
    /\ \E available \in BOOLEAN : Reassemble(u, available)

-----------------------------------------------------------------------------
Next == Tick \/ Call \/ Fire \/ HandleTimeout \/ \E u \in Segment : HandleSegment(u)

Spec == Init /\ [][Next]_vars

(* As in ConnectionStack.                                                  *)
Fairness ==
    /\ WF_vars(Call)
    /\ WF_vars(Fire)
    /\ WF_vars(HandleTimeout)
    /\ SF_vars(Tick)

FairSpec == Spec /\ Fairness

=============================================================================
