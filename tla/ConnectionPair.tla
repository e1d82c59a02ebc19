--------------------------- MODULE ConnectionPair ---------------------------
(***************************************************************************)
(* Two Stacks with one user each and the MTP between them: the user of A   *)
(* connects and disconnects, the user of B answers and disconnects.  Both  *)
(* ends are ConnectionStack, with every timer.  The MTP may reorder the    *)
(* messages, lose, delay and repeat them.                                  *)
(*                                                                         *)
(* The clocks run at the same rate.  The calls of the two stacks touch     *)
(* nothing in common, so one is finished before the other starts.          *)
(***************************************************************************)
EXTENDS Integers, Sequences, FiniteSets

CONSTANTS
    NoPeer,
    LimitA, LimitB,       \* local references of A and of B
    MaxConnections,
    EstablishmentTimeout, ReleaseTimeout, RepeatReleaseTimeout, ReleaseGiveUpTimeout,
    InactivitySendTimeout, InactivityReceiveTimeout, ReferenceFreeze,
    AnswerTime,           \* the user of B answers a request within this time
    MaxRequests,          \* bound on the requests of A's user
    MaxFaults             \* bound on the messages repeated, or delayed by a tick

(* Both stacks refuse other limits and timeouts (initConnections).         *)
ASSUME StacksAssumption ==
    /\ NoPeer \notin {"A", "B"}
    /\ LimitA \in Nat \ {0} /\ LimitB \in Nat \ {0}
    /\ MaxConnections \in Nat \ {0}
    /\ EstablishmentTimeout \in Nat \ {0}
    /\ ReleaseTimeout \in Nat \ {0}
    /\ RepeatReleaseTimeout \in Nat \ {0}
    /\ ReleaseGiveUpTimeout \in Nat \ {0}
    /\ InactivitySendTimeout \in Nat \ {0}
    /\ InactivityReceiveTimeout \in Nat \ {0}
    /\ ReferenceFreeze \in Nat \ {0}
    /\ InactivityReceiveTimeout > InactivitySendTimeout

ASSUME PairAssumption ==
    /\ AnswerTime \in Nat
    /\ MaxRequests \in Nat /\ MaxFaults \in Nat

NoRequest == 0

VARIABLES
    sectionA, timerA, nextA, activeA, octetsA, lockedA, lagA, sentA, userA, frozenForA,
    sectionB, timerB, nextB, activeB, octetsB, lockedB, lagB, sentB, userB, frozenForB,
    inFlight,     \* what the MTP carries, with the request it belongs to
    faults,       \* messages repeated or delayed so far
    requests,     \* requests of A's user so far
    requestOfA,   \* history: the request that a section of A carries
    requestOfB,   \* history: the same for B
    unanswered    \* ticks that a request has waited for B's user

endA == <<sectionA, timerA, nextA, activeA, octetsA, lockedA, lagA, sentA, userA, frozenForA>>
endB == <<sectionB, timerB, nextB, activeB, octetsB, lockedB, lagB, sentB, userB, frozenForB>>
vars == <<endA, endB, inFlight, faults, requests, requestOfA, requestOfB, unanswered>>

A == INSTANCE ConnectionStack WITH
    Peers <- {"B"}, RemoteRefs <- 0 .. LimitB - 1, NoRef <- -1, ReferenceLimit <- LimitA,
    MaxDataLength <- 1, MaxReassemblyOctets <- 1, DT1Size <- 1, DataLengths <- {1},
    MaxLag <- 0, MaxLate <- 0,
    section <- sectionA, timer <- timerA, next <- nextA, active <- activeA,
    octets <- octetsA, locked <- lockedA, lag <- lagA, sent <- sentA, user <- userA,
    frozenFor <- frozenForA

B == INSTANCE ConnectionStack WITH
    Peers <- {"A"}, RemoteRefs <- 0 .. LimitA - 1, NoRef <- -1, ReferenceLimit <- LimitB,
    MaxDataLength <- 1, MaxReassemblyOctets <- 1, DT1Size <- 1, DataLengths <- {1},
    MaxLag <- 0, MaxLate <- 0,
    section <- sectionB, timer <- timerB, next <- nextB, active <- activeB,
    octets <- octetsB, locked <- lockedB, lag <- lagB, sent <- sentB, user <- userB,
    frozenFor <- frozenForB

-----------------------------------------------------------------------------
(* The MTP.  A message goes to the stack it names as peer and arrives      *)
(* naming the one it came from.                                            *)

InTransit(from, m, request) ==
    [to |-> m.peer, request |-> request, message |-> [m EXCEPT !.peer = from]]

(* What a stack sends of its own accord belongs to the request its section *)
(* carries, what it sends back to the request of the message it received:  *)
(* ERR, RLC, the refusal of a CR and the first of two RLSD.                *)
OwnMessages(from, sent, request) ==
    {InTransit(from, sent[i], request) : i \in DOMAIN sent}

Answers(from, sent, f, request) ==
    {InTransit(from, sent[i],
               IF sent[i].type \in {"ERR", "RLC", "CREF"} \/ i < Len(sent)
               THEN f.request ELSE request) : i \in DOMAIN sent}

(* f arrives, for the last time or not.                                    *)
Takes(f, answers) ==
    \/ inFlight' = (inFlight \ {f}) \cup answers /\ faults' = faults
    \/ faults < MaxFaults /\ inFlight' = inFlight \cup answers /\ faults' = faults + 1

InUse(s) == s.state \notin {"idle", "frozen"}

-----------------------------------------------------------------------------
Init ==
    /\ A!Init
    /\ B!Init
    /\ inFlight = {}
    /\ faults = 0
    /\ requests = 0
    /\ requestOfA = [r \in 0 .. LimitA - 1 |-> NoRequest]
    /\ requestOfB = [x \in 0 .. LimitB - 1 |-> NoRequest]
    /\ unanswered = [x \in 0 .. LimitB - 1 |-> 0]

(* What the MTP did not delay is lost.  The user of B has answered         *)
(* whatever waited for AnswerTime.                                         *)
Tick ==
    /\ A!Tick
    /\ B!Tick
    /\ \A x \in DOMAIN sectionB : sectionB[x].state = "incoming" => unanswered[x] < AnswerTime
    /\ unanswered' = [x \in DOMAIN unanswered |->
                        IF sectionB[x].state = "incoming" THEN unanswered[x] + 1 ELSE 0]
    /\ \E late \in SUBSET inFlight :
          /\ inFlight' = late
          /\ faults' = faults + Cardinality(late)
    /\ faults' <= MaxFaults
    /\ UNCHANGED <<requests, requestOfA, requestOfB>>

Quiet == UNCHANGED <<inFlight, faults, requests, requestOfA, requestOfB, unanswered>>

CallA == ~lockedB /\ A!Call /\ UNCHANGED endB /\ Quiet

CallB == ~lockedA /\ B!Call /\ UNCHANGED endA /\ Quiet

(* A step of section r of A, or of x of B, that no message caused.         *)
OwnA(r) ==
    /\ inFlight' = inFlight \cup OwnMessages("A", sentA', requestOfA[r])
    /\ UNCHANGED <<endB, faults, requests, requestOfA, requestOfB, unanswered>>

OwnB(x) ==
    /\ inFlight' = inFlight \cup OwnMessages("B", sentB', requestOfB[x])
    /\ UNCHANGED <<endA, faults, requests, requestOfA, requestOfB, unanswered>>

FireA == \E r \in DOMAIN sectionA : A!FireOf(r) /\ OwnA(r)

FireB == \E x \in DOMAIN sectionB : B!FireOf(x) /\ OwnB(x)

HandleTimeoutA == A!HandleTimeout /\ UNCHANGED endB /\ Quiet

HandleTimeoutB == B!HandleTimeout /\ UNCHANGED endA /\ Quiet

Connect ==
    /\ requests < MaxRequests
    /\ A!Connect("B")
    /\ requests' = requests + 1
    /\ requestOfA' = [r \in DOMAIN requestOfA |->
                        IF sectionA'[r] # sectionA[r] THEN requests + 1 ELSE requestOfA[r]]
    /\ inFlight' = inFlight \cup OwnMessages("A", sentA', requests + 1)
    /\ UNCHANGED <<endB, faults, requestOfB, unanswered>>

DisconnectA == \E r \in DOMAIN sectionA : A!Disconnect(r) /\ OwnA(r)

Accept(x) == B!Accept(x) /\ OwnB(x)

DisconnectB(x) == B!Disconnect(x) /\ OwnB(x)

(* B registers the request or refuses it.                                  *)
ArriveRequest(f) ==
    LET registered == {x \in DOMAIN sectionB : sectionB'[x] # sectionB[x]}
    IN /\ f.message.type = "CR"
       /\ B!ReceiveConnectionRequest(f.message)
       /\ requestOfB' = [x \in DOMAIN requestOfB |->
                           IF x \in registered THEN f.request ELSE requestOfB[x]]
       /\ Takes(f, Answers("B", sentB', f, f.request))
       /\ UNCHANGED <<endA, requests, requestOfA, unanswered>>

ArriveA(f) ==
    /\ f.to = "A"
    /\ A!ReceiveSectionMessage(f.message)
    /\ Takes(f, Answers("A", sentA', f, requestOfA[f.message.dst]))
    /\ UNCHANGED <<endB, requests, requestOfA, requestOfB, unanswered>>

ArriveB(f) ==
    /\ f.to = "B" /\ f.message.type # "CR"
    /\ B!ReceiveSectionMessage(f.message)
    /\ Takes(f, Answers("B", sentB', f, requestOfB[f.message.dst]))
    /\ UNCHANGED <<endA, requests, requestOfA, requestOfB, unanswered>>

Next ==
    \/ Tick
    \/ CallA \/ FireA \/ HandleTimeoutA \/ Connect \/ DisconnectA
    \/ CallB \/ FireB \/ HandleTimeoutB
    \/ \E x \in DOMAIN sectionB : Accept(x) \/ DisconnectB(x)
    \/ \E f \in inFlight : ArriveRequest(f) \/ ArriveA(f) \/ ArriveB(f)

(* RunTimers calls HandleTimeout again and again, expire goes on until     *)
(* nothing is due, and time does not stop however often a stack is used.   *)
(* A call waits only while one of the other stack is under way.  The user  *)
(* of B answers: without that time would stop at AnswerTime.               *)
Fairness ==
    /\ SF_vars(CallA) /\ SF_vars(CallB)
    /\ WF_vars(FireA) /\ WF_vars(FireB)
    /\ WF_vars(HandleTimeoutA) /\ WF_vars(HandleTimeoutB)
    /\ SF_vars(\E x \in DOMAIN sectionB :
                 sectionB[x].state = "incoming" /\ (Accept(x) \/ DisconnectB(x)))
    /\ SF_vars(Tick)

Spec == Init /\ [][Next]_vars /\ Fairness

(* Nothing has to happen: what holds of these behaviours needs no fairness *)
(* and holds up to wherever they stop.                                     *)
Steps == Init /\ [][Next]_vars

-----------------------------------------------------------------------------
(* Nothing of an earlier connection reaches a later one: whatever is under *)
(* way to a reference in use, CC and CREF that no source reference checks  *)
(* included, belongs to the request that the section there carries.  The   *)
(* freeze has to outlast what the other end and the MTP still hold.        *)
NothingStale ==
    \A f \in inFlight :
        LET dst == f.message.dst
        IN f.message.type # "CR" =>
             /\ f.to = "A" /\ InUse(sectionA[dst]) => f.request = requestOfA[dst]
             /\ f.to = "B" /\ InUse(sectionB[dst]) => f.request = requestOfB[dst]

(* Something of the request k names the reference ref of an end: a message *)
(* under way, or the section at the other end that is linked to it.        *)
StillNamed(end, ref, k, otherSection, otherRequest) ==
    \/ \E f \in inFlight :
          /\ f.request = k
          /\ \/ f.to = end /\ f.message.type # "CR" /\ f.message.dst = ref
             \/ /\ f.to # end /\ (f.message.type = "CR" \/ A!HasSource(f.message))
                /\ f.message.src = ref
    \/ \E q \in DOMAIN otherSection :
          /\ otherSection[q].state \in {"incoming", "established", "releasing"}
          /\ otherSection[q].remote = ref /\ otherRequest[q] = k

(* A reference is free again although something of the connection it       *)
(* carried last still names it.                                            *)
FreedEarly ==
    \/ \E r \in DOMAIN sectionA :
          /\ sectionA[r].state = "idle"
          /\ StillNamed("A", r, requestOfA[r], sectionB, requestOfB)
    \/ \E x \in DOMAIN sectionB :
          /\ sectionB[x].state = "idle"
          /\ StillNamed("B", x, requestOfB[x], sectionA, requestOfA)

(* However short the freeze: nothing reaches a later connection before a   *)
(* reference was freed early.  There is no other way, neither a repeated   *)
(* CR nor a CC or CREF of which only the destination is checked.           *)
StaleOnlyIfFreedEarly == []NothingStale \/ <>FreedEarly

(* Once the user of A makes no more requests and the MTP is left with      *)
(* losing messages, the two ends come to rest: each reference is free, or  *)
(* open with its counterpart open on it.  No request waits for ever, no    *)
(* release goes on, no reference stays frozen, and no end is left half     *)
(* open by a lost confirmation or release, or by a repeated CR: T(ias),    *)
(* T(iar) and the answers to mismatched messages end what is left.         *)
EndsMeet(r, x) ==
    /\ sectionA[r].state = "established" /\ sectionA[r].remote = x
    /\ sectionB[x].state = "established" /\ sectionB[x].remote = r

AtRest ==
    /\ \A r \in DOMAIN sectionA :
          sectionA[r].state = "idle" \/ \E x \in DOMAIN sectionB : EndsMeet(r, x)
    /\ \A x \in DOMAIN sectionB :
          sectionB[x].state = "idle" \/ \E r \in DOMAIN sectionA : EndsMeet(r, x)

ComesToRest == <>[]AtRest

=============================================================================
