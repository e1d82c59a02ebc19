-------------------------- MODULE ConnectionStack --------------------------
(***************************************************************************)
(* The protocol class 2 procedures of one Stack (connection.go,            *)
(* connection_procedures.go, connection_timers.go) with the timers and the *)
(* lock they run under (stack.go).                                         *)
(*                                                                         *)
(* The users and the network are open: a user may call any method at any   *)
(* time, and any well-formed message may arrive from any peer.  Messages   *)
(* lost, repeated, delayed or answering an earlier connection are          *)
(* therefore all among the behaviours.                                     *)
(*                                                                         *)
(* A method reads the clock, waits for the lock, fires what is due (expire)*)
(* and does its own work.  Here Call takes the lock, one Fire step runs    *)
(* each timer that is due, and the method's own step releases the lock.    *)
(* The clock was read before the lock: lag is how old that reading is.     *)
(* Time is relative: a running timer holds the ticks left to its deadline, *)
(* zero or less when it is due.                                            *)
(*                                                                         *)
(* A refused request of a user, a message discarded for its syntax and a   *)
(* connectionless message leave the connections as HandleTimeout does:     *)
(* that action stands for them.                                            *)
(***************************************************************************)
EXTENDS Integers, Sequences, FiniteSets

CONSTANTS
    Peers,                    \* the other ends: (point code, network) pairs
    NoPeer,                   \* "no calling point code" in a CR
    RemoteRefs,               \* references a peer gives its own sections
    NoRef,                    \* remote reference not known yet
    ReferenceLimit,           \* local references are 0 .. ReferenceLimit - 1
    MaxConnections,
    MaxDataLength,
    MaxReassemblyOctets,
    DT1Size,                  \* octets of user data that fit in one DT1
    DataLengths,              \* lengths of the DT1 user data that arrive
    EstablishmentTimeout,     \* T(conn est)
    ReleaseTimeout,           \* T(rel)
    RepeatReleaseTimeout,     \* T(repeat rel)
    ReleaseGiveUpTimeout,     \* T(int)
    InactivitySendTimeout,    \* T(ias)
    InactivityReceiveTimeout, \* T(iar)
    ReferenceFreeze,
    MaxLag,                   \* bound on the age of a clock reading
    MaxLate                   \* bound on how late a due timer is fired

Ref == 0 .. ReferenceLimit - 1

ASSUME NoneAssumption == NoPeer \notin Peers /\ NoRef \notin RemoteRefs

(* initConnections refuses negative values and replaces zero by a default. *)
ASSUME LimitsAssumption ==
    /\ ReferenceLimit \in Nat \ {0}
    /\ MaxConnections \in Nat \ {0}
    /\ MaxDataLength \in Nat \ {0}
    /\ MaxReassemblyOctets \in Nat \ {0}
    /\ DT1Size \in Nat \ {0}
    /\ DataLengths \subseteq Nat \ {0}

ASSUME TimeoutsAssumption ==
    /\ EstablishmentTimeout \in Nat \ {0}
    /\ ReleaseTimeout \in Nat \ {0}
    /\ RepeatReleaseTimeout \in Nat \ {0}
    /\ ReleaseGiveUpTimeout \in Nat \ {0}
    /\ InactivitySendTimeout \in Nat \ {0}
    /\ InactivityReceiveTimeout \in Nat \ {0}
    /\ ReferenceFreeze \in Nat \ {0}
    /\ InactivityReceiveTimeout > InactivitySendTimeout

ASSUME ClockAssumption == MaxLag \in Nat /\ MaxLate \in Nat

VARIABLES
    section,    \* section[r]: Stack.conn.sections, idle when there is none
    timer,      \* timer[r]: ticks left of each running timer of r
    next,       \* conn.next
    active,     \* conn.active
    octets,     \* conn.reassemblyOctets
    locked,     \* a method holds Stack.mu
    lag,        \* age of that method's clock reading
    sent,       \* the transfers the last step handed to the MTP
    user,       \* history: what the primitives so far mean to r's user
    frozenFor   \* history: ticks since a frozen r was released

connVars == <<section, timer, next, active, octets>>
lockVars == <<locked, lag>>
history == <<user, frozenFor>>
vars == <<connVars, lockVars, sent, history>>

-----------------------------------------------------------------------------
(* Sections, timers and messages.                                          *)

States == {"idle", "incoming", "outgoing", "established", "releasing", "frozen"}

Unused == {"idle", "frozen"}

TimerKinds == {"establishment", "release", "repeat", "giveUp",
               "sendInactivity", "receiveInactivity", "freeze"}

(* disconnect is the deferred user disconnect; len and cap are those of    *)
(* the reassembly buffer.                                                  *)
Section == [state: States, peer: Peers \cup {NoPeer}, remote: RemoteRefs \cup {NoRef},
            disconnect: BOOLEAN, len: Nat, cap: Nat]

NewSection(state, peer, remote) ==
    [state |-> state, peer |-> peer, remote |-> remote,
     disconnect |-> FALSE, len |-> 0, cap |-> 0]

NoSection == NewSection("idle", NoPeer, NoRef)

(* A message names the peer it came from or goes to.  Only the fields the  *)
(* procedures look at are kept.                                            *)
CR == [type: {"CR"}, peer: Peers, calling: Peers \cup {NoPeer}, src: RemoteRefs]
CC == [type: {"CC"}, peer: Peers, dst: Ref, src: RemoteRefs, class: {2, 3}]
CREF == [type: {"CREF"}, peer: Peers, dst: Ref]
RLSD == [type: {"RLSD"}, peer: Peers, dst: Ref, src: RemoteRefs]
RLC == [type: {"RLC"}, peer: Peers, dst: Ref, src: RemoteRefs]
IT == [type: {"IT"}, peer: Peers, dst: Ref, src: RemoteRefs, class: {2, 3}]
DT1 == [type: {"DT1"}, peer: Peers, dst: Ref, len: DataLengths, more: BOOLEAN]
ERR == [type: {"ERR"}, peer: Peers, dst: Ref, cause: {"serviceClassMismatch", "other"}]

SectionMessage == CC \cup CREF \cup RLSD \cup RLC \cup IT \cup DT1 \cup ERR

HasSource(m) == m.type \in {"CC", "RLSD", "RLC", "IT"}

CRMessage(peer, r) == [type |-> "CR", peer |-> peer, calling |-> NoPeer, src |-> r]
CCMessage(s, r) == [type |-> "CC", peer |-> s.peer, dst |-> s.remote, src |-> r, class |-> 2]
CREFMessage(peer, remote) == [type |-> "CREF", peer |-> peer, dst |-> remote]
ITMessage(s, r) == [type |-> "IT", peer |-> s.peer, dst |-> s.remote, src |-> r, class |-> 2]
ReleaseMessage(s, r) == [type |-> "RLSD", peer |-> s.peer, dst |-> s.remote, src |-> r]

ReleaseComplete(m) == [type |-> "RLC", peer |-> m.peer, dst |-> m.src, src |-> m.dst]
ErrorReply(m) == [type |-> "ERR", peer |-> m.peer, dst |-> m.src, cause |-> "other"]

(* SendData: every DT1 but the last is full and has the M bit set.         *)
DataMessages(s, n) ==
    LET count == (n + DT1Size - 1) \div DT1Size
    IN [i \in 1 .. count |->
          [type |-> "DT1", peer |-> s.peer, dst |-> s.remote, more |-> i < count,
           len |-> IF i < count THEN DT1Size ELSE n - (count - 1) * DT1Size]]

-----------------------------------------------------------------------------
(* The timer heap.                                                         *)

NoTimers == [k \in {} |-> 0]

Start(running, kind, ticks) ==
    [k \in DOMAIN running \cup {kind} |-> IF k = kind THEN ticks ELSE running[k]]

Stop(running, kinds) == [k \in DOMAIN running \ kinds |-> running[k]]

(* Fault: the list in stopConnectionTimers lacks T(iar).                   *)
StopConnectionTimersButOne(running) == Stop(running, TimerKinds \ {"freeze", "receiveInactivity"})

(* stopConnectionTimers; freezing has no field of its own there.           *)
StopConnectionTimers(running) == Stop(running, TimerKinds \ {"freeze"})

(* Ticks left of a timer that starts d after the clock reading.            *)
After(d) == d - lag

Due(r, k) == k \in DOMAIN timer[r] /\ timer[r][k] <= -lag

Earliest(r, k) ==
    \A q \in Ref : \A j \in DOMAIN timer[q] : timer[r][k] <= timer[q][j]

(* expire has fired everything that is due: the method goes on.            *)
Ready == locked /\ \A r \in Ref : \A k \in DOMAIN timer[r] : ~Due(r, k)

Unlock == locked' = FALSE /\ lag' = 0

(* A fired timer leaves the heap before its callback runs.                 *)
Expired(r, k) == Stop(timer[r], {k})

(* Fault: only T(ias) is started.                                          *)
RunInactivitySendOnly(running) ==
    Start(running, "sendInactivity", After(InactivitySendTimeout))

RunInactivity(running) ==
    Start(Start(running, "sendInactivity", After(InactivitySendTimeout)),
          "receiveInactivity", After(InactivityReceiveTimeout))

-----------------------------------------------------------------------------
(* History: the connection as its user knows it, ITU-T Q.711 Figure 8,     *)
(* followed through the primitives alone.                                  *)

UserStates == {"idle", "calling", "called", "open", "violated"}

AfterPrimitive(u, primitive) ==
    CASE primitive = "connectRequest" /\ u = "idle" -> "calling"
      [] primitive = "connectIndication" /\ u = "idle" -> "called"
      [] primitive = "connectConfirm" /\ u = "calling" -> "open"
      [] primitive = "connectResponse" /\ u = "called" -> "open"
      [] primitive = "data" /\ u = "open" -> "open"
      [] primitive = "disconnect" /\ u \in {"calling", "called", "open"} -> "idle"
      [] OTHER -> "violated"

Primitive(r, primitive) ==
    user' = [user EXCEPT ![r] = AfterPrimitive(user[r], primitive)]

(* Fault: the deferred disconnect is not looked at.                        *)
IndicateAlways(silent, r) == Primitive(r, "disconnect")

(* The indication is given unless the user already let go of r.            *)
IndicateUnless(silent, r) ==
    IF silent THEN UNCHANGED user ELSE Primitive(r, "disconnect")

-----------------------------------------------------------------------------
(* Local references.                                                       *)

(* Fault: frozen references are taken for free ones.                       *)
OccupiedByActive == {r \in Ref : section[r].state \notin Unused}

Occupied == {r \in Ref : section[r].state # "idle"}

FirstProbe == IF next >= ReferenceLimit THEN 0 ELSE next

(* Fault: one probe for each occupied reference and none for a free one.   *)
ProbeLimitShort ==
    LET enough == Cardinality(Occupied)
    IN IF enough < ReferenceLimit THEN enough ELSE ReferenceLimit

ProbeLimit ==
    LET enough == Cardinality(Occupied) + 1
    IN IF enough < ReferenceLimit THEN enough ELSE ReferenceLimit

(* r is what candidateReference returns.                                   *)
CandidateReference(r) ==
    /\ active < MaxConnections
    /\ \E i \in 0 .. ProbeLimit - 1 :
          /\ r = (FirstProbe + i) % ReferenceLimit
          /\ r \notin Occupied
          /\ \A j \in 0 .. i - 1 : (FirstProbe + j) % ReferenceLimit \in Occupied

(* Fault: next counts allocations instead of following the reference.      *)
NextCounted(r) == next + 1

NextAfter(r) == r + 1

Register(r, s) ==
    /\ section' = [section EXCEPT ![r] = s]
    /\ active' = active + 1
    /\ next' = NextAfter(r)
    /\ UNCHANGED octets

-----------------------------------------------------------------------------
(* What several handlers do to a section.                                  *)

(* Fault: the account keeps the octets of a dropped buffer.                *)
OctetsKept(r) == octets

(* dropConnectionReassembly.                                               *)
OctetsWithout(r) == octets - section[r].cap

(* freezeConnection: everything goes but the reference and its peer.       *)
Freeze(r) ==
    /\ section' = [section EXCEPT ![r] = NewSection("frozen", @.peer, @.remote)]
    /\ timer' = [timer EXCEPT ![r] =
                   Start(StopConnectionTimers(@), "freeze", After(ReferenceFreeze))]
    /\ active' = active - 1
    /\ octets' = OctetsWithout(r)
    /\ frozenFor' = [frozenFor EXCEPT ![r] = 0]
    /\ UNCHANGED next

(* beginConnectionRelease of r, with the peer and remote of s.             *)
BeginRelease(r, s, replies) ==
    /\ section' = [section EXCEPT ![r] = NewSection("releasing", s.peer, s.remote)]
    /\ timer' = [timer EXCEPT ![r] =
                   Start(StopConnectionTimers(@), "release", After(ReleaseTimeout))]
    /\ octets' = OctetsWithout(r)
    /\ sent' = Append(replies, ReleaseMessage(s, r))
    /\ UNCHANGED <<next, active, frozenFor>>

(* Fault: a repetition at the very end of T(int).                          *)
NotAfterGiveUp(ticks, running) == ticks <= running["giveUp"]

BeforeGiveUp(ticks, running) == ticks < running["giveUp"]

(* scheduleConnectionRepeat: only when the repetition precedes T(int).     *)
ScheduleRepeat(running) ==
    IF "giveUp" \in DOMAIN running /\ BeforeGiveUp(After(RepeatReleaseTimeout), running)
    THEN Start(running, "repeat", After(RepeatReleaseTimeout))
    ELSE running

-----------------------------------------------------------------------------
Init ==
    /\ section = [r \in Ref |-> NoSection]
    /\ timer = [r \in Ref |-> NoTimers]
    /\ next = 1
    /\ active = 0
    /\ octets = 0
    /\ locked = FALSE
    /\ lag = 0
    /\ sent = <<>>
    /\ user = [r \in Ref |-> "idle"]
    /\ frozenFor = [r \in Ref |-> 0]

(* Time passes; no due timer is left longer than MaxLate.                  *)
Tick ==
    /\ ~locked
    /\ \A r \in Ref : \A k \in DOMAIN timer[r] : timer[r][k] > -MaxLate
    /\ timer' = [r \in Ref |-> [k \in DOMAIN timer[r] |-> timer[r][k] - 1]]
    /\ frozenFor' = [r \in Ref |-> IF section[r].state = "frozen"
                                   THEN frozenFor[r] + 1 ELSE frozenFor[r]]
    /\ UNCHANGED <<section, next, active, octets, lockVars, sent, user>>

Call ==
    /\ ~locked
    /\ locked' = TRUE
    /\ lag' \in 0 .. MaxLag
    /\ sent' = <<>>
    /\ UNCHANGED <<connVars, history>>

-----------------------------------------------------------------------------
(* Timer callbacks, run by expire in deadline order.                       *)

Fires(r, k) == locked /\ Due(r, k) /\ Earliest(r, k) /\ UNCHANGED lockVars

(* T(conn est): the request fails.                                         *)
EstablishmentExpires(r) ==
    /\ Fires(r, "establishment")
    /\ IndicateUnless(section[r].disconnect, r)
    /\ Freeze(r)
    /\ sent' = <<>>

(* T(ias): IT is sent, which restarts T(ias).                              *)
SendInactivityExpires(r) ==
    /\ Fires(r, "sendInactivity")
    /\ sent' = <<ITMessage(section[r], r)>>
    /\ timer' = [timer EXCEPT ![r] = Start(Expired(r, "sendInactivity"), "sendInactivity",
                                           After(InactivitySendTimeout))]
    /\ UNCHANGED <<section, next, active, octets, history>>

(* T(iar): the peer is gone, the connection is released.                   *)
ReceiveInactivityExpires(r) ==
    /\ Fires(r, "receiveInactivity")
    /\ BeginRelease(r, section[r], <<>>)
    /\ Primitive(r, "disconnect")

RepeatRelease(r) == sent' = <<ReleaseMessage(section[r], r)>>

StartGiveUp(running) == Start(running, "giveUp", After(ReleaseGiveUpTimeout))

(* T(rel): RLSD again, and from here on T(int) and T(repeat rel).          *)
ReleaseExpires(r) ==
    /\ Fires(r, "release")
    /\ RepeatRelease(r)
    /\ timer' = [timer EXCEPT ![r] = ScheduleRepeat(StartGiveUp(Expired(r, "release")))]
    /\ UNCHANGED <<section, next, active, octets, history>>

(* T(repeat rel): RLSD again.                                              *)
RepeatExpires(r) ==
    /\ Fires(r, "repeat")
    /\ RepeatRelease(r)
    /\ timer' = [timer EXCEPT ![r] = ScheduleRepeat(Expired(r, "repeat"))]
    /\ UNCHANGED <<section, next, active, octets, history>>

(* T(int): maintenance is told, the user already was.                      *)
GiveUpExpires(r) ==
    /\ Fires(r, "giveUp")
    /\ Freeze(r)
    /\ sent' = <<>>
    /\ UNCHANGED user

(* Fault: the end of the freeze counts the section out a second time.      *)
FreezeExpiresCounting(r) ==
    /\ Fires(r, "freeze")
    /\ section' = [section EXCEPT ![r] = NoSection]
    /\ timer' = [timer EXCEPT ![r] = Expired(r, "freeze")]
    /\ frozenFor' = [frozenFor EXCEPT ![r] = 0]
    /\ active' = active - 1
    /\ sent' = <<>>
    /\ UNCHANGED <<next, octets, user>>

(* The reference may be used again.                                        *)
FreezeExpires(r) ==
    /\ Fires(r, "freeze")
    /\ section' = [section EXCEPT ![r] = NoSection]
    /\ timer' = [timer EXCEPT ![r] = Expired(r, "freeze")]
    /\ frozenFor' = [frozenFor EXCEPT ![r] = 0]
    /\ sent' = <<>>
    /\ UNCHANGED <<next, active, octets, user>>

FireOf(r) ==
    \/ EstablishmentExpires(r)
    \/ SendInactivityExpires(r)
    \/ ReceiveInactivityExpires(r)
    \/ ReleaseExpires(r)
    \/ RepeatExpires(r)
    \/ GiveUpExpires(r)
    \/ FreezeExpires(r)

Fire == \E r \in Ref : FireOf(r)

-----------------------------------------------------------------------------
(* The user's requests.                                                    *)

HandleTimeout ==
    /\ Ready
    /\ Unlock
    /\ sent' = <<>>
    /\ UNCHANGED <<connVars, history>>

Connect(peer) ==
    /\ Ready
    /\ Unlock
    /\ \E r \in Ref :
          /\ CandidateReference(r)
          /\ Register(r, NewSection("outgoing", peer, NoRef))
          /\ timer' = [timer EXCEPT ![r] =
                         Start(@, "establishment", After(EstablishmentTimeout))]
          /\ sent' = <<CRMessage(peer, r)>>
          /\ Primitive(r, "connectRequest")
    /\ UNCHANGED frozenFor

Accept(r) ==
    /\ Ready
    /\ Unlock
    /\ section[r].state = "incoming"
    /\ section' = [section EXCEPT ![r].state = "established"]
    /\ timer' = [timer EXCEPT ![r] = RunInactivity(@)]
    /\ sent' = <<CCMessage(section[r], r)>>
    /\ Primitive(r, "connectResponse")
    /\ UNCHANGED <<next, active, octets, frozenFor>>

SendData(r, n) ==
    /\ Ready
    /\ Unlock
    /\ section[r].state = "established"
    /\ sent' = DataMessages(section[r], n)
    /\ timer' = [timer EXCEPT ![r] =
                   Start(@, "sendInactivity", After(InactivitySendTimeout))]
    /\ Primitive(r, "data")
    /\ UNCHANGED <<section, next, active, octets, frozenFor>>

(* Disconnect of a peer's request refuses it.                              *)
DisconnectIncoming(r) ==
    /\ section[r].state = "incoming"
    /\ Freeze(r)
    /\ sent' = <<CREFMessage(section[r].peer, section[r].remote)>>

(* Disconnect of the user's own request waits for the peer's answer.       *)
DisconnectOutgoing(r) ==
    /\ section[r].state = "outgoing"
    /\ section' = [section EXCEPT ![r].disconnect = TRUE]
    /\ sent' = <<>>
    /\ UNCHANGED <<timer, next, active, octets, frozenFor>>

DisconnectEstablished(r) ==
    /\ section[r].state = "established"
    /\ BeginRelease(r, section[r], <<>>)

(* The user may repeat a deferred disconnect; it already let go of r.      *)
Disconnect(r) ==
    /\ Ready
    /\ Unlock
    /\ IndicateUnless(section[r].disconnect, r)
    /\ \/ DisconnectIncoming(r)
       \/ DisconnectOutgoing(r)
       \/ DisconnectEstablished(r)

-----------------------------------------------------------------------------
(* receiveConnectionRequest, for a CR that is routed to this node.         *)

Originator(m) == IF m.calling = NoPeer THEN m.peer ELSE m.calling

AdmitRequest(m) ==
    /\ \E r \in Ref :
          /\ CandidateReference(r)
          /\ Register(r, NewSection("incoming", Originator(m), m.src))
          /\ Primitive(r, "connectIndication")
    /\ sent' = <<>>
    /\ UNCHANGED <<timer, frozenFor>>

(* No local subsystem for it, or no room: nothing is allocated.            *)
RefuseRequest(m) ==
    /\ sent' = <<CREFMessage(Originator(m), m.src)>>
    /\ UNCHANGED <<connVars, history>>

ReceiveConnectionRequest(m) ==
    /\ Ready
    /\ Unlock
    /\ AdmitRequest(m) \/ RefuseRequest(m)

-----------------------------------------------------------------------------
(* handleConnectionOriented and connectionMismatch.                        *)

(* A reference that is not in use, or is frozen.                           *)
UnassignedReference(m) ==
    /\ section[m.dst].state \in Unused
    /\ sent' = CASE m.type \in {"CC", "IT"} -> <<ErrorReply(m)>>
                 [] m.type = "RLSD" -> <<ReleaseComplete(m)>>
                 [] OTHER -> <<>>
    /\ UNCHANGED <<connVars, history>>

(* CC and CREF may come from anyone, and a request of the user has no      *)
(* associated peer yet.                                                    *)
CheckPeer(m) ==
    section[m.dst].state # "outgoing" /\ m.type \notin {"CC", "CREF"}

Assigned(m) == section[m.dst].state \notin Unused

PointCodeMismatch(m) ==
    Assigned(m) /\ CheckPeer(m) /\ m.peer # section[m.dst].peer

SourceMismatch(m) ==
    /\ Assigned(m) /\ CheckPeer(m) /\ m.peer = section[m.dst].peer
    /\ HasSource(m) /\ m.src # section[m.dst].remote

(* Table B.2 Note 2: the section stays.                                    *)
KeepMismatched(m) ==
    /\ PointCodeMismatch(m) \/ (SourceMismatch(m) /\ m.type # "IT")
    /\ sent' = IF m.type = "RLSD" THEN <<ErrorReply(m)>> ELSE <<>>
    /\ UNCHANGED <<connVars, history>>

(* Table B.2 Note 3: an inconsistent IT releases both the sender's section *)
(* and this one.                                                           *)
ReleaseMismatched(m) ==
    LET r == m.dst
        reply == [type |-> "RLSD", peer |-> m.peer, dst |-> m.src, src |-> r]
    IN  /\ SourceMismatch(m) /\ m.type = "IT"
        /\ \/ /\ section[r].state = "releasing"
              /\ sent' = <<reply, ReleaseMessage(section[r], r)>>
              /\ UNCHANGED <<connVars, history>>
           \/ /\ section[r].state # "releasing"
              /\ BeginRelease(r, section[r], <<reply>>)
              /\ Primitive(r, "disconnect")

(* The message is for the section: dispatchConnectionState.                *)
Matches(m, state) ==
    /\ section[m.dst].state = state
    /\ ~PointCodeMismatch(m)
    /\ ~SourceMismatch(m)

Discard == sent' = <<>> /\ UNCHANGED <<connVars, history>>

-----------------------------------------------------------------------------
(* c2: only the user's answer ends it.                                     *)
ReceiveIncoming(m) == Matches(m, "incoming") /\ Discard

(* Fault: a deferred disconnect is forgotten.                              *)
AlwaysWanted(s) == TRUE

StillWanted(s) == ~s.disconnect

(* Fault: only the point code of the CC is noted.                          *)
AssociatePeer(s, m) == [s EXCEPT !.peer = m.peer]

Associate(s, m) == [s EXCEPT !.peer = m.peer, !.remote = m.src]

(* c3: receiveConnectionSetup for CC ...                                   *)
Confirmed(m) ==
    LET r == m.dst IN
    /\ Matches(m, "outgoing") /\ m.type = "CC" /\ m.class = 2
    /\ StillWanted(section[r])
    /\ section' = [section EXCEPT ![r] = [Associate(@, m) EXCEPT !.state = "established"]]
    /\ timer' = [timer EXCEPT ![r] = RunInactivity(Stop(@, {"establishment"}))]
    /\ sent' = <<>>
    /\ Primitive(r, "connectConfirm")
    /\ UNCHANGED <<next, active, octets, frozenFor>>

(* ... which a deferred disconnect or a class 3 confirmation turns into a  *)
(* release; the deferred disconnect comes first.                           *)
ReleaseOnConfirm(m) ==
    LET r == m.dst IN
    /\ Matches(m, "outgoing") /\ m.type = "CC"
    /\ ~StillWanted(section[r]) \/ m.class = 3
    /\ BeginRelease(r, Associate(section[r], m), <<>>)
    /\ IndicateUnless(section[r].disconnect, r)

(* ... and for CREF; any other message fails the request too.              *)
FailRequest(m) ==
    /\ Matches(m, "outgoing") /\ m.type # "CC"
    /\ sent' = IF m.type = "RLSD" THEN <<ReleaseComplete(m)>> ELSE <<>>
    /\ IndicateUnless(section[m.dst].disconnect, m.dst)
    /\ Freeze(m.dst)

(* c6.                                                                     *)
ReceiveReleasing(m) ==
    /\ Matches(m, "releasing")
    /\ \/ /\ m.type \in {"RLSD", "RLC", "ERR"}
          /\ Freeze(m.dst)
          /\ sent' = <<>>
          /\ UNCHANGED user
       \/ m.type \notin {"RLSD", "RLC", "ERR"} /\ Discard

-----------------------------------------------------------------------------
(* c4: receiveEstablishedConnection.                                       *)

Available == MaxReassemblyOctets - octets

(* Fault: doubled or nothing.                                              *)
Doubled(cap, doubled, length) == doubled

(* Near the bound, grow only to what the data needs.                       *)
Affordable(cap, doubled, length) == IF doubled - cap > Available THEN length ELSE doubled

(* appendConnectionData: a buffer doubles, up to MaxDataLength.            *)
NewCap(s, n) ==
    LET length == s.len + n
        doubled == IF s.cap > MaxDataLength \div 2 THEN MaxDataLength
                   ELSE IF length > 2 * s.cap THEN length ELSE 2 * s.cap
    IN  IF length <= s.cap THEN s.cap ELSE Affordable(s.cap, doubled, length)

WithinLimit(s, n) == n <= MaxDataLength - s.len

WithinBudget(s, n) == NewCap(s, n) - s.cap <= Available

RestartReceive(r) ==
    timer' = [timer EXCEPT ![r] =
                Start(@, "receiveInactivity", After(InactivityReceiveTimeout))]

(* Every message of the section restarts T(iar), the discarded ones too.   *)
DiscardEstablished(m) ==
    /\ m.type \in {"CC", "CREF", "RLC"} \/ (m.type = "IT" /\ m.class = 2)
    /\ RestartReceive(m.dst)
    /\ sent' = <<>>
    /\ UNCHANGED <<section, next, active, octets, history>>

Buffered(s, n) == [s EXCEPT !.len = s.len + n, !.cap = NewCap(s, n)]
Emptied(s) == [s EXCEPT !.len = 0, !.cap = 0]

(* A DT1 is kept; the last one of an NSDU delivers it and drops the buffer.*)
ReceiveData(m) ==
    LET r == m.dst
        s == section[r] IN
    /\ m.type = "DT1" /\ WithinLimit(s, m.len) /\ WithinBudget(s, m.len)
    /\ RestartReceive(r)
    /\ sent' = <<>>
    /\ \/ /\ m.more
          /\ section' = [section EXCEPT ![r] = Buffered(s, m.len)]
          /\ octets' = octets + NewCap(s, m.len) - s.cap
          /\ UNCHANGED user
       \/ /\ ~m.more
          /\ section' = [section EXCEPT ![r] = Emptied(s)]
          /\ octets' = OctetsWithout(r)
          /\ Primitive(r, "data")
    /\ UNCHANGED <<next, active, frozenFor>>

(* Too much data, or a peer in another protocol class.                     *)
ReleaseEstablished(m) ==
    LET s == section[m.dst] IN
    /\ \/ m.type = "DT1" /\ ~(WithinLimit(s, m.len) /\ WithinBudget(s, m.len))
       \/ m.type = "ERR" /\ m.cause = "serviceClassMismatch"
       \/ m.type = "IT" /\ m.class = 3
    /\ BeginRelease(m.dst, s, <<>>)
    /\ Primitive(m.dst, "disconnect")

(* The peer released the connection, or reports an error.                  *)
EndEstablished(m) ==
    /\ m.type = "RLSD" \/ (m.type = "ERR" /\ m.cause # "serviceClassMismatch")
    /\ sent' = IF m.type = "RLSD" THEN <<ReleaseComplete(m)>> ELSE <<>>
    /\ Primitive(m.dst, "disconnect")
    /\ Freeze(m.dst)

ReceiveEstablished(m) ==
    /\ Matches(m, "established")
    /\ \/ DiscardEstablished(m)
       \/ ReceiveData(m)
       \/ ReleaseEstablished(m)
       \/ EndEstablished(m)

ReceiveSectionMessage(m) ==
    /\ Ready
    /\ Unlock
    /\ \/ UnassignedReference(m)
       \/ KeepMismatched(m)
       \/ ReleaseMismatched(m)
       \/ ReceiveIncoming(m)
       \/ Confirmed(m)
       \/ ReleaseOnConfirm(m)
       \/ FailRequest(m)
       \/ ReceiveReleasing(m)
       \/ ReceiveEstablished(m)

-----------------------------------------------------------------------------
UserRequest ==
    \/ \E peer \in Peers : Connect(peer)
    \/ \E r \in Ref : Accept(r) \/ Disconnect(r)
    \/ \E r \in Ref, n \in 1 .. MaxDataLength : SendData(r, n)

HandleTransfer ==
    \/ \E m \in CR : ReceiveConnectionRequest(m)
    \/ \E m \in SectionMessage : ReceiveSectionMessage(m)

Next == Tick \/ Call \/ Fire \/ HandleTimeout \/ UserRequest \/ HandleTransfer

Spec == Init /\ [][Next]_vars

=============================================================================
