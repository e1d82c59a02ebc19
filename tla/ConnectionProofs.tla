-------------------------- MODULE ConnectionProofs --------------------------
(***************************************************************************)
(* Proofs, for every value of the constants, about ConnectionStack.        *)
(***************************************************************************)
EXTENDS ConnectionProperties, FiniteSetTheorems, SequenceTheorems, SetProofs, TLAPS

(* TypeOK, with the sets of its functions named.                           *)
RunningTimers == UNION {[K -> Int] : K \in SUBSET TimerKinds}

Typed ==
    /\ section \in [Ref -> Section]
    /\ timer \in [Ref -> RunningTimers]
    /\ next \in 0 .. ReferenceLimit
    /\ active \in Int
    /\ octets \in Int
    /\ locked \in BOOLEAN
    /\ lag \in 0 .. MaxLag
    /\ user \in [Ref -> UserStates]
    /\ frozenFor \in [Ref -> Nat]

LEMMA TypedIsTypeOK == TypeOK <=> Typed
<1>1. ASSUME TypeOK PROVE Typed
  <2>1. \A r \in Ref : timer[r] \in RunningTimers
    BY <1>1 DEF TypeOK, RunningTimers
  <2>2. timer \in [Ref -> RunningTimers] BY <1>1, <2>1 DEF TypeOK
  <2> QED BY <1>1, <2>2 DEF TypeOK, Typed
<1>2. ASSUME Typed PROVE TypeOK
  <2>1. ASSUME NEW r \in Ref
        PROVE  DOMAIN timer[r] \subseteq TimerKinds /\ timer[r] \in [DOMAIN timer[r] -> Int]
    <3>1. PICK K \in SUBSET TimerKinds : timer[r] \in [K -> Int]
      BY <1>2 DEF Typed, RunningTimers
    <3> QED BY <3>1
  <2> QED BY <1>2, <2>1 DEF Typed, TypeOK
<1> QED BY <1>1, <1>2

(* The fields a handler may read of a message it was given.                *)
LEMMA MessageFields ==
    ASSUME NEW m \in SectionMessage
    PROVE  /\ m.dst \in Ref /\ m.peer \in Peers
           /\ m.type \in {"CC", "CREF", "RLSD", "RLC", "IT", "DT1", "ERR"}
           /\ HasSource(m) => m.src \in RemoteRefs
           /\ m.type = "DT1" => m.len \in DataLengths /\ m.more \in BOOLEAN
<1>1. CASE m \in CC   BY <1>1 DEF CC, HasSource
<1>2. CASE m \in CREF BY <1>2 DEF CREF, HasSource
<1>3. CASE m \in RLSD BY <1>3 DEF RLSD, HasSource
<1>4. CASE m \in RLC  BY <1>4 DEF RLC, HasSource
<1>5. CASE m \in IT   BY <1>5 DEF IT, HasSource
<1>6. CASE m \in DT1  BY <1>6 DEF DT1, HasSource
<1>7. CASE m \in ERR  BY <1>7 DEF ERR, HasSource
<1> QED BY <1>1, <1>2, <1>3, <1>4, <1>5, <1>6, <1>7 DEF SectionMessage

LEMMA NewSectionType ==
    ASSUME NEW state \in States, NEW peer \in Peers \cup {NoPeer},
           NEW remote \in RemoteRefs \cup {NoRef}
    PROVE  NewSection(state, peer, remote) \in Section
BY DEF NewSection, Section

LEMMA InitTyped == Init => Typed
BY LimitsAssumption, ClockAssumption, NewSectionType
   DEF Init, Typed, NoSection, NoTimers, UserStates, States, Ref, RunningTimers

LEMMA StartType ==
    ASSUME NEW running \in RunningTimers, NEW k \in TimerKinds, NEW d \in Int
    PROVE  Start(running, k, d) \in RunningTimers
<1>1. PICK K \in SUBSET TimerKinds : running \in [K -> Int] BY DEF RunningTimers
<1>2. Start(running, k, d) \in [K \cup {k} -> Int] BY <1>1 DEF Start
<1> QED BY <1>2 DEF RunningTimers

LEMMA StopType ==
    ASSUME NEW running \in RunningTimers, NEW S
    PROVE  Stop(running, S) \in RunningTimers
<1>1. PICK K \in SUBSET TimerKinds : running \in [K -> Int] BY DEF RunningTimers
<1>2. Stop(running, S) \in [K \ S -> Int] BY <1>1 DEF Stop
<1> QED BY <1>2 DEF RunningTimers

LEMMA AfterType ==
    ASSUME Typed
    PROVE  /\ After(EstablishmentTimeout) \in Int
           /\ After(ReleaseTimeout) \in Int
           /\ After(RepeatReleaseTimeout) \in Int
           /\ After(ReleaseGiveUpTimeout) \in Int
           /\ After(InactivitySendTimeout) \in Int
           /\ After(InactivityReceiveTimeout) \in Int
           /\ After(ReferenceFreeze) \in Int
BY TimeoutsAssumption, ClockAssumption DEF Typed, After

LEMMA ScheduleRepeatType ==
    ASSUME Typed, NEW running \in RunningTimers
    PROVE  ScheduleRepeat(running) \in RunningTimers
<1>1. Start(running, "repeat", After(RepeatReleaseTimeout)) \in RunningTimers
  BY StartType, AfterType DEF TimerKinds
<1> QED BY <1>1 DEF ScheduleRepeat

LEMMA RunInactivityType ==
    ASSUME Typed, NEW running \in RunningTimers
    PROVE  RunInactivity(running) \in RunningTimers
<1>1. Start(running, "sendInactivity", After(InactivitySendTimeout)) \in RunningTimers
  BY StartType, AfterType DEF TimerKinds
<1>2. Start(Start(running, "sendInactivity", After(InactivitySendTimeout)),
            "receiveInactivity", After(InactivityReceiveTimeout)) \in RunningTimers
  BY <1>1, StartType, AfterType DEF TimerKinds
<1> QED BY <1>2 DEF RunInactivity

LEMMA FreezeType ==
    ASSUME Typed, NEW r \in Ref, Freeze(r)
    PROVE  /\ section' \in [Ref -> Section]
           /\ timer' \in [Ref -> RunningTimers]
           /\ next' \in 0 .. ReferenceLimit
           /\ active' \in Int
           /\ octets' \in Int
           /\ frozenFor' \in [Ref -> Nat]
<1>1. section' \in [Ref -> Section] BY NewSectionType DEF Typed, Freeze, Section, States
<1>2. timer' \in [Ref -> RunningTimers]
  <2>1. StopConnectionTimers(timer[r]) \in RunningTimers
    BY StopType DEF Typed, StopConnectionTimers
  <2>2. Start(StopConnectionTimers(timer[r]), "freeze", After(ReferenceFreeze)) \in RunningTimers
    BY <2>1, StartType, AfterType DEF TimerKinds
  <2> QED BY <2>2 DEF Typed, Freeze
<1> QED BY <1>1, <1>2 DEF Typed, Freeze, OctetsWithout, Section

LEMMA BeginReleaseType ==
    ASSUME Typed, NEW r \in Ref, NEW s \in Section, NEW replies, BeginRelease(r, s, replies)
    PROVE  /\ section' \in [Ref -> Section]
           /\ timer' \in [Ref -> RunningTimers]
           /\ next' \in 0 .. ReferenceLimit
           /\ active' \in Int
           /\ octets' \in Int
           /\ frozenFor' \in [Ref -> Nat]
<1>1. section' \in [Ref -> Section] BY NewSectionType DEF Typed, BeginRelease, Section, States
<1>2. timer' \in [Ref -> RunningTimers]
  <2>1. StopConnectionTimers(timer[r]) \in RunningTimers
    BY StopType DEF Typed, StopConnectionTimers
  <2>2. Start(StopConnectionTimers(timer[r]), "release", After(ReleaseTimeout)) \in RunningTimers
    BY <2>1, StartType, AfterType DEF TimerKinds
  <2> QED BY <2>2 DEF Typed, BeginRelease
<1> QED BY <1>1, <1>2 DEF Typed, BeginRelease, OctetsWithout, Section

LEMMA PrimitiveType ==
    ASSUME Typed, NEW r \in Ref, NEW p, Primitive(r, p)
    PROVE  user' \in [Ref -> UserStates]
BY DEF Typed, Primitive, AfterPrimitive, UserStates

LEMMA IndicateType ==
    ASSUME Typed, NEW r \in Ref, NEW silent \in BOOLEAN, IndicateUnless(silent, r)
    PROVE  user' \in [Ref -> UserStates]
BY PrimitiveType DEF Typed, IndicateUnless

LEMMA UnlockType == Unlock => locked' \in BOOLEAN /\ lag' \in 0 .. MaxLag
<1> SUFFICES ASSUME Unlock PROVE locked' \in BOOLEAN /\ lag' \in 0 .. MaxLag OBVIOUS
<1>1. locked' \in BOOLEAN BY DEF Unlock
<1>2. lag' \in 0 .. MaxLag BY ClockAssumption DEF Unlock
<1> QED BY <1>1, <1>2

LEMMA NewCapType ==
    ASSUME NEW s \in Section, NEW n \in Nat
    PROVE  NewCap(s, n) \in Nat
<1> DEFINE length == s.len + n
           doubled == IF s.cap > MaxDataLength \div 2 THEN MaxDataLength
                      ELSE IF length > 2 * s.cap THEN length ELSE 2 * s.cap
<1>1. s.len \in Nat /\ s.cap \in Nat /\ length \in Nat BY DEF Section
<1>2. 2 * s.cap \in Nat BY <1>1
<1>3. doubled \in Nat BY <1>1, <1>2, LimitsAssumption
<1>4. Affordable(s.cap, doubled, length) \in Nat BY <1>1, <1>3 DEF Affordable
<1> QED BY <1>1, <1>4 DEF NewCap

LEMMA BufferType ==
    ASSUME NEW s \in Section, NEW length \in Nat, NEW capacity \in Nat
    PROVE  [s EXCEPT !.len = length, !.cap = capacity] \in Section
BY DEF Section

LEMMA TypedStep == Typed /\ [Next]_vars => Typed'
<1> SUFFICES ASSUME Typed, [Next]_vars PROVE Typed' OBVIOUS
<1>1. CASE Tick
  <2>1. timer' \in [Ref -> RunningTimers]
    <3>1. ASSUME NEW r \in Ref
          PROVE  [k \in DOMAIN timer[r] |-> timer[r][k] - 1] \in RunningTimers
      <4>1. PICK K \in SUBSET TimerKinds : timer[r] \in [K -> Int] BY DEF Typed, RunningTimers
      <4>2. [k \in DOMAIN timer[r] |-> timer[r][k] - 1] \in [K -> Int] BY <4>1
      <4> QED BY <4>2 DEF RunningTimers
    <3> QED BY <1>1, <3>1 DEF Tick
  <2>2. frozenFor' \in [Ref -> Nat] BY <1>1 DEF Tick, Typed
  <2> QED BY <1>1, <2>1, <2>2 DEF Tick, Typed, lockVars
<1>2. CASE Call BY <1>2 DEF Call, Typed, connVars, history
<1>3. ASSUME NEW r \in Ref, EstablishmentExpires(r) PROVE Typed'
  <2>1. section[r].disconnect \in BOOLEAN BY DEF Typed, Section
  <2> QED BY <1>3, <2>1, FreezeType, IndicateType
          DEF EstablishmentExpires, Fires, Typed, lockVars
<1>4. ASSUME NEW r \in Ref, SendInactivityExpires(r) PROVE Typed'
  <2>1. Expired(r, "sendInactivity") \in RunningTimers BY StopType DEF Expired, Typed
  <2>2. Start(Expired(r, "sendInactivity"), "sendInactivity", After(InactivitySendTimeout))
          \in RunningTimers
    BY <2>1, StartType, AfterType DEF TimerKinds
  <2> QED BY <1>4, <2>2 DEF SendInactivityExpires, Fires, Typed, lockVars, history
<1>5. ASSUME NEW r \in Ref, ReceiveInactivityExpires(r) PROVE Typed'
  <2>1. section[r] \in Section BY DEF Typed
  <2> QED BY <1>5, <2>1, BeginReleaseType, PrimitiveType
          DEF ReceiveInactivityExpires, Fires, Typed, lockVars
<1>6. ASSUME NEW r \in Ref, ReleaseExpires(r) PROVE Typed'
  <2>1. Expired(r, "release") \in RunningTimers BY StopType DEF Expired, Typed
  <2>2. StartGiveUp(Expired(r, "release")) \in RunningTimers
    BY <2>1, StartType, AfterType DEF TimerKinds, StartGiveUp
  <2>3. ScheduleRepeat(StartGiveUp(Expired(r, "release"))) \in RunningTimers
    BY <2>2, ScheduleRepeatType
  <2> QED BY <1>6, <2>3 DEF ReleaseExpires, Fires, Typed, lockVars, history
<1>7. ASSUME NEW r \in Ref, RepeatExpires(r) PROVE Typed'
  <2>1. Expired(r, "repeat") \in RunningTimers BY StopType DEF Expired, Typed
  <2>2. ScheduleRepeat(Expired(r, "repeat")) \in RunningTimers BY <2>1, ScheduleRepeatType
  <2> QED BY <1>7, <2>2 DEF RepeatExpires, Fires, Typed, lockVars, history
<1>8. ASSUME NEW r \in Ref, GiveUpExpires(r) PROVE Typed'
  BY <1>8, FreezeType DEF GiveUpExpires, Fires, Typed, lockVars
<1>9. ASSUME NEW r \in Ref, FreezeExpires(r) PROVE Typed'
  <2>1. Expired(r, "freeze") \in RunningTimers BY StopType DEF Expired, Typed
  <2>2. NoSection \in Section BY NewSectionType DEF NoSection, States
  <2> QED BY <1>9, <2>1, <2>2 DEF FreezeExpires, Fires, Typed, lockVars
<1>10. CASE HandleTimeout BY <1>10, UnlockType DEF HandleTimeout, Typed, connVars, history
<1>11. ASSUME NEW peer \in Peers, Connect(peer) PROVE Typed'
  <2>1. PICK r \in Ref :
          /\ Register(r, NewSection("outgoing", peer, NoRef))
          /\ timer' = [timer EXCEPT ![r] =
                         Start(@, "establishment", After(EstablishmentTimeout))]
          /\ Primitive(r, "connectRequest")
    BY <1>11 DEF Connect
  <2>2. Start(timer[r], "establishment", After(EstablishmentTimeout)) \in RunningTimers
    BY StartType, AfterType DEF Typed, TimerKinds
  <2>3. NewSection("outgoing", peer, NoRef) \in Section BY NewSectionType DEF States
  <2>4. /\ section' \in [Ref -> Section] /\ active' \in Int /\ next' \in 0 .. ReferenceLimit
        /\ octets' \in Int
    BY <2>1, <2>3, LimitsAssumption DEF Typed, Register, NextAfter, Ref
  <2> QED BY <1>11, <2>1, <2>2, <2>4, UnlockType, PrimitiveType DEF Connect, Typed
<1>12. ASSUME NEW r \in Ref, Accept(r) PROVE Typed'
  <2>1. RunInactivity(timer[r]) \in RunningTimers BY RunInactivityType DEF Typed
  <2>2. section' \in [Ref -> Section] BY <1>12 DEF Accept, Typed, Section, States
  <2> QED BY <1>12, <2>1, <2>2, UnlockType, PrimitiveType DEF Accept, Typed
<1>13. ASSUME NEW r \in Ref, NEW n \in 1 .. MaxDataLength, SendData(r, n) PROVE Typed'
  <2>1. Start(timer[r], "sendInactivity", After(InactivitySendTimeout)) \in RunningTimers
    BY StartType, AfterType DEF Typed, TimerKinds
  <2> QED BY <1>13, <2>1, UnlockType, PrimitiveType DEF SendData, Typed
<1>14. ASSUME NEW r \in Ref, Disconnect(r) PROVE Typed'
  <2>1. section[r] \in Section /\ section[r].disconnect \in BOOLEAN BY DEF Typed, Section
  <2>2. CASE DisconnectIncoming(r)
    BY <1>14, <2>1, <2>2, UnlockType, FreezeType, IndicateType
    DEF Disconnect, DisconnectIncoming, Typed
  <2>3. CASE DisconnectOutgoing(r)
    <3>1. section' \in [Ref -> Section] BY <2>3 DEF DisconnectOutgoing, Typed, Section
    <3> QED BY <1>14, <2>1, <2>3, <3>1, UnlockType, IndicateType
            DEF Disconnect, DisconnectOutgoing, Typed
  <2>4. CASE DisconnectEstablished(r)
    BY <1>14, <2>1, <2>4, UnlockType, BeginReleaseType, IndicateType
    DEF Disconnect, DisconnectEstablished, Typed
  <2> QED BY <1>14, <2>2, <2>3, <2>4 DEF Disconnect
<1>15. ASSUME NEW m \in CR, ReceiveConnectionRequest(m) PROVE Typed'
  <2>1. CASE AdmitRequest(m)
    <3>1. PICK r \in Ref :
            /\ Register(r, NewSection("incoming", Originator(m), m.src))
            /\ Primitive(r, "connectIndication")
      BY <2>1 DEF AdmitRequest
    <3>2. NewSection("incoming", Originator(m), m.src) \in Section
      BY NewSectionType DEF States, CR, Originator
    <3>3. /\ section' \in [Ref -> Section] /\ active' \in Int /\ next' \in 0 .. ReferenceLimit
          /\ octets' \in Int
      BY <3>1, <3>2, LimitsAssumption DEF Typed, Register, NextAfter, Ref
    <3> QED BY <1>15, <2>1, <3>1, <3>3, UnlockType, PrimitiveType
            DEF ReceiveConnectionRequest, AdmitRequest, Typed
  <2>2. CASE RefuseRequest(m)
    BY <1>15, <2>2, UnlockType
    DEF ReceiveConnectionRequest, RefuseRequest, Typed, connVars, history
  <2> QED BY <1>15, <2>1, <2>2 DEF ReceiveConnectionRequest
<1>16. ASSUME NEW m \in SectionMessage, ReceiveSectionMessage(m) PROVE Typed'
  <2>l. locked' \in BOOLEAN /\ lag' \in 0 .. MaxLag BY <1>16, UnlockType DEF ReceiveSectionMessage
  <2>m. /\ m.dst \in Ref /\ m.peer \in Peers /\ section[m.dst] \in Section
        /\ HasSource(m) => m.src \in RemoteRefs
        /\ m.type = "DT1" => m.len \in Nat
    BY MessageFields, LimitsAssumption DEF Typed
  <2>d. section[m.dst].disconnect \in BOOLEAN BY <2>m DEF Section
  <2>u. ASSUME UNCHANGED <<connVars, history>> PROVE Typed'
    BY <2>l, <2>u DEF Typed, connVars, history
  <2>1. CASE UnassignedReference(m) BY <2>1, <2>u DEF UnassignedReference
  <2>2. CASE KeepMismatched(m) BY <2>2, <2>u DEF KeepMismatched
  <2>3. CASE ReleaseMismatched(m)
    BY <2>l, <2>m, <2>3, <2>u, BeginReleaseType, PrimitiveType DEF ReleaseMismatched, Typed
  <2>4. CASE ReceiveIncoming(m) BY <2>4, <2>u DEF ReceiveIncoming, Discard
  <2>5. CASE Confirmed(m)
    <3>1. Stop(timer[m.dst], {"establishment"}) \in RunningTimers BY <2>m, StopType DEF Typed
    <3>2. RunInactivity(Stop(timer[m.dst], {"establishment"})) \in RunningTimers
      BY <3>1, RunInactivityType
    <3>3. [Associate(section[m.dst], m) EXCEPT !.state = "established"] \in Section
      BY <2>m, <2>5 DEF Confirmed, Associate, HasSource, Section, States
    <3>4. section' \in [Ref -> Section] /\ timer' \in [Ref -> RunningTimers]
      BY <2>5, <3>2, <3>3 DEF Confirmed, Typed
    <3> QED BY <2>l, <2>m, <2>5, <3>4, PrimitiveType DEF Confirmed, Typed
  <2>6. CASE ReleaseOnConfirm(m)
    <3>1. Associate(section[m.dst], m) \in Section
      BY <2>m, <2>6 DEF Associate, Section, HasSource, ReleaseOnConfirm
    <3> QED BY <2>l, <2>m, <2>d, <2>6, <3>1, BeginReleaseType, IndicateType
            DEF ReleaseOnConfirm, Typed
  <2>7. CASE FailRequest(m)
    BY <2>l, <2>m, <2>d, <2>7, FreezeType, IndicateType DEF FailRequest, Typed
  <2>8. CASE ReceiveReleasing(m)
    BY <2>l, <2>m, <2>8, <2>u, FreezeType DEF ReceiveReleasing, Discard, Typed
  <2>9. CASE ReceiveEstablished(m)
    <3>t. Start(timer[m.dst], "receiveInactivity", After(InactivityReceiveTimeout)) \in RunningTimers
      BY <2>m, StartType, AfterType DEF Typed, TimerKinds
    <3>1. CASE DiscardEstablished(m)
      BY <2>l, <2>m, <3>t, <3>1 DEF DiscardEstablished, RestartReceive, Typed, history
    <3>2. CASE ReceiveData(m)
      <4>1. /\ section[m.dst].len \in Nat /\ section[m.dst].cap \in Nat /\ m.len \in Nat
            /\ m.more \in BOOLEAN
        BY <2>m, <3>2, MessageFields DEF Section, ReceiveData
      <4>2. NewCap(section[m.dst], m.len) \in Nat
        BY <2>m, <4>1, NewCapType
      <4>3. section' \in [Ref -> Section] /\ octets' \in Int
        <5>1. Buffered(section[m.dst], m.len) \in Section /\ Emptied(section[m.dst]) \in Section
          <6>1. section[m.dst].len + m.len \in Nat /\ 0 \in Nat BY <4>1
          <6>2. Buffered(section[m.dst], m.len) \in Section
            BY <2>m, <4>2, <6>1, BufferType DEF Buffered
          <6>3. Emptied(section[m.dst]) \in Section BY <2>m, <6>1, BufferType DEF Emptied
          <6> QED BY <6>2, <6>3
        <5>2. \/ section' = [section EXCEPT ![m.dst] = Buffered(section[m.dst], m.len)]
              \/ section' = [section EXCEPT ![m.dst] = Emptied(section[m.dst])]
          BY <3>2 DEF ReceiveData
        <5>3. octets' \in Int BY <3>2, <4>1, <4>2 DEF ReceiveData, OctetsWithout, Typed
        <5> QED BY <2>m, <5>1, <5>2, <5>3 DEF Typed
      <4>4. user' \in [Ref -> UserStates]
        BY <2>m, <3>2, PrimitiveType DEF ReceiveData, Typed
      <4> QED BY <2>l, <2>m, <3>t, <3>2, <4>3, <4>4 DEF ReceiveData, RestartReceive, Typed
    <3>3. CASE ReleaseEstablished(m)
      BY <2>l, <2>m, <3>3, BeginReleaseType, PrimitiveType DEF ReleaseEstablished, Typed
    <3>4. CASE EndEstablished(m)
      BY <2>l, <2>m, <3>4, FreezeType, PrimitiveType DEF EndEstablished, Typed
    <3> QED BY <2>9, <3>1, <3>2, <3>3, <3>4 DEF ReceiveEstablished
  <2> QED BY <1>16, <2>1, <2>2, <2>3, <2>4, <2>5, <2>6, <2>7, <2>8, <2>9 DEF ReceiveSectionMessage
<1>17. CASE UNCHANGED vars BY <1>17 DEF vars, connVars, lockVars, history, Typed
<1> QED BY <1>1, <1>2, <1>3, <1>4, <1>5, <1>6, <1>7, <1>8, <1>9, <1>10, <1>11, <1>12, <1>13,
           <1>14, <1>15, <1>16, <1>17
    DEF Next, Fire, FireOf, UserRequest, HandleTransfer

(* Every state the stack reaches has the shape of Typed.                  *)
THEOREM TypeCorrect == Spec => []TypeOK
<1>1. Init => Typed BY InitTyped
<1>2. Typed /\ [Next]_vars => Typed' BY TypedStep
<1>3. Typed => TypeOK BY TypedIsTypeOK
<1> QED BY <1>1, <1>2, <1>3, PTL DEF Spec

-----------------------------------------------------------------------------
(* The invariant speaks of one reference at a time.                        *)

Good(r) ==
    /\ DOMAIN timer[r] \in TimersOf(section[r].state)
    /\ user[r] = UserView(section[r])
    /\ "repeat" \in DOMAIN timer[r] =>
           "giveUp" \in DOMAIN timer[r] /\ timer[r]["repeat"] < timer[r]["giveUp"]
    /\ section[r].state = "frozen" =>
           frozenFor[r] + timer[r]["freeze"] \in ReferenceFreeze - MaxLag .. ReferenceFreeze
    /\ SectionShaped(section[r])

LEMMA InvIsGood == Inv <=> (Typed /\ \A r \in Ref : Good(r))
BY TypedIsTypeOK DEF Inv, Good, TimersMatchState, UserAgrees, RepeatWithinGiveUp, FreezeTimed, SectionsShaped

LEMMA TimersOfStates ==
    /\ TimersOf("idle") = {{}}
    /\ TimersOf("incoming") = {{}}
    /\ TimersOf("outgoing") = {{"establishment"}}
    /\ TimersOf("established") = {{"sendInactivity", "receiveInactivity"}}
    /\ TimersOf("releasing") = {{"release"}, {"giveUp"}, {"giveUp", "repeat"}}
    /\ TimersOf("frozen") = {{"freeze"}}
BY DEF TimersOf

LEMMA UserViews ==
    ASSUME NEW s
    PROVE  /\ s.state = "incoming" => UserView(s) = "called"
           /\ s.state = "outgoing" /\ ~s.disconnect => UserView(s) = "calling"
           /\ s.state = "outgoing" /\ s.disconnect => UserView(s) = "idle"
           /\ s.state = "established" => UserView(s) = "open"
           /\ s.state \in {"idle", "releasing", "frozen"} => UserView(s) = "idle"
BY DEF UserView

LEMMA InitGood == Init => \A r \in Ref : Good(r)
<1> SUFFICES ASSUME Init, NEW r \in Ref PROVE Good(r) OBVIOUS
<1>1. section[r] = NoSection /\ timer[r] = NoTimers /\ user[r] = "idle" BY DEF Init
<1>2. NoSection.state = "idle" /\ NoSection.disconnect = FALSE BY DEF NoSection, NewSection
<1>3. DOMAIN NoTimers = {} BY DEF NoTimers
<1> QED BY <1>1, <1>2, <1>3, TimersOfStates, UserViews DEF Good, SectionShaped

(* A section that loses everything but its reference.                      *)
LEMMA FreezeGood ==
    ASSUME Typed, \A q \in Ref : Good(q), NEW r \in Ref, Freeze(r),
           user' = [user EXCEPT ![r] = "idle"]
    PROVE  \A q \in Ref : Good(q)'
<1> SUFFICES ASSUME NEW q \in Ref PROVE Good(q)' OBVIOUS
<1>1. CASE q # r
  <2>1. /\ section'[q] = section[q] /\ timer'[q] = timer[q] /\ user'[q] = user[q]
        /\ frozenFor'[q] = frozenFor[q]
    BY <1>1 DEF Freeze, Typed
  <2> QED BY <2>1 DEF Good
<1>2. CASE q = r
  <2>1. /\ section'[q].state = "frozen" /\ section'[q].disconnect = FALSE
        /\ user'[q] = "idle" /\ frozenFor'[q] = 0
    BY <1>2 DEF Freeze, Typed, NewSection
  <2>2. timer'[q] = Start(StopConnectionTimers(timer[q]), "freeze", After(ReferenceFreeze))
    BY <1>2 DEF Freeze, Typed
  <2>3. DOMAIN timer[q] \subseteq TimerKinds BY DEF Typed, RunningTimers
  <2>4. DOMAIN timer'[q] = {"freeze"} /\ timer'[q]["freeze"] = After(ReferenceFreeze)
    BY <2>2, <2>3 DEF Start, StopConnectionTimers, Stop
  <2>5. 0 + After(ReferenceFreeze) \in ReferenceFreeze - MaxLag .. ReferenceFreeze
    BY TimeoutsAssumption, ClockAssumption DEF Typed, After
  <2> QED BY <2>1, <2>4, <2>5, TimersOfStates, UserViews DEF Good, SectionShaped
<1> QED BY <1>1, <1>2

(* A section whose release begins.                                         *)
LEMMA BeginReleaseGood ==
    ASSUME Typed, \A q \in Ref : Good(q), NEW r \in Ref, NEW s, NEW replies,
           BeginRelease(r, s, replies), s.peer \in Peers, s.remote \in RemoteRefs,
           section[r].state # "frozen", user' = [user EXCEPT ![r] = "idle"]
    PROVE  \A q \in Ref : Good(q)'
<1> SUFFICES ASSUME NEW q \in Ref PROVE Good(q)' OBVIOUS
<1>1. CASE q # r
  <2>1. /\ section'[q] = section[q] /\ timer'[q] = timer[q] /\ user'[q] = user[q]
        /\ frozenFor'[q] = frozenFor[q]
    BY <1>1 DEF BeginRelease, Typed
  <2> QED BY <2>1 DEF Good
<1>2. CASE q = r
  <2>1. /\ section'[q].state = "releasing" /\ section'[q].disconnect = FALSE
        /\ section'[q].peer = s.peer /\ section'[q].remote = s.remote
        /\ user'[q] = "idle"
    BY <1>2 DEF BeginRelease, Typed, NewSection
  <2>2. timer'[q] = Start(StopConnectionTimers(timer[q]), "release", After(ReleaseTimeout))
    BY <1>2 DEF BeginRelease, Typed
  <2>3. DOMAIN timer[q] \subseteq TimerKinds /\ section[q].state \in States
    BY DEF Typed, RunningTimers, Section
  <2>4. "freeze" \notin DOMAIN timer[q]
    BY <1>2, <2>3, TimersOfStates DEF Good, States
  <2>5. DOMAIN timer'[q] = {"release"}
    BY <2>2, <2>3, <2>4 DEF Start, StopConnectionTimers, Stop
  <2> QED BY <2>1, <2>5, TimersOfStates, UserViews DEF Good, SectionShaped
<1> QED BY <1>1, <1>2

(* The indication, or its absence, leaves the user without a connection.   *)
LEMMA IndicateIdle ==
    ASSUME Typed, NEW r \in Ref, Good(r),
           section[r].state \in {"incoming", "outgoing", "established"},
           IndicateUnless(section[r].disconnect, r)
    PROVE  user' = [user EXCEPT ![r] = "idle"]
<1>1. CASE section[r].disconnect
  <2>1. section[r].state = "outgoing" /\ user[r] = "idle"
    BY <1>1, UserViews DEF Good, SectionShaped
  <2>2. user' = user BY <1>1 DEF IndicateUnless
  <2> QED BY <2>1, <2>2 DEF Typed
<1>2. CASE ~section[r].disconnect
  <2>1. user[r] \in {"called", "calling", "open"} BY <1>2, UserViews DEF Good
  <2>2. AfterPrimitive(user[r], "disconnect") = "idle" BY <2>1 DEF AfterPrimitive
  <2>3. Primitive(r, "disconnect") BY <1>2 DEF IndicateUnless
  <2> QED BY <2>2, <2>3 DEF Primitive
<1> QED BY <1>1, <1>2

LEMMA DisconnectIdle ==
    ASSUME Typed, NEW r \in Ref, Good(r),
           section[r].state \in {"incoming", "outgoing", "established"},
           ~section[r].disconnect, Primitive(r, "disconnect")
    PROVE  user' = [user EXCEPT ![r] = "idle"]
BY IndicateIdle DEF IndicateUnless

(* A timer that runs tells the state.                                      *)
LEMMA TimerTellsState ==
    ASSUME Typed, NEW r \in Ref, Good(r)
    PROVE  /\ "establishment" \in DOMAIN timer[r] => section[r].state = "outgoing"
           /\ "sendInactivity" \in DOMAIN timer[r] => section[r].state = "established"
           /\ "receiveInactivity" \in DOMAIN timer[r] => section[r].state = "established"
           /\ "release" \in DOMAIN timer[r] =>
                section[r].state = "releasing" /\ DOMAIN timer[r] = {"release"}
           /\ "repeat" \in DOMAIN timer[r] =>
                section[r].state = "releasing" /\ DOMAIN timer[r] = {"giveUp", "repeat"}
           /\ "giveUp" \in DOMAIN timer[r] => section[r].state = "releasing"
           /\ "freeze" \in DOMAIN timer[r] =>
                section[r].state = "frozen" /\ DOMAIN timer[r] = {"freeze"}
<1>1. section[r].state \in States BY DEF Typed, Section
<1>2. DOMAIN timer[r] \in TimersOf(section[r].state) BY DEF Good
<1>3. CASE section[r].state \in {"idle", "incoming"} BY <1>2, <1>3, TimersOfStates
<1>4. CASE section[r].state = "outgoing" BY <1>2, <1>4, TimersOfStates
<1>5. CASE section[r].state = "established" BY <1>2, <1>5, TimersOfStates
<1>6. CASE section[r].state = "releasing" BY <1>2, <1>6, TimersOfStates
<1>7. CASE section[r].state = "frozen" BY <1>2, <1>7, TimersOfStates
<1> QED BY <1>1, <1>3, <1>4, <1>5, <1>6, <1>7 DEF States

(* A step that changes one reference keeps the others good.                *)
LEMMA OthersGood ==
    ASSUME Typed, \A q \in Ref : Good(q), NEW r \in Ref,
           \A q \in Ref \ {r} : /\ section'[q] = section[q] /\ timer'[q] = timer[q]
                                /\ user'[q] = user[q] /\ frozenFor'[q] = frozenFor[q],
           Good(r)'
    PROVE  \A q \in Ref : Good(q)'
<1> SUFFICES ASSUME NEW q \in Ref, q # r PROVE Good(q)' OBVIOUS
<1>1. /\ section'[q] = section[q] /\ timer'[q] = timer[q]
      /\ user'[q] = user[q] /\ frozenFor'[q] = frozenFor[q]
  OBVIOUS
<1> QED BY <1>1 DEF Good

(* T(repeat rel) is set within T(int) or not at all.                       *)
LEMMA ScheduleRepeatEffect ==
    ASSUME NEW running, DOMAIN running = {"giveUp"}
    PROVE  LET scheduled == ScheduleRepeat(running)
           IN /\ DOMAIN scheduled \in {{"giveUp"}, {"giveUp", "repeat"}}
              /\ "repeat" \in DOMAIN scheduled => scheduled["repeat"] < scheduled["giveUp"]
<1>1. CASE BeforeGiveUp(After(RepeatReleaseTimeout), running)
  <2>1. ScheduleRepeat(running) = Start(running, "repeat", After(RepeatReleaseTimeout))
    BY <1>1 DEF ScheduleRepeat
  <2> QED BY <1>1, <2>1 DEF Start, BeforeGiveUp
<1>2. CASE ~BeforeGiveUp(After(RepeatReleaseTimeout), running)
  BY <1>2 DEF ScheduleRepeat
<1> QED BY <1>1, <1>2

(* The reference that is allocated was idle.                               *)
LEMMA CandidateIdle ==
    ASSUME NEW r \in Ref, CandidateReference(r)
    PROVE  section[r].state = "idle" /\ active < MaxConnections
BY DEF CandidateReference, Occupied

(* Only the sections in some states match a message and are affected.      *)
LEMMA GoodStep ==
    ASSUME Typed, \A q \in Ref : Good(q), [Next]_vars
    PROVE  \A q \in Ref : Good(q)'
<1>u. ASSUME UNCHANGED <<section, timer, user, frozenFor>> PROVE \A q \in Ref : Good(q)'
  BY <1>u DEF Good
<1>1. CASE Tick
  <2> SUFFICES ASSUME NEW q \in Ref PROVE Good(q)' OBVIOUS
  <2>1. /\ section'[q] = section[q] /\ user'[q] = user[q]
        /\ timer'[q] = [k \in DOMAIN timer[q] |-> timer[q][k] - 1]
        /\ section[q].state = "frozen" => frozenFor'[q] = frozenFor[q] + 1
    BY <1>1 DEF Tick, Typed
  <2>2. \A k \in DOMAIN timer[q] : timer[q][k] \in Int BY DEF Typed, RunningTimers
  <2>3. DOMAIN timer'[q] = DOMAIN timer[q] BY <2>1
  <2>4. "repeat" \in DOMAIN timer[q] => timer'[q]["repeat"] < timer'[q]["giveUp"]
    BY <2>1, <2>2 DEF Good
  <2>5. ASSUME section[q].state = "frozen"
        PROVE  frozenFor'[q] + timer'[q]["freeze"] = frozenFor[q] + timer[q]["freeze"]
    <3>1. "freeze" \in DOMAIN timer[q] BY <2>5, TimersOfStates DEF Good
    <3> QED BY <2>1, <2>2, <2>5, <3>1 DEF Typed
  <2> QED BY <2>1, <2>3, <2>4, <2>5 DEF Good
<1>2. CASE Call BY <1>2, <1>u DEF Call, connVars, history
<1>3. ASSUME NEW r \in Ref, EstablishmentExpires(r) PROVE \A q \in Ref : Good(q)'
  <2>1. section[r].state = "outgoing"
    BY <1>3, TimerTellsState DEF EstablishmentExpires, Fires, Due
  <2> QED BY <1>3, <2>1, IndicateIdle, FreezeGood DEF EstablishmentExpires
<1>4. ASSUME NEW r \in Ref, SendInactivityExpires(r) PROVE \A q \in Ref : Good(q)'
  <2>1. section[r].state = "established" /\ "sendInactivity" \in DOMAIN timer[r]
    BY <1>4, TimerTellsState DEF SendInactivityExpires, Fires, Due
  <2>2. timer'[r] = Start(Expired(r, "sendInactivity"), "sendInactivity",
                          After(InactivitySendTimeout))
    BY <1>4 DEF SendInactivityExpires, Typed
  <2>3. DOMAIN timer'[r] = DOMAIN timer[r]
    BY <2>1, <2>2 DEF Start, Expired, Stop
  <2>4. "repeat" \notin DOMAIN timer[r] BY <2>1, TimersOfStates DEF Good
  <2>5. Good(r)' BY <1>4, <2>1, <2>3, <2>4 DEF SendInactivityExpires, Good, history
  <2> QED BY <1>4, <2>5, OthersGood DEF SendInactivityExpires, history, Typed
<1>5. ASSUME NEW r \in Ref, ReceiveInactivityExpires(r) PROVE \A q \in Ref : Good(q)'
  <2>1. section[r].state = "established"
    BY <1>5, TimerTellsState DEF ReceiveInactivityExpires, Fires, Due
  <2>2. ~section[r].disconnect /\ section[r].peer \in Peers /\ section[r].remote \in RemoteRefs
    BY <2>1 DEF Good, SectionShaped
  <2> QED BY <1>5, <2>1, <2>2, DisconnectIdle, BeginReleaseGood DEF ReceiveInactivityExpires
<1>6. ASSUME NEW r \in Ref, ReleaseExpires(r) PROVE \A q \in Ref : Good(q)'
  <2>1. section[r].state = "releasing" /\ DOMAIN timer[r] = {"release"}
    BY <1>6, TimerTellsState DEF ReleaseExpires, Fires, Due
  <2> DEFINE running == StartGiveUp(Expired(r, "release"))
  <2>2. DOMAIN running = {"giveUp"} BY <2>1 DEF StartGiveUp, Start, Expired, Stop
  <2>3. timer'[r] = ScheduleRepeat(running) BY <1>6 DEF ReleaseExpires, Typed
  <2>4. Good(r)'
    BY <1>6, <2>1, <2>2, <2>3, ScheduleRepeatEffect, TimersOfStates DEF ReleaseExpires, Good, history
  <2> QED BY <1>6, <2>4, OthersGood DEF ReleaseExpires, history, Typed
<1>7. ASSUME NEW r \in Ref, RepeatExpires(r) PROVE \A q \in Ref : Good(q)'
  <2>1. section[r].state = "releasing" /\ DOMAIN timer[r] = {"giveUp", "repeat"}
    BY <1>7, TimerTellsState DEF RepeatExpires, Fires, Due
  <2> DEFINE running == Expired(r, "repeat")
  <2>2. DOMAIN running = {"giveUp"} BY <2>1 DEF Expired, Stop
  <2>3. timer'[r] = ScheduleRepeat(running) BY <1>7 DEF RepeatExpires, Typed
  <2>4. Good(r)'
    BY <1>7, <2>1, <2>2, <2>3, ScheduleRepeatEffect, TimersOfStates DEF RepeatExpires, Good, history
  <2> QED BY <1>7, <2>4, OthersGood DEF RepeatExpires, history, Typed
<1>8. ASSUME NEW r \in Ref, GiveUpExpires(r) PROVE \A q \in Ref : Good(q)'
  <2>1. section[r].state = "releasing"
    BY <1>8, TimerTellsState DEF GiveUpExpires, Fires, Due
  <2>2. user[r] = "idle" BY <2>1, UserViews DEF Good
  <2>3. user' = [user EXCEPT ![r] = "idle"] BY <1>8, <2>2 DEF GiveUpExpires, Typed
  <2> QED BY <1>8, <2>3, FreezeGood DEF GiveUpExpires
<1>9. ASSUME NEW r \in Ref, FreezeExpires(r) PROVE \A q \in Ref : Good(q)'
  <2>1. section[r].state = "frozen" /\ DOMAIN timer[r] = {"freeze"}
    BY <1>9, TimerTellsState DEF FreezeExpires, Fires, Due
  <2>2. section'[r].state = "idle" /\ section'[r].disconnect = FALSE /\ user'[r] = "idle"
    BY <1>9, <2>1, UserViews DEF FreezeExpires, NoSection, NewSection, Typed, Good
  <2>3. DOMAIN timer'[r] = {} BY <1>9, <2>1 DEF FreezeExpires, Expired, Stop, Typed
  <2>4. Good(r)' BY <2>2, <2>3, TimersOfStates, UserViews DEF Good, SectionShaped
  <2> QED BY <1>9, <2>4, OthersGood DEF FreezeExpires, Typed
<1>10. CASE HandleTimeout BY <1>10, <1>u DEF HandleTimeout, connVars, history
<1>11. ASSUME NEW peer \in Peers, Connect(peer) PROVE \A q \in Ref : Good(q)'
  <2>1. PICK r \in Ref :
          /\ CandidateReference(r)
          /\ Register(r, NewSection("outgoing", peer, NoRef))
          /\ timer' = [timer EXCEPT ![r] =
                         Start(@, "establishment", After(EstablishmentTimeout))]
          /\ Primitive(r, "connectRequest")
    BY <1>11 DEF Connect
  <2>2. section[r].state = "idle" BY <2>1, CandidateIdle
  <2>3. user[r] = "idle" /\ DOMAIN timer[r] = {} BY <2>2, UserViews, TimersOfStates DEF Good
  <2>4. /\ section'[r].state = "outgoing" /\ section'[r].disconnect = FALSE
        /\ section'[r].peer = peer
    BY <2>1 DEF Register, NewSection, Typed
  <2>5. user'[r] = "calling" BY <2>1, <2>3 DEF Primitive, AfterPrimitive, Typed
  <2>6. DOMAIN timer'[r] = {"establishment"} BY <2>1, <2>3 DEF Start, Typed
  <2>7. Good(r)' BY <2>4, <2>5, <2>6, TimersOfStates, UserViews DEF Good, SectionShaped
  <2> QED BY <1>11, <2>1, <2>7, OthersGood DEF Connect, Register, Primitive, Typed
<1>12. ASSUME NEW r \in Ref, Accept(r) PROVE \A q \in Ref : Good(q)'
  <2>1. user[r] = "called" /\ DOMAIN timer[r] = {} /\ ~section[r].disconnect
    BY <1>12, UserViews, TimersOfStates DEF Accept, Good, SectionShaped
  <2>2. section[r].peer \in Peers /\ section[r].remote \in RemoteRefs
    BY <1>12 DEF Accept, Good, SectionShaped
  <2>3. section'[r] = [section[r] EXCEPT !.state = "established"] BY <1>12 DEF Accept, Typed
  <2>4. /\ section'[r].state = "established" /\ section'[r].disconnect = section[r].disconnect
        /\ section'[r].peer = section[r].peer /\ section'[r].remote = section[r].remote
    BY <2>3 DEF Typed, Section
  <2>5. user'[r] = "open" BY <1>12, <2>1 DEF Accept, Primitive, AfterPrimitive, Typed
  <2>6. DOMAIN timer'[r] = {"sendInactivity", "receiveInactivity"}
    BY <1>12, <2>1 DEF Accept, RunInactivity, Start, Typed
  <2>7. Good(r)' BY <2>1, <2>2, <2>4, <2>5, <2>6, TimersOfStates, UserViews DEF Good, SectionShaped
  <2> QED BY <1>12, <2>7, OthersGood DEF Accept, Primitive, Typed
<1>13. ASSUME NEW r \in Ref, NEW n \in 1 .. MaxDataLength, SendData(r, n)
       PROVE  \A q \in Ref : Good(q)'
  <2>1. /\ user[r] = "open" /\ DOMAIN timer[r] = {"sendInactivity", "receiveInactivity"}
        /\ section[r].state = "established"
    BY <1>13, UserViews, TimersOfStates DEF SendData, Good
  <2>2. user'[r] = "open" BY <1>13, <2>1 DEF SendData, Primitive, AfterPrimitive, Typed
  <2>3. DOMAIN timer'[r] = DOMAIN timer[r] BY <1>13, <2>1 DEF SendData, Start, Typed
  <2>4. Good(r)' BY <1>13, <2>1, <2>2, <2>3 DEF SendData, Good
  <2> QED BY <1>13, <2>4, OthersGood DEF SendData, Primitive, Typed
<1>14. ASSUME NEW r \in Ref, Disconnect(r) PROVE \A q \in Ref : Good(q)'
  <2>1. section[r].state \in {"incoming", "outgoing", "established"}
    BY <1>14 DEF Disconnect, DisconnectIncoming, DisconnectOutgoing, DisconnectEstablished
  <2>2. user' = [user EXCEPT ![r] = "idle"] BY <1>14, <2>1, IndicateIdle DEF Disconnect
  <2>3. CASE DisconnectIncoming(r) BY <2>2, <2>3, FreezeGood DEF DisconnectIncoming
  <2>4. CASE DisconnectOutgoing(r)
    <3>1. section'[r] = [section[r] EXCEPT !.disconnect = TRUE]
      BY <2>4 DEF DisconnectOutgoing, Typed
    <3>2. /\ section'[r].state = "outgoing" /\ section'[r].disconnect = TRUE
          /\ section'[r].peer = section[r].peer
      BY <2>4, <3>1 DEF DisconnectOutgoing, Typed, Section
    <3>3. user'[r] = "idle" BY <2>2 DEF Typed
    <3>4. Good(r)' BY <2>4, <3>2, <3>3, UserViews, TimersOfStates DEF DisconnectOutgoing, Good, SectionShaped
    <3> QED BY <2>2, <2>4, <3>4, OthersGood DEF DisconnectOutgoing, Typed
  <2>5. CASE DisconnectEstablished(r)
    BY <2>2, <2>5, BeginReleaseGood DEF DisconnectEstablished, Good, SectionShaped
  <2> QED BY <1>14, <2>3, <2>4, <2>5 DEF Disconnect
<1>15. ASSUME NEW m \in CR, ReceiveConnectionRequest(m) PROVE \A q \in Ref : Good(q)'
  <2>1. CASE AdmitRequest(m)
    <3>1. PICK r \in Ref :
            /\ CandidateReference(r)
            /\ Register(r, NewSection("incoming", Originator(m), m.src))
            /\ Primitive(r, "connectIndication")
      BY <2>1 DEF AdmitRequest
    <3>2. section[r].state = "idle" BY <3>1, CandidateIdle
    <3>3. user[r] = "idle" /\ DOMAIN timer[r] = {} BY <3>2, UserViews, TimersOfStates DEF Good
    <3>4. /\ section'[r].state = "incoming" /\ section'[r].disconnect = FALSE
          /\ section'[r].peer \in Peers /\ section'[r].remote \in RemoteRefs
      BY <3>1 DEF Register, NewSection, Typed, CR, Originator
    <3>5. user'[r] = "called" BY <3>1, <3>3 DEF Primitive, AfterPrimitive, Typed
    <3>6. DOMAIN timer'[r] = {} BY <2>1, <3>3 DEF AdmitRequest
    <3>7. Good(r)' BY <3>4, <3>5, <3>6, TimersOfStates, UserViews DEF Good, SectionShaped
    <3> QED BY <2>1, <3>1, <3>7, OthersGood DEF AdmitRequest, Register, Primitive, Typed
  <2>2. CASE RefuseRequest(m) BY <2>2, <1>u DEF RefuseRequest, connVars, history
  <2> QED BY <1>15, <2>1, <2>2 DEF ReceiveConnectionRequest
<1>16. ASSUME NEW m \in SectionMessage, ReceiveSectionMessage(m) PROVE \A q \in Ref : Good(q)'
  <2>m. /\ m.dst \in Ref /\ m.peer \in Peers
        /\ HasSource(m) => m.src \in RemoteRefs
        /\ Good(m.dst)
    BY MessageFields
  <2>s. section[m.dst] \in Section /\ section[m.dst].state \in States BY <2>m DEF Typed, Section
  <2>v. ASSUME UNCHANGED <<connVars, history>> PROVE \A q \in Ref : Good(q)'
    BY <2>v, <1>u DEF connVars, history
  <2>1. CASE UnassignedReference(m) BY <2>1, <2>v DEF UnassignedReference
  <2>2. CASE KeepMismatched(m) BY <2>2, <2>v DEF KeepMismatched
  <2>3. CASE ReleaseMismatched(m)
    <3>1. CASE section[m.dst].state = "releasing" BY <2>3, <2>v, <3>1 DEF ReleaseMismatched
    <3>2. CASE section[m.dst].state # "releasing"
      <4>1. section[m.dst].state \in {"incoming", "established"}
        BY <2>3, <2>s, <3>2 DEF ReleaseMismatched, SourceMismatch, Assigned, CheckPeer, Unused, States
      <4>2. ~section[m.dst].disconnect /\ section[m.dst].peer \in Peers /\ section[m.dst].remote \in RemoteRefs
        BY <2>m, <4>1 DEF Good, SectionShaped
      <4>3. /\ Primitive(m.dst, "disconnect")
            /\ \E replies : BeginRelease(m.dst, section[m.dst], replies)
        BY <2>3, <3>2 DEF ReleaseMismatched
      <4> QED BY <2>m, <4>1, <4>2, <4>3, DisconnectIdle, BeginReleaseGood
    <3> QED BY <3>1, <3>2
  <2>4. CASE ReceiveIncoming(m) BY <2>4, <2>v DEF ReceiveIncoming, Discard
  <2>5. CASE Confirmed(m)
    <3>1. section[m.dst].state = "outgoing" /\ ~section[m.dst].disconnect BY <2>5 DEF Confirmed, Matches, StillWanted
    <3>2. user[m.dst] = "calling" /\ DOMAIN timer[m.dst] = {"establishment"}
      BY <2>m, <3>1, UserViews, TimersOfStates DEF Good
    <3>3. section'[m.dst] = [Associate(section[m.dst], m) EXCEPT !.state = "established"]
      BY <2>m, <2>5 DEF Confirmed, Typed
    <3>4. /\ section'[m.dst].state = "established" /\ section'[m.dst].disconnect = section[m.dst].disconnect
          /\ section'[m.dst].peer = m.peer /\ section'[m.dst].remote = m.src
      BY <2>s, <3>3 DEF Associate, Section
    <3>5. m.src \in RemoteRefs BY <2>m, <2>5 DEF Confirmed, HasSource
    <3>6. user'[m.dst] = "open"
      BY <2>m, <2>5, <3>2 DEF Confirmed, Primitive, AfterPrimitive, Typed
    <3>7. DOMAIN timer'[m.dst] = {"sendInactivity", "receiveInactivity"}
      BY <2>m, <2>5, <3>2 DEF Confirmed, RunInactivity, Start, Stop, Typed
    <3>8. Good(m.dst)'
      BY <2>m, <3>1, <3>4, <3>5, <3>6, <3>7, TimersOfStates, UserViews DEF Good, SectionShaped
    <3> QED BY <2>m, <2>5, <3>8, OthersGood DEF Confirmed, Primitive, Typed
  <2>6. CASE ReleaseOnConfirm(m)
    <3>1. section[m.dst].state = "outgoing" BY <2>6 DEF ReleaseOnConfirm, Matches
    <3>2. Associate(section[m.dst], m).peer = m.peer /\ Associate(section[m.dst], m).remote = m.src
      BY <2>s DEF Associate, Section
    <3>3. m.src \in RemoteRefs BY <2>m, <2>6 DEF ReleaseOnConfirm, HasSource
    <3>4. user' = [user EXCEPT ![m.dst] = "idle"]
      BY <2>m, <2>6, <3>1, IndicateIdle DEF ReleaseOnConfirm
    <3> QED BY <2>m, <2>6, <3>1, <3>2, <3>3, <3>4, BeginReleaseGood DEF ReleaseOnConfirm
  <2>7. CASE FailRequest(m)
    BY <2>m, <2>7, IndicateIdle, FreezeGood DEF FailRequest, Matches
  <2>8. CASE ReceiveReleasing(m)
    <3>1. CASE Discard BY <2>v, <3>1 DEF Discard
    <3>2. CASE Freeze(m.dst) /\ UNCHANGED user
      <4>1. user[m.dst] = "idle" BY <2>m, <2>8, UserViews DEF ReceiveReleasing, Matches, Good
      <4>2. user' = [user EXCEPT ![m.dst] = "idle"] BY <3>2, <4>1 DEF Typed
      <4> QED BY <2>m, <3>2, <4>2, FreezeGood
    <3> QED BY <2>8, <3>1, <3>2 DEF ReceiveReleasing
  <2>9. CASE ReceiveEstablished(m)
    <3>1. section[m.dst].state = "established" BY <2>9 DEF ReceiveEstablished, Matches
    <3>2. /\ ~section[m.dst].disconnect
          /\ section[m.dst].peer \in Peers /\ section[m.dst].remote \in RemoteRefs
          /\ user[m.dst] = "open" /\ DOMAIN timer[m.dst] = {"sendInactivity", "receiveInactivity"}
      BY <2>m, <3>1, UserViews, TimersOfStates DEF Good, SectionShaped
    <3>3. ASSUME RestartReceive(m.dst) PROVE DOMAIN timer'[m.dst] = DOMAIN timer[m.dst]
      BY <2>m, <3>2, <3>3 DEF RestartReceive, Start, Typed
    <3>4. CASE DiscardEstablished(m)
      <4>1. /\ section' = section /\ user' = user /\ frozenFor' = frozenFor
            /\ DOMAIN timer'[m.dst] = DOMAIN timer[m.dst]
        BY <3>3, <3>4 DEF DiscardEstablished, history
      <4>2. "repeat" \notin DOMAIN timer[m.dst] BY <3>2
      <4>3. Good(m.dst)' BY <2>m, <3>1, <4>1, <4>2 DEF Good
      <4> QED BY <2>m, <3>4, <4>1, <4>3, OthersGood DEF DiscardEstablished, RestartReceive, Typed
    <3>5. CASE ReceiveData(m)
      <4>1. section'[m.dst] \in {Buffered(section[m.dst], m.len), Emptied(section[m.dst])}
        BY <2>m, <3>5 DEF ReceiveData, Typed
      <4>2. /\ section'[m.dst].state = section[m.dst].state /\ section'[m.dst].disconnect = section[m.dst].disconnect
            /\ section'[m.dst].peer = section[m.dst].peer /\ section'[m.dst].remote = section[m.dst].remote
        BY <2>s, <4>1 DEF Buffered, Emptied, Section
      <4>3. user'[m.dst] = "open" /\ \A q \in Ref \ {m.dst} : user'[q] = user[q]
        BY <2>m, <3>2, <3>5 DEF ReceiveData, Primitive, AfterPrimitive, Typed
      <4>4. Good(m.dst)'
        BY <2>m, <3>1, <3>2, <3>3, <3>5, <4>2, <4>3, UserViews DEF ReceiveData, Good, SectionShaped
      <4> QED BY <2>m, <3>5, <4>3, <4>4, OthersGood DEF ReceiveData, RestartReceive, Typed
    <3>6. CASE ReleaseEstablished(m)
      BY <2>m, <3>1, <3>2, <3>6, DisconnectIdle, BeginReleaseGood DEF ReleaseEstablished
    <3>7. CASE EndEstablished(m)
      BY <2>m, <3>1, <3>2, <3>7, DisconnectIdle, FreezeGood DEF EndEstablished
    <3> QED BY <2>9, <3>4, <3>5, <3>6, <3>7 DEF ReceiveEstablished
  <2> QED BY <1>16, <2>1, <2>2, <2>3, <2>4, <2>5, <2>6, <2>7, <2>8, <2>9 DEF ReceiveSectionMessage
<1>17. CASE UNCHANGED vars BY <1>17, <1>u DEF vars, connVars, history
<1> QED BY <1>1, <1>2, <1>3, <1>4, <1>5, <1>6, <1>7, <1>8, <1>9, <1>10, <1>11, <1>12, <1>13,
           <1>14, <1>15, <1>16, <1>17
    DEF Next, Fire, FireOf, UserRequest, HandleTransfer

(* No timer outlives the state it belongs to, users and sections agree, and *)
(* the rest of the inductive invariant with them.                          *)
THEOREM Invariant == Spec => []Inv
<1>1. Init => Inv BY InitTyped, InitGood, InvIsGood
<1>2. Inv /\ [Next]_vars => Inv'
  <2> SUFFICES ASSUME Inv, [Next]_vars PROVE Inv' OBVIOUS
  <2>1. Typed /\ \A q \in Ref : Good(q) BY InvIsGood
  <2>2. Typed' BY <2>1, TypedStep
  <2>3. \A q \in Ref : Good(q)' BY <2>1, GoodStep
  <2>4. TypeOK' BY <2>2, TypedIsTypeOK, PTL
  <2> QED BY <2>3, <2>4 DEF Inv, Good, TimersMatchState, UserAgrees, RepeatWithinGiveUp,
                           FreezeTimed, SectionsShaped
<1> QED BY <1>1, <1>2, PTL DEF Spec

(* A section runs exactly the timers of its state: none is missing, none   *)
(* fires into a later state or a later connection on the same reference.   *)
THEOREM TimersAlwaysMatch == Spec => []TimersMatchState
<1>1. Inv => TimersMatchState BY DEF Inv
<1> QED BY <1>1, Invariant, PTL

(* What a user was told, and what it asked for, is what its section is in. *)
THEOREM UserAlwaysAgrees == Spec => []UserAgrees
<1>1. Inv => UserAgrees BY DEF Inv
<1> QED BY <1>1, Invariant, PTL

(* RLSD is never repeated at or after the end of T(int).                   *)
THEOREM RepeatsWithinGiveUp == Spec => []RepeatWithinGiveUp
<1>1. Inv => RepeatWithinGiveUp BY DEF Inv
<1> QED BY <1>1, Invariant, PTL

-----------------------------------------------------------------------------
(* What one step may do to the sections: it moves one of them, by one of   *)
(* the arcs of the state diagram, and counts it.                           *)

KeepsOthers(r) == \A q \in Ref \ {r} : section'[q] = section[q]

Begins(r) ==
    /\ section[r].state = "idle" /\ active < MaxConnections
    /\ section'[r].state \in {"incoming", "outgoing"} /\ ~section'[r].disconnect
    /\ active' = active + 1

Opens(r) ==
    /\ section[r].state \in {"incoming", "outgoing"} /\ ~section[r].disconnect
    /\ section'[r].state = "established"
    /\ active' = active

Defers(r) ==
    /\ section[r].state = "outgoing" /\ section'[r].state = "outgoing"
    /\ section'[r].disconnect
    /\ active' = active

Releases(r) ==
    /\ section[r].state \in {"incoming", "outgoing", "established"}
    /\ section'[r].state = "releasing"
    /\ active' = active

Ends(r) ==
    /\ section[r].state \in {"incoming", "outgoing", "established", "releasing"}
    /\ section'[r].state = "frozen"
    /\ active' = active - 1

Thaws(r) ==
    /\ section[r].state = "frozen" /\ section'[r].state = "idle"
    /\ frozenFor[r] >= ReferenceFreeze - MaxLag
    /\ active' = active

Stays(r) ==
    /\ section'[r].state = section[r].state /\ section'[r].disconnect = section[r].disconnect
    /\ active' = active

Moves(r) ==
    Begins(r) \/ Opens(r) \/ Defers(r) \/ Releases(r) \/ Ends(r) \/ Thaws(r) \/ Stays(r)

LEMMA FreezeEnds ==
    ASSUME Typed, NEW r \in Ref, Freeze(r),
           section[r].state \in {"incoming", "outgoing", "established", "releasing"}
    PROVE  KeepsOthers(r) /\ Ends(r)
BY DEF Typed, Freeze, NewSection, KeepsOthers, Ends

LEMMA BeginReleaseReleases ==
    ASSUME Typed, NEW r \in Ref, NEW s, NEW replies, BeginRelease(r, s, replies),
           section[r].state \in {"incoming", "outgoing", "established"}
    PROVE  KeepsOthers(r) /\ Releases(r)
BY DEF Typed, BeginRelease, NewSection, KeepsOthers, Releases

LEMMA SectionMessageMoves ==
    ASSUME Typed, \A q \in Ref : Good(q), NEW m \in SectionMessage, ReceiveSectionMessage(m)
    PROVE  KeepsOthers(m.dst) /\ Moves(m.dst)
<1>m. m.dst \in Ref /\ section[m.dst] \in Section /\ section[m.dst].state \in States
  BY MessageFields DEF Typed, Section
<1>s. ASSUME UNCHANGED <<section, active>> PROVE KeepsOthers(m.dst) /\ Moves(m.dst)
  BY <1>s DEF KeepsOthers, Moves, Stays
<1>1. CASE UnassignedReference(m) BY <1>1, <1>s DEF UnassignedReference, connVars
<1>2. CASE KeepMismatched(m) BY <1>2, <1>s DEF KeepMismatched, connVars
<1>3. CASE ReleaseMismatched(m)
  <2>1. CASE section[m.dst].state = "releasing" BY <1>3, <1>s, <2>1 DEF ReleaseMismatched, connVars
  <2>2. CASE section[m.dst].state # "releasing"
    <3>1. section[m.dst].state \in {"incoming", "established"}
      BY <1>m, <1>3, <2>2 DEF ReleaseMismatched, SourceMismatch, Assigned, CheckPeer, Unused, States
    <3>2. \E replies : BeginRelease(m.dst, section[m.dst], replies)
      BY <1>3, <2>2 DEF ReleaseMismatched
    <3> QED BY <1>m, <3>1, <3>2, BeginReleaseReleases DEF Moves
  <2> QED BY <2>1, <2>2
<1>4. CASE ReceiveIncoming(m) BY <1>4, <1>s DEF ReceiveIncoming, Discard, connVars
<1>5. CASE Confirmed(m)
  <2>1. section' = [section EXCEPT ![m.dst] =
                      [Associate(section[m.dst], m) EXCEPT !.state = "established"]]
    BY <1>5 DEF Confirmed
  <2>2. section'[m.dst].state = "established" BY <1>m, <2>1 DEF Associate, Section, Typed
  <2>3. KeepsOthers(m.dst) BY <1>m, <2>1 DEF KeepsOthers, Typed
  <2>4. Opens(m.dst) BY <1>5, <2>2 DEF Confirmed, Matches, StillWanted, Opens
  <2> QED BY <2>3, <2>4 DEF Moves
<1>6. CASE ReleaseOnConfirm(m)
  BY <1>m, <1>6, BeginReleaseReleases DEF ReleaseOnConfirm, Matches, Moves
<1>7. CASE FailRequest(m) BY <1>m, <1>7, FreezeEnds DEF FailRequest, Matches, Moves
<1>8. CASE ReceiveReleasing(m)
  BY <1>m, <1>s, <1>8, FreezeEnds DEF ReceiveReleasing, Matches, Discard, connVars, Moves
<1>9. CASE ReceiveEstablished(m)
  <2>0. section[m.dst].state = "established" BY <1>9 DEF ReceiveEstablished, Matches
  <2>1. CASE DiscardEstablished(m) BY <1>s, <2>1 DEF DiscardEstablished
  <2>2. CASE ReceiveData(m)
    <3>1. \/ section' = [section EXCEPT ![m.dst] = Buffered(section[m.dst], m.len)]
          \/ section' = [section EXCEPT ![m.dst] = Emptied(section[m.dst])]
      BY <2>2 DEF ReceiveData
    <3>2. KeepsOthers(m.dst) BY <1>m, <3>1 DEF KeepsOthers, Typed
    <3>3. section'[m.dst] \in {Buffered(section[m.dst], m.len), Emptied(section[m.dst])}
      BY <1>m, <3>1 DEF Typed
    <3>4. Stays(m.dst) BY <1>m, <2>2, <3>3 DEF ReceiveData, Buffered, Emptied, Section, Stays
    <3> QED BY <3>2, <3>4 DEF Moves
  <2>3. CASE ReleaseEstablished(m)
    BY <1>m, <2>0, <2>3, BeginReleaseReleases DEF ReleaseEstablished, Moves
  <2>4. CASE EndEstablished(m) BY <1>m, <2>0, <2>4, FreezeEnds DEF EndEstablished, Moves
  <2> QED BY <1>9, <2>1, <2>2, <2>3, <2>4 DEF ReceiveEstablished
<1> QED BY <1>1, <1>2, <1>3, <1>4, <1>5, <1>6, <1>7, <1>8, <1>9 DEF ReceiveSectionMessage

LEMMA SectionsMove ==
    ASSUME Typed, \A q \in Ref : Good(q), [Next]_vars
    PROVE  \E r \in Ref : KeepsOthers(r) /\ Moves(r)
<1>s. ASSUME UNCHANGED <<section, active>> PROVE \E r \in Ref : KeepsOthers(r) /\ Moves(r)
  <2>1. 0 \in Ref BY LimitsAssumption DEF Ref
  <2> QED BY <1>s, <2>1 DEF KeepsOthers, Moves, Stays
<1>1. CASE Tick BY <1>1, <1>s DEF Tick
<1>2. CASE Call BY <1>2, <1>s DEF Call, connVars
<1>3. ASSUME NEW r \in Ref, EstablishmentExpires(r) PROVE KeepsOthers(r) /\ Moves(r)
  <2>1. section[r].state = "outgoing"
    BY <1>3, TimerTellsState DEF EstablishmentExpires, Fires, Due
  <2> QED BY <1>3, <2>1, FreezeEnds DEF EstablishmentExpires, Moves
<1>4. ASSUME NEW r \in Ref, SendInactivityExpires(r) PROVE UNCHANGED <<section, active>>
  BY <1>4 DEF SendInactivityExpires
<1>5. ASSUME NEW r \in Ref, ReceiveInactivityExpires(r) PROVE KeepsOthers(r) /\ Moves(r)
  <2>1. section[r].state = "established"
    BY <1>5, TimerTellsState DEF ReceiveInactivityExpires, Fires, Due
  <2> QED BY <1>5, <2>1, BeginReleaseReleases DEF ReceiveInactivityExpires, Moves
<1>6. ASSUME NEW r \in Ref, ReleaseExpires(r) PROVE UNCHANGED <<section, active>>
  BY <1>6 DEF ReleaseExpires
<1>7. ASSUME NEW r \in Ref, RepeatExpires(r) PROVE UNCHANGED <<section, active>>
  BY <1>7 DEF RepeatExpires
<1>8. ASSUME NEW r \in Ref, GiveUpExpires(r) PROVE KeepsOthers(r) /\ Moves(r)
  <2>1. section[r].state = "releasing" BY <1>8, TimerTellsState DEF GiveUpExpires, Fires, Due
  <2> QED BY <1>8, <2>1, FreezeEnds DEF GiveUpExpires, Moves
<1>9. ASSUME NEW r \in Ref, FreezeExpires(r) PROVE KeepsOthers(r) /\ Moves(r)
  <2>1. section[r].state = "frozen" /\ "freeze" \in DOMAIN timer[r] /\ timer[r]["freeze"] <= -lag
    BY <1>9, TimerTellsState DEF FreezeExpires, Fires, Due
  <2>2. timer[r]["freeze"] \in Int BY <2>1 DEF Typed, RunningTimers
  <2>3. frozenFor[r] + timer[r]["freeze"] \in ReferenceFreeze - MaxLag .. ReferenceFreeze
    BY <2>1 DEF Good
  <2>4. frozenFor[r] >= ReferenceFreeze - MaxLag
    BY <2>1, <2>2, <2>3, ClockAssumption, TimeoutsAssumption DEF Typed
  <2>5. section' = [section EXCEPT ![r] = NoSection] /\ active' = active
    BY <1>9 DEF FreezeExpires
  <2>6. KeepsOthers(r) /\ section'[r].state = "idle"
    BY <2>5 DEF KeepsOthers, NoSection, NewSection, Typed
  <2> QED BY <2>1, <2>4, <2>5, <2>6 DEF Thaws, Moves
<1>10. CASE HandleTimeout BY <1>10, <1>s DEF HandleTimeout, connVars
<1>11. ASSUME NEW r \in Ref, NEW state \in {"incoming", "outgoing"}, NEW peer, NEW remote,
              CandidateReference(r), Register(r, NewSection(state, peer, remote))
       PROVE  KeepsOthers(r) /\ Moves(r)
  <2>1. section[r].state = "idle" /\ active < MaxConnections BY <1>11, CandidateIdle
  <2>2. KeepsOthers(r) /\ Begins(r)
    BY <1>11, <2>1 DEF Register, NewSection, KeepsOthers, Begins, Typed
  <2> QED BY <2>2 DEF Moves
<1>12. ASSUME NEW peer \in Peers, Connect(peer) PROVE \E r \in Ref : KeepsOthers(r) /\ Moves(r)
  BY <1>11, <1>12 DEF Connect
<1>13. ASSUME NEW r \in Ref, Accept(r) PROVE KeepsOthers(r) /\ Moves(r)
  <2>1. section[r].state = "incoming" /\ ~section[r].disconnect
    BY <1>13 DEF Accept, Good, SectionShaped
  <2>2. section' = [section EXCEPT ![r].state = "established"] /\ active' = active
    BY <1>13 DEF Accept
  <2>3. KeepsOthers(r) /\ section'[r].state = "established"
    BY <2>2 DEF KeepsOthers, Typed, Section
  <2> QED BY <2>1, <2>2, <2>3 DEF Opens, Moves
<1>14. ASSUME NEW r \in Ref, NEW n \in 1 .. MaxDataLength, SendData(r, n)
       PROVE  UNCHANGED <<section, active>>
  BY <1>14 DEF SendData
<1>15. ASSUME NEW r \in Ref, Disconnect(r) PROVE KeepsOthers(r) /\ Moves(r)
  <2>1. CASE DisconnectIncoming(r) BY <2>1, FreezeEnds DEF DisconnectIncoming, Moves
  <2>2. CASE DisconnectOutgoing(r)
    <3>1. section' = [section EXCEPT ![r].disconnect = TRUE] /\ active' = active
      BY <2>2 DEF DisconnectOutgoing
    <3>2. KeepsOthers(r) BY <3>1 DEF KeepsOthers, Typed
    <3>3. Defers(r) BY <2>2, <3>1 DEF DisconnectOutgoing, Defers, Typed, Section
    <3> QED BY <3>2, <3>3 DEF Moves
  <2>3. CASE DisconnectEstablished(r)
    BY <2>3, BeginReleaseReleases DEF DisconnectEstablished, Moves
  <2> QED BY <1>15, <2>1, <2>2, <2>3 DEF Disconnect
<1>16. ASSUME NEW m \in CR, ReceiveConnectionRequest(m)
       PROVE  \E r \in Ref : KeepsOthers(r) /\ Moves(r)
  <2>1. CASE AdmitRequest(m) BY <1>11, <2>1 DEF AdmitRequest
  <2>2. CASE RefuseRequest(m) BY <1>s, <2>2 DEF RefuseRequest, connVars
  <2> QED BY <1>16, <2>1, <2>2 DEF ReceiveConnectionRequest
<1>17. ASSUME NEW m \in SectionMessage, ReceiveSectionMessage(m)
       PROVE  \E r \in Ref : KeepsOthers(r) /\ Moves(r)
  BY <1>17, MessageFields, SectionMessageMoves
<1>18. CASE UNCHANGED vars BY <1>18, <1>s DEF vars, connVars
<1>19. CASE Fire BY <1>s, <1>3, <1>4, <1>5, <1>6, <1>7, <1>8, <1>9, <1>19 DEF Fire, FireOf
<1>20. CASE UserRequest BY <1>s, <1>12, <1>13, <1>14, <1>15, <1>20 DEF UserRequest
<1>21. CASE HandleTransfer BY <1>16, <1>17, <1>21 DEF HandleTransfer
<1> QED BY <1>1, <1>2, <1>10, <1>18, <1>19, <1>20, <1>21 DEF Next

(* No reference is used again before its freeze is over, up to the age of  *)
(* the clock reading of the call that released it.                         *)
THEOREM FreezesAreHonoured == Spec => FreezeHonoured
<1>1. Inv /\ [Next]_vars =>
        [\A r \in Ref : section[r].state = "frozen" /\ section'[r].state # "frozen"
            => frozenFor[r] >= ReferenceFreeze - MaxLag]_vars
  <2> SUFFICES ASSUME Inv, [Next]_vars, NEW r \in Ref,
                      section[r].state = "frozen", section'[r].state # "frozen"
               PROVE  frozenFor[r] >= ReferenceFreeze - MaxLag
    OBVIOUS
  <2>1. Typed /\ \A q \in Ref : Good(q) BY InvIsGood
  <2>2. PICK q \in Ref : KeepsOthers(q) /\ Moves(q) BY <2>1, SectionsMove
  <2>3. q = r BY <2>2 DEF KeepsOthers
  <2> QED BY <2>2, <2>3 DEF Moves, Begins, Opens, Defers, Releases, Ends, Thaws, Stays
<1> QED BY <1>1, Invariant, PTL DEF Spec, FreezeHonoured

-----------------------------------------------------------------------------
(* The count of connections.                                               *)

LEMMA InUseFinite == IsFiniteSet(InUse)
<1>1. IsFiniteSet(Ref) BY FS_Interval, LimitsAssumption DEF Ref
<1>2. InUse \in SUBSET Ref BY DEF InUse
<1> QED BY <1>1, <1>2, FS_Subset

LEMMA CountStep ==
    ASSUME ActiveCounted, NEW r \in Ref, KeepsOthers(r), Moves(r)
    PROVE  ActiveCounted'
<1>0. Cardinality(InUse) \in Nat BY InUseFinite, FS_CardinalityType
<1>1. \A q \in Ref \ {r} : q \in InUse' <=> q \in InUse BY DEF KeepsOthers, InUse
<1>2. ASSUME r \in InUse' <=> r \in InUse, active' = active PROVE ActiveCounted'
  <2>1. InUse' = InUse BY <1>1, <1>2 DEF InUse
  <2> QED BY <1>2, <2>1 DEF ActiveCounted
<1>3. CASE Begins(r)
  <2>1. r \notin InUse /\ r \in InUse' BY <1>3 DEF Begins, InUse, Unused
  <2>2. InUse' = InUse \cup {r} BY <1>1, <2>1 DEF InUse
  <2>3. Cardinality(InUse') = Cardinality(InUse) + 1
    BY <2>1, <2>2, InUseFinite, FS_AddElement
  <2> QED BY <1>0, <1>3, <2>3, LimitsAssumption DEF Begins, ActiveCounted
<1>4. CASE Ends(r)
  <2>1. r \in InUse /\ r \notin InUse' BY <1>4 DEF Ends, InUse, Unused
  <2>2. InUse' = InUse \ {r} BY <1>1, <2>1 DEF InUse
  <2>3. Cardinality(InUse') = Cardinality(InUse) - 1
    BY <2>1, <2>2, InUseFinite, FS_RemoveElement
  <2> QED BY <1>0, <1>4, <2>3, LimitsAssumption DEF Ends, ActiveCounted
<1>5. CASE Opens(r) \/ Defers(r) \/ Releases(r) \/ Thaws(r) \/ Stays(r)
  BY <1>2, <1>5 DEF Opens, Defers, Releases, Thaws, Stays, InUse, Unused
<1> QED BY <1>3, <1>4, <1>5 DEF Moves

(* conn.active is the number of sections in use and never exceeds          *)
(* MaxConnections.                                                         *)
THEOREM ActiveAlwaysCounted == Spec => []ActiveCounted
<1>1. Init => ActiveCounted
  <2> SUFFICES ASSUME Init PROVE ActiveCounted OBVIOUS
  <2>1. InUse = {} BY DEF Init, NoSection, NewSection, InUse, Unused
  <2> QED BY <2>1, FS_EmptySet, LimitsAssumption DEF Init, ActiveCounted
<1>2. Inv /\ ActiveCounted /\ [Next]_vars => ActiveCounted'
  <2> SUFFICES ASSUME Inv, ActiveCounted, [Next]_vars PROVE ActiveCounted' OBVIOUS
  <2>1. Typed /\ \A q \in Ref : Good(q) BY InvIsGood
  <2>2. PICK r \in Ref : KeepsOthers(r) /\ Moves(r) BY <2>1, SectionsMove
  <2> QED BY <2>2, CountStep
<1> QED BY <1>1, <1>2, Invariant, PTL DEF Spec

-----------------------------------------------------------------------------
(* The refinement.                                                         *)

phase == [r \in Ref |-> Phase(section[r])]

LEMMA PhaseOfStates ==
    ASSUME NEW s
    PROVE  /\ s.state = "idle" => Phase(s) = "free"
           /\ s.state = "incoming" => Phase(s) = "called"
           /\ s.state = "outgoing" /\ ~s.disconnect => Phase(s) = "calling"
           /\ s.state = "outgoing" /\ s.disconnect => Phase(s) = "closing"
           /\ s.state = "established" => Phase(s) = "open"
           /\ s.state = "releasing" => Phase(s) = "closing"
           /\ s.state = "frozen" => Phase(s) = "frozen"
BY DEF Phase

LEMMA ServiceInUse ==
    ASSUME Typed
    PROVE  Service!InUse = InUse
<1>1. \A r \in Ref : section[r].state \in States BY DEF Typed, Section
<1>2. \A r \in Ref : Phase(section[r]) \in {"free", "frozen"} <=> section[r].state \in Unused
  BY <1>1, PhaseOfStates DEF States, Unused
<1> QED BY <1>2 DEF Service!InUse, InUse

LEMMA PhaseBecomes ==
    ASSUME NEW r \in Ref, KeepsOthers(r), NEW p, Phase(section'[r]) = p
    PROVE  Service!Become(r, p)
<1>1. \A q \in Ref \ {r} : Phase(section'[q]) = Phase(section[q])
  BY DEF KeepsOthers
<1> QED BY <1>1 DEF Service!Become

LEMMA ServiceStep ==
    ASSUME Typed, \A q \in Ref : Good(q), ActiveCounted,
           NEW r \in Ref, KeepsOthers(r), Moves(r)
    PROVE  Service!Next \/ UNCHANGED phase
<1>0. phase[r] = Phase(section[r]) BY DEF phase
<1>1. CASE Begins(r)
  <2>1. phase[r] = "free" BY <1>0, <1>1, PhaseOfStates DEF Begins
  <2>2. Service!Cardinality(Service!InUse) < MaxConnections
    BY <1>1, ServiceInUse DEF Begins, ActiveCounted, Cardinality, Service!Cardinality
  <2>3. Phase(section'[r]) \in {"calling", "called"} BY <1>1, PhaseOfStates DEF Begins
  <2>4. Service!Become(r, "calling") \/ Service!Become(r, "called") BY <2>3, PhaseBecomes
  <2> QED BY <2>1, <2>2, <2>4 DEF Service!Begin, Service!Next, phase
<1>2. CASE Opens(r)
  <2>1. phase[r] \in {"calling", "called"} BY <1>0, <1>2, PhaseOfStates DEF Opens
  <2>2. Service!Become(r, "open") BY <1>2, PhaseOfStates, PhaseBecomes DEF Opens
  <2> QED BY <2>1, <2>2 DEF Service!Open, Service!Next, phase
<1>c. ASSUME section[r].state \in {"incoming", "outgoing", "established"},
             Phase(section'[r]) = "closing"
      PROVE  Service!Next \/ UNCHANGED phase
  <2>1. phase[r] \in {"calling", "called", "open"} \/ phase[r] = "closing"
    BY <1>0, <1>c, PhaseOfStates
  <2>2. CASE phase[r] \in {"calling", "called", "open"}
    BY <1>c, <2>2, PhaseBecomes DEF Service!Close, Service!Next, phase
  <2>3. CASE phase[r] = "closing"
    <3>1. \A q \in Ref : Phase(section'[q]) = Phase(section[q])
      BY <1>0, <1>c, <2>3 DEF KeepsOthers
    <3> QED BY <3>1 DEF phase
  <2> QED BY <2>1, <2>2, <2>3
<1>3. CASE Defers(r) BY <1>3, <1>c, PhaseOfStates DEF Defers
<1>4. CASE Releases(r) BY <1>4, <1>c, PhaseOfStates DEF Releases
<1>5. CASE Ends(r)
  <2>1. Service!Become(r, "frozen") BY <1>5, PhaseOfStates, PhaseBecomes DEF Ends
  <2>2. phase[r] \in {"calling", "called", "open"} \/ phase[r] = "closing"
    BY <1>0, <1>5, PhaseOfStates DEF Ends
  <2> QED BY <2>1, <2>2 DEF Service!Close, Service!Freeze, Service!Next, phase
<1>6. CASE Thaws(r)
  <2>1. Service!Become(r, "free") BY <1>6, PhaseOfStates, PhaseBecomes DEF Thaws
  <2>2. phase[r] = "frozen" BY <1>0, <1>6, PhaseOfStates DEF Thaws
  <2> QED BY <2>1, <2>2 DEF Service!Thaw, Service!Next, phase
<1>7. CASE Stays(r)
  <2>1. \A q \in Ref : Phase(section'[q]) = Phase(section[q])
    BY <1>7 DEF Stays, KeepsOthers, Phase
  <2> QED BY <2>1 DEF phase
<1> QED BY <1>1, <1>2, <1>3, <1>4, <1>5, <1>6, <1>7 DEF Moves

(* Each reference carries one connection at a time, through the phases of  *)
(* ConnectionService, and no more than MaxConnections at once.             *)
THEOREM StackImplementsService == Spec => ImplementsService
<1>1. Init => Service!Init
  BY PhaseOfStates DEF Init, NoSection, NewSection, Service!Init
<1>2. Inv /\ ActiveCounted /\ [Next]_vars => [Service!Next]_phase
  <2> SUFFICES ASSUME Inv, ActiveCounted, [Next]_vars PROVE [Service!Next]_phase OBVIOUS
  <2>1. Typed /\ \A q \in Ref : Good(q) BY InvIsGood
  <2>2. PICK r \in Ref : KeepsOthers(r) /\ Moves(r) BY <2>1, SectionsMove
  <2> QED BY <2>1, <2>2, ServiceStep
<1> QED BY <1>1, <1>2, Invariant, ActiveAlwaysCounted, PTL
        DEF Spec, ImplementsService, Service!Spec, phase

-----------------------------------------------------------------------------
(* What is sent.                                                           *)

Addressed(m) ==
    /\ m.peer \in Peers
    /\ "dst" \in DOMAIN m => m.dst \in RemoteRefs
    /\ "src" \in DOMAIN m => m.src \in Ref

LEMMA AssociatedAddressed ==
    ASSUME NEW s, NEW r \in Ref, s.peer \in Peers, s.remote \in RemoteRefs
    PROVE  /\ Addressed(CCMessage(s, r))
           /\ Addressed(ITMessage(s, r))
           /\ Addressed(ReleaseMessage(s, r))
           /\ Addressed(CREFMessage(s.peer, s.remote))
<1>1. Addressed(CCMessage(s, r)) BY DEF Addressed, CCMessage
<1>2. Addressed(ITMessage(s, r)) BY DEF Addressed, ITMessage
<1>3. Addressed(ReleaseMessage(s, r)) BY DEF Addressed, ReleaseMessage
<1>4. Addressed(CREFMessage(s.peer, s.remote)) BY DEF Addressed, CREFMessage
<1> QED BY <1>1, <1>2, <1>3, <1>4

LEMMA ReplyAddressed ==
    ASSUME NEW m \in SectionMessage, HasSource(m)
    PROVE  /\ Addressed(ReleaseComplete(m))
           /\ Addressed(ErrorReply(m))
           /\ Addressed([type |-> "RLSD", peer |-> m.peer, dst |-> m.src, src |-> m.dst])
<1>m. m.peer \in Peers /\ m.src \in RemoteRefs /\ m.dst \in Ref BY MessageFields
<1>1. Addressed(ReleaseComplete(m)) BY <1>m DEF Addressed, ReleaseComplete
<1>2. Addressed(ErrorReply(m)) BY <1>m DEF Addressed, ErrorReply
<1>3. Addressed([type |-> "RLSD", peer |-> m.peer, dst |-> m.src, src |-> m.dst])
  BY <1>m DEF Addressed
<1> QED BY <1>1, <1>2, <1>3

LEMMA DataAddressed ==
    ASSUME NEW s, NEW n, s.peer \in Peers, s.remote \in RemoteRefs
    PROVE  \A i \in DOMAIN DataMessages(s, n) : Addressed(DataMessages(s, n)[i])
BY DEF DataMessages, Addressed

(* The section a release begins from has an associated peer.               *)
LEMMA BeginReleaseSends ==
    ASSUME NEW r \in Ref, NEW s, s.peer \in Peers, s.remote \in RemoteRefs
    PROVE  /\ BeginRelease(r, s, <<>>) => SentAddressed'
           /\ \A m : BeginRelease(r, s, <<m>>) /\ Addressed(m) => SentAddressed'
<1>1. Addressed(ReleaseMessage(s, r)) BY AssociatedAddressed
<1>2. Append(<<>>, ReleaseMessage(s, r)) = <<ReleaseMessage(s, r)>> OBVIOUS
<1>3. ASSUME NEW m, NEW e
      PROVE  /\ DOMAIN Append(<<m>>, e) = 1 .. 2
             /\ Append(<<m>>, e)[1] = m /\ Append(<<m>>, e)[2] = e
  <2>1. <<m>> \in Seq({m, e}) /\ e \in {m, e} OBVIOUS
  <2>2. Append(<<m>>, e) \in Seq({m, e}) /\ Len(Append(<<m>>, e)) = 2 BY <2>1
  <2>3. Append(<<m>>, e)[1] = m /\ Append(<<m>>, e)[2] = e BY <2>1
  <2> QED BY <2>2, <2>3
<1>4. BeginRelease(r, s, <<>>) => SentAddressed'
  BY <1>1, <1>2 DEF BeginRelease, SentAddressed, Addressed
<1>5. ASSUME NEW m, BeginRelease(r, s, <<m>>), Addressed(m) PROVE SentAddressed'
  <2>1. sent' = Append(<<m>>, ReleaseMessage(s, r)) BY <1>5 DEF BeginRelease
  <2>2. DOMAIN sent' = 1 .. 2 /\ Addressed(sent'[1]) /\ Addressed(sent'[2])
    BY <1>1, <1>3, <1>5, <2>1
  <2>3. \A i \in DOMAIN sent' : Addressed(sent'[i]) BY <2>2
  <2> QED BY <2>3 DEF SentAddressed, Addressed
<1> QED BY <1>4, <1>5

LEMMA AssociatedSection ==
    ASSUME NEW r \in Ref, Good(r),
           section[r].state \in {"incoming", "established", "releasing"}
    PROVE  section[r].peer \in Peers /\ section[r].remote \in RemoteRefs
BY DEF Good, SectionShaped

LEMMA SectionMessageSends ==
    ASSUME Typed, \A q \in Ref : Good(q), NEW m \in SectionMessage, ReceiveSectionMessage(m)
    PROVE  SentAddressed'
<1>m. /\ m.dst \in Ref /\ m.peer \in Peers
      /\ HasSource(m) => m.src \in RemoteRefs
      /\ section[m.dst] \in Section /\ section[m.dst].state \in States
  BY MessageFields DEF Typed, Section
<1>0. ASSUME sent' = <<>> PROVE SentAddressed' BY <1>0 DEF SentAddressed
<1>e. ASSUME NEW e, Addressed(e), sent' = <<e>> PROVE SentAddressed'
  BY <1>e DEF SentAddressed, Addressed
<1>1. CASE UnassignedReference(m)
  <2>1. CASE m.type \in {"CC", "IT"}
    BY <1>1, <1>e, <2>1, ReplyAddressed DEF UnassignedReference, HasSource
  <2>2. CASE m.type = "RLSD"
    BY <1>1, <1>e, <2>2, ReplyAddressed DEF UnassignedReference, HasSource
  <2>3. CASE m.type \notin {"CC", "IT", "RLSD"} BY <1>0, <1>1, <2>3 DEF UnassignedReference
  <2> QED BY <2>1, <2>2, <2>3
<1>2. CASE KeepMismatched(m)
  BY <1>0, <1>2, <1>e, ReplyAddressed DEF KeepMismatched, HasSource
<1>3. CASE ReleaseMismatched(m)
  <2> DEFINE reply == [type |-> "RLSD", peer |-> m.peer, dst |-> m.src, src |-> m.dst]
  <2>1. Addressed(reply) BY <1>3, ReplyAddressed DEF ReleaseMismatched, HasSource
  <2>2. section[m.dst].state \in {"incoming", "established", "releasing"}
    BY <1>m, <1>3 DEF ReleaseMismatched, SourceMismatch, Assigned, CheckPeer, Unused, States
  <2>3. section[m.dst].peer \in Peers /\ section[m.dst].remote \in RemoteRefs
    BY <1>m, <2>2, AssociatedSection
  <2>4. CASE sent' = <<reply, ReleaseMessage(section[m.dst], m.dst)>>
    <3>1. Addressed(ReleaseMessage(section[m.dst], m.dst)) BY <1>m, <2>3, AssociatedAddressed
    <3> QED BY <2>1, <2>4, <3>1 DEF SentAddressed, Addressed
  <2>5. CASE BeginRelease(m.dst, section[m.dst], <<reply>>)
    BY <1>m, <2>1, <2>3, <2>5, BeginReleaseSends
  <2> QED BY <1>3, <2>4, <2>5 DEF ReleaseMismatched
<1>4. CASE ReceiveIncoming(m) BY <1>0, <1>4 DEF ReceiveIncoming, Discard
<1>5. CASE Confirmed(m) BY <1>0, <1>5 DEF Confirmed
<1>6. CASE ReleaseOnConfirm(m)
  <2>1. Associate(section[m.dst], m).peer = m.peer /\ Associate(section[m.dst], m).remote = m.src
    BY <1>m DEF Associate, Section
  <2>2. m.src \in RemoteRefs BY <1>m, <1>6 DEF ReleaseOnConfirm, HasSource
  <2> QED BY <1>m, <1>6, <2>1, <2>2, BeginReleaseSends DEF ReleaseOnConfirm
<1>7. CASE FailRequest(m) BY <1>0, <1>7, <1>e, ReplyAddressed DEF FailRequest, HasSource
<1>8. CASE ReceiveReleasing(m) BY <1>0, <1>8 DEF ReceiveReleasing, Discard
<1>9. CASE ReceiveEstablished(m)
  <2>0. section[m.dst].peer \in Peers /\ section[m.dst].remote \in RemoteRefs
    BY <1>m, <1>9, AssociatedSection DEF ReceiveEstablished, Matches
  <2>1. CASE DiscardEstablished(m) BY <1>0, <2>1 DEF DiscardEstablished
  <2>2. CASE ReceiveData(m) BY <1>0, <2>2 DEF ReceiveData
  <2>3. CASE ReleaseEstablished(m) BY <1>m, <2>0, <2>3, BeginReleaseSends DEF ReleaseEstablished
  <2>4. CASE EndEstablished(m) BY <1>0, <1>e, <2>4, ReplyAddressed DEF EndEstablished, HasSource
  <2> QED BY <1>9, <2>1, <2>2, <2>3, <2>4 DEF ReceiveEstablished
<1> QED BY <1>1, <1>2, <1>3, <1>4, <1>5, <1>6, <1>7, <1>8, <1>9 DEF ReceiveSectionMessage

LEMMA SendStep ==
    ASSUME Typed, \A q \in Ref : Good(q), SentAddressed, [Next]_vars
    PROVE  SentAddressed'
<1>0. ASSUME sent' = <<>> PROVE SentAddressed' BY <1>0 DEF SentAddressed
<1>s. ASSUME sent' = sent PROVE SentAddressed' BY <1>s DEF SentAddressed
<1>e. ASSUME NEW e, Addressed(e), sent' = <<e>> PROVE SentAddressed'
  BY <1>e DEF SentAddressed, Addressed
<1>1. ASSUME NEW r \in Ref, SendInactivityExpires(r) PROVE SentAddressed'
  <2>1. section[r].state = "established"
    BY <1>1, TimerTellsState DEF SendInactivityExpires, Fires, Due
  <2> QED BY <1>1, <1>e, <2>1, AssociatedSection, AssociatedAddressed DEF SendInactivityExpires
<1>2. ASSUME NEW r \in Ref, ReceiveInactivityExpires(r) PROVE SentAddressed'
  <2>1. section[r].state = "established"
    BY <1>2, TimerTellsState DEF ReceiveInactivityExpires, Fires, Due
  <2> QED BY <1>2, <2>1, AssociatedSection, BeginReleaseSends DEF ReceiveInactivityExpires
<1>3. ASSUME NEW r \in Ref, ReleaseExpires(r) \/ RepeatExpires(r) PROVE SentAddressed'
  <2>1. section[r].state = "releasing"
    BY <1>3, TimerTellsState DEF ReleaseExpires, RepeatExpires, Fires, Due
  <2> QED BY <1>3, <1>e, <2>1, AssociatedSection, AssociatedAddressed
          DEF ReleaseExpires, RepeatExpires, RepeatRelease
<1>4. CASE Fire
  BY <1>0, <1>1, <1>2, <1>3, <1>4 DEF Fire, FireOf, EstablishmentExpires, GiveUpExpires, FreezeExpires
<1>5. ASSUME NEW peer \in Peers, Connect(peer) PROVE SentAddressed'
  <2>1. PICK r \in Ref : sent' = <<CRMessage(peer, r)>> BY <1>5 DEF Connect
  <2>2. Addressed(CRMessage(peer, r)) BY DEF CRMessage, Addressed
  <2> QED BY <1>e, <2>1, <2>2
<1>6. ASSUME NEW r \in Ref, Accept(r) PROVE SentAddressed'
  BY <1>6, <1>e, AssociatedSection, AssociatedAddressed DEF Accept
<1>7. ASSUME NEW r \in Ref, NEW n \in 1 .. MaxDataLength, SendData(r, n) PROVE SentAddressed'
  <2>1. sent' = DataMessages(section[r], n) BY <1>7 DEF SendData
  <2>2. section[r].peer \in Peers /\ section[r].remote \in RemoteRefs
    BY <1>7, AssociatedSection DEF SendData
  <2> QED BY <2>1, <2>2, DataAddressed DEF SentAddressed, Addressed
<1>8. ASSUME NEW r \in Ref, Disconnect(r) PROVE SentAddressed'
  <2>1. CASE DisconnectIncoming(r)
    BY <1>e, <2>1, AssociatedSection, AssociatedAddressed DEF DisconnectIncoming
  <2>2. CASE DisconnectOutgoing(r) BY <1>0, <2>2 DEF DisconnectOutgoing
  <2>3. CASE DisconnectEstablished(r)
    BY <2>3, AssociatedSection, BeginReleaseSends DEF DisconnectEstablished
  <2> QED BY <1>8, <2>1, <2>2, <2>3 DEF Disconnect
<1>9. ASSUME NEW m \in CR, ReceiveConnectionRequest(m) PROVE SentAddressed'
  <2>1. CASE AdmitRequest(m) BY <1>0, <2>1 DEF AdmitRequest
  <2>2. CASE RefuseRequest(m)
    <3>1. Originator(m) \in Peers /\ m.src \in RemoteRefs BY DEF CR, Originator
    <3>2. Addressed(CREFMessage(Originator(m), m.src)) BY <3>1 DEF CREFMessage, Addressed
    <3> QED BY <1>e, <2>2, <3>2 DEF RefuseRequest
  <2> QED BY <1>9, <2>1, <2>2 DEF ReceiveConnectionRequest
<1> QED BY <1>0, <1>s, <1>4, <1>5, <1>6, <1>7, <1>8, <1>9, SectionMessageSends
        DEF Next, Tick, Call, HandleTimeout, UserRequest, HandleTransfer, vars

(* Nothing is sent without a peer, and every reference sent is that peer's *)
(* own for the section, or this stack's.                                   *)
THEOREM SentAlwaysAddressed == Spec => []SentAddressed
<1>1. Init => SentAddressed BY DEF Init, SentAddressed
<1>2. Inv /\ SentAddressed /\ [Next]_vars => SentAddressed' BY InvIsGood, SendStep
<1> QED BY <1>1, <1>2, Invariant, PTL DEF Spec

-----------------------------------------------------------------------------
(* The allocator: the probes i from FirstProbe on.                         *)

Probe(i) == (FirstProbe + i) % ReferenceLimit

(* A sum that exceeds the last reference starts again at zero.             *)
LEMMA Wrapped ==
    ASSUME NEW n \in Nat, NEW f \in 0 .. n - 1, NEW i \in 0 .. n - 1
    PROVE  (f + i) % n = IF f + i < n THEN f + i ELSE f + i - n
<1>1. n > 0 /\ f + i \in Nat /\ f + i < 2 * n OBVIOUS
<1>2. ASSUME NEW a \in Nat, a < n PROVE a % n = a BY <1>1, <1>2
<1>3. ASSUME NEW a \in Nat, a >= n, a < 2 * n PROVE a % n = a - n
  BY <1>1, <1>3
<1> QED BY <1>1, <1>2, <1>3

(* ReferenceLimit probes meet every reference, each once.                  *)
LEMMA ProbesMeetAll ==
    ASSUME Typed
    PROVE  /\ FirstProbe \in Ref
           /\ \A i \in Ref : Probe(i) \in Ref
           /\ \A i, j \in Ref : Probe(i) = Probe(j) => i = j
           /\ \A r \in Ref : \E i \in Ref : Probe(i) = r
<1> DEFINE f == FirstProbe
           n == ReferenceLimit
<1>1. n \in Nat /\ n > 0 BY LimitsAssumption
<1>2. f \in 0 .. n - 1 BY <1>1 DEF Typed, FirstProbe
<1>3. \A i \in 0 .. n - 1 : Probe(i) = IF f + i < n THEN f + i ELSE f + i - n
  BY <1>1, <1>2, Wrapped DEF Probe
<1> HIDE DEF f, n
<1>4. \A r \in 0 .. n - 1 : \E i \in 0 .. n - 1 :
        r = IF f + i < n THEN f + i ELSE f + i - n
  <2> SUFFICES ASSUME NEW r \in 0 .. n - 1
               PROVE  \E i \in 0 .. n - 1 : r = IF f + i < n THEN f + i ELSE f + i - n
    OBVIOUS
  <2> DEFINE i == IF r >= f THEN r - f ELSE r - f + n
  <2>1. i \in 0 .. n - 1 /\ r = IF f + i < n THEN f + i ELSE f + i - n BY <1>1, <1>2
  <2> QED BY <2>1
<1>5. \A i \in 0 .. n - 1 : Probe(i) \in 0 .. n - 1 BY <1>1, <1>2, <1>3
<1>6. \A i, j \in 0 .. n - 1 : Probe(i) = Probe(j) => i = j BY <1>1, <1>2, <1>3
<1>7. \A r \in 0 .. n - 1 : \E i \in 0 .. n - 1 : Probe(i) = r
  <2> TAKE r \in 0 .. n - 1
  <2>1. PICK i \in 0 .. n - 1 : r = IF f + i < n THEN f + i ELSE f + i - n BY <1>4
  <2>2. Probe(i) = r BY <1>3, <2>1
  <2> QED BY <2>2
<1>8. Ref = 0 .. n - 1 BY DEF Ref, n
<1> QED BY <1>2, <1>5, <1>6, <1>7, <1>8 DEF f

(* Whatever next and the occupied references are, one of the first         *)
(* occupied + 1 probes finds a free one.                                   *)
LEMMA ProbesSuffice == Typed => AllocationComplete
<1> SUFFICES ASSUME Typed, active < MaxConnections, Occupied # Ref
             PROVE  \E r \in Ref : CandidateReference(r)
  BY DEF AllocationComplete
<1> DEFINE Free == {i \in Ref : Probe(i) \notin Occupied}
<1>1. Occupied \subseteq Ref BY DEF Occupied
<1>2. PICK r \in Ref : r \notin Occupied BY <1>1
<1>3. Free \subseteq Nat /\ Free # {}
  <2>1. PICK i \in Ref : Probe(i) = r BY ProbesMeetAll
  <2> QED BY <1>2, <2>1, LimitsAssumption DEF Ref
<1>4. PICK i \in Free : \A j \in Free : i <= j
  <2> HIDE DEF Free
  <2> QED BY <1>3, SmallestOfNaturals
<1>5. i \in Nat /\ i < ReferenceLimit /\ ReferenceLimit \in Nat
  BY <1>4, LimitsAssumption DEF Ref
<1>6. \A j \in 0 .. i - 1 : j \in Ref /\ Probe(j) \in Occupied
  BY <1>4, <1>5 DEF Ref
<1>7. IsFiniteSet(Occupied) /\ Cardinality(Occupied) \in Nat
  <2>1. IsFiniteSet(Ref) BY <1>5, FS_Interval DEF Ref
  <2>2. IsFiniteSet(Occupied) BY <1>1, <2>1, FS_Subset
  <2> QED BY <2>2, FS_CardinalityType
<1>8. i <= Cardinality(Occupied)
  <2> DEFINE Before == 0 .. i - 1
             g == [j \in Before |-> Probe(j)]
  <2>1. g \in [Before -> Occupied] BY <1>6
  <2>2. \A j, k \in Before : g[j] = g[k] => j = k BY <1>6, ProbesMeetAll
  <2>3. g \in Injection(Before, Occupied) BY <2>1, <2>2 DEF Injection, IsInjective
  <2>4. Cardinality(Before) <= Cardinality(Occupied) BY <1>7, <2>3, FS_Injection
  <2>5. Cardinality(Before) = i BY <1>5, FS_Interval
  <2> QED BY <2>4, <2>5
<1>9. i \in 0 .. ProbeLimit - 1 BY <1>5, <1>7, <1>8 DEF ProbeLimit
<1>10. Probe(i) \in Ref /\ Probe(i) \notin Occupied BY <1>4, ProbesMeetAll
<1>11. CandidateReference(Probe(i)) BY <1>6, <1>9, <1>10 DEF CandidateReference, Probe
<1> QED BY <1>10, <1>11

(* A free reference is found whenever there is one and the limit is not    *)
(* reached, within the occupied + 1 probes of candidateReference.          *)
THEOREM AllocatorNeverGivesUp == Spec => []AllocationComplete
<1>1. TypeOK => AllocationComplete BY TypedIsTypeOK, ProbesSuffice
<1> QED BY <1>1, TypeCorrect, PTL

-----------------------------------------------------------------------------
(* The reassembly buffers.                                                 *)

SoundBuffer(s) ==
    /\ s.len <= s.cap /\ s.cap <= MaxDataLength
    /\ s.cap = 0 \/ (s.state = "established" /\ s.cap < 2 * s.len)

Capacities == [r \in Ref |-> section[r].cap]

LEMMA BuffersApart ==
    BuffersAccounted <=> /\ octets = SumOver(Capacities, Ref)
                         /\ octets <= MaxReassemblyOctets
                         /\ \A r \in Ref : SoundBuffer(section[r])
BY DEF BuffersAccounted, Capacities, SoundBuffer

(* A buffer that grows holds the segment, stays within MaxDataLength and   *)
(* below twice its data; Affordable can only take octets off the doubling. *)
LEMMA NewCapHolds ==
    ASSUME NEW s \in Section, NEW n \in Nat, n > 0, SoundBuffer(s), WithinLimit(s, n)
    PROVE  /\ s.len + n <= NewCap(s, n) /\ NewCap(s, n) <= MaxDataLength
           /\ NewCap(s, n) < 2 * (s.len + n)
<1> DEFINE length == s.len + n
           doubled == IF s.cap > MaxDataLength \div 2 THEN MaxDataLength
                      ELSE IF length > 2 * s.cap THEN length ELSE 2 * s.cap
<1>1. s.len \in Nat /\ s.cap \in Nat /\ length \in Nat /\ length > 0 BY DEF Section
<1>2. length <= MaxDataLength /\ MaxDataLength \in Nat
  BY <1>1, LimitsAssumption DEF WithinLimit
<1>3. CASE length <= s.cap
  <2>1. NewCap(s, n) = s.cap BY <1>3 DEF NewCap
  <2> QED BY <1>1, <1>3, <2>1 DEF SoundBuffer
<1>4. CASE length > s.cap
  <2>1. length <= doubled /\ doubled <= MaxDataLength /\ doubled < 2 * length
    BY <1>1, <1>2, <1>4
  <2>2. NewCap(s, n) \in {doubled, length} BY <1>1, <1>4 DEF NewCap, Affordable
  <2> HIDE DEF doubled
  <2> QED BY <1>1, <1>2, <2>1, <2>2
<1> QED BY <1>1, <1>3, <1>4

LEMMA ClosedHoldsNothing ==
    ASSUME NEW s \in Section, SoundBuffer(s), s.state # "established"
    PROVE  s.cap = 0 /\ s.len = 0
BY DEF SoundBuffer, Section

(* What one step may do to the buffers: the account follows the only one   *)
(* that changes.                                                           *)
BufferMoves(r) ==
    /\ KeepsOthers(r)
    /\ octets' = octets - section[r].cap + section'[r].cap
    /\ octets' <= MaxReassemblyOctets
    /\ SoundBuffer(section'[r])

SoundBuffers ==
    /\ Typed
    /\ octets <= MaxReassemblyOctets
    /\ \A r \in Ref : Good(r) /\ SoundBuffer(section[r])

LEMMA BufferStays ==
    ASSUME SoundBuffers, UNCHANGED <<section, octets>>
    PROVE  \E r \in Ref : BufferMoves(r)
<1>1. 0 \in Ref BY LimitsAssumption DEF Ref
<1>2. section[0].cap \in Int /\ octets \in Int BY <1>1 DEF SoundBuffers, Typed, Section
<1>3. BufferMoves(0) BY <1>1, <1>2 DEF SoundBuffers, BufferMoves, KeepsOthers
<1> QED BY <1>1, <1>3

LEMMA BufferDropped ==
    ASSUME SoundBuffers, NEW r \in Ref, NEW s, section' = [section EXCEPT ![r] = s],
           s.cap = 0, s.len = 0, octets' = OctetsWithout(r)
    PROVE  BufferMoves(r)
<1>1. section[r].cap \in Nat /\ octets \in Int /\ section'[r] = s /\ KeepsOthers(r)
  BY DEF SoundBuffers, Typed, Section, KeepsOthers
<1>2. octets' = octets - section[r].cap /\ octets <= MaxReassemblyOctets
      /\ MaxReassemblyOctets \in Int
  BY LimitsAssumption DEF OctetsWithout, SoundBuffers
<1>3. SoundBuffer(s) BY LimitsAssumption DEF SoundBuffer
<1> QED BY <1>1, <1>2, <1>3 DEF BufferMoves

LEMMA FreezeDrops ==
    ASSUME SoundBuffers, NEW r \in Ref, Freeze(r)
    PROVE  BufferMoves(r)
<1> DEFINE s == NewSection("frozen", section[r].peer, section[r].remote)
<1>1. s.cap = 0 /\ s.len = 0 BY DEF NewSection
<1>2. section' = [section EXCEPT ![r] = s] /\ octets' = OctetsWithout(r) BY DEF Freeze
<1> HIDE DEF s
<1> QED BY <1>1, <1>2, BufferDropped

LEMMA BeginReleaseDrops ==
    ASSUME SoundBuffers, NEW r \in Ref, NEW s, NEW replies, BeginRelease(r, s, replies)
    PROVE  BufferMoves(r)
<1> DEFINE t == NewSection("releasing", s.peer, s.remote)
<1>1. t.cap = 0 /\ t.len = 0 BY DEF NewSection
<1>2. section' = [section EXCEPT ![r] = t] /\ octets' = OctetsWithout(r) BY DEF BeginRelease
<1> HIDE DEF t
<1> QED BY <1>1, <1>2, BufferDropped

(* A section that is not open had no buffer to account for.                *)
LEMMA ClosedMoves ==
    ASSUME SoundBuffers, NEW r \in Ref, section[r].state # "established",
           NEW s, section' = [section EXCEPT ![r] = s],
           s.cap = 0 \/ s.cap = section[r].cap, s.len = 0 \/ s.len = section[r].len,
           octets' = octets
    PROVE  BufferMoves(r)
<1>1. section[r] \in Section /\ octets \in Int BY DEF SoundBuffers, Typed
<1>2. section[r].cap = 0 /\ section[r].len = 0 BY <1>1, ClosedHoldsNothing DEF SoundBuffers
<1>3. octets' = OctetsWithout(r) BY <1>1, <1>2 DEF OctetsWithout
<1> QED BY <1>2, <1>3, BufferDropped

LEMMA DataMoves ==
    ASSUME SoundBuffers, NEW m \in SectionMessage, ReceiveData(m),
           section[m.dst].state = "established"
    PROVE  BufferMoves(m.dst)
<1> DEFINE r == m.dst
           s == section[r]
<1>0. m.len \in DataLengths BY MessageFields DEF ReceiveData
<1>1. r \in Ref /\ s \in Section /\ m.len \in Nat /\ m.len > 0 /\ SoundBuffer(s)
      /\ octets \in Int
  <2>1. r \in Ref BY MessageFields
  <2>2. \A n \in DataLengths : n \in Nat /\ n > 0 BY LimitsAssumption
  <2> QED BY <1>0, <2>1, <2>2 DEF SoundBuffers, Typed
<1>2. CASE section' = [section EXCEPT ![r] = Emptied(s)] /\ octets' = OctetsWithout(r)
  <2>1. Emptied(s).cap = 0 /\ Emptied(s).len = 0 BY <1>1 DEF Emptied, Section
  <2> HIDE DEF r, s
  <2>2. BufferMoves(r) BY <1>1, <1>2, <2>1, BufferDropped
  <2> QED BY <2>2 DEF r
<1>3. CASE /\ section' = [section EXCEPT ![r] = Buffered(s, m.len)]
           /\ octets' = octets + NewCap(s, m.len) - s.cap
  <2>1. WithinLimit(s, m.len) /\ WithinBudget(s, m.len) BY DEF ReceiveData
  <2>2. NewCap(s, m.len) \in Nat BY <1>1, NewCapType
  <2>3. /\ s.len + m.len <= NewCap(s, m.len) /\ NewCap(s, m.len) <= MaxDataLength
        /\ NewCap(s, m.len) < 2 * (s.len + m.len)
    BY <1>1, <2>1, NewCapHolds
  <2>4. section'[r] = Buffered(s, m.len) /\ KeepsOthers(r)
    BY <1>1, <1>3 DEF SoundBuffers, Typed, KeepsOthers
  <2>5. /\ section'[r].state = "established"
        /\ section'[r].len = s.len + m.len /\ section'[r].cap = NewCap(s, m.len)
    BY <1>1, <2>4 DEF Buffered, Section
  <2>6. SoundBuffer(section'[r]) BY <2>3, <2>5 DEF SoundBuffer
  <2>7. octets' <= MaxReassemblyOctets
    BY <1>1, <1>3, <2>1, <2>2, LimitsAssumption DEF WithinBudget, Available, Section
  <2>8. octets' = octets - s.cap + section'[r].cap BY <1>1, <1>3, <2>2, <2>5 DEF Section
  <2> QED BY <2>4, <2>6, <2>7, <2>8 DEF BufferMoves
<1> QED BY <1>2, <1>3 DEF ReceiveData

LEMMA SectionMessageBuffers ==
    ASSUME SoundBuffers, NEW m \in SectionMessage, ReceiveSectionMessage(m)
    PROVE  \E r \in Ref : BufferMoves(r)
<1>m. m.dst \in Ref /\ section[m.dst] \in Section BY MessageFields DEF SoundBuffers, Typed
<1>s. ASSUME UNCHANGED connVars PROVE \E r \in Ref : BufferMoves(r)
  BY <1>s, BufferStays DEF connVars
<1>1. CASE UnassignedReference(m) BY <1>1, <1>s DEF UnassignedReference
<1>2. CASE KeepMismatched(m) BY <1>2, <1>s DEF KeepMismatched
<1>3. CASE ReleaseMismatched(m) BY <1>m, <1>3, <1>s, BeginReleaseDrops DEF ReleaseMismatched
<1>4. CASE ReceiveIncoming(m) BY <1>4, <1>s DEF ReceiveIncoming, Discard
<1>5. CASE Confirmed(m)
  <2> DEFINE s == [Associate(section[m.dst], m) EXCEPT !.state = "established"]
  <2>1. s.cap = section[m.dst].cap /\ s.len = section[m.dst].len BY <1>m DEF Associate, Section
  <2>2. /\ section' = [section EXCEPT ![m.dst] = s] /\ octets' = octets
        /\ section[m.dst].state # "established"
    BY <1>5 DEF Confirmed, Matches
  <2> HIDE DEF s
  <2> QED BY <1>m, <2>1, <2>2, ClosedMoves
<1>6. CASE ReleaseOnConfirm(m) BY <1>m, <1>6, BeginReleaseDrops DEF ReleaseOnConfirm
<1>7. CASE FailRequest(m) BY <1>m, <1>7, FreezeDrops DEF FailRequest
<1>8. CASE ReceiveReleasing(m)
  BY <1>m, <1>8, <1>s, FreezeDrops DEF ReceiveReleasing, Discard
<1>9. CASE ReceiveEstablished(m)
  <2>1. section[m.dst].state = "established" BY <1>9 DEF ReceiveEstablished, Matches
  <2>2. CASE DiscardEstablished(m) BY <2>2, BufferStays DEF DiscardEstablished
  <2>3. CASE ReceiveData(m) BY <1>m, <2>1, <2>3, DataMoves
  <2>4. CASE ReleaseEstablished(m) BY <1>m, <2>4, BeginReleaseDrops DEF ReleaseEstablished
  <2>5. CASE EndEstablished(m) BY <1>m, <2>5, FreezeDrops DEF EndEstablished
  <2> QED BY <1>9, <2>2, <2>3, <2>4, <2>5 DEF ReceiveEstablished
<1> QED BY <1>1, <1>2, <1>3, <1>4, <1>5, <1>6, <1>7, <1>8, <1>9 DEF ReceiveSectionMessage

LEMMA BuffersMove ==
    ASSUME SoundBuffers, [Next]_vars
    PROVE  \E r \in Ref : BufferMoves(r)
<1>s. ASSUME UNCHANGED <<section, octets>> PROVE \E r \in Ref : BufferMoves(r)
  BY <1>s, BufferStays
<1>r. ASSUME NEW r \in Ref, NEW state, NEW peer, NEW remote,
             CandidateReference(r), Register(r, NewSection(state, peer, remote))
      PROVE  BufferMoves(r)
  <2> DEFINE s == NewSection(state, peer, remote)
  <2>1. section[r].state # "established" BY <1>r, CandidateIdle
  <2>2. s.cap = 0 /\ s.len = 0 BY DEF NewSection
  <2>3. section' = [section EXCEPT ![r] = s] /\ octets' = octets BY <1>r DEF Register
  <2> HIDE DEF s
  <2> QED BY <2>1, <2>2, <2>3, ClosedMoves
<1>1. ASSUME NEW r \in Ref, FreezeExpires(r) PROVE BufferMoves(r)
  <2>1. section[r].state # "established"
    BY <1>1, TimerTellsState DEF FreezeExpires, Fires, Due, SoundBuffers
  <2>2. NoSection.cap = 0 /\ NoSection.len = 0 BY DEF NoSection, NewSection
  <2> QED BY <1>1, <2>1, <2>2, ClosedMoves DEF FreezeExpires
<1>2. ASSUME NEW r \in Ref, Accept(r) PROVE BufferMoves(r)
  <2> DEFINE s == [section[r] EXCEPT !.state = "established"]
  <2>1. s.cap = section[r].cap /\ s.len = section[r].len BY DEF SoundBuffers, Typed, Section
  <2>2. section' = [section EXCEPT ![r] = s] /\ octets' = octets /\ section[r].state = "incoming"
    BY <1>2 DEF Accept
  <2> HIDE DEF s
  <2> QED BY <2>1, <2>2, ClosedMoves
<1>3. ASSUME NEW r \in Ref, DisconnectOutgoing(r) PROVE BufferMoves(r)
  <2> DEFINE s == [section[r] EXCEPT !.disconnect = TRUE]
  <2>1. s.cap = section[r].cap /\ s.len = section[r].len BY DEF SoundBuffers, Typed, Section
  <2>2. section' = [section EXCEPT ![r] = s] /\ octets' = octets /\ section[r].state = "outgoing"
    BY <1>3 DEF DisconnectOutgoing
  <2> HIDE DEF s
  <2> QED BY <2>1, <2>2, ClosedMoves
<1>4. CASE Fire
  BY <1>s, <1>1, <1>4, FreezeDrops, BeginReleaseDrops
  DEF Fire, FireOf, EstablishmentExpires, SendInactivityExpires, ReceiveInactivityExpires,
      ReleaseExpires, RepeatExpires, GiveUpExpires
<1>5. CASE UserRequest
  <2>1. ASSUME NEW peer \in Peers, Connect(peer) PROVE \E r \in Ref : BufferMoves(r)
    BY <1>r, <2>1 DEF Connect
  <2>2. ASSUME NEW r \in Ref, Disconnect(r) PROVE BufferMoves(r)
    BY <1>3, <2>2, FreezeDrops, BeginReleaseDrops
    DEF Disconnect, DisconnectIncoming, DisconnectEstablished
  <2>3. ASSUME NEW r \in Ref, NEW n \in 1 .. MaxDataLength, SendData(r, n)
        PROVE  UNCHANGED <<section, octets>>
    BY <2>3 DEF SendData
  <2> QED BY <1>s, <1>2, <1>5, <2>1, <2>2, <2>3 DEF UserRequest
<1>6. CASE HandleTransfer
  <2>1. ASSUME NEW m \in CR, ReceiveConnectionRequest(m) PROVE \E r \in Ref : BufferMoves(r)
    BY <1>r, <1>s, <2>1 DEF ReceiveConnectionRequest, AdmitRequest, RefuseRequest, connVars
  <2> QED BY <1>6, <2>1, SectionMessageBuffers DEF HandleTransfer
<1> QED BY <1>s, <1>4, <1>5, <1>6 DEF Next, Tick, Call, HandleTimeout, vars, connVars

LEMMA CapacitiesFinite ==
    ASSUME Typed
    PROVE  IsFiniteSet(Ref) /\ \A r \in Ref : Capacities[r] \in Int /\ Capacities[r] >= 0
<1>1. IsFiniteSet(Ref) BY FS_Interval, LimitsAssumption DEF Ref
<1> QED BY <1>1 DEF Typed, Section, Capacities

LEMMA BuffersStep ==
    ASSUME Inv, BuffersAccounted, [Next]_vars
    PROVE  BuffersAccounted'
<1>1. Typed /\ \A q \in Ref : Good(q) BY InvIsGood
<1>2. octets = SumOver(Capacities, Ref) /\ SoundBuffers BY <1>1, BuffersApart DEF SoundBuffers
<1>3. PICK r \in Ref : BufferMoves(r) BY <1>2, BuffersMove
<1>4. Typed' BY <1>1, TypedStep
<1>5. \A q \in Ref : Capacities'[q] \in Int BY <1>4 DEF Typed, Section, Capacities
<1>6. \A q \in Ref \ {r} : Capacities'[q] = Capacities[q]
  BY <1>3 DEF BufferMoves, KeepsOthers, Capacities
<1>7. SumOver(Capacities', Ref) = SumOver(Capacities, Ref) - Capacities[r] + Capacities'[r]
  <2> DEFINE f == Capacities
             g == Capacities'
  <2>1. /\ IsFiniteSet(Ref) /\ \A q \in Ref : f[q] \in Int /\ g[q] \in Int
        /\ \A q \in Ref \ {r} : g[q] = f[q]
    BY <1>1, <1>5, <1>6, CapacitiesFinite
  <2> HIDE DEF f, g
  <2>2. SumOver(g, Ref) = SumOver(f, Ref) - f[r] + g[r] BY <2>1, SumChange
  <2> QED BY <2>2 DEF f, g
<1>8. octets' = SumOver(Capacities', Ref)
  BY <1>2, <1>3, <1>7 DEF BufferMoves, Capacities
<1>9. \A q \in Ref : SoundBuffer(section'[q])
  BY <1>2, <1>3 DEF BufferMoves, KeepsOthers, SoundBuffers
<1> QED BY <1>3, <1>8, <1>9 DEF BufferMoves, BuffersAccounted, Capacities, SoundBuffer

(* conn.reassemblyOctets is what the buffers of the connections hold, it   *)
(* never exceeds MaxReassemblyOctets, and only an open connection holds a  *)
(* buffer, of less than twice its data.                                    *)
THEOREM BuffersAlwaysAccounted == Spec => []BuffersAccounted
<1>1. Init => BuffersAccounted
  <2> SUFFICES ASSUME Init PROVE BuffersAccounted OBVIOUS
  <2>1. \A r \in Ref : section[r].cap = 0 /\ section[r].len = 0
    BY DEF Init, NoSection, NewSection
  <2>2. \A r \in Ref : SoundBuffer(section[r]) BY <2>1, LimitsAssumption DEF SoundBuffer
  <2>3. IsFiniteSet(Ref) BY FS_Interval, LimitsAssumption DEF Ref
  <2>4. SumOver(Capacities, Ref) = 0 BY <2>1, <2>3, SumOfZeros DEF Capacities
  <2> QED BY <2>2, <2>4, BuffersApart, LimitsAssumption DEF Init
<1>2. Inv /\ BuffersAccounted /\ [Next]_vars => BuffersAccounted' BY BuffersStep
<1> QED BY <1>1, <1>2, Invariant, PTL DEF Spec

(* A segment that is turned away asks for no more than its own octets: the *)
(* doubling is given up first.                                             *)
LEMMA RefusedAtItsLength ==
    ASSUME NEW s \in Section, NEW n \in Nat, octets \in Int, ~WithinBudget(s, n),
           octets <= MaxReassemblyOctets
    PROVE  s.len + n - s.cap > MaxReassemblyOctets - octets
<1> DEFINE length == s.len + n
           doubled == IF s.cap > MaxDataLength \div 2 THEN MaxDataLength
                      ELSE IF length > 2 * s.cap THEN length ELSE 2 * s.cap
<1>1. s.len \in Nat /\ s.cap \in Nat /\ length \in Nat /\ MaxReassemblyOctets \in Int
  BY LimitsAssumption DEF Section
<1>2. NewCap(s, n) \in Nat /\ NewCap(s, n) - s.cap > MaxReassemblyOctets - octets
  BY <1>1, NewCapType DEF WithinBudget, Available
<1>3. CASE length <= s.cap
  <2>1. NewCap(s, n) = s.cap BY <1>3 DEF NewCap
  <2> QED BY <1>1, <1>2, <2>1
<1>4. CASE length > s.cap
  <2>1. NewCap(s, n) = Affordable(s.cap, doubled, length) BY <1>1, <1>4 DEF NewCap
  <2> HIDE DEF doubled
  <2> QED BY <1>1, <1>2, <2>1 DEF Affordable, Available
<1> QED BY <1>1, <1>3, <1>4

LEMMA CrowdedWhenRefused ==
    ASSUME Typed, BuffersAccounted
    PROVE  RefusedOnlyWhenCrowded
<1> SUFFICES ASSUME NEW r \in Ref, NEW n \in DataLengths, ~WithinBudget(section[r], n)
             PROVE  2 * SumOver(Lengths, Ref \ {r}) + section[r].len + n > MaxReassemblyOctets
  BY DEF RefusedOnlyWhenCrowded
<1> DEFINE others == SumOver(Lengths, Ref \ {r})
           held == SumOver(Capacities, Ref \ {r})
           s == section[r]
<1>1. /\ s \in Section /\ s.len \in Nat /\ s.cap \in Nat /\ n \in Nat
      /\ octets \in Int /\ MaxReassemblyOctets \in Int
  BY LimitsAssumption DEF Typed, Section
<1>2. IsFiniteSet(Ref) /\ IsFiniteSet(Ref \ {r}) BY CapacitiesFinite, FS_RemoveElement
<1>3. \A q \in Ref : /\ Lengths[q] \in Int /\ Capacities[q] \in Int
                     /\ Capacities[q] <= 2 * Lengths[q]
  <2> TAKE q \in Ref
  <2>1. section[q].len \in Nat /\ section[q].cap \in Nat BY DEF Typed, Section
  <2>2. section[q].cap = 0 \/ section[q].cap < 2 * section[q].len BY DEF BuffersAccounted
  <2> QED BY <2>1, <2>2 DEF Lengths, Capacities
<1>4. held <= 2 * others /\ held \in Int /\ others \in Int
  BY <1>2, <1>3, SumAtMostTwice, SumType
<1>5. octets = s.cap + held
  <2>1. octets = SumOver(Capacities, Ref) BY BuffersApart
  <2>2. SumOver(Capacities, Ref) = Capacities[r] + held BY <1>2, <1>3, SumRemove
  <2> QED BY <2>1, <2>2 DEF Capacities
<1>6. s.len + n - s.cap > MaxReassemblyOctets - octets
  BY <1>1, RefusedAtItsLength DEF BuffersAccounted
<1> HIDE DEF others, held, s
<1>7. 2 * others + s.len + n > MaxReassemblyOctets BY <1>1, <1>4, <1>5, <1>6
<1> QED BY <1>7 DEF others, s

(* No segment is refused unless the connections would need more than the   *)
(* budget with every other buffer at twice its data.                       *)
THEOREM RefusalsAreJustified == Spec => []RefusedOnlyWhenCrowded
<1>1. Inv /\ BuffersAccounted => RefusedOnlyWhenCrowded BY InvIsGood, CrowdedWhenRefused
<1> QED BY <1>1, Invariant, BuffersAlwaysAccounted, PTL

-----------------------------------------------------------------------------
(* What the other end of a connection can rely on: for how long a section  *)
(* stays, and what it sends at each step.  Here the clock is read and the  *)
(* timers fire without delay.                                              *)

Prompt == MaxLag = 0 /\ MaxLate = 0

Lifetime == InactivityReceiveTimeout + ReleaseTimeout + ReleaseGiveUpTimeout

Connected(r) == section[r].state \in {"established", "releasing"}

(* Ticks after which r is frozen if nothing more arrives for it.           *)
Left(r) ==
    IF section[r].state = "established"
    THEN timer[r]["receiveInactivity"] + ReleaseTimeout + ReleaseGiveUpTimeout
    ELSE IF "release" \in DOMAIN timer[r] THEN timer[r]["release"] + ReleaseGiveUpTimeout
    ELSE timer[r]["giveUp"]

Running(r) ==
    /\ \A k \in DOMAIN timer[r] : timer[r][k] >= 0
    /\ Connected(r) => Left(r) <= Lifetime

Kept(r) == section'[r] = section[r] /\ timer'[r] = timer[r]

Elsewhere(r) == \A q \in Ref \ {r} : Kept(q)

Release(peer, remote, r) == [type |-> "RLSD", peer |-> peer, dst |-> remote, src |-> r]

(* r goes on no longer than it would have.                                 *)
Wanes(r) ==
    /\ Connected(r) /\ Connected(r)'
    /\ section[r].state = "releasing" => section'[r].state = "releasing"
    /\ section'[r].remote = section[r].remote
    /\ Left(r)' <= Left(r)

Renews(r) ==
    /\ section[r].state = "established" /\ section'[r].state = "established"
    /\ section'[r].remote = section[r].remote

Retires(r) ==
    /\ section[r].state \notin Unused /\ section'[r].state = "frozen"
    /\ timer'[r]["freeze"] = ReferenceFreeze

Wakes(r) ==
    /\ section[r].state = "frozen" /\ timer[r]["freeze"] <= 0
    /\ section'[r].state = "idle"

TimerWork(r) ==
    \/ Retires(r) /\ sent' = <<>>
    \/ Wakes(r) /\ sent' = <<>>
    \/ /\ Wanes(r) /\ section[r].state = "established" /\ section'[r].state = "established"
       /\ sent' = <<ITMessage(section[r], r)>>
    \/ /\ Wanes(r) /\ section'[r].state = "releasing"
       /\ sent' = <<ReleaseMessage(section[r], r)>>

UserLeaves(r) ==
    \/ /\ section[r].state = "incoming" /\ Retires(r)
       /\ sent' = <<CREFMessage(section[r].peer, section[r].remote)>>
    \/ section[r].state = "outgoing" /\ section'[r].state = "outgoing" /\ sent' = <<>>
    \/ /\ section[r].state = "established" /\ section'[r].state = "releasing" /\ Wanes(r)
       /\ sent' = <<ReleaseMessage(section[r], r)>>

(* A request is admitted or refused.                                       *)
Admits(m) ==
    /\ sent' = <<>>
    /\ \E r \in Ref : /\ section[r].state = "idle" /\ section'[r].state = "incoming"
                      /\ section'[r].remote = m.src
                      /\ Elsewhere(r)

Refuses(m) ==
    /\ sent' = <<CREFMessage(Originator(m), m.src)>>
    /\ \A r \in Ref : Kept(r)

(* A message for section r, one way or the other.                          *)
Ignores(m, r) ==
    /\ Kept(r)
    /\ \/ sent' = <<>>
       \/ m.type \in {"CC", "IT", "RLSD"} /\ sent' = <<ErrorReply(m)>>
       \/ section[r].state \in Unused /\ m.type = "RLSD" /\ sent' = <<ReleaseComplete(m)>>

Objects(m, r) ==
    /\ section[r].state \in {"incoming", "established", "releasing"}
    /\ m.type = "IT" /\ m.src # section[r].remote
    /\ section'[r].state = "releasing" /\ section'[r].remote = section[r].remote
    /\ section[r].state # "incoming" => Wanes(r)
    /\ sent' = <<Release(m.peer, m.src, r), ReleaseMessage(section[r], r)>>

Joins(m, r) ==
    /\ section[r].state = "outgoing" /\ m.type = "CC"
    /\ section'[r].remote = m.src
    /\ \/ section'[r].state = "established" /\ sent' = <<>>
       \/ section'[r].state = "releasing" /\ sent' = <<Release(m.peer, m.src, r)>>

Closes(m, r) ==
    /\ Retires(r)
    /\ \/ sent' = <<>>
       \/ m.type = "RLSD" /\ sent' = <<ReleaseComplete(m)>>

Continues(m, r) ==
    \/ /\ Renews(r) /\ sent' = <<>>
       /\ m.type \in {"CC", "CREF", "RLC", "IT", "DT1"}
       /\ m.type = "IT" => m.src = section[r].remote
    \/ /\ Wanes(r) /\ section'[r].state = "releasing"
       /\ sent' = <<ReleaseMessage(section[r], r)>>

MessageWork(m, r) ==
    \/ Ignores(m, r)
    \/ Objects(m, r)
    \/ Joins(m, r)
    \/ Closes(m, r)
    \/ Continues(m, r)

LEMMA PromptClock ==
    ASSUME Typed, Prompt
    PROVE  lag = 0 /\ \A d \in Int : After(d) = d
BY DEF Typed, Prompt, After

LEMMA TimersAreInt ==
    ASSUME Typed, NEW r \in Ref
    PROVE  \A k \in DOMAIN timer[r] : timer[r][k] \in Int
BY DEF Typed, RunningTimers

LEMMA LeftOf ==
    ASSUME Typed, NEW r \in Ref, Good(r), Running(r), Connected(r)
    PROVE  Left(r) \in 0 .. Lifetime
<1>1. CASE section[r].state = "established"
  <2>1. "receiveInactivity" \in DOMAIN timer[r] BY <1>1, TimersOfStates DEF Good
  <2> QED BY <1>1, <2>1, TimersAreInt, TimeoutsAssumption DEF Running, Left, Lifetime
<1>2. CASE section[r].state = "releasing" /\ "release" \in DOMAIN timer[r]
  BY <1>2, TimersAreInt, TimeoutsAssumption DEF Running, Left, Lifetime
<1>3. CASE section[r].state = "releasing" /\ "release" \notin DOMAIN timer[r]
  <2>1. "giveUp" \in DOMAIN timer[r] BY <1>3, TimersOfStates DEF Good
  <2> QED BY <1>3, <2>1, TimersAreInt, TimeoutsAssumption DEF Running, Left, Lifetime
<1> QED BY <1>1, <1>2, <1>3 DEF Connected

LEMMA ElsewhereRunning ==
    ASSUME \A q \in Ref : Running(q), NEW r \in Ref, Elsewhere(r), Running(r)'
    PROVE  \A q \in Ref : Running(q)'
<1> SUFFICES ASSUME NEW q \in Ref, q # r PROVE Running(q)' OBVIOUS
<1>1. section'[q] = section[q] /\ timer'[q] = timer[q] BY DEF Elsewhere, Kept
<1> QED BY <1>1 DEF Running, Connected, Left

LEMMA KeptRunning ==
    ASSUME \A q \in Ref : Running(q), \A q \in Ref : Kept(q)
    PROVE  \A q \in Ref : Running(q)'
BY DEF Kept, Running, Connected, Left

LEMMA FreezeRetires ==
    ASSUME Typed, Prompt, NEW r \in Ref, Freeze(r), section[r].state \notin Unused
    PROVE  Elsewhere(r) /\ Retires(r) /\ Running(r)'
<1>1. Elsewhere(r) BY DEF Freeze, Typed, Elsewhere, Kept
<1>2. section'[r].state = "frozen" BY DEF Freeze, NewSection, Typed
<1>3. timer'[r] = Start(StopConnectionTimers(timer[r]), "freeze", ReferenceFreeze)
  BY PromptClock, TimeoutsAssumption DEF Freeze, Typed
<1>4. DOMAIN timer[r] \subseteq TimerKinds BY DEF Typed, RunningTimers
<1>5. DOMAIN timer'[r] = {"freeze"} /\ timer'[r]["freeze"] = ReferenceFreeze
  BY <1>3, <1>4 DEF Start, StopConnectionTimers, Stop
<1> QED BY <1>1, <1>2, <1>5, TimeoutsAssumption DEF Retires, Running, Connected

LEMMA BeginReleaseWanes ==
    ASSUME Typed, Prompt, NEW r \in Ref, Good(r), NEW s, NEW replies, BeginRelease(r, s, replies),
           section[r].state \in {"incoming", "outgoing", "established"}
    PROVE  /\ Elsewhere(r) /\ Running(r)'
           /\ section'[r].state = "releasing" /\ section'[r].remote = s.remote
           /\ Running(r) /\ Connected(r) => Left(r)' <= Left(r)
           /\ sent' = Append(replies, ReleaseMessage(s, r))
<1>1. Elsewhere(r) BY DEF BeginRelease, Typed, Elsewhere, Kept
<1>2. section'[r].state = "releasing" /\ section'[r].remote = s.remote
  BY DEF BeginRelease, NewSection, Typed
<1>3. timer'[r] = Start(StopConnectionTimers(timer[r]), "release", ReleaseTimeout)
  BY PromptClock, TimeoutsAssumption DEF BeginRelease, Typed
<1>4. DOMAIN timer[r] \subseteq TimerKinds \ {"freeze"}
  BY TimersOfStates, TimerTellsState DEF Good, Typed, RunningTimers
<1>5. DOMAIN timer'[r] = {"release"} /\ timer'[r]["release"] = ReleaseTimeout
  BY <1>3, <1>4 DEF Start, StopConnectionTimers, Stop
<1>6. Left(r)' = ReleaseTimeout + ReleaseGiveUpTimeout BY <1>2, <1>5 DEF Left
<1>7. Running(r)' BY <1>5, <1>6, TimeoutsAssumption DEF Running, Lifetime
<1>8. ASSUME Running(r), Connected(r) PROVE Left(r)' <= Left(r)
  <2>1. section[r].state = "established" BY <1>8 DEF Connected
  <2>2. "receiveInactivity" \in DOMAIN timer[r] BY <2>1, TimersOfStates DEF Good
  <2> QED BY <1>6, <1>8, <2>1, <2>2, TimersAreInt, TimeoutsAssumption DEF Running, Left
<1> QED BY <1>1, <1>2, <1>7, <1>8 DEF BeginRelease

LEMMA TickLasts ==
    ASSUME Typed, \A q \in Ref : Good(q), Prompt, \A q \in Ref : Running(q), Tick
    PROVE  /\ \A q \in Ref : Running(q)'
           /\ \A q \in Ref : section'[q] = section[q]
           /\ \A q \in Ref : Connected(q) => Left(q)' = Left(q) - 1
           /\ \A q \in Ref : section[q].state = "frozen" =>
                 timer'[q]["freeze"] = timer[q]["freeze"] - 1
<1> SUFFICES ASSUME NEW r \in Ref
             PROVE  /\ Running(r)' /\ section'[r] = section[r]
                    /\ Connected(r) => Left(r)' = Left(r) - 1
                    /\ section[r].state = "frozen" =>
                          timer'[r]["freeze"] = timer[r]["freeze"] - 1
  OBVIOUS
<1>1. /\ section'[r] = section[r] /\ DOMAIN timer'[r] = DOMAIN timer[r]
      /\ \A k \in DOMAIN timer[r] : timer[r][k] > 0 /\ timer'[r][k] = timer[r][k] - 1
  BY DEF Tick, Prompt
<1>2. \A k \in DOMAIN timer[r] : timer[r][k] \in Int BY TimersAreInt
<1>3. \A k \in DOMAIN timer'[r] : timer'[r][k] >= 0 BY <1>1, <1>2
<1>4. section[r].state = "frozen" => "freeze" \in DOMAIN timer[r] BY TimersOfStates DEF Good
<1>5. ASSUME Connected(r) PROVE Left(r)' = Left(r) - 1
  <2>1. CASE section[r].state = "established"
    <3>1. "receiveInactivity" \in DOMAIN timer[r] BY <2>1, TimersOfStates DEF Good
    <3> QED BY <1>1, <1>2, <2>1, <3>1, TimeoutsAssumption DEF Left
  <2>2. CASE section[r].state = "releasing" /\ "release" \in DOMAIN timer[r]
    BY <1>1, <1>2, <2>2, TimeoutsAssumption DEF Left
  <2>3. CASE section[r].state = "releasing" /\ "release" \notin DOMAIN timer[r]
    <3>1. "giveUp" \in DOMAIN timer[r] BY <2>3, TimersOfStates DEF Good
    <3> QED BY <1>1, <1>2, <2>3, <3>1 DEF Left
  <2> QED BY <1>5, <2>1, <2>2, <2>3 DEF Connected
<1>6. Connected(r)' <=> Connected(r) BY <1>1 DEF Connected
<1>7. ASSUME Connected(r) PROVE Left(r)' <= Lifetime
  BY <1>5, <1>7, LeftOf, TimeoutsAssumption DEF Lifetime
<1> QED BY <1>1, <1>3, <1>4, <1>5, <1>6, <1>7 DEF Running

LEMMA FireLasts ==
    ASSUME Typed, \A q \in Ref : Good(q), Prompt, \A q \in Ref : Running(q),
           NEW r \in Ref, FireOf(r)
    PROVE  Elsewhere(r) /\ TimerWork(r) /\ \A q \in Ref : Running(q)'
<1> SUFFICES Elsewhere(r) /\ TimerWork(r) /\ Running(r)' BY ElsewhereRunning
<1>i. \A k \in DOMAIN timer[r] : timer[r][k] \in Int /\ timer[r][k] >= 0
  BY TimersAreInt DEF Running
<1>1. CASE EstablishmentExpires(r)
  <2>1. section[r].state = "outgoing"
    BY <1>1, TimerTellsState DEF EstablishmentExpires, Fires, Due
  <2> QED BY <1>1, <2>1, FreezeRetires DEF EstablishmentExpires, TimerWork, Unused
<1>2. CASE SendInactivityExpires(r)
  <2>1. section[r].state = "established" /\ DOMAIN timer[r] = {"sendInactivity", "receiveInactivity"}
    BY <1>2, TimerTellsState, TimersOfStates DEF SendInactivityExpires, Fires, Due, Good
  <2>2. timer'[r] = Start(Expired(r, "sendInactivity"), "sendInactivity", InactivitySendTimeout)
    BY <1>2, PromptClock, TimeoutsAssumption DEF SendInactivityExpires, Typed
  <2>3. /\ DOMAIN timer'[r] = DOMAIN timer[r]
        /\ timer'[r]["receiveInactivity"] = timer[r]["receiveInactivity"]
        /\ timer'[r]["sendInactivity"] = InactivitySendTimeout
    BY <2>1, <2>2 DEF Start, Expired, Stop
  <2>4. Elsewhere(r) /\ section'[r] = section[r]
    BY <1>2 DEF SendInactivityExpires, Typed, Elsewhere, Kept
  <2>5. Left(r)' = Left(r) BY <2>1, <2>3, <2>4 DEF Left
  <2>6. Running(r)'
    BY <1>i, <2>1, <2>3, <2>4, <2>5, TimeoutsAssumption DEF Running, Connected
  <2>7. Left(r) \in Int BY <2>1, LeftOf, TimeoutsAssumption DEF Connected, Lifetime
  <2>8. Wanes(r) BY <2>1, <2>4, <2>5, <2>7 DEF Wanes, Connected
  <2> QED BY <1>2, <2>1, <2>4, <2>6, <2>8 DEF SendInactivityExpires, TimerWork
<1>3. CASE ReceiveInactivityExpires(r)
  <2>1. section[r].state = "established"
    BY <1>3, TimerTellsState DEF ReceiveInactivityExpires, Fires, Due
  <2>2. /\ Elsewhere(r) /\ Running(r)' /\ section'[r].state = "releasing"
        /\ section'[r].remote = section[r].remote /\ Left(r)' <= Left(r)
        /\ sent' = Append(<<>>, ReleaseMessage(section[r], r))
    BY <1>3, <2>1, BeginReleaseWanes DEF ReceiveInactivityExpires, Connected
  <2>3. sent' = <<ReleaseMessage(section[r], r)>> BY <2>2
  <2>4. Wanes(r) BY <2>1, <2>2 DEF Wanes, Connected
  <2> QED BY <2>2, <2>3, <2>4 DEF TimerWork
<1>4. CASE ReleaseExpires(r)
  <2> DEFINE running == StartGiveUp(Expired(r, "release"))
  <2>1. /\ section[r].state = "releasing" /\ DOMAIN timer[r] = {"release"}
        /\ section' = section /\ timer' = [timer EXCEPT ![r] = ScheduleRepeat(running)]
        /\ sent' = <<ReleaseMessage(section[r], r)>>
    BY <1>4, TimerTellsState DEF ReleaseExpires, RepeatRelease, Fires, Due
  <2>2. DOMAIN running = {"giveUp"} /\ running["giveUp"] = ReleaseGiveUpTimeout
    BY <2>1, PromptClock, TimeoutsAssumption DEF StartGiveUp, Start, Expired, Stop
  <2>3. /\ DOMAIN timer'[r] \subseteq {"giveUp", "repeat"}
        /\ timer'[r]["giveUp"] = ReleaseGiveUpTimeout
        /\ "repeat" \in DOMAIN timer'[r] => timer'[r]["repeat"] = RepeatReleaseTimeout
    <3>1. timer'[r] = ScheduleRepeat(running) BY <2>1 DEF Typed
    <3>2. ScheduleRepeat(running) \in {running, Start(running, "repeat", RepeatReleaseTimeout)}
      BY PromptClock, TimeoutsAssumption DEF ScheduleRepeat
    <3> HIDE DEF running
    <3> QED BY <2>2, <3>1, <3>2 DEF Start
  <2>4. Elsewhere(r) /\ section'[r] = section[r] BY <2>1 DEF Typed, Elsewhere, Kept
  <2>5. Left(r)' = ReleaseGiveUpTimeout BY <2>1, <2>3, <2>4 DEF Left
  <2>6. Left(r)' <= Left(r) BY <1>i, <2>1, <2>5, TimeoutsAssumption DEF Left
  <2>7. Running(r)' BY <2>3, <2>5, TimeoutsAssumption DEF Running, Lifetime
  <2>8. Wanes(r) BY <2>1, <2>4, <2>6 DEF Wanes, Connected
  <2> QED BY <2>1, <2>4, <2>7, <2>8 DEF TimerWork
<1>5. CASE RepeatExpires(r)
  <2> DEFINE running == Expired(r, "repeat")
  <2>1. /\ section[r].state = "releasing" /\ DOMAIN timer[r] = {"giveUp", "repeat"}
        /\ section' = section /\ timer' = [timer EXCEPT ![r] = ScheduleRepeat(running)]
        /\ sent' = <<ReleaseMessage(section[r], r)>>
    BY <1>5, TimerTellsState DEF RepeatExpires, RepeatRelease, Fires, Due
  <2>2. DOMAIN running = {"giveUp"} /\ running["giveUp"] = timer[r]["giveUp"]
    BY <2>1 DEF Expired, Stop
  <2>3. /\ DOMAIN timer'[r] \subseteq {"giveUp", "repeat"}
        /\ timer'[r]["giveUp"] = timer[r]["giveUp"]
        /\ "repeat" \in DOMAIN timer'[r] => timer'[r]["repeat"] = RepeatReleaseTimeout
    <3>1. timer'[r] = ScheduleRepeat(running) BY <2>1 DEF Typed
    <3>2. ScheduleRepeat(running) \in {running, Start(running, "repeat", RepeatReleaseTimeout)}
      BY PromptClock, TimeoutsAssumption DEF ScheduleRepeat
    <3> HIDE DEF running
    <3> QED BY <2>2, <3>1, <3>2 DEF Start
  <2>4. Elsewhere(r) /\ section'[r] = section[r] BY <2>1 DEF Typed, Elsewhere, Kept
  <2>5. Left(r)' = timer[r]["giveUp"] /\ Left(r) = timer[r]["giveUp"]
    BY <2>1, <2>3, <2>4 DEF Left
  <2>6. Running(r)'
    BY <1>i, <2>1, <2>3, <2>4, <2>5, TimeoutsAssumption DEF Running, Connected
  <2>7. timer[r]["giveUp"] \in Int BY <1>i, <2>1
  <2>8. Wanes(r) BY <2>1, <2>4, <2>5, <2>7 DEF Wanes, Connected
  <2> QED BY <2>1, <2>4, <2>6, <2>8 DEF TimerWork
<1>6. CASE GiveUpExpires(r)
  <2>1. section[r].state = "releasing"
    BY <1>6, TimerTellsState DEF GiveUpExpires, Fires, Due
  <2> QED BY <1>6, <2>1, FreezeRetires DEF GiveUpExpires, TimerWork, Unused
<1>7. CASE FreezeExpires(r)
  <2>1. /\ section[r].state = "frozen" /\ DOMAIN timer[r] = {"freeze"}
        /\ timer[r]["freeze"] <= 0
    BY <1>7, PromptClock, TimerTellsState DEF FreezeExpires, Fires, Due
  <2>2. Elsewhere(r) /\ section'[r].state = "idle"
    BY <1>7 DEF FreezeExpires, NoSection, NewSection, Typed, Elsewhere, Kept
  <2>3. DOMAIN timer'[r] = {} BY <1>7, <2>1 DEF FreezeExpires, Expired, Stop, Typed
  <2>4. Running(r)' BY <2>2, <2>3 DEF Running, Connected
  <2> QED BY <1>7, <2>1, <2>2, <2>4 DEF FreezeExpires, Wakes, TimerWork
<1> QED BY <1>1, <1>2, <1>3, <1>4, <1>5, <1>6, <1>7 DEF FireOf

LEMMA AppendToOne == \A d, e : Append(<<d>>, e) = <<d, e>>
<1> SUFFICES ASSUME NEW d, NEW e PROVE Append(<<d>>, e) = <<d, e>> OBVIOUS
<1>1. <<d>> \in Seq({d, e}) /\ e \in {d, e} OBVIOUS
<1>2. /\ Append(<<d>>, e) \in Seq({d, e}) /\ Len(Append(<<d>>, e)) = 2
      /\ Append(<<d>>, e)[1] = d /\ Append(<<d>>, e)[2] = e
  BY <1>1
<1>3. <<d, e>> \in Seq({d, e}) /\ Len(<<d, e>>) = 2 OBVIOUS
<1>4. \A i \in 1 .. Len(Append(<<d>>, e)) : Append(<<d>>, e)[i] = <<d, e>>[i] BY <1>2
<1>5. Len(Append(<<d>>, e)) = Len(<<d, e>>) BY <1>2, <1>3
<1> QED BY ONLY <1>2, <1>3, <1>4, <1>5, SeqEqual

LEMMA QuietLasts ==
    ASSUME Typed, \A q \in Ref : Running(q), Call \/ HandleTimeout \/ UNCHANGED vars
    PROVE  (\A q \in Ref : Kept(q)) /\ \A q \in Ref : Running(q)'
<1>1. \A q \in Ref : Kept(q) BY DEF Call, HandleTimeout, vars, connVars, Kept
<1> QED BY <1>1, KeptRunning

LEMMA ConnectLasts ==
    ASSUME Typed, \A q \in Ref : Good(q), Prompt, \A q \in Ref : Running(q),
           NEW peer \in Peers, Connect(peer)
    PROVE  /\ \E r \in Ref : /\ section[r].state = "idle" /\ section'[r].state = "outgoing"
                             /\ Elsewhere(r)
                             /\ sent' = <<CRMessage(peer, r)>>
           /\ \A q \in Ref : Running(q)'
<1>1. PICK r \in Ref :
        /\ CandidateReference(r)
        /\ Register(r, NewSection("outgoing", peer, NoRef))
        /\ timer' = [timer EXCEPT ![r] =
                       Start(@, "establishment", After(EstablishmentTimeout))]
        /\ sent' = <<CRMessage(peer, r)>>
  BY DEF Connect
<1>2. section[r].state = "idle" BY <1>1, CandidateIdle
<1>3. DOMAIN timer[r] = {} BY <1>2, TimersOfStates DEF Good
<1>4. timer'[r] = Start(timer[r], "establishment", EstablishmentTimeout)
  BY <1>1, PromptClock, TimeoutsAssumption DEF Typed
<1>5. DOMAIN timer'[r] = {"establishment"} /\ timer'[r]["establishment"] = EstablishmentTimeout
  BY <1>3, <1>4 DEF Start
<1>6. section'[r].state = "outgoing" /\ Elsewhere(r)
  BY <1>1 DEF Register, NewSection, Typed, Elsewhere, Kept
<1>7. Running(r)' BY <1>5, <1>6, TimeoutsAssumption DEF Running, Connected
<1> QED BY <1>1, <1>2, <1>6, <1>7, ElsewhereRunning

LEMMA RunInactivityRuns ==
    ASSUME Typed, Prompt, NEW running, DOMAIN running = {}
    PROVE  /\ DOMAIN RunInactivity(running) = {"sendInactivity", "receiveInactivity"}
           /\ RunInactivity(running)["sendInactivity"] = InactivitySendTimeout
           /\ RunInactivity(running)["receiveInactivity"] = InactivityReceiveTimeout
BY PromptClock, TimeoutsAssumption DEF RunInactivity, Start

LEMMA OpenRunning ==
    ASSUME NEW r \in Ref, section'[r].state = "established",
           DOMAIN timer'[r] = {"sendInactivity", "receiveInactivity"},
           timer'[r]["sendInactivity"] \in Nat,
           timer'[r]["receiveInactivity"] = InactivityReceiveTimeout
    PROVE  Running(r)'
BY TimeoutsAssumption DEF Running, Left, Lifetime

LEMMA AcceptLasts ==
    ASSUME Typed, \A q \in Ref : Good(q), Prompt, \A q \in Ref : Running(q),
           NEW r \in Ref, Accept(r)
    PROVE  /\ section[r].state = "incoming" /\ section'[r].state = "established"
           /\ section'[r].remote = section[r].remote
           /\ Elsewhere(r)
           /\ sent' = <<CCMessage(section[r], r)>>
           /\ \A q \in Ref : Running(q)'
<1>1. section[r].state = "incoming" /\ sent' = <<CCMessage(section[r], r)>> BY DEF Accept
<1>2. DOMAIN timer[r] = {} BY <1>1, TimersOfStates DEF Good
<1>3. section'[r] = [section[r] EXCEPT !.state = "established"] BY DEF Accept, Typed
<1>4. section'[r].state = "established" /\ section'[r].remote = section[r].remote
  BY <1>3 DEF Typed, Section
<1>5. Elsewhere(r) BY DEF Accept, Typed, Elsewhere, Kept
<1>6. timer'[r] = RunInactivity(timer[r]) BY DEF Accept, Typed
<1>7. Running(r)' BY <1>2, <1>4, <1>6, RunInactivityRuns, OpenRunning, TimeoutsAssumption
<1> QED BY <1>1, <1>4, <1>5, <1>7, ElsewhereRunning

LEMMA DisconnectLasts ==
    ASSUME Typed, \A q \in Ref : Good(q), Prompt, \A q \in Ref : Running(q),
           NEW r \in Ref, Disconnect(r)
    PROVE  Elsewhere(r) /\ UserLeaves(r) /\ \A q \in Ref : Running(q)'
<1> SUFFICES Elsewhere(r) /\ UserLeaves(r) /\ Running(r)' BY ElsewhereRunning
<1>1. CASE DisconnectIncoming(r)
  BY <1>1, FreezeRetires DEF DisconnectIncoming, UserLeaves, Unused
<1>2. CASE DisconnectOutgoing(r)
  <2>1. section'[r] = [section[r] EXCEPT !.disconnect = TRUE] /\ timer' = timer
    BY <1>2 DEF DisconnectOutgoing, Typed
  <2>2. section'[r].state = "outgoing" BY <1>2, <2>1 DEF DisconnectOutgoing, Typed, Section
  <2>3. Elsewhere(r) BY <1>2 DEF DisconnectOutgoing, Typed, Elsewhere, Kept
  <2>4. Running(r)' BY <2>1, <2>2 DEF Running, Connected
  <2> QED BY <1>2, <2>2, <2>3, <2>4 DEF DisconnectOutgoing, UserLeaves
<1>3. CASE DisconnectEstablished(r)
  <2>1. section[r].state = "established" BY <1>3 DEF DisconnectEstablished
  <2>2. /\ Elsewhere(r) /\ Running(r)' /\ section'[r].state = "releasing"
        /\ section'[r].remote = section[r].remote /\ Left(r)' <= Left(r)
        /\ sent' = Append(<<>>, ReleaseMessage(section[r], r))
    BY <1>3, <2>1, BeginReleaseWanes DEF DisconnectEstablished, Connected
  <2>3. sent' = <<ReleaseMessage(section[r], r)>> BY <2>2
  <2>4. Wanes(r) BY <2>1, <2>2 DEF Wanes, Connected
  <2> QED BY <2>1, <2>2, <2>3, <2>4 DEF UserLeaves
<1> QED BY <1>1, <1>2, <1>3 DEF Disconnect

LEMMA RequestLasts ==
    ASSUME Typed, \A q \in Ref : Good(q), Prompt, \A q \in Ref : Running(q),
           NEW m \in CR, ReceiveConnectionRequest(m)
    PROVE  (Admits(m) \/ Refuses(m)) /\ \A q \in Ref : Running(q)'
<1>1. CASE AdmitRequest(m)
  <2>1. PICK r \in Ref :
          CandidateReference(r) /\ Register(r, NewSection("incoming", Originator(m), m.src))
    BY <1>1 DEF AdmitRequest
  <2>2. section[r].state = "idle" BY <2>1, CandidateIdle
  <2>3. DOMAIN timer[r] = {} /\ timer' = timer /\ sent' = <<>>
    BY <1>1, <2>2, TimersOfStates DEF Good, AdmitRequest
  <2>4. /\ section'[r].state = "incoming" /\ section'[r].remote = m.src
        /\ Elsewhere(r)
    BY <2>1, <2>3 DEF Register, NewSection, Typed, Elsewhere, Kept
  <2>5. Running(r)' BY <2>3, <2>4 DEF Running, Connected
  <2> QED BY <2>2, <2>3, <2>4, <2>5, ElsewhereRunning DEF Admits
<1>2. CASE RefuseRequest(m)
  BY <1>2, KeptRunning DEF RefuseRequest, Refuses, connVars, Kept
<1> QED BY <1>1, <1>2 DEF ReceiveConnectionRequest

LEMMA MessageLasts ==
    ASSUME Typed, \A q \in Ref : Good(q), Prompt, \A q \in Ref : Running(q),
           NEW m \in SectionMessage, ReceiveSectionMessage(m)
    PROVE  Elsewhere(m.dst) /\ MessageWork(m, m.dst) /\ \A q \in Ref : Running(q)'
<1> DEFINE r == m.dst
<1>m. /\ r \in Ref /\ section[r] \in Section /\ section[r].state \in States
      /\ Good(r) /\ Running(r)
  BY MessageFields DEF Typed, Section
<1>i. \A k \in DOMAIN timer[r] : timer[r][k] \in Int /\ timer[r][k] >= 0
  BY <1>m, TimersAreInt DEF Running
<1> HIDE DEF r
<1> SUFFICES Elsewhere(r) /\ MessageWork(m, r) /\ Running(r)' BY <1>m, ElsewhereRunning DEF r
<1>k. ASSUME UNCHANGED <<section, timer>> PROVE Elsewhere(r) /\ Kept(r) /\ Running(r)'
  BY <1>k, <1>m DEF Elsewhere, Kept, Running, Connected, Left
<1>1. CASE UnassignedReference(m)
  BY <1>1, <1>k DEF UnassignedReference, connVars, MessageWork, Ignores, r
<1>2. CASE KeepMismatched(m)
  BY <1>2, <1>k DEF KeepMismatched, connVars, MessageWork, Ignores, r
<1>3. CASE ReleaseMismatched(m)
  <2>1. section[r].state \in {"incoming", "established", "releasing"}
    BY <1>m, <1>3 DEF ReleaseMismatched, SourceMismatch, Assigned, CheckPeer, Unused, States, r
  <2>2. m.type = "IT" /\ m.src # section[r].remote
    BY <1>3 DEF ReleaseMismatched, SourceMismatch, r
  <2>3. CASE section[r].state = "releasing"
    <3>1. /\ UNCHANGED <<section, timer>>
          /\ sent' = <<Release(m.peer, m.src, r), ReleaseMessage(section[r], r)>>
      BY <1>3, <2>3 DEF ReleaseMismatched, connVars, Release, r
    <3>2. Left(r)' = Left(r) /\ Left(r) \in Int
      BY <1>m, <2>3, <3>1, LeftOf, TimeoutsAssumption DEF Left, Connected, Lifetime
    <3>3. Wanes(r) BY <2>3, <3>1, <3>2 DEF Wanes, Connected
    <3> QED BY <1>k, <2>1, <2>2, <2>3, <3>1, <3>3 DEF MessageWork, Objects
  <2>4. CASE section[r].state # "releasing"
    <3>1. BeginRelease(r, section[r], <<Release(m.peer, m.src, r)>>)
      BY <1>3, <2>4 DEF ReleaseMismatched, Release, r
    <3>2. /\ Elsewhere(r) /\ Running(r)' /\ section'[r].state = "releasing"
          /\ section'[r].remote = section[r].remote
          /\ Connected(r) => Left(r)' <= Left(r)
          /\ sent' = Append(<<Release(m.peer, m.src, r)>>, ReleaseMessage(section[r], r))
      BY <1>m, <2>1, <2>4, <3>1, BeginReleaseWanes
    <3>3. sent' = <<Release(m.peer, m.src, r), ReleaseMessage(section[r], r)>>
      BY <3>2, AppendToOne
    <3>4. section[r].state # "incoming" => Wanes(r)
      BY <2>1, <2>4, <3>2 DEF Wanes, Connected
    <3> QED BY <2>1, <2>2, <3>2, <3>3, <3>4 DEF MessageWork, Objects
  <2> QED BY <2>3, <2>4
<1>4. CASE ReceiveIncoming(m)
  BY <1>4, <1>k DEF ReceiveIncoming, Discard, connVars, MessageWork, Ignores
<1>5. CASE Confirmed(m)
  <2>1. section[r].state = "outgoing" /\ m.type = "CC" /\ sent' = <<>>
    BY <1>5 DEF Confirmed, Matches, r
  <2>2. DOMAIN Stop(timer[r], {"establishment"}) = {}
    BY <1>m, <2>1, TimersOfStates DEF Good, Stop
  <2>3. section'[r] = [Associate(section[r], m) EXCEPT !.state = "established"]
    BY <1>m, <1>5 DEF Confirmed, Typed, r
  <2>4. section'[r].state = "established" /\ section'[r].remote = m.src
    BY <1>m, <2>3 DEF Associate, Section
  <2>5. timer'[r] = RunInactivity(Stop(timer[r], {"establishment"}))
    BY <1>m, <1>5 DEF Confirmed, Typed, r
  <2>6. Elsewhere(r) BY <1>m, <1>5 DEF Confirmed, Typed, Elsewhere, Kept, r
  <2>7. Running(r)' BY <1>m, <2>2, <2>4, <2>5, RunInactivityRuns, OpenRunning, TimeoutsAssumption
  <2> QED BY <2>1, <2>4, <2>6, <2>7 DEF MessageWork, Joins
<1>6. CASE ReleaseOnConfirm(m)
  <2>1. /\ section[r].state = "outgoing" /\ m.type = "CC"
        /\ BeginRelease(r, Associate(section[r], m), <<>>)
    BY <1>6 DEF ReleaseOnConfirm, Matches, r
  <2>2. Associate(section[r], m).peer = m.peer /\ Associate(section[r], m).remote = m.src
    BY <1>m DEF Associate, Section
  <2>3. /\ Elsewhere(r) /\ Running(r)' /\ section'[r].state = "releasing"
        /\ section'[r].remote = m.src
        /\ sent' = Append(<<>>, ReleaseMessage(Associate(section[r], m), r))
    BY <1>m, <2>1, <2>2, BeginReleaseWanes
  <2>4. sent' = <<Release(m.peer, m.src, r)>> BY <2>2, <2>3 DEF ReleaseMessage, Release
  <2> QED BY <2>1, <2>3, <2>4 DEF MessageWork, Joins
<1>7. CASE FailRequest(m)
  BY <1>m, <1>7, FreezeRetires DEF FailRequest, Matches, MessageWork, Closes, Unused, r
<1>8. CASE ReceiveReleasing(m)
  <2>1. CASE Discard BY <1>k, <2>1 DEF Discard, connVars, MessageWork, Ignores
  <2>2. CASE Freeze(r) /\ sent' = <<>>
    BY <1>m, <1>8, <2>2, FreezeRetires DEF ReceiveReleasing, Matches, MessageWork, Closes, Unused, r
  <2> QED BY <1>8, <2>1, <2>2 DEF ReceiveReleasing, r
<1>9. CASE ReceiveEstablished(m)
  <2>1. /\ section[r].state = "established" /\ ~PointCodeMismatch(m) /\ ~SourceMismatch(m)
        /\ DOMAIN timer[r] = {"sendInactivity", "receiveInactivity"}
    BY <1>m, <1>9, TimersOfStates DEF ReceiveEstablished, Matches, Good, r
  <2>2. m.type = "IT" => m.src = section[r].remote
    BY <2>1 DEF PointCodeMismatch, SourceMismatch, Assigned, CheckPeer, HasSource, Unused, r
  <2>3. ASSUME RestartReceive(r), section'[r].state = "established" PROVE Running(r)'
    <3>1. timer'[r] = Start(timer[r], "receiveInactivity", InactivityReceiveTimeout)
      BY <1>m, <2>3, PromptClock, TimeoutsAssumption DEF RestartReceive, Typed
    <3>2. /\ DOMAIN timer'[r] = {"sendInactivity", "receiveInactivity"}
          /\ timer'[r]["receiveInactivity"] = InactivityReceiveTimeout
          /\ timer'[r]["sendInactivity"] = timer[r]["sendInactivity"]
      BY <2>1, <3>1 DEF Start
    <3>3. timer'[r]["sendInactivity"] \in Nat BY <1>i, <2>1, <3>2
    <3> QED BY <1>m, <2>3, <3>2, <3>3, OpenRunning
  <2>4. CASE DiscardEstablished(m)
    <3>1. Elsewhere(r) /\ section' = section /\ RestartReceive(r) /\ sent' = <<>>
      BY <1>m, <2>4 DEF DiscardEstablished, RestartReceive, Typed, Elsewhere, Kept, r
    <3>2. Renews(r) BY <2>1, <3>1 DEF Renews
    <3> QED BY <2>1, <2>2, <2>3, <2>4, <3>1, <3>2 DEF DiscardEstablished, MessageWork, Continues
  <2>5. CASE ReceiveData(m)
    <3>1. section'[r] \in {Buffered(section[r], m.len), Emptied(section[r])}
      BY <1>m, <2>5 DEF ReceiveData, Typed, r
    <3>2. section'[r].state = section[r].state /\ section'[r].remote = section[r].remote
      BY <1>m, <3>1 DEF Buffered, Emptied, Section
    <3>3. Elsewhere(r) /\ RestartReceive(r) /\ sent' = <<>> /\ m.type = "DT1"
      BY <1>m, <2>5 DEF ReceiveData, RestartReceive, Typed, Elsewhere, Kept, r
    <3>4. Renews(r) BY <2>1, <3>2 DEF Renews
    <3> QED BY <2>1, <2>3, <3>2, <3>3, <3>4 DEF MessageWork, Continues
  <2>6. CASE ReleaseEstablished(m)
    <3>1. BeginRelease(r, section[r], <<>>) BY <2>6 DEF ReleaseEstablished, r
    <3>2. /\ Elsewhere(r) /\ Running(r)' /\ section'[r].state = "releasing"
          /\ section'[r].remote = section[r].remote /\ Left(r)' <= Left(r)
          /\ sent' = Append(<<>>, ReleaseMessage(section[r], r))
      BY <1>m, <2>1, <3>1, BeginReleaseWanes DEF Connected
    <3>3. sent' = <<ReleaseMessage(section[r], r)>> BY <3>2
    <3>4. Wanes(r) BY <2>1, <3>2 DEF Wanes, Connected
    <3> QED BY <3>2, <3>3, <3>4 DEF MessageWork, Continues
  <2>7. CASE EndEstablished(m)
    BY <1>m, <2>1, <2>7, FreezeRetires DEF EndEstablished, MessageWork, Closes, Unused, r
  <2> QED BY <1>9, <2>4, <2>5, <2>6, <2>7 DEF ReceiveEstablished
<1> QED BY <1>1, <1>2, <1>3, <1>4, <1>5, <1>6, <1>7, <1>8, <1>9 DEF ReceiveSectionMessage

(* Sound is what the ends of ConnectionPair keep.                          *)
Sound == Inv /\ \A q \in Ref : Running(q)

LEMMA SoundIs == Sound <=> (Typed /\ (\A q \in Ref : Good(q)) /\ \A q \in Ref : Running(q))
BY InvIsGood DEF Sound

LEMMA InvStep ==
    ASSUME Inv, [Next]_vars
    PROVE  Inv'
<1>1. Typed /\ \A r \in Ref : Good(r) BY InvIsGood
<1>2. Typed' BY <1>1, TypedStep
<1>3. \A r \in Ref : Good(r)' BY <1>1, GoodStep
<1>4. TypeOK' BY <1>2, TypedIsTypeOK, PTL
<1> QED BY <1>3, <1>4 DEF Inv, Good, TimersMatchState, UserAgrees, RepeatWithinGiveUp,
                         FreezeTimed, SectionsShaped

LEMMA SoundInit == Init => Sound
<1> SUFFICES ASSUME Init PROVE Sound OBVIOUS
<1>1. \A r \in Ref : section[r].state = "idle" /\ DOMAIN timer[r] = {}
  BY DEF Init, NoSection, NewSection, NoTimers
<1>2. \A r \in Ref : Running(r) BY <1>1 DEF Running, Connected
<1> QED BY <1>2, InitTyped, InitGood, SoundIs

LEMMA SoundTick ==
    ASSUME Sound, Prompt, Tick
    PROVE  /\ Sound'
           /\ \A q \in Ref : section'[q] = section[q]
           /\ \A q \in Ref : Connected(q) => Left(q)' = Left(q) - 1
           /\ \A q \in Ref : section[q].state = "frozen" =>
                 timer'[q]["freeze"] = timer[q]["freeze"] - 1
BY SoundIs, InvStep, TickLasts DEF Sound, Next

LEMMA SoundQuiet ==
    ASSUME Sound, Call \/ HandleTimeout \/ UNCHANGED vars
    PROVE  Sound' /\ \A q \in Ref : Kept(q)
BY SoundIs, InvStep, QuietLasts DEF Sound, Next

LEMMA SoundFire ==
    ASSUME Sound, Prompt, NEW r \in Ref, FireOf(r)
    PROVE  Sound' /\ Elsewhere(r) /\ TimerWork(r)
<1>1. Inv' BY InvStep DEF Sound, Next, Fire
<1> QED BY <1>1, SoundIs, FireLasts DEF Sound

LEMMA SoundConnect ==
    ASSUME Sound, Prompt, NEW peer \in Peers, Connect(peer)
    PROVE  /\ Sound'
           /\ \E r \in Ref : /\ section[r].state = "idle" /\ section'[r].state = "outgoing"
                             /\ Elsewhere(r)
                             /\ sent' = <<CRMessage(peer, r)>>
<1>1. Inv' BY InvStep DEF Sound, Next, UserRequest
<1> QED BY <1>1, SoundIs, ConnectLasts DEF Sound

LEMMA SoundAccept ==
    ASSUME Sound, Prompt, NEW r \in Ref, Accept(r)
    PROVE  /\ Sound'
           /\ section[r].state = "incoming" /\ section'[r].state = "established"
           /\ section'[r].remote = section[r].remote
           /\ Elsewhere(r)
           /\ sent' = <<CCMessage(section[r], r)>>
<1>1. Inv' BY InvStep DEF Sound, Next, UserRequest
<1> QED BY <1>1, SoundIs, AcceptLasts DEF Sound

LEMMA SoundDisconnect ==
    ASSUME Sound, Prompt, NEW r \in Ref, Disconnect(r)
    PROVE  Sound' /\ Elsewhere(r) /\ UserLeaves(r)
<1>1. Inv' BY InvStep DEF Sound, Next, UserRequest
<1> QED BY <1>1, SoundIs, DisconnectLasts DEF Sound

LEMMA SoundRequest ==
    ASSUME Sound, Prompt, NEW m \in CR, ReceiveConnectionRequest(m)
    PROVE  Sound' /\ (Admits(m) \/ Refuses(m))
<1>1. Inv' BY InvStep DEF Sound, Next, HandleTransfer
<1> QED BY <1>1, SoundIs, RequestLasts DEF Sound

LEMMA SoundMessage ==
    ASSUME Sound, Prompt, NEW m \in SectionMessage, ReceiveSectionMessage(m)
    PROVE  Sound' /\ Elsewhere(m.dst) /\ MessageWork(m, m.dst)
<1>1. Inv' BY InvStep DEF Sound, Next, HandleTransfer
<1> QED BY <1>1, SoundIs, MessageLasts DEF Sound

LEMMA SoundSections ==
    ASSUME Sound, NEW r \in Ref
    PROVE  /\ section[r].state \in States
           /\ section[r].state \in {"incoming", "established", "releasing"} =>
                 section[r].peer \in Peers /\ section[r].remote \in RemoteRefs
           /\ Connected(r) => Left(r) \in 0 .. Lifetime
           /\ section[r].state = "frozen" => timer[r]["freeze"] \in Int
<1>1. Typed /\ Good(r) /\ Running(r) BY SoundIs
<1>2. section[r].state \in States BY <1>1 DEF Typed, Section
<1>3. section[r].state = "frozen" => "freeze" \in DOMAIN timer[r]
  BY <1>1, TimersOfStates DEF Good
<1> QED BY <1>1, <1>2, <1>3, AssociatedSection, LeftOf, TimersAreInt

(* r is not free for n ticks more, whatever its state.                     *)
Outlives(r, n) ==
    /\ section[r].state # "idle"
    /\ section[r].state = "frozen" => timer[r]["freeze"] > n

(* No step but Tick takes from that time.                                  *)
Lasts(r) ==
    /\ section[r].state \in {"releasing", "frozen"} =>
          section'[r].state \in {"releasing", "frozen", "idle"}
    /\ Outlives(r, 0) => section'[r].state # "idle"
    /\ section'[r].state = "frozen" => Kept(r) \/ timer'[r]["freeze"] = ReferenceFreeze

LEMMA KeptLasts == \A r : Kept(r) => Lasts(r)
BY DEF Kept, Lasts, Outlives

LEMMA WorkLasts ==
    ASSUME Sound, NEW r \in Ref, NEW m, TimerWork(r) \/ UserLeaves(r) \/ MessageWork(m, r)
    PROVE  Lasts(r)
<1>1. ASSUME Retires(r) PROVE Lasts(r) BY <1>1 DEF Retires, Lasts, Outlives, Unused
<1>2. ASSUME Wakes(r) PROVE Lasts(r)
  <2>1. ~(timer[r]["freeze"] > 0) BY <1>2, SoundSections DEF Wakes
  <2> QED BY <1>2, <2>1 DEF Wakes, Lasts, Outlives
<1>3. ASSUME Wanes(r) PROVE Lasts(r) BY <1>3 DEF Wanes, Connected, Lasts, Outlives
<1>4. ASSUME Renews(r) PROVE Lasts(r) BY <1>4 DEF Renews, Lasts, Outlives
<1>5. ASSUME Objects(m, r) PROVE Lasts(r) BY <1>3, <1>5 DEF Objects, Lasts, Outlives
<1>6. ASSUME Joins(m, r) PROVE Lasts(r) BY <1>6 DEF Joins, Lasts, Outlives
<1>7. ASSUME section[r].state = "outgoing", section'[r].state = "outgoing" PROVE Lasts(r)
  BY <1>7 DEF Lasts, Outlives
<1> QED BY <1>1, <1>2, <1>3, <1>4, <1>5, <1>6, <1>7, KeptLasts
        DEF TimerWork, UserLeaves, MessageWork, Ignores, Closes, Continues

=============================================================================
