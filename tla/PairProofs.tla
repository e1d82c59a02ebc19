----------------------------- MODULE PairProofs -----------------------------
(***************************************************************************)
(* Proofs, for every value of the constants, about ConnectionPair, from    *)
(* what ConnectionProofs says of each end.                                 *)
(***************************************************************************)
EXTENDS ConnectionPair, FiniteSetTheorems, TLAPS

EndA == INSTANCE ConnectionProofs WITH
    Peers <- {"B"}, RemoteRefs <- 0 .. LimitB - 1, NoRef <- -1, ReferenceLimit <- LimitA,
    MaxDataLength <- 1, MaxReassemblyOctets <- 1, DT1Size <- 1, DataLengths <- {1},
    MaxLag <- 0, MaxLate <- 0,
    section <- sectionA, timer <- timerA, next <- nextA, active <- activeA,
    octets <- octetsA, locked <- lockedA, lag <- lagA, sent <- sentA, user <- userA,
    frozenFor <- frozenForA

EndB == INSTANCE ConnectionProofs WITH
    Peers <- {"A"}, RemoteRefs <- 0 .. LimitA - 1, NoRef <- -1, ReferenceLimit <- LimitB,
    MaxDataLength <- 1, MaxReassemblyOctets <- 1, DT1Size <- 1, DataLengths <- {1},
    MaxLag <- 0, MaxLate <- 0,
    section <- sectionB, timer <- timerB, next <- nextB, active <- activeB,
    octets <- octetsB, locked <- lockedB, lag <- lagB, sent <- sentB, user <- userB,
    frozenFor <- frozenForB

-----------------------------------------------------------------------------
(* The two ends are stacks of which ConnectionProofs speaks.               *)

LEMMA AssumedA ==
    /\ NoPeer \notin {"B"} /\ -1 \notin 0 .. LimitB - 1
    /\ LimitA \in Nat \ {0}
    /\ MaxConnections \in Nat \ {0}
    /\ 1 \in Nat \ {0}
    /\ {1} \subseteq Nat \ {0}
    /\ EstablishmentTimeout \in Nat \ {0}
    /\ ReleaseTimeout \in Nat \ {0}
    /\ RepeatReleaseTimeout \in Nat \ {0}
    /\ ReleaseGiveUpTimeout \in Nat \ {0}
    /\ InactivitySendTimeout \in Nat \ {0}
    /\ InactivityReceiveTimeout \in Nat \ {0}
    /\ ReferenceFreeze \in Nat \ {0}
    /\ InactivityReceiveTimeout > InactivitySendTimeout
    /\ 0 \in Nat
    /\ EndA!Prompt
BY StacksAssumption DEF EndA!Prompt

LEMMA AssumedB ==
    /\ NoPeer \notin {"A"} /\ -1 \notin 0 .. LimitA - 1
    /\ LimitB \in Nat \ {0}
    /\ MaxConnections \in Nat \ {0}
    /\ 1 \in Nat \ {0}
    /\ {1} \subseteq Nat \ {0}
    /\ EstablishmentTimeout \in Nat \ {0}
    /\ ReleaseTimeout \in Nat \ {0}
    /\ RepeatReleaseTimeout \in Nat \ {0}
    /\ ReleaseGiveUpTimeout \in Nat \ {0}
    /\ InactivitySendTimeout \in Nat \ {0}
    /\ InactivityReceiveTimeout \in Nat \ {0}
    /\ ReferenceFreeze \in Nat \ {0}
    /\ InactivityReceiveTimeout > InactivitySendTimeout
    /\ 0 \in Nat
    /\ EndB!Prompt
BY StacksAssumption DEF EndB!Prompt

LEMMA SameA ==
    /\ A!Init => EndA!Init
    /\ A!Tick => EndA!Tick
    /\ A!Call => EndA!Call
    /\ A!HandleTimeout => EndA!HandleTimeout
    /\ \A r : A!FireOf(r) => EndA!FireOf(r)
    /\ A!Connect("B") => EndA!Connect("B")
    /\ \A r : A!Disconnect(r) => EndA!Disconnect(r)
    /\ \A m : A!ReceiveSectionMessage(m) => EndA!ReceiveSectionMessage(m)
<1>1. A!Init => EndA!Init
  BY Zenon
  DEF A!Ref, EndA!Ref, A!NewSection, EndA!NewSection, A!NoSection, EndA!NoSection, A!NoTimers,
      EndA!NoTimers, A!Init, EndA!Init
<1>2. A!Tick => EndA!Tick
  BY Zenon
  DEF A!Ref, EndA!Ref, A!lockVars, EndA!lockVars, A!Tick, EndA!Tick
<1>3. A!Call => EndA!Call
  BY Zenon
  DEF A!connVars, EndA!connVars, A!history, EndA!history, A!Call, EndA!Call
<1>4. A!HandleTimeout => EndA!HandleTimeout
  BY Zenon
  DEF A!Ref, EndA!Ref, A!connVars, EndA!connVars, A!history, EndA!history, A!Due, EndA!Due,
      A!Ready, EndA!Ready, A!Unlock, EndA!Unlock, A!HandleTimeout, EndA!HandleTimeout
<1>5. \A r : A!EstablishmentExpires(r) => EndA!EstablishmentExpires(r)
  BY Zenon
  DEF A!Ref, EndA!Ref, A!lockVars, EndA!lockVars, A!TimerKinds, EndA!TimerKinds, A!NewSection,
      EndA!NewSection, A!Start, EndA!Start, A!Stop, EndA!Stop, A!StopConnectionTimers,
      EndA!StopConnectionTimers, A!After, EndA!After, A!Due, EndA!Due, A!Earliest, EndA!Earliest,
      A!AfterPrimitive, EndA!AfterPrimitive, A!Primitive, EndA!Primitive, A!IndicateUnless,
      EndA!IndicateUnless, A!OctetsWithout, EndA!OctetsWithout, A!Freeze, EndA!Freeze, A!Fires,
      EndA!Fires, A!EstablishmentExpires, EndA!EstablishmentExpires
<1>6. \A r : A!SendInactivityExpires(r) => EndA!SendInactivityExpires(r)
  BY Zenon
  DEF A!Ref, EndA!Ref, A!lockVars, EndA!lockVars, A!history, EndA!history, A!ITMessage,
      EndA!ITMessage, A!Start, EndA!Start, A!Stop, EndA!Stop, A!After, EndA!After, A!Due, EndA!Due,
      A!Earliest, EndA!Earliest, A!Expired, EndA!Expired, A!Fires, EndA!Fires,
      A!SendInactivityExpires, EndA!SendInactivityExpires
<1>7. \A r : A!ReceiveInactivityExpires(r) => EndA!ReceiveInactivityExpires(r)
  BY Zenon
  DEF A!Ref, EndA!Ref, A!lockVars, EndA!lockVars, A!TimerKinds, EndA!TimerKinds, A!NewSection,
      EndA!NewSection, A!ReleaseMessage, EndA!ReleaseMessage, A!Start, EndA!Start, A!Stop,
      EndA!Stop, A!StopConnectionTimers, EndA!StopConnectionTimers, A!After, EndA!After, A!Due,
      EndA!Due, A!Earliest, EndA!Earliest, A!AfterPrimitive, EndA!AfterPrimitive, A!Primitive,
      EndA!Primitive, A!OctetsWithout, EndA!OctetsWithout, A!BeginRelease, EndA!BeginRelease,
      A!Fires, EndA!Fires, A!ReceiveInactivityExpires, EndA!ReceiveInactivityExpires
<1>8. \A r : A!ReleaseExpires(r) => EndA!ReleaseExpires(r)
  BY Zenon
  DEF A!Ref, EndA!Ref, A!lockVars, EndA!lockVars, A!history, EndA!history, A!ReleaseMessage,
      EndA!ReleaseMessage, A!Start, EndA!Start, A!Stop, EndA!Stop, A!After, EndA!After, A!Due,
      EndA!Due, A!Earliest, EndA!Earliest, A!Expired, EndA!Expired, A!BeforeGiveUp,
      EndA!BeforeGiveUp, A!ScheduleRepeat, EndA!ScheduleRepeat, A!Fires, EndA!Fires,
      A!RepeatRelease, EndA!RepeatRelease, A!StartGiveUp, EndA!StartGiveUp, A!ReleaseExpires,
      EndA!ReleaseExpires
<1>9. \A r : A!RepeatExpires(r) => EndA!RepeatExpires(r)
  BY Zenon
  DEF A!Ref, EndA!Ref, A!lockVars, EndA!lockVars, A!history, EndA!history, A!ReleaseMessage,
      EndA!ReleaseMessage, A!Start, EndA!Start, A!Stop, EndA!Stop, A!After, EndA!After, A!Due,
      EndA!Due, A!Earliest, EndA!Earliest, A!Expired, EndA!Expired, A!BeforeGiveUp,
      EndA!BeforeGiveUp, A!ScheduleRepeat, EndA!ScheduleRepeat, A!Fires, EndA!Fires,
      A!RepeatRelease, EndA!RepeatRelease, A!RepeatExpires, EndA!RepeatExpires
<1>10. \A r : A!GiveUpExpires(r) => EndA!GiveUpExpires(r)
  BY Zenon
  DEF A!Ref, EndA!Ref, A!lockVars, EndA!lockVars, A!TimerKinds, EndA!TimerKinds, A!NewSection,
      EndA!NewSection, A!Start, EndA!Start, A!Stop, EndA!Stop, A!StopConnectionTimers,
      EndA!StopConnectionTimers, A!After, EndA!After, A!Due, EndA!Due, A!Earliest, EndA!Earliest,
      A!OctetsWithout, EndA!OctetsWithout, A!Freeze, EndA!Freeze, A!Fires, EndA!Fires,
      A!GiveUpExpires, EndA!GiveUpExpires
<1>11. \A r : A!FreezeExpires(r) => EndA!FreezeExpires(r)
  BY Zenon
  DEF A!Ref, EndA!Ref, A!lockVars, EndA!lockVars, A!NewSection, EndA!NewSection, A!NoSection,
      EndA!NoSection, A!Stop, EndA!Stop, A!Due, EndA!Due, A!Earliest, EndA!Earliest, A!Expired,
      EndA!Expired, A!Fires, EndA!Fires, A!FreezeExpires, EndA!FreezeExpires
<1>12. \A r : A!FireOf(r) => EndA!FireOf(r)
  BY Zenon, <1>5, <1>6, <1>7, <1>8, <1>9, <1>10, <1>11
  DEF A!FireOf, EndA!FireOf
<1>13. \A r : A!CandidateReference(r) => EndA!CandidateReference(r)
  BY Zenon
  DEF A!Ref, EndA!Ref, A!Occupied, EndA!Occupied, A!FirstProbe, EndA!FirstProbe, A!ProbeLimit,
      EndA!ProbeLimit, A!CandidateReference, EndA!CandidateReference,
      A!Cardinality, EndA!Cardinality
<1>14. A!Connect("B") => EndA!Connect("B")
  BY Zenon, <1>13
  DEF A!Ref, EndA!Ref, A!NewSection, EndA!NewSection, A!CRMessage, EndA!CRMessage, A!Start,
      EndA!Start, A!After, EndA!After, A!Due, EndA!Due, A!Ready, EndA!Ready, A!Unlock, EndA!Unlock,
      A!AfterPrimitive, EndA!AfterPrimitive, A!Primitive, EndA!Primitive, A!NextAfter,
      EndA!NextAfter, A!Register, EndA!Register, A!Connect, EndA!Connect
<1>15. \A r : A!Disconnect(r) => EndA!Disconnect(r)
  BY Zenon
  DEF A!Ref, EndA!Ref, A!TimerKinds, EndA!TimerKinds, A!NewSection, EndA!NewSection, A!CREFMessage,
      EndA!CREFMessage, A!ReleaseMessage, EndA!ReleaseMessage, A!Start, EndA!Start, A!Stop,
      EndA!Stop, A!StopConnectionTimers, EndA!StopConnectionTimers, A!After, EndA!After, A!Due,
      EndA!Due, A!Ready, EndA!Ready, A!Unlock, EndA!Unlock, A!AfterPrimitive, EndA!AfterPrimitive,
      A!Primitive, EndA!Primitive, A!IndicateUnless, EndA!IndicateUnless, A!OctetsWithout,
      EndA!OctetsWithout, A!Freeze, EndA!Freeze, A!BeginRelease, EndA!BeginRelease,
      A!DisconnectIncoming, EndA!DisconnectIncoming, A!DisconnectOutgoing, EndA!DisconnectOutgoing,
      A!DisconnectEstablished, EndA!DisconnectEstablished, A!Disconnect, EndA!Disconnect
<1>16. \A m : A!UnassignedReference(m) => EndA!UnassignedReference(m)
  BY Zenon
  DEF A!connVars, EndA!connVars, A!history, EndA!history, A!Unused, EndA!Unused, A!ReleaseComplete,
      EndA!ReleaseComplete, A!ErrorReply, EndA!ErrorReply, A!UnassignedReference,
      EndA!UnassignedReference
<1>17. \A m : A!KeepMismatched(m) => EndA!KeepMismatched(m)
  BY Zenon
  DEF A!connVars, EndA!connVars, A!history, EndA!history, A!Unused, EndA!Unused, A!HasSource,
      EndA!HasSource, A!ErrorReply, EndA!ErrorReply, A!CheckPeer, EndA!CheckPeer, A!Assigned,
      EndA!Assigned, A!PointCodeMismatch, EndA!PointCodeMismatch, A!SourceMismatch,
      EndA!SourceMismatch, A!KeepMismatched, EndA!KeepMismatched
<1>18. \A m : A!ReleaseMismatched(m) => EndA!ReleaseMismatched(m)
  BY Zenon
  DEF A!connVars, EndA!connVars, A!history, EndA!history, A!Unused, EndA!Unused, A!TimerKinds,
      EndA!TimerKinds, A!NewSection, EndA!NewSection, A!HasSource, EndA!HasSource,
      A!ReleaseMessage, EndA!ReleaseMessage, A!Start, EndA!Start, A!Stop, EndA!Stop,
      A!StopConnectionTimers, EndA!StopConnectionTimers, A!After, EndA!After, A!AfterPrimitive,
      EndA!AfterPrimitive, A!Primitive, EndA!Primitive, A!OctetsWithout, EndA!OctetsWithout,
      A!BeginRelease, EndA!BeginRelease, A!CheckPeer, EndA!CheckPeer, A!Assigned, EndA!Assigned,
      A!SourceMismatch, EndA!SourceMismatch, A!ReleaseMismatched, EndA!ReleaseMismatched
<1>19. \A m : A!ReceiveIncoming(m) => EndA!ReceiveIncoming(m)
  BY Zenon
  DEF A!connVars, EndA!connVars, A!history, EndA!history, A!Unused, EndA!Unused, A!HasSource,
      EndA!HasSource, A!CheckPeer, EndA!CheckPeer, A!Assigned, EndA!Assigned, A!PointCodeMismatch,
      EndA!PointCodeMismatch, A!SourceMismatch, EndA!SourceMismatch, A!Matches, EndA!Matches,
      A!Discard, EndA!Discard, A!ReceiveIncoming, EndA!ReceiveIncoming
<1>20. \A m : A!Confirmed(m) => EndA!Confirmed(m)
  BY Zenon
  DEF A!Unused, EndA!Unused, A!HasSource, EndA!HasSource, A!Start, EndA!Start, A!Stop, EndA!Stop,
      A!After, EndA!After, A!RunInactivity, EndA!RunInactivity, A!AfterPrimitive,
      EndA!AfterPrimitive, A!Primitive, EndA!Primitive, A!CheckPeer, EndA!CheckPeer, A!Assigned,
      EndA!Assigned, A!PointCodeMismatch, EndA!PointCodeMismatch, A!SourceMismatch,
      EndA!SourceMismatch, A!Matches, EndA!Matches, A!StillWanted, EndA!StillWanted, A!Associate,
      EndA!Associate, A!Confirmed, EndA!Confirmed
<1>21. \A m : A!ReleaseOnConfirm(m) => EndA!ReleaseOnConfirm(m)
  BY Zenon
  DEF A!Unused, EndA!Unused, A!TimerKinds, EndA!TimerKinds, A!NewSection, EndA!NewSection,
      A!HasSource, EndA!HasSource, A!ReleaseMessage, EndA!ReleaseMessage, A!Start, EndA!Start,
      A!Stop, EndA!Stop, A!StopConnectionTimers, EndA!StopConnectionTimers, A!After, EndA!After,
      A!AfterPrimitive, EndA!AfterPrimitive, A!Primitive, EndA!Primitive, A!IndicateUnless,
      EndA!IndicateUnless, A!OctetsWithout, EndA!OctetsWithout, A!BeginRelease, EndA!BeginRelease,
      A!CheckPeer, EndA!CheckPeer, A!Assigned, EndA!Assigned, A!PointCodeMismatch,
      EndA!PointCodeMismatch, A!SourceMismatch, EndA!SourceMismatch, A!Matches, EndA!Matches,
      A!StillWanted, EndA!StillWanted, A!Associate, EndA!Associate, A!ReleaseOnConfirm,
      EndA!ReleaseOnConfirm
<1>22. \A m : A!FailRequest(m) => EndA!FailRequest(m)
  BY Zenon
  DEF A!Unused, EndA!Unused, A!TimerKinds, EndA!TimerKinds, A!NewSection, EndA!NewSection,
      A!HasSource, EndA!HasSource, A!ReleaseComplete, EndA!ReleaseComplete, A!Start, EndA!Start,
      A!Stop, EndA!Stop, A!StopConnectionTimers, EndA!StopConnectionTimers, A!After, EndA!After,
      A!AfterPrimitive, EndA!AfterPrimitive, A!Primitive, EndA!Primitive, A!IndicateUnless,
      EndA!IndicateUnless, A!OctetsWithout, EndA!OctetsWithout, A!Freeze, EndA!Freeze, A!CheckPeer,
      EndA!CheckPeer, A!Assigned, EndA!Assigned, A!PointCodeMismatch, EndA!PointCodeMismatch,
      A!SourceMismatch, EndA!SourceMismatch, A!Matches, EndA!Matches, A!FailRequest,
      EndA!FailRequest
<1>23. \A m : A!ReceiveReleasing(m) => EndA!ReceiveReleasing(m)
  BY Zenon
  DEF A!connVars, EndA!connVars, A!history, EndA!history, A!Unused, EndA!Unused, A!TimerKinds,
      EndA!TimerKinds, A!NewSection, EndA!NewSection, A!HasSource, EndA!HasSource, A!Start,
      EndA!Start, A!Stop, EndA!Stop, A!StopConnectionTimers, EndA!StopConnectionTimers, A!After,
      EndA!After, A!OctetsWithout, EndA!OctetsWithout, A!Freeze, EndA!Freeze, A!CheckPeer,
      EndA!CheckPeer, A!Assigned, EndA!Assigned, A!PointCodeMismatch, EndA!PointCodeMismatch,
      A!SourceMismatch, EndA!SourceMismatch, A!Matches, EndA!Matches, A!Discard, EndA!Discard,
      A!ReceiveReleasing, EndA!ReceiveReleasing
<1>24. \A m : A!DiscardEstablished(m) => EndA!DiscardEstablished(m)
  BY Zenon
  DEF A!history, EndA!history, A!Start, EndA!Start, A!After, EndA!After, A!RestartReceive,
      EndA!RestartReceive, A!DiscardEstablished, EndA!DiscardEstablished
<1>25. \A m : A!ReceiveData(m) => EndA!ReceiveData(m)
  BY Zenon
  DEF A!Start, EndA!Start, A!After, EndA!After, A!AfterPrimitive, EndA!AfterPrimitive, A!Primitive,
      EndA!Primitive, A!OctetsWithout, EndA!OctetsWithout, A!Available, EndA!Available,
      A!Affordable, EndA!Affordable, A!NewCap, EndA!NewCap, A!WithinLimit, EndA!WithinLimit,
      A!WithinBudget, EndA!WithinBudget, A!RestartReceive, EndA!RestartReceive, A!Buffered,
      EndA!Buffered, A!Emptied, EndA!Emptied, A!ReceiveData, EndA!ReceiveData
<1>26. \A m : A!ReleaseEstablished(m) => EndA!ReleaseEstablished(m)
  BY Zenon
  DEF A!TimerKinds, EndA!TimerKinds, A!NewSection, EndA!NewSection, A!ReleaseMessage,
      EndA!ReleaseMessage, A!Start, EndA!Start, A!Stop, EndA!Stop, A!StopConnectionTimers,
      EndA!StopConnectionTimers, A!After, EndA!After, A!AfterPrimitive, EndA!AfterPrimitive,
      A!Primitive, EndA!Primitive, A!OctetsWithout, EndA!OctetsWithout, A!BeginRelease,
      EndA!BeginRelease, A!Available, EndA!Available, A!Affordable, EndA!Affordable, A!NewCap,
      EndA!NewCap, A!WithinLimit, EndA!WithinLimit, A!WithinBudget, EndA!WithinBudget,
      A!ReleaseEstablished, EndA!ReleaseEstablished
<1>27. \A m : A!EndEstablished(m) => EndA!EndEstablished(m)
  BY Zenon
  DEF A!TimerKinds, EndA!TimerKinds, A!NewSection, EndA!NewSection, A!ReleaseComplete,
      EndA!ReleaseComplete, A!Start, EndA!Start, A!Stop, EndA!Stop, A!StopConnectionTimers,
      EndA!StopConnectionTimers, A!After, EndA!After, A!AfterPrimitive, EndA!AfterPrimitive,
      A!Primitive, EndA!Primitive, A!OctetsWithout, EndA!OctetsWithout, A!Freeze, EndA!Freeze,
      A!EndEstablished, EndA!EndEstablished
<1>28. \A m : A!ReceiveEstablished(m) => EndA!ReceiveEstablished(m)
  BY Zenon, <1>24, <1>25, <1>26, <1>27
  DEF A!Unused, EndA!Unused, A!HasSource, EndA!HasSource, A!CheckPeer, EndA!CheckPeer, A!Assigned,
      EndA!Assigned, A!PointCodeMismatch, EndA!PointCodeMismatch, A!SourceMismatch,
      EndA!SourceMismatch, A!Matches, EndA!Matches, A!ReceiveEstablished, EndA!ReceiveEstablished
<1>29. \A m : A!ReceiveSectionMessage(m) => EndA!ReceiveSectionMessage(m)
  BY Zenon, <1>16, <1>17, <1>18, <1>19, <1>20, <1>21, <1>22, <1>23, <1>28
  DEF A!Ref, EndA!Ref, A!Due, EndA!Due, A!Ready, EndA!Ready, A!Unlock, EndA!Unlock,
      A!ReceiveSectionMessage, EndA!ReceiveSectionMessage
<1> QED BY Zenon, <1>1, <1>2, <1>3, <1>4, <1>12, <1>14, <1>15, <1>29

LEMMA SameB ==
    /\ B!Init => EndB!Init
    /\ B!Tick => EndB!Tick
    /\ B!Call => EndB!Call
    /\ B!HandleTimeout => EndB!HandleTimeout
    /\ \A x : B!FireOf(x) => EndB!FireOf(x)
    /\ \A x : B!Accept(x) => EndB!Accept(x)
    /\ \A x : B!Disconnect(x) => EndB!Disconnect(x)
    /\ \A m : B!ReceiveConnectionRequest(m) => EndB!ReceiveConnectionRequest(m)
    /\ \A m : B!ReceiveSectionMessage(m) => EndB!ReceiveSectionMessage(m)
<1>1. B!Init => EndB!Init
  BY Zenon
  DEF B!Ref, EndB!Ref, B!NewSection, EndB!NewSection, B!NoSection, EndB!NoSection, B!NoTimers,
      EndB!NoTimers, B!Init, EndB!Init
<1>2. B!Tick => EndB!Tick
  BY Zenon
  DEF B!Ref, EndB!Ref, B!lockVars, EndB!lockVars, B!Tick, EndB!Tick
<1>3. B!Call => EndB!Call
  BY Zenon
  DEF B!connVars, EndB!connVars, B!history, EndB!history, B!Call, EndB!Call
<1>4. B!HandleTimeout => EndB!HandleTimeout
  BY Zenon
  DEF B!Ref, EndB!Ref, B!connVars, EndB!connVars, B!history, EndB!history, B!Due, EndB!Due,
      B!Ready, EndB!Ready, B!Unlock, EndB!Unlock, B!HandleTimeout, EndB!HandleTimeout
<1>5. \A x : B!EstablishmentExpires(x) => EndB!EstablishmentExpires(x)
  BY Zenon
  DEF B!Ref, EndB!Ref, B!lockVars, EndB!lockVars, B!TimerKinds, EndB!TimerKinds, B!NewSection,
      EndB!NewSection, B!Start, EndB!Start, B!Stop, EndB!Stop, B!StopConnectionTimers,
      EndB!StopConnectionTimers, B!After, EndB!After, B!Due, EndB!Due, B!Earliest, EndB!Earliest,
      B!AfterPrimitive, EndB!AfterPrimitive, B!Primitive, EndB!Primitive, B!IndicateUnless,
      EndB!IndicateUnless, B!OctetsWithout, EndB!OctetsWithout, B!Freeze, EndB!Freeze, B!Fires,
      EndB!Fires, B!EstablishmentExpires, EndB!EstablishmentExpires
<1>6. \A x : B!SendInactivityExpires(x) => EndB!SendInactivityExpires(x)
  BY Zenon
  DEF B!Ref, EndB!Ref, B!lockVars, EndB!lockVars, B!history, EndB!history, B!ITMessage,
      EndB!ITMessage, B!Start, EndB!Start, B!Stop, EndB!Stop, B!After, EndB!After, B!Due, EndB!Due,
      B!Earliest, EndB!Earliest, B!Expired, EndB!Expired, B!Fires, EndB!Fires,
      B!SendInactivityExpires, EndB!SendInactivityExpires
<1>7. \A x : B!ReceiveInactivityExpires(x) => EndB!ReceiveInactivityExpires(x)
  BY Zenon
  DEF B!Ref, EndB!Ref, B!lockVars, EndB!lockVars, B!TimerKinds, EndB!TimerKinds, B!NewSection,
      EndB!NewSection, B!ReleaseMessage, EndB!ReleaseMessage, B!Start, EndB!Start, B!Stop,
      EndB!Stop, B!StopConnectionTimers, EndB!StopConnectionTimers, B!After, EndB!After, B!Due,
      EndB!Due, B!Earliest, EndB!Earliest, B!AfterPrimitive, EndB!AfterPrimitive, B!Primitive,
      EndB!Primitive, B!OctetsWithout, EndB!OctetsWithout, B!BeginRelease, EndB!BeginRelease,
      B!Fires, EndB!Fires, B!ReceiveInactivityExpires, EndB!ReceiveInactivityExpires
<1>8. \A x : B!ReleaseExpires(x) => EndB!ReleaseExpires(x)
  BY Zenon
  DEF B!Ref, EndB!Ref, B!lockVars, EndB!lockVars, B!history, EndB!history, B!ReleaseMessage,
      EndB!ReleaseMessage, B!Start, EndB!Start, B!Stop, EndB!Stop, B!After, EndB!After, B!Due,
      EndB!Due, B!Earliest, EndB!Earliest, B!Expired, EndB!Expired, B!BeforeGiveUp,
      EndB!BeforeGiveUp, B!ScheduleRepeat, EndB!ScheduleRepeat, B!Fires, EndB!Fires,
      B!RepeatRelease, EndB!RepeatRelease, B!StartGiveUp, EndB!StartGiveUp, B!ReleaseExpires,
      EndB!ReleaseExpires
<1>9. \A x : B!RepeatExpires(x) => EndB!RepeatExpires(x)
  BY Zenon
  DEF B!Ref, EndB!Ref, B!lockVars, EndB!lockVars, B!history, EndB!history, B!ReleaseMessage,
      EndB!ReleaseMessage, B!Start, EndB!Start, B!Stop, EndB!Stop, B!After, EndB!After, B!Due,
      EndB!Due, B!Earliest, EndB!Earliest, B!Expired, EndB!Expired, B!BeforeGiveUp,
      EndB!BeforeGiveUp, B!ScheduleRepeat, EndB!ScheduleRepeat, B!Fires, EndB!Fires,
      B!RepeatRelease, EndB!RepeatRelease, B!RepeatExpires, EndB!RepeatExpires
<1>10. \A x : B!GiveUpExpires(x) => EndB!GiveUpExpires(x)
  BY Zenon
  DEF B!Ref, EndB!Ref, B!lockVars, EndB!lockVars, B!TimerKinds, EndB!TimerKinds, B!NewSection,
      EndB!NewSection, B!Start, EndB!Start, B!Stop, EndB!Stop, B!StopConnectionTimers,
      EndB!StopConnectionTimers, B!After, EndB!After, B!Due, EndB!Due, B!Earliest, EndB!Earliest,
      B!OctetsWithout, EndB!OctetsWithout, B!Freeze, EndB!Freeze, B!Fires, EndB!Fires,
      B!GiveUpExpires, EndB!GiveUpExpires
<1>11. \A x : B!FreezeExpires(x) => EndB!FreezeExpires(x)
  BY Zenon
  DEF B!Ref, EndB!Ref, B!lockVars, EndB!lockVars, B!NewSection, EndB!NewSection, B!NoSection,
      EndB!NoSection, B!Stop, EndB!Stop, B!Due, EndB!Due, B!Earliest, EndB!Earliest, B!Expired,
      EndB!Expired, B!Fires, EndB!Fires, B!FreezeExpires, EndB!FreezeExpires
<1>12. \A x : B!FireOf(x) => EndB!FireOf(x)
  BY Zenon, <1>5, <1>6, <1>7, <1>8, <1>9, <1>10, <1>11
  DEF B!FireOf, EndB!FireOf
<1>13. \A x : B!Accept(x) => EndB!Accept(x)
  BY Zenon
  DEF B!Ref, EndB!Ref, B!CCMessage, EndB!CCMessage, B!Start, EndB!Start, B!After, EndB!After,
      B!Due, EndB!Due, B!Ready, EndB!Ready, B!Unlock, EndB!Unlock, B!RunInactivity,
      EndB!RunInactivity, B!AfterPrimitive, EndB!AfterPrimitive, B!Primitive, EndB!Primitive,
      B!Accept, EndB!Accept
<1>14. \A x : B!Disconnect(x) => EndB!Disconnect(x)
  BY Zenon
  DEF B!Ref, EndB!Ref, B!TimerKinds, EndB!TimerKinds, B!NewSection, EndB!NewSection, B!CREFMessage,
      EndB!CREFMessage, B!ReleaseMessage, EndB!ReleaseMessage, B!Start, EndB!Start, B!Stop,
      EndB!Stop, B!StopConnectionTimers, EndB!StopConnectionTimers, B!After, EndB!After, B!Due,
      EndB!Due, B!Ready, EndB!Ready, B!Unlock, EndB!Unlock, B!AfterPrimitive, EndB!AfterPrimitive,
      B!Primitive, EndB!Primitive, B!IndicateUnless, EndB!IndicateUnless, B!OctetsWithout,
      EndB!OctetsWithout, B!Freeze, EndB!Freeze, B!BeginRelease, EndB!BeginRelease,
      B!DisconnectIncoming, EndB!DisconnectIncoming, B!DisconnectOutgoing, EndB!DisconnectOutgoing,
      B!DisconnectEstablished, EndB!DisconnectEstablished, B!Disconnect, EndB!Disconnect
<1>15. \A x : B!CandidateReference(x) => EndB!CandidateReference(x)
  BY Zenon
  DEF B!Ref, EndB!Ref, B!Occupied, EndB!Occupied, B!FirstProbe, EndB!FirstProbe, B!ProbeLimit,
      EndB!ProbeLimit, B!CandidateReference, EndB!CandidateReference,
      B!Cardinality, EndB!Cardinality
<1>16. \A m : B!ReceiveConnectionRequest(m) => EndB!ReceiveConnectionRequest(m)
  BY Zenon, <1>15
  DEF B!Ref, EndB!Ref, B!connVars, EndB!connVars, B!history, EndB!history, B!NewSection,
      EndB!NewSection, B!CREFMessage, EndB!CREFMessage, B!Due, EndB!Due, B!Ready, EndB!Ready,
      B!Unlock, EndB!Unlock, B!AfterPrimitive, EndB!AfterPrimitive, B!Primitive, EndB!Primitive,
      B!NextAfter, EndB!NextAfter, B!Register, EndB!Register, B!Originator, EndB!Originator,
      B!AdmitRequest, EndB!AdmitRequest, B!RefuseRequest, EndB!RefuseRequest,
      B!ReceiveConnectionRequest, EndB!ReceiveConnectionRequest
<1>17. \A m : B!UnassignedReference(m) => EndB!UnassignedReference(m)
  BY Zenon
  DEF B!connVars, EndB!connVars, B!history, EndB!history, B!Unused, EndB!Unused, B!ReleaseComplete,
      EndB!ReleaseComplete, B!ErrorReply, EndB!ErrorReply, B!UnassignedReference,
      EndB!UnassignedReference
<1>18. \A m : B!KeepMismatched(m) => EndB!KeepMismatched(m)
  BY Zenon
  DEF B!connVars, EndB!connVars, B!history, EndB!history, B!Unused, EndB!Unused, B!HasSource,
      EndB!HasSource, B!ErrorReply, EndB!ErrorReply, B!CheckPeer, EndB!CheckPeer, B!Assigned,
      EndB!Assigned, B!PointCodeMismatch, EndB!PointCodeMismatch, B!SourceMismatch,
      EndB!SourceMismatch, B!KeepMismatched, EndB!KeepMismatched
<1>19. \A m : B!ReleaseMismatched(m) => EndB!ReleaseMismatched(m)
  BY Zenon
  DEF B!connVars, EndB!connVars, B!history, EndB!history, B!Unused, EndB!Unused, B!TimerKinds,
      EndB!TimerKinds, B!NewSection, EndB!NewSection, B!HasSource, EndB!HasSource,
      B!ReleaseMessage, EndB!ReleaseMessage, B!Start, EndB!Start, B!Stop, EndB!Stop,
      B!StopConnectionTimers, EndB!StopConnectionTimers, B!After, EndB!After, B!AfterPrimitive,
      EndB!AfterPrimitive, B!Primitive, EndB!Primitive, B!OctetsWithout, EndB!OctetsWithout,
      B!BeginRelease, EndB!BeginRelease, B!CheckPeer, EndB!CheckPeer, B!Assigned, EndB!Assigned,
      B!SourceMismatch, EndB!SourceMismatch, B!ReleaseMismatched, EndB!ReleaseMismatched
<1>20. \A m : B!ReceiveIncoming(m) => EndB!ReceiveIncoming(m)
  BY Zenon
  DEF B!connVars, EndB!connVars, B!history, EndB!history, B!Unused, EndB!Unused, B!HasSource,
      EndB!HasSource, B!CheckPeer, EndB!CheckPeer, B!Assigned, EndB!Assigned, B!PointCodeMismatch,
      EndB!PointCodeMismatch, B!SourceMismatch, EndB!SourceMismatch, B!Matches, EndB!Matches,
      B!Discard, EndB!Discard, B!ReceiveIncoming, EndB!ReceiveIncoming
<1>21. \A m : B!Confirmed(m) => EndB!Confirmed(m)
  BY Zenon
  DEF B!Unused, EndB!Unused, B!HasSource, EndB!HasSource, B!Start, EndB!Start, B!Stop, EndB!Stop,
      B!After, EndB!After, B!RunInactivity, EndB!RunInactivity, B!AfterPrimitive,
      EndB!AfterPrimitive, B!Primitive, EndB!Primitive, B!CheckPeer, EndB!CheckPeer, B!Assigned,
      EndB!Assigned, B!PointCodeMismatch, EndB!PointCodeMismatch, B!SourceMismatch,
      EndB!SourceMismatch, B!Matches, EndB!Matches, B!StillWanted, EndB!StillWanted, B!Associate,
      EndB!Associate, B!Confirmed, EndB!Confirmed
<1>22. \A m : B!ReleaseOnConfirm(m) => EndB!ReleaseOnConfirm(m)
  BY Zenon
  DEF B!Unused, EndB!Unused, B!TimerKinds, EndB!TimerKinds, B!NewSection, EndB!NewSection,
      B!HasSource, EndB!HasSource, B!ReleaseMessage, EndB!ReleaseMessage, B!Start, EndB!Start,
      B!Stop, EndB!Stop, B!StopConnectionTimers, EndB!StopConnectionTimers, B!After, EndB!After,
      B!AfterPrimitive, EndB!AfterPrimitive, B!Primitive, EndB!Primitive, B!IndicateUnless,
      EndB!IndicateUnless, B!OctetsWithout, EndB!OctetsWithout, B!BeginRelease, EndB!BeginRelease,
      B!CheckPeer, EndB!CheckPeer, B!Assigned, EndB!Assigned, B!PointCodeMismatch,
      EndB!PointCodeMismatch, B!SourceMismatch, EndB!SourceMismatch, B!Matches, EndB!Matches,
      B!StillWanted, EndB!StillWanted, B!Associate, EndB!Associate, B!ReleaseOnConfirm,
      EndB!ReleaseOnConfirm
<1>23. \A m : B!FailRequest(m) => EndB!FailRequest(m)
  BY Zenon
  DEF B!Unused, EndB!Unused, B!TimerKinds, EndB!TimerKinds, B!NewSection, EndB!NewSection,
      B!HasSource, EndB!HasSource, B!ReleaseComplete, EndB!ReleaseComplete, B!Start, EndB!Start,
      B!Stop, EndB!Stop, B!StopConnectionTimers, EndB!StopConnectionTimers, B!After, EndB!After,
      B!AfterPrimitive, EndB!AfterPrimitive, B!Primitive, EndB!Primitive, B!IndicateUnless,
      EndB!IndicateUnless, B!OctetsWithout, EndB!OctetsWithout, B!Freeze, EndB!Freeze, B!CheckPeer,
      EndB!CheckPeer, B!Assigned, EndB!Assigned, B!PointCodeMismatch, EndB!PointCodeMismatch,
      B!SourceMismatch, EndB!SourceMismatch, B!Matches, EndB!Matches, B!FailRequest,
      EndB!FailRequest
<1>24. \A m : B!ReceiveReleasing(m) => EndB!ReceiveReleasing(m)
  BY Zenon
  DEF B!connVars, EndB!connVars, B!history, EndB!history, B!Unused, EndB!Unused, B!TimerKinds,
      EndB!TimerKinds, B!NewSection, EndB!NewSection, B!HasSource, EndB!HasSource, B!Start,
      EndB!Start, B!Stop, EndB!Stop, B!StopConnectionTimers, EndB!StopConnectionTimers, B!After,
      EndB!After, B!OctetsWithout, EndB!OctetsWithout, B!Freeze, EndB!Freeze, B!CheckPeer,
      EndB!CheckPeer, B!Assigned, EndB!Assigned, B!PointCodeMismatch, EndB!PointCodeMismatch,
      B!SourceMismatch, EndB!SourceMismatch, B!Matches, EndB!Matches, B!Discard, EndB!Discard,
      B!ReceiveReleasing, EndB!ReceiveReleasing
<1>25. \A m : B!DiscardEstablished(m) => EndB!DiscardEstablished(m)
  BY Zenon
  DEF B!history, EndB!history, B!Start, EndB!Start, B!After, EndB!After, B!RestartReceive,
      EndB!RestartReceive, B!DiscardEstablished, EndB!DiscardEstablished
<1>26. \A m : B!ReceiveData(m) => EndB!ReceiveData(m)
  BY Zenon
  DEF B!Start, EndB!Start, B!After, EndB!After, B!AfterPrimitive, EndB!AfterPrimitive, B!Primitive,
      EndB!Primitive, B!OctetsWithout, EndB!OctetsWithout, B!Available, EndB!Available,
      B!Affordable, EndB!Affordable, B!NewCap, EndB!NewCap, B!WithinLimit, EndB!WithinLimit,
      B!WithinBudget, EndB!WithinBudget, B!RestartReceive, EndB!RestartReceive, B!Buffered,
      EndB!Buffered, B!Emptied, EndB!Emptied, B!ReceiveData, EndB!ReceiveData
<1>27. \A m : B!ReleaseEstablished(m) => EndB!ReleaseEstablished(m)
  BY Zenon
  DEF B!TimerKinds, EndB!TimerKinds, B!NewSection, EndB!NewSection, B!ReleaseMessage,
      EndB!ReleaseMessage, B!Start, EndB!Start, B!Stop, EndB!Stop, B!StopConnectionTimers,
      EndB!StopConnectionTimers, B!After, EndB!After, B!AfterPrimitive, EndB!AfterPrimitive,
      B!Primitive, EndB!Primitive, B!OctetsWithout, EndB!OctetsWithout, B!BeginRelease,
      EndB!BeginRelease, B!Available, EndB!Available, B!Affordable, EndB!Affordable, B!NewCap,
      EndB!NewCap, B!WithinLimit, EndB!WithinLimit, B!WithinBudget, EndB!WithinBudget,
      B!ReleaseEstablished, EndB!ReleaseEstablished
<1>28. \A m : B!EndEstablished(m) => EndB!EndEstablished(m)
  BY Zenon
  DEF B!TimerKinds, EndB!TimerKinds, B!NewSection, EndB!NewSection, B!ReleaseComplete,
      EndB!ReleaseComplete, B!Start, EndB!Start, B!Stop, EndB!Stop, B!StopConnectionTimers,
      EndB!StopConnectionTimers, B!After, EndB!After, B!AfterPrimitive, EndB!AfterPrimitive,
      B!Primitive, EndB!Primitive, B!OctetsWithout, EndB!OctetsWithout, B!Freeze, EndB!Freeze,
      B!EndEstablished, EndB!EndEstablished
<1>29. \A m : B!ReceiveEstablished(m) => EndB!ReceiveEstablished(m)
  BY Zenon, <1>25, <1>26, <1>27, <1>28
  DEF B!Unused, EndB!Unused, B!HasSource, EndB!HasSource, B!CheckPeer, EndB!CheckPeer, B!Assigned,
      EndB!Assigned, B!PointCodeMismatch, EndB!PointCodeMismatch, B!SourceMismatch,
      EndB!SourceMismatch, B!Matches, EndB!Matches, B!ReceiveEstablished, EndB!ReceiveEstablished
<1>30. \A m : B!ReceiveSectionMessage(m) => EndB!ReceiveSectionMessage(m)
  BY Zenon, <1>17, <1>18, <1>19, <1>20, <1>21, <1>22, <1>23, <1>24, <1>29
  DEF B!Ref, EndB!Ref, B!Due, EndB!Due, B!Ready, EndB!Ready, B!Unlock, EndB!Unlock,
      B!ReceiveSectionMessage, EndB!ReceiveSectionMessage
<1> QED BY Zenon, <1>1, <1>2, <1>3, <1>4, <1>12, <1>13, <1>14, <1>16, <1>30

-----------------------------------------------------------------------------
(* What each end does.                                                     *)

RefA == 0 .. LimitA - 1
RefB == 0 .. LimitB - 1

WorkA(m, r) == EndA!TimerWork(r) \/ EndA!UserLeaves(r) \/ EndA!MessageWork(m, r)
WorkB(m, x) == EndB!TimerWork(x) \/ EndB!UserLeaves(x) \/ EndB!MessageWork(m, x)

LEMMA StepsOfA ==
    /\ A!Init => EndA!Sound
    /\ EndA!Sound /\ A!Tick =>
          /\ EndA!Sound'
          /\ \A q \in RefA : sectionA'[q] = sectionA[q]
          /\ \A q \in RefA : EndA!Connected(q) => EndA!Left(q)' = EndA!Left(q) - 1
          /\ \A q \in RefA : sectionA[q].state = "frozen" =>
                timerA'[q]["freeze"] = timerA[q]["freeze"] - 1
    /\ EndA!Sound /\ (A!Call \/ A!HandleTimeout \/ UNCHANGED endA) =>
          EndA!Sound' /\ \A q \in RefA : EndA!Kept(q)
    /\ \A r \in RefA : EndA!Sound /\ A!FireOf(r) =>
          EndA!Sound' /\ EndA!Elsewhere(r) /\ EndA!TimerWork(r)
    /\ \A r \in RefA : EndA!Sound /\ A!Disconnect(r) =>
          EndA!Sound' /\ EndA!Elsewhere(r) /\ EndA!UserLeaves(r)
    /\ EndA!Sound /\ A!Connect("B") =>
          /\ EndA!Sound'
          /\ \E r \in RefA : /\ sectionA[r].state = "idle" /\ sectionA'[r].state = "outgoing"
                             /\ EndA!Elsewhere(r)
                             /\ sentA' = <<EndA!CRMessage("B", r)>>
    /\ \A m \in EndA!SectionMessage : EndA!Sound /\ A!ReceiveSectionMessage(m) =>
          EndA!Sound' /\ EndA!Elsewhere(m.dst) /\ EndA!MessageWork(m, m.dst)
<1> USE DEF RefA
<1>r. EndA!Ref = RefA BY DEF EndA!Ref
<1>1. A!Init => EndA!Sound BY SameA, AssumedA, EndA!SoundInit
<1>2. ASSUME EndA!Sound, A!Tick
      PROVE  /\ EndA!Sound'
             /\ \A q \in RefA : sectionA'[q] = sectionA[q]
             /\ \A q \in RefA : EndA!Connected(q) => EndA!Left(q)' = EndA!Left(q) - 1
             /\ \A q \in RefA : sectionA[q].state = "frozen" =>
                   timerA'[q]["freeze"] = timerA[q]["freeze"] - 1
  BY <1>r, <1>2, SameA, AssumedA, EndA!SoundTick
<1>3. ASSUME EndA!Sound, A!Call \/ A!HandleTimeout \/ UNCHANGED endA
      PROVE  EndA!Sound' /\ \A q \in RefA : EndA!Kept(q)
  <2>1. EndA!Call \/ EndA!HandleTimeout \/ UNCHANGED EndA!vars
    BY <1>3, SameA DEF endA, EndA!vars, EndA!connVars, EndA!lockVars, EndA!history
  <2> QED BY <1>r, <1>3, <2>1, AssumedA, EndA!SoundQuiet
<1>4. ASSUME NEW r \in RefA, EndA!Sound, A!FireOf(r)
      PROVE  EndA!Sound' /\ EndA!Elsewhere(r) /\ EndA!TimerWork(r)
  BY <1>r, <1>4, SameA, AssumedA, EndA!SoundFire
<1>5. ASSUME NEW r \in RefA, EndA!Sound, A!Disconnect(r)
      PROVE  EndA!Sound' /\ EndA!Elsewhere(r) /\ EndA!UserLeaves(r)
  BY <1>r, <1>5, SameA, AssumedA, EndA!SoundDisconnect
<1>6. ASSUME EndA!Sound, A!Connect("B")
      PROVE  /\ EndA!Sound'
             /\ \E r \in RefA :
                   /\ sectionA[r].state = "idle" /\ sectionA'[r].state = "outgoing"
                   /\ EndA!Elsewhere(r)
                   /\ sentA' = <<EndA!CRMessage("B", r)>>
  BY <1>r, <1>6, SameA, AssumedA, EndA!SoundConnect
<1>7. ASSUME NEW m \in EndA!SectionMessage, EndA!Sound, A!ReceiveSectionMessage(m)
      PROVE  EndA!Sound' /\ EndA!Elsewhere(m.dst) /\ EndA!MessageWork(m, m.dst)
  BY <1>7, SameA, AssumedA, EndA!SoundMessage
<1> QED BY <1>1, <1>2, <1>3, <1>4, <1>5, <1>6, <1>7

LEMMA StepsOfB ==
    /\ B!Init => EndB!Sound
    /\ EndB!Sound /\ B!Tick =>
          /\ EndB!Sound'
          /\ \A q \in RefB : sectionB'[q] = sectionB[q]
          /\ \A q \in RefB : EndB!Connected(q) => EndB!Left(q)' = EndB!Left(q) - 1
          /\ \A q \in RefB : sectionB[q].state = "frozen" =>
                timerB'[q]["freeze"] = timerB[q]["freeze"] - 1
    /\ EndB!Sound /\ (B!Call \/ B!HandleTimeout \/ UNCHANGED endB) =>
          EndB!Sound' /\ \A q \in RefB : EndB!Kept(q)
    /\ \A x \in RefB : EndB!Sound /\ B!FireOf(x) =>
          EndB!Sound' /\ EndB!Elsewhere(x) /\ EndB!TimerWork(x)
    /\ \A x \in RefB : EndB!Sound /\ B!Disconnect(x) =>
          EndB!Sound' /\ EndB!Elsewhere(x) /\ EndB!UserLeaves(x)
    /\ \A x \in RefB : EndB!Sound /\ B!Accept(x) =>
          /\ EndB!Sound'
          /\ sectionB[x].state = "incoming" /\ sectionB'[x].state = "established"
          /\ sectionB'[x].remote = sectionB[x].remote
          /\ EndB!Elsewhere(x)
          /\ sentB' = <<EndB!CCMessage(sectionB[x], x)>>
    /\ \A m \in EndB!CR : EndB!Sound /\ B!ReceiveConnectionRequest(m) =>
          EndB!Sound' /\ (EndB!Admits(m) \/ EndB!Refuses(m))
    /\ \A m \in EndB!SectionMessage : EndB!Sound /\ B!ReceiveSectionMessage(m) =>
          EndB!Sound' /\ EndB!Elsewhere(m.dst) /\ EndB!MessageWork(m, m.dst)
<1> USE DEF RefB
<1>r. EndB!Ref = RefB BY DEF EndB!Ref
<1>1. B!Init => EndB!Sound BY SameB, AssumedB, EndB!SoundInit
<1>2. ASSUME EndB!Sound, B!Tick
      PROVE  /\ EndB!Sound'
             /\ \A q \in RefB : sectionB'[q] = sectionB[q]
             /\ \A q \in RefB : EndB!Connected(q) => EndB!Left(q)' = EndB!Left(q) - 1
             /\ \A q \in RefB : sectionB[q].state = "frozen" =>
                   timerB'[q]["freeze"] = timerB[q]["freeze"] - 1
  BY <1>r, <1>2, SameB, AssumedB, EndB!SoundTick
<1>3. ASSUME EndB!Sound, B!Call \/ B!HandleTimeout \/ UNCHANGED endB
      PROVE  EndB!Sound' /\ \A q \in RefB : EndB!Kept(q)
  <2>1. EndB!Call \/ EndB!HandleTimeout \/ UNCHANGED EndB!vars
    BY <1>3, SameB DEF endB, EndB!vars, EndB!connVars, EndB!lockVars, EndB!history
  <2> QED BY <1>r, <1>3, <2>1, AssumedB, EndB!SoundQuiet
<1>4. ASSUME NEW x \in RefB, EndB!Sound, B!FireOf(x)
      PROVE  EndB!Sound' /\ EndB!Elsewhere(x) /\ EndB!TimerWork(x)
  BY <1>r, <1>4, SameB, AssumedB, EndB!SoundFire
<1>5. ASSUME NEW x \in RefB, EndB!Sound, B!Disconnect(x)
      PROVE  EndB!Sound' /\ EndB!Elsewhere(x) /\ EndB!UserLeaves(x)
  BY <1>r, <1>5, SameB, AssumedB, EndB!SoundDisconnect
<1>6. ASSUME NEW x \in RefB, EndB!Sound, B!Accept(x)
      PROVE  /\ EndB!Sound'
             /\ sectionB[x].state = "incoming" /\ sectionB'[x].state = "established"
             /\ sectionB'[x].remote = sectionB[x].remote
             /\ EndB!Elsewhere(x)
             /\ sentB' = <<EndB!CCMessage(sectionB[x], x)>>
  BY <1>r, <1>6, SameB, AssumedB, EndB!SoundAccept
<1>7. ASSUME NEW m \in EndB!CR, EndB!Sound, B!ReceiveConnectionRequest(m)
      PROVE  EndB!Sound' /\ (EndB!Admits(m) \/ EndB!Refuses(m))
  BY <1>7, SameB, AssumedB, EndB!SoundRequest
<1>8. ASSUME NEW m \in EndB!SectionMessage, EndB!Sound, B!ReceiveSectionMessage(m)
      PROVE  EndB!Sound' /\ EndB!Elsewhere(m.dst) /\ EndB!MessageWork(m, m.dst)
  BY <1>8, SameB, AssumedB, EndB!SoundMessage
<1> QED BY <1>1, <1>2, <1>3, <1>4, <1>5, <1>6, <1>7, <1>8

LEMMA SectionsOfA ==
    ASSUME EndA!Sound, NEW r \in RefA
    PROVE  /\ sectionA[r].state \in EndA!States
           /\ sectionA[r].state \in {"incoming", "established", "releasing"} =>
                 sectionA[r].peer = "B" /\ sectionA[r].remote \in RefB
           /\ EndA!Connected(r) => EndA!Left(r) \in 0 .. EndA!Lifetime
           /\ sectionA[r].state = "frozen" => timerA[r]["freeze"] \in Int
BY AssumedA, EndA!SoundSections DEF EndA!Ref, RefA, RefB

LEMMA SectionsOfB ==
    ASSUME EndB!Sound, NEW x \in RefB
    PROVE  /\ sectionB[x].state \in EndB!States
           /\ sectionB[x].state \in {"incoming", "established", "releasing"} =>
                 sectionB[x].peer = "A" /\ sectionB[x].remote \in RefA
           /\ EndB!Connected(x) => EndB!Left(x) \in 0 .. EndB!Lifetime
           /\ sectionB[x].state = "frozen" => timerB[x]["freeze"] \in Int
BY AssumedB, EndB!SoundSections DEF EndB!Ref, RefA, RefB

LEMMA WorkLastsA ==
    ASSUME EndA!Sound, NEW r \in RefA, NEW m, EndA!Kept(r) \/ WorkA(m, r)
    PROVE  EndA!Lasts(r)
BY AssumedA, EndA!WorkLasts, EndA!KeptLasts DEF EndA!Ref, RefA, WorkA

LEMMA WorkLastsB ==
    ASSUME EndB!Sound, NEW x \in RefB, NEW m, EndB!Kept(x) \/ WorkB(m, x)
    PROVE  EndB!Lasts(x)
BY AssumedB, EndB!WorkLasts, EndB!KeptLasts DEF EndB!Ref, RefB, WorkB

-----------------------------------------------------------------------------
(* The invariant.  A frozen reference of one end must not be used again    *)
(* while the other end, or a message under way, still belongs to the       *)
(* connection it carried.                                                  *)

(* Ticks in which an open connection of which nothing more arrives ends.   *)
Lifetime == InactivityReceiveTimeout + ReleaseTimeout + ReleaseGiveUpTimeout

(* The same, counted from a request that B's user has not answered.        *)
Span == AnswerTime + Lifetime

(* Ticks by which the MTP can still delay a message.                       *)
Spare == MaxFaults - faults

FreezeOutlasts == ReferenceFreeze > Span + MaxFaults

(* r carries the request k and is not free, for n ticks more if the freeze *)
(* is long enough.                                                         *)
HoldsA(r, k, n) ==
    /\ r \in RefA /\ requestOfA[r] = k /\ sectionA[r].state # "idle"
    /\ FreezeOutlasts => EndA!Outlives(r, n + Spare)

HoldsB(x, k, n) ==
    /\ x \in RefB /\ requestOfB[x] = k /\ sectionB[x].state # "idle"
    /\ FreezeOutlasts => EndB!Outlives(x, n + Spare)

(* An unanswered x of B can last n ticks more.                             *)
Waits(x, n) ==
    sectionB[x].state = "incoming" /\ n <= AnswerTime - unanswered[x] + Lifetime

(* The request k can still be answered, and the connection last n ticks.   *)
Pending(k, n) ==
    \/ n <= Span /\ \E f \in inFlight : f.message.type = "CR" /\ f.request = k
    \/ \E x \in RefB : requestOfB[x] = k /\ Waits(x, n)

(* f restarts T(iar) of r of A when that is established.                   *)
Restarts(f, r) ==
    /\ f.to = "A" /\ f.message.dst = r
    /\ \/ f.message.type \in {"CC", "CREF"}
       \/ f.message.type = "IT" /\ f.message.src = sectionA[r].remote

(* The connection of r, or of x, can last n ticks more.                    *)
ReachesA(r, n) ==
    \/ n <= EndA!Left(r)
    \/ sectionA[r].state = "established" /\ Pending(requestOfA[r], n)
    \/ /\ sectionA[r].state = "established" /\ n <= Lifetime
       /\ \E f \in inFlight : Restarts(f, r)

ReachesB(x, n) ==
    \/ Waits(x, n)
    \/ EndB!Connected(x) /\ n <= EndB!Left(x)
    \/ /\ sectionB[x].state = "established" /\ n <= Lifetime
       /\ \E f \in inFlight : f.to = "B" /\ f.message.type = "IT" /\ f.message.dst = x

(* For so long the reference at the other end is not free.                 *)
LinkedA(r) ==
    EndA!Connected(r) =>
        \A n \in 0 .. Span : ReachesA(r, n) => HoldsB(sectionA[r].remote, requestOfA[r], n)

LinkedB(x) ==
    sectionB[x].state \in {"incoming", "established", "releasing"} =>
        \A n \in 0 .. Span : ReachesB(x, n) => HoldsA(sectionB[x].remote, requestOfB[x], n)

(* A message under way belongs to what its references carry.               *)
Letting == {"releasing", "frozen"}

KnownRequest(f) ==
    /\ f.to = "B" /\ f.message \in EndB!CR
    /\ HoldsA(f.message.src, f.request, Span)

KnownToA(f) ==
    LET m == f.message
    IN  /\ f.to = "A" /\ m \in EndA!SectionMessage
        /\ m.type \in {"CC", "CREF", "IT", "RLSD", "RLC", "ERR"}
        /\ HoldsA(m.dst, f.request, 0)
        /\ m.type \in {"CC", "IT", "RLSD", "RLC"} => HoldsB(m.src, f.request, 0)
        /\ m.type = "CC" =>
              \A n \in 0 .. Span :
                 n <= Lifetime \/ Pending(f.request, n) => HoldsB(m.src, f.request, n)
        /\ m.type = "RLSD" => sectionB[m.src].state \in Letting
        /\ m.type = "RLC" => sectionA[m.dst].state \in Letting

KnownToB(f) ==
    LET m == f.message
    IN  /\ f.to = "B" /\ m \in EndB!SectionMessage
        /\ m.type \in {"IT", "RLSD", "RLC", "ERR"}
        /\ HoldsB(m.dst, f.request, 0)
        /\ m.type \in {"IT", "RLSD", "RLC"} => HoldsA(m.src, f.request, 0)
        /\ m.type = "RLSD" => sectionA[m.src].state \in Letting
        /\ m.type = "RLC" => sectionB[m.dst].state \in Letting

Known(f) ==
    f.request \in 1 .. requests /\ (KnownRequest(f) \/ KnownToA(f) \/ KnownToB(f))

(* A reference of A has a request of its own; A only calls, B is called.   *)
Histories ==
    /\ requests \in Nat /\ faults \in 0 .. MaxFaults
    /\ requestOfA \in [RefA -> 0 .. requests]
    /\ requestOfB \in [RefB -> 0 .. requests]
    /\ unanswered \in [RefB -> 0 .. AnswerTime]
    /\ \A r, q \in RefA : requestOfA[r] = requestOfA[q] /\ requestOfA[r] # NoRequest => r = q
    /\ \A r \in RefA : sectionA[r].state # "idle" => requestOfA[r] # NoRequest
    /\ \A x \in RefB : sectionB[x].state # "idle" => requestOfB[x] # NoRequest
    /\ \A r \in RefA : sectionA[r].state # "incoming"
    /\ \A x \in RefB : sectionB[x].state # "outgoing"

Core ==
    /\ EndA!Sound /\ EndB!Sound /\ Histories
    /\ IsFiniteSet(inFlight)
    /\ \A f \in inFlight : Known(f)
    /\ \A r \in RefA : LinkedA(r)
    /\ \A x \in RefB : LinkedB(x)

LEMMA Spans ==
    /\ Lifetime \in Nat /\ AnswerTime \in Nat /\ Span \in Nat /\ Span = AnswerTime + Lifetime
    /\ EndA!Lifetime = Lifetime /\ EndB!Lifetime = Lifetime
    /\ MaxFaults \in Nat /\ ReferenceFreeze \in Nat
BY StacksAssumption, PairAssumption DEF Span, Lifetime, EndA!Lifetime, EndB!Lifetime

LEMMA HoldsLess ==
    ASSUME EndA!Sound, EndB!Sound, Histories,
           NEW k, NEW n \in Nat, NEW i \in 0 .. n
    PROVE  /\ \A r : HoldsA(r, k, n) => HoldsA(r, k, i)
           /\ \A x : HoldsB(x, k, n) => HoldsB(x, k, i)
<1>1. Spare \in Nat /\ i <= n BY PairAssumption DEF Histories, Spare
<1>2. ASSUME NEW r, HoldsA(r, k, n) PROVE HoldsA(r, k, i)
  BY <1>1, <1>2, SectionsOfA DEF HoldsA, EndA!Outlives
<1>3. ASSUME NEW x, HoldsB(x, k, n) PROVE HoldsB(x, k, i)
  BY <1>1, <1>3, SectionsOfB DEF HoldsB, EndB!Outlives
<1> QED BY <1>2, <1>3

(* No step but Tick, and the end of a freeze that is not long enough,      *)
(* takes from what an end holds.                                           *)
Steady ==
    /\ \A r \in RefA :
          /\ EndA!Lasts(r)
          /\ sectionA[r].state # "idle" =>
                /\ requestOfA'[r] = requestOfA[r]
                /\ FreezeOutlasts \/ sectionA'[r].state # "idle"
    /\ \A x \in RefB :
          /\ EndB!Lasts(x)
          /\ sectionB[x].state # "idle" =>
                /\ requestOfB'[x] = requestOfB[x]
                /\ FreezeOutlasts \/ sectionB'[x].state # "idle"
    /\ requests' >= requests /\ faults' >= faults
    /\ Histories'

LEMMA RoomLeft ==
    \A n, most, f, g \in Nat : f <= g /\ g <= most =>
        /\ n + (most - f) \in Nat /\ n + (most - g) \in Nat
        /\ n + (most - g) <= n + (most - f)
        /\ \A span, freeze \in Nat : n <= span /\ freeze > span + most => freeze > n + (most - g)
OBVIOUS

LEMMA SteadyHolds ==
    ASSUME Core, Steady, NEW k, NEW n \in 0 .. Span
    PROVE  /\ \A r : HoldsA(r, k, n) => HoldsA(r, k, n)'
           /\ \A x : HoldsB(x, k, n) => HoldsB(x, k, n)'
<1>f. faults \in 0 .. MaxFaults /\ faults' \in 0 .. MaxFaults /\ faults' >= faults
  BY DEF Core, Histories, Steady
<1>1. /\ n + Spare \in Nat /\ n + Spare' \in Nat /\ n + Spare' <= n + Spare
      /\ FreezeOutlasts => ReferenceFreeze > n + Spare'
  <2>1. n \in Nat /\ n <= Span /\ Span \in Nat /\ MaxFaults \in Nat /\ ReferenceFreeze \in Nat
    BY Spans
  <2>2. faults \in Nat /\ faults' \in Nat /\ faults <= faults' /\ faults' <= MaxFaults
    BY <1>f, <2>1
  <2>3. n + Spare \in Nat /\ n + Spare' \in Nat /\ n + Spare' <= n + Spare
    BY Zenon, <2>1, <2>2, RoomLeft DEF Spare
  <2>4. ASSUME FreezeOutlasts PROVE ReferenceFreeze > n + Spare'
    BY Zenon, <2>1, <2>2, <2>4, RoomLeft DEF Spare, FreezeOutlasts
  <2> QED BY <2>3, <2>4
<1>2. ASSUME NEW r, HoldsA(r, k, n) PROVE HoldsA(r, k, n)'
  <2>1. /\ r \in RefA /\ requestOfA'[r] = k /\ EndA!Lasts(r) /\ sectionA[r].state # "idle"
        /\ FreezeOutlasts \/ sectionA'[r].state # "idle"
        /\ FreezeOutlasts => EndA!Outlives(r, n + Spare)
    BY <1>2 DEF HoldsA, Steady
  <2>2. ASSUME FreezeOutlasts
        PROVE  sectionA'[r].state # "idle" /\ EndA!Outlives(r, n + Spare)'
    <3>0. sectionA[r].state = "frozen" => timerA[r]["freeze"] \in Int
      BY <2>1, SectionsOfA DEF Core
    <3>1. EndA!Outlives(r, 0) BY <1>1, <2>1, <2>2, <3>0 DEF EndA!Outlives
    <3>2. sectionA'[r].state # "idle" BY <2>1, <3>1 DEF EndA!Lasts
    <3>3. ASSUME sectionA'[r].state = "frozen" PROVE timerA'[r]["freeze"] > n + Spare'
      <4>1. CASE EndA!Kept(r)
        <5>1. /\ sectionA[r].state = "frozen"
              /\ timerA'[r]["freeze"] = timerA[r]["freeze"]
          BY <3>3, <4>1 DEF EndA!Kept
        <5>2. timerA[r]["freeze"] > n + Spare BY <2>1, <2>2, <5>1 DEF EndA!Outlives
        <5> QED BY <1>1, <3>0, <5>1, <5>2
      <4>2. CASE timerA'[r]["freeze"] = ReferenceFreeze BY <1>1, <2>2, <4>2
      <4> QED BY <2>1, <3>3, <4>1, <4>2 DEF EndA!Lasts
    <3> QED BY <3>2, <3>3 DEF EndA!Outlives
  <2> QED BY <2>1, <2>2 DEF HoldsA
<1>3. ASSUME NEW x, HoldsB(x, k, n) PROVE HoldsB(x, k, n)'
  <2>1. /\ x \in RefB /\ requestOfB'[x] = k /\ EndB!Lasts(x) /\ sectionB[x].state # "idle"
        /\ FreezeOutlasts \/ sectionB'[x].state # "idle"
        /\ FreezeOutlasts => EndB!Outlives(x, n + Spare)
    BY <1>3 DEF HoldsB, Steady
  <2>2. ASSUME FreezeOutlasts
        PROVE  sectionB'[x].state # "idle" /\ EndB!Outlives(x, n + Spare)'
    <3>0. sectionB[x].state = "frozen" => timerB[x]["freeze"] \in Int
      BY <2>1, SectionsOfB DEF Core
    <3>1. EndB!Outlives(x, 0) BY <1>1, <2>1, <2>2, <3>0 DEF EndB!Outlives
    <3>2. sectionB'[x].state # "idle" BY <2>1, <3>1 DEF EndB!Lasts
    <3>3. ASSUME sectionB'[x].state = "frozen" PROVE timerB'[x]["freeze"] > n + Spare'
      <4>1. CASE EndB!Kept(x)
        <5>1. /\ sectionB[x].state = "frozen"
              /\ timerB'[x]["freeze"] = timerB[x]["freeze"]
          BY <3>3, <4>1 DEF EndB!Kept
        <5>2. timerB[x]["freeze"] > n + Spare BY <2>1, <2>2, <5>1 DEF EndB!Outlives
        <5> QED BY <1>1, <3>0, <5>1, <5>2
      <4>2. CASE timerB'[x]["freeze"] = ReferenceFreeze BY <1>1, <2>2, <4>2
      <4> QED BY <2>1, <3>3, <4>1, <4>2 DEF EndB!Lasts
    <3> QED BY <3>2, <3>3 DEF EndB!Outlives
  <2> QED BY <2>1, <2>2 DEF HoldsB
<1> QED BY <1>2, <1>3

(* A message under way stays known, as long as its request is not pending  *)
(* for longer.                                                             *)
LEMMA SteadyKnown ==
    ASSUME Core, Steady, NEW f, Known(f),
           \A n \in 0 .. Span : Pending(f.request, n)' => Pending(f.request, n)
    PROVE  Known(f)'
<1> DEFINE m == f.message
           k == f.request
<1>0. 0 \in 0 .. Span /\ Span \in 0 .. Span BY Spans
<1>1. /\ \A n \in 0 .. Span : \A r : HoldsA(r, k, n) => HoldsA(r, k, n)'
      /\ \A n \in 0 .. Span : \A x : HoldsB(x, k, n) => HoldsB(x, k, n)'
  BY SteadyHolds
<1>2. /\ \A r : HoldsA(r, k, 0) /\ sectionA[r].state \in Letting => sectionA'[r].state \in Letting
      /\ \A x : HoldsB(x, k, 0) /\ sectionB[x].state \in Letting => sectionB'[x].state \in Letting
  BY <1>0, <1>1 DEF Steady, EndA!Lasts, EndB!Lasts, HoldsA, HoldsB, EndA!Outlives, EndB!Outlives,
                    Letting
<1>3. k \in 1 .. requests' BY DEF Known, Steady, Core, Histories
<1> HIDE DEF m, k
<1>4. KnownRequest(f) => KnownRequest(f)' BY <1>0, <1>1 DEF KnownRequest, k
<1>5. KnownToA(f) => KnownToA(f)' BY <1>0, <1>1, <1>2 DEF KnownToA, k
<1>6. KnownToB(f) => KnownToB(f)' BY <1>0, <1>1, <1>2 DEF KnownToB, k
<1> QED BY <1>3, <1>4, <1>5, <1>6 DEF Known, k

(* So does the link of a section that is kept.                             *)
LEMMA SteadyLinkA ==
    ASSUME Core, Steady, NEW r \in RefA, EndA!Kept(r),
           requestOfA'[r] = requestOfA[r],
           \A n \in 0 .. Span : Pending(requestOfA[r], n)' => Pending(requestOfA[r], n),
           \A f \in inFlight' \ inFlight : sectionA[r].state = "established" /\ Restarts(f, r) =>
              \A n \in 0 .. Lifetime :
                 ReachesA(r, n) \/ HoldsB(sectionA[r].remote, requestOfA[r], n)'
    PROVE  LinkedA(r)'
<1>1. sectionA'[r] = sectionA[r] /\ timerA'[r] = timerA[r] BY DEF EndA!Kept
<1>2. /\ EndA!Connected(r)' <=> EndA!Connected(r)
      /\ EndA!Left(r)' = EndA!Left(r)
      /\ \A f : Restarts(f, r)' <=> Restarts(f, r)
  BY <1>1 DEF EndA!Connected, EndA!Left, Restarts
<1> SUFFICES ASSUME EndA!Connected(r), NEW n \in 0 .. Span, ReachesA(r, n)'
             PROVE  HoldsB(sectionA[r].remote, requestOfA[r], n)'
  BY <1>1, <1>2 DEF LinkedA
<1>3. n \in Nat BY Spans
<1>4. ReachesA(r, n) \/ HoldsB(sectionA[r].remote, requestOfA[r], n)'
  BY <1>1, <1>2, <1>3, Spans DEF ReachesA
<1>5. ReachesA(r, n) => HoldsB(sectionA[r].remote, requestOfA[r], n) BY DEF Core, LinkedA
<1> QED BY <1>1, <1>4, <1>5, SteadyHolds

LEMMA SteadyLinkB ==
    ASSUME Core, Steady, NEW x \in RefB, EndB!Kept(x),
           requestOfB'[x] = requestOfB[x], unanswered'[x] = unanswered[x],
           \A f \in inFlight' \ inFlight :
              /\ sectionB[x].state = "established"
              /\ f.to = "B" /\ f.message.type = "IT" /\ f.message.dst = x
              => \A n \in 0 .. Lifetime : HoldsA(sectionB[x].remote, requestOfB[x], n)'
    PROVE  LinkedB(x)'
<1>1. sectionB'[x] = sectionB[x] /\ timerB'[x] = timerB[x] BY DEF EndB!Kept
<1>2. /\ EndB!Connected(x)' <=> EndB!Connected(x)
      /\ EndB!Left(x)' = EndB!Left(x)
      /\ \A n : Waits(x, n)' <=> Waits(x, n)
  BY <1>1 DEF EndB!Connected, EndB!Left, Waits
<1> SUFFICES ASSUME sectionB[x].state \in {"incoming", "established", "releasing"},
                    NEW n \in 0 .. Span, ReachesB(x, n)'
             PROVE  HoldsA(sectionB[x].remote, requestOfB[x], n)'
  BY <1>1 DEF LinkedB
<1>3. n \in Nat BY Spans
<1>4. ReachesB(x, n) \/ HoldsA(sectionB[x].remote, requestOfB[x], n)'
  BY <1>1, <1>2, <1>3, Spans DEF ReachesB
<1>5. ReachesB(x, n) => HoldsA(sectionB[x].remote, requestOfB[x], n) BY DEF Core, LinkedB
<1> QED BY <1>1, <1>4, <1>5, SteadyHolds

(* What a step leaves, put together.                                       *)
Covered(f) ==
    LET m == f.message
    IN  /\ m.type = "IT" /\ f.to = "B" => sectionA'[m.src].state = "established"
        /\ m.type = "IT" /\ f.to = "A" => sectionB'[m.src].state = "established"
        /\ m.type \in {"CC", "CREF"} => \A n \in 0 .. Lifetime : Pending(f.request, n)

LEMMA LinksNow ==
    ASSUME Core
    PROVE  /\ \A r \in RefA : EndA!Connected(r) => HoldsB(sectionA[r].remote, requestOfA[r], 0)
           /\ \A x \in RefB : sectionB[x].state \in {"incoming", "established", "releasing"} =>
                 HoldsA(sectionB[x].remote, requestOfB[x], 0)
<1>0. 0 \in 0 .. Span BY Spans
<1>1. ASSUME NEW r \in RefA, EndA!Connected(r)
      PROVE  HoldsB(sectionA[r].remote, requestOfA[r], 0)
  <2>1. EndA!Left(r) \in Nat BY <1>1, SectionsOfA, Spans DEF Core
  <2>2. ReachesA(r, 0) BY <2>1 DEF ReachesA
  <2> QED BY <1>0, <1>1, <2>2 DEF Core, LinkedA
<1>2. ASSUME NEW x \in RefB, sectionB[x].state \in {"incoming", "established", "releasing"}
      PROVE  HoldsA(sectionB[x].remote, requestOfB[x], 0)
  <2>1. CASE sectionB[x].state = "incoming"
    <3>1. unanswered[x] \in 0 .. AnswerTime BY DEF Core, Histories
    <3>2. ReachesB(x, 0) BY <2>1, <3>1, Spans DEF ReachesB, Waits
    <3> QED BY <1>0, <1>2, <3>2 DEF Core, LinkedB
  <2>2. CASE EndB!Connected(x)
    <3>1. EndB!Left(x) \in Nat BY <2>2, SectionsOfB, Spans DEF Core
    <3>2. ReachesB(x, 0) BY <2>2, <3>1 DEF ReachesB
    <3> QED BY <1>0, <1>2, <3>2 DEF Core, LinkedB
  <2> QED BY <1>2, <2>1, <2>2 DEF EndB!Connected
<1> QED BY <1>1, <1>2

LEMMA PutTogether ==
    ASSUME Core, Steady, EndA!Sound', EndB!Sound', IsFiniteSet(inFlight'),
           unanswered' = unanswered,
           \A r \in RefA : LinkedA(r)' \/ (EndA!Kept(r) /\ requestOfA'[r] = requestOfA[r]),
           \A x \in RefB : LinkedB(x)' \/ (EndB!Kept(x) /\ requestOfB'[x] = requestOfB[x]),
           \A k \in 0 .. requests : \A n \in 0 .. Span : Pending(k, n)' => Pending(k, n),
           \A f \in inFlight' \ inFlight : Known(f)' /\ Covered(f)
    PROVE  Core'
<1>h. /\ Histories' /\ requests \in Nat /\ requests' \in Nat
      /\ \A r \in RefA : requestOfA[r] \in 0 .. requests
  BY DEF Steady, Core, Histories
<1>1. ASSUME NEW f \in inFlight' PROVE Known(f)'
  <2>1. CASE f \in inFlight
    <3>1. Known(f) BY <2>1 DEF Core
    <3>2. f.request \in 0 .. requests BY <1>h, <3>1 DEF Known
    <3> QED BY <3>1, <3>2, SteadyKnown
  <2> QED BY <1>1, <2>1
<1>2. ASSUME NEW r \in RefA, EndA!Kept(r), requestOfA'[r] = requestOfA[r]
      PROVE  LinkedA(r)'
  <2>1. ASSUME NEW f \in inFlight' \ inFlight, sectionA[r].state = "established", Restarts(f, r),
               NEW n \in 0 .. Lifetime
        PROVE  ReachesA(r, n) \/ HoldsB(sectionA[r].remote, requestOfA[r], n)'
    <3>1. f.to = "A" /\ f.message.dst = r /\ KnownToA(f)' /\ Covered(f)
      BY <2>1 DEF Restarts, Known, KnownRequest, KnownToB
    <3>2. requestOfA[r] = f.request BY <1>2, <3>1 DEF KnownToA, HoldsA
    <3>3. CASE f.message.type \in {"CC", "CREF"}
      BY <2>1, <3>1, <3>2, <3>3 DEF Covered, ReachesA
    <3>4. CASE f.message.type = "IT" /\ f.message.src = sectionA[r].remote
      <4>1. /\ f.message.src \in RefB /\ requestOfB'[f.message.src] = f.request
            /\ sectionB'[f.message.src].state = "established"
        BY <3>1, <3>4 DEF KnownToA, HoldsB, Covered
      <4>2. sectionA'[r].remote = f.message.src /\ requestOfA'[r] = f.request
        BY <1>2, <3>2, <3>4 DEF EndA!Kept
      <4> QED BY <4>1, <4>2 DEF HoldsB, EndB!Outlives
    <3> QED BY <2>1, <3>3, <3>4 DEF Restarts
  <2>2. \A n \in 0 .. Span : Pending(requestOfA[r], n)' => Pending(requestOfA[r], n)
    BY <1>2, <1>h
  <2> QED BY <1>2, <2>1, <2>2, SteadyLinkA
<1>3. ASSUME NEW x \in RefB, EndB!Kept(x), requestOfB'[x] = requestOfB[x]
      PROVE  LinkedB(x)'
  <2>1. ASSUME NEW f \in inFlight' \ inFlight, sectionB[x].state = "established",
               f.to = "B", f.message.type = "IT", f.message.dst = x,
               NEW n \in 0 .. Lifetime
        PROVE  HoldsA(sectionB[x].remote, requestOfB[x], n)'
    <3>1. Known(f)' /\ Covered(f) BY <2>1
    <3>2. KnownToB(f)' /\ f.request # NoRequest
      BY <1>h, <2>1, <3>1 DEF Known, KnownRequest, KnownToA, EndB!CR, NoRequest
    <3>3. /\ f.message.src \in RefA /\ requestOfA'[f.message.src] = f.request
          /\ requestOfB'[x] = f.request
          /\ sectionA'[f.message.src].state = "established"
      BY <2>1, <3>1, <3>2 DEF KnownToB, HoldsA, HoldsB, Covered
    <3>4. HoldsA(sectionB[x].remote, requestOfB[x], 0) BY <2>1, LinksNow
    <3>5. /\ sectionB[x].remote \in RefA
          /\ requestOfA'[sectionB[x].remote] = requestOfB[x]
      BY <3>4 DEF HoldsA, Steady, EndA!Outlives
    <3>6. sectionB[x].remote = f.message.src
      BY <1>3, <1>h, <3>2, <3>3, <3>5 DEF Histories
    <3>7. sectionB'[x].remote = f.message.src BY <1>3, <3>6 DEF EndB!Kept
    <3> QED BY <3>3, <3>7 DEF HoldsA, EndA!Outlives
  <2> QED BY <1>3, <2>1, SteadyLinkB
<1> QED BY <1>h, <1>1, <1>2, <1>3 DEF Core

-----------------------------------------------------------------------------
(* What is sent, as the MTP carries it.                                    *)

LEMMA FewSent ==
    /\ \A from, k : OwnMessages(from, <<>>, k) = {}
    /\ \A from, f, k : Answers(from, <<>>, f, k) = {}
    /\ \A from, m, k : OwnMessages(from, <<m>>, k) = {InTransit(from, m, k)}
    /\ \A from, m, f, k :
          Answers(from, <<m>>, f, k) =
            {InTransit(from, m, IF m.type \in {"ERR", "RLC", "CREF"} THEN f.request ELSE k)}
    /\ \A from, m, q, f, k :
          Answers(from, <<m, q>>, f, k) =
            {InTransit(from, m, f.request),
             InTransit(from, q, IF q.type \in {"ERR", "RLC", "CREF"} THEN f.request ELSE k)}
<1>0. DOMAIN <<>> = {} OBVIOUS
<1>1. \A m : DOMAIN <<m>> = {1} /\ Len(<<m>>) = 1 /\ <<m>>[1] = m OBVIOUS
<1>2. \A m, q : /\ DOMAIN <<m, q>> = {1, 2} /\ Len(<<m, q>>) = 2
                /\ <<m, q>>[1] = m /\ <<m, q>>[2] = q
  OBVIOUS
<1>3. \A from, k : OwnMessages(from, <<>>, k) = {} BY <1>0 DEF OwnMessages
<1>4. \A from, f, k : Answers(from, <<>>, f, k) = {} BY <1>0 DEF Answers
<1>5. \A from, m, k : OwnMessages(from, <<m>>, k) = {InTransit(from, m, k)}
  BY <1>1 DEF OwnMessages
<1>6. ASSUME NEW from, NEW m, NEW f, NEW k
      PROVE  Answers(from, <<m>>, f, k) =
               {InTransit(from, m, IF m.type \in {"ERR", "RLC", "CREF"} THEN f.request ELSE k)}
  BY <1>1 DEF Answers
<1>7. ASSUME NEW from, NEW m, NEW q, NEW f, NEW k
      PROVE  Answers(from, <<m, q>>, f, k) =
               {InTransit(from, m, f.request),
                InTransit(from, q, IF q.type \in {"ERR", "RLC", "CREF"} THEN f.request ELSE k)}
  BY <1>2 DEF Answers
<1> QED BY <1>3, <1>4, <1>5, <1>6, <1>7

(* A message of type t for dst, from src if it names one.                  *)
Names(f, to, k, t, dst) ==
    f.to = to /\ f.request = k /\ f.message.type = t /\ f.message.dst = dst

LEMMA CarriedCR ==
    ASSUME NEW k, NEW r \in RefA, NEW f, f = InTransit("A", EndA!CRMessage("B", r), k)
    PROVE  /\ f.to = "B" /\ f.request = k
           /\ f.message \in EndB!CR /\ f.message.type = "CR" /\ f.message.src = r
BY DEF InTransit, EndA!CRMessage, EndB!CR, RefA

LEMMA CarriedITToB ==
    ASSUME NEW k, NEW r \in RefA, NEW x \in RefB, NEW s, s.peer = "B", s.remote = x,
           NEW f,
           f = InTransit("A", EndA!ITMessage(s, r), k)
    PROVE  Names(f, "B", k, "IT", x) /\ f.message.src = r /\ f.message \in EndB!SectionMessage
<1>1. f.message = [type |-> "IT", peer |-> "A", dst |-> x, src |-> r, class |-> 2]
  BY DEF InTransit, EndA!ITMessage
<1>2. f.to = "B" /\ f.request = k BY DEF InTransit, EndA!ITMessage
<1> QED BY <1>1, <1>2 DEF Names, EndB!IT, EndB!SectionMessage, EndB!Ref, RefA, RefB

LEMMA CarriedRLSDToB ==
    ASSUME NEW k, NEW r \in RefA, NEW x \in RefB, NEW s, s.peer = "B", s.remote = x,
           NEW f,
           f = InTransit("A", EndA!ReleaseMessage(s, r), k)
    PROVE  Names(f, "B", k, "RLSD", x) /\ f.message.src = r /\ f.message \in EndB!SectionMessage
<1>1. f.message = [type |-> "RLSD", peer |-> "A", dst |-> x, src |-> r]
  BY DEF InTransit, EndA!ReleaseMessage
<1>2. f.to = "B" /\ f.request = k BY DEF InTransit, EndA!ReleaseMessage
<1> QED BY <1>1, <1>2 DEF Names, EndB!RLSD, EndB!SectionMessage, EndB!Ref, RefA, RefB

LEMMA CarriedSecondRLSD ==
    ASSUME NEW k, NEW r \in RefA, NEW x \in RefB, NEW f,
           f = InTransit("A", EndA!Release("B", x, r), k)
    PROVE  Names(f, "B", k, "RLSD", x) /\ f.message.src = r /\ f.message \in EndB!SectionMessage
<1>1. f.message = [type |-> "RLSD", peer |-> "A", dst |-> x, src |-> r]
  BY DEF InTransit, EndA!Release
<1>2. f.to = "B" /\ f.request = k BY DEF InTransit, EndA!Release
<1> QED BY <1>1, <1>2 DEF Names, EndB!RLSD, EndB!SectionMessage, EndB!Ref, RefA, RefB

LEMMA CarriedERRToB ==
    ASSUME NEW k, NEW r \in RefA, NEW x \in RefB, NEW m, m.peer = "B", m.src = x,
           NEW f,
           f = InTransit("A", EndA!ErrorReply(m), k)
    PROVE  Names(f, "B", k, "ERR", x) /\ f.message \in EndB!SectionMessage
<1>1. f.message = [type |-> "ERR", peer |-> "A", dst |-> x, cause |-> "other"]
  BY DEF InTransit, EndA!ErrorReply
<1>2. f.to = "B" /\ f.request = k BY DEF InTransit, EndA!ErrorReply
<1> QED BY <1>1, <1>2 DEF Names, EndB!ERR, EndB!SectionMessage, EndB!Ref, RefA, RefB

LEMMA CarriedRLCToB ==
    ASSUME NEW k, NEW r \in RefA, NEW x \in RefB, NEW m, m.peer = "B", m.src = x, m.dst = r,
           NEW f,
           f = InTransit("A", EndA!ReleaseComplete(m), k)
    PROVE  Names(f, "B", k, "RLC", x) /\ f.message.src = r /\ f.message \in EndB!SectionMessage
<1>1. f.message = [type |-> "RLC", peer |-> "A", dst |-> x, src |-> r]
  BY DEF InTransit, EndA!ReleaseComplete
<1>2. f.to = "B" /\ f.request = k BY DEF InTransit, EndA!ReleaseComplete
<1> QED BY <1>1, <1>2 DEF Names, EndB!RLC, EndB!SectionMessage, EndB!Ref, RefA, RefB

LEMMA CarriedCC ==
    ASSUME NEW k, NEW x \in RefB, NEW r \in RefA, NEW s, s.peer = "A", s.remote = r,
           NEW f,
           f = InTransit("B", EndB!CCMessage(s, x), k)
    PROVE  Names(f, "A", k, "CC", r) /\ f.message.src = x /\ f.message \in EndA!SectionMessage
<1>1. f.message = [type |-> "CC", peer |-> "B", dst |-> r, src |-> x, class |-> 2]
  BY DEF InTransit, EndB!CCMessage
<1>2. f.to = "A" /\ f.request = k BY DEF InTransit, EndB!CCMessage
<1> QED BY <1>1, <1>2 DEF Names, EndA!CC, EndA!SectionMessage, EndA!Ref, RefA, RefB

LEMMA CarriedCREF ==
    ASSUME NEW k, NEW x \in RefB, NEW r \in RefA, NEW f,
           f = InTransit("B", EndB!CREFMessage("A", r), k)
    PROVE  Names(f, "A", k, "CREF", r) /\ f.message \in EndA!SectionMessage
<1>1. f.message = [type |-> "CREF", peer |-> "B", dst |-> r]
  BY DEF InTransit, EndB!CREFMessage
<1>2. f.to = "A" /\ f.request = k BY DEF InTransit, EndB!CREFMessage
<1> QED BY <1>1, <1>2 DEF Names, EndA!CREF, EndA!SectionMessage, EndA!Ref, RefA, RefB

LEMMA CarriedITToA ==
    ASSUME NEW k, NEW x \in RefB, NEW r \in RefA, NEW s, s.peer = "A", s.remote = r,
           NEW f,
           f = InTransit("B", EndB!ITMessage(s, x), k)
    PROVE  Names(f, "A", k, "IT", r) /\ f.message.src = x /\ f.message \in EndA!SectionMessage
<1>1. f.message = [type |-> "IT", peer |-> "B", dst |-> r, src |-> x, class |-> 2]
  BY DEF InTransit, EndB!ITMessage
<1>2. f.to = "A" /\ f.request = k BY DEF InTransit, EndB!ITMessage
<1> QED BY <1>1, <1>2 DEF Names, EndA!IT, EndA!SectionMessage, EndA!Ref, RefA, RefB

LEMMA CarriedRLSDToA ==
    ASSUME NEW k, NEW x \in RefB, NEW r \in RefA, NEW s, s.peer = "A", s.remote = r,
           NEW f,
           f = InTransit("B", EndB!ReleaseMessage(s, x), k)
    PROVE  Names(f, "A", k, "RLSD", r) /\ f.message.src = x /\ f.message \in EndA!SectionMessage
<1>1. f.message = [type |-> "RLSD", peer |-> "B", dst |-> r, src |-> x]
  BY DEF InTransit, EndB!ReleaseMessage
<1>2. f.to = "A" /\ f.request = k BY DEF InTransit, EndB!ReleaseMessage
<1> QED BY <1>1, <1>2 DEF Names, EndA!RLSD, EndA!SectionMessage, EndA!Ref, RefA, RefB

LEMMA CarriedERRToA ==
    ASSUME NEW k, NEW x \in RefB, NEW r \in RefA, NEW m, m.peer = "A", m.src = r,
           NEW f,
           f = InTransit("B", EndB!ErrorReply(m), k)
    PROVE  Names(f, "A", k, "ERR", r) /\ f.message \in EndA!SectionMessage
<1>1. f.message = [type |-> "ERR", peer |-> "B", dst |-> r, cause |-> "other"]
  BY DEF InTransit, EndB!ErrorReply
<1>2. f.to = "A" /\ f.request = k BY DEF InTransit, EndB!ErrorReply
<1> QED BY <1>1, <1>2 DEF Names, EndA!ERR, EndA!SectionMessage, EndA!Ref, RefA, RefB

LEMMA CarriedRLCToA ==
    ASSUME NEW k, NEW x \in RefB, NEW r \in RefA, NEW m, m.peer = "A", m.src = r, m.dst = x,
           NEW f,
           f = InTransit("B", EndB!ReleaseComplete(m), k)
    PROVE  Names(f, "A", k, "RLC", r) /\ f.message.src = x /\ f.message \in EndA!SectionMessage
<1>1. f.message = [type |-> "RLC", peer |-> "B", dst |-> r, src |-> x]
  BY DEF InTransit, EndB!ReleaseComplete
<1>2. f.to = "A" /\ f.request = k BY DEF InTransit, EndB!ReleaseComplete
<1> QED BY <1>1, <1>2 DEF Names, EndA!RLC, EndA!SectionMessage, EndA!Ref, RefA, RefB

LEMMA MessagesOfEnds ==
    /\ \A m \in EndA!SectionMessage : m.peer = "B" /\ m.dst \in RefA
    /\ \A m \in EndB!SectionMessage : m.peer = "A" /\ m.dst \in RefB
    /\ \A m \in EndB!CR : m.type = "CR" /\ EndB!Originator(m) = "A" /\ m.src \in RefA
    /\ \A m \in EndA!SectionMessage \cup EndB!SectionMessage : m.type # "CR"
<1>1. \A m \in EndA!SectionMessage : m.peer = "B" /\ m.dst \in RefA /\ m.type # "CR"
  BY DEF RefA, EndA!SectionMessage, EndA!Ref, EndA!CC, EndA!CREF, EndA!RLSD, EndA!RLC, EndA!IT,
         EndA!DT1, EndA!ERR
<1>2. \A m \in EndB!SectionMessage : m.peer = "A" /\ m.dst \in RefB /\ m.type # "CR"
  BY DEF RefB, EndB!SectionMessage, EndB!Ref, EndB!CC, EndB!CREF, EndB!RLSD, EndB!RLC, EndB!IT,
         EndB!DT1, EndB!ERR
<1>3. \A m \in EndB!CR : m.type = "CR" /\ EndB!Originator(m) = "A" /\ m.src \in RefA
  BY DEF EndB!CR, EndB!Originator, RefA
<1> QED BY <1>1, <1>2, <1>3

-----------------------------------------------------------------------------
(* A step of section r of A, by a timer, the user or the message of g.     *)

Toward(g, to, r) == g \in inFlight /\ g.to = to /\ g.message.dst = r

SentByA(f, g, r) ==
    LET m == g.message
    IN  \/ /\ sectionA[r].state = "established" /\ sectionA'[r].state = "established"
           /\ f = InTransit("A", EndA!ITMessage(sectionA[r], r), requestOfA[r])
        \/ /\ EndA!Connected(r) /\ sectionA'[r].state = "releasing"
           /\ f = InTransit("A", EndA!ReleaseMessage(sectionA[r], r), requestOfA[r])
        \/ /\ Toward(g, "A", r) /\ m.type \in {"CC", "IT"} /\ sectionA'[r].state = "releasing"
           /\ f = InTransit("A", EndA!Release("B", m.src, r), g.request)
        \/ /\ Toward(g, "A", r) /\ m.type \in {"CC", "IT", "RLSD"}
           /\ f = InTransit("A", EndA!ErrorReply(m), g.request)
        \/ /\ Toward(g, "A", r) /\ m.type = "RLSD"
           /\ f = InTransit("A", EndA!ReleaseComplete(m), g.request)

WorksA(r, g) ==
    /\ EndA!Sound' /\ EndA!Elsewhere(r)
    /\ \/ EndA!TimerWork(r)
       \/ EndA!UserLeaves(r)
       \/ EndA!MessageWork(g.message, r) /\ Toward(g, "A", r)
    /\ UNCHANGED <<endB, requests, requestOfA, requestOfB, unanswered>>
    /\ faults' >= faults /\ faults' \in 0 .. MaxFaults
    /\ IsFiniteSet(inFlight')

(* The freeze of r ends, and it was not long enough to be sure.            *)
ThawsA(r) == ~FreezeOutlasts /\ EndA!Wakes(r)

LEMMA KnownToward ==
    ASSUME Core, NEW g, NEW r \in RefA, Toward(g, "A", r)
    PROVE  /\ KnownToA(g) /\ requestOfA[r] = g.request /\ g.request \in 1 .. requests
           /\ g.message \in EndA!SectionMessage /\ g.message.peer = "B"
           /\ g.message.type \in {"CC", "IT", "RLSD", "RLC"} =>
                 g.message.src \in RefB /\ HoldsB(g.message.src, g.request, 0)
<1>1. Known(g) /\ ~KnownRequest(g) /\ ~KnownToB(g)
  BY DEF Core, Toward, KnownRequest, KnownToB
<1>2. KnownToA(g) /\ g.request \in 1 .. requests BY <1>1 DEF Known
<1> QED BY <1>2, MessagesOfEnds DEF KnownToA, HoldsA, HoldsB, Toward

LEMMA WorksSteadyA ==
    ASSUME Core, NEW r \in RefA, NEW g, WorksA(r, g), ~ThawsA(r)
    PROVE  /\ Steady /\ EndB!Sound'
           /\ \A q \in RefA \ {r} : EndA!Kept(q) /\ requestOfA'[q] = requestOfA[q]
           /\ \A x \in RefB : EndB!Kept(x) /\ requestOfB'[x] = requestOfB[x]
<1>1. EndB!Sound' /\ \A x \in RefB : EndB!Kept(x) BY StepsOfB DEF WorksA, Core
<1>2. \A q \in RefA \ {r} : EndA!Kept(q) BY DEF WorksA, EndA!Elsewhere, EndA!Ref, RefA
<1>3. \A q \in RefA : EndA!Lasts(q)
  <2>1. WorkA(g.message, r) BY DEF WorksA, WorkA
  <2> QED BY <1>2, <2>1, WorkLastsA DEF Core
<1>4. \A x \in RefB : EndB!Lasts(x) BY <1>1, WorkLastsB DEF Core
<1>5. /\ sectionA'[r].state # "idle" => sectionA[r].state # "idle"
      /\ sectionA'[r].state = "incoming" => sectionA[r].state = "incoming"
  BY DEF WorksA, EndA!TimerWork, EndA!UserLeaves, EndA!MessageWork, EndA!Retires, EndA!Wakes,
         EndA!Wanes, EndA!Renews, EndA!Connected, EndA!Ignores, EndA!Objects, EndA!Joins,
         EndA!Closes, EndA!Continues, EndA!Kept, EndA!Unused
<1>6. UNCHANGED <<requests, requestOfA, requestOfB, unanswered>>
      /\ faults' >= faults /\ faults' \in 0 .. MaxFaults
  BY DEF WorksA
<1>7. /\ \A q \in RefA : /\ sectionA'[q].state # "idle" => sectionA[q].state # "idle"
                         /\ sectionA'[q].state = "incoming" => sectionA[q].state = "incoming"
      /\ \A x \in RefB : sectionB'[x] = sectionB[x]
  BY <1>1, <1>2, <1>5 DEF EndA!Kept, EndB!Kept
<1>10. sectionA[r].state # "idle" => FreezeOutlasts \/ sectionA'[r].state # "idle"
  BY DEF WorksA, ThawsA, EndA!TimerWork, EndA!UserLeaves, EndA!MessageWork, EndA!Retires,
         EndA!Wanes, EndA!Renews, EndA!Connected, EndA!Ignores, EndA!Objects, EndA!Joins,
         EndA!Closes, EndA!Continues, EndA!Kept
<1>11. \A q \in RefA : sectionA[q].state # "idle" => FreezeOutlasts \/ sectionA'[q].state # "idle"
  BY <1>2, <1>10 DEF EndA!Kept
<1>8. Histories' BY <1>6, <1>7 DEF Core, Histories
<1>9. requests' >= requests BY <1>6 DEF Core, Histories
<1> QED BY <1>1, <1>2, <1>3, <1>4, <1>6, <1>7, <1>8, <1>9, <1>11 DEF Steady

LEMMA BecomesKnownToB ==
    ASSUME NEW f, NEW k, NEW t \in {"IT", "RLSD", "RLC"}, NEW x, NEW r,
           Names(f, "B", k, t, x), f.message.src = r, f.message \in EndB!SectionMessage,
           HoldsB(x, k, 0)', HoldsA(r, k, 0)',
           t = "RLSD" => sectionA'[r].state \in Letting,
           t = "RLC" => sectionB'[x].state \in Letting
    PROVE  KnownToB(f)'
<1>1. /\ f.to = "B" /\ f.request = k /\ f.message.type = t /\ f.message.dst = x
      /\ f.message.src = r
  BY DEF Names
<1> QED BY <1>1 DEF KnownToB

LEMMA SentKnownA ==
    ASSUME Core, Steady, NEW r \in RefA, NEW g, WorksA(r, g),
           NEW f, SentByA(f, g, r)
    PROVE  Known(f)' /\ Covered(f) /\ f.to = "B" /\ f.message.type # "CR"
<1> DEFINE m == g.message
<1>0. 0 \in 0 .. Span BY Spans
<1>h. /\ \A k : \A q : HoldsA(q, k, 0) => HoldsA(q, k, 0)'
      /\ \A k : \A x : HoldsB(x, k, 0) => HoldsB(x, k, 0)'
  BY <1>0, SteadyHolds
<1>k. requests' = requests /\ requestOfA' = requestOfA /\ requests \in Nat
      /\ requestOfA[r] \in 0 .. requests
  BY DEF WorksA, Core, Histories
<1>e. \A k : requestOfA[r] = k /\ sectionA'[r].state \notin {"idle", "frozen"} => HoldsA(r, k, 0)'
  BY <1>k DEF HoldsA, EndA!Outlives
<1>c. ASSUME EndA!Connected(r)
      PROVE  /\ sectionA[r].peer = "B" /\ requestOfA[r] \in 1 .. requests
             /\ \E x \in RefB : sectionA[r].remote = x /\ HoldsB(x, requestOfA[r], 0)
  <2>1. sectionA[r].peer = "B" /\ sectionA[r].remote \in RefB
    BY <1>c, SectionsOfA DEF Core, EndA!Connected
  <2>2. HoldsB(sectionA[r].remote, requestOfA[r], 0) BY <1>c, LinksNow
  <2>3. requestOfA[r] # NoRequest BY <1>c DEF Core, Histories, EndA!Connected
  <2> QED BY <1>k, <2>1, <2>2, <2>3 DEF NoRequest
<1>1. CASE /\ sectionA[r].state = "established" /\ sectionA'[r].state = "established"
           /\ f = InTransit("A", EndA!ITMessage(sectionA[r], r), requestOfA[r])
  <2>1. PICK k \in 1 .. requests, x \in RefB :
          /\ requestOfA[r] = k /\ sectionA[r].remote = x /\ HoldsB(x, k, 0)
    BY <1>1, <1>c DEF EndA!Connected
  <2>2. Names(f, "B", k, "IT", x) /\ f.message.src = r /\ f.message \in EndB!SectionMessage
    BY <1>1, <1>c, <2>1, CarriedITToB DEF EndA!Connected
  <2>3. HoldsB(x, k, 0)' /\ HoldsA(r, k, 0)' BY <1>1, <1>e, <1>h, <2>1
  <2>4. KnownToB(f)' BY <2>2, <2>3, BecomesKnownToB
  <2> QED BY <1>1, <1>k, <2>2, <2>4 DEF Known, Covered, Names
<1>2. CASE /\ EndA!Connected(r) /\ sectionA'[r].state = "releasing"
           /\ f = InTransit("A", EndA!ReleaseMessage(sectionA[r], r), requestOfA[r])
  <2>1. PICK k \in 1 .. requests, x \in RefB :
          /\ requestOfA[r] = k /\ sectionA[r].remote = x /\ HoldsB(x, k, 0)
    BY <1>2, <1>c
  <2>2. Names(f, "B", k, "RLSD", x) /\ f.message.src = r /\ f.message \in EndB!SectionMessage
    BY <1>2, <1>c, <2>1, CarriedRLSDToB
  <2>3. HoldsB(x, k, 0)' /\ HoldsA(r, k, 0)' BY <1>2, <1>e, <1>h, <2>1
  <2>4. KnownToB(f)' BY <1>2, <2>2, <2>3, BecomesKnownToB DEF Letting
  <2> QED BY <1>k, <2>2, <2>4 DEF Known, Covered, Names
<1>3. CASE /\ Toward(g, "A", r) /\ m.type \in {"CC", "IT"} /\ sectionA'[r].state = "releasing"
           /\ f = InTransit("A", EndA!Release("B", m.src, r), g.request)
  <2>1. /\ requestOfA[r] = g.request /\ g.request \in 1 .. requests
        /\ m.src \in RefB /\ HoldsB(m.src, g.request, 0)
    BY <1>3, KnownToward
  <2>2. /\ Names(f, "B", g.request, "RLSD", m.src)
        /\ f.message.src = r /\ f.message \in EndB!SectionMessage
    BY <1>3, <2>1, CarriedSecondRLSD
  <2> HIDE DEF m
  <2>3. KnownToB(f)'
    <3>1. HoldsB(m.src, g.request, 0)' /\ HoldsA(r, g.request, 0)'
      BY <1>3, <1>e, <1>h, <2>1
    <3> QED BY <1>3, <2>2, <3>1, BecomesKnownToB DEF Letting
  <2> QED BY <1>k, <2>1, <2>2, <2>3 DEF Known, Covered, Names
<1>4. CASE /\ Toward(g, "A", r) /\ m.type \in {"CC", "IT", "RLSD"}
           /\ f = InTransit("A", EndA!ErrorReply(m), g.request)
  <2>1. /\ g.request \in 1 .. requests /\ m.peer = "B"
        /\ m.src \in RefB /\ HoldsB(m.src, g.request, 0)
    BY <1>4, KnownToward
  <2>2. Names(f, "B", g.request, "ERR", m.src) /\ f.message \in EndB!SectionMessage
    BY <1>4, <2>1, CarriedERRToB
  <2> HIDE DEF m
  <2>3. KnownToB(f)' BY <1>h, <2>1, <2>2 DEF KnownToB, Names
  <2> QED BY <1>k, <2>1, <2>2, <2>3 DEF Known, Covered, Names
<1>5. CASE /\ Toward(g, "A", r) /\ m.type = "RLSD"
           /\ f = InTransit("A", EndA!ReleaseComplete(m), g.request)
  <2>1. /\ g.request \in 1 .. requests /\ m.peer = "B" /\ m.dst = r /\ KnownToA(g)
        /\ m.src \in RefB /\ HoldsB(m.src, g.request, 0)
    BY <1>5, KnownToward DEF Toward
  <2>2. /\ Names(f, "B", g.request, "RLC", m.src)
        /\ f.message.src = r /\ f.message \in EndB!SectionMessage
    BY <1>5, <2>1, CarriedRLCToB
  <2>3. HoldsA(r, g.request, 0) /\ sectionB[m.src].state \in Letting
    BY <1>5, <2>1 DEF KnownToA
  <2>4. HoldsB(m.src, g.request, 0)' BY <1>h, <2>1
  <2>5. sectionB'[m.src].state \in Letting BY <2>1, <2>3 DEF WorksA, endB
  <2>6. HoldsA(r, g.request, 0)' BY <1>h, <2>3
  <2>7. KnownToB(f)' BY <2>2, <2>4, <2>5, <2>6, BecomesKnownToB
  <2> QED BY <1>k, <2>1, <2>2, <2>7 DEF Known, Covered, Names
<1> QED BY <1>1, <1>2, <1>3, <1>4, <1>5 DEF SentByA

(* How long the connections can last, in the state after a step.           *)
LeftsA == \A r \in RefA : EndA!Connected(r) => EndA!Left(r) \in 0 .. Lifetime
LeftsB == \A x \in RefB : EndB!Connected(x) => EndB!Left(x) \in 0 .. Lifetime

LEMMA LeftsNext ==
    /\ EndA!Sound => LeftsA
    /\ EndB!Sound => LeftsB
    /\ EndA!Sound' => LeftsA'
    /\ EndB!Sound' => LeftsB'
<1>1. EndA!Sound => LeftsA BY SectionsOfA, Spans DEF LeftsA
<1>2. EndB!Sound => LeftsB BY SectionsOfB, Spans DEF LeftsB
<1> QED BY <1>1, <1>2, PTL

LEMMA WorksLinkA ==
    ASSUME Core, Steady, NEW r \in RefA, NEW g, WorksA(r, g),
           \A k \in 0 .. requests : \A n \in 0 .. Span : Pending(k, n)' => Pending(k, n),
           \A f \in inFlight' \ inFlight : f.to = "B"
    PROVE  LinkedA(r)' \/ EndA!Kept(r)
<1>k. PICK k \in 0 .. requests : requestOfA[r] = k /\ requestOfA'[r] = k
  BY DEF WorksA, Core, Histories
<1>b. \A n \in 0 .. Span : \A x : HoldsB(x, k, n) => HoldsB(x, k, n)'
  BY SteadyHolds
<1>p. \A n \in 0 .. Span : Pending(k, n)' => Pending(k, n) BY <1>k
<1>t. EndA!Connected(r)' => EndA!Left(r)' \in 0 .. Lifetime
  BY LeftsNext DEF WorksA, LeftsA
<1>s. 0 .. Lifetime \subseteq 0 .. Span /\ \A n \in 0 .. Span : n \in Nat BY Spans
<1>1. ASSUME EndA!Wanes(r) PROVE LinkedA(r)'
  <2>1. PICK y : sectionA[r].remote = y /\ sectionA'[r].remote = y BY <1>1 DEF EndA!Wanes
  <2>2. /\ EndA!Connected(r) /\ EndA!Connected(r)' /\ EndA!Left(r)' <= EndA!Left(r)
        /\ sectionA'[r].state = "established" => sectionA[r].state = "established"
    BY <1>1 DEF EndA!Wanes, EndA!Connected
  <2>3. EndA!Left(r) \in 0 .. Lifetime /\ EndA!Left(r)' \in 0 .. Lifetime
    BY <1>t, <2>2, LeftsNext DEF Core, LeftsA
  <2>4. ASSUME NEW n \in 0 .. Span, ReachesA(r, n)' PROVE ReachesA(r, n)
    <3>1. CASE n <= EndA!Left(r)'
      <4>1. \A a, b : a \in 0 .. Lifetime /\ b \in 0 .. Lifetime /\ b <= a /\ n <= b => n <= a
        BY <1>s, Spans
      <4> QED BY <2>2, <2>3, <3>1, <4>1 DEF ReachesA
    <3>2. CASE sectionA'[r].state = "established" /\ Pending(k, n)'
      BY <1>k, <1>p, <2>2, <3>2 DEF ReachesA
    <3>3. CASE /\ sectionA'[r].state = "established" /\ n <= Lifetime
               /\ \E f \in inFlight' : Restarts(f, r)'
      <4>1. PICK f \in inFlight' : Restarts(f, r)' BY <3>3
      <4>2. f \in inFlight /\ Restarts(f, r) BY <2>1, <4>1 DEF Restarts
      <4> QED BY <2>2, <3>3, <4>2 DEF ReachesA
    <3> QED BY <1>k, <2>4, <3>1, <3>2, <3>3 DEF ReachesA
  <2>5. \A n \in 0 .. Span : ReachesA(r, n)' => HoldsB(y, k, n)'
    BY <1>b, <1>k, <2>1, <2>2, <2>4 DEF LinkedA, Core
  <2> QED BY <1>k, <2>1, <2>5 DEF LinkedA
<1>2. ASSUME EndA!Renews(r), EndA!Continues(g.message, r), Toward(g, "A", r) PROVE LinkedA(r)'
  <2>1. /\ sectionA[r].state = "established" /\ EndA!Connected(r) /\ EndA!Connected(r)'
        /\ sectionA[r].remote = sectionA'[r].remote
    BY <1>2 DEF EndA!Renews, EndA!Connected
  <2>2. PICK y : sectionA[r].remote = y /\ sectionA'[r].remote = y BY <2>1
  <2>3. Restarts(g, r)
    <3>1. /\ g.to = "A" /\ g.message.dst = r
          /\ g.message.type \in {"CC", "CREF", "IT", "RLSD", "RLC", "ERR"}
          /\ g.message.type = "RLC" => sectionA[r].state \in Letting
      BY <1>2, KnownToward DEF KnownToA, Toward
    <3>2. /\ g.message.type \in {"CC", "CREF", "RLC", "IT", "DT1"}
          /\ g.message.type = "IT" => g.message.src = sectionA[r].remote
      BY <1>2 DEF EndA!Continues, EndA!Renews
    <3> QED BY <2>1, <3>1, <3>2 DEF Restarts, Letting
  <2>4. ASSUME NEW n \in 0 .. Span, ReachesA(r, n)' PROVE ReachesA(r, n)
    <3>1. CASE n <= Lifetime BY <1>2, <2>1, <2>3, <3>1 DEF ReachesA, Toward
    <3>2. CASE Pending(k, n)' BY <1>k, <1>p, <2>1, <3>2 DEF ReachesA
    <3>3. n <= EndA!Left(r)' => n <= Lifetime
      <4>1. \A a : a \in 0 .. Lifetime /\ n <= a => n <= Lifetime BY <1>s, Spans
      <4> QED BY <1>t, <2>1, <4>1
    <3> QED BY <1>k, <2>4, <3>1, <3>2, <3>3 DEF ReachesA
  <2>5. \A n \in 0 .. Span : ReachesA(r, n)' => HoldsB(y, k, n)'
    BY <1>b, <1>k, <2>1, <2>2, <2>4 DEF LinkedA, Core
  <2> QED BY <1>k, <2>2, <2>5 DEF LinkedA
<1>3. ASSUME EndA!Joins(g.message, r), Toward(g, "A", r) PROVE LinkedA(r)'
  <2>1. PICK y : g.message.src = y /\ sectionA'[r].remote = y BY <1>3 DEF EndA!Joins
  <2>2. g.request = k /\ \A n \in 0 .. Span : n <= Lifetime \/ Pending(k, n) => HoldsB(y, k, n)
    BY <1>3, <1>k, <2>1, KnownToward DEF KnownToA, EndA!Joins
  <2>3. ASSUME NEW n \in 0 .. Span, ReachesA(r, n)', EndA!Connected(r)'
        PROVE  n <= Lifetime \/ Pending(k, n)
    <3>1. n <= EndA!Left(r)' => n <= Lifetime
      <4>1. \A a : a \in 0 .. Lifetime /\ n <= a => n <= Lifetime BY <1>s, Spans
      <4> QED BY <1>t, <2>3, <4>1
    <3> QED BY <1>k, <1>p, <2>3, <3>1 DEF ReachesA
  <2>4. EndA!Connected(r)' => \A n \in 0 .. Span : ReachesA(r, n)' => HoldsB(y, k, n)'
    BY <1>b, <2>2, <2>3
  <2> QED BY <1>k, <2>1, <2>4 DEF LinkedA
<1>4. ASSUME sectionA'[r].state \notin {"established", "releasing"} PROVE LinkedA(r)'
  BY <1>4 DEF LinkedA, EndA!Connected
<1>5. ASSUME EndA!Objects(g.message, r) PROVE LinkedA(r)'
  <2>1. sectionA[r].state # "incoming" BY DEF Core, Histories
  <2> QED BY <1>1, <1>5, <2>1 DEF EndA!Objects
<1> QED BY <1>1, <1>2, <1>3, <1>4, <1>5
        DEF WorksA, EndA!TimerWork, EndA!UserLeaves, EndA!MessageWork, EndA!Retires, EndA!Wakes,
            EndA!Ignores, EndA!Closes, EndA!Continues

LEMMA WorksCoreA ==
    ASSUME Core, NEW r \in RefA, NEW g, WorksA(r, g), ~ThawsA(r),
           \A f \in inFlight' \ inFlight : SentByA(f, g, r)
    PROVE  Core'
<1>1. /\ Steady /\ EndB!Sound'
      /\ \A q \in RefA \ {r} : EndA!Kept(q) /\ requestOfA'[q] = requestOfA[q]
      /\ \A x \in RefB : EndB!Kept(x) /\ requestOfB'[x] = requestOfB[x]
  BY WorksSteadyA
<1>2. \A f \in inFlight' \ inFlight :
         Known(f)' /\ Covered(f) /\ f.to = "B" /\ f.message.type # "CR"
  BY <1>1, SentKnownA
<1>3. UNCHANGED <<requestOfA, requestOfB, unanswered>> BY DEF WorksA
<1>4. ASSUME NEW k \in 0 .. requests, NEW n \in 0 .. Span, Pending(k, n)' PROVE Pending(k, n)
  <2>1. \A x \in RefB : sectionB'[x] = sectionB[x] BY <1>1 DEF EndB!Kept
  <2> QED BY <1>2, <1>3, <1>4, <2>1 DEF Pending, Waits
<1>5. LinkedA(r)' \/ EndA!Kept(r) BY <1>1, <1>2, <1>4, WorksLinkA
<1>6. EndA!Sound' /\ IsFiniteSet(inFlight') BY DEF WorksA
<1> QED BY <1>1, <1>2, <1>3, <1>4, <1>5, <1>6, PutTogether

(* What A sends of its own accord, and in answer to g.                     *)
LEMMA TypesSentA ==
    /\ \A s, r : EndA!ITMessage(s, r).type = "IT"
    /\ \A s, r : EndA!ReleaseMessage(s, r).type = "RLSD"
    /\ \A p, x, r : EndA!Release(p, x, r).type = "RLSD"
    /\ \A m : EndA!ErrorReply(m).type = "ERR"
    /\ \A m : EndA!ReleaseComplete(m).type = "RLC"
BY DEF EndA!ITMessage, EndA!ReleaseMessage, EndA!Release, EndA!ErrorReply, EndA!ReleaseComplete

LEMMA FewFinite ==
    /\ IsFiniteSet({})
    /\ \A a : IsFiniteSet({a})
    /\ \A a, b : IsFiniteSet({a, b})
<1>1. \A a : IsFiniteSet({a}) BY FS_Singleton
<1>2. ASSUME NEW a, NEW b PROVE IsFiniteSet({a, b})
  <2>1. IsFiniteSet({a} \cup {b}) BY <1>1, FS_AddElement
  <2>2. {a} \cup {b} = {a, b} OBVIOUS
  <2> QED BY <2>1, <2>2
<1> QED BY <1>1, <1>2, FS_EmptySet

LEMMA SendsOwnA ==
    ASSUME Core, NEW r \in RefA, NEW g, EndA!TimerWork(r) \/ EndA!UserLeaves(r)
    PROVE  /\ \A f \in OwnMessages("A", sentA', requestOfA[r]) : SentByA(f, g, r)
           /\ IsFiniteSet(OwnMessages("A", sentA', requestOfA[r]))
<1> DEFINE it == InTransit("A", EndA!ITMessage(sectionA[r], r), requestOfA[r])
           rlsd == InTransit("A", EndA!ReleaseMessage(sectionA[r], r), requestOfA[r])
           new == OwnMessages("A", sentA', requestOfA[r])
<1>1. CASE sentA' = <<>>
  <2>1. new = {} BY <1>1, FewSent
  <2> QED BY <2>1, FewFinite
<1>2. CASE /\ sectionA[r].state = "established" /\ sectionA'[r].state = "established"
           /\ sentA' = <<EndA!ITMessage(sectionA[r], r)>>
  <2>1. new = {it} BY <1>2, FewSent
  <2> QED BY <1>2, <2>1, FewFinite DEF SentByA
<1>3. CASE /\ EndA!Connected(r) /\ sectionA'[r].state = "releasing"
           /\ sentA' = <<EndA!ReleaseMessage(sectionA[r], r)>>
  <2>1. new = {rlsd} BY <1>3, FewSent
  <2> QED BY <1>3, <2>1, FewFinite DEF SentByA
<1>4. sectionA[r].state # "incoming" BY DEF Core, Histories
<1> QED BY <1>1, <1>2, <1>3, <1>4 DEF EndA!TimerWork, EndA!UserLeaves, EndA!Wanes

LEMMA SendsAnswersA ==
    ASSUME Core, NEW r \in RefA, NEW g, Toward(g, "A", r), EndA!MessageWork(g.message, r)
    PROVE  /\ \A f \in Answers("A", sentA', g, requestOfA[r]) : SentByA(f, g, r)
           /\ IsFiniteSet(Answers("A", sentA', g, requestOfA[r]))
<1> DEFINE m == g.message
           k == requestOfA[r]
           rlsd == InTransit("A", EndA!ReleaseMessage(sectionA[r], r), k)
           second == InTransit("A", EndA!Release("B", m.src, r), k)
           new == Answers("A", sentA', g, k)
<1>m. m.peer = "B" /\ k = g.request BY KnownToward
<1>1. CASE sentA' = <<>>
  <2>1. new = {} BY <1>1, FewSent
  <2> QED BY <2>1, FewFinite
<1>2. CASE /\ EndA!Connected(r) /\ sectionA'[r].state = "releasing"
           /\ sentA' = <<EndA!ReleaseMessage(sectionA[r], r)>>
  <2>1. new = {rlsd} BY <1>2, FewSent, TypesSentA
  <2> QED BY <1>2, <2>1, FewFinite DEF SentByA
<1>3. CASE /\ m.type = "CC" /\ sectionA'[r].state = "releasing"
           /\ sentA' = <<EndA!Release("B", m.src, r)>>
  <2>1. new = {second} BY <1>3, FewSent, TypesSentA
  <2> QED BY <1>3, <1>m, <2>1, FewFinite DEF SentByA
<1>4. CASE /\ EndA!Connected(r) /\ m.type = "IT" /\ sectionA'[r].state = "releasing"
           /\ sentA' = <<EndA!Release("B", m.src, r), EndA!ReleaseMessage(sectionA[r], r)>>
  <2>1. new = {second, rlsd} BY <1>4, <1>m, FewSent, TypesSentA
  <2>2. SentByA(second, g, r) BY <1>4, <1>m DEF SentByA
  <2>3. SentByA(rlsd, g, r) BY <1>4 DEF SentByA
  <2> HIDE DEF second, rlsd, new
  <2>4. IsFiniteSet({second, rlsd}) BY FewFinite
  <2>5. \A f \in new : SentByA(f, g, r) BY <2>1, <2>2, <2>3
  <2>6. IsFiniteSet(new) BY <2>1, <2>4
  <2> QED BY <2>5, <2>6 DEF new
<1>5. CASE m.type \in {"CC", "IT", "RLSD"} /\ sentA' = <<EndA!ErrorReply(m)>>
  <2>1. new = {InTransit("A", EndA!ErrorReply(m), g.request)} BY <1>5, FewSent, TypesSentA
  <2> QED BY <1>5, <2>1, FewFinite DEF SentByA
<1>6. CASE m.type = "RLSD" /\ sentA' = <<EndA!ReleaseComplete(m)>>
  <2>1. new = {InTransit("A", EndA!ReleaseComplete(m), g.request)} BY <1>6, FewSent, TypesSentA
  <2> QED BY <1>6, <2>1, FewFinite DEF SentByA
<1>7. sectionA[r].state # "incoming" BY DEF Core, Histories
<1> HIDE DEF m, new
<1> QED BY <1>1, <1>2, <1>3, <1>4, <1>5, <1>6, <1>7, <1>m
        DEF EndA!MessageWork, EndA!Ignores, EndA!Objects, EndA!Joins, EndA!Closes,
            EndA!Continues, EndA!Wanes, EndA!Connected, m

LEMMA DomainsOf ==
    /\ EndA!Sound => DOMAIN sectionA = RefA
    /\ EndB!Sound => DOMAIN sectionB = RefB
<1>1. ASSUME EndA!Sound PROVE DOMAIN sectionA = RefA
  <2>1. EndA!Typed BY <1>1, AssumedA, EndA!SoundIs
  <2> QED BY <2>1 DEF EndA!Typed, EndA!Ref, RefA
<1>2. ASSUME EndB!Sound PROVE DOMAIN sectionB = RefB
  <2>1. EndB!Typed BY <1>2, AssumedB, EndB!SoundIs
  <2> QED BY <2>1 DEF EndB!Typed, EndB!Ref, RefB
<1> QED BY <1>1, <1>2

LEMMA Domains == Core => DOMAIN sectionA = RefA /\ DOMAIN sectionB = RefB
BY DomainsOf DEF Core

LEMMA DomainsNext ==
    /\ EndA!Sound' => (DOMAIN sectionA = RefA)'
    /\ EndB!Sound' => (DOMAIN sectionB = RefB)'
BY DomainsOf, PTL

LEMMA TakesFew ==
    ASSUME Core, NEW f, NEW answers, IsFiniteSet(answers), Takes(f, answers)
    PROVE  /\ IsFiniteSet(inFlight') /\ inFlight' \ inFlight \subseteq answers
           /\ inFlight' \subseteq inFlight \cup answers
           /\ faults' >= faults /\ faults' \in 0 .. MaxFaults
<1>1. IsFiniteSet(inFlight \cup answers) BY FS_Union DEF Core
<1>2. inFlight' \subseteq inFlight \cup answers BY DEF Takes
<1>3. faults' >= faults /\ faults' \in 0 .. MaxFaults BY Spans DEF Takes, Core, Histories
<1> QED BY <1>1, <1>2, <1>3, FS_Subset

LEMMA OwnFew ==
    ASSUME Core, NEW own, IsFiniteSet(own), inFlight' = inFlight \cup own
    PROVE  IsFiniteSet(inFlight') /\ inFlight' \ inFlight \subseteq own
<1>1. IsFiniteSet(inFlight \cup own) BY FS_Union DEF Core
<1> QED BY <1>1

(* The freeze of r ends: nothing else changes, and as r is not freed early *)
(* nothing that is known or linked names it.                               *)
LEMMA ThawCoreA ==
    ASSUME Core, NEW r \in RefA, OwnA(r), sentA' = <<>>,
           EndA!Sound', EndA!Elsewhere(r), ThawsA(r), ~FreedEarly'
    PROVE  Core'
<1> USE DEF ThawsA
<1>1. UNCHANGED <<inFlight, endB, faults, requests, requestOfA, requestOfB, unanswered>>
  BY FewSent DEF OwnA
<1>2. EndB!Sound' BY <1>1, StepsOfB DEF Core
<1>3. sectionA'[r].state = "idle" /\ sectionA[r].state = "frozen" BY DEF EndA!Wakes
<1>4. \A q \in RefA \ {r} : sectionA'[q] = sectionA[q] /\ timerA'[q] = timerA[q]
  BY DEF EndA!Elsewhere, EndA!Kept, EndA!Ref, RefA
<1>5. sectionB' = sectionB /\ timerB' = timerB BY <1>1 DEF endB
<1>6. ~StillNamed("A", r, requestOfA[r], sectionB, requestOfB)
  <2>1. ~StillNamed("A", r, requestOfA[r], sectionB, requestOfB)'
    BY <1>1, <1>3, DomainsNext DEF FreedEarly
  <2> QED BY <1>1, <1>5, <2>1 DEF StillNamed
<1>7. /\ \A x, k, n : HoldsB(x, k, n) => HoldsB(x, k, n)'
      /\ \A q, k, n : HoldsA(q, k, n) => HoldsA(q, k, n)' \/ (q = r /\ k = requestOfA[r])
      /\ \A k, n : Pending(k, n)' => Pending(k, n)
      /\ \A x, n : Waits(x, n)' => Waits(x, n)
  <2>1. \A x, k, n : HoldsB(x, k, n) => HoldsB(x, k, n)' BY <1>1, <1>5 DEF HoldsB
  <2>2. \A q, k, n : HoldsA(q, k, n) => HoldsA(q, k, n)' \/ (q = r /\ k = requestOfA[r])
    BY <1>1, <1>4 DEF HoldsA
  <2>3. \A x, n : Waits(x, n)' => Waits(x, n) BY <1>1, <1>5 DEF Waits
  <2> QED BY <1>1, <2>1, <2>2, <2>3 DEF Pending
<1>8. ASSUME NEW f \in inFlight PROVE Known(f)'
  <2>1. ASSUME KnownRequest(f) PROVE KnownRequest(f)'
    <3>1. f.to # "A" /\ f.message.type = "CR" BY <2>1, MessagesOfEnds DEF KnownRequest
    <3>2. ~(f.message.src = r /\ f.request = requestOfA[r]) BY <1>6, <3>1 DEF StillNamed
    <3> QED BY <1>7, <2>1, <3>2 DEF KnownRequest
  <2>2. ASSUME KnownToA(f) PROVE KnownToA(f)'
    <3>1. ~(f.message.dst = r /\ f.request = requestOfA[r])
      BY <1>6, <2>2 DEF StillNamed, KnownToA
    <3>2. f.message.dst \in RefA \ {r} BY <2>2, <3>1 DEF KnownToA, HoldsA
    <3> QED BY <1>4, <1>5, <1>7, <2>2, <3>1, <3>2 DEF KnownToA
  <2>3. ASSUME KnownToB(f) PROVE KnownToB(f)'
    <3>1. f.message.type \in {"IT", "RLSD", "RLC"} => f.message.src \in RefA \ {r}
      BY <1>6, <2>3 DEF StillNamed, KnownToB, HoldsA, A!HasSource
    <3> QED BY <1>4, <1>5, <1>7, <2>3, <3>1 DEF KnownToB
  <2> QED BY <1>1, <2>1, <2>2, <2>3 DEF Core, Known
<1>9. ASSUME NEW q \in RefA PROVE LinkedA(q)'
  <2>1. CASE q = r BY <1>3, <2>1 DEF LinkedA, EndA!Connected
  <2>2. CASE q # r
    <3>1. sectionA'[q] = sectionA[q] /\ timerA'[q] = timerA[q] BY <1>4, <2>2
    <3>2. /\ EndA!Connected(q)' => EndA!Connected(q)
          /\ \A n : ReachesA(q, n)' => ReachesA(q, n)
      BY <1>1, <1>7, <3>1 DEF EndA!Connected, EndA!Left, ReachesA, Restarts
    <3> QED BY <1>1, <1>7, <3>1, <3>2 DEF Core, LinkedA
  <2> QED BY <2>1, <2>2
<1>10. ASSUME NEW x \in RefB PROVE LinkedB(x)'
  <2>1. \A n : ReachesB(x, n)' => ReachesB(x, n)
    BY <1>1, <1>5, <1>7 DEF EndB!Connected, EndB!Left, ReachesB
  <2>2. sectionB[x].state \in {"incoming", "established", "releasing"} =>
           ~(sectionB[x].remote = r /\ requestOfB[x] = requestOfA[r])
    BY <1>6, Domains DEF StillNamed
  <2> QED BY <1>1, <1>5, <1>7, <2>1, <2>2 DEF Core, LinkedB
<1>11. Histories'
  <2>1. \A q \in RefA : /\ sectionA'[q].state # "idle" => sectionA[q].state # "idle"
                        /\ sectionA'[q].state = "incoming" => sectionA[q].state = "incoming"
    BY <1>3, <1>4
  <2> QED BY <1>1, <1>5, <2>1 DEF Core, Histories
<1> QED BY <1>1, <1>2, <1>8, <1>9, <1>10, <1>11 DEF Core

LEMMA OwnCoreA ==
    ASSUME Core, FireA \/ DisconnectA, FreezeOutlasts \/ ~FreedEarly'
    PROVE  Core'
<1>1. PICK r \in RefA : (A!FireOf(r) \/ A!Disconnect(r)) /\ OwnA(r)
  BY Domains DEF FireA, DisconnectA
<1>2. EndA!Sound' /\ EndA!Elsewhere(r) /\ (EndA!TimerWork(r) \/ EndA!UserLeaves(r))
  BY <1>1, StepsOfA DEF Core
<1> DEFINE g == 0
<1>3. PICK own : own = OwnMessages("A", sentA', requestOfA[r]) OBVIOUS
<1>4. IsFiniteSet(own) /\ \A f \in own : SentByA(f, g, r) BY <1>2, <1>3, SendsOwnA
<1>5. inFlight' = inFlight \cup own BY <1>1, <1>3 DEF OwnA
<1>6. IsFiniteSet(inFlight') /\ inFlight' \ inFlight \subseteq own BY <1>4, <1>5, OwnFew
<1>7. faults' >= faults /\ faults' \in 0 .. MaxFaults BY <1>1 DEF OwnA, Core, Histories
<1>8. WorksA(r, g) BY <1>1, <1>2, <1>6, <1>7 DEF WorksA, OwnA
<1>9. \A f \in inFlight' \ inFlight : SentByA(f, g, r) BY <1>4, <1>6
<1>10. CASE ThawsA(r)
  <2>1. sentA' = <<>>
    BY <1>2, <1>10 DEF ThawsA, EndA!Wakes, EndA!TimerWork, EndA!UserLeaves, EndA!Retires,
                       EndA!Wanes, EndA!Connected
  <2> QED BY <1>1, <1>2, <1>10, <2>1, ThawCoreA DEF ThawsA
<1> QED BY <1>8, <1>9, <1>10, WorksCoreA

LEMMA ArriveCoreA ==
    ASSUME Core, NEW g \in inFlight, ArriveA(g)
    PROVE  Core'
<1>1. KnownToA(g) BY DEF Core, Known, KnownRequest, KnownToB, ArriveA
<1>2. PICK r \in RefA : g.message.dst = r BY <1>1 DEF KnownToA, HoldsA
<1>3. g.message \in EndA!SectionMessage /\ Toward(g, "A", r)
  BY <1>1, <1>2 DEF KnownToA, Toward
<1>4. EndA!Sound' /\ EndA!Elsewhere(r) /\ EndA!MessageWork(g.message, r)
  BY <1>2, <1>3, StepsOfA DEF Core, ArriveA
<1>5. PICK answers : answers = Answers("A", sentA', g, requestOfA[r]) OBVIOUS
<1>6. IsFiniteSet(answers) /\ \A f \in answers : SentByA(f, g, r)
  BY <1>3, <1>4, <1>5, SendsAnswersA
<1>7. Takes(g, answers) BY <1>2, <1>5 DEF ArriveA
<1>8. /\ IsFiniteSet(inFlight') /\ inFlight' \ inFlight \subseteq answers
      /\ faults' >= faults /\ faults' \in 0 .. MaxFaults
  BY <1>6, <1>7, TakesFew
<1>9. WorksA(r, g) BY <1>3, <1>4, <1>8 DEF WorksA, ArriveA
<1>10. \A f \in inFlight' \ inFlight : SentByA(f, g, r) BY <1>6, <1>8
<1>11. ~ThawsA(r)
  BY <1>4 DEF ThawsA, EndA!Wakes, EndA!MessageWork, EndA!Retires, EndA!Wanes, EndA!Renews,
              EndA!Connected, EndA!Ignores, EndA!Objects, EndA!Joins, EndA!Closes,
              EndA!Continues, EndA!Kept
<1> QED BY <1>9, <1>10, <1>11, WorksCoreA

(* A step that leaves every section as it was.                             *)
LEMMA QuietCore ==
    ASSUME Core,
           CallA \/ HandleTimeoutA \/ CallB \/ HandleTimeoutB \/ UNCHANGED vars
    PROVE  Core'
<1>1. /\ A!Call \/ A!HandleTimeout \/ UNCHANGED endA
      /\ B!Call \/ B!HandleTimeout \/ UNCHANGED endB
      /\ Quiet
  BY DEF CallA, HandleTimeoutA, CallB, HandleTimeoutB, vars, Quiet
<1>2. EndA!Sound' /\ \A r \in RefA : EndA!Kept(r) BY <1>1, StepsOfA DEF Core
<1>3. EndB!Sound' /\ \A x \in RefB : EndB!Kept(x) BY <1>1, StepsOfB DEF Core
<1>4. UNCHANGED <<inFlight, faults, requests, requestOfA, requestOfB, unanswered>>
  BY <1>1 DEF Quiet
<1>5. /\ \A r \in RefA : sectionA'[r] = sectionA[r] /\ EndA!Lasts(r)
      /\ \A x \in RefB : sectionB'[x] = sectionB[x] /\ EndB!Lasts(x)
  BY <1>2, <1>3, WorkLastsA, WorkLastsB DEF Core, EndA!Kept, EndB!Kept
<1>6. Histories' BY <1>4, <1>5 DEF Core, Histories
<1>7. Steady BY <1>4, <1>5, <1>6 DEF Steady, Core, Histories
<1>8. \A k \in 0 .. requests : \A n \in 0 .. Span : Pending(k, n)' => Pending(k, n)
  BY <1>4, <1>5 DEF Pending, Waits
<1> QED BY <1>2, <1>3, <1>4, <1>7, <1>8, PutTogether DEF Core

LEMMA ConnectCore ==
    ASSUME Core, Connect
    PROVE  Core'
<1>1. EndA!Sound' /\ \E r \in RefA : /\ sectionA[r].state = "idle"
                                     /\ sectionA'[r].state = "outgoing"
                                     /\ EndA!Elsewhere(r)
                                     /\ sentA' = <<EndA!CRMessage("B", r)>>
  BY StepsOfA DEF Core, Connect
<1>2. PICK r \in RefA : /\ sectionA[r].state = "idle" /\ sectionA'[r].state = "outgoing"
                        /\ EndA!Elsewhere(r)
                        /\ sentA' = <<EndA!CRMessage("B", r)>>
  BY <1>1
<1>k. PICK k \in Nat : k = requests + 1 BY DEF Core, Histories
<1>3. PICK cr : cr = InTransit("A", EndA!CRMessage("B", r), k) OBVIOUS
<1>4. inFlight' = inFlight \cup {cr}
  <2>1. inFlight' = inFlight \cup OwnMessages("A", sentA', k) BY <1>k DEF Connect
  <2> QED BY <1>2, <1>3, <2>1, FewSent
<1>5. EndB!Sound' /\ \A x \in RefB : EndB!Kept(x) BY StepsOfB DEF Core, Connect
<1>6. \A q \in RefA \ {r} : EndA!Kept(q) BY <1>2 DEF EndA!Elsewhere, EndA!Ref, RefA
<1>7. /\ requestOfA'[r] = k /\ DOMAIN requestOfA' = RefA
      /\ \A q \in RefA \ {r} : requestOfA'[q] = requestOfA[q]
      /\ requests' = k /\ faults' = faults /\ requestOfB' = requestOfB /\ unanswered' = unanswered
  BY <1>2, <1>6, <1>k DEF Connect, EndA!Kept, Core, Histories
<1>8. /\ \A q \in RefA : EndA!Lasts(q)
      /\ \A x \in RefB : EndB!Lasts(x)
  <2>1. EndA!Lasts(r) BY <1>2 DEF EndA!Lasts, EndA!Outlives
  <2> QED BY <1>5, <1>6, <2>1, WorkLastsA, WorkLastsB DEF Core
<1>9. /\ \A q \in RefA \ {r} : sectionA'[q] = sectionA[q]
      /\ \A x \in RefB : sectionB'[x] = sectionB[x]
  BY <1>5, <1>6 DEF EndA!Kept, EndB!Kept
<1>10. Histories'
  <2>1. requests \in Nat /\ k = requests + 1 /\ k \in Nat BY <1>k DEF Core, Histories
  <2>2. \A q \in RefA : requestOfA[q] \in 0 .. requests BY DEF Core, Histories
  <2>3. requestOfA' \in [RefA -> 0 .. k]
    <3>1. requestOfA' = [q \in RefA |-> requestOfA'[q]] BY <1>k, <1>7 DEF Connect, Core, Histories
    <3>2. \A q \in RefA : requestOfA'[q] \in 0 .. k BY <1>7, <2>1, <2>2
    <3> QED BY <3>1, <3>2
  <2>4. requestOfB' \in [RefB -> 0 .. k] BY <1>7, <2>1 DEF Core, Histories
  <2>5. \A p, q \in RefA : requestOfA'[p] = requestOfA'[q] /\ requestOfA'[p] # NoRequest => p = q
    <3>1. \A q \in RefA : requestOfA[q] # k BY <2>1, <2>2
    <3>2. \A p, q \in RefA : requestOfA[p] = requestOfA[q] /\ requestOfA[p] # NoRequest => p = q
      BY DEF Core, Histories
    <3> QED BY <1>7, <3>1, <3>2
  <2>6. \A q \in RefA : /\ sectionA'[q].state # "idle" => requestOfA'[q] # NoRequest
                        /\ sectionA'[q].state # "incoming"
    <3>1. k # NoRequest BY <2>1 DEF NoRequest
    <3> QED BY <1>2, <1>7, <1>9, <3>1 DEF Core, Histories
  <2>7. \A x \in RefB : /\ sectionB'[x].state # "idle" => requestOfB'[x] # NoRequest
                        /\ sectionB'[x].state # "outgoing"
    BY <1>7, <1>9 DEF Core, Histories
  <2>8. faults' \in 0 .. MaxFaults /\ unanswered' \in [RefB -> 0 .. AnswerTime]
    BY <1>7 DEF Core, Histories
  <2> QED BY <1>7, <2>1, <2>3, <2>4, <2>5, <2>6, <2>7, <2>8 DEF Histories
<1>11. Steady
  <2>1. requests' >= requests /\ faults' >= faults BY <1>7, <1>k DEF Core, Histories
  <2>2. \A q \in RefA : sectionA[q].state # "idle" =>
           requestOfA'[q] = requestOfA[q] /\ sectionA'[q].state # "idle"
    BY <1>2, <1>7, <1>9
  <2> QED BY <1>7, <1>8, <1>9, <1>10, <2>1, <2>2 DEF Steady
<1>12. /\ cr.to = "B" /\ cr.request = k
       /\ cr.message \in EndB!CR /\ cr.message.type = "CR" /\ cr.message.src = r
  BY <1>3, CarriedCR
<1>13. \A f \in inFlight' \ inFlight : Known(f)' /\ Covered(f)
  <2>1. HoldsA(r, k, Span)' BY <1>2, <1>7 DEF HoldsA, EndA!Outlives
  <2>2. KnownRequest(cr)' BY <1>12, <2>1 DEF KnownRequest
  <2>3. k \in 1 .. requests' BY <1>k, <1>7 DEF Core, Histories
  <2>4. Known(cr)' BY <1>12, <2>2, <2>3 DEF Known
  <2>5. Covered(cr) BY <1>12 DEF Covered
  <2> QED BY <1>4, <2>4, <2>5
<1>14. ASSUME NEW j \in 0 .. requests, NEW n \in 0 .. Span, Pending(j, n)' PROVE Pending(j, n)
  <2>1. cr.request # j BY <1>12, <1>k DEF Core, Histories
  <2>2. (\E f \in inFlight' : f.message.type = "CR" /\ f.request = j) =>
          \E f \in inFlight : f.message.type = "CR" /\ f.request = j
    BY <1>4, <2>1
  <2>3. \A x \in RefB : Waits(x, n)' => Waits(x, n) BY <1>7, <1>9 DEF Waits
  <2> QED BY <1>7, <1>14, <2>2, <2>3 DEF Pending
<1>15. LinkedA(r)' BY <1>2 DEF LinkedA, EndA!Connected
<1>16. IsFiniteSet(inFlight') BY <1>4, FS_AddElement DEF Core
<1>17. \A q \in RefA : LinkedA(q)' \/ (EndA!Kept(q) /\ requestOfA'[q] = requestOfA[q])
  BY <1>6, <1>7, <1>15
<1>18. \A x \in RefB : EndB!Kept(x) /\ requestOfB'[x] = requestOfB[x] BY <1>5, <1>7
<1> QED BY <1>1, <1>5, <1>7, <1>11, <1>13, <1>14, <1>16, <1>17, <1>18, PutTogether

-----------------------------------------------------------------------------
(* A step of section x of B, by a timer, the user or the message of g.     *)

AcceptsB(x) ==
    /\ sectionB[x].state = "incoming" /\ sectionB'[x].state = "established"
    /\ sectionB'[x].remote = sectionB[x].remote

SentByB(f, g, x) ==
    LET m == g.message
    IN  \/ /\ sectionB[x].state = "established" /\ sectionB'[x].state = "established"
           /\ f = InTransit("B", EndB!ITMessage(sectionB[x], x), requestOfB[x])
        \/ /\ EndB!Connected(x) /\ sectionB'[x].state = "releasing"
           /\ f = InTransit("B", EndB!ReleaseMessage(sectionB[x], x), requestOfB[x])
        \/ /\ sectionB[x].state = "incoming" /\ sectionB'[x].state = "established"
           /\ f = InTransit("B", EndB!CCMessage(sectionB[x], x), requestOfB[x])
        \/ /\ sectionB[x].state = "incoming"
           /\ f = InTransit("B", EndB!CREFMessage("A", sectionB[x].remote), requestOfB[x])
        \/ /\ Toward(g, "B", x) /\ m.type \in {"CC", "IT", "RLSD"}
           /\ f = InTransit("B", EndB!ErrorReply(m), g.request)
        \/ /\ Toward(g, "B", x) /\ m.type = "RLSD"
           /\ f = InTransit("B", EndB!ReleaseComplete(m), g.request)

WorksB(x, g) ==
    /\ EndB!Sound' /\ EndB!Elsewhere(x)
    /\ \/ EndB!TimerWork(x)
       \/ EndB!UserLeaves(x)
       \/ AcceptsB(x)
       \/ EndB!MessageWork(g.message, x) /\ Toward(g, "B", x)
    /\ UNCHANGED <<endA, requests, requestOfA, requestOfB, unanswered>>
    /\ faults' >= faults /\ faults' \in 0 .. MaxFaults
    /\ IsFiniteSet(inFlight')

ThawsB(x) == ~FreezeOutlasts /\ EndB!Wakes(x)

LEMMA KnownFrom ==
    ASSUME Core, NEW g, NEW x \in RefB, Toward(g, "B", x), g.message.type # "CR"
    PROVE  /\ KnownToB(g) /\ requestOfB[x] = g.request /\ g.request \in 1 .. requests
           /\ g.message \in EndB!SectionMessage /\ g.message.peer = "A"
           /\ g.message.type \in {"IT", "RLSD", "RLC", "ERR"}
           /\ g.message.type \in {"IT", "RLSD", "RLC"} =>
                 g.message.src \in RefA /\ HoldsA(g.message.src, g.request, 0)
<1>1. Known(g) /\ ~KnownToA(g) BY DEF Core, Toward, KnownToA
<1>2. ~KnownRequest(g) BY MessagesOfEnds DEF KnownRequest
<1>3. KnownToB(g) /\ g.request \in 1 .. requests BY <1>1, <1>2 DEF Known
<1> QED BY <1>3, MessagesOfEnds DEF KnownToB, HoldsA, HoldsB, Toward

(* An IT names the reference that x is linked to: no other has its request. *)
LEMMA NeverObjectsB ==
    ASSUME Core, NEW g, NEW x \in RefB, Toward(g, "B", x)
    PROVE  ~EndB!Objects(g.message, x)
<1> SUFFICES ASSUME EndB!Objects(g.message, x) PROVE FALSE OBVIOUS
<1>1. /\ sectionB[x].state \in {"incoming", "established", "releasing"}
      /\ g.message.type = "IT" /\ g.message.src # sectionB[x].remote
  BY DEF EndB!Objects
<1>2. /\ requestOfB[x] = g.request /\ g.request \in 1 .. requests
      /\ g.message.src \in RefA /\ HoldsA(g.message.src, g.request, 0)
  BY <1>1, KnownFrom
<1>3. HoldsA(sectionB[x].remote, requestOfB[x], 0) BY <1>1, LinksNow
<1>4. /\ sectionB[x].remote \in RefA /\ requestOfA[sectionB[x].remote] = g.request
      /\ requestOfA[g.message.src] = g.request
  BY <1>2, <1>3 DEF HoldsA
<1>5. g.request # NoRequest BY <1>2 DEF NoRequest, Core, Histories
<1> QED BY <1>1, <1>2, <1>4, <1>5 DEF Core, Histories

LEMMA WorksSteadyB ==
    ASSUME Core, NEW x \in RefB, NEW g, WorksB(x, g), ~ThawsB(x)
    PROVE  /\ Steady /\ EndA!Sound'
           /\ \A y \in RefB \ {x} : EndB!Kept(y) /\ requestOfB'[y] = requestOfB[y]
           /\ \A r \in RefA : EndA!Kept(r) /\ requestOfA'[r] = requestOfA[r]
           /\ \A y \in RefB : sectionB'[y].state = "incoming" => sectionB[y].state = "incoming"
<1>1. EndA!Sound' /\ \A r \in RefA : EndA!Kept(r) BY StepsOfA DEF WorksB, Core
<1>2. \A y \in RefB \ {x} : EndB!Kept(y) BY DEF WorksB, EndB!Elsewhere, EndB!Ref, RefB
<1>3. \A y \in RefB : EndB!Lasts(y)
  <2>1. WorkB(g.message, x) \/ AcceptsB(x) BY DEF WorksB, WorkB
  <2>2. AcceptsB(x) => EndB!Lasts(x) BY DEF AcceptsB, EndB!Lasts, EndB!Outlives
  <2> QED BY <1>2, <2>1, <2>2, WorkLastsB DEF Core
<1>4. \A r \in RefA : EndA!Lasts(r) BY <1>1, WorkLastsA DEF Core
<1>5. /\ sectionB'[x].state # "idle" => sectionB[x].state # "idle"
      /\ sectionB'[x].state = "incoming" => sectionB[x].state = "incoming"
      /\ sectionB'[x].state = "outgoing" => sectionB[x].state = "outgoing"
  BY DEF WorksB, AcceptsB, EndB!TimerWork, EndB!UserLeaves, EndB!MessageWork, EndB!Retires,
         EndB!Wakes, EndB!Wanes, EndB!Renews, EndB!Connected, EndB!Ignores, EndB!Objects,
         EndB!Joins, EndB!Closes, EndB!Continues, EndB!Kept, EndB!Unused
<1>6. UNCHANGED <<requests, requestOfA, requestOfB, unanswered>>
      /\ faults' >= faults /\ faults' \in 0 .. MaxFaults
  BY DEF WorksB
<1>7. /\ \A y \in RefB : /\ sectionB'[y].state # "idle" => sectionB[y].state # "idle"
                         /\ sectionB'[y].state = "incoming" => sectionB[y].state = "incoming"
                         /\ sectionB'[y].state = "outgoing" => sectionB[y].state = "outgoing"
      /\ \A r \in RefA : sectionA'[r] = sectionA[r]
  BY <1>1, <1>2, <1>5 DEF EndA!Kept, EndB!Kept
<1>10. sectionB[x].state # "idle" => FreezeOutlasts \/ sectionB'[x].state # "idle"
  BY DEF WorksB, ThawsB, AcceptsB, EndB!TimerWork, EndB!UserLeaves, EndB!MessageWork,
         EndB!Retires, EndB!Wanes, EndB!Renews, EndB!Connected, EndB!Ignores, EndB!Objects,
         EndB!Joins, EndB!Closes, EndB!Continues, EndB!Kept
<1>11. \A y \in RefB : sectionB[y].state # "idle" => FreezeOutlasts \/ sectionB'[y].state # "idle"
  BY <1>2, <1>10 DEF EndB!Kept
<1>8. Histories' BY <1>6, <1>7 DEF Core, Histories
<1>9. requests' >= requests BY <1>6 DEF Core, Histories
<1> QED BY <1>1, <1>2, <1>3, <1>4, <1>6, <1>7, <1>8, <1>9, <1>11 DEF Steady

LEMMA BecomesKnownToA ==
    ASSUME NEW f, NEW k, NEW t \in {"IT", "RLSD", "RLC"}, NEW r, NEW x,
           Names(f, "A", k, t, r), f.message.src = x, f.message \in EndA!SectionMessage,
           HoldsA(r, k, 0)', HoldsB(x, k, 0)',
           t = "RLSD" => sectionB'[x].state \in Letting,
           t = "RLC" => sectionA'[r].state \in Letting
    PROVE  KnownToA(f)'
<1>1. /\ f.to = "A" /\ f.request = k /\ f.message.type = t /\ f.message.dst = r
      /\ f.message.src = x
  BY DEF Names
<1> QED BY <1>1 DEF KnownToA

(* While a request waits for B's user the connection can still last.       *)
LEMMA WaitingPends ==
    ASSUME Core, NEW x \in RefB, sectionB[x].state = "incoming"
    PROVE  \A n \in 0 .. Lifetime : Waits(x, n) /\ Pending(requestOfB[x], n)
<1> SUFFICES ASSUME NEW n \in 0 .. Lifetime PROVE Waits(x, n) BY DEF Pending
<1>1. unanswered[x] \in 0 .. AnswerTime BY DEF Core, Histories
<1> QED BY <1>1, Spans DEF Waits

LEMMA SentKnownB ==
    ASSUME Core, Steady, NEW x \in RefB, NEW g, WorksB(x, g),
           NEW f, SentByB(f, g, x)
    PROVE  Known(f)' /\ Covered(f) /\ f.to = "A" /\ f.message.type # "CR"
<1> DEFINE m == g.message
<1>0. 0 \in 0 .. Span BY Spans
<1>h. /\ \A k : \A r : HoldsA(r, k, 0) => HoldsA(r, k, 0)'
      /\ \A k : \A y : HoldsB(y, k, 0) => HoldsB(y, k, 0)'
  BY <1>0, SteadyHolds
<1>k. requests' = requests /\ requestOfB' = requestOfB /\ requests \in Nat
      /\ requestOfB[x] \in 0 .. requests
  BY DEF WorksB, Core, Histories
<1>e. \A k : requestOfB[x] = k /\ sectionB'[x].state \notin {"idle", "frozen"} =>
         HoldsB(x, k, 0)'
  BY <1>k DEF HoldsB, EndB!Outlives
<1>c. ASSUME sectionB[x].state \in {"incoming", "established", "releasing"}
      PROVE  /\ sectionB[x].peer = "A" /\ requestOfB[x] \in 1 .. requests
             /\ \E r \in RefA : sectionB[x].remote = r /\ HoldsA(r, requestOfB[x], 0)
  <2>1. sectionB[x].peer = "A" /\ sectionB[x].remote \in RefA
    BY <1>c, SectionsOfB DEF Core
  <2>2. HoldsA(sectionB[x].remote, requestOfB[x], 0) BY <1>c, LinksNow
  <2>3. requestOfB[x] # NoRequest BY <1>c DEF Core, Histories
  <2> QED BY <1>k, <2>1, <2>2, <2>3 DEF NoRequest
<1>1. CASE /\ sectionB[x].state = "established" /\ sectionB'[x].state = "established"
           /\ f = InTransit("B", EndB!ITMessage(sectionB[x], x), requestOfB[x])
  <2>1. PICK k \in 1 .. requests, r \in RefA :
          /\ requestOfB[x] = k /\ sectionB[x].remote = r /\ HoldsA(r, k, 0)
    BY <1>1, <1>c
  <2>2. Names(f, "A", k, "IT", r) /\ f.message.src = x /\ f.message \in EndA!SectionMessage
    BY <1>1, <1>c, <2>1, CarriedITToA
  <2>3. HoldsA(r, k, 0)' /\ HoldsB(x, k, 0)' BY <1>1, <1>e, <1>h, <2>1
  <2>4. KnownToA(f)' BY <2>2, <2>3, BecomesKnownToA
  <2> QED BY <1>1, <1>k, <2>2, <2>4 DEF Known, Covered, Names
<1>2. CASE /\ EndB!Connected(x) /\ sectionB'[x].state = "releasing"
           /\ f = InTransit("B", EndB!ReleaseMessage(sectionB[x], x), requestOfB[x])
  <2>1. PICK k \in 1 .. requests, r \in RefA :
          /\ requestOfB[x] = k /\ sectionB[x].remote = r /\ HoldsA(r, k, 0)
    BY <1>2, <1>c DEF EndB!Connected
  <2>2. Names(f, "A", k, "RLSD", r) /\ f.message.src = x /\ f.message \in EndA!SectionMessage
    BY <1>2, <1>c, <2>1, CarriedRLSDToA DEF EndB!Connected
  <2>3. HoldsA(r, k, 0)' /\ HoldsB(x, k, 0)' BY <1>2, <1>e, <1>h, <2>1
  <2>4. KnownToA(f)' BY <1>2, <2>2, <2>3, BecomesKnownToA DEF Letting
  <2> QED BY <1>k, <2>2, <2>4 DEF Known, Covered, Names
<1>3. CASE /\ sectionB[x].state = "incoming" /\ sectionB'[x].state = "established"
           /\ f = InTransit("B", EndB!CCMessage(sectionB[x], x), requestOfB[x])
  <2>1. PICK k \in 1 .. requests, r \in RefA :
          /\ requestOfB[x] = k /\ sectionB[x].remote = r /\ HoldsA(r, k, 0)
    BY <1>3, <1>c
  <2>2. Names(f, "A", k, "CC", r) /\ f.message.src = x /\ f.message \in EndA!SectionMessage
    BY <1>3, <1>c, <2>1, CarriedCC
  <2>3. \A n : HoldsB(x, k, n)' BY <1>3, <1>k, <2>1 DEF HoldsB, EndB!Outlives
  <2>4. HoldsA(r, k, 0)' BY <1>h, <2>1
  <2>5. KnownToA(f)' BY <2>2, <2>3, <2>4 DEF KnownToA, Names
  <2>6. Covered(f) BY <1>3, <2>1, <2>2, WaitingPends DEF Covered, Names
  <2> QED BY <1>k, <2>2, <2>5, <2>6 DEF Known, Names
<1>4. CASE /\ sectionB[x].state = "incoming"
           /\ f = InTransit("B", EndB!CREFMessage("A", sectionB[x].remote), requestOfB[x])
  <2>1. PICK k \in 1 .. requests, r \in RefA :
          /\ requestOfB[x] = k /\ sectionB[x].remote = r /\ HoldsA(r, k, 0)
    BY <1>4, <1>c
  <2>2. Names(f, "A", k, "CREF", r) /\ f.message \in EndA!SectionMessage
    BY <1>4, <2>1, CarriedCREF
  <2>3. HoldsA(r, k, 0)' BY <1>h, <2>1
  <2>4. KnownToA(f)' BY <2>2, <2>3 DEF KnownToA, Names
  <2>5. Covered(f) BY <1>4, <2>1, <2>2, WaitingPends DEF Covered, Names
  <2> QED BY <1>k, <2>2, <2>4, <2>5 DEF Known, Names
<1>5. CASE /\ Toward(g, "B", x) /\ m.type \in {"CC", "IT", "RLSD"}
           /\ f = InTransit("B", EndB!ErrorReply(m), g.request)
  <2>1. /\ g.request \in 1 .. requests /\ m.peer = "A"
        /\ m.src \in RefA /\ HoldsA(m.src, g.request, 0)
    BY <1>5, KnownFrom
  <2>2. Names(f, "A", g.request, "ERR", m.src) /\ f.message \in EndA!SectionMessage
    BY <1>5, <2>1, CarriedERRToA
  <2> HIDE DEF m
  <2>3. KnownToA(f)' BY <1>h, <2>1, <2>2 DEF KnownToA, Names
  <2> QED BY <1>k, <2>1, <2>2, <2>3 DEF Known, Covered, Names
<1>6. CASE /\ Toward(g, "B", x) /\ m.type = "RLSD"
           /\ f = InTransit("B", EndB!ReleaseComplete(m), g.request)
  <2>1. /\ g.request \in 1 .. requests /\ m.peer = "A" /\ m.dst = x /\ KnownToB(g)
        /\ m.src \in RefA /\ HoldsA(m.src, g.request, 0)
    BY <1>6, KnownFrom DEF Toward
  <2>2. /\ Names(f, "A", g.request, "RLC", m.src)
        /\ f.message.src = x /\ f.message \in EndA!SectionMessage
    BY <1>6, <2>1, CarriedRLCToA
  <2>3. HoldsB(x, g.request, 0) /\ sectionA[m.src].state \in Letting
    BY <1>6, <2>1 DEF KnownToB
  <2>4. HoldsA(m.src, g.request, 0)' BY <1>h, <2>1
  <2>5. sectionA'[m.src].state \in Letting BY <2>1, <2>3 DEF WorksB, endA
  <2>6. HoldsB(x, g.request, 0)' BY <1>h, <2>3
  <2>7. KnownToA(f)' BY <2>2, <2>4, <2>5, <2>6, BecomesKnownToA
  <2> QED BY <1>k, <2>1, <2>2, <2>7 DEF Known, Covered, Names
<1> QED BY <1>1, <1>2, <1>3, <1>4, <1>5, <1>6 DEF SentByB

LEMMA WorksLinkB ==
    ASSUME Core, Steady, NEW x \in RefB, NEW g, WorksB(x, g),
           \A f \in inFlight' \ inFlight : f.to = "A"
    PROVE  LinkedB(x)' \/ EndB!Kept(x)
<1>k. PICK k \in 0 .. requests : requestOfB[x] = k /\ requestOfB'[x] = k
  BY DEF WorksB, Core, Histories
<1>b. \A n \in 0 .. Span : \A r : HoldsA(r, k, n) => HoldsA(r, k, n)'
  BY SteadyHolds
<1>t. EndB!Connected(x)' => EndB!Left(x)' \in 0 .. Lifetime
  BY LeftsNext DEF WorksB, LeftsB
<1>s. 0 .. Lifetime \subseteq 0 .. Span /\ \A n \in 0 .. Span : n \in Nat BY Spans
<1>1. ASSUME EndB!Wanes(x) PROVE LinkedB(x)'
  <2>1. PICK r : sectionB[x].remote = r /\ sectionB'[x].remote = r BY <1>1 DEF EndB!Wanes
  <2>2. /\ EndB!Connected(x) /\ EndB!Connected(x)' /\ EndB!Left(x)' <= EndB!Left(x)
        /\ sectionB'[x].state = "established" => sectionB[x].state = "established"
        /\ sectionB[x].state \in {"incoming", "established", "releasing"}
    BY <1>1 DEF EndB!Wanes, EndB!Connected
  <2>3. EndB!Left(x) \in 0 .. Lifetime /\ EndB!Left(x)' \in 0 .. Lifetime
    BY <1>t, <2>2, LeftsNext DEF Core, LeftsB
  <2>4. ASSUME NEW n \in 0 .. Span, ReachesB(x, n)' PROVE ReachesB(x, n)
    <3>1. CASE n <= EndB!Left(x)'
      <4>1. \A a, b : a \in 0 .. Lifetime /\ b \in 0 .. Lifetime /\ b <= a /\ n <= b => n <= a
        BY <1>s, Spans
      <4> QED BY <2>2, <2>3, <3>1, <4>1 DEF ReachesB
    <3>2. ~Waits(x, n)' BY <2>2 DEF Waits, EndB!Connected
    <3>3. CASE /\ sectionB'[x].state = "established" /\ n <= Lifetime
               /\ \E f \in inFlight' : f.to = "B" /\ f.message.type = "IT" /\ f.message.dst = x
      BY <2>2, <3>3 DEF ReachesB
    <3> QED BY <2>4, <3>1, <3>2, <3>3 DEF ReachesB
  <2>5. \A n \in 0 .. Span : ReachesB(x, n)' => HoldsA(r, k, n)'
    BY <1>b, <1>k, <2>1, <2>2, <2>4 DEF LinkedB, Core
  <2> QED BY <1>k, <2>1, <2>5 DEF LinkedB
<1>2. ASSUME EndB!Renews(x), EndB!Continues(g.message, x), Toward(g, "B", x) PROVE LinkedB(x)'
  <2>1. PICK r : sectionB[x].remote = r /\ sectionB'[x].remote = r BY <1>2 DEF EndB!Renews
  <2>2. /\ sectionB[x].state = "established" /\ EndB!Connected(x)'
        /\ sectionB'[x].state = "established"
    BY <1>2 DEF EndB!Renews, EndB!Connected
  <2>3. g.to = "B" /\ g.message.type = "IT" /\ g.message.dst = x
    <3>1. g.message.type \in {"CC", "CREF", "RLC", "IT", "DT1"}
      BY <1>2, <2>2 DEF EndB!Continues, EndB!Renews
    <3>2. /\ g.message.type \in {"IT", "RLSD", "RLC", "ERR"}
          /\ g.message.type = "RLC" => sectionB[x].state \in Letting
      BY <1>2, <3>1, KnownFrom DEF KnownToB, Toward
    <3> QED BY <1>2, <2>2, <3>1, <3>2 DEF Letting, Toward
  <2>4. ASSUME NEW n \in 0 .. Span, ReachesB(x, n)' PROVE ReachesB(x, n)
    <3>1. n <= Lifetime
      <4>1. \A a : a \in 0 .. Lifetime /\ n <= a => n <= Lifetime BY <1>s, Spans
      <4>2. ~Waits(x, n)' BY <2>2 DEF Waits
      <4> QED BY <1>t, <2>2, <2>4, <4>1, <4>2 DEF ReachesB
    <3> QED BY <1>2, <2>2, <2>3, <3>1 DEF ReachesB, Toward
  <2>5. \A n \in 0 .. Span : ReachesB(x, n)' => HoldsA(r, k, n)'
    BY <1>b, <1>k, <2>1, <2>2, <2>4 DEF LinkedB, Core
  <2> QED BY <1>k, <2>1, <2>5 DEF LinkedB
<1>3. ASSUME AcceptsB(x) PROVE LinkedB(x)'
  <2>1. PICK r : sectionB[x].remote = r /\ sectionB'[x].remote = r BY <1>3 DEF AcceptsB
  <2>2. /\ sectionB[x].state = "incoming" /\ sectionB'[x].state = "established"
        /\ EndB!Connected(x)'
    BY <1>3 DEF AcceptsB, EndB!Connected
  <2>3. ASSUME NEW n \in 0 .. Span, ReachesB(x, n)' PROVE ReachesB(x, n)
    <3>1. n <= Lifetime
      <4>1. \A a : a \in 0 .. Lifetime /\ n <= a => n <= Lifetime BY <1>s, Spans
      <4>2. ~Waits(x, n)' BY <2>2 DEF Waits
      <4> QED BY <1>t, <2>2, <2>3, <4>1, <4>2 DEF ReachesB
    <3>2. n \in 0 .. Lifetime BY <1>s, <3>1, Spans
    <3> QED BY <2>2, <3>2, WaitingPends DEF ReachesB
  <2>4. \A n \in 0 .. Span : ReachesB(x, n)' => HoldsA(r, k, n)'
    BY <1>b, <1>k, <2>1, <2>2, <2>3 DEF LinkedB, Core
  <2> QED BY <1>k, <2>1, <2>4 DEF LinkedB
<1>4. ASSUME sectionB'[x].state \notin {"incoming", "established", "releasing"}
      PROVE  LinkedB(x)'
  BY <1>4 DEF LinkedB
<1>5. Toward(g, "B", x) => ~EndB!Objects(g.message, x) BY NeverObjectsB
<1>6. sectionB[x].state # "outgoing" BY DEF Core, Histories
<1> QED BY <1>1, <1>2, <1>3, <1>4, <1>5, <1>6
        DEF WorksB, EndB!TimerWork, EndB!UserLeaves, EndB!MessageWork, EndB!Retires, EndB!Wakes,
            EndB!Ignores, EndB!Joins, EndB!Closes, EndB!Continues

LEMMA WorksCoreB ==
    ASSUME Core, NEW x \in RefB, NEW g, WorksB(x, g), ~ThawsB(x),
           Toward(g, "B", x) => g.message.type # "CR",
           \A f \in inFlight' \ inFlight : SentByB(f, g, x)
    PROVE  Core'
<1>1. /\ Steady /\ EndA!Sound'
      /\ \A y \in RefB \ {x} : EndB!Kept(y) /\ requestOfB'[y] = requestOfB[y]
      /\ \A r \in RefA : EndA!Kept(r) /\ requestOfA'[r] = requestOfA[r]
      /\ \A y \in RefB : sectionB'[y].state = "incoming" => sectionB[y].state = "incoming"
  BY WorksSteadyB
<1>2. \A f \in inFlight' \ inFlight :
         Known(f)' /\ Covered(f) /\ f.to = "A" /\ f.message.type # "CR"
  BY <1>1, SentKnownB
<1>3. UNCHANGED <<requestOfA, requestOfB, unanswered>> BY DEF WorksB
<1>4. ASSUME NEW k \in 0 .. requests, NEW n \in 0 .. Span, Pending(k, n)' PROVE Pending(k, n)
  <2>1. \A y \in RefB : Waits(y, n)' => Waits(y, n) BY <1>1, <1>3 DEF Waits
  <2> QED BY <1>2, <1>3, <1>4, <2>1 DEF Pending
<1>5. LinkedB(x)' \/ EndB!Kept(x) BY <1>1, <1>2, WorksLinkB
<1>6. EndB!Sound' /\ IsFiniteSet(inFlight') BY DEF WorksB
<1> QED BY <1>1, <1>2, <1>3, <1>4, <1>5, <1>6, PutTogether

(* What B sends of its own accord, and in answer to g.                     *)
LEMMA TypesSentB ==
    /\ \A s, x : EndB!ITMessage(s, x).type = "IT"
    /\ \A s, x : EndB!ReleaseMessage(s, x).type = "RLSD"
    /\ \A s, x : EndB!CCMessage(s, x).type = "CC"
    /\ \A p, r : EndB!CREFMessage(p, r).type = "CREF"
    /\ \A m : EndB!ErrorReply(m).type = "ERR"
    /\ \A m : EndB!ReleaseComplete(m).type = "RLC"
BY DEF EndB!ITMessage, EndB!ReleaseMessage, EndB!CCMessage, EndB!CREFMessage, EndB!ErrorReply,
       EndB!ReleaseComplete

LEMMA SendsOwnB ==
    ASSUME Core, NEW x \in RefB, NEW g,
           \/ EndB!TimerWork(x) \/ EndB!UserLeaves(x)
           \/ AcceptsB(x) /\ sentB' = <<EndB!CCMessage(sectionB[x], x)>>
    PROVE  /\ \A f \in OwnMessages("B", sentB', requestOfB[x]) : SentByB(f, g, x)
           /\ IsFiniteSet(OwnMessages("B", sentB', requestOfB[x]))
<1> DEFINE it == InTransit("B", EndB!ITMessage(sectionB[x], x), requestOfB[x])
           rlsd == InTransit("B", EndB!ReleaseMessage(sectionB[x], x), requestOfB[x])
           cc == InTransit("B", EndB!CCMessage(sectionB[x], x), requestOfB[x])
           cref == InTransit("B", EndB!CREFMessage("A", sectionB[x].remote), requestOfB[x])
           new == OwnMessages("B", sentB', requestOfB[x])
<1>1. CASE sentB' = <<>>
  <2>1. new = {} BY <1>1, FewSent
  <2> QED BY <2>1, FewFinite
<1>2. CASE /\ sectionB[x].state = "established" /\ sectionB'[x].state = "established"
           /\ sentB' = <<EndB!ITMessage(sectionB[x], x)>>
  <2>1. new = {it} BY <1>2, FewSent
  <2> QED BY <1>2, <2>1, FewFinite DEF SentByB
<1>3. CASE /\ EndB!Connected(x) /\ sectionB'[x].state = "releasing"
           /\ sentB' = <<EndB!ReleaseMessage(sectionB[x], x)>>
  <2>1. new = {rlsd} BY <1>3, FewSent
  <2> QED BY <1>3, <2>1, FewFinite DEF SentByB
<1>4. CASE /\ AcceptsB(x) /\ sentB' = <<EndB!CCMessage(sectionB[x], x)>>
  <2>1. new = {cc} BY <1>4, FewSent
  <2> QED BY <1>4, <2>1, FewFinite DEF SentByB, AcceptsB
<1>5. CASE /\ sectionB[x].state = "incoming"
           /\ sentB' = <<EndB!CREFMessage(sectionB[x].peer, sectionB[x].remote)>>
  <2>1. sectionB[x].peer = "A" BY <1>5, SectionsOfB DEF Core
  <2>2. new = {cref} BY <1>5, <2>1, FewSent
  <2> QED BY <1>5, <2>2, FewFinite DEF SentByB
<1> QED BY <1>1, <1>2, <1>3, <1>4, <1>5 DEF EndB!TimerWork, EndB!UserLeaves, EndB!Wanes

LEMMA SendsAnswersB ==
    ASSUME Core, NEW x \in RefB, NEW g, Toward(g, "B", x), g.message.type # "CR",
           EndB!MessageWork(g.message, x)
    PROVE  /\ \A f \in Answers("B", sentB', g, requestOfB[x]) : SentByB(f, g, x)
           /\ IsFiniteSet(Answers("B", sentB', g, requestOfB[x]))
<1> DEFINE m == g.message
           rlsd == InTransit("B", EndB!ReleaseMessage(sectionB[x], x), requestOfB[x])
           new == Answers("B", sentB', g, requestOfB[x])
<1>1. CASE sentB' = <<>>
  <2>1. new = {} BY <1>1, FewSent
  <2> QED BY <2>1, FewFinite
<1>2. CASE /\ EndB!Connected(x) /\ sectionB'[x].state = "releasing"
           /\ sentB' = <<EndB!ReleaseMessage(sectionB[x], x)>>
  <2>1. new = {rlsd} BY <1>2, FewSent, TypesSentB
  <2> QED BY <1>2, <2>1, FewFinite DEF SentByB
<1>3. CASE m.type \in {"CC", "IT", "RLSD"} /\ sentB' = <<EndB!ErrorReply(m)>>
  <2>1. new = {InTransit("B", EndB!ErrorReply(m), g.request)} BY <1>3, FewSent, TypesSentB
  <2> QED BY <1>3, <2>1, FewFinite DEF SentByB
<1>4. CASE m.type = "RLSD" /\ sentB' = <<EndB!ReleaseComplete(m)>>
  <2>1. new = {InTransit("B", EndB!ReleaseComplete(m), g.request)} BY <1>4, FewSent, TypesSentB
  <2> QED BY <1>4, <2>1, FewFinite DEF SentByB
<1>5. ~EndB!Objects(m, x) BY NeverObjectsB
<1>6. sectionB[x].state # "outgoing" BY DEF Core, Histories
<1> HIDE DEF m, new
<1> QED BY <1>1, <1>2, <1>3, <1>4, <1>5, <1>6
        DEF EndB!MessageWork, EndB!Ignores, EndB!Joins, EndB!Closes, EndB!Continues, EndB!Wanes, m

LEMMA ThawCoreB ==
    ASSUME Core, NEW x \in RefB, OwnB(x), sentB' = <<>>,
           EndB!Sound', EndB!Elsewhere(x), ThawsB(x), ~FreedEarly'
    PROVE  Core'
<1> USE DEF ThawsB
<1>1. UNCHANGED <<inFlight, endA, faults, requests, requestOfA, requestOfB, unanswered>>
  BY FewSent DEF OwnB
<1>2. EndA!Sound' BY <1>1, StepsOfA DEF Core
<1>3. sectionB'[x].state = "idle" /\ sectionB[x].state = "frozen" BY DEF EndB!Wakes
<1>4. \A y \in RefB \ {x} : sectionB'[y] = sectionB[y] /\ timerB'[y] = timerB[y]
  BY DEF EndB!Elsewhere, EndB!Kept, EndB!Ref, RefB
<1>5. sectionA' = sectionA /\ timerA' = timerA BY <1>1 DEF endA
<1>6. ~StillNamed("B", x, requestOfB[x], sectionA, requestOfA)
  <2>1. ~StillNamed("B", x, requestOfB[x], sectionA, requestOfA)'
    BY <1>1, <1>3, DomainsNext DEF FreedEarly
  <2> QED BY <1>1, <1>5, <2>1 DEF StillNamed
<1>7. /\ \A r, k, n : HoldsA(r, k, n) => HoldsA(r, k, n)'
      /\ \A y, k, n : HoldsB(y, k, n) => HoldsB(y, k, n)' \/ (y = x /\ k = requestOfB[x])
      /\ \A y \in RefB : \A n : Waits(y, n)' => Waits(y, n)
      /\ \A k, n : Pending(k, n)' => Pending(k, n)
  <2>1. \A r, k, n : HoldsA(r, k, n) => HoldsA(r, k, n)' BY <1>1, <1>5 DEF HoldsA
  <2>2. \A y, k, n : HoldsB(y, k, n) => HoldsB(y, k, n)' \/ (y = x /\ k = requestOfB[x])
    BY <1>1, <1>4 DEF HoldsB
  <2>3. \A y \in RefB : \A n : Waits(y, n)' => Waits(y, n) BY <1>1, <1>3, <1>4 DEF Waits
  <2> QED BY <1>1, <2>1, <2>2, <2>3 DEF Pending
<1>8. ASSUME NEW f \in inFlight PROVE Known(f)'
  <2>1. KnownRequest(f) => KnownRequest(f)' BY <1>7 DEF KnownRequest
  <2>2. ASSUME KnownToA(f) PROVE KnownToA(f)'
    <3>1. f.message.type \in {"CC", "IT", "RLSD", "RLC"} =>
             /\ ~(f.message.src = x /\ f.request = requestOfB[x])
             /\ f.message.src \in RefB \ {x}
      BY <1>6, <2>2 DEF StillNamed, KnownToA, HoldsB, A!HasSource
    <3> QED BY <1>4, <1>5, <1>7, <2>2, <3>1 DEF KnownToA
  <2>3. ASSUME KnownToB(f) PROVE KnownToB(f)'
    <3>1. f.to = "B" /\ f.message.type # "CR" BY <2>3 DEF KnownToB
    <3>2. ~(f.message.dst = x /\ f.request = requestOfB[x]) BY <1>6, <3>1 DEF StillNamed
    <3>3. f.message.dst \in RefB \ {x} BY <2>3, <3>2 DEF KnownToB, HoldsB
    <3> QED BY <1>4, <1>5, <1>7, <2>3, <3>2, <3>3 DEF KnownToB
  <2> QED BY <1>1, <2>1, <2>2, <2>3 DEF Core, Known
<1>9. ASSUME NEW r \in RefA PROVE LinkedA(r)'
  <2>1. \A n : ReachesA(r, n)' => ReachesA(r, n)
    BY <1>1, <1>5, <1>7 DEF EndA!Connected, EndA!Left, ReachesA, Restarts
  <2>2. EndA!Connected(r) => ~(sectionA[r].remote = x /\ requestOfA[r] = requestOfB[x])
    BY <1>6, Domains DEF StillNamed, EndA!Connected
  <2>3. EndA!Connected(r)' => EndA!Connected(r) BY <1>5 DEF EndA!Connected
  <2> QED BY <1>1, <1>5, <1>7, <2>1, <2>2, <2>3 DEF Core, LinkedA
<1>10. ASSUME NEW y \in RefB PROVE LinkedB(y)'
  <2>1. CASE y = x BY <1>3, <2>1 DEF LinkedB
  <2>2. CASE y # x
    <3>1. sectionB'[y] = sectionB[y] /\ timerB'[y] = timerB[y] BY <1>4, <2>2
    <3>2. \A n : ReachesB(y, n)' => ReachesB(y, n)
      BY <1>1, <1>7, <3>1 DEF EndB!Connected, EndB!Left, ReachesB
    <3> QED BY <1>1, <1>7, <3>1, <3>2 DEF Core, LinkedB
  <2> QED BY <2>1, <2>2
<1>11. Histories'
  <2>1. \A y \in RefB : /\ sectionB'[y].state # "idle" => sectionB[y].state # "idle"
                        /\ sectionB'[y].state = "outgoing" => sectionB[y].state = "outgoing"
    BY <1>3, <1>4
  <2> QED BY <1>1, <1>5, <2>1 DEF Core, Histories
<1> QED BY <1>1, <1>2, <1>8, <1>9, <1>10, <1>11 DEF Core

LEMMA OwnCoreB ==
    ASSUME Core, FireB \/ \E x \in RefB : Accept(x) \/ DisconnectB(x),
           FreezeOutlasts \/ ~FreedEarly'
    PROVE  Core'
<1>1. PICK x \in RefB : (B!FireOf(x) \/ B!Accept(x) \/ B!Disconnect(x)) /\ OwnB(x)
  BY Domains DEF FireB, Accept, DisconnectB
<1>2. /\ EndB!Sound' /\ EndB!Elsewhere(x)
      /\ \/ EndB!TimerWork(x) \/ EndB!UserLeaves(x)
         \/ AcceptsB(x) /\ sentB' = <<EndB!CCMessage(sectionB[x], x)>>
  BY <1>1, StepsOfB DEF Core, AcceptsB
<1> DEFINE g == [to |-> "", message |-> [type |-> ""]]
<1>3. PICK own : own = OwnMessages("B", sentB', requestOfB[x]) OBVIOUS
<1>4. IsFiniteSet(own) /\ \A f \in own : SentByB(f, g, x) BY <1>2, <1>3, SendsOwnB
<1>5. inFlight' = inFlight \cup own BY <1>1, <1>3 DEF OwnB
<1>6. IsFiniteSet(inFlight') /\ inFlight' \ inFlight \subseteq own BY <1>4, <1>5, OwnFew
<1>7. faults' >= faults /\ faults' \in 0 .. MaxFaults BY <1>1 DEF OwnB, Core, Histories
<1>8. WorksB(x, g) BY <1>1, <1>2, <1>6, <1>7 DEF WorksB, OwnB
<1>9. \A f \in inFlight' \ inFlight : SentByB(f, g, x) BY <1>4, <1>6
<1>10. ~Toward(g, "B", x) BY DEF Toward
<1>11. CASE ThawsB(x)
  <2>1. sentB' = <<>>
    BY <1>2, <1>11 DEF ThawsB, AcceptsB, EndB!Wakes, EndB!TimerWork, EndB!UserLeaves,
                       EndB!Retires, EndB!Wanes, EndB!Connected
  <2> QED BY <1>1, <1>2, <1>11, <2>1, ThawCoreB DEF ThawsB
<1> QED BY <1>8, <1>9, <1>10, <1>11, WorksCoreB

LEMMA ArriveCoreB ==
    ASSUME Core, NEW g \in inFlight, ArriveB(g)
    PROVE  Core'
<1>1. KnownToB(g)
  <2>1. Known(g) /\ g.to = "B" /\ g.message.type # "CR" BY DEF Core, ArriveB
  <2> QED BY <2>1, MessagesOfEnds DEF Known, KnownRequest, KnownToA
<1>2. PICK x \in RefB : g.message.dst = x BY <1>1 DEF KnownToB, HoldsB
<1>3. g.message \in EndB!SectionMessage /\ Toward(g, "B", x) /\ g.message.type # "CR"
  BY <1>1, <1>2 DEF KnownToB, Toward, ArriveB
<1>4. EndB!Sound' /\ EndB!Elsewhere(x) /\ EndB!MessageWork(g.message, x)
  BY <1>2, <1>3, StepsOfB DEF Core, ArriveB
<1>5. PICK answers : answers = Answers("B", sentB', g, requestOfB[x]) OBVIOUS
<1>6. IsFiniteSet(answers) /\ \A f \in answers : SentByB(f, g, x)
  BY <1>3, <1>4, <1>5, SendsAnswersB
<1>7. Takes(g, answers) BY <1>2, <1>5 DEF ArriveB
<1>8. /\ IsFiniteSet(inFlight') /\ inFlight' \ inFlight \subseteq answers
      /\ faults' >= faults /\ faults' \in 0 .. MaxFaults
  BY <1>6, <1>7, TakesFew
<1>9. WorksB(x, g) BY <1>3, <1>4, <1>8 DEF WorksB, ArriveB
<1>10. \A f \in inFlight' \ inFlight : SentByB(f, g, x) BY <1>6, <1>8
<1>11. ~ThawsB(x)
  BY <1>4 DEF ThawsB, EndB!Wakes, EndB!MessageWork, EndB!Retires, EndB!Wanes, EndB!Renews,
              EndB!Connected, EndB!Ignores, EndB!Objects, EndB!Joins, EndB!Closes,
              EndB!Continues, EndB!Kept
<1> QED BY <1>3, <1>9, <1>10, <1>11, WorksCoreB

-----------------------------------------------------------------------------
(* B registers a request of A, or refuses it.                              *)

LEMMA RequestKnown ==
    ASSUME Core, NEW g \in inFlight, ArriveRequest(g)
    PROVE  /\ g.message \in EndB!CR /\ EndB!Originator(g.message) = "A"
           /\ g.message.src \in RefA /\ g.request \in 1 .. requests
           /\ HoldsA(g.message.src, g.request, Span)
           /\ \A n \in 0 .. Span : Pending(g.request, n) /\ HoldsA(g.message.src, g.request, n)
<1>1. Known(g) /\ g.message.type = "CR" BY DEF Core, ArriveRequest
<1>2. ~KnownToA(g) /\ ~KnownToB(g) BY <1>1, MessagesOfEnds DEF KnownToA, KnownToB
<1>3. /\ g.message \in EndB!CR /\ g.request \in 1 .. requests
      /\ HoldsA(g.message.src, g.request, Span)
  BY <1>1, <1>2 DEF Known, KnownRequest
<1>4. \A n \in 0 .. Span : Pending(g.request, n) BY <1>1, Spans DEF Pending
<1>5. \A n \in 0 .. Span : HoldsA(g.message.src, g.request, n)
  BY <1>3, HoldsLess, Spans DEF Core
<1> QED BY <1>3, <1>4, <1>5, MessagesOfEnds

LEMMA RequestQuietA ==
    ASSUME Core, NEW g \in inFlight, ArriveRequest(g)
    PROVE  /\ EndA!Sound' /\ EndB!Sound'
           /\ EndB!Admits(g.message) \/ EndB!Refuses(g.message)
           /\ \A r \in RefA : EndA!Kept(r) /\ requestOfA'[r] = requestOfA[r] /\ EndA!Lasts(r)
           /\ sectionA' = sectionA
           /\ requests' = requests /\ requestOfA' = requestOfA /\ unanswered' = unanswered
<1>1. g.message \in EndB!CR BY RequestKnown
<1>2. EndB!Sound' /\ (EndB!Admits(g.message) \/ EndB!Refuses(g.message))
  BY <1>1, StepsOfB DEF Core, ArriveRequest
<1>3. EndA!Sound' /\ \A r \in RefA : EndA!Kept(r) BY StepsOfA DEF Core, ArriveRequest
<1>4. \A r \in RefA : EndA!Lasts(r) BY <1>3, WorkLastsA DEF Core
<1> QED BY <1>2, <1>3, <1>4 DEF ArriveRequest, endA

LEMMA AdmitCore ==
    ASSUME Core, NEW g \in inFlight, ArriveRequest(g), EndB!Admits(g.message)
    PROVE  Core'
<1>a. /\ EndA!Sound' /\ EndB!Sound'
      /\ \A r \in RefA : EndA!Kept(r) /\ requestOfA'[r] = requestOfA[r] /\ EndA!Lasts(r)
      /\ sectionA' = sectionA
      /\ requests' = requests /\ requestOfA' = requestOfA /\ unanswered' = unanswered
  BY RequestQuietA
<1>k. PICK k \in 1 .. requests, r \in RefA :
        /\ g.request = k /\ g.message.src = r
        /\ \A n \in 0 .. Span : Pending(k, n) /\ HoldsA(r, k, n)
  BY RequestKnown
<1>1. PICK x \in RefB : /\ sectionB[x].state = "idle" /\ sectionB'[x].state = "incoming"
                        /\ sectionB'[x].remote = r
                        /\ EndB!Elsewhere(x)
  BY <1>k DEF EndB!Admits, EndB!Ref, RefB
<1>2. \A y \in RefB \ {x} : EndB!Kept(y) /\ sectionB'[y] = sectionB[y]
  BY <1>1 DEF EndB!Elsewhere, EndB!Kept, EndB!Ref, RefB
<1>3. /\ requestOfB'[x] = k
      /\ \A y \in RefB \ {x} : requestOfB'[y] = requestOfB[y]
      /\ requestOfB' \in [RefB -> 0 .. requests]
  <2>1. {y \in DOMAIN sectionB : sectionB'[y] # sectionB[y]} = {x} BY <1>1, <1>2, Domains
  <2>2. requestOfB' = [y \in DOMAIN requestOfB |-> IF y \in {x} THEN k ELSE requestOfB[y]]
    BY <1>k, <2>1 DEF ArriveRequest
  <2>3. requestOfB \in [RefB -> 0 .. requests] /\ k \in 0 .. requests
    BY <1>k DEF Core, Histories
  <2> QED BY <2>2, <2>3
<1>4. /\ inFlight' \subseteq inFlight /\ IsFiniteSet(inFlight')
      /\ faults' >= faults /\ faults' \in 0 .. MaxFaults
  <2>1. Takes(g, {})
    <3>1. Answers("B", sentB', g, k) = {} BY FewSent DEF EndB!Admits
    <3> QED BY <1>k, <3>1 DEF ArriveRequest
  <2>2. PICK answers : answers = {} OBVIOUS
  <2>3. Takes(g, answers) /\ IsFiniteSet(answers) BY <2>1, <2>2, FewFinite
  <2> QED BY <2>2, <2>3, TakesFew
<1>5. \A y \in RefB : EndB!Lasts(y)
  <2>1. EndB!Lasts(x) BY <1>1 DEF EndB!Lasts, EndB!Outlives
  <2> QED BY <1>2, <2>1, WorkLastsB DEF Core
<1>6. Histories'
  <2>1. k # NoRequest BY <1>k DEF NoRequest, Core, Histories
  <2>2. \A y \in RefB : /\ sectionB'[y].state # "idle" => requestOfB'[y] # NoRequest
                        /\ sectionB'[y].state # "outgoing"
    BY <1>1, <1>2, <1>3, <2>1 DEF Core, Histories
  <2> QED BY <1>a, <1>3, <1>4, <2>2 DEF Core, Histories
<1>7. Steady
  <2>1. \A y \in RefB : sectionB[y].state # "idle" =>
           requestOfB'[y] = requestOfB[y] /\ sectionB'[y].state # "idle"
    BY <1>1, <1>2, <1>3
  <2>2. requests' >= requests BY <1>a DEF Core, Histories
  <2> QED BY <1>a, <1>4, <1>5, <1>6, <2>1, <2>2 DEF Steady
<1>8. ASSUME NEW j \in 0 .. requests, NEW n \in 0 .. Span, Pending(j, n)' PROVE Pending(j, n)
  <2>1. \A y \in RefB \ {x} : Waits(y, n)' => Waits(y, n) BY <1>a, <1>2 DEF Waits
  <2>2. CASE j = k BY <1>k, <2>2
  <2>3. CASE j # k
    <3>1. requestOfB'[x] # j BY <1>3, <2>3
    <3> QED BY <1>3, <1>4, <1>8, <2>1, <3>1 DEF Pending
  <2> QED BY <2>2, <2>3
<1>9. LinkedB(x)'
  <2>1. \A n \in 0 .. Span : HoldsA(r, k, n)' BY <1>k, <1>7, SteadyHolds
  <2> QED BY <1>1, <1>3, <2>1 DEF LinkedB
<1>10. \A y \in RefB : LinkedB(y)' \/ (EndB!Kept(y) /\ requestOfB'[y] = requestOfB[y])
  BY <1>2, <1>3, <1>9
<1>11. \A f \in inFlight' \ inFlight : Known(f)' /\ Covered(f) BY <1>4
<1> QED BY <1>a, <1>4, <1>7, <1>8, <1>10, <1>11, PutTogether

LEMMA RefuseCore ==
    ASSUME Core, NEW g \in inFlight, ArriveRequest(g), EndB!Refuses(g.message)
    PROVE  Core'
<1>a. /\ EndA!Sound' /\ EndB!Sound'
      /\ \A r \in RefA : EndA!Kept(r) /\ requestOfA'[r] = requestOfA[r] /\ EndA!Lasts(r)
      /\ sectionA' = sectionA
      /\ requests' = requests /\ requestOfA' = requestOfA /\ unanswered' = unanswered
  BY RequestQuietA
<1>k. PICK k \in 1 .. requests, r \in RefA :
        /\ g.request = k /\ g.message.src = r
        /\ \A n \in 0 .. Span : Pending(k, n) /\ HoldsA(r, k, n)
  BY RequestKnown
<1>0. 0 \in 0 .. Span /\ 0 .. Lifetime \subseteq 0 .. Span BY Spans
<1>1. \A x \in RefB : EndB!Kept(x) /\ sectionB'[x] = sectionB[x] /\ EndB!Lasts(x)
  <2>1. \A x \in RefB : EndB!Kept(x) BY DEF EndB!Refuses, EndB!Ref, RefB
  <2> QED BY <2>1, WorkLastsB DEF Core, EndB!Kept
<1>2. requestOfB' = requestOfB
  <2>1. {y \in DOMAIN sectionB : sectionB'[y] # sectionB[y]} = {} BY <1>1, Domains
  <2>2. requestOfB' = [y \in DOMAIN requestOfB |-> IF y \in {} THEN k ELSE requestOfB[y]]
    BY <1>k, <2>1 DEF ArriveRequest
  <2> QED BY <2>2 DEF Core, Histories
<1>3. PICK cref : cref = InTransit("B", EndB!CREFMessage("A", r), k) OBVIOUS
<1>4. /\ inFlight' \subseteq inFlight \cup {cref} /\ IsFiniteSet(inFlight')
      /\ faults' >= faults /\ faults' \in 0 .. MaxFaults
  <2>1. sentB' = <<EndB!CREFMessage("A", r)>> BY <1>k, RequestKnown DEF EndB!Refuses
  <2>2. EndB!CREFMessage("A", r).type = "CREF" BY TypesSentB
  <2>3. Answers("B", sentB', g, k) = {cref} BY <1>k, <1>3, <2>1, <2>2, FewSent
  <2>4. PICK answers : answers = {cref} OBVIOUS
  <2>5. Takes(g, answers) BY <1>k, <2>3, <2>4 DEF ArriveRequest
  <2>6. IsFiniteSet(answers) BY <2>4, FewFinite
  <2> QED BY <2>4, <2>5, <2>6, TakesFew
<1>5. Histories' BY <1>a, <1>1, <1>2, <1>4 DEF Core, Histories
<1>6. Steady
  <2>1. requests' >= requests BY <1>a DEF Core, Histories
  <2> QED BY <1>a, <1>1, <1>2, <1>4, <1>5, <2>1 DEF Steady
<1>7. Names(cref, "A", k, "CREF", r) /\ cref.message \in EndA!SectionMessage
  <2>1. RefB # {} BY StacksAssumption DEF RefB
  <2> QED BY <1>3, <2>1, CarriedCREF
<1>8. Known(cref)' /\ Covered(cref) /\ cref.message.type # "CR"
  <2>1. HoldsA(r, k, 0)' BY <1>k, <1>0, <1>6, SteadyHolds
  <2>2. KnownToA(cref)' BY <1>7, <2>1 DEF KnownToA, Names
  <2>3. Known(cref)' BY <1>a, <1>7, <2>2 DEF Known, Names
  <2>4. Covered(cref) BY <1>k, <1>0, <1>7 DEF Covered, Names
  <2> QED BY <1>7, <2>3, <2>4 DEF Names
<1>9. ASSUME NEW j \in 0 .. requests, NEW n \in 0 .. Span, Pending(j, n)' PROVE Pending(j, n)
  <2>1. \A y \in RefB : Waits(y, n)' => Waits(y, n) BY <1>a, <1>1 DEF Waits
  <2> QED BY <1>2, <1>4, <1>8, <1>9, <2>1 DEF Pending
<1>10. \A f \in inFlight' \ inFlight : Known(f)' /\ Covered(f) BY <1>4, <1>8
<1>11. \A x \in RefB : EndB!Kept(x) /\ requestOfB'[x] = requestOfB[x] BY <1>1, <1>2
<1> QED BY <1>a, <1>4, <1>6, <1>9, <1>10, <1>11, PutTogether

LEMMA ArriveRequestCore ==
    ASSUME Core, NEW g \in inFlight, ArriveRequest(g)
    PROVE  Core'
BY RequestQuietA, AdmitCore, RefuseCore

-----------------------------------------------------------------------------
(* A tick.  It takes one from every time, and what the MTP delays takes as *)
(* much from the ticks by which it can still delay.                        *)

LEMMA TickRoom ==
    /\ \A n, most, f, d \in Nat : \A t \in Int :
          d >= 1 /\ t > n + (most - f) => t - 1 > n + (most - (f + d))
    /\ \A n, most, f \in Nat : \A t \in Int :
          t > n + 1 + (most - f) => t - 1 > n + (most - (f + 0))
OBVIOUS

LEMMA TickSteps ==
    ASSUME Core, Tick
    PROVE  /\ EndA!Sound' /\ EndB!Sound'
           /\ \A r \in RefA : sectionA'[r] = sectionA[r]
           /\ \A x \in RefB : sectionB'[x] = sectionB[x]
           /\ \A r \in RefA : EndA!Connected(r) => EndA!Left(r)' = EndA!Left(r) - 1
           /\ \A x \in RefB : EndB!Connected(x) => EndB!Left(x)' = EndB!Left(x) - 1
           /\ \A r \in RefA : sectionA[r].state = "frozen" =>
                 timerA'[r]["freeze"] = timerA[r]["freeze"] - 1
           /\ \A x \in RefB : sectionB[x].state = "frozen" =>
                 timerB'[x]["freeze"] = timerB[x]["freeze"] - 1
           /\ UNCHANGED <<requests, requestOfA, requestOfB>>
BY StepsOfA, StepsOfB DEF Core, Tick

LEMMA TickLate ==
    ASSUME Core, Tick
    PROVE  /\ inFlight' \subseteq inFlight /\ IsFiniteSet(inFlight')
           /\ \E d \in Nat : /\ faults' = faults + d /\ faults + d <= MaxFaults
                             /\ inFlight' # {} => d >= 1
                             /\ inFlight' = {} => d = 0
<1>1. PICK late \in SUBSET inFlight : inFlight' = late /\ faults' = faults + Cardinality(late)
  BY DEF Tick
<1>2. IsFiniteSet(late) BY <1>1, FS_Subset DEF Core
<1>3. Cardinality(late) \in Nat /\ (Cardinality(late) = 0 <=> late = {})
  BY <1>2, FS_CardinalityType, FS_EmptySet
<1>4. PICK d \in Nat : d = Cardinality(late) BY <1>3
<1>5. faults' = faults + d /\ faults' <= MaxFaults BY <1>1, <1>4 DEF Tick
<1>6. faults + d <= MaxFaults BY <1>5
<1>7. (late # {} => d >= 1) /\ (late = {} => d = 0) BY <1>3, <1>4
<1> QED BY <1>1, <1>2, <1>5, <1>6, <1>7

LEMMA TickHistories ==
    ASSUME Core, Tick
    PROVE  /\ Histories'
           /\ \A x \in RefB : sectionB[x].state = "incoming" =>
                 unanswered'[x] = unanswered[x] + 1 /\ unanswered[x] < AnswerTime
<1>1. /\ \A r \in RefA : sectionA'[r] = sectionA[r]
      /\ \A x \in RefB : sectionB'[x] = sectionB[x]
      /\ UNCHANGED <<requests, requestOfA, requestOfB>>
  BY TickSteps
<1>2. PICK d \in Nat : faults' = faults + d /\ faults + d <= MaxFaults BY TickLate
<1>3. faults' \in 0 .. MaxFaults BY <1>2, Spans DEF Core, Histories
<1>4. DOMAIN unanswered = RefB /\ \A x \in RefB : unanswered[x] \in 0 .. AnswerTime
  BY DEF Core, Histories
<1>5. unanswered' = [x \in RefB |->
                       IF sectionB[x].state = "incoming" THEN unanswered[x] + 1 ELSE 0]
  BY <1>4 DEF Tick
<1>6. \A x \in RefB : sectionB[x].state = "incoming" => unanswered[x] < AnswerTime
  BY Domains DEF Tick
<1>7. unanswered' \in [RefB -> 0 .. AnswerTime]
  <2>1. \A x \in RefB : (IF sectionB[x].state = "incoming" THEN unanswered[x] + 1 ELSE 0)
                           \in 0 .. AnswerTime
    BY <1>4, <1>6, Spans
  <2> QED BY <1>5, <2>1
<1>8. Histories' BY <1>1, <1>3, <1>7 DEF Core, Histories
<1> QED BY <1>5, <1>6, <1>8

LEMMA TickHolds ==
    ASSUME Core, Tick, NEW k, NEW n \in 0 .. Span
    PROVE  /\ inFlight' # {} => /\ \A r : HoldsA(r, k, n) => HoldsA(r, k, n)'
                                /\ \A x : HoldsB(x, k, n) => HoldsB(x, k, n)'
           /\ inFlight' = {} => /\ \A r : HoldsA(r, k, n + 1) => HoldsA(r, k, n)'
                                /\ \A x : HoldsB(x, k, n + 1) => HoldsB(x, k, n)'
<1>1. PICK f \in Nat : f = faults BY DEF Core, Histories
<1>2. PICK d \in Nat : /\ faults' = f + d
                       /\ inFlight' # {} => d >= 1
                       /\ inFlight' = {} => d = 0
  BY <1>1, TickLate
<1>3. n \in Nat /\ MaxFaults \in Nat BY Spans
<1>4. PICK i \in Nat : (inFlight' # {} => i = n) /\ (inFlight' = {} => i = n + 1)
  BY <1>3
<1>5. \A t \in Int : t > i + (MaxFaults - f) => t - 1 > n + (MaxFaults - (f + d))
  <2>1. CASE inFlight' # {} BY <1>2, <1>3, <1>4, <2>1, TickRoom
  <2>2. CASE inFlight' = {} BY <1>2, <1>3, <1>4, <2>2, TickRoom
  <2> QED BY <2>1, <2>2
<1>6. ASSUME NEW r, HoldsA(r, k, i) PROVE HoldsA(r, k, n)'
  <2>1. /\ r \in RefA /\ requestOfA'[r] = k /\ sectionA'[r] = sectionA[r]
        /\ sectionA[r].state # "idle"
    BY <1>6, TickSteps DEF HoldsA, EndA!Outlives
  <2>2. ASSUME FreezeOutlasts, sectionA'[r].state = "frozen"
        PROVE  timerA'[r]["freeze"] > n + (MaxFaults - (f + d))
    <3>1. PICK t \in Int : timerA[r]["freeze"] = t BY <2>1, <2>2, SectionsOfA DEF Core
    <3>2. t > i + (MaxFaults - f)
      BY <1>1, <1>6, <2>1, <2>2, <3>1 DEF HoldsA, EndA!Outlives, Spare
    <3>3. timerA'[r]["freeze"] = t - 1 BY <2>1, <2>2, <3>1, TickSteps
    <3> QED BY <1>5, <3>2, <3>3
  <2>3. ASSUME FreezeOutlasts PROVE EndA!Outlives(r, n + Spare)'
    BY Zenon, <1>2, <2>1, <2>2, <2>3 DEF EndA!Outlives, Spare
  <2> QED BY <2>1, <2>3 DEF HoldsA
<1>7. ASSUME NEW x, HoldsB(x, k, i) PROVE HoldsB(x, k, n)'
  <2>1. /\ x \in RefB /\ requestOfB'[x] = k /\ sectionB'[x] = sectionB[x]
        /\ sectionB[x].state # "idle"
    BY <1>7, TickSteps DEF HoldsB, EndB!Outlives
  <2>2. ASSUME FreezeOutlasts, sectionB'[x].state = "frozen"
        PROVE  timerB'[x]["freeze"] > n + (MaxFaults - (f + d))
    <3>1. PICK t \in Int : timerB[x]["freeze"] = t BY <2>1, <2>2, SectionsOfB DEF Core
    <3>2. t > i + (MaxFaults - f)
      BY <1>1, <1>7, <2>1, <2>2, <3>1 DEF HoldsB, EndB!Outlives, Spare
    <3>3. timerB'[x]["freeze"] = t - 1 BY <2>1, <2>2, <3>1, TickSteps
    <3> QED BY <1>5, <3>2, <3>3
  <2>3. ASSUME FreezeOutlasts PROVE EndB!Outlives(x, n + Spare)'
    BY Zenon, <1>2, <2>1, <2>2, <2>3 DEF EndB!Outlives, Spare
  <2> QED BY <2>1, <2>3 DEF HoldsB
<1> QED BY <1>4, <1>6, <1>7

LEMMA TickPending ==
    ASSUME Core, Tick, NEW n \in 0 .. Span
    PROVE  /\ \A x \in RefB : Waits(x, n)' =>
                 Waits(x, n) /\ n + 1 \in 0 .. Span /\ Waits(x, n + 1)
           /\ \A k : Pending(k, n)' =>
                 /\ Pending(k, n)
                 /\ inFlight' = {} => n + 1 \in 0 .. Span /\ Pending(k, n + 1)
<1>1. ASSUME NEW x \in RefB, Waits(x, n)'
      PROVE  Waits(x, n) /\ n + 1 \in 0 .. Span /\ Waits(x, n + 1)
  <2>1. sectionB[x].state = "incoming" BY <1>1, TickSteps DEF Waits
  <2>2. PICK u \in 0 .. AnswerTime : u = unanswered[x] BY DEF Core, Histories
  <2>3. unanswered'[x] = u + 1 BY <2>1, <2>2, TickHistories
  <2>4. n <= AnswerTime - (u + 1) + Lifetime BY <1>1, <2>3 DEF Waits
  <2>5. n <= AnswerTime - u + Lifetime /\ n + 1 <= AnswerTime - u + Lifetime /\ n + 1 \in 0 .. Span
    BY <2>4, Spans
  <2> QED BY <2>1, <2>2, <2>5 DEF Waits
<1>2. inFlight' \subseteq inFlight /\ requestOfB' = requestOfB BY TickLate, TickSteps
<1>3. ASSUME NEW k, Pending(k, n)' PROVE Pending(k, n) BY <1>1, <1>2, <1>3 DEF Pending
<1>4. ASSUME NEW k, Pending(k, n)', inFlight' = {}
      PROVE  n + 1 \in 0 .. Span /\ Pending(k, n + 1)
  <2>1. PICK x \in RefB : requestOfB[x] = k /\ Waits(x, n)' BY <1>2, <1>4 DEF Pending
  <2> QED BY <1>1, <2>1 DEF Pending
<1> QED BY <1>1, <1>3, <1>4

LEMMA TickReachesA ==
    ASSUME Core, Tick, NEW n \in 0 .. Span, NEW r \in RefA, EndA!Connected(r), ReachesA(r, n)'
    PROVE  /\ ReachesA(r, n)
           /\ inFlight' = {} => n + 1 \in 0 .. Span /\ ReachesA(r, n + 1)
<1>1. /\ sectionA'[r] = sectionA[r] /\ requestOfA'[r] = requestOfA[r]
      /\ EndA!Left(r)' = EndA!Left(r) - 1
      /\ inFlight' \subseteq inFlight
  BY TickSteps, TickLate
<1>2. PICK k : requestOfA[r] = k OBVIOUS
<1>3. PICK a \in 0 .. Lifetime : EndA!Left(r) = a BY LeftsNext DEF Core, LeftsA
<1>4. CASE n <= EndA!Left(r)'
  <2>1. n <= a - 1 BY <1>1, <1>3, <1>4
  <2>2. n <= a /\ n + 1 <= a /\ n + 1 \in 0 .. Span BY <2>1, Spans
  <2> QED BY <1>3, <2>2 DEF ReachesA
<1>5. CASE sectionA'[r].state = "established" /\ Pending(k, n)'
  BY <1>1, <1>2, <1>5, TickPending DEF ReachesA
<1>6. CASE /\ sectionA'[r].state = "established" /\ n <= Lifetime
           /\ \E f \in inFlight' : Restarts(f, r)'
  <2>1. PICK f \in inFlight' : Restarts(f, r)' BY <1>6
  <2>2. f \in inFlight /\ Restarts(f, r) BY <1>1, <2>1 DEF Restarts
  <2>3. inFlight' # {} BY <2>1
  <2> QED BY <1>1, <1>6, <2>2, <2>3 DEF ReachesA
<1> QED BY <1>1, <1>2, <1>4, <1>5, <1>6 DEF ReachesA

LEMMA TickReachesB ==
    ASSUME Core, Tick, NEW n \in 0 .. Span, NEW x \in RefB, ReachesB(x, n)'
    PROVE  /\ ReachesB(x, n)
           /\ inFlight' = {} => n + 1 \in 0 .. Span /\ ReachesB(x, n + 1)
<1>1. sectionB'[x] = sectionB[x] /\ inFlight' \subseteq inFlight BY TickSteps, TickLate
<1>2. CASE Waits(x, n)' BY <1>2, TickPending DEF ReachesB
<1>3. CASE EndB!Connected(x)' /\ n <= EndB!Left(x)'
  <2>1. EndB!Connected(x) BY <1>1, <1>3 DEF EndB!Connected
  <2>2. PICK a \in 0 .. Lifetime : EndB!Left(x) = a BY <2>1, LeftsNext DEF Core, LeftsB
  <2>3. EndB!Left(x)' = a - 1 BY <2>1, <2>2, TickSteps
  <2>4. n <= a - 1 BY <1>3, <2>3
  <2>5. n <= a /\ n + 1 <= a /\ n + 1 \in 0 .. Span BY <2>4, Spans
  <2> QED BY <2>1, <2>2, <2>5 DEF ReachesB
<1>4. CASE /\ sectionB'[x].state = "established" /\ n <= Lifetime
           /\ \E f \in inFlight' : f.to = "B" /\ f.message.type = "IT" /\ f.message.dst = x
  BY <1>1, <1>4 DEF ReachesB
<1> QED BY <1>2, <1>3, <1>4 DEF ReachesB

LEMMA TickKnown ==
    ASSUME Core, Tick, NEW f \in inFlight'
    PROVE  Known(f)'
<1> DEFINE m == f.message
           k == f.request
<1>0. 0 \in 0 .. Span /\ Span \in 0 .. Span BY Spans
<1>1. /\ \A n \in 0 .. Span : \A r : HoldsA(r, k, n) => HoldsA(r, k, n)'
      /\ \A n \in 0 .. Span : \A x : HoldsB(x, k, n) => HoldsB(x, k, n)'
  BY TickHolds
<1>2. /\ \A r : HoldsA(r, k, 0) => sectionA'[r] = sectionA[r]
      /\ \A x : HoldsB(x, k, 0) => sectionB'[x] = sectionB[x]
      /\ requests' = requests
  BY TickSteps DEF HoldsA, HoldsB
<1>3. \A n \in 0 .. Span : Pending(k, n)' => Pending(k, n) BY TickPending
<1>4. Known(f) BY TickLate DEF Core
<1> HIDE DEF m, k
<1>5. KnownRequest(f) => KnownRequest(f)' BY <1>0, <1>1 DEF KnownRequest, k
<1>6. KnownToA(f) => KnownToA(f)' BY <1>0, <1>1, <1>2, <1>3 DEF KnownToA, k
<1>7. KnownToB(f) => KnownToB(f)' BY <1>0, <1>1, <1>2 DEF KnownToB, k
<1> QED BY <1>2, <1>4, <1>5, <1>6, <1>7 DEF Known

LEMMA TickCore ==
    ASSUME Core, Tick
    PROVE  Core'
<1>1. ASSUME NEW r \in RefA PROVE LinkedA(r)'
  <2> SUFFICES ASSUME EndA!Connected(r)', NEW n \in 0 .. Span, ReachesA(r, n)'
               PROVE  HoldsB(sectionA[r].remote, requestOfA[r], n)'
    BY DEF LinkedA
  <2>1. PICK y, k : sectionA[r].remote = y /\ requestOfA[r] = k OBVIOUS
  <2>2. sectionA'[r].remote = y /\ requestOfA'[r] = k /\ EndA!Connected(r)
    BY <2>1, TickSteps DEF EndA!Connected
  <2>3. \A i \in 0 .. Span : ReachesA(r, i) => HoldsB(y, k, i) BY <2>1, <2>2 DEF Core, LinkedA
  <2>4. HoldsB(y, k, n)' BY <2>2, <2>3, TickReachesA, TickHolds
  <2> QED BY <2>1, <2>2, <2>4
<1>2. ASSUME NEW x \in RefB PROVE LinkedB(x)'
  <2> SUFFICES ASSUME sectionB'[x].state \in {"incoming", "established", "releasing"},
                      NEW n \in 0 .. Span, ReachesB(x, n)'
               PROVE  HoldsA(sectionB[x].remote, requestOfB[x], n)'
    BY DEF LinkedB
  <2>1. PICK r, k : sectionB[x].remote = r /\ requestOfB[x] = k OBVIOUS
  <2>2. /\ sectionB'[x].remote = r /\ requestOfB'[x] = k
        /\ sectionB[x].state \in {"incoming", "established", "releasing"}
    BY <2>1, TickSteps
  <2>3. \A i \in 0 .. Span : ReachesB(x, i) => HoldsA(r, k, i) BY <2>1, <2>2 DEF Core, LinkedB
  <2>4. HoldsA(r, k, n)' BY <2>3, TickReachesB, TickHolds
  <2> QED BY <2>1, <2>2, <2>4
<1>3. \A f \in inFlight' : Known(f)' BY TickKnown
<1> QED BY <1>1, <1>2, <1>3, TickSteps, TickHistories, TickLate DEF Core

-----------------------------------------------------------------------------
(* Every step, and what follows.                                           *)

LEMMA CoreInit == Init => Core
<1> SUFFICES ASSUME Init PROVE Core OBVIOUS
<1>1. EndA!Sound /\ EndB!Sound BY StepsOfA, StepsOfB DEF Init
<1>2. /\ \A r \in RefA : sectionA[r].state = "idle"
      /\ \A x \in RefB : sectionB[x].state = "idle"
  <2>1. EndA!Init /\ EndB!Init BY SameA, SameB DEF Init
  <2> QED BY <2>1 DEF EndA!Init, EndB!Init, EndA!NoSection, EndB!NoSection, EndA!NewSection,
                      EndB!NewSection, EndA!Ref, EndB!Ref, RefA, RefB
<1>3. Histories BY <1>2, Spans DEF Init, Histories, NoRequest, RefA, RefB
<1>4. (\A r \in RefA : LinkedA(r)) /\ \A x \in RefB : LinkedB(x)
  BY <1>2 DEF LinkedA, LinkedB, EndA!Connected
<1> QED BY <1>1, <1>3, <1>4, FS_EmptySet DEF Init, Core

LEMMA CoreStep ==
    ASSUME Core, [Next]_vars, FreezeOutlasts \/ ~FreedEarly'
    PROVE  Core'
BY Domains, TickCore, OwnCoreA, OwnCoreB, ConnectCore, QuietCore, ArriveRequestCore, ArriveCoreA,
   ArriveCoreB
   DEF Next

LEMMA CoreSettles ==
    ASSUME Core
    PROVE  NothingStale
<1> SUFFICES ASSUME NEW f \in inFlight, f.message.type # "CR"
             PROVE  /\ f.to = "A" => f.request = requestOfA[f.message.dst]
                    /\ f.to = "B" => f.request = requestOfB[f.message.dst]
  BY DEF NothingStale
<1>1. Known(f) /\ ~KnownRequest(f) BY MessagesOfEnds DEF Core, KnownRequest
<1> QED BY <1>1 DEF Known, KnownToA, KnownToB, HoldsA, HoldsB

(* As long as no reference is freed early, or the freeze is long enough,   *)
(* each end that is not free and every message under way belong together:  *)
(* the reference that a section or a message names is not free and carries *)
(* the same request.                                                       *)
LEMMA CoreUntilFreedEarly == Steps /\ []~FreedEarly => []Core
<1>1. Core /\ [Next]_vars /\ ~FreedEarly' => Core' BY CoreStep
<1> QED BY CoreInit, <1>1, PTL DEF Steps

LEMMA CoreIfFreezeOutlasts ==
    ASSUME FreezeOutlasts
    PROVE  Steps => []Core
<1>1. Core /\ [Next]_vars => Core' BY CoreStep
<1> QED BY CoreInit, <1>1, PTL DEF Steps

(* Whatever the timeouts: nothing of an earlier connection reaches a later *)
(* one that uses the reference again, unless by then some reference came   *)
(* free while a message under way, or the section at the other end, still  *)
(* named it for the connection it had carried.  No loss, delay, reordering *)
(* or repetition of messages does it otherwise, and no crossing of         *)
(* confirmation, refusal and release.  There is no fairness among the      *)
(* hypotheses: a behaviour may stop where something stale is under way, so *)
(* the reference has come free by then and not at some time after.         *)
THEOREM StaleOnlyAfterFreedEarly == Steps => StaleOnlyIfFreedEarly
<1>1. Core => NothingStale BY CoreSettles
<1> QED BY <1>1, CoreUntilFreedEarly, PTL DEF Steps, StaleOnlyIfFreedEarly

(* A freeze that outlasts what the other end and the MTP can hold of a     *)
(* connection is enough for nothing to be stale at all.                    *)
LEMMA NothingStaleIfFreezeOutlasts ==
    ASSUME FreezeOutlasts
    PROVE  Steps => []NothingStale
<1>1. Core => NothingStale BY CoreSettles
<1> QED BY <1>1, CoreIfFreezeOutlasts, PTL

=============================================================================
