------------------------ MODULE ConnectionProperties ------------------------
(***************************************************************************)
(* What the procedures of ConnectionStack must keep, whatever their users  *)
(* and the network do.                                                     *)
(***************************************************************************)
EXTENDS ConnectionStack, Sums

(* Every variable has the shape the code gives it.                         *)
TypeOK ==
    /\ section \in [Ref -> Section]
    /\ timer = [r \in Ref |-> timer[r]]
    /\ \A r \in Ref : /\ DOMAIN timer[r] \subseteq TimerKinds
                      /\ timer[r] \in [DOMAIN timer[r] -> Int]
    /\ next \in 0 .. ReferenceLimit
    /\ active \in Int
    /\ octets \in Int
    /\ locked \in BOOLEAN
    /\ lag \in 0 .. MaxLag
    /\ user \in [Ref -> UserStates]
    /\ frozenFor \in [Ref -> Nat]

(* Which timers may run in a state: T(conn est) guards a pending request,  *)
(* T(ias) and T(iar) an open connection, T(rel) and then T(int) with or    *)
(* without T(repeat rel) a pending release.                                *)
TimersOf(state) ==
    CASE state \in {"idle", "incoming"} -> {{}}
      [] state = "outgoing" -> {{"establishment"}}
      [] state = "established" -> {{"sendInactivity", "receiveInactivity"}}
      [] state = "releasing" -> {{"release"}, {"giveUp"}, {"giveUp", "repeat"}}
      [] OTHER -> {{"freeze"}}

(* No step leaves a section without the timer that ends its state, or a    *)
(* timer behind that would later fire into another state or another        *)
(* connection on the same reference (stopConnectionTimers and its callers).*)
TimersMatchState == \A r \in Ref : DOMAIN timer[r] \in TimersOf(section[r].state)

(* What the user can tell from the primitives is what the section is in:   *)
(* no connection ends without its user being told, none is reported ended  *)
(* twice or after the user's own disconnect (Q.711 Figure 8, as cited in   *)
(* Connect's timer callback, dispatchConnectionState, receiveConnectionSetup).*)
UserView(s) ==
    CASE s.state = "incoming" -> "called"
      [] s.state = "outgoing" /\ ~s.disconnect -> "calling"
      [] s.state = "established" -> "open"
      [] OTHER -> "idle"

UserAgrees == \A r \in Ref : user[r] = UserView(section[r])

(* conn.active counts the sections that are in use, which freezeConnection *)
(* and registerConnection keep by hand, and the limit holds.               *)
InUse == {r \in Ref : section[r].state \notin Unused}

ActiveCounted == active = Cardinality(InUse) /\ active <= MaxConnections

(* A reference out of use and below the limit is found however next and    *)
(* the occupied references lie: "at most occupied+1 candidates suffice".   *)
AllocationComplete ==
    (active < MaxConnections /\ Occupied # Ref) => \E r \in Ref : CandidateReference(r)

Lengths == [r \in Ref |-> section[r].len]

(* conn.reassemblyOctets is what the connections hold, within its budget;  *)
(* only an open connection holds any, and less than twice what it needs.   *)
BuffersAccounted ==
    /\ octets = SumOver([r \in Ref |-> section[r].cap], Ref)
    /\ octets <= MaxReassemblyOctets
    /\ \A r \in Ref : LET s == section[r] IN
          /\ s.len <= s.cap /\ s.cap <= MaxDataLength
          /\ s.cap = 0 \/ (s.state = "established" /\ s.cap < 2 * s.len)

(* A segment is turned away for want of room only when the connections     *)
(* would need more than the budget with every other buffer at its loosest  *)
(* (twice its data): doubling never costs a connection more than that.     *)
RefusedOnlyWhenCrowded ==
    \A r \in Ref, n \in DataLengths :
        LET s == section[r]
            others == SumOver(Lengths, Ref \ {r})
        IN  (s.state = "established" /\ WithinLimit(s, n) /\ ~WithinBudget(s, n))
               => 2 * others + s.len + n > MaxReassemblyOctets

(* "A DT1 is refused only when the octets themselves do not fit"           *)
(* (appendConnectionData): the octets all connections hold, with those of  *)
(* the segment, exceed the budget.                                         *)
RefusedOnlyWhenFull ==
    \A r \in Ref, n \in DataLengths :
        LET s == section[r]
        IN  (s.state = "established" /\ WithinLimit(s, n) /\ ~WithinBudget(s, n))
               => SumOver(Lengths, Ref) + n > MaxReassemblyOctets

(* Every message sent names a peer, that peer's reference and a reference  *)
(* of this stack: no RLSD, IT or DT1 leaves a section before the CR or CC  *)
(* that associates its peer (receiveConnectionSetup sets RemoteReference   *)
(* and Remote before it may begin the release).                            *)
SentAddressed ==
    \A i \in DOMAIN sent :
        /\ sent[i].peer \in Peers
        /\ "dst" \in DOMAIN sent[i] => sent[i].dst \in RemoteRefs
        /\ "src" \in DOMAIN sent[i] => sent[i].src \in Ref

(* T(repeat rel) never outlasts T(int) (scheduleConnectionRepeat), so the  *)
(* RLSD of a section that was given up is not sent again.                  *)
RepeatWithinGiveUp ==
    \A r \in Ref : "repeat" \in DOMAIN timer[r] =>
        "giveUp" \in DOMAIN timer[r] /\ timer[r]["repeat"] < timer[r]["giveUp"]

(* A released reference is not used again before ReferenceFreeze is over,  *)
(* up to the age of the clock reading of the call that released it.        *)
FreezeHonoured ==
    [][\A r \in Ref : section[r].state = "frozen" /\ section'[r].state # "frozen"
          => frozenFor[r] >= ReferenceFreeze - MaxLag]_vars

(* What makes FreezeHonoured inductive.                                    *)
FreezeTimed ==
    \A r \in Ref : section[r].state = "frozen" =>
        frozenFor[r] + timer[r]["freeze"] \in ReferenceFreeze - MaxLag .. ReferenceFreeze

(* A deferred disconnect waits in a pending request only, and every other  *)
(* section in use has an associated peer.                                  *)
SectionShaped(s) ==
    /\ s.disconnect => s.state = "outgoing"
    /\ s.state \in {"incoming", "outgoing", "established", "releasing"} => s.peer \in Peers
    /\ s.state \in {"incoming", "established", "releasing"} => s.remote \in RemoteRefs

SectionsShaped == \A r \in Ref : SectionShaped(section[r])

(* The inductive invariant behind the proofs.                              *)
Inv ==
    /\ TypeOK
    /\ TimersMatchState
    /\ UserAgrees
    /\ RepeatWithinGiveUp
    /\ FreezeTimed
    /\ SectionsShaped

(* The abstract connection of ConnectionService.                           *)
Phase(s) ==
    CASE s.state = "idle" -> "free"
      [] s.state = "incoming" -> "called"
      [] s.state = "outgoing" /\ ~s.disconnect -> "calling"
      [] s.state = "established" -> "open"
      [] s.state = "frozen" -> "frozen"
      [] OTHER -> "closing"

Service == INSTANCE ConnectionService WITH phase <- [r \in Ref |-> Phase(section[r])]

(* The stack implements the service: a reference goes through one          *)
(* connection's life, is frozen, and only then carries another.            *)
ImplementsService == Service!Spec

=============================================================================
