-------------------------- MODULE MessageHandling --------------------------
(***************************************************************************)
(* One message on its way through HandleTransfer (stack.go, unitdata.go):  *)
(* a peer encodes it, the MTP delivers it, possibly cut short or with an   *)
(* octet changed, and the stack decodes it, routes it and delivers,        *)
(* discards or returns it.                                                 *)
(*                                                                         *)
(* A segment that routing does not reject is handed to reassembly          *)
(* (Reassembly), a connection-oriented message to the connection sections  *)
(* (ConnectionStack); the timers that HandleTransfer fires first are       *)
(* theirs.  LocalGlobalTitle may answer anything.                          *)
(***************************************************************************)
EXTENDS Messages

CONSTANTS
    Cases,          \* what a peer sends, its label, and the stack's size limit
    Subsystems,     \* the subsystem numbers that may be registered
    HopCounter,     \* of the service messages this stack sends
    NewOctets       \* bound: what an altered octet may become

(* The fields of a message have their Go types: its encoding is a []byte.  *)
ASSUME HandlingAssumption ==
    /\ HopCounter \in 1 .. 15
    /\ NewOctets \subseteq Octet
    /\ Subsystems \subseteq 1 .. 255
    /\ \A c \in Cases :
         /\ c.maxMessageSize \in MinMessageSize .. MaxBroadbandMessageSize
         /\ Marshal(c.message, MaxBroadbandMessageSize) \subseteq Seq(Octet)

VARIABLES
    case,         \* one of Cases
    wire,         \* its encoding, if there is one
    fault,        \* what the MTP did to it: "none", "cut" or "changed"
    subsystems,   \* subsystems: availability of those registered
    handled,      \* HandleTransfer has returned
    result        \* its Result

vars == <<case, wire, fault, subsystems, handled, result>>

-----------------------------------------------------------------------------
(* Results.                                                                *)

NoResult == [transfers |-> <<>>, indications |-> <<>>, discards |-> <<>>, handed |-> "none"]

Discard(r, type, reason) ==
    [r EXCEPT !.discards = Append(@, [type |-> type, reason |-> reason])]

Indicate(r, indication) == [r EXCEPT !.indications = Append(@, indication)]

Transfer(r, label, sent) ==
    [r EXCEPT !.transfers = Append(@, [label |-> label, message |-> sent.message,
                                       octets |-> sent.octets])]

Hand(r, component) == [r EXCEPT !.handed = component]

-----------------------------------------------------------------------------
(* Routing of the called party address (route).                            *)

Deliver(ssn) == [verdict |-> "deliver", ssn |-> ssn]
Return(cause) == [verdict |-> "return", cause |-> cause]
Drop(reason) == [verdict |-> "discard", reason |-> reason]

NoTranslation == 1
SubsystemFailure == 3
UnequippedUser == 4
HopCounterViolation == 12

(* hop: the hop counter of the message, if it has one.                     *)
Route(called, hop, local) ==
    LET known == called.ssn \notin {{}, {0}}
        ssn == The(called.ssn, 0)
    IN CASE called.routeOnSSN /\ called.ssn = {} -> Drop("syntax")
         [] called.routeOnSSN /\ known -> Deliver(ssn)
         [] called.routeOnSSN /\ ~ known /\ called.ssn # {} /\ called.globalTitle = {}
              -> Drop("incomplete address")
         [] ~ called.routeOnSSN /\ called.globalTitle = {} -> Drop("syntax")
         [] called.globalTitle # {} /\ ~ (called.routeOnSSN /\ (known \/ called.ssn = {}))
              -> IF \E h \in hop : h <= 1 THEN Return(HopCounterViolation)
                 ELSE IF ~ local \/ ~ known THEN Return(NoTranslation)
                 ELSE Deliver(ssn)

(* The return cause of a subsystem that cannot receive a message.          *)
SubsystemCause(status, ssn) ==
    IF ssn \notin DOMAIN status THEN {UnequippedUser}
    ELSE IF ~ status[ssn] THEN {SubsystemFailure} ELSE {}

ReplyLabel(label) == [label EXCEPT !.opc = label.dpc, !.dpc = label.opc]

OriginLabel(label, calling) ==
    IF calling.routeOnSSN /\ calling.pointCode # {}
    THEN [ReplyLabel(label) EXCEPT !.dpc = The(calling.pointCode, 0)]
    ELSE ReplyLabel(label)

-----------------------------------------------------------------------------
(* The message return procedure.                                           *)

SegmentationOf(m) == IF m.type = "UDT" THEN {} ELSE m.segmentation

(* The service message of a type for m.                                    *)
ServiceFor(type, m, cause, data) ==
    IF type = "UDTS"
    THEN [type |-> type, cause |-> cause, called |-> m.calling, calling |-> m.called,
          data |-> data]
    ELSE [type |-> type, cause |-> cause, hopCounter |-> HopCounter, called |-> m.calling,
          calling |-> m.called, data |-> data, segmentation |-> SegmentationOf(m),
          importance |-> {}, unrecognized |-> <<>>]

(* The types of service message that may answer m.                         *)
ServiceTypes(m) ==
    CASE m.type = "UDT"  -> {"UDTS"}
      [] m.type = "XUDT" -> {"XUDTS"}
      [] m.type = "LUDT" -> {"LUDTS", "XUDTS"}

(* The service message with the first n octets of the data, if it fits.    *)
Built(type, m, cause, limit, n) ==
    UNION {{[message |-> service, octets |-> b] : b \in Marshal(service, limit)} :
             service \in {ServiceFor(type, m, cause, SubSeq(m.data, 1, n))}}

Middle(r) == (r[1] + r[2] + 1) \div 2

(* Fault: the search stops at the first prefix that fits.                  *)
NarrowOnce(r, fits) == IF fits THEN <<Middle(r), Middle(r)>> ELSE <<r[1], Middle(r) - 1>>

(* One step of the bisection of the prefix lengths r[1] .. r[2].           *)
Narrow(r, fits) == IF fits THEN <<Middle(r), r[2]>> ELSE <<r[1], Middle(r) - 1>>

Min2(a, b) == IF a < b THEN a ELSE b

(* The service message of a type with all of the data, or with the prefix  *)
(* that the bisection finds; none with no data.                            *)
FitReturn(type, m, cause, limit) ==
    LET built[n \in Nat] == Built(type, m, cause, limit, n)
        top == Min2(Len(m.data), MaxLongData)
        search[r \in (0 .. top) \X (0 .. top)] ==
            IF r[1] >= r[2] THEN built[r[1]] ELSE search[Narrow(r, built[Middle(r)] # {})]
    IN IF built[Len(m.data)] # {} THEN built[Len(m.data)] ELSE search[<<0, top>>]

(* Only when no LUDTS can be built does an LUDT come back as an XUDTS.     *)
Preferred(sent) ==
    CHOOSE s \in sent : s.message.type = "LUDTS" \/ \A t \in sent : t.message.type # "LUDTS"

Answer(r, label, m, sent) ==
    IF sent = {} THEN Discard(r, m.type, "undeliverable")
    ELSE Transfer(r, OriginLabel(label, m.calling), Preferred(sent))

ReturnMessage(r, label, m, cause, limit) ==
    Answer(r, label, m, UNION {FitReturn(type, m, cause, limit) : type \in ServiceTypes(m)})

(* Fault: a message that did not ask for it is returned.                   *)
RejectAlways(r, label, m, cause, limit) ==
    ReturnMessage(Discard(r, m.type, "undeliverable"), label, m, cause, limit)

(* Fault: a message is not returned although it asked for it.              *)
RejectNever(r, label, m, cause, limit) == Discard(r, m.type, "undeliverable")

Reject(r, label, m, cause, limit) ==
    LET discarded == Discard(r, m.type, "undeliverable")
    IN IF m.class.returnOnError THEN ReturnMessage(discarded, label, m, cause, limit)
       ELSE discarded

AlertHopCounter(r, type, cause) ==
    IF cause = HopCounterViolation
    THEN Indicate(r, [type |-> "maintenance", messageType |-> type]) ELSE r

-----------------------------------------------------------------------------
(* The handlers of the connectionless messages.                            *)

HopOf(m) == IF m.type \in {"UDT", "UDTS"} THEN {} ELSE {m.hopCounter}

UnitdataIndication(m) ==
    [type |-> "unitdata", messageType |-> m.type, called |-> m.called, calling |-> m.calling,
     class |-> m.class, data |-> m.data]

(* A segment that is not rejected is left to reassembly, which looks at    *)
(* the subsystem when the message is whole.                                *)
RejectCause(route, m, status) ==
    CASE route.verdict = "return"  -> {route.cause}
      [] route.verdict = "deliver" -> IF IsSegment(SegmentationOf(m)) THEN {}
                                      ELSE SubsystemCause(status, route.ssn)
      [] OTHER                     -> {}

HandleUnitdata(label, m, local, status, limit) ==
    LET route == Route(m.called, HopOf(m), local)
        causes == RejectCause(route, m, status)
    IN CASE m.class.class > 1 \/ m.data = <<>> -> Discard(NoResult, m.type, "syntax")
         [] OTHER ->
            CASE route.verdict = "discard" -> Discard(NoResult, m.type, route.reason)
              [] causes # {} -> LET cause == The(causes, 0) IN
                   AlertHopCounter(Reject(NoResult, label, m, cause, limit), m.type, cause)
              [] IsSegment(SegmentationOf(m)) /\ route.verdict = "deliver" ->
                   Hand(NoResult, "reassembly")
              [] OTHER -> Indicate(NoResult, UnitdataIndication(m))

NoticeIndication(m) ==
    [type |-> "notice", messageType |-> m.type, called |-> m.called, calling |-> m.calling,
     cause |-> m.cause, data |-> m.data]

HandleService(m, local, status) ==
    LET route == Route(m.called, HopOf(m), local)
    IN CASE route.verdict = "discard" -> Discard(NoResult, m.type, route.reason)
         [] route.verdict = "return" ->
              AlertHopCounter(Discard(NoResult, m.type, "undeliverable"), m.type, route.cause)
         [] route.verdict = "deliver" ->
              IF SubsystemCause(status, route.ssn) # {}
              THEN Discard(NoResult, m.type, "undeliverable")
              ELSE Indicate(NoResult, NoticeIndication(m))

ValidLabel(label) ==
    /\ label.ni <= 3 /\ label.sls <= 15
    /\ label.opc <= MaxPointCode /\ label.dpc <= MaxPointCode

Unitdata == {"UDT", "XUDT", "LUDT"}
Service == {"UDTS", "XUDTS", "LUDTS"}

Dispatch(label, m, local, status, limit) ==
    IF m.type \in Unitdata THEN HandleUnitdata(label, m, local, status, limit)
    ELSE IF m.type \in Service THEN HandleService(m, local, status)
    ELSE Hand(NoResult, "connection")

(* What a stack does with the octets b, as the set of its result.  An      *)
(* undecodable message is known by its first octet only.                   *)
Handle(label, b, local, status, limit) ==
    IF ~ ValidLabel(label) THEN {Discard(NoResult, "octet", "invalid request")}
    ELSE IF ParseMessage(b) = {} THEN {Discard(NoResult, "octet", "syntax")}
    ELSE {Dispatch(label, m, local, status, limit) : m \in ParseMessage(b)}

-----------------------------------------------------------------------------
Init ==
    /\ case \in Cases
    /\ wire = {}
    /\ fault = "none"
    /\ subsystems = <<>>
    /\ handled = FALSE
    /\ result = NoResult

(* Bound on these three: a subsystem changes before its message is sent.   *)
RegisterSubsystem(ssn) ==
    /\ wire = {}
    /\ subsystems' = [n \in DOMAIN subsystems \cup {ssn} |->
                        IF n = ssn THEN TRUE ELSE subsystems[n]]
    /\ UNCHANGED <<case, wire, fault, handled, result>>

UnregisterSubsystem(ssn) ==
    /\ wire = {}
    /\ subsystems' = [n \in DOMAIN subsystems \ {ssn} |-> subsystems[n]]
    /\ UNCHANGED <<case, wire, fault, handled, result>>

SetSubsystemAvailable(ssn, available) ==
    /\ wire = {}
    /\ ssn \in DOMAIN subsystems
    /\ subsystems' = [subsystems EXCEPT ![ssn] = available]
    /\ UNCHANGED <<case, wire, fault, handled, result>>

(* The peer has the largest message size; what it cannot encode it does    *)
(* not send.                                                               *)
Send ==
    /\ wire = {}
    /\ \E b \in Marshal(case.message, MaxBroadbandMessageSize) : wire' = {b}
    /\ UNCHANGED <<case, fault, subsystems, handled, result>>

(* Bound: the encodings of some of the cases only are altered.             *)
Altered(type, b) ==
    /\ case.alterable
    /\ fault = "none" /\ ~ handled
    /\ fault' = type
    /\ wire' = {b}
    /\ UNCHANGED <<case, subsystems, handled, result>>

Cut == \E b \in wire : \E n \in 0 .. Len(b) - 1 : Altered("cut", SubSeq(b, 1, n))

ChangeOctet ==
    \E b \in wire : \E i \in DOMAIN b, v \in NewOctets :
        /\ b[i] # v
        /\ Altered("changed", [b EXCEPT ![i] = v])

HandleTransfer(local) ==
    /\ ~ handled
    /\ wire # {}
    /\ handled' = TRUE
    /\ \E b \in wire :
         result' \in Handle(case.label, b, local, subsystems, case.maxMessageSize)
    /\ UNCHANGED <<case, wire, fault, subsystems>>

Next ==
    \/ \E ssn \in Subsystems :
         \/ RegisterSubsystem(ssn)
         \/ UnregisterSubsystem(ssn)
         \/ \E available \in BOOLEAN : SetSubsystemAvailable(ssn, available)
    \/ Send
    \/ Cut
    \/ ChangeOctet
    \/ \E local \in BOOLEAN : HandleTransfer(local)

Spec == Init /\ [][Next]_vars

=============================================================================
