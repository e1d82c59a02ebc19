------------------------- MODULE MCMessageHandling -------------------------
(***************************************************************************)
(* The messages that TLC sends through MessageHandling: every type with    *)
(* and without its optional parameters, the boundary values of its fields, *)
(* every way to route it, and the sizes around which a service message     *)
(* stops fitting.                                                          *)
(***************************************************************************)
EXTENDS MessageProperties

Label == [opc |-> 100, dpc |-> 200, sls |-> 3, ni |-> 0]

User(n) == [i \in 1 .. n |-> (7 * i) % 256]

Title(signals) == The(NewGlobalTitle4(0, 1, 4, signals), <<>>)

Opaque(indicator, n) ==
    [indicator |-> indicator, translationType |-> Flag(indicator = 2, 255), numberingPlan |-> 0,
     encodingScheme |-> 0, nature |-> 0, oddDigits |-> FALSE, information |-> User(n)]

BySSN == NewSSNAddress(8)
ByPointCode == NewPointCodeAddress(MaxPointCode, 9)
ByTitle == NewGlobalTitleAddress(Title(<<4, 9, 1>>), 8)
ByTitleOnly == [ByTitle EXCEPT !.ssn = {}]
LongTitle(n) == NewGlobalTitleAddress(Opaque(7, n), 8)
SSNZeroTitle == [ByTitle EXCEPT !.routeOnSSN = TRUE, !.ssn = {0}]
SSNZero == NewSSNAddress(0)
Bare == [NewSSNAddress(0) EXCEPT !.routeOnSSN = FALSE, !.ssn = {}]

Case(m) == [message |-> m, label |-> Label, maxMessageSize |-> DefaultMaxMessageSize,
            signals |-> {}, scmg |-> {}, alterable |-> FALSE]

Alterable(m) == [Case(m) EXCEPT !.alterable = TRUE]

Class(n, return) == [class |-> n, returnOnError |-> return]

Segment(first, remaining) ==
    [first |-> first, inSequence |-> TRUE, remaining |-> remaining, reference |-> Max24]

Raw2 == <<[code |-> 1, value |-> <<>>], [code |-> 200, value |-> <<18, 1>>]>>

UnitdataMessage(type, class, hop, called, calling, data, segmentation, raws) ==
    IF type = "UDT"
    THEN [type |-> type, class |-> class, called |-> called, calling |-> calling, data |-> data]
    ELSE [type |-> type, class |-> class, hopCounter |-> hop, called |-> called,
          calling |-> calling, data |-> data, segmentation |-> segmentation,
          importance |-> {}, unrecognized |-> raws]

ServiceMessage(type, cause, called, calling, data, segmentation, importance) ==
    IF type = "UDTS"
    THEN [type |-> type, cause |-> cause, called |-> called, calling |-> calling, data |-> data]
    ELSE [type |-> type, cause |-> cause, hopCounter |-> 3, called |-> called,
          calling |-> calling, data |-> data, segmentation |-> segmentation,
          importance |-> importance, unrecognized |-> <<>>]

-----------------------------------------------------------------------------
(* Routing: every kind of called party address, with every hop counter that*)
(* makes a difference.                                                     *)
RoutingCases ==
    {Case(UnitdataMessage(t, Class(c, r), h, called, calling, User(2), s, <<>>)) :
        t \in Unitdata, c \in {0, 1}, r \in BOOLEAN, h \in {1, 2},
        called \in {BySSN, ByPointCode, ByTitle, ByTitleOnly, SSNZeroTitle, SSNZero},
        calling \in {ByPointCode, Bare}, s \in {{}, {Segment(TRUE, 1)}}}
    \cup {Case(ServiceMessage(t, NoTranslation, called, BySSN, User(2), {}, {})) :
        t \in Service, called \in {BySSN, ByPointCode, ByTitle, ByTitleOnly, SSNZeroTitle}}
    \cup {[Case(UnitdataMessage("UDT", Class(0, TRUE), 1, BySSN, BySSN, User(1), {}, <<>>))
             EXCEPT !.label = l] :
        l \in {[Label EXCEPT !.opc = MaxPointCode + 1], [Label EXCEPT !.sls = 16]}}

(* Returns: the longest data that fits, around the limits of the encoding. *)
ReturnCases ==
    {[Case(UnitdataMessage(t, Class(1, TRUE), 1, called, calling, User(n), s, <<>>))
        EXCEPT !.maxMessageSize = size] :
        t \in Unitdata, called \in {ByTitleOnly, LongTitle(60)}, calling \in {BySSN, ByTitle},
        n \in {1, 2, 120, 255}, size \in {11, 28, 29, 100, 268, MaxBroadbandMessageSize},
        s \in {{}, {Segment(FALSE, 0)}}}
    \cup {[Case(UnitdataMessage("LUDT", Class(1, TRUE), 1, ByTitleOnly, BySSN, User(n), s, <<>>))
        EXCEPT !.maxMessageSize = size] :
        n \in {256, 300}, size \in {268, 300, MaxBroadbandMessageSize}, s \in {{}, {Segment(FALSE, 0)}}}

-----------------------------------------------------------------------------
(* The codecs.                                                             *)
Signals == {<<>>, <<0>>, <<1, 15>>, <<11, 12, 9>>}

DigitCases ==
    {[Case(UnitdataMessage("UDT", Class(0, FALSE), 1, NewGlobalTitleAddress(g, 8), Bare,
                           User(1), {}, <<>>)) EXCEPT !.signals = {signals}] :
        <<g, signals>> \in
            UNION {NewGlobalTitle4(255, 15, 127, s) \X {s} : s \in Signals}
            \cup UNION {NewGlobalTitle3(0, 14, s) \X {s} : s \in Signals}
            \cup UNION {NewGlobalTitle1(127, s) \X {s} : s \in Signals}}

ManagementCases ==
    {[Case(UnitdataMessage("UDT", Class(0, FALSE), 1, NewSSNAddress(1), NewSSNAddress(1),
                           The(AppendSCMG(s), <<0>>), {}, <<>>))
        EXCEPT !.scmg = IF AppendSCMG(s) = {} THEN {} ELSE {s}] :
        s \in [type : {1, 5, SSC, 7}, affectedSSN : {8, 255},
               affectedPointCode : {MaxPointCode, MaxPointCode + 1}, multiplicity : {3, 4},
               congestionLevel : {0, 8, 9}, affectedService : {0, 2, 3}]}

BoundaryCases ==
    {Case(UnitdataMessage(t, Class(1, TRUE), 15, LongTitle(n), ByTitle, User(d), s, r)) :
        t \in Unitdata, n \in {100, 245, 251, 252}, d \in {1, 145, 149, 150, 255, 256},
        s \in {{}, {Segment(TRUE, 15)}}, r \in {<<>>}}
    \cup {Case(ServiceMessage(t, c, LongTitle(n), ByTitle, User(d), s, {7})) :
        t \in Service, c \in {0, 255}, n \in {3, 251}, d \in {1, 255}, s \in {{}, {Segment(FALSE, 0)}}}

AlteredUnitdata ==
    {Alterable(UnitdataMessage(t, Class(1, TRUE), 15, BySSN, a, User(2), s, r)) :
        t \in Unitdata, a \in {ByPointCode}, s \in {{}, {Segment(FALSE, 1)}}, r \in {<<>>, Raw2}}
    \cup {Alterable(ServiceMessage(t, 1, ByTitle, BySSN, User(1), {Segment(TRUE, 0)}, {0})) : t \in Service}

Options(values) == {{}} \cup {{v} : v \in values}

ConnectionCases ==
    {Case([type |-> "CR", source |-> Max24 - 1, class |-> Class(2, FALSE), called |-> BySSN,
           credit |-> credit, calling |-> calling, data |-> data, hopCounter |-> hop,
           importance |-> {}, unrecognized |-> raws]) :
        credit \in Options({127}), calling \in Options({ByTitle}), data \in {<<>>, User(3)},
        hop \in Options({15}), raws \in {<<>>, Raw2}}
    \cup {Alterable([type |-> "CR", source |-> 1, class |-> Class(3, FALSE), called |-> SSNZero,
           credit |-> {0}, calling |-> {BySSN}, data |-> User(1), hopCounter |-> {1},
           importance |-> {0}, unrecognized |-> raws]) : raws \in {<<>>, Raw2}}
    \cup {Case([type |-> "CC", destination |-> 1, source |-> 65536, class |-> Class(c, FALSE),
           credit |-> {}, called |-> called, data |-> User(n), importance |-> importance,
           unrecognized |-> raws]) :
        c \in {2, 3}, called \in Options({ByPointCode}), n \in {0, 128, 129},
        importance \in Options({7}), raws \in {<<>>, Raw2}}
    \cup {Alterable([type |-> "CREF", destination |-> 256, cause |-> c, called |-> called,
           data |-> User(1), importance |-> {}, unrecognized |-> Raw2]) :
        c \in {0, 255}, called \in Options({Bare, BySSN})}
    \cup {Alterable([type |-> "RLSD", destination |-> r, source |-> 0, cause |-> 3, data |-> data,
           importance |-> importance, unrecognized |-> <<>>]) :
        r \in {Max24 - 1, Max24}, data \in {<<>>, User(4)}, importance \in Options({5})}
    \cup {Alterable([type |-> t, destination |-> 1, source |-> Max24 - 1]) : t \in {"RLC", "RSC"}}
    \cup {Alterable([type |-> "EA", destination |-> 70000])}
    \cup {Case([type |-> "DT1", destination |-> 1, moreData |-> more, data |-> User(n)]) :
        more \in BOOLEAN, n \in {0, 1, 255, 256}}
    \cup {Case([type |-> "ED", destination |-> 1, data |-> User(n)]) : n \in {1, 32, 33}}
    \cup {Case([type |-> "DT2", destination |-> 1, data |-> User(1),
           sequencing |-> [send |-> n, receive |-> 127, moreData |-> TRUE]]) : n \in {0, 127, 128}}
    \cup {Case([type |-> "AK", destination |-> 1, receive |-> n, credit |-> 127]) : n \in {64, 127, 128}}
    \cup {Alterable([type |-> "RSR", destination |-> 1, source |-> 2, cause |-> 1, unrecognized |-> raws]) :
        raws \in {<<>>, Raw2}}
    \cup {Alterable([type |-> "ERR", destination |-> 1, cause |-> c, unrecognized |-> raws]) :
        c \in {1, 255}, raws \in {<<>>, Raw2}}
    \cup {Alterable([type |-> "IT", destination |-> 1, source |-> 2, class |-> Class(c, FALSE),
           sequencing |-> [send |-> 0, receive |-> 0, moreData |-> FALSE], credit |-> 0]) :
        c \in {1, 2}}

MCCases == RoutingCases \cup ReturnCases \cup DigitCases \cup ManagementCases \cup BoundaryCases
           \cup AlteredUnitdata \cup ConnectionCases

MCNewOctets == {0, 1, 4, 18, 255}

=============================================================================
