------------------------- MODULE ConnectionMessages -------------------------
(***************************************************************************)
(* The connection-oriented messages (connection_oriented.go), those of     *)
(* protocol class 3 included: the codecs know them, the procedures do not. *)
(***************************************************************************)
EXTENDS MessageCodec

Destination(b) == FixedParam(b, 1, 3, UnmarshalReference)

Source(b) == FixedParam(b, 4, 3, UnmarshalReference)

References(m) == <<AppendReference(m.destination), AppendReference(m.source)>>

-----------------------------------------------------------------------------
RecognizedCR == {9, 4, 15, 17, 18}

AppendCR(m) ==
    Layout(1, <<AppendReference(m.source), ConnectionOrientedClass(m.class)>>, 1,
           <<Address(m.called, FALSE)>>,
           OptionalPart(<<Optional(9, m.credit, AppendCredit),
                          OptionalAddress(4, m.calling),
                          OptionalData(m.data),
                          Optional(17, m.hopCounter, AppendHopCounter),
                          Optional(18, m.importance, AppendImportance),
                          Raws(m.unrecognized, RecognizedCR)>>))

UnmarshalCR(b) ==
    LET p == Pointers(5, 2, 1)
        o == OptionalOf(b, p, 1, RecognizedCR)
    IN {[type |-> "CR", source |-> source, class |-> class, called |-> called,
         credit |-> credit, calling |-> calling, data |-> data, hopCounter |-> hop,
         importance |-> importance, unrecognized |-> raws] :
          source \in FixedParam(b, 1, 3, UnmarshalReference),
          class \in FixedParam(b, 4, 1, UnmarshalClass),
          called \in VariableParam(b, p, 0, UnmarshalAddress),
          credit \in OptionalValue(o, 9, UnmarshalOctet),
          calling \in OptionalValue(o, 4, UnmarshalAddress),
          data \in OptionalBytes(o),
          hop \in OptionalValue(o, 17, UnmarshalOctet),
          importance \in OptionalValue(o, 18, UnmarshalImportance),
          raws \in Unrecognized(o, RecognizedCR)}

RecognizedCC == {9, 3, 15, 18}

AppendCC(m) ==
    Layout(2, References(m) \o <<ConnectionOrientedClass(m.class)>>, 1, <<>>,
           OptionalPart(<<Optional(9, m.credit, AppendCredit),
                          OptionalAddress(3, m.called),
                          OptionalData(m.data),
                          Optional(18, m.importance, AppendImportance),
                          Raws(m.unrecognized, RecognizedCC)>>))

UnmarshalCC(b) ==
    LET o == OptionalOf(b, Pointers(8, 1, 1), 0, RecognizedCC)
    IN {[type |-> "CC", destination |-> destination, source |-> source, class |-> class,
         credit |-> credit, called |-> called, data |-> data, importance |-> importance,
         unrecognized |-> raws] :
          destination \in Destination(b), source \in Source(b),
          class \in FixedParam(b, 7, 1, UnmarshalClass),
          credit \in OptionalValue(o, 9, UnmarshalOctet),
          called \in OptionalValue(o, 3, UnmarshalAddress),
          data \in OptionalBytes(o),
          importance \in OptionalValue(o, 18, UnmarshalImportance),
          raws \in Unrecognized(o, RecognizedCC)}

RecognizedCREF == {3, 15, 18}

AppendCREF(m) ==
    Layout(3, <<AppendReference(m.destination), Cause(m.cause)>>, 1, <<>>,
           OptionalPart(<<OptionalAddress(3, m.called),
                          OptionalData(m.data),
                          Optional(18, m.importance, AppendImportance),
                          Raws(m.unrecognized, RecognizedCREF)>>))

UnmarshalCREF(b) ==
    LET o == OptionalOf(b, Pointers(5, 1, 1), 0, RecognizedCREF)
    IN {[type |-> "CREF", destination |-> destination, cause |-> cause, called |-> called,
         data |-> data, importance |-> importance, unrecognized |-> raws] :
          destination \in Destination(b),
          cause \in FixedParam(b, 4, 1, UnmarshalOctet),
          called \in OptionalValue(o, 3, UnmarshalAddress),
          data \in OptionalBytes(o),
          importance \in OptionalValue(o, 18, UnmarshalImportance),
          raws \in Unrecognized(o, RecognizedCREF)}

RecognizedRLSD == {15, 18}

AppendRLSD(m) ==
    Layout(4, References(m) \o <<Cause(m.cause)>>, 1, <<>>,
           OptionalPart(<<OptionalData(m.data),
                          Optional(18, m.importance, AppendImportance),
                          Raws(m.unrecognized, RecognizedRLSD)>>))

UnmarshalRLSD(b) ==
    LET o == OptionalOf(b, Pointers(8, 1, 1), 0, RecognizedRLSD)
    IN {[type |-> "RLSD", destination |-> destination, source |-> source, cause |-> cause,
         data |-> data, importance |-> importance, unrecognized |-> raws] :
          destination \in Destination(b), source \in Source(b),
          cause \in FixedParam(b, 7, 1, UnmarshalOctet),
          data \in OptionalBytes(o),
          importance \in OptionalValue(o, 18, UnmarshalImportance),
          raws \in Unrecognized(o, RecognizedRLSD)}

(* RLC and RSC are two references, EA is one.                              *)
AppendRLC(m) == Layout(5, References(m), 1, <<>>, NoOptionalPart)

UnmarshalRLC(b) ==
    {[type |-> "RLC", destination |-> destination, source |-> source] :
        destination \in Destination(b), source \in Source(b)}

AppendRSC(m) == Layout(14, References(m), 1, <<>>, NoOptionalPart)

UnmarshalRSC(b) ==
    {[type |-> "RSC", destination |-> destination, source |-> source] :
        destination \in Destination(b), source \in Source(b)}

AppendEA(m) == Layout(12, <<AppendReference(m.destination)>>, 1, <<>>, NoOptionalPart)

UnmarshalEA(b) == {[type |-> "EA", destination |-> destination] : destination \in Destination(b)}

-----------------------------------------------------------------------------
MoreDataOctet(more) == {<<Flag(more, 1)>>}

AppendDT1(m) ==
    Layout(6, <<AppendReference(m.destination), MoreDataOctet(m.moreData)>>, 1,
           <<Data(m.data, MaxData)>>, NoOptionalPart)

UnmarshalDT1(b) ==
    {[type |-> "DT1", destination |-> destination, moreData |-> Set(more[1], 0), data |-> data] :
        destination \in Destination(b),
        more \in Slice(b, 4, 1),
        data \in Variable(b, Pointers(5, 1, 1), 0)}

AppendDT2(m) ==
    Layout(7, <<AppendReference(m.destination), AppendSequencing(m.sequencing)>>, 1,
           <<Data(m.data, MaxData)>>, NoOptionalPart)

UnmarshalDT2(b) ==
    {[type |-> "DT2", destination |-> destination, sequencing |-> sequencing, data |-> data] :
        destination \in Destination(b),
        sequencing \in FixedParam(b, 4, 2, UnmarshalSequencing),
        data \in Variable(b, Pointers(6, 1, 1), 0)}

AppendED(m) ==
    Layout(11, <<AppendReference(m.destination)>>, 1,
           <<Data(m.data, MaxExpeditedData)>>, NoOptionalPart)

UnmarshalED(b) ==
    {[type |-> "ED", destination |-> destination, data |-> data] :
        destination \in Destination(b), data \in Variable(b, Pointers(4, 1, 1), 0)}

(* P(R) is in bits 8 to 2 of its octet.                                    *)
AppendAK(m) ==
    Layout(8, <<AppendReference(m.destination), When(m.receive <= 127, <<2 * m.receive>>),
                AppendCredit(m.credit)>>, 1, <<>>, NoOptionalPart)

UnmarshalAK(b) ==
    {[type |-> "AK", destination |-> destination, receive |-> Bits(receive[1], 1, 7),
      credit |-> credit] :
        destination \in Destination(b),
        receive \in Slice(b, 4, 1),
        credit \in FixedParam(b, 5, 1, UnmarshalOctet)}

-----------------------------------------------------------------------------
(* RSR and ERR have a pointer to an optional part of which no parameter is *)
(* defined.                                                                *)

AppendRSR(m) ==
    Layout(13, References(m) \o <<Cause(m.cause)>>, 1, <<>>,
           OptionalPart(<<Raws(m.unrecognized, {})>>))

UnmarshalRSR(b) ==
    {[type |-> "RSR", destination |-> destination, source |-> source, cause |-> cause,
      unrecognized |-> raws] :
        destination \in Destination(b), source \in Source(b),
        cause \in FixedParam(b, 7, 1, UnmarshalOctet),
        raws \in OptionalOf(b, Pointers(8, 1, 1), 0, {})}

AppendERR(m) ==
    Layout(15, <<AppendReference(m.destination), Cause(m.cause)>>, 1, <<>>,
           OptionalPart(<<Raws(m.unrecognized, {})>>))

UnmarshalERR(b) ==
    {[type |-> "ERR", destination |-> destination, cause |-> cause, unrecognized |-> raws] :
        destination \in Destination(b),
        cause \in FixedParam(b, 4, 1, UnmarshalOctet),
        raws \in OptionalOf(b, Pointers(5, 1, 1), 0, {})}

AppendIT(m) ==
    Layout(16, References(m) \o <<ConnectionOrientedClass(m.class),
                                  AppendSequencing(m.sequencing), AppendCredit(m.credit)>>,
           1, <<>>, NoOptionalPart)

UnmarshalIT(b) ==
    {[type |-> "IT", destination |-> destination, source |-> source, class |-> class,
      sequencing |-> sequencing, credit |-> credit] :
        destination \in Destination(b), source \in Source(b),
        class \in FixedParam(b, 7, 1, UnmarshalClass),
        sequencing \in FixedParam(b, 8, 2, UnmarshalSequencing),
        credit \in FixedParam(b, 10, 1, UnmarshalOctet)}

=============================================================================
