----------------------- MODULE ConnectionlessMessages -----------------------
(***************************************************************************)
(* The connectionless messages (connectionless.go).                        *)
(***************************************************************************)
EXTENDS MessageCodec

SegmentationImportance == {16, 18}

SegmentationImportancePart(m) ==
    OptionalPart(<<Optional(16, m.segmentation, AppendSegmentation),
                   Optional(18, m.importance, AppendImportance),
                   Raws(m.unrecognized, SegmentationImportance)>>)

-----------------------------------------------------------------------------
AppendUDT(m) ==
    Layout(9, <<ConnectionlessClass(m.class)>>, 1,
           <<Address(m.called, FALSE), Address(m.calling, TRUE), Data(m.data, MaxData)>>,
           NoOptionalPart)

UnmarshalUDT(b) ==
    LET p == Pointers(2, 3, 1)
    IN {[type |-> "UDT", class |-> class, called |-> called, calling |-> calling,
         data |-> data] :
          class \in FixedParam(b, 1, 1, UnmarshalClass),
          called \in VariableParam(b, p, 0, UnmarshalAddress),
          calling \in VariableParam(b, p, 1, UnmarshalAddress),
          data \in Variable(b, p, 2)}

AppendUDTS(m) ==
    Layout(10, <<Cause(m.cause)>>, 1,
           <<Address(m.called, FALSE), Address(m.calling, FALSE), Data(m.data, MaxData)>>,
           NoOptionalPart)

UnmarshalUDTS(b) ==
    LET p == Pointers(2, 3, 1)
    IN {[type |-> "UDTS", cause |-> cause, called |-> called, calling |-> calling,
         data |-> data] :
          cause \in FixedParam(b, 1, 1, UnmarshalOctet),
          called \in VariableParam(b, p, 0, UnmarshalAddress),
          calling \in VariableParam(b, p, 1, UnmarshalAddress),
          data \in Variable(b, p, 2)}

AppendXUDT(m) ==
    Layout(17, <<ConnectionlessClass(m.class), SegmentClass(m.class, m.segmentation),
                 AppendHopCounter(m.hopCounter)>>, 1,
           <<Address(m.called, FALSE), Address(m.calling, TRUE), Data(m.data, MaxData)>>,
           SegmentationImportancePart(m))

UnmarshalXUDT(b) ==
    LET p == Pointers(3, 4, 1)
        o == OptionalOf(b, p, 3, SegmentationImportance)
    IN {[type |-> "XUDT", class |-> class, hopCounter |-> hop, called |-> called,
         calling |-> calling, data |-> data, segmentation |-> segmentation,
         importance |-> importance, unrecognized |-> raws] :
          class \in FixedParam(b, 1, 1, UnmarshalClass),
          hop \in FixedParam(b, 2, 1, UnmarshalOctet),
          called \in VariableParam(b, p, 0, UnmarshalAddress),
          calling \in VariableParam(b, p, 1, UnmarshalAddress),
          data \in Variable(b, p, 2),
          segmentation \in OptionalValue(o, 16, UnmarshalSegmentation),
          importance \in OptionalValue(o, 18, UnmarshalImportance),
          raws \in Unrecognized(o, SegmentationImportance)}

AppendXUDTS(m) ==
    Layout(18, <<Cause(m.cause), AppendHopCounter(m.hopCounter)>>, 1,
           <<Address(m.called, FALSE), Address(m.calling, FALSE), Data(m.data, MaxData)>>,
           SegmentationImportancePart(m))

UnmarshalXUDTS(b) ==
    LET p == Pointers(3, 4, 1)
        o == OptionalOf(b, p, 3, SegmentationImportance)
    IN {[type |-> "XUDTS", cause |-> cause, hopCounter |-> hop, called |-> called,
         calling |-> calling, data |-> data, segmentation |-> segmentation,
         importance |-> importance, unrecognized |-> raws] :
          cause \in FixedParam(b, 1, 1, UnmarshalOctet),
          hop \in FixedParam(b, 2, 1, UnmarshalOctet),
          called \in VariableParam(b, p, 0, UnmarshalAddress),
          calling \in VariableParam(b, p, 1, UnmarshalAddress),
          data \in Variable(b, p, 2),
          segmentation \in OptionalValue(o, 16, UnmarshalSegmentation),
          importance \in OptionalValue(o, 18, UnmarshalImportance),
          raws \in Unrecognized(o, SegmentationImportance)}

(* The long messages have pointers and a length of the data of two octets. *)
AppendLUDT(m) ==
    Layout(19, <<ConnectionlessClass(m.class), SegmentClass(m.class, m.segmentation),
                 AppendHopCounter(m.hopCounter)>>, 2,
           <<Address(m.called, FALSE), Address(m.calling, FALSE), LongData(m.data)>>,
           SegmentationImportancePart(m))

UnmarshalLUDT(b) ==
    LET p == Pointers(3, 4, 2)
        o == OptionalOf(b, p, 3, SegmentationImportance)
    IN {[type |-> "LUDT", class |-> class, hopCounter |-> hop, called |-> called,
         calling |-> calling, data |-> data, segmentation |-> segmentation,
         importance |-> importance, unrecognized |-> raws] :
          class \in FixedParam(b, 1, 1, UnmarshalClass),
          hop \in FixedParam(b, 2, 1, UnmarshalOctet),
          called \in VariableParam(b, p, 0, UnmarshalAddress),
          calling \in VariableParam(b, p, 1, UnmarshalAddress),
          data \in LongVariable(b, p, 2),
          segmentation \in OptionalValue(o, 16, UnmarshalSegmentation),
          importance \in OptionalValue(o, 18, UnmarshalImportance),
          raws \in Unrecognized(o, SegmentationImportance)}

AppendLUDTS(m) ==
    Layout(20, <<Cause(m.cause), AppendHopCounter(m.hopCounter)>>, 2,
           <<Address(m.called, FALSE), Address(m.calling, FALSE), LongData(m.data)>>,
           SegmentationImportancePart(m))

UnmarshalLUDTS(b) ==
    LET p == Pointers(3, 4, 2)
        o == OptionalOf(b, p, 3, SegmentationImportance)
    IN {[type |-> "LUDTS", cause |-> cause, hopCounter |-> hop, called |-> called,
         calling |-> calling, data |-> data, segmentation |-> segmentation,
         importance |-> importance, unrecognized |-> raws] :
          cause \in FixedParam(b, 1, 1, UnmarshalOctet),
          hop \in FixedParam(b, 2, 1, UnmarshalOctet),
          called \in VariableParam(b, p, 0, UnmarshalAddress),
          calling \in VariableParam(b, p, 1, UnmarshalAddress),
          data \in LongVariable(b, p, 2),
          segmentation \in OptionalValue(o, 16, UnmarshalSegmentation),
          importance \in OptionalValue(o, 18, UnmarshalImportance),
          raws \in Unrecognized(o, SegmentationImportance)}

=============================================================================
