---------------------------- MODULE MessageCodec ----------------------------
(***************************************************************************)
(* The message codecs (wire.go, connectionless.go, connection_oriented.go, *)
(* sccp.go): for every message type what appendMessage writes and what     *)
(* UnmarshalBinary reads.                                                  *)
(*                                                                         *)
(* A message is a record with its type and fields, and an encoding is its  *)
(* octets.  As in Parameters an encoder or decoder is the set of what it   *)
(* returns, empty for an error; the two orders in which the code can meet  *)
(* several errors are not told apart.  A nil and an empty slice are the    *)
(* same empty sequence, as in the package comment.                         *)
(***************************************************************************)
EXTENDS Parameters, FiniteSets

-----------------------------------------------------------------------------
(* The encoder.  Layout builds a message of a mandatory fixed part, one    *)
(* pointer of `size` octets for each mandatory variable parameter and one  *)
(* for the optional part if `optional` holds one, those parameters in      *)
(* pointer order without gaps, and the optional part.  Every part is a set *)
(* of octet sequences, and a part that cannot be encoded leaves no message.*)

Tuples(parts) ==
    FoldLeft(LAMBDA tuples, part : {Append(t, p) : t \in tuples, p \in part}, {<<>>}, parts)

Concat(parts) == {FlattenSeq(t) : t \in Tuples(parts)}

LengthOf(parts) == FoldLeft(LAMBDA n, part : n + Len(part), 0, parts)

LittleEndian(v, size) == IF size = 1 THEN <<v % 256>> ELSE <<v % 256, (v \div 256) % 256>>

(* The value of pointer i, counted from its most significant octet, when   *)
(* the pointers start at offset ptrAt of a message of `end` octets.        *)
Point(ptrAt, i, size, end) == end - (ptrAt + (i - 1) * size + size - 1)

(* Fault: a pointer is written whatever it has to reach.                   *)
ReachesAnything(v, size) == TRUE

Reaches(v, size) == v <= 256 ^ size - 1

EndOfOptional == <<0>>

Finish(optionalPart) == IF optionalPart = <<>> THEN <<>> ELSE optionalPart \o EndOfOptional

(* The values of the pointers from offset ptrAt on to `params`, of which   *)
(* the first `mandatory` are mandatory parameters.                         *)
PointersTo(params, mandatory, ptrAt, size) ==
    LET start(i) == ptrAt + Len(params) * size + LengthOf(SubSeq(params, 1, i - 1))
    IN [i \in 1 .. Len(params) |->
          IF i > mandatory /\ params[i] = <<>> THEN 0 ELSE Point(ptrAt, i, size, start(i))]

Written(code, f, size, mandatory, optionalPart) ==
    LET params == mandatory \o optionalPart
        pointers == PointersTo(params, Len(mandatory), 1 + Len(f), size)
    IN When(\A i \in 1 .. Len(params) : Reaches(pointers[i], size),
            <<code>> \o f
            \o FlattenSeq([i \in 1 .. Len(params) |-> LittleEndian(pointers[i], size)])
            \o FlattenSeq(params))

Layout(code, fixed, size, variables, optional) ==
    UNION {Written(code, f, size, v, o) :
             f \in Concat(fixed), v \in Tuples(variables), o \in Tuples(optional)}

NoOptionalPart == <<>>

OptionalPart(parts) == <<{Finish(o) : o \in Concat(parts)}>>

MaxVariableLength == 255

Lengthened(contents) == {<<Len(c) % 256>> \o c : c \in {c \in contents : Len(c) <= MaxVariableLength}}

Address(a, indicatorOnlyAllowed) ==
    IF HasAddressElement(a) \/ (indicatorOnlyAllowed /\ IndicatorOnly(a))
    THEN Lengthened(AppendAddress(a)) ELSE {}

MaxData == 255
MaxLongData == 3952
MaxConnectionData == 128
MaxExpeditedData == 32

Data(data, maxLen) == IF Len(data) \in 1 .. maxLen THEN Lengthened({data}) ELSE {}

LongData(data) ==
    When(Len(data) \in 1 .. MaxLongData, LittleEndian(Len(data), 2) \o data)

(* An optional parameter: nothing when it is absent.                       *)
Optional(name, option, Encode(_)) ==
    IF option = {} THEN {<<>>}
    ELSE {<<name>> \o c : c \in Lengthened(UNION {Encode(v) : v \in option})}

OptionalAddress(name, option) ==
    IF \A a \in option : HasAddressElement(a) THEN Optional(name, option, AppendAddress) ELSE {}

OptionalData(data) ==
    IF Len(data) > MaxConnectionData THEN {}
    ELSE Optional(15, IF data = <<>> THEN {} ELSE {data}, LAMBDA d : {d})

Raw(r, recognized) ==
    IF r.code \in {0, 255} \cup recognized THEN {}
    ELSE Optional(r.code, {r.value}, LAMBDA v : {v})

Raws(raws, recognized) == Concat([i \in DOMAIN raws |-> Raw(raws[i], recognized)])

Cause(c) == When(c # 255, <<c>>)

ConnectionlessClass(p) == IF p.class <= 1 THEN AppendClass(p) ELSE {}

ConnectionOrientedClass(p) == IF p.class >= 2 THEN AppendClass(p) ELSE {}

IsSegment(segmentation) == \E s \in segmentation : ~ s.first \/ s.remaining > 0

(* Encodes nothing, if the class is that of a segment.                     *)
SegmentClass(p, segmentation) == When(IsSegment(segmentation) => p.class = 1, <<>>)

-----------------------------------------------------------------------------
(* The decoder.  Offsets count from 0, so that b[t + 1] is the octet at t. *)

(* Fault: of octets that run past the end of the message, those there are. *)
SliceThereIs(b, from, n) ==
    When(from <= Len(b), SubSeq(b, from + 1, IF from + n <= Len(b) THEN from + n ELSE Len(b)))

Slice(b, from, n) == When(from + n <= Len(b), SubSeq(b, from + 1, from + n))

(* A field of n octets of the fixed part, decoded.                         *)
FixedParam(b, off, n, Decode(_)) == UNION {Decode(v) : v \in Slice(b, off, n)}

(* The pointers of a message: `count` of `size` octets from offset at.     *)
Pointers(at, count, size) == [at |-> at, size |-> size, end |-> at + count * size]

PointerValue(b, p, i) ==
    LET at == p.at + i * p.size
    IN IF p.size = 1 THEN b[at + 1] ELSE b[at + 1] + 256 * b[at + 2]

PointsTo(b, p, i) == p.at + i * p.size + p.size - 1 + PointerValue(b, p, i)

(* Where a pointer that is not zero leads, in a message that holds them.   *)
Target(b, p, i) ==
    IF p.end > Len(b) THEN {}
    ELSE When(PointsTo(b, p, i) \in p.end .. Len(b), PointsTo(b, p, i))

MandatoryTarget(b, p, i) ==
    {t \in Target(b, p, i) : PointerValue(b, p, i) # 0 /\ t < Len(b)}

Variable(b, p, i) == UNION {Slice(b, t + 1, b[t + 1]) : t \in MandatoryTarget(b, p, i)}

VariableParam(b, p, i, Decode(_)) == UNION {Decode(v) : v \in Variable(b, p, i)}

LongVariable(b, p, i) ==
    UNION {Slice(b, t + 2, b[t + 1] + 256 * b[t + 2]) :
             t \in {t \in MandatoryTarget(b, p, i) : t + 2 <= Len(b)}}

(* The parameters of the optional part from offset t on, up to the end of  *)
(* optional parameters octet or the end of the message.                    *)
OptionalParameters(b, from) ==
    LET scan[t \in 0 .. Len(b)] ==
            IF t = Len(b) \/ b[t + 1] = 0 THEN {<<>>}
            ELSE IF t + 2 > Len(b) \/ t + 2 + b[t + 2] > Len(b) THEN {}
            ELSE {<<[code |-> b[t + 1], value |-> SubSeq(b, t + 3, t + 2 + b[t + 2])]>> \o rest :
                    rest \in scan[t + 2 + b[t + 2]]}
    IN scan[from]

Twice(parameters, code) == Cardinality({i \in DOMAIN parameters : parameters[i].code = code}) > 1

(* The optional part pointer i leads to, empty if the pointer is zero; no  *)
(* recognised parameter may appear twice.                                  *)
OptionalOf(b, p, i, recognized) ==
    IF p.end > Len(b) THEN {}
    ELSE IF PointerValue(b, p, i) = 0 THEN {<<>>}
    ELSE {o \in UNION {OptionalParameters(b, t) : t \in Target(b, p, i)} :
            \A code \in recognized : ~ Twice(o, code)}

Named(o, name) == {o[i].value : i \in {i \in DOMAIN o : o[i].code = name}}

(* A recognised parameter of the optional part, decoded: each value of the *)
(* field is the set of what is present.                                    *)
OptionalValue(parts, name, Decode(_)) ==
    UNION {IF Named(o, name) = {} THEN {{}}
           ELSE {{v} : v \in UNION {Decode(x) : x \in Named(o, name)}} : o \in parts}

OptionalBytes(parts) == {The(Named(o, 15), <<>>) : o \in parts}

Unrecognized(parts, recognized) ==
    {SelectSeq(o, LAMBDA r : r.code \notin recognized) : o \in parts}

=============================================================================
