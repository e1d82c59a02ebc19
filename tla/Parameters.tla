----------------------------- MODULE Parameters -----------------------------
(***************************************************************************)
(* The contents of the SCCP parameters (address.go and fields.go in params)*)
(* as sequences of octets.                                                 *)
(*                                                                         *)
(* An encoder that may refuse its value is the set of the octet sequences  *)
(* it returns: one, or none.  A decoder is the set of the values it        *)
(* returns, in the same way.  An optional field is the set of its value,   *)
(* empty when it is absent.  The message of an error is left out.          *)
(***************************************************************************)
EXTENDS Integers, Sequences, SequencesExt

Octet == 0 .. 255

When(condition, value) == IF condition THEN {value} ELSE {}

Flag(condition, value) == IF condition THEN value ELSE 0

(* The n bits of octet from bit `low`, counted from 0.                     *)
Bits(octet, low, n) == (octet \div 2 ^ low) % 2 ^ n

Set(octet, bit) == Bits(octet, bit, 1) = 1

From(b, n) == SubSeq(b, n + 1, Len(b))

-----------------------------------------------------------------------------
(* BCD address signals: two to an octet, the first in the low half.        *)

SignalValues == (0 .. 9) \cup {11, 12, 15}

EncodeBCD(signals) ==
    When(\A i \in DOMAIN signals : signals[i] \in SignalValues,
         [i \in 1 .. (Len(signals) + 1) \div 2 |->
            signals[2 * i - 1] + 16 * IF 2 * i <= Len(signals) THEN signals[2 * i] ELSE 0])

DecodeBCD(addr, odd) ==
    When(~ (odd /\ addr = <<>>),
         [i \in 1 .. 2 * Len(addr) - Flag(odd, 1) |->
            Bits(addr[(i + 1) \div 2], IF i % 2 = 1 THEN 0 ELSE 4, 4)])

-----------------------------------------------------------------------------
(* Global titles.  The fields an indicator has: of `nature` the odd/even   *)
(* bit belongs to indicator 1 alone.  Indicators 5 to 15 have no format.   *)

TitleHas(indicator, field) ==
    CASE field = "translationType" -> indicator \in {2, 3, 4}
      [] field = "plan"            -> indicator \in {3, 4}
      [] field = "nature"          -> indicator \in {1, 4}
      [] field = "odd"             -> indicator = 1

ValidTitle(g) ==
    /\ g.indicator \in 1 .. 15
    /\ TitleHas(g.indicator, "translationType") \/ g.translationType = 0
    /\ TitleHas(g.indicator, "plan") \/ (g.numberingPlan = 0 /\ g.encodingScheme = 0)
    /\ TitleHas(g.indicator, "nature") \/ g.nature = 0
    /\ TitleHas(g.indicator, "odd") \/ ~ g.oddDigits
    /\ g.numberingPlan <= 15 /\ g.encodingScheme <= 15 /\ g.nature <= 127

BCDScheme(odd) == IF odd THEN 1 ELSE 2

NewGlobalTitle3(translationType, plan, signals) ==
    {g \in {[indicator |-> 3, translationType |-> translationType, numberingPlan |-> plan,
             encodingScheme |-> BCDScheme(Len(signals) % 2 = 1), nature |-> 0,
             oddDigits |-> FALSE, information |-> addr] : addr \in EncodeBCD(signals)} :
        ValidTitle(g)}

NewGlobalTitle4(translationType, plan, nature, signals) ==
    {g \in {[indicator |-> 4, translationType |-> translationType, numberingPlan |-> plan,
             encodingScheme |-> BCDScheme(Len(signals) % 2 = 1), nature |-> nature,
             oddDigits |-> FALSE, information |-> addr] : addr \in EncodeBCD(signals)} :
        ValidTitle(g)}

NewGlobalTitle1(nature, signals) ==
    {g \in {[indicator |-> 1, translationType |-> 0, numberingPlan |-> 0,
             encodingScheme |-> 0, nature |-> nature, oddDigits |-> Len(signals) % 2 = 1,
             information |-> addr] : addr \in EncodeBCD(signals)} : ValidTitle(g)}

Digits(g) ==
    LET byScheme == g.indicator \in {3, 4}
        odd == IF byScheme THEN g.encodingScheme = BCDScheme(TRUE) ELSE g.oddDigits
    IN IF g.indicator = 1 \/ (byScheme /\ g.encodingScheme \in {1, 2})
       THEN DecodeBCD(g.information, odd) ELSE {}

PlanOctet(g) == 16 * g.numberingPlan + g.encodingScheme

AppendTitle(g) ==
    CASE g.indicator = 1 -> <<g.nature + Flag(g.oddDigits, 128)>> \o g.information
      [] g.indicator = 2 -> <<g.translationType>> \o g.information
      [] g.indicator = 3 -> <<g.translationType, PlanOctet(g)>> \o g.information
      [] g.indicator = 4 -> <<g.translationType, PlanOctet(g), g.nature>> \o g.information
      [] OTHER           -> g.information

TitleHeader(indicator) ==
    CASE indicator \in {1, 2} -> 1 [] indicator = 3 -> 2 [] indicator = 4 -> 3 [] OTHER -> 0

UnmarshalTitle(indicator, b) ==
    LET Has(field) == TitleHas(indicator, field)
        natureOctet == b[TitleHeader(indicator)]
    IN IF Len(b) < TitleHeader(indicator) THEN {} ELSE
       {[indicator |-> indicator,
         translationType |-> IF Has("translationType") THEN b[1] ELSE 0,
         numberingPlan |-> IF Has("plan") THEN Bits(b[2], 4, 4) ELSE 0,
         encodingScheme |-> IF Has("plan") THEN Bits(b[2], 0, 4) ELSE 0,
         nature |-> IF Has("nature") THEN Bits(natureOctet, 0, 7) ELSE 0,
         oddDigits |-> Has("odd") /\ Set(natureOctet, 7),
         information |-> From(b, TitleHeader(indicator))]}

-----------------------------------------------------------------------------
(* Party addresses.  A point code has 14 bits, its octets the lower first. *)

MaxPointCode == 2 ^ 14 - 1

NewSSNAddress(ssn) ==
    [routeOnSSN |-> TRUE, nationalUse |-> FALSE, pointCode |-> {}, ssn |-> {ssn},
     globalTitle |-> {}]

NewPointCodeAddress(pc, ssn) == [NewSSNAddress(ssn) EXCEPT !.pointCode = {pc}]

NewGlobalTitleAddress(title, ssn) ==
    [NewSSNAddress(ssn) EXCEPT !.routeOnSSN = FALSE, !.globalTitle = {title}]

(* The only value of a one-element set, or another.                        *)
The(option, default) == IF option = {} THEN default ELSE CHOOSE x \in option : TRUE

AddressIndicator(a) ==
      Flag(a.pointCode # {}, 1) + Flag(a.ssn # {}, 2)
    + 4 * The({g.indicator : g \in a.globalTitle}, 0)
    + Flag(a.routeOnSSN, 64) + Flag(a.nationalUse, 128)

AppendAddress(a) ==
    When(/\ \A pc \in a.pointCode : pc <= MaxPointCode
         /\ \A g \in a.globalTitle : ValidTitle(g),
         <<AddressIndicator(a)>>
         \o The({<<pc % 256, pc \div 256>> : pc \in a.pointCode}, <<>>)
         \o The({<<ssn>> : ssn \in a.ssn}, <<>>)
         \o The({AppendTitle(g) : g \in a.globalTitle}, <<>>))

UnmarshalAddress(b) ==
    IF b = <<>> THEN {} ELSE
    LET ssnAt == IF Set(b[1], 0) THEN 4 ELSE 2
        titleAt == ssnAt + Flag(Set(b[1], 1), 1)
        indicator == Bits(b[1], 2, 4)
    IN IF Len(b) < titleAt - 1 THEN {} ELSE
       {[routeOnSSN |-> Set(b[1], 6),
         nationalUse |-> Set(b[1], 7),
         pointCode |-> IF Set(b[1], 0) THEN {(b[2] + 256 * b[3]) % 2 ^ 14} ELSE {},
         ssn |-> IF Set(b[1], 1) THEN {b[ssnAt]} ELSE {},
         globalTitle |-> title] :
            title \in IF indicator = 0 THEN {{}}
                      ELSE {{g} : g \in UnmarshalTitle(indicator, From(b, titleAt - 1))}}

HasAddressElement(a) == a.pointCode # {} \/ a.ssn # {} \/ a.globalTitle # {}

IndicatorOnly(a) == ~ a.routeOnSSN /\ ~ HasAddressElement(a)

-----------------------------------------------------------------------------
(* The parameters of one to four octets.  A decoder of a fixed length      *)
(* refuses any other (checkLength) and does not examine the spare bits.    *)

Sized(b, n, value(_)) == IF Len(b) = n THEN {value(b)} ELSE {}

Uint24(v) == <<v % 256, (v \div 256) % 256, v \div 65536>>

FromUint24(b) == b[1] + 256 * b[2] + 65536 * b[3]

Max24 == 2 ^ 24 - 1

AppendClass(p) ==
    When(p.class <= 3 /\ ~ (p.returnOnError /\ p.class > 1),
         <<p.class + Flag(p.returnOnError, 128)>>)

UnmarshalClass(b) ==
    Sized(b, 1, LAMBDA v : LET class == Bits(v[1], 0, 4)
                           IN [class |-> class,
                               returnOnError |-> class <= 1 /\ Bits(v[1], 4, 4) = 8])

(* The reference of all ones is reserved.                                  *)
AppendReference(r) == When(r < Max24, Uint24(r))

UnmarshalReference(b) == Sized(b, 3, FromUint24)

(* Fault: a window that is too large is masked, not refused.               *)
AppendCreditMasked(c) == {<<c % 128>>}

AppendCredit(c) == When(c <= 127, <<c>>)

AppendHopCounter(h) == When(h \in 1 .. 15, <<h>>)

AppendImportance(i) == When(i <= 7, <<i>>)

UnmarshalOctet(b) == Sized(b, 1, LAMBDA v : v[1])

UnmarshalImportance(b) == Sized(b, 1, LAMBDA v : Bits(v[1], 0, 3))

AppendSequencing(s) ==
    When(s.send <= 127 /\ s.receive <= 127,
         <<2 * s.send, 2 * s.receive + Flag(s.moreData, 1)>>)

UnmarshalSequencing(b) ==
    Sized(b, 2, LAMBDA v : [send |-> Bits(v[1], 1, 7), receive |-> Bits(v[2], 1, 7),
                            moreData |-> Set(v[2], 0)])

AppendSegmentation(s) ==
    When(s.remaining <= 15 /\ s.reference <= Max24,
         <<s.remaining + Flag(s.first, 128) + Flag(s.inSequence, 64)>> \o Uint24(s.reference))

UnmarshalSegmentation(b) ==
    Sized(b, 4, LAMBDA v : [first |-> Set(v[1], 7), inSequence |-> Set(v[1], 6),
                            remaining |-> Bits(v[1], 0, 4), reference |-> FromUint24(From(v, 1))])

=============================================================================
