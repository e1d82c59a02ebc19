------------------------- MODULE MessageProperties -------------------------
(***************************************************************************)
(* What the codecs and the connectionless handlers promise.                *)
(***************************************************************************)
EXTENDS MessageHandling, ManagementMessages

(* sccp.go promises that a message decoded from the output of a successful *)
(* encoding equals the message encoded: nothing is masked, wrapped or      *)
(* truncated, whichever optional parts are present and however long the    *)
(* parameters are.  So it is for what the stack itself sends, which also   *)
(* keeps within its maximum message size; the dialled digits of a global   *)
(* title and the management message in the user data come back with it.    *)
RoundTrip ==
    /\ fault = "none" =>
         \A b \in wire :
            /\ ParseMessage(b) = {case.message}
            /\ \A signals \in case.signals :
                  \A g \in case.message.called.globalTitle : Digits(g) = {signals}
            /\ \A scmg \in case.scmg : UnmarshalSCMG(case.message.data) = {scmg}
    /\ \A i \in DOMAIN result.transfers :
         /\ ParseMessage(result.transfers[i].octets) = {result.transfers[i].message}
         /\ Len(result.transfers[i].octets) <= case.maxMessageSize

OptionalFields(type) ==
    CASE type = "CR"   -> {"credit", "calling", "data", "hopCounter", "importance"}
      [] type = "CC"   -> {"credit", "called", "data", "importance"}
      [] type = "CREF" -> {"called", "data", "importance"}
      [] type = "RLSD" -> {"data", "importance"}
      [] OTHER         -> {"segmentation", "importance"}

(* m is `whole` without some of its optional parameters.                   *)
Shortened(m, whole) ==
    /\ m.type = whole.type
    /\ \A field \in DOMAIN m :
         CASE field = "unrecognized" -> IsPrefix(m[field], whole[field])
           [] field = "data"         -> \/ m[field] = whole[field]
                                        \/ m[field] = <<>> /\ "data" \in OptionalFields(m.type)
           [] field \in OptionalFields(m.type) \ {"data"} -> m[field] \in {{}, whole[field]}
           [] OTHER                  -> m[field] = whole[field]

(* A message cut short is refused or loses optional parameters at its end: *)
(* the decoder, which needs no end of optional parameters octet, never     *)
(* takes it for a message with another mandatory parameter or with half of *)
(* an optional one.                                                        *)
CutLosesOptionalsOnly ==
    fault = "cut" =>
        \A b \in wire : \A m \in ParseMessage(b) : Shortened(m, case.message)

(* What FuzzParseMessage samples: whatever octets arrive, a message the    *)
(* decoder makes of them and the encoder accepts decodes to itself, so     *)
(* that gaps, overlaps and unknown parameters are read in one way only.    *)
ReencodingStable ==
    \A b \in wire : \A m \in ParseMessage(b) :
        \A again \in Marshal(m, MaxBroadbandMessageSize) : ParseMessage(again) = {m}

(* fitReturn says that fitting is monotonic in the length, which its       *)
(* bisection needs.  With pointers of one octet, lengths of one or two and *)
(* the segmentation parameter after the data: what is returned is the      *)
(* longest prefix of the user data for which the service message can be    *)
(* encoded within the maximum message size.                                *)
LongestReturned ==
    \A sent \in {result.transfers[i].message : i \in DOMAIN result.transfers} :
        LET received == CHOOSE m \in UNION {ParseMessage(b) : b \in wire} : TRUE
        IN /\ IsPrefix(sent.data, received.data)
           /\ \A n \in Len(sent.data) + 1 .. Len(received.data) :
                Marshal([sent EXCEPT !.data = SubSeq(received.data, 1, n)],
                        case.maxMessageSize) = {}

Asked(m) == m.type \in Unitdata /\ m.class.returnOnError

(* Every message that is handled is delivered, discarded or handed on, and *)
(* never two of these.  At most one message is sent for it, and only if it *)
(* asked for return on error and was discarded, which is reported once.    *)
OneFate ==
    handled =>
        LET delivered == {i \in DOMAIN result.indications :
                            result.indications[i].type \in {"unitdata", "notice"}}
            parsed == UNION {ParseMessage(b) : b \in wire}
            discards == Len(result.discards)
            transfers == Len(result.transfers)
        IN /\ Cardinality(delivered) + Flag(discards > 0, 1) + Flag(result.handed # "none", 1) = 1
           /\ transfers <= 1
           /\ transfers > 0 => discards = 1 /\ \E m \in parsed : Asked(m)

(* A message that asked for its return and cannot be delivered comes back  *)
(* whenever some of its data fits a service message that may carry it, the *)
(* cause being one octet whichever it is; it is reported a second time if  *)
(* and only if nothing fits.  No other message is sent back or reported    *)
(* twice: unitdata.go reports the second time that the return failed.      *)
ReturnedOrReported ==
    \A m \in UNION {ParseMessage(b) : b \in wire} :
        LET undeliverable == \E i \in DOMAIN result.discards :
                                result.discards[i].reason = "undeliverable"
            due == Asked(m) /\ undeliverable
            fits == \E type \in ServiceTypes(m), n \in 1 .. Len(m.data) :
                       Built(type, m, NoTranslation, case.maxMessageSize, n) # {}
        IN /\ Len(result.transfers) = 1 <=> due /\ fits
           /\ Len(result.discards) = 2 <=> due /\ ~ fits

=============================================================================
