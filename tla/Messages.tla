------------------------------ MODULE Messages ------------------------------
(***************************************************************************)
(* Marshal and ParseMessage (sccp.go): the codecs of every message type,   *)
(* behind the maximum message size and the message type code.              *)
(***************************************************************************)
EXTENDS ConnectionlessMessages, ConnectionMessages

MinMessageSize == 11
DefaultMaxMessageSize == 268
MaxBroadbandMessageSize == 4091

AppendMessage(m) ==
    CASE m.type = "CR"    -> AppendCR(m)
      [] m.type = "CC"    -> AppendCC(m)
      [] m.type = "CREF"  -> AppendCREF(m)
      [] m.type = "RLSD"  -> AppendRLSD(m)
      [] m.type = "RLC"   -> AppendRLC(m)
      [] m.type = "DT1"   -> AppendDT1(m)
      [] m.type = "DT2"   -> AppendDT2(m)
      [] m.type = "AK"    -> AppendAK(m)
      [] m.type = "UDT"   -> AppendUDT(m)
      [] m.type = "UDTS"  -> AppendUDTS(m)
      [] m.type = "ED"    -> AppendED(m)
      [] m.type = "EA"    -> AppendEA(m)
      [] m.type = "RSR"   -> AppendRSR(m)
      [] m.type = "RSC"   -> AppendRSC(m)
      [] m.type = "ERR"   -> AppendERR(m)
      [] m.type = "IT"    -> AppendIT(m)
      [] m.type = "XUDT"  -> AppendXUDT(m)
      [] m.type = "XUDTS" -> AppendXUDTS(m)
      [] m.type = "LUDT"  -> AppendLUDT(m)
      [] m.type = "LUDTS" -> AppendLUDTS(m)

(* The octets of m, if it can be encoded within `limit` octets.            *)
Marshal(m, limit) == {b \in AppendMessage(m) : Len(b) <= limit}

(* The message that b is, if its type is known and it can be decoded.      *)
ParseMessage(b) ==
    IF b = <<>> THEN {} ELSE
    CASE b[1] = 1  -> UnmarshalCR(b)
      [] b[1] = 2  -> UnmarshalCC(b)
      [] b[1] = 3  -> UnmarshalCREF(b)
      [] b[1] = 4  -> UnmarshalRLSD(b)
      [] b[1] = 5  -> UnmarshalRLC(b)
      [] b[1] = 6  -> UnmarshalDT1(b)
      [] b[1] = 7  -> UnmarshalDT2(b)
      [] b[1] = 8  -> UnmarshalAK(b)
      [] b[1] = 9  -> UnmarshalUDT(b)
      [] b[1] = 10 -> UnmarshalUDTS(b)
      [] b[1] = 11 -> UnmarshalED(b)
      [] b[1] = 12 -> UnmarshalEA(b)
      [] b[1] = 13 -> UnmarshalRSR(b)
      [] b[1] = 14 -> UnmarshalRSC(b)
      [] b[1] = 15 -> UnmarshalERR(b)
      [] b[1] = 16 -> UnmarshalIT(b)
      [] b[1] = 17 -> UnmarshalXUDT(b)
      [] b[1] = 18 -> UnmarshalXUDTS(b)
      [] b[1] = 19 -> UnmarshalLUDT(b)
      [] b[1] = 20 -> UnmarshalLUDTS(b)
      [] OTHER     -> {}

=============================================================================
