------------------------- MODULE ManagementMessages -------------------------
(***************************************************************************)
(* The SCCP management messages (scmg.go), which travel as the user data   *)
(* of a UDT, XUDT or LUDT.  A Stack neither sends nor examines them.       *)
(***************************************************************************)
EXTENDS Parameters

SCMGType == 1 .. 6
SSC == 6

(* The services a congestion level applies to: both, or one of the two.    *)
SCCPService == 0 .. 2
Both == 0

ValidSCMG(s) ==
    /\ s.type \in SCMGType
    /\ s.affectedPointCode <= MaxPointCode
    /\ s.multiplicity <= 3
    /\ s.affectedService \in SCCPService
    /\ IF s.type = SSC THEN s.congestionLevel \in 1 .. 8
       ELSE s.congestionLevel = 0 /\ s.affectedService = Both

AppendSCMG(s) ==
    When(ValidSCMG(s),
         <<s.type, s.affectedSSN, s.affectedPointCode % 256, s.affectedPointCode \div 256,
           s.multiplicity>>
         \o (IF s.type = SSC THEN <<s.congestionLevel + 16 * s.affectedService>> ELSE <<>>))

(* The reserved service decodes as both.                                   *)
UnmarshalSCMG(b) ==
    LET congested == b[1] = SSC
        service == Bits(b[6], 4, 2)
    IN IF Len(b) < 5 \/ b[1] \notin SCMGType \/ (congested /\ Len(b) < 6) THEN {} ELSE
       {[type |-> b[1], affectedSSN |-> b[2],
         affectedPointCode |-> (b[3] + 256 * b[4]) % 2 ^ 14,
         multiplicity |-> Bits(b[5], 0, 2),
         congestionLevel |-> IF congested THEN Bits(b[6], 0, 4) ELSE 0,
         affectedService |-> IF congested /\ service \in SCCPService THEN service ELSE Both]}

=============================================================================
