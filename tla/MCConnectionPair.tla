-------------------------- MODULE MCConnectionPair --------------------------
(* A small instance of ConnectionPair for TLC.                             *)
EXTENDS ConnectionPair

(* What is sent is in the MTP, and the histories of ConnectionStack are    *)
(* not read.  StaleOnlyIfFreedEarly reads the requests of all references.  *)
RequestsView ==
    <<sectionA, timerA, nextA, activeA, octetsA, lockedA, sectionB, timerB, nextB, activeB,
      octetsB, lockedB, inFlight, faults, requests, requestOfA, requestOfB, unanswered>>

(* The other properties read those of the references in use.               *)
Carried(section, requestOf) ==
    [r \in DOMAIN section |-> IF InUse(section[r]) THEN requestOf[r] ELSE NoRequest]

StateView ==
    <<sectionA, timerA, nextA, activeA, octetsA, lockedA, sectionB, timerB, nextB, activeB,
      octetsB, lockedB, inFlight, faults, requests, Carried(sectionA, requestOfA),
      Carried(sectionB, requestOfB), unanswered>>

=============================================================================
