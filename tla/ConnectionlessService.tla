----------------------- MODULE ConnectionlessService -----------------------
(***************************************************************************)
(* What connectionless data transfer with return on error promises, with   *)
(* no segments, references, timers or clock: the outcome of each message.  *)
(*                                                                         *)
(* A message may be lost at any time.  A delivered one is delivered again, *)
(* or returned after all, only when the network has repeated something.    *)
(* Once a message is returned it is never delivered and never returned     *)
(* again, whatever the network repeats.  SegmentedTransfer implements      *)
(* this.                                                                   *)
(***************************************************************************)
EXTENDS Naturals

CONSTANT Messages

VARIABLES
    sent,        \* the messages that were sent
    returned,    \* returned[m]: 1 when m was returned
    delivered,   \* delivered[m]: 1 when m was delivered, 2 when more than once
    repeated     \* the network has repeated something

vars == <<sent, returned, delivered, repeated>>

TypeOK ==
    /\ sent \subseteq Messages
    /\ returned \in [Messages -> 0 .. 1]
    /\ delivered \in [Messages -> 0 .. 2]
    /\ repeated \in BOOLEAN

-----------------------------------------------------------------------------
Init ==
    /\ sent = {}
    /\ returned = [m \in Messages |-> 0]
    /\ delivered = [m \in Messages |-> 0]
    /\ repeated = FALSE

Send(m) ==
    /\ m \notin sent
    /\ sent' = sent \cup {m}
    /\ UNCHANGED <<returned, delivered>>

(* The outcome of m is still open.                                         *)
Pending(m) ==
    /\ m \in sent
    /\ returned[m] = 0
    /\ delivered[m] = 0 \/ repeated

Deliver(m) ==
    /\ Pending(m)
    /\ delivered' = [delivered EXCEPT ![m] = IF @ = 0 THEN 1 ELSE 2]
    /\ UNCHANGED <<sent, returned>>

Return(m) ==
    /\ Pending(m)
    /\ returned' = [returned EXCEPT ![m] = 1]
    /\ UNCHANGED <<sent, delivered>>

Next ==
    /\ UNCHANGED repeated \/ repeated'
    /\ \/ \E m \in Messages : Send(m) \/ Deliver(m) \/ Return(m)
       \/ UNCHANGED <<sent, returned, delivered>>

Spec == Init /\ [][Next]_vars

=============================================================================
