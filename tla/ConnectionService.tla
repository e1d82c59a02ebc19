------------------------- MODULE ConnectionService -------------------------
(***************************************************************************)
(* What the connection-oriented procedures of one Stack promise their      *)
(* user, without messages, timers or a clock.  A local reference is free,  *)
(* carries one connection through its life, is then frozen, and only after *)
(* that free again (stack doc comments; docs/standards.md, "Connection-    *)
(* oriented").                                                             *)
(*                                                                         *)
(*   free ----> calling ---> open ----> closing ---> frozen ---> free      *)
(*        \---> called  --/                                                *)
(*                                                                         *)
(* A connection that ends from any phase goes to closing (a release is     *)
(* under way) or straight to frozen.  ConnectionStack implements this.     *)
(***************************************************************************)
EXTENDS Naturals, FiniteSets

CONSTANTS Ref,              \* the local references
          MaxConnections    \* bound on connections that are not frozen

VARIABLE phase              \* phase[r]: what the user can expect of r

Phases == {"free", "calling", "called", "open", "closing", "frozen"}

TypeOK == phase \in [Ref -> Phases]

(* The references that count against MaxConnections. *)
InUse == {r \in Ref : phase[r] \notin {"free", "frozen"}}

-----------------------------------------------------------------------------

Init == phase = [r \in Ref |-> "free"]

Become(r, p) == phase' = [phase EXCEPT ![r] = p]

(* The user requests a connection, or is told of a peer's request. *)
Begin(r) ==
    /\ phase[r] = "free"
    /\ Cardinality(InUse) < MaxConnections
    /\ \/ Become(r, "calling")
       \/ Become(r, "called")

(* The peer confirms the user's request, or the user accepts the peer's. *)
Open(r) ==
    /\ phase[r] \in {"calling", "called"}
    /\ Become(r, "open")

(* Either side lets go of a connection, at any point of its life. *)
Close(r) ==
    /\ phase[r] \in {"calling", "called", "open"}
    /\ \/ Become(r, "closing")
       \/ Become(r, "frozen")

Freeze(r) ==
    /\ phase[r] = "closing"
    /\ Become(r, "frozen")

Thaw(r) ==
    /\ phase[r] = "frozen"
    /\ Become(r, "free")

Next == \E r \in Ref : Begin(r) \/ Open(r) \/ Close(r) \/ Freeze(r) \/ Thaw(r)

Spec == Init /\ [][Next]_phase

=============================================================================
