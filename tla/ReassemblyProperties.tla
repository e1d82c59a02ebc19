------------------------ MODULE ReassemblyProperties ------------------------
(***************************************************************************)
(* What the reassembly procedures of Reassembly must keep, whatever        *)
(* segments arrive.                                                        *)
(***************************************************************************)
EXTENDS Reassembly, Sums

Entries == stack.reassemblies

Processes == {k \in DOMAIN Entries : ~Entries[k].failed}

Records == {k \in DOMAIN Entries : Entries[k].failed}

(* Every variable has the shape the code gives it.                         *)
TypeOK ==
    /\ DOMAIN Entries \subseteq Key
    /\ \A k \in Processes : Entries[k] \in Process
    /\ \A k \in Records : Entries[k] \in Record
    /\ stack.timers \subseteq Timer
    /\ stack.slots \in Nat /\ stack.orphans \in Nat /\ stack.octets \in Nat
    /\ stack.peerOctets \in [Peers -> Nat]
    /\ locked \in BOOLEAN
    /\ lag \in 0 .. MaxLag
    /\ recordAge \in [Key -> Nat]

(* A slot holds a process or the record of one that failed, and the other  *)
(* records are the orphans: both counts, kept by hand on five paths, are   *)
(* exact and within MaxReassemblies (reassemble, rejectSegment,            *)
(* endReassembly).                                                         *)
SlotsCounted ==
    LET orphans == {k \in Records : Entries[k].orphan}
    IN  /\ stack.orphans = Cardinality(orphans)
        /\ stack.slots = Cardinality(DOMAIN Entries \ orphans)
        /\ stack.orphans <= MaxReassemblies
        /\ stack.slots <= MaxReassemblies

(* The octets accounted in total and by peer are those the processes hold, *)
(* within both bounds (hold and its callers).                              *)
OctetsCounted ==
    LET held(keys) == SumOver([k \in keys |-> Entries[k].len], keys)
    IN  /\ stack.octets = held(Processes)
        /\ stack.octets <= MaxReassemblyOctets
        /\ \A p \in Peers :
              /\ stack.peerOctets[p] = held({k \in Processes : k.peer = p})
              /\ MaxReassemblyOctetsPerPeer # 0 =>
                    stack.peerOctets[p] <= MaxReassemblyOctetsPerPeer

(* Each process and each record has its own timer and no timer is left of  *)
(* one that is gone: its callback would run failReassembly on another      *)
(* message, or on none (stop in endReassembly and failReassembly).         *)
TimersMatch ==
    /\ \A t \in stack.timers :
          Known(stack, t.key) /\ t.kind = IF Entries[t.key].failed THEN "record" ELSE "process"
    /\ \A k \in DOMAIN Entries : Cardinality({t \in stack.timers : t.key = k}) = 1

(* The segments a process has and the one it waits for make up its         *)
(* message: expected neither wraps nor runs ahead, and the message stays   *)
(* within its bounds (reassemble, ITU-T Q.714 4.1.1.2).                    *)
ProcessesConsistent ==
    \A k \in Processes : LET p == Entries[k] IN
        /\ Len(p.data) + p.expected = p.first.remaining
        /\ p.data[1] = p.first.content
        /\ p.len <= Bound(p) /\ (Len(p.data) > 1 => p.len <= MaxLongData)
        /\ p.len >= p.first.len + Len(p.data) - 1

(* A failed message is remembered for T(reassembly), less the age of a     *)
(* clock reading, unless another message starts with its reference: "A     *)
(* record is never ended early to make room" (unitdata.go, above           *)
(* rejectSegment).                                                         *)
RecordsLast ==
    [][\A k \in Records :
          \/ Known(stack', k) /\ stack'.reassemblies[k] = Entries[k]
          \/ recordAge[k] >= ReassemblyTimeout - MaxLag
          \/ /\ arrived'.first /\ arrived'.key = k
             /\ Entries[k].hash \notin {NoHash, SegmentHash(arrived')}]_vars

(* A process ends within T(reassembly) whatever arrives, and so does the   *)
(* record of a message whose first segment never came: neither keeps its   *)
(* place for ever.                                                         *)
Unstarted(k) == Failed(stack, k) /\ Entries[k].hash = NoHash

ReassembliesEnd ==
    \A k \in Key :
        /\ InProgress(stack, k) ~> ~InProgress(stack, k)
        /\ Unstarted(k) ~> ~Unstarted(k)

=============================================================================
