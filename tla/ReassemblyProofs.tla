-------------------------- MODULE ReassemblyProofs --------------------------
(***************************************************************************)
(* Proofs, for every value of the constants, about Reassembly.             *)
(***************************************************************************)
EXTENDS ReassemblyProperties, SequenceTheorems, SetProofs, TLAPS

EntryMaps == UNION {[K -> Process \cup Record] : K \in SUBSET Key}

Result == [type: {"return", "unitdata"}, key: Key, data: Seq(Contents)]

(* The shape of stack, and of every record the operators make of it; that  *)
(* no account gets below zero takes the sums of Accounted.                 *)
StackRecord ==
    [reassemblies: EntryMaps, timers: SUBSET Timer, slots: Int, orphans: Int,
     octets: Int, peerOctets: [Peers -> Int], res: Seq(Result)]

Orphans(s) ==
    {k \in DOMAIN s.reassemblies : s.reassemblies[k].failed /\ s.reassemblies[k].orphan}

Slotted(s) == DOMAIN s.reassemblies \ Orphans(s)

(* SlotsCounted, of a stack.                                               *)
Counted(s) ==
    /\ IsFiniteSet(DOMAIN s.reassemblies)
    /\ s.orphans = Cardinality(Orphans(s)) /\ s.orphans <= MaxReassemblies
    /\ s.slots = Cardinality(Slotted(s)) /\ s.slots <= MaxReassemblies

Kind(s, k) == IF s.reassemblies[k].failed THEN "record" ELSE "process"

(* TimersMatch, of a stack: only a key of gaps may have no timer.          *)
Timed(s, gaps) ==
    /\ \A t \in s.timers : Known(s, t.key) /\ t.kind = Kind(s, t.key)
    /\ \A t, o \in s.timers : t.key = o.key => t = o
    /\ \A k \in DOMAIN s.reassemblies \ gaps : \E t \in s.timers : t.key = k

(* ProcessesConsistent, of a process.                                      *)
ConsistentProcess(p) ==
    /\ Len(p.data) >= 1
    /\ Len(p.data) + p.expected = p.first.remaining
    /\ p.data[1] = p.first.content
    /\ p.len <= Bound(p)
    /\ Len(p.data) > 1 => p.len <= MaxLongData
    /\ p.len >= p.first.len + Len(p.data) - 1

Consistent(s, gaps) ==
    \A k \in DOMAIN s.reassemblies \ gaps :
        ~ s.reassemblies[k].failed => ConsistentProcess(s.reassemblies[k])

(* OctetsCounted, of a stack.                                              *)
InProcess(s) == {k \in DOMAIN s.reassemblies : ~ s.reassemblies[k].failed}

InProcessOf(s, p) == {k \in InProcess(s) : k.peer = p}

Held(s, K) == SumOver([k \in K |-> s.reassemblies[k].len], K)

Share(s, k) == IF InProgress(s, k) THEN s.reassemblies[k].len ELSE 0

Accounted(s) ==
    /\ s.octets = Held(s, InProcess(s)) /\ s.octets <= MaxReassemblyOctets
    /\ \A p \in Peers :
          /\ s.peerOctets[p] = Held(s, InProcessOf(s, p))
          /\ MaxReassemblyOctetsPerPeer # 0 =>
                s.peerOctets[p] <= MaxReassemblyOctetsPerPeer

SameAccounts(s, r) == r.octets = s.octets /\ r.peerOctets = s.peerOctets

(* Hold added n for the peer p.                                            *)
Adds(s, r, p, n) ==
    /\ r.octets = s.octets + n
    /\ r.peerOctets = [s.peerOctets EXCEPT ![p] = s.peerOctets[p] + n]

(* A stack that is whole but for what the keys of gaps have: a timer was   *)
(* popped, or the last segment appended.                                   *)
WholeBut(s, gaps) ==
    /\ s \in StackRecord
    /\ Counted(s) /\ Accounted(s) /\ Timed(s, gaps) /\ Consistent(s, gaps)

Whole(s) == WholeBut(s, {})

-----------------------------------------------------------------------------
(* What the operators on maps give.                                        *)

LEMMA MapsTyped ==
    ASSUME NEW m
    PROVE  m \in EntryMaps <=> /\ DOMAIN m \subseteq Key
                               /\ m = [k \in DOMAIN m |-> m[k]]
                               /\ \A k \in DOMAIN m : m[k] \in Process \cup Record
<1>1. ASSUME m \in EntryMaps
      PROVE  /\ DOMAIN m \subseteq Key
             /\ m = [k \in DOMAIN m |-> m[k]]
             /\ \A k \in DOMAIN m : m[k] \in Process \cup Record
  <2>1. PICK K \in SUBSET Key : m \in [K -> Process \cup Record]
    BY <1>1 DEF EntryMaps
  <2> QED BY <2>1
<1>2. ASSUME DOMAIN m \subseteq Key, m = [k \in DOMAIN m |-> m[k]],
             \A k \in DOMAIN m : m[k] \in Process \cup Record
      PROVE  m \in EntryMaps
  <2>1. m \in [DOMAIN m -> Process \cup Record] BY <1>2
  <2> QED BY <1>2, <2>1 DEF EntryMaps
<1> QED BY <1>1, <1>2

LEMMA EntryKinds ==
    ASSUME NEW e \in Process \cup Record
    PROVE  /\ e.failed \in BOOLEAN
           /\ e.failed => e \in Record
           /\ ~ e.failed => e \in Process
BY DEF Process, Record

LEMMA PutMap ==
    ASSUME NEW m \in EntryMaps, NEW k \in Key, NEW e \in Process \cup Record
    PROVE  /\ Put(m, k, e) \in EntryMaps
           /\ DOMAIN Put(m, k, e) = DOMAIN m \cup {k}
           /\ Put(m, k, e)[k] = e
           /\ \A q \in DOMAIN m \ {k} : Put(m, k, e)[q] = m[q]
<1> DEFINE r == Put(m, k, e)
<1>1. r = [q \in DOMAIN m \cup {k} |-> IF q = k THEN e ELSE m[q]] BY DEF Put
<1>2. DOMAIN m \subseteq Key /\ \A q \in DOMAIN m : m[q] \in Process \cup Record
  BY MapsTyped
<1> HIDE DEF r
<1>3. DOMAIN r = DOMAIN m \cup {k} /\ r[k] = e /\ r = [q \in DOMAIN r |-> r[q]]
  BY <1>1
<1>4. \A q \in DOMAIN m \ {k} : r[q] = m[q] BY <1>1
<1>5. \A q \in DOMAIN r : r[q] \in Process \cup Record BY <1>2, <1>3, <1>4
<1>6. r \in EntryMaps BY <1>2, <1>3, <1>5, MapsTyped
<1> QED BY <1>3, <1>4, <1>6 DEF r

LEMMA RemoveMap ==
    ASSUME NEW m \in EntryMaps, NEW k
    PROVE  /\ Remove(m, k) \in EntryMaps
           /\ DOMAIN Remove(m, k) = DOMAIN m \ {k}
           /\ \A q \in DOMAIN m \ {k} : Remove(m, k)[q] = m[q]
<1> DEFINE r == Remove(m, k)
<1>1. r = [q \in DOMAIN m \ {k} |-> m[q]] BY DEF Remove
<1>2. DOMAIN m \subseteq Key /\ \A q \in DOMAIN m : m[q] \in Process \cup Record
  BY MapsTyped
<1> HIDE DEF r
<1>3. DOMAIN r = DOMAIN m \ {k} /\ r = [q \in DOMAIN r |-> r[q]] BY <1>1
<1>4. \A q \in DOMAIN m \ {k} : r[q] = m[q] BY <1>1
<1>5. r \in EntryMaps BY <1>2, <1>3, <1>4, MapsTyped
<1> QED BY <1>3, <1>4, <1>5 DEF r

LEMMA ReplaceMap ==
    ASSUME NEW m \in EntryMaps, NEW k \in DOMAIN m, NEW e \in Process \cup Record
    PROVE  /\ [m EXCEPT ![k] = e] \in EntryMaps
           /\ DOMAIN [m EXCEPT ![k] = e] = DOMAIN m
           /\ [m EXCEPT ![k] = e][k] = e
           /\ \A q \in DOMAIN m \ {k} : [m EXCEPT ![k] = e][q] = m[q]
<1> DEFINE r == [m EXCEPT ![k] = e]
<1>1. DOMAIN m \subseteq Key /\ m = [q \in DOMAIN m |-> m[q]]
      /\ \A q \in DOMAIN m : m[q] \in Process \cup Record
  BY MapsTyped
<1>2. DOMAIN r = DOMAIN m /\ r[k] = e /\ r = [q \in DOMAIN r |-> r[q]] BY <1>1
<1>3. \A q \in DOMAIN m \ {k} : r[q] = m[q] OBVIOUS
<1> HIDE DEF r
<1>4. \A q \in DOMAIN r : r[q] \in Process \cup Record BY <1>1, <1>2, <1>3
<1>5. r \in EntryMaps BY <1>1, <1>2, <1>4, MapsTyped
<1> QED BY <1>2, <1>3, <1>5 DEF r

LEMMA StackTyped ==
    ASSUME NEW s \in StackRecord, NEW k \in DOMAIN s.reassemblies
    PROVE  /\ k \in Key /\ k.peer \in Peers
           /\ s.reassemblies[k].failed \in BOOLEAN
           /\ s.reassemblies[k].failed =>
                 s.reassemblies[k] \in Record /\ s.reassemblies[k].orphan \in BOOLEAN
           /\ ~ s.reassemblies[k].failed =>
                 s.reassemblies[k] \in Process /\ s.reassemblies[k].len \in Nat
<1>1. s.reassemblies \in EntryMaps BY DEF StackRecord
<1>2. k \in Key /\ s.reassemblies[k] \in Process \cup Record BY <1>1, MapsTyped
<1>3. /\ s.reassemblies[k].failed \in BOOLEAN
      /\ s.reassemblies[k].failed => s.reassemblies[k] \in Record
      /\ ~ s.reassemblies[k].failed => s.reassemblies[k] \in Process
  BY <1>2, EntryKinds
<1>4. k.peer \in Peers BY <1>2 DEF Key
<1>5. s.reassemblies[k].failed => s.reassemblies[k].orphan \in BOOLEAN BY <1>3 DEF Record
<1>6. ~ s.reassemblies[k].failed => s.reassemblies[k].len \in Nat BY <1>3 DEF Process
<1> QED BY <1>2, <1>3, <1>4, <1>5, <1>6

-----------------------------------------------------------------------------
(* What the operators on the stack give, field by field.                   *)

LEMMA MapField ==
    ASSUME NEW s \in StackRecord, NEW m \in EntryMaps
    PROVE  LET r == [s EXCEPT !.reassemblies = m]
           IN  /\ r \in StackRecord
               /\ r.reassemblies = m /\ r.timers = s.timers
               /\ r.orphans = s.orphans /\ r.slots = s.slots
               /\ SameAccounts(s, r)
<1> DEFINE r == [s EXCEPT !.reassemblies = m]
<1>1. r \in StackRecord BY DEF StackRecord
<1>2. r.reassemblies = m /\ r.timers = s.timers BY DEF StackRecord
<1>3. r.orphans = s.orphans /\ r.slots = s.slots BY DEF StackRecord
<1>4. SameAccounts(s, r) BY DEF SameAccounts, StackRecord
<1> QED BY <1>1, <1>2, <1>3, <1>4

(* s with a orphans and b slots given back.                               *)
Released(s, a, b) == [s EXCEPT !.orphans = s.orphans - a, !.slots = s.slots - b]

LEMMA CountFields ==
    ASSUME NEW s \in StackRecord, NEW a \in Int, NEW b \in Int, NEW r, r = Released(s, a, b)
    PROVE  /\ r \in StackRecord
           /\ r.reassemblies = s.reassemblies /\ r.timers = s.timers
           /\ r.orphans = s.orphans - a /\ r.slots = s.slots - b
           /\ SameAccounts(s, r)
<1>1. r = [s EXCEPT !.orphans = s.orphans - a, !.slots = s.slots - b] BY DEF Released
<1>2. s.orphans - a \in Int /\ s.slots - b \in Int BY DEF StackRecord
<1>3. r \in StackRecord BY <1>1, <1>2 DEF StackRecord
<1>4. r.reassemblies = s.reassemblies /\ r.timers = s.timers BY <1>1 DEF StackRecord
<1>5. r.orphans = s.orphans - a /\ r.slots = s.slots - b BY <1>1 DEF StackRecord
<1>6. SameAccounts(s, r) BY <1>1 DEF SameAccounts, StackRecord
<1> QED BY <1>3, <1>4, <1>5, <1>6

LEMMA SlotField ==
    ASSUME NEW s \in StackRecord, NEW b \in Int
    PROVE  LET r == [s EXCEPT !.slots = @ - b]
           IN  /\ r \in StackRecord
               /\ r.reassemblies = s.reassemblies /\ r.timers = s.timers
               /\ r.orphans = s.orphans /\ r.slots = s.slots - b
               /\ SameAccounts(s, r)
<1> DEFINE r == [s EXCEPT !.slots = @ - b]
<1>1. s.slots - b \in Int BY DEF StackRecord
<1>2. r \in StackRecord BY <1>1 DEF StackRecord
<1>3. r.reassemblies = s.reassemblies /\ r.timers = s.timers BY DEF StackRecord
<1>4. r.orphans = s.orphans /\ r.slots = s.slots - b BY DEF StackRecord
<1>5. SameAccounts(s, r) BY DEF SameAccounts, StackRecord
<1> QED BY <1>2, <1>3, <1>4, <1>5

LEMMA HoldFields ==
    ASSUME NEW s \in StackRecord, NEW p \in Peers, NEW n \in Int
    PROVE  /\ Hold(s, p, n) \in StackRecord
           /\ Hold(s, p, n).reassemblies = s.reassemblies
           /\ Hold(s, p, n).timers = s.timers
           /\ Hold(s, p, n).slots = s.slots /\ Hold(s, p, n).orphans = s.orphans
           /\ Adds(s, Hold(s, p, n), p, n)
<1> DEFINE r == Hold(s, p, n)
<1>1. s.octets + n \in Int /\ s.peerOctets \in [Peers -> Int] BY DEF StackRecord
<1>2. [s.peerOctets EXCEPT ![p] = @ + n] \in [Peers -> Int] BY <1>1
<1>3. r = [s EXCEPT !.octets = s.octets + n, !.peerOctets = [s.peerOctets EXCEPT ![p] = @ + n]]
  BY DEF Hold
<1>4. r \in StackRecord BY <1>1, <1>2, <1>3 DEF StackRecord
<1>5. r.reassemblies = s.reassemblies /\ r.timers = s.timers BY <1>3 DEF StackRecord
<1>6. r.slots = s.slots /\ r.orphans = s.orphans BY <1>3 DEF StackRecord
<1>7. Adds(s, r, p, n) BY <1>1, <1>3 DEF Adds, StackRecord
<1> QED BY <1>4, <1>5, <1>6, <1>7

LEMMA ReturnFields ==
    ASSUME NEW s \in StackRecord, NEW k \in Key, NEW c \in Contents, NEW asked \in BOOLEAN
    PROVE  /\ Return(s, k, c, asked) \in StackRecord
           /\ Return(s, k, c, asked).reassemblies = s.reassemblies
           /\ Return(s, k, c, asked).timers = s.timers
           /\ Return(s, k, c, asked).slots = s.slots
           /\ Return(s, k, c, asked).orphans = s.orphans
           /\ SameAccounts(s, Return(s, k, c, asked))
<1>1. [type |-> "return", key |-> k, data |-> <<c>>] \in Result BY DEF Result
<1>2. s.res \in Seq(Result) BY DEF StackRecord
<1>3. Append(s.res, [type |-> "return", key |-> k, data |-> <<c>>]) \in Seq(Result)
  BY <1>1, <1>2, AppendProperties
<1> QED BY <1>3 DEF Return, SameAccounts, StackRecord

LEMMA StopFields ==
    ASSUME NEW s \in StackRecord, NEW k, NEW kind
    PROVE  /\ Stop(s, k, kind) \in StackRecord
           /\ Stop(s, k, kind).reassemblies = s.reassemblies
           /\ Stop(s, k, kind).timers = {t \in s.timers : t.key # k \/ t.kind # kind}
           /\ Stop(s, k, kind).slots = s.slots /\ Stop(s, k, kind).orphans = s.orphans
           /\ SameAccounts(s, Stop(s, k, kind))
BY DEF Stop, SameAccounts, StackRecord

(* The age of the call's clock reading.                                    *)
ClockOK == lag \in 0 .. MaxLag

NewTimer(k, kind) == [key |-> k, kind |-> kind, left |-> After(ReassemblyTimeout)]

LEMMA ScheduleFields ==
    ASSUME ClockOK, NEW s \in StackRecord, NEW k \in Key, NEW kind \in {"process", "record"}
    PROVE  /\ Schedule(s, k, kind) \in StackRecord
           /\ Schedule(s, k, kind).reassemblies = s.reassemblies
           /\ Schedule(s, k, kind).timers = s.timers \cup {NewTimer(k, kind)}
           /\ Schedule(s, k, kind).slots = s.slots /\ Schedule(s, k, kind).orphans = s.orphans
           /\ SameAccounts(s, Schedule(s, k, kind))
<1>1. NewTimer(k, kind) \in Timer
  BY ReassemblyAssumption DEF ClockOK, NewTimer, After, Timer
<1> QED BY <1>1 DEF Schedule, NewTimer, SameAccounts, StackRecord

LEMMA EndFields ==
    ASSUME NEW s \in StackRecord, NEW k \in DOMAIN s.reassemblies
    PROVE  LET e == s.reassemblies[k]
               r == EndReassembly(s, k)
           IN  /\ r \in StackRecord
               /\ r.reassemblies = Remove(s.reassemblies, k)
               /\ r.timers = {t \in s.timers : t.key # k \/ t.kind # Kind(s, k)}
               /\ e.failed /\ e.orphan => r.orphans = s.orphans - 1 /\ r.slots = s.slots
               /\ ~ (e.failed /\ e.orphan) => r.orphans = s.orphans /\ r.slots = s.slots - 1
               /\ Adds(s, r, k.peer, 0 - Share(s, k))
<1> DEFINE e == s.reassemblies[k]
           m == Remove(s.reassemblies, k)
           record == [[s EXCEPT !.reassemblies = m] EXCEPT
                         !.orphans = @ - (IF e.orphan THEN 1 ELSE 0),
                         !.slots = @ - (IF e.orphan THEN 0 ELSE 1)]
           process == [[s EXCEPT !.reassemblies = m] EXCEPT !.slots = @ - 1]
<1>1. m \in EntryMaps BY RemoveMap DEF StackRecord
<1>2. k.peer \in Peers /\ e.failed \in BOOLEAN
  BY StackTyped
<1>3. EndReassembly(s, k) = IF e.failed THEN Stop(record, k, "record")
                            ELSE Stop(Hold(process, k.peer, -e.len), k, "process")
  BY DEF EndReassembly
<1>4. CASE e.failed
  <2>1. e.orphan \in BOOLEAN BY <1>4, StackTyped
  <2>2. /\ record \in StackRecord /\ record.reassemblies = m /\ record.timers = s.timers
        /\ record.orphans = s.orphans - (IF e.orphan THEN 1 ELSE 0)
        /\ record.slots = s.slots - (IF e.orphan THEN 0 ELSE 1)
        /\ SameAccounts(s, record)
    <3> DEFINE removed == [s EXCEPT !.reassemblies = m]
               a == IF e.orphan THEN 1 ELSE 0
               b == IF e.orphan THEN 0 ELSE 1
    <3>1. a \in Int /\ b \in Int BY <2>1
    <3> HIDE DEF m, e
    <3>2. /\ removed \in StackRecord /\ removed.reassemblies = m
          /\ removed.timers = s.timers
          /\ removed.orphans = s.orphans /\ removed.slots = s.slots
          /\ SameAccounts(s, removed)
      BY <1>1, MapField
    <3> HIDE DEF removed, a, b
    <3>3. record = Released(removed, a, b) BY DEF removed, a, b, Released
    <3> HIDE DEF record
    <3>4. /\ record \in StackRecord /\ record.reassemblies = removed.reassemblies
          /\ record.timers = removed.timers
          /\ record.orphans = removed.orphans - a /\ record.slots = removed.slots - b
          /\ SameAccounts(removed, record)
      BY <3>1, <3>2, <3>3, CountFields
    <3> QED BY <3>2, <3>3, <3>4 DEF a, b, SameAccounts
  <2>3. EndReassembly(s, k) = Stop(record, k, "record") /\ Kind(s, k) = "record"
    BY <1>3, <1>4 DEF Kind
  <2>4. s.orphans \in Int /\ s.slots \in Int /\ s.octets \in Int
        /\ s.peerOctets \in [Peers -> Int]
    BY DEF StackRecord
  <2> HIDE DEF record, m
  <2>5. e.failed /\ e.orphan => record.orphans = s.orphans - 1 /\ record.slots = s.slots
    BY <2>2, <2>4
  <2>6. ~ (e.failed /\ e.orphan) => record.orphans = s.orphans /\ record.slots = s.slots - 1
    BY <1>4, <2>1, <2>2, <2>4
  <2>7. 0 - Share(s, k) = 0
    <3>1. ~ InProgress(s, k) BY <1>4 DEF InProgress
    <3>2. Share(s, k) = 0 BY <3>1 DEF Share
    <3> QED BY <3>2
  <2>8. SameAccounts(record, EndReassembly(s, k)) BY <2>2, <2>3, StopFields
  <2>9. Adds(s, EndReassembly(s, k), k.peer, 0)
    BY <1>2, <2>2, <2>4, <2>8 DEF Adds, SameAccounts
  <2> QED BY <2>2, <2>3, <2>5, <2>6, <2>7, <2>9, StopFields DEF m
<1>5. CASE ~ e.failed
  <2>1. -e.len \in Int BY <1>5, StackTyped
  <2>2. /\ process \in StackRecord /\ process.reassemblies = m /\ process.timers = s.timers
        /\ process.orphans = s.orphans /\ process.slots = s.slots - 1
        /\ SameAccounts(s, process)
    <3> DEFINE removed == [s EXCEPT !.reassemblies = m]
    <3> HIDE DEF m
    <3>1. /\ removed \in StackRecord /\ removed.reassemblies = m
          /\ removed.timers = s.timers
          /\ removed.orphans = s.orphans /\ removed.slots = s.slots
          /\ SameAccounts(s, removed)
      BY <1>1, MapField
    <3> HIDE DEF removed
    <3> DEFINE counted == [removed EXCEPT !.slots = @ - 1]
    <3>2. process = counted BY DEF removed
    <3> HIDE DEF process
    <3>3. /\ counted \in StackRecord /\ counted.reassemblies = removed.reassemblies
          /\ counted.timers = removed.timers
          /\ counted.orphans = removed.orphans /\ counted.slots = removed.slots - 1
          /\ SameAccounts(removed, counted)
      BY <3>1, SlotField DEF SameAccounts
    <3> HIDE DEF counted
    <3> QED BY <3>1, <3>2, <3>3 DEF SameAccounts
  <2>3. EndReassembly(s, k) = Stop(Hold(process, k.peer, -e.len), k, "process")
        /\ Kind(s, k) = "process"
    BY <1>3, <1>5 DEF Kind
  <2> HIDE DEF process, m
  <2> DEFINE h == Hold(process, k.peer, -e.len)
  <2>4. /\ h \in StackRecord /\ h.reassemblies = m /\ h.timers = s.timers
        /\ h.orphans = s.orphans /\ h.slots = s.slots - 1
        /\ Adds(process, h, k.peer, -e.len)
    BY <2>1, <2>2, <1>2, HoldFields
  <2> HIDE DEF h
  <2>5. EndReassembly(s, k) = Stop(h, k, "process") BY <2>3 DEF h
  <2>6. 0 - Share(s, k) = -e.len
    <3>1. Share(s, k) = e.len /\ e.len \in Nat
      BY <1>5, StackTyped DEF Share, InProgress, Known
    <3> HIDE DEF e
    <3> QED BY <3>1
  <2>7. SameAccounts(h, EndReassembly(s, k)) BY <2>4, <2>5, StopFields
  <2>8. Adds(s, EndReassembly(s, k), k.peer, -e.len)
    BY <2>2, <2>4, <2>7 DEF Adds, SameAccounts
  <2> QED BY <1>5, <2>3, <2>4, <2>5, <2>6, <2>8, StopFields DEF m
<1> QED BY <1>2, <1>4, <1>5

LEMMA AdmitFields ==
    ASSUME NEW s \in StackRecord, NEW m \in EntryMaps
    PROVE  LET orphaned == [s EXCEPT !.reassemblies = m, !.orphans = @ + 1]
               started == [s EXCEPT !.reassemblies = m, !.slots = @ + 1]
           IN  /\ orphaned \in StackRecord
               /\ orphaned.reassemblies = m /\ orphaned.timers = s.timers
               /\ orphaned.orphans = s.orphans + 1 /\ orphaned.slots = s.slots
               /\ SameAccounts(s, orphaned)
               /\ started \in StackRecord
               /\ started.reassemblies = m /\ started.timers = s.timers
               /\ started.orphans = s.orphans /\ started.slots = s.slots + 1
               /\ SameAccounts(s, started)
<1> DEFINE o == [s EXCEPT !.reassemblies = m, !.orphans = @ + 1]
           a == [s EXCEPT !.reassemblies = m, !.slots = @ + 1]
<1>1. s.orphans + 1 \in Int /\ s.slots + 1 \in Int BY DEF StackRecord
<1>2. o \in StackRecord BY <1>1 DEF StackRecord
<1>3. o.reassemblies = m /\ o.timers = s.timers BY DEF StackRecord
<1>4. o.orphans = s.orphans + 1 /\ o.slots = s.slots BY DEF StackRecord
<1>5. a \in StackRecord BY <1>1 DEF StackRecord
<1>6. a.reassemblies = m /\ a.timers = s.timers BY DEF StackRecord
<1>7. a.orphans = s.orphans /\ a.slots = s.slots + 1 BY DEF StackRecord
<1>8. SameAccounts(s, o) /\ SameAccounts(s, a) BY DEF SameAccounts, StackRecord
<1> HIDE DEF o, a
<1> QED BY <1>2, <1>3, <1>4, <1>5, <1>6, <1>7, <1>8 DEF o, a

OrphanRecord(u) ==
    [failed |-> TRUE, orphan |-> TRUE, hash |-> IF u.first THEN SegmentHash(u) ELSE NoHash]

FailedRecord(p) == [failed |-> TRUE, orphan |-> FALSE, hash |-> SegmentHash(p.first)]

LEMMA RecordsFailed == (\A u : OrphanRecord(u).failed) /\ \A p : FailedRecord(p).failed
<1>1. ASSUME NEW u PROVE OrphanRecord(u).failed BY DEF OrphanRecord
<1>2. ASSUME NEW p PROVE FailedRecord(p).failed BY DEF FailedRecord
<1> QED BY <1>1, <1>2

LEMMA RecordsTyped ==
    ASSUME NEW u \in Segment
    PROVE  /\ OrphanRecord(u) \in Record
           /\ \A p : p.first = u => FailedRecord(p) \in Record
<1>1. u.content \in Contents /\ u.len \in Lengths /\ u.remaining \in 0 .. MaxSegments - 1
      /\ u.first \in BOOLEAN
  BY DEF Segment
<1>2. SegmentHash(u) \in Contents \X Lengths \X (0 .. MaxSegments - 1)
  BY <1>1 DEF SegmentHash
<1> QED BY <1>1, <1>2 DEF OrphanRecord, FailedRecord, Record

LEMMA RejectFields ==
    ASSUME ClockOK, NEW s \in StackRecord, NEW u \in Segment
    PROVE  LET r == RejectSegment(s, u)
               k == u.key
           IN  /\ s.orphans >= MaxReassemblies => r = s
               /\ ~ (s.orphans >= MaxReassemblies) =>
                     /\ r \in StackRecord
                     /\ r.reassemblies = Put(s.reassemblies, k, OrphanRecord(u))
                     /\ r.timers = s.timers \cup {NewTimer(k, "record")}
                     /\ r.orphans = s.orphans + 1 /\ r.slots = s.slots
                     /\ SameAccounts(s, r)
<1> DEFINE k == u.key
           returned == Return(s, k, u.content, u.returnOnError)
           m == Put(returned.reassemblies, k, OrphanRecord(u))
           admitted == [returned EXCEPT !.reassemblies = m, !.orphans = @ + 1]
<1>1. s.orphans >= MaxReassemblies => RejectSegment(s, u) = s BY DEF RejectSegment
<1>2. ASSUME ~ (s.orphans >= MaxReassemblies)
      PROVE  RejectSegment(s, u) = Schedule(admitted, k, "record")
  BY <1>2 DEF RejectSegment, OrphanRecord
<1>3. k \in Key /\ u.content \in Contents /\ u.returnOnError \in BOOLEAN BY DEF Segment
<1> HIDE DEF k
<1>4. /\ returned \in StackRecord /\ returned.reassemblies = s.reassemblies
      /\ returned.timers = s.timers
      /\ returned.slots = s.slots /\ returned.orphans = s.orphans
      /\ SameAccounts(s, returned)
  BY <1>3, ReturnFields
<1> HIDE DEF returned
<1>5. s.reassemblies \in EntryMaps BY DEF StackRecord
<1>6. m \in EntryMaps /\ m = Put(s.reassemblies, k, OrphanRecord(u))
  BY <1>3, <1>4, <1>5, PutMap, RecordsTyped
<1> HIDE DEF m
<1>7. /\ admitted \in StackRecord /\ admitted.reassemblies = m
      /\ admitted.timers = returned.timers
      /\ admitted.orphans = returned.orphans + 1 /\ admitted.slots = returned.slots
      /\ SameAccounts(returned, admitted)
  BY <1>4, <1>6, AdmitFields DEF SameAccounts
<1> HIDE DEF admitted
<1>8. LET r == Schedule(admitted, k, "record")
      IN  /\ r \in StackRecord /\ r.reassemblies = admitted.reassemblies
          /\ r.timers = admitted.timers \cup {NewTimer(k, "record")}
          /\ r.slots = admitted.slots /\ r.orphans = admitted.orphans
          /\ SameAccounts(admitted, r)
  BY <1>3, <1>7, ScheduleFields
<1> QED BY <1>1, <1>2, <1>4, <1>6, <1>7, <1>8 DEF k, SameAccounts

LEMMA FailFields ==
    ASSUME ClockOK, NEW s \in StackRecord, NEW k, InProgress(s, k), NEW asked \in BOOLEAN
    PROVE  LET r == FailReassembly(s, k, asked)
               e == FailedRecord(s.reassemblies[k])
           IN  /\ r \in StackRecord /\ e \in Record
               /\ r.reassemblies = [s.reassemblies EXCEPT ![k] = e]
               /\ r.timers = {t \in s.timers : t.key # k \/ t.kind # "process"}
                                \cup {NewTimer(k, "record")}
               /\ r.orphans = s.orphans /\ r.slots = s.slots
               /\ Adds(s, r, k.peer, 0 - Share(s, k))
<1> DEFINE p == s.reassemblies[k]
           e == FailedRecord(p)
           returned == Return(s, k, p.first.content, asked)
           held == Hold(returned, k.peer, -p.len)
           m == [held.reassemblies EXCEPT ![k] = e]
           dropped == [held EXCEPT !.reassemblies = m]
           stopped == Stop(dropped, k, "process")
<1>1. FailReassembly(s, k, asked) = Schedule(stopped, k, "record")
  BY DEF FailReassembly, FailedRecord
<1>2. k \in DOMAIN s.reassemblies /\ ~ p.failed BY DEF InProgress, Known
<1>3. k \in Key /\ k.peer \in Peers /\ p \in Process BY <1>2, StackTyped
<1>4. p.first \in Segment /\ p.len \in Nat BY <1>3 DEF Process
<1>5. p.first.content \in Contents /\ -p.len \in Int BY <1>4 DEF Segment
<1>6. e \in Record /\ Share(s, k) = p.len BY <1>4, RecordsTyped DEF Share
<1> HIDE DEF p, e
<1>7. /\ returned \in StackRecord /\ returned.reassemblies = s.reassemblies
      /\ returned.timers = s.timers
      /\ returned.slots = s.slots /\ returned.orphans = s.orphans
      /\ SameAccounts(s, returned)
  BY <1>3, <1>5, ReturnFields
<1> HIDE DEF returned
<1>8. /\ held \in StackRecord /\ held.reassemblies = s.reassemblies
      /\ held.timers = s.timers
      /\ held.slots = s.slots /\ held.orphans = s.orphans
      /\ Adds(returned, held, k.peer, -p.len)
  BY <1>3, <1>5, <1>7, HoldFields
<1> HIDE DEF held
<1>9. m \in EntryMaps /\ m = [s.reassemblies EXCEPT ![k] = e]
  <2>1. s.reassemblies \in EntryMaps BY DEF StackRecord
  <2> QED BY <2>1, <1>2, <1>6, <1>8, ReplaceMap
<1> HIDE DEF m
<1>10. /\ dropped \in StackRecord /\ dropped.reassemblies = m
       /\ dropped.timers = s.timers
       /\ dropped.slots = s.slots /\ dropped.orphans = s.orphans
       /\ SameAccounts(held, dropped)
  BY <1>8, <1>9, MapField
<1> HIDE DEF dropped
<1>11. /\ stopped \in StackRecord /\ stopped.reassemblies = m
       /\ stopped.timers = {t \in s.timers : t.key # k \/ t.kind # "process"}
       /\ stopped.slots = s.slots /\ stopped.orphans = s.orphans
       /\ SameAccounts(dropped, stopped)
  BY <1>10, StopFields
<1> HIDE DEF stopped
<1>12. LET r == Schedule(stopped, k, "record")
       IN  /\ r \in StackRecord /\ r.reassemblies = m
           /\ r.timers = stopped.timers \cup {NewTimer(k, "record")}
           /\ r.slots = s.slots /\ r.orphans = s.orphans
           /\ SameAccounts(stopped, r)
  BY <1>3, <1>11, ScheduleFields
<1>13. Adds(s, FailReassembly(s, k, asked), k.peer, 0 - Share(s, k))
  <2>1. 0 - Share(s, k) = -p.len BY <1>4, <1>6
  <2>2. Adds(s, FailReassembly(s, k, asked), k.peer, -p.len)
    BY <1>1, <1>7, <1>8, <1>10, <1>11, <1>12 DEF Adds, SameAccounts
  <2> QED BY <2>1, <2>2
<1> QED BY <1>1, <1>6, <1>9, <1>11, <1>12, <1>13 DEF p, e

-----------------------------------------------------------------------------
(* What the operators keep.                                                *)

(* An operator that changes s into r is about one key.                     *)
SameBut(s, r, k) ==
    /\ DOMAIN r.reassemblies \ {k} = DOMAIN s.reassemblies \ {k}
    /\ \A q \in DOMAIN s.reassemblies \ {k} : r.reassemblies[q] = s.reassemblies[q]

Others(s, k) == {t \in s.timers : t.key # k}

Changes(s, r, k) ==
    /\ SameBut(s, r, k)
    /\ r.timers \subseteq Others(s, k) \cup {NewTimer(k, "process"), NewTimer(k, "record")}

(* The entry of k is gone, and its timer ...                               *)
Dropped(s, r, k) == SameBut(s, r, k) /\ ~ Known(r, k) /\ r.timers = Others(s, k)

(* ... or it is e, with a timer of its own.                                *)
Made(s, r, k, kind, e) ==
    /\ SameBut(s, r, k) /\ Known(r, k) /\ r.reassemblies[k] = e
    /\ r.timers = Others(s, k) \cup {NewTimer(k, kind)}

LEMMA NotInProgress ==
    ASSUME NEW s, NEW r, NEW k
    PROVE  /\ Dropped(s, r, k) => SameBut(s, r, k) /\ ~ InProgress(r, k)
           /\ \A kind, e : Made(s, r, k, kind, e) /\ e.failed
                            => SameBut(s, r, k) /\ ~ InProgress(r, k)
BY DEF Dropped, Made, InProgress

LEMMA DroppedOrMade ==
    ASSUME NEW s, NEW r, NEW k
    PROVE  /\ Dropped(s, r, k) => Changes(s, r, k)
           /\ \A kind \in {"process", "record"} : \A e :
                 Made(s, r, k, kind, e) => Changes(s, r, k)
BY DEF Dropped, Made, Changes

(* What is dropped on the way to another entry does not show.              *)
LEMMA DroppedFirst ==
    ASSUME NEW s, NEW q, NEW r, NEW k, Dropped(s, q, k)
    PROVE  /\ Dropped(q, r, k) => Dropped(s, r, k)
           /\ \A kind, e : Made(q, r, k, kind, e) => Made(s, r, k, kind, e)
<1>1. SameBut(q, r, k) => SameBut(s, r, k) BY DEF Dropped, SameBut
<1>2. Others(q, k) = Others(s, k) BY DEF Dropped, Others
<1> QED BY <1>1, <1>2 DEF Dropped, Made

LEMMA OthersAreKept ==
    ASSUME NEW s, NEW k, Timed(s, {k})
    PROVE  /\ Known(s, k) =>
                 {t \in s.timers : t.key # k \/ t.kind # Kind(s, k)} = Others(s, k)
           /\ ~ Known(s, k) => s.timers = Others(s, k)
BY DEF Timed, Others

LEMMA TimedRemoved ==
    ASSUME NEW s, NEW r, NEW k, Timed(s, {k}), SameBut(s, r, k),
           k \notin DOMAIN r.reassemblies, r.timers = Others(s, k)
    PROVE  Timed(r, {})
<1>1. \A q \in DOMAIN r.reassemblies : q \in DOMAIN s.reassemblies /\ q # k
  BY DEF SameBut
<1>2. \A t \in r.timers : t \in s.timers /\ t.key # k BY DEF Others
<1>3. \A t \in r.timers : Known(r, t.key) /\ t.kind = Kind(r, t.key)
  BY <1>2 DEF Timed, SameBut, Known, Kind
<1>4. \A q \in DOMAIN r.reassemblies : \E t \in r.timers : t.key = q
  BY <1>1 DEF Timed, Others
<1> QED BY <1>2, <1>3, <1>4 DEF Timed

LEMMA TimedAdded ==
    ASSUME NEW s, NEW r, NEW k, NEW kind, Timed(s, {k}), SameBut(s, r, k),
           k \in DOMAIN r.reassemblies, kind = Kind(r, k),
           r.timers = Others(s, k) \cup {NewTimer(k, kind)}
    PROVE  Timed(r, {})
<1>1. \A q \in DOMAIN r.reassemblies \ {k} : q \in DOMAIN s.reassemblies
  BY DEF SameBut
<1>2. NewTimer(k, kind).key = k /\ NewTimer(k, kind).kind = kind BY DEF NewTimer
<1> DEFINE n == NewTimer(k, kind)
<1> HIDE DEF n
<1>3. \A t \in r.timers : t = n \/ (t \in s.timers /\ t.key # k) BY DEF Others, n
<1>4. n.key = k /\ n.kind = kind /\ n \in r.timers BY <1>2 DEF n
<1>5. \A t \in r.timers : Known(r, t.key) /\ t.kind = Kind(r, t.key)
  BY <1>3, <1>4 DEF Timed, SameBut, Known, Kind
<1>6. \A t, o \in r.timers : t.key = o.key => t = o
  BY <1>3, <1>4 DEF Timed
<1>7. \A q \in DOMAIN r.reassemblies : \E t \in r.timers : t.key = q
  <2> SUFFICES ASSUME NEW q \in DOMAIN r.reassemblies PROVE \E t \in r.timers : t.key = q
    OBVIOUS
  <2>1. CASE q = k BY <2>1, <1>4
  <2>2. CASE q # k
    <3>1. q \in DOMAIN s.reassemblies BY <2>2, <1>1
    <3>2. PICK t \in s.timers : t.key = q BY <2>2, <3>1 DEF Timed
    <3> QED BY <2>2, <3>2 DEF Others
  <2> QED BY <2>1, <2>2
<1> QED BY <1>5, <1>6, <1>7 DEF Timed

(* The counts when an entry is removed, replaced or added.                 *)
LEMMA CountedRemoved ==
    ASSUME NEW s \in StackRecord, NEW r, NEW k \in DOMAIN s.reassemblies, Counted(s),
           SameBut(s, r, k), k \notin DOMAIN r.reassemblies,
           k \in Orphans(s) => r.orphans = s.orphans - 1 /\ r.slots = s.slots,
           k \notin Orphans(s) => r.orphans = s.orphans /\ r.slots = s.slots - 1
    PROVE  Counted(r)
<1>1. DOMAIN r.reassemblies = DOMAIN s.reassemblies \ {k} BY DEF SameBut
<1>2. IsFiniteSet(DOMAIN r.reassemblies) BY <1>1, FS_RemoveElement DEF Counted
<1>3. Orphans(r) = Orphans(s) \ {k} BY <1>1 DEF Orphans, SameBut
<1>4. Slotted(r) = Slotted(s) \ {k} BY <1>1, <1>3 DEF Slotted
<1>5. IsFiniteSet(Orphans(s)) /\ IsFiniteSet(Slotted(s))
  BY FS_Subset DEF Counted, Orphans, Slotted
<1>6. CASE k \in Orphans(s)
  <2>1. Cardinality(Orphans(r)) = Cardinality(Orphans(s)) - 1
    BY <1>3, <1>5, <1>6, FS_RemoveElement
  <2>2. Slotted(r) = Slotted(s) BY <1>4, <1>6 DEF Slotted
  <2>3. Cardinality(Orphans(s)) \in Nat BY <1>5, FS_CardinalityType
  <2> QED BY <1>2, <1>6, <2>1, <2>2, <2>3, ReassemblyAssumption DEF Counted
<1>7. CASE k \notin Orphans(s)
  <2>1. k \in Slotted(s) BY <1>7 DEF Slotted
  <2>2. Cardinality(Slotted(r)) = Cardinality(Slotted(s)) - 1
    BY <1>4, <1>5, <2>1, FS_RemoveElement
  <2>3. Orphans(r) = Orphans(s) BY <1>3, <1>7
  <2>4. Cardinality(Slotted(s)) \in Nat BY <1>5, FS_CardinalityType
  <2> QED BY <1>2, <1>7, <2>2, <2>3, <2>4, ReassemblyAssumption DEF Counted
<1> QED BY <1>6, <1>7

LEMMA CountedAdded ==
    ASSUME NEW s \in StackRecord, NEW r, NEW k, k \notin DOMAIN s.reassemblies, Counted(s),
           SameBut(s, r, k), k \in DOMAIN r.reassemblies,
           k \in Orphans(r) => /\ s.orphans < MaxReassemblies
                               /\ r.orphans = s.orphans + 1 /\ r.slots = s.slots,
           k \notin Orphans(r) => /\ s.slots < MaxReassemblies
                                  /\ r.orphans = s.orphans /\ r.slots = s.slots + 1
    PROVE  Counted(r)
<1>1. DOMAIN r.reassemblies = DOMAIN s.reassemblies \cup {k} BY DEF SameBut
<1>2. IsFiniteSet(DOMAIN r.reassemblies) BY <1>1, FS_AddElement DEF Counted
<1>3. Orphans(r) \ {k} = Orphans(s) BY <1>1 DEF Orphans, SameBut
<1>4. IsFiniteSet(Orphans(s)) /\ IsFiniteSet(Slotted(s))
  BY FS_Subset DEF Counted, Orphans, Slotted
<1>5. k \notin Orphans(s) /\ k \notin Slotted(s) BY DEF Orphans, Slotted
<1>6. Cardinality(Orphans(s)) \in Nat /\ Cardinality(Slotted(s)) \in Nat
  BY <1>4, FS_CardinalityType
<1>7. CASE k \in Orphans(r)
  <2>1. Orphans(r) = Orphans(s) \cup {k} BY <1>3, <1>7
  <2>2. Cardinality(Orphans(r)) = Cardinality(Orphans(s)) + 1
    BY <1>4, <1>5, <2>1, FS_AddElement
  <2>3. Slotted(r) = Slotted(s) BY <1>1, <1>5, <2>1 DEF Slotted
  <2> QED BY <1>2, <1>6, <1>7, <2>2, <2>3, ReassemblyAssumption DEF Counted
<1>8. CASE k \notin Orphans(r)
  <2>1. Orphans(r) = Orphans(s) BY <1>3, <1>8
  <2>2. Slotted(r) = Slotted(s) \cup {k} BY <1>1, <1>5, <2>1 DEF Slotted
  <2>3. Cardinality(Slotted(r)) = Cardinality(Slotted(s)) + 1
    BY <1>4, <1>5, <2>2, FS_AddElement
  <2> QED BY <1>2, <1>6, <1>8, <2>1, <2>3, ReassemblyAssumption DEF Counted
<1> QED BY <1>7, <1>8

LEMMA InProcessTyped ==
    ASSUME NEW s \in StackRecord, Counted(s), NEW K \in SUBSET InProcess(s)
    PROVE  /\ IsFiniteSet(K)
           /\ \A k \in K : s.reassemblies[k].len \in Nat
<1>1. IsFiniteSet(K) BY FS_Subset DEF Counted, InProcess
<1> QED BY <1>1, StackTyped DEF InProcess

LEMMA HeldTyped ==
    ASSUME NEW s \in StackRecord, Counted(s), NEW K \in SUBSET InProcess(s)
    PROVE  Held(s, K) \in Nat
<1> DEFINE f == [k \in K |-> s.reassemblies[k].len]
<1>1. IsFiniteSet(K) /\ \A k \in K : f[k] \in Int /\ f[k] >= 0 BY InProcessTyped
<1> HIDE DEF f
<1>2. SumOver(f, K) \in Int /\ SumOver(f, K) >= 0 BY <1>1, SumType
<1> QED BY <1>2 DEF Held, f

(* What one key has of what several hold.                                  *)
(* What the process of k, if it is one of K, holds.                        *)
HeldBy(s, K, k) == IF k \in K THEN s.reassemblies[k].len ELSE 0

LEMMA HeldSplit ==
    ASSUME NEW s \in StackRecord, Counted(s), NEW K \in SUBSET InProcess(s), NEW k
    PROVE  Held(s, K) = HeldBy(s, K, k) + Held(s, K \ {k})
<1>1. CASE k \in K
  <2> DEFINE f == [q \in K |-> s.reassemblies[q].len]
             g == [q \in K \ {k} |-> s.reassemblies[q].len]
  <2>1. IsFiniteSet(K) /\ \A q \in K : f[q] \in Int BY InProcessTyped
  <2>2. \A q \in K \ {k} : f[q] = g[q] OBVIOUS
  <2>3. f[k] = s.reassemblies[k].len BY <1>1
  <2>4. IsFiniteSet(K \ {k}) BY <2>1, FS_RemoveElement
  <2> HIDE DEF f, g
  <2>5. SumOver(f, K) = f[k] + SumOver(f, K \ {k}) BY <1>1, <2>1, SumRemove
  <2>6. SumOver(f, K \ {k}) = SumOver(g, K \ {k}) BY <2>2, <2>4, SumAgrees
  <2> QED BY <1>1, <2>3, <2>5, <2>6 DEF Held, HeldBy, f, g
<1>2. CASE k \notin K
  <2>1. K \ {k} = K BY <1>2
  <2>2. Held(s, K) \in Int BY HeldTyped
  <2> QED BY <1>2, <2>1, <2>2 DEF HeldBy
<1> QED BY <1>1, <1>2

(* One entry changed: what the others hold did not.                        *)
LEMMA HeldChange ==
    ASSUME NEW s \in StackRecord, NEW r \in StackRecord, Counted(s), Counted(r), NEW k,
           NEW K \in SUBSET InProcess(s), NEW L \in SUBSET InProcess(r),
           K \ {k} = L \ {k}, SameBut(s, r, k)
    PROVE  Held(r, L) = Held(s, K) - (IF k \in K THEN s.reassemblies[k].len ELSE 0)
                                   + (IF k \in L THEN r.reassemblies[k].len ELSE 0)
<1>1. [q \in K \ {k} |-> s.reassemblies[q].len] = [q \in L \ {k} |-> r.reassemblies[q].len]
  BY DEF SameBut, InProcess
<1>2. Held(s, K \ {k}) = Held(r, L \ {k}) BY <1>1 DEF Held
<1>3. Held(s, K) = HeldBy(s, K, k) + Held(s, K \ {k})
  BY HeldSplit
<1>4. Held(r, L) = HeldBy(r, L, k) + Held(r, L \ {k})
  BY HeldSplit
<1>5. Held(s, K \ {k}) \in Nat
  <2>1. K \ {k} \in SUBSET InProcess(s) OBVIOUS
  <2> QED BY <2>1, HeldTyped
<1>6. HeldBy(s, K, k) \in Nat /\ HeldBy(r, L, k) \in Nat
  <2>1. k \in K => s.reassemblies[k].len \in Nat BY InProcessTyped
  <2>2. k \in L => r.reassemblies[k].len \in Nat BY InProcessTyped
  <2> QED BY <2>1, <2>2 DEF HeldBy
<1>7. Held(r, L) = Held(s, K) - HeldBy(s, K, k) + HeldBy(r, L, k)
  BY <1>2, <1>3, <1>4, <1>5, <1>6
<1> QED BY <1>7 DEF HeldBy

LEMMA AccountedSame ==
    ASSUME NEW s, NEW r, Accounted(s), SameAccounts(s, r), r.reassemblies = s.reassemblies
    PROVE  Accounted(r)
<1>1. InProcess(r) = InProcess(s) /\ \A p \in Peers : InProcessOf(r, p) = InProcessOf(s, p)
  BY DEF InProcess, InProcessOf
<1>2. \A K : Held(r, K) = Held(s, K) BY DEF Held
<1> QED BY <1>1, <1>2 DEF Accounted, SameAccounts

(* The entry of k changed, and the accounts with what it holds.            *)
LEMMA AccountedChange ==
    ASSUME NEW s \in StackRecord, NEW r \in StackRecord, Counted(s), Counted(r),
           Accounted(s), NEW k \in Key, SameBut(s, r, k),
           Adds(s, r, k.peer, Share(r, k) - Share(s, k)),
           \/ Share(r, k) <= Share(s, k)
           \/ RoomFor(s, k.peer, Share(r, k) - Share(s, k))
    PROVE  Accounted(r)
<1> DEFINE n == Share(r, k) - Share(s, k)
<1>1. k \in InProcess(s) <=> InProgress(s, k) BY DEF InProcess, InProgress, Known
<1>2. k \in InProcess(r) <=> InProgress(r, k) BY DEF InProcess, InProgress, Known
<1>3. InProcess(s) \ {k} = InProcess(r) \ {k} BY DEF InProcess, SameBut
<1>4. Share(s, k) \in Nat /\ Share(r, k) \in Nat
  BY <1>1, <1>2, InProcessTyped DEF Share
<1>5. s.octets \in Int /\ s.peerOctets \in [Peers -> Int] /\ k.peer \in Peers
  BY DEF StackRecord, Key
<1>6. MaxReassemblyOctets \in Int /\ MaxReassemblyOctetsPerPeer \in Int
  BY ReassemblyAssumption
<1>7. r.octets = Held(r, InProcess(r)) /\ r.octets <= MaxReassemblyOctets
  <2>1. Held(r, InProcess(r)) = Held(s, InProcess(s)) - Share(s, k) + Share(r, k)
    BY <1>1, <1>2, <1>3, HeldChange DEF Share
  <2>2. s.octets = Held(s, InProcess(s)) /\ s.octets <= MaxReassemblyOctets BY DEF Accounted
  <2>3. r.octets = s.octets + (Share(r, k) - Share(s, k)) BY DEF Adds
  <2>4. r.octets = Held(r, InProcess(r)) BY <1>4, <1>5, <2>1, <2>2, <2>3
  <2>5. CASE Share(r, k) <= Share(s, k) BY <1>4, <1>5, <1>6, <2>2, <2>3, <2>4, <2>5
  <2>6. CASE RoomFor(s, k.peer, Share(r, k) - Share(s, k))
    <3>1. s.octets + (Share(r, k) - Share(s, k)) <= MaxReassemblyOctets BY <2>6 DEF RoomFor
    <3> QED BY <2>3, <2>4, <3>1
  <2> QED BY <2>5, <2>6
<1>8. ASSUME NEW p \in Peers
      PROVE  /\ r.peerOctets[p] = Held(r, InProcessOf(r, p))
             /\ MaxReassemblyOctetsPerPeer # 0 =>
                   r.peerOctets[p] <= MaxReassemblyOctetsPerPeer
  <2>1. /\ s.peerOctets[p] = Held(s, InProcessOf(s, p))
        /\ MaxReassemblyOctetsPerPeer # 0 => s.peerOctets[p] <= MaxReassemblyOctetsPerPeer
    BY DEF Accounted
  <2>2. /\ InProcessOf(s, p) \in SUBSET InProcess(s)
        /\ InProcessOf(r, p) \in SUBSET InProcess(r)
        /\ InProcessOf(s, p) \ {k} = InProcessOf(r, p) \ {k}
    BY <1>3 DEF InProcessOf
  <2> DEFINE a == IF k \in InProcessOf(s, p) THEN s.reassemblies[k].len ELSE 0
             b == IF k \in InProcessOf(r, p) THEN r.reassemblies[k].len ELSE 0
  <2>3. Held(r, InProcessOf(r, p)) = Held(s, InProcessOf(s, p)) - a + b
    BY <2>2, HeldChange
  <2>4. CASE p = k.peer
    <3>1. a = Share(s, k) /\ b = Share(r, k)
      BY <1>1, <1>2, <2>4 DEF InProcessOf, Share
    <3>2. r.peerOctets[p] = s.peerOctets[p] + (Share(r, k) - Share(s, k))
      BY <1>5, <2>4 DEF Adds
    <3>3. s.peerOctets[p] \in Int BY <1>5
    <3> HIDE DEF a, b
    <3>4. r.peerOctets[p] = Held(r, InProcessOf(r, p))
      BY <1>4, <2>1, <2>3, <3>1, <3>2, <3>3
    <3>5. CASE Share(r, k) <= Share(s, k) BY <1>4, <1>6, <2>1, <3>2, <3>3, <3>4, <3>5
    <3>6. CASE RoomFor(s, k.peer, Share(r, k) - Share(s, k))
      <4>1. \/ MaxReassemblyOctetsPerPeer = 0
            \/ s.peerOctets[p] + (Share(r, k) - Share(s, k)) <= MaxReassemblyOctetsPerPeer
        BY <2>4, <3>6 DEF RoomFor
      <4> QED BY <3>2, <3>4, <4>1
    <3> QED BY <3>5, <3>6
  <2>5. CASE p # k.peer
    <3>1. a = 0 /\ b = 0 BY <2>5 DEF InProcessOf
    <3>2. r.peerOctets[p] = s.peerOctets[p] BY <1>5, <2>5 DEF Adds
    <3>3. s.peerOctets[p] \in Int BY <1>5
    <3> HIDE DEF a, b
    <3> QED BY <2>1, <2>3, <3>1, <3>2, <3>3
  <2> QED BY <2>4, <2>5
<1> QED BY <1>7, <1>8 DEF Accounted

(* What k held, if anything, was given back.                               *)
LEMMA AccountedWithout ==
    ASSUME NEW s \in StackRecord, NEW r \in StackRecord, Counted(s), Counted(r),
           Accounted(s), NEW k \in Key, SameBut(s, r, k), ~ InProgress(r, k),
           Adds(s, r, k.peer, 0 - Share(s, k))
    PROVE  Accounted(r)
<1>1. Share(r, k) = 0 BY DEF Share
<1>2. Share(s, k) \in Nat BY StackTyped DEF Share, InProgress, Known
<1> QED BY <1>1, <1>2, AccountedChange

LEMMA AccountedApart ==
    ASSUME NEW s \in StackRecord, NEW r \in StackRecord, Counted(s), Counted(r),
           Accounted(s), NEW k \in Key, SameBut(s, r, k), ~ InProgress(r, k),
           ~ InProgress(s, k), SameAccounts(s, r)
    PROVE  Accounted(r)
<1>1. 0 - Share(s, k) = 0 BY DEF Share
<1>2. s.octets \in Int /\ s.peerOctets \in [Peers -> Int] /\ k.peer \in Peers
  BY DEF StackRecord, Key
<1>3. Adds(s, r, k.peer, 0) BY <1>2 DEF SameAccounts, Adds
<1> QED BY <1>1, <1>3, AccountedWithout

LEMMA ConsistentOthers ==
    ASSUME NEW s, NEW r, NEW k, Consistent(s, {k}), SameBut(s, r, k)
    PROVE  Consistent(r, {k})
BY DEF Consistent, SameBut

LEMMA ChangesCompose ==
    ASSUME NEW s, NEW q, NEW r, NEW k, Changes(s, q, k), Changes(q, r, k)
    PROVE  Changes(s, r, k)
<1>1. SameBut(s, r, k) BY DEF Changes, SameBut
<1>2. \A kind : NewTimer(k, kind).key = k BY DEF NewTimer
<1>3. Others(q, k) \subseteq Others(s, k) BY <1>2 DEF Changes, Others
<1> QED BY <1>1, <1>3 DEF Changes

LEMMA EndWhole ==
    ASSUME NEW s, NEW k \in DOMAIN s.reassemblies, WholeBut(s, {k})
    PROVE  /\ Whole(EndReassembly(s, k))
           /\ Dropped(s, EndReassembly(s, k), k)
<1> DEFINE r == EndReassembly(s, k)
           e == s.reassemblies[k]
<1>1. s \in StackRecord BY DEF WholeBut
<1>2. /\ r \in StackRecord
      /\ r.reassemblies = Remove(s.reassemblies, k)
      /\ r.timers = {t \in s.timers : t.key # k \/ t.kind # Kind(s, k)}
      /\ e.failed /\ e.orphan => r.orphans = s.orphans - 1 /\ r.slots = s.slots
      /\ ~ (e.failed /\ e.orphan) => r.orphans = s.orphans /\ r.slots = s.slots - 1
      /\ Adds(s, r, k.peer, 0 - Share(s, k))
  BY <1>1, EndFields
<1>3. s.reassemblies \in EntryMaps BY <1>1 DEF StackRecord
<1> HIDE DEF r
<1>4. SameBut(s, r, k) /\ k \notin DOMAIN r.reassemblies
  <2>1. r.reassemblies = [q \in DOMAIN s.reassemblies \ {k} |-> s.reassemblies[q]]
    BY <1>2 DEF Remove
  <2>2. DOMAIN r.reassemblies = DOMAIN s.reassemblies \ {k} BY <2>1
  <2>3. \A q \in DOMAIN s.reassemblies \ {k} : r.reassemblies[q] = s.reassemblies[q]
    BY <2>1
  <2> QED BY <2>2, <2>3 DEF SameBut
<1>5. r.timers = Others(s, k) BY <1>2, OthersAreKept DEF WholeBut, Known
<1>6. Timed(r, {}) BY <1>4, <1>5, TimedRemoved DEF WholeBut
<1>7. k \in Orphans(s) <=> e.failed /\ e.orphan BY DEF Orphans
<1>8. Counted(r)
  <2> HIDE DEF e
  <2>1. k \in Orphans(s) => r.orphans = s.orphans - 1 /\ r.slots = s.slots BY <1>2, <1>7
  <2>2. k \notin Orphans(s) => r.orphans = s.orphans /\ r.slots = s.slots - 1 BY <1>2, <1>7
  <2> QED BY <1>1, <1>4, <2>1, <2>2, CountedRemoved DEF WholeBut
<1>9. Consistent(r, {}) BY <1>4, ConsistentOthers DEF WholeBut, Consistent
<1>10. Accounted(r)
  <2>1. k \in Key /\ ~ InProgress(r, k) BY <1>1, <1>4, StackTyped DEF InProgress, Known
  <2> QED BY <1>1, <1>2, <1>4, <1>8, <2>1, AccountedWithout DEF WholeBut
<1> QED BY <1>2, <1>4, <1>5, <1>6, <1>8, <1>9, <1>10 DEF Whole, WholeBut, Known, Dropped, r

LEMMA RejectWhole ==
    ASSUME ClockOK, NEW s, NEW u \in Segment, Whole(s), ~ Known(s, u.key)
    PROVE  /\ Whole(RejectSegment(s, u))
           /\ \/ s.orphans >= MaxReassemblies /\ RejectSegment(s, u) = s
                 /\ Dropped(s, s, u.key)
              \/ /\ ~ (s.orphans >= MaxReassemblies)
                 /\ Made(s, RejectSegment(s, u), u.key, "record", OrphanRecord(u))
<1> DEFINE r == RejectSegment(s, u)
           k == u.key
           e == OrphanRecord(u)
<1>1. s \in StackRecord BY DEF Whole, WholeBut
<1>2. /\ s.orphans >= MaxReassemblies => r = s
      /\ ~ (s.orphans >= MaxReassemblies) =>
            /\ r \in StackRecord
            /\ r.reassemblies = Put(s.reassemblies, k, e)
            /\ r.timers = s.timers \cup {NewTimer(k, "record")}
            /\ r.orphans = s.orphans + 1 /\ r.slots = s.slots
            /\ SameAccounts(s, r)
  BY <1>1, RejectFields
<1>3. k \in Key /\ e \in Record BY RecordsTyped DEF Segment
<1>4. Timed(s, {k}) BY DEF Whole, WholeBut, Timed
<1>5. s.timers = Others(s, k) BY <1>4, OthersAreKept
<1>6. e.failed /\ e.orphan BY DEF OrphanRecord
<1> HIDE DEF r, k, e
<1>7. CASE s.orphans >= MaxReassemblies
  BY <1>2, <1>5, <1>7 DEF Dropped, SameBut, r, k
<1>8. CASE ~ (s.orphans >= MaxReassemblies)
  <2>1. s.reassemblies \in EntryMaps BY <1>1 DEF StackRecord
  <2>2. SameBut(s, r, k) /\ k \in DOMAIN r.reassemblies /\ r.reassemblies[k] = e
    <3>1. r.reassemblies = [q \in DOMAIN s.reassemblies \cup {k} |->
                              IF q = k THEN e ELSE s.reassemblies[q]]
      BY <1>2, <1>8 DEF Put
    <3>2. DOMAIN r.reassemblies = DOMAIN s.reassemblies \cup {k} /\ r.reassemblies[k] = e
      BY <3>1
    <3>3. \A q \in DOMAIN s.reassemblies \ {k} : r.reassemblies[q] = s.reassemblies[q]
      BY <3>1
    <3> QED BY <3>2, <3>3 DEF SameBut
  <2>3. r.timers = Others(s, k) \cup {NewTimer(k, "record")} BY <1>2, <1>5, <1>8
  <2>4. Kind(r, k) = "record" BY <1>6, <2>2 DEF Kind
  <2>5. Timed(r, {}) BY <1>4, <2>2, <2>3, <2>4, TimedAdded
  <2>6. k \in Orphans(r) BY <1>6, <2>2 DEF Orphans
  <2>7. s.orphans < MaxReassemblies
    BY <1>1, <1>8, ReassemblyAssumption DEF StackRecord
  <2>8. k \notin DOMAIN s.reassemblies BY DEF Known, k
  <2>9. Counted(r)
    BY <1>1, <1>2, <1>8, <2>2, <2>6, <2>7, <2>8, CountedAdded DEF Whole, WholeBut
  <2>10. Consistent(r, {})
    <3>1. Consistent(r, {k}) BY <2>2, ConsistentOthers DEF Whole, WholeBut, Consistent
    <3> QED BY <3>1, <1>6, <2>2 DEF Consistent
  <2>11. Accounted(r)
    <3>1. ~ InProgress(r, k) BY <1>6, <2>2 DEF InProgress
    <3>2. ~ InProgress(s, k) BY <2>8 DEF InProgress, Known
    <3> QED BY <1>1, <1>2, <1>3, <1>8, <2>2, <2>9, <3>1, <3>2, AccountedApart
            DEF Whole, WholeBut
  <2> QED BY <1>2, <1>8, <2>2, <2>3, <2>5, <2>9, <2>10, <2>11 DEF Whole, WholeBut, Known, Made, r, k, e
<1> QED BY <1>7, <1>8

LEMMA FailWhole ==
    ASSUME ClockOK, NEW s, NEW k, WholeBut(s, {k}), InProgress(s, k), NEW asked \in BOOLEAN
    PROVE  /\ Whole(FailReassembly(s, k, asked))
           /\ Made(s, FailReassembly(s, k, asked), k, "record", FailedRecord(s.reassemblies[k]))
<1> DEFINE r == FailReassembly(s, k, asked)
           e == FailedRecord(s.reassemblies[k])
<1>1. s \in StackRecord /\ k \in DOMAIN s.reassemblies /\ ~ s.reassemblies[k].failed
  BY DEF WholeBut, InProgress, Known
<1>2. /\ r \in StackRecord /\ e \in Record
      /\ r.reassemblies = [s.reassemblies EXCEPT ![k] = e]
      /\ r.timers = {t \in s.timers : t.key # k \/ t.kind # "process"} \cup {NewTimer(k, "record")}
      /\ r.orphans = s.orphans /\ r.slots = s.slots
      /\ Adds(s, r, k.peer, 0 - Share(s, k))
  BY <1>1, FailFields
<1>3. e.failed /\ ~ e.orphan BY DEF FailedRecord
<1>4. s.reassemblies \in EntryMaps BY <1>1 DEF StackRecord
<1> HIDE DEF r, e
<1>5. SameBut(s, r, k) /\ DOMAIN r.reassemblies = DOMAIN s.reassemblies
      /\ r.reassemblies[k] = e
  BY <1>1, <1>2, <1>4, ReplaceMap DEF SameBut
<1>6. Kind(s, k) = "process" /\ Kind(r, k) = "record" BY <1>1, <1>3, <1>5 DEF Kind
<1>7. r.timers = Others(s, k) \cup {NewTimer(k, "record")}
  BY <1>1, <1>2, <1>6, OthersAreKept DEF WholeBut, Known
<1>8. Timed(r, {}) BY <1>1, <1>5, <1>6, <1>7, TimedAdded DEF WholeBut
<1>9. Orphans(r) = Orphans(s) BY <1>1, <1>3, <1>5 DEF Orphans, SameBut
<1>10. Counted(r) BY <1>2, <1>5, <1>9 DEF WholeBut, Counted, Slotted
<1>11. Consistent(r, {})
  <2>1. Consistent(r, {k}) BY <1>5, ConsistentOthers DEF WholeBut
  <2> QED BY <2>1, <1>3, <1>5 DEF Consistent
<1>12. Accounted(r)
  <2>1. k \in Key BY <1>1, StackTyped
  <2>2. ~ InProgress(r, k) BY <1>3, <1>5 DEF InProgress
  <2> QED BY <1>1, <1>2, <1>5, <1>10, <2>1, <2>2, AccountedWithout DEF WholeBut
<1>13. Made(s, r, k, "record", e) BY <1>1, <1>5, <1>7 DEF Made, Known
<1>14. Whole(r) BY <1>2, <1>8, <1>10, <1>11, <1>12 DEF Whole, WholeBut
<1> QED BY <1>13, <1>14 DEF r, e

(* Each step starts with an empty Result.                                  *)
LEMMA FreshWhole ==
    ASSUME NEW gaps, WholeBut(stack, gaps)
    PROVE  /\ WholeBut(Fresh, gaps)
           /\ Fresh.reassemblies = stack.reassemblies /\ Fresh.timers = stack.timers
           /\ Fresh.slots = stack.slots /\ Fresh.orphans = stack.orphans
           /\ SameAccounts(stack, Fresh) /\ Fresh.res = <<>>
<1>1. stack \in StackRecord BY DEF WholeBut
<1>2. <<>> \in Seq(Result) OBVIOUS
<1>3. Fresh \in StackRecord BY <1>1, <1>2 DEF Fresh, StackRecord
<1>4. Fresh.reassemblies = stack.reassemblies /\ Fresh.timers = stack.timers
  BY <1>1 DEF Fresh, StackRecord
<1>5. Fresh.slots = stack.slots /\ Fresh.orphans = stack.orphans
  BY <1>1 DEF Fresh, StackRecord
<1>6. Counted(Fresh) BY <1>4, <1>5 DEF WholeBut, Counted, Orphans, Slotted
<1>7. Timed(Fresh, gaps) BY <1>4 DEF WholeBut, Timed, Known, Kind
<1>8. Consistent(Fresh, gaps) BY <1>4 DEF WholeBut, Consistent
<1>9. SameAccounts(stack, Fresh) BY <1>1 DEF Fresh, SameAccounts, StackRecord
<1>10. Accounted(Fresh) BY <1>4, <1>9, AccountedSame DEF WholeBut
<1>11. Fresh.res = <<>> BY <1>1 DEF Fresh, StackRecord
<1> QED BY <1>3, <1>4, <1>5, <1>6, <1>7, <1>8, <1>9, <1>10, <1>11 DEF WholeBut

(* What each leaves in the Result of the call.                             *)
ReturnOf(k, content, asked) ==
    IF asked THEN <<[type |-> "return", key |-> k, data |-> <<content>>]>> ELSE <<>>

LEMMA ReturnResult ==
    ASSUME NEW s, "res" \in DOMAIN s, s.res = <<>>, NEW k, NEW content, NEW asked
    PROVE  /\ "res" \in DOMAIN Return(s, k, content, asked)
           /\ Return(s, k, content, asked).res = ReturnOf(k, content, asked)
BY DEF Return, ReturnOf

LEMMA Results ==
    ASSUME NEW s, s \in StackRecord, s.res = <<>>, NEW k
    PROVE  /\ EndReassembly(s, k).res = <<>>
           /\ \A asked : FailReassembly(s, k, asked).res =
                           ReturnOf(k, s.reassemblies[k].first.content, asked)
           /\ \A u : ~ (s.orphans >= MaxReassemblies) =>
                 RejectSegment(s, u).res = ReturnOf(u.key, u.content, u.returnOnError)
<1>1. "res" \in DOMAIN s BY DEF StackRecord
<1>2. EndReassembly(s, k).res = <<>> BY <1>1 DEF EndReassembly, Hold, Stop
<1>3. \A asked : FailReassembly(s, k, asked).res =
                    ReturnOf(k, s.reassemblies[k].first.content, asked)
  BY <1>1, ReturnResult DEF FailReassembly, Hold, Stop, Schedule
<1>4. \A u : ~ (s.orphans >= MaxReassemblies) =>
          RejectSegment(s, u).res = ReturnOf(u.key, u.content, u.returnOnError)
  BY <1>1, ReturnResult DEF RejectSegment, Schedule
<1> QED BY <1>2, <1>3, <1>4

(* What a new message finds: no entry of its key.                          *)
LEMMA ClearedWhole ==
    ASSUME Whole(stack), NEW u, ~ InProgress(stack, u.key)
    PROVE  /\ Whole(Cleared(u)) /\ Cleared(u).res = <<>>
           /\ Dropped(stack, Cleared(u), u.key)
<1>1. Whole(Fresh) /\ Fresh.reassemblies = stack.reassemblies /\ Fresh.timers = stack.timers
      /\ Fresh.res = <<>>
  BY FreshWhole DEF Whole
<1>2. CASE Failed(stack, u.key)
  <2>1. u.key \in DOMAIN Fresh.reassemblies BY <1>1, <1>2 DEF Failed, Known
  <2>2. WholeBut(Fresh, {u.key}) BY <1>1 DEF Whole, WholeBut, Timed, Consistent
  <2>3. Cleared(u) = EndReassembly(Fresh, u.key) BY <1>2 DEF Cleared
  <2>4. Whole(Cleared(u)) /\ Dropped(Fresh, Cleared(u), u.key)
    BY <2>1, <2>2, <2>3, EndWhole
  <2>5. Cleared(u).res = <<>> BY <1>1, <2>3, Results DEF Whole, WholeBut
  <2> QED BY <2>4, <2>5, <1>1 DEF Dropped, SameBut, Others
<1>3. CASE ~ Failed(stack, u.key)
  <2>1. ~ Known(stack, u.key) BY <1>3 DEF Failed, InProgress
  <2>2. Cleared(u) = Fresh BY <1>3 DEF Cleared
  <2>3. Timed(stack, {u.key}) BY DEF Whole, WholeBut, Timed
  <2>4. stack.timers = Others(stack, u.key) BY <2>1, <2>3, OthersAreKept
  <2> QED BY <1>1, <2>1, <2>2, <2>4 DEF Known, Dropped, SameBut
<1> QED BY <1>2, <1>3

-----------------------------------------------------------------------------
(* The invariant, and what becomes of a process.                           *)

(* T(reassembly) of a record began with it, by a clock that was at most    *)
(* MaxLag old.                                                             *)
Aged ==
    \A t \in stack.timers :
        t.kind = "record" =>
            \/ recordAge[t.key] >= ReassemblyTimeout
            \/ recordAge[t.key] + t.left >= ReassemblyTimeout - MaxLag

Inv ==
    /\ Whole(stack)
    /\ locked \in BOOLEAN
    /\ ClockOK
    /\ recordAge \in [Key -> Nat]
    /\ Aged

StartedProcess(u) ==
    [failed |-> FALSE, first |-> u, expected |-> (u.remaining - 1) % 256,
     data |-> <<u.content>>, len |-> u.len, returnOnError |-> u.returnOnError]

LEMMA SegmentTyped ==
    ASSUME NEW u \in Segment
    PROVE  /\ u.key \in Key /\ u.key.peer \in Peers /\ u.first \in BOOLEAN
           /\ u.remaining \in Nat /\ u.remaining <= 15
           /\ u.content \in Contents /\ u.returnOnError \in BOOLEAN
           /\ u.len \in Nat /\ u.len >= 1 /\ u.len \in Lengths
<1>1. u.key \in Key /\ u.first \in BOOLEAN /\ u.remaining \in 0 .. MaxSegments - 1
      /\ u.content \in Contents /\ u.returnOnError \in BOOLEAN /\ u.len \in Lengths
  BY DEF Segment
<1>2. u.key.peer \in Peers BY <1>1 DEF Key
<1>3. u.remaining \in Nat /\ u.remaining <= 15
  <2>1. MaxSegments \in Int /\ MaxSegments <= 16 BY ReassemblyAssumption
  <2>2. u.remaining \in Int /\ 0 <= u.remaining /\ u.remaining <= MaxSegments - 1
    BY <1>1, <2>1
  <2> QED BY <2>1, <2>2
<1>4. u.len \in Nat /\ u.len >= 1
  <2>1. u.len \in Nat \ {0} BY <1>1, ReassemblyAssumption
  <2> QED BY <2>1
<1> QED BY <1>1, <1>2, <1>3, <1>4

LEMMA StartedIsConsistent ==
    ASSUME NEW u \in Segment, u.remaining # 0
    PROVE  StartedProcess(u) \in Process /\ ConsistentProcess(StartedProcess(u))
<1> DEFINE p == StartedProcess(u)
<1>1. u.remaining \in 1 .. 15 /\ u.len \in Nat /\ u.content \in Contents
      /\ u.returnOnError \in BOOLEAN
  BY SegmentTyped
<1>2. (u.remaining - 1) % 256 = u.remaining - 1 BY <1>1
<1>3. /\ p.failed = FALSE /\ p.first = u /\ p.expected = u.remaining - 1
      /\ p.data = <<u.content>> /\ p.len = u.len /\ p.returnOnError = u.returnOnError
  BY <1>2 DEF StartedProcess
<1>4. p \in Process
  <2>1. u.remaining - 1 \in 0 .. 255 BY <1>1
  <2>2. <<u.content>> \in Seq(Contents) BY <1>1
  <2> QED BY <1>1, <1>2, <2>1, <2>2 DEF StartedProcess, Process
<1>5. Len(p.data) = 1 /\ p.data[1] = u.content BY <1>1, <1>3
<1>6. p.len <= Bound(p)
  <2>1. u.len * u.remaining \in Nat BY <1>1
  <2>2. u.len * (u.remaining + 1) = u.len * u.remaining + u.len BY <1>1
  <2>3. u.len <= u.len * (u.remaining + 1) BY <1>1, <2>1, <2>2
  <2> QED BY <1>3, <2>3 DEF Bound
<1> HIDE DEF p
<1>7. ConsistentProcess(p) BY <1>1, <1>3, <1>5, <1>6 DEF ConsistentProcess
<1> QED BY <1>4, <1>7 DEF p

(* A message starts.                                                       *)
LEMMA StartWhole ==
    ASSUME Inv, NEW u \in Segment, Segmented(u), StartReassembly(u)
    PROVE  /\ Whole(stack') /\ stack'.res = <<>>
           /\ Made(stack, stack', u.key, "process", StartedProcess(u))
<1> DEFINE k == u.key
           c == Cleared(u)
           p == StartedProcess(u)
           m == Put(c.reassemblies, k, p)
           admitted == [c EXCEPT !.reassemblies = m, !.slots = @ + 1]
           held == Hold(admitted, k.peer, u.len)
           r == Schedule(held, k, "process")
<1>1. u.first /\ u.remaining # 0 /\ ~ InProgress(stack, k)
  BY DEF StartReassembly, StartsMessage, Segmented
<1>2. Whole(c) /\ ~ Known(c, k) /\ Dropped(stack, c, k) /\ c.res = <<>>
  BY <1>1, ClearedWhole DEF Inv, Dropped
<1>3. c.slots < MaxReassemblies /\ RoomFor(c, k.peer, u.len)
  BY DEF StartReassembly, CanStart
<1>4. stack' = r BY DEF StartReassembly, Becomes, StartedProcess
<1>5. p \in Process /\ ConsistentProcess(p) /\ ~ p.failed /\ p.len = u.len
  <2>1. p \in Process /\ ConsistentProcess(p) BY <1>1, StartedIsConsistent
  <2> QED BY <2>1 DEF StartedProcess
<1>6. k \in Key /\ k.peer \in Peers /\ u.len \in Int BY SegmentTyped
<1> HIDE DEF k, c, p
<1>7. c \in StackRecord /\ c.reassemblies \in EntryMaps
  BY <1>2 DEF Whole, WholeBut, StackRecord
<1>8. m \in EntryMaps BY <1>5, <1>6, <1>7, PutMap
<1>9. m = [q \in DOMAIN c.reassemblies \cup {k} |-> IF q = k THEN p ELSE c.reassemblies[q]]
  BY DEF Put
<1> HIDE DEF m
<1>10. /\ admitted \in StackRecord /\ admitted.reassemblies = m
       /\ admitted.timers = c.timers
       /\ admitted.orphans = c.orphans /\ admitted.slots = c.slots + 1
       /\ SameAccounts(c, admitted)
  BY <1>7, <1>8, AdmitFields DEF SameAccounts
<1> HIDE DEF admitted
<1>11. /\ held \in StackRecord /\ held.reassemblies = m /\ held.timers = c.timers
       /\ held.orphans = c.orphans /\ held.slots = c.slots + 1
       /\ Adds(admitted, held, k.peer, u.len)
  BY <1>6, <1>10, HoldFields
<1> HIDE DEF held
<1>12. /\ r \in StackRecord /\ r.reassemblies = m
       /\ r.timers = c.timers \cup {NewTimer(k, "process")}
       /\ r.orphans = c.orphans /\ r.slots = c.slots + 1
       /\ SameAccounts(held, r)
  BY <1>6, <1>11, ScheduleFields DEF Inv
<1> HIDE DEF r
<1>13. SameBut(c, r, k) /\ k \in DOMAIN r.reassemblies /\ r.reassemblies[k] = p
  <2>1. DOMAIN r.reassemblies = DOMAIN c.reassemblies \cup {k} BY <1>9, <1>12
  <2>2. r.reassemblies[k] = p BY <1>9, <1>12
  <2>3. \A q \in DOMAIN c.reassemblies \ {k} : r.reassemblies[q] = c.reassemblies[q]
    BY <1>9, <1>12
  <2> QED BY <2>1, <2>2, <2>3 DEF SameBut
<1>14. Timed(c, {k}) BY <1>2 DEF Whole, WholeBut, Timed
<1>15. r.timers = Others(c, k) \cup {NewTimer(k, "process")}
  BY <1>2, <1>12, <1>14, OthersAreKept
<1>16. Kind(r, k) = "process" BY <1>5, <1>13 DEF Kind
<1>17. Timed(r, {}) BY <1>13, <1>14, <1>15, <1>16, TimedAdded
<1>18. Counted(r)
  <2>1. k \notin Orphans(r) BY <1>5, <1>13 DEF Orphans
  <2>2. k \notin DOMAIN c.reassemblies BY <1>2 DEF Known
  <2> QED BY <1>2, <1>3, <1>7, <1>12, <1>13, <2>1, <2>2, CountedAdded DEF Whole, WholeBut
<1>19. Consistent(r, {})
  <2>1. Consistent(r, {k}) BY <1>2, <1>13, ConsistentOthers DEF Whole, WholeBut, Consistent
  <2> QED BY <2>1, <1>5, <1>13 DEF Consistent
<1>20. Made(c, r, k, "process", p) BY <1>13, <1>15 DEF Made, Known
<1>21. Made(stack, r, k, "process", p) BY <1>2, <1>20, DroppedFirst
<1>22. Accounted(r)
  <2>1. Adds(c, r, k.peer, u.len) BY <1>10, <1>11, <1>12 DEF Adds, SameAccounts
  <2>2. Share(c, k) = 0 BY <1>2 DEF Share, InProgress
  <2>3. Share(r, k) = u.len BY <1>5, <1>13 DEF Share, InProgress, Known
  <2>4. Share(r, k) - Share(c, k) = u.len BY <1>6, <2>2, <2>3
  <2> QED BY <1>2, <1>3, <1>6, <1>7, <1>12, <1>13, <1>18, <2>1, <2>4, AccountedChange
          DEF Whole, WholeBut
<1>23. r.res = <<>>
  <2>1. "res" \in DOMAIN c BY <1>7 DEF StackRecord
  <2> HIDE DEF m
  <2> QED BY <1>2, <2>1 DEF r, held, admitted, Schedule, Hold
<1> QED BY <1>4, <1>12, <1>17, <1>18, <1>19, <1>21, <1>22, <1>23 DEF Whole, WholeBut, k, p

(* The process with the segment appended.                                  *)
WithSegment(p, u) ==
    [p EXCEPT !.data = Append(@, u.content), !.len = @ + u.len, !.returnOnError = Asked(u)]

(* A stack in which the process of k became another.                       *)
LEMMA ProcessReplaced ==
    ASSUME NEW s, NEW r \in StackRecord, NEW k, NEW p, Whole(s), InProgress(s, k), ~ p.failed,
           r.reassemblies = [s.reassemblies EXCEPT ![k] = p], r.timers = s.timers,
           r.orphans = s.orphans, r.slots = s.slots,
           Adds(s, r, k.peer, p.len - s.reassemblies[k].len),
           RoomFor(s, k.peer, p.len - s.reassemblies[k].len)
    PROVE  /\ SameBut(s, r, k) /\ DOMAIN r.reassemblies = DOMAIN s.reassemblies
           /\ r.reassemblies[k] = p
           /\ WholeBut(r, {k})
           /\ ConsistentProcess(p) => Whole(r)
<1>1. k \in DOMAIN s.reassemblies /\ ~ s.reassemblies[k].failed BY DEF InProgress, Known
<1>2. s.reassemblies \in EntryMaps BY DEF Whole, WholeBut, StackRecord
<1>3. s.reassemblies = [q \in DOMAIN s.reassemblies |-> s.reassemblies[q]] BY <1>2, MapsTyped
<1>4. DOMAIN r.reassemblies = DOMAIN s.reassemblies BY <1>3
<1>5. r.reassemblies[k] = p BY <1>1, <1>3
<1>6. \A q \in DOMAIN s.reassemblies \ {k} : r.reassemblies[q] = s.reassemblies[q] BY <1>3
<1>7. SameBut(s, r, k) BY <1>4, <1>6 DEF SameBut
<1>8. Orphans(r) = Orphans(s) BY <1>1, <1>4, <1>5, <1>6 DEF Orphans
<1>9. Counted(r) BY <1>4, <1>8 DEF Whole, WholeBut, Counted, Slotted
<1>10. \A q \in DOMAIN s.reassemblies : Kind(r, q) = Kind(s, q)
  BY <1>1, <1>5, <1>6 DEF Kind
<1>11. Timed(r, {}) BY <1>4, <1>10 DEF Whole, WholeBut, Timed, Known
<1>12. Consistent(r, {k}) BY <1>7, ConsistentOthers DEF Whole, WholeBut, Consistent
<1>13. Accounted(r)
  <2>1. Share(r, k) = p.len BY <1>1, <1>4, <1>5 DEF Share, InProgress, Known
  <2>2. Share(s, k) = s.reassemblies[k].len BY DEF Share
  <2>3. s \in StackRecord /\ Counted(s) /\ Accounted(s) BY DEF Whole, WholeBut
  <2>4. k \in Key BY <1>1, <2>3, StackTyped
  <2> QED BY <1>7, <1>9, <2>1, <2>2, <2>3, <2>4, AccountedChange
<1>14. WholeBut(r, {k}) BY <1>9, <1>11, <1>12, <1>13 DEF WholeBut, Timed
<1>15. ConsistentProcess(p) => Consistent(r, {}) BY <1>5, <1>12 DEF Consistent
<1> QED BY <1>4, <1>5, <1>7, <1>9, <1>11, <1>13, <1>14, <1>15 DEF Whole, WholeBut

LEMMA ExtendedFields ==
    ASSUME Inv, NEW u \in Segment, Continues(u)
    PROVE  LET k == u.key
               p == stack.reassemblies[k]
               x == Extended(u)
           IN  /\ k \in DOMAIN stack.reassemblies /\ p \in Process /\ ~ p.failed
               /\ ConsistentProcess(p)
               /\ WithSegment(p, u) \in Process
               /\ x \in StackRecord
               /\ x.reassemblies = [stack.reassemblies EXCEPT ![k] = WithSegment(p, u)]
               /\ x.timers = stack.timers /\ x.orphans = stack.orphans /\ x.slots = stack.slots
               /\ Adds(stack, x, k.peer, u.len)
<1> DEFINE k == u.key
           p == stack.reassemblies[k]
           q == WithSegment(p, u)
           m == [Fresh.reassemblies EXCEPT ![k] = q]
           f == [Fresh EXCEPT !.reassemblies = m]
<1>1. k \in DOMAIN stack.reassemblies /\ ~ p.failed BY DEF Continues, InProgress, Known
<1>2. stack \in StackRecord /\ stack.reassemblies \in EntryMaps
  BY DEF Inv, Whole, WholeBut, StackRecord
<1>3. p \in Process BY <1>1, <1>2, StackTyped
<1>4. ConsistentProcess(p) BY <1>1 DEF Inv, Whole, WholeBut, Consistent
<1>5. q \in Process
  <2>1. p.returnOnError \in BOOLEAN /\ p.data \in Seq(Contents) /\ p.len \in Nat
    BY <1>3 DEF Process
  <2>2. u.content \in Contents /\ u.len \in Nat /\ u.returnOnError \in BOOLEAN BY SegmentTyped
  <2>3. Asked(u) \in BOOLEAN BY <2>1, <2>2 DEF Asked
  <2>4. Append(p.data, u.content) \in Seq(Contents) BY <2>1, <2>2, AppendProperties
  <2>5. p.len + u.len \in Nat BY <2>1, <2>2
  <2> QED BY <1>3, <2>3, <2>4, <2>5 DEF WithSegment, Process
<1>6. Extended(u) = Hold(f, k.peer, u.len) BY DEF Extended, WithSegment
<1>7. k.peer \in Peers /\ u.len \in Int BY SegmentTyped
<1>8. /\ Fresh \in StackRecord
      /\ Fresh.reassemblies = stack.reassemblies /\ Fresh.timers = stack.timers
      /\ Fresh.slots = stack.slots /\ Fresh.orphans = stack.orphans
      /\ SameAccounts(stack, Fresh)
  BY FreshWhole DEF Inv, Whole, WholeBut
<1> HIDE DEF k, p, q
<1>9. m \in EntryMaps /\ m = [stack.reassemblies EXCEPT ![k] = q]
  BY <1>1, <1>2, <1>5, <1>8, ReplaceMap
<1> HIDE DEF m
<1>10. /\ f \in StackRecord /\ f.reassemblies = m /\ f.timers = stack.timers
       /\ f.orphans = stack.orphans /\ f.slots = stack.slots
       /\ SameAccounts(stack, f)
  BY <1>8, <1>9, MapField DEF SameAccounts
<1> HIDE DEF f
<1>11. LET x == Hold(f, k.peer, u.len)
       IN  /\ x \in StackRecord /\ x.reassemblies = m /\ x.timers = stack.timers
           /\ x.orphans = stack.orphans /\ x.slots = stack.slots
           /\ Adds(stack, x, k.peer, u.len)
  BY <1>7, <1>10, HoldFields DEF Adds, SameAccounts
<1> QED BY <1>1, <1>3, <1>4, <1>5, <1>6, <1>9, <1>11 DEF k, p, q

(* What the process p becomes with the segment.                            *)
Extends(p, u, q) ==
    /\ ~ q.failed /\ q.first = p.first /\ q.expected = p.expected - 1
    /\ q.data = Append(p.data, u.content) /\ q.len = p.len + u.len

(* A segment continues the message.                                        *)
LEMMA ExtendWhole ==
    ASSUME Inv, NEW u \in Segment, ExtendReassembly(u)
    PROVE  /\ Whole(stack') /\ SameBut(stack, stack', u.key)
           /\ stack'.timers = stack.timers /\ stack'.res = <<>>
           /\ InProgress(stack, u.key)
           /\ Known(stack', u.key)
           /\ Extends(stack.reassemblies[u.key], u, stack'.reassemblies[u.key])
<1> DEFINE k == u.key
           p == stack.reassemblies[k]
           x == Extended(u)
           l == WithSegment(p, u)
           q == [l EXCEPT !.expected = (@ - 1) % 256]
           m == [x.reassemblies EXCEPT ![k] = q]
           r == [x EXCEPT !.reassemblies = m]
<1>1. Continues(u) /\ InProgress(stack, k) /\ Fits(u) /\ u.remaining > 0
  BY DEF ExtendReassembly, Continues
<1>2. /\ k \in DOMAIN stack.reassemblies /\ p \in Process /\ ~ p.failed
      /\ ConsistentProcess(p)
      /\ l \in Process
      /\ x \in StackRecord
      /\ x.reassemblies = [stack.reassemblies EXCEPT ![k] = l]
      /\ x.timers = stack.timers /\ x.orphans = stack.orphans /\ x.slots = stack.slots
      /\ Adds(stack, x, k.peer, u.len)
  BY <1>1, ExtendedFields
<1>3. u.remaining = p.expected /\ p.len + u.len <= Bound(p) /\ p.len + u.len <= MaxLongData
      /\ RoomFor(stack, k.peer, u.len)
  BY <1>1 DEF Fits
<1>4. /\ l.failed = p.failed /\ l.first = p.first /\ l.expected = p.expected
      /\ l.data = Append(p.data, u.content) /\ l.len = p.len + u.len
  BY <1>2 DEF WithSegment, Process
<1>5. /\ u.remaining \in Nat /\ u.len \in Nat /\ u.len >= 1 /\ u.content \in Contents
  BY SegmentTyped
<1>6. p.expected \in 1 .. 255 /\ (p.expected - 1) % 256 = p.expected - 1
  <2>1. p.expected \in 0 .. 255 BY <1>2 DEF Process
  <2>2. u.remaining > 0 /\ u.remaining = p.expected BY <1>1, <1>3
  <2> DEFINE n == p.expected
  <2>3. n \in 0 .. 255 /\ n > 0 BY <2>1, <2>2
  <2> HIDE DEF n
  <2>4. n \in 1 .. 255 /\ (n - 1) % 256 = n - 1 BY <2>3
  <2> QED BY <2>4 DEF n
<1>7. q = [l EXCEPT !.expected = p.expected - 1] BY <1>4, <1>6
<1>8. q \in Process
  <2> HIDE DEF p, l, x, m, r, q
  <2>1. p.expected - 1 \in 0 .. 255 BY <1>6
  <2> DEFINE e == p.expected - 1
  <2> HIDE DEF e
  <2>2. l \in Process /\ e \in 0 .. 255 BY <1>2, <2>1 DEF e
  <2>3. [l EXCEPT !.expected = e] \in Process BY <2>2 DEF Process
  <2> QED BY <1>7, <2>3 DEF e
<1>9. /\ ~ q.failed /\ q.first = p.first /\ q.expected = p.expected - 1
      /\ q.data = Append(p.data, u.content) /\ q.len = p.len + u.len
  <2> HIDE DEF l, p
  <2> QED BY <1>2, <1>4, <1>7 DEF Process
<1>10. stack' = r
  <2>1. stack' = [x EXCEPT !.reassemblies[k].expected = (@ - 1) % 256]
    BY DEF ExtendReassembly, Becomes
  <2>2. x.reassemblies[k] = l BY <1>2
  <2> QED BY <2>1, <2>2
<1>11. Bound(q) = Bound(p) BY <1>9 DEF Bound
<1>12. p.data \in Seq(Contents) /\ p.first.len \in Nat /\ p.len \in Nat /\ p.first.remaining \in Nat
  <2>1. p.data \in Seq(Contents) /\ p.first \in Segment /\ p.len \in Nat BY <1>2 DEF Process
  <2> QED BY <2>1, SegmentTyped
<1> HIDE DEF p, q, l, x, k
<1>13. /\ Len(q.data) = Len(p.data) + 1 /\ Len(p.data) \in Nat
       /\ \A i \in 1 .. Len(p.data) : q.data[i] = p.data[i]
  BY <1>5, <1>9, <1>12, AppendProperties
<1>14. ConsistentProcess(q)
  <2>1. Len(p.data) >= 1 /\ Len(p.data) + p.expected = p.first.remaining
        /\ p.data[1] = p.first.content /\ p.len >= p.first.len + Len(p.data) - 1
    BY <1>2 DEF ConsistentProcess
  <2>2. Len(q.data) >= 1 /\ Len(q.data) + q.expected = q.first.remaining
    <3>1. p.expected \in Int /\ Len(q.data) = Len(p.data) + 1 /\ Len(p.data) \in Int
      <4>1. p.expected \in 1 .. 255 BY <1>6
      <4>2. p.expected \in Int BY <4>1
      <4> QED BY <4>2, <1>13
    <3>2. q.expected = p.expected - 1 /\ q.first.remaining = p.first.remaining BY <1>9
    <3>3. Len(p.data) >= 1 /\ Len(p.data) + p.expected = p.first.remaining BY <2>1
    <3>4. Len(q.data) >= 1 BY <3>1, <3>3
    <3>5. Len(q.data) + q.expected = Len(p.data) + p.expected BY <3>1, <3>2
    <3> QED BY <3>2, <3>3, <3>4, <3>5
  <2>3. q.data[1] = q.first.content BY <1>9, <1>13, <2>1
  <2>4. q.len <= Bound(q) /\ q.len <= MaxLongData BY <1>3, <1>9, <1>11
  <2>5. q.len >= q.first.len + Len(q.data) - 1 BY <1>5, <1>9, <1>12, <1>13, <2>1
  <2> QED BY <2>2, <2>3, <2>4, <2>5 DEF ConsistentProcess
<1>15. m = [stack.reassemblies EXCEPT ![k] = q]
  <2>1. stack.reassemblies \in EntryMaps BY DEF Inv, Whole, WholeBut, StackRecord
  <2>2. stack.reassemblies = [e \in DOMAIN stack.reassemblies |-> stack.reassemblies[e]]
    BY <2>1, MapsTyped
  <2> QED BY <1>2, <2>2
<1>16. m \in EntryMaps
  <2>1. stack.reassemblies \in EntryMaps BY DEF Inv, Whole, WholeBut, StackRecord
  <2> QED BY <1>2, <1>8, <1>15, <2>1, ReplaceMap
<1> HIDE DEF m
<1>17. /\ r \in StackRecord /\ r.reassemblies = m /\ r.timers = stack.timers
       /\ r.orphans = stack.orphans /\ r.slots = stack.slots
       /\ SameAccounts(x, r)
  BY <1>2, <1>16, MapField DEF SameAccounts
<1> HIDE DEF r
<1>18. Whole(stack) BY DEF Inv
<1>19. Whole(r) /\ SameBut(stack, r, k)
  <2>1. q.len - stack.reassemblies[k].len = u.len BY <1>5, <1>9, <1>12 DEF p
  <2>2. Adds(stack, r, k.peer, u.len) BY <1>2, <1>17 DEF Adds, SameAccounts
  <2> QED BY <1>1, <1>3, <1>9, <1>14, <1>15, <1>17, <1>18, <2>1, <2>2, ProcessReplaced
<1>20. Known(r, k) /\ Extends(stack.reassemblies[k], u, r.reassemblies[k])
  <2>1. r.reassemblies[k] = q /\ k \in DOMAIN r.reassemblies
    <3>1. stack.reassemblies \in EntryMaps BY DEF Inv, Whole, WholeBut, StackRecord
    <3> QED BY <1>2, <1>8, <1>15, <1>17, <3>1, ReplaceMap
  <2>2. Extends(p, u, q) BY <1>9, <2>1 DEF Extends
  <2> QED BY <2>1, <2>2 DEF Known, p
<1>21. r.res = <<>>
  <2>1. "res" \in DOMAIN Fresh /\ Fresh.res = <<>>
    BY FreshWhole DEF Inv, Whole, WholeBut, StackRecord
  <2> QED BY <2>1 DEF r, x, Extended, Hold
<1> QED BY <1>1, <1>10, <1>17, <1>19, <1>20, <1>21 DEF k

LEMMA DeliverFields ==
    ASSUME NEW s, Whole(s), NEW k \in Key, NEW data \in Seq(Contents)
    PROVE  /\ Whole(Deliver(s, k, data))
           /\ Deliver(s, k, data).reassemblies = s.reassemblies
           /\ Deliver(s, k, data).timers = s.timers
<1> DEFINE r == Deliver(s, k, data)
<1>1. s \in StackRecord BY DEF Whole, WholeBut
<1>2. [type |-> "unitdata", key |-> k, data |-> data] \in Result BY DEF Result
<1>3. s.res \in Seq(Result) BY <1>1 DEF StackRecord
<1>4. Append(s.res, [type |-> "unitdata", key |-> k, data |-> data]) \in Seq(Result)
  BY <1>2, <1>3, AppendProperties
<1>5. r \in StackRecord BY <1>1, <1>4 DEF Deliver, StackRecord
<1>6. r.reassemblies = s.reassemblies /\ r.timers = s.timers
  BY <1>1 DEF Deliver, StackRecord
<1>7. r.orphans = s.orphans /\ r.slots = s.slots BY <1>1 DEF Deliver, StackRecord
<1> HIDE DEF r
<1>8. Whole(r)
  <2>1. Orphans(r) = Orphans(s) BY <1>6 DEF Orphans
  <2>2. Counted(r) BY <1>6, <1>7, <2>1 DEF Whole, WholeBut, Counted, Slotted
  <2>3. Timed(r, {}) BY <1>6 DEF Whole, WholeBut, Timed, Known, Kind
  <2>4. Consistent(r, {}) BY <1>6 DEF Whole, WholeBut, Consistent
  <2>5. Accounted(r)
    <3>1. SameAccounts(s, r) BY <1>1 DEF r, Deliver, SameAccounts, StackRecord
    <3> QED BY <1>6, <3>1, AccountedSame DEF Whole, WholeBut
  <2> QED BY <1>5, <2>2, <2>3, <2>4, <2>5 DEF Whole, WholeBut
<1> QED BY <1>6, <1>8 DEF r

(* The last segment completes it.                                          *)
LEMMA CompleteWhole ==
    ASSUME Inv, NEW u \in Segment, CompleteReassembly(u)
    PROVE  /\ Whole(stack') /\ Dropped(stack, stack', u.key) /\ InProgress(stack, u.key)
           /\ stack'.res = <<[type |-> "unitdata", key |-> u.key,
                              data |-> Append(stack.reassemblies[u.key].data, u.content)]>>
<1> DEFINE k == u.key
           p == stack.reassemblies[k]
           x == Extended(u)
           l == WithSegment(p, u)
           e == EndReassembly(x, k)
<1>1. Continues(u) /\ InProgress(stack, k) /\ RoomFor(stack, k.peer, u.len)
  BY DEF CompleteReassembly, Continues, Fits
<1>2. stack' = Deliver(e, k, x.reassemblies[k].data)
  BY DEF CompleteReassembly, Becomes
<1>3. /\ k \in DOMAIN stack.reassemblies /\ ~ p.failed /\ p \in Process
      /\ l \in Process
      /\ x \in StackRecord
      /\ x.reassemblies = [stack.reassemblies EXCEPT ![k] = l]
      /\ x.timers = stack.timers /\ x.orphans = stack.orphans /\ x.slots = stack.slots
      /\ Adds(stack, x, k.peer, u.len)
  BY <1>1, ExtendedFields
<1>4. ~ l.failed /\ l.data \in Seq(Contents) /\ l.len - p.len = u.len
  <2>1. p.len \in Nat /\ u.len \in Nat BY <1>3, SegmentTyped DEF Process
  <2>2. l.len = p.len + u.len BY <1>3 DEF WithSegment, Process
  <2>3. ~ l.failed /\ l.data \in Seq(Contents) BY <1>3 DEF Process
  <2> HIDE DEF l, p
  <2> QED BY <2>1, <2>2, <2>3
<1>5. k \in Key BY SegmentTyped
<1>6. Whole(stack) BY DEF Inv
<1> HIDE DEF x, l, k
<1>7. /\ SameBut(stack, x, k) /\ DOMAIN x.reassemblies = DOMAIN stack.reassemblies
      /\ x.reassemblies[k] = l /\ WholeBut(x, {k})
  BY <1>1, <1>3, <1>4, <1>6, ProcessReplaced
<1>8. Whole(e) /\ Dropped(x, e, k) BY <1>3, <1>7, EndWhole
<1>9. Others(x, k) = Others(stack, k) BY <1>3 DEF Others
<1>10. Dropped(stack, e, k) BY <1>7, <1>8, <1>9 DEF Dropped, SameBut
<1>13. e.res = <<>>
  <2>1. "res" \in DOMAIN Fresh /\ Fresh.res = <<>>
    BY FreshWhole DEF Inv, Whole, WholeBut, StackRecord
  <2>2. x.res = <<>> BY <2>1 DEF x, Extended, Hold
  <2> QED BY <1>3, <2>2, Results
<1>14. l.data = Append(p.data, u.content) BY <1>3 DEF l, WithSegment, Process
<1> HIDE DEF e
<1>11. /\ Whole(stack') /\ stack'.reassemblies = e.reassemblies /\ stack'.timers = e.timers
  BY <1>2, <1>4, <1>5, <1>7, <1>8, DeliverFields
<1>12. Dropped(stack, stack', k) BY <1>10, <1>11 DEF Dropped, SameBut, Known
<1>15. stack'.res = <<[type |-> "unitdata", key |-> k, data |-> l.data]>>
  <2>1. stack' = Deliver(e, k, l.data) BY <1>2, <1>7
  <2>2. e \in StackRecord BY <1>8 DEF Whole, WholeBut
  <2>3. "res" \in DOMAIN e BY <2>2 DEF StackRecord
  <2> QED BY <1>13, <2>1, <2>3 DEF Deliver
<1> QED BY <1>1, <1>11, <1>12, <1>14, <1>15 DEF k

-----------------------------------------------------------------------------
(* What a step does to the entries and timers, and what it puts out.       *)

Unmoved ==
    /\ stack'.reassemblies = stack.reassemblies /\ stack'.timers = stack.timers
    /\ stack'.res = <<>>

(* u has no process it could be appended to.                               *)
Alone(u) == StartsMessage(u) \/ NoAssociation(u) \/ (u.first /\ InProgress(stack, u.key))

(* No record is left for it, or it has one and may be returned.            *)
Rejected(u) ==
    /\ Alone(u)
    /\ \/ Dropped(stack, stack', u.key) /\ stack'.res = <<>>
       \/ /\ Made(stack, stack', u.key, "record", OrphanRecord(u))
          /\ stack'.res = ReturnOf(u.key, u.content, u.returnOnError)

Started(u) ==
    /\ StartsMessage(u)
    /\ Made(stack, stack', u.key, "process", StartedProcess(u)) /\ stack'.res = <<>>

(* The process of k becomes a record.                                      *)
Failing(k, asked) ==
    LET p == stack.reassemblies[k] IN
    /\ InProgress(stack, k)
    /\ Made(stack, stack', k, "record", FailedRecord(p))
    /\ stack'.res = ReturnOf(k, p.first.content, asked)

Extending(u) ==
    LET k == u.key IN
    /\ Continues(u) /\ u.remaining = stack.reassemblies[k].expected /\ u.remaining > 0
    /\ SameBut(stack, stack', k) /\ Known(stack', k) /\ stack'.timers = stack.timers
    /\ Extends(stack.reassemblies[k], u, stack'.reassemblies[k])
    /\ stack'.res = <<>>

Completed(u) ==
    LET p == stack.reassemblies[u.key] IN
    /\ Continues(u) /\ u.remaining = p.expected /\ u.remaining = 0
    /\ Dropped(stack, stack', u.key)
    /\ stack'.res =
          <<[type |-> "unitdata", key |-> u.key, data |-> Append(p.data, u.content)]>>

Moves(u) ==
    \/ OfFailedMessage(u) /\ Unmoved
    \/ Rejected(u)
    \/ Started(u)
    \/ Continues(u) /\ Failing(u.key, Asked(u))
    \/ Extending(u)
    \/ Completed(u)

(* A segment with an entry of its own.                                     *)
LEMMA RefuseWhole ==
    ASSUME Inv, NEW u \in Segment, StartsMessage(u) \/ NoAssociation(u),
           Becomes(RejectSegment(Cleared(u), u))
    PROVE  Whole(stack') /\ Rejected(u) /\ AgeRecords
<1> DEFINE c == Cleared(u)
<1>1. ~ InProgress(stack, u.key) BY DEF StartsMessage, NoAssociation, InProgress
<1>2. Whole(c) /\ Dropped(stack, c, u.key) /\ c.res = <<>>
  BY <1>1, ClearedWhole DEF Inv
<1>3. stack' = RejectSegment(c, u) /\ AgeRecords BY DEF Becomes
<1> HIDE DEF c
<1>4. /\ Whole(stack')
      /\ \/ stack' = c
         \/ /\ ~ (c.orphans >= MaxReassemblies)
            /\ Made(c, stack', u.key, "record", OrphanRecord(u))
  BY <1>2, <1>3, RejectWhole DEF Inv, Dropped
<1>5. CASE stack' = c BY <1>2, <1>3, <1>4, <1>5 DEF Rejected, Alone
<1>6. CASE ~ (c.orphans >= MaxReassemblies) /\ Made(c, stack', u.key, "record", OrphanRecord(u))
  <2>1. Made(stack, stack', u.key, "record", OrphanRecord(u)) BY <1>2, <1>6, DroppedFirst
  <2>2. stack'.res = ReturnOf(u.key, u.content, u.returnOnError)
    BY <1>2, <1>3, <1>6, Results DEF Whole, WholeBut
  <2> QED BY <1>3, <1>4, <2>1, <2>2 DEF Rejected, Alone
<1> QED BY <1>4, <1>5, <1>6

(* A first segment ends the process, and is rejected.                      *)
LEMMA BusyWhole ==
    ASSUME Inv, NEW u \in Segment, BusyReference(u)
    PROVE  Whole(stack') /\ Rejected(u) /\ AgeRecords
<1> DEFINE c == EndReassembly(Fresh, u.key)
<1>1. u.first /\ InProgress(stack, u.key) /\ stack' = RejectSegment(c, u) /\ AgeRecords
  BY DEF BusyReference, Becomes
<1>2. Whole(Fresh) /\ Fresh.reassemblies = stack.reassemblies
      /\ Fresh.timers = stack.timers /\ Fresh.res = <<>>
  BY FreshWhole DEF Inv, Whole
<1>3. WholeBut(Fresh, {u.key}) BY <1>2 DEF Whole, WholeBut, Timed, Consistent
<1>4. u.key \in DOMAIN Fresh.reassemblies BY <1>1, <1>2 DEF InProgress, Known
<1>5. Whole(c) /\ Dropped(Fresh, c, u.key) BY <1>3, <1>4, EndWhole
<1>6. c.res = <<>> BY <1>2, <1>5, Results DEF Whole, WholeBut
<1> HIDE DEF c
<1>7. Dropped(stack, c, u.key) BY <1>2, <1>5 DEF Dropped, SameBut, Others
<1>8. /\ Whole(stack')
      /\ \/ stack' = c
         \/ /\ ~ (c.orphans >= MaxReassemblies)
            /\ Made(c, stack', u.key, "record", OrphanRecord(u))
  BY <1>1, <1>5, RejectWhole DEF Inv, Dropped
<1>9. CASE stack' = c BY <1>1, <1>6, <1>7, <1>8, <1>9 DEF Rejected, Alone
<1>10. CASE ~ (c.orphans >= MaxReassemblies) /\ Made(c, stack', u.key, "record", OrphanRecord(u))
  <2>1. Made(stack, stack', u.key, "record", OrphanRecord(u)) BY <1>7, <1>10, DroppedFirst
  <2>2. stack'.res = ReturnOf(u.key, u.content, u.returnOnError)
    BY <1>1, <1>5, <1>6, <1>10, Results DEF Whole, WholeBut
  <2> QED BY <1>1, <1>8, <2>1, <2>2 DEF Rejected, Alone
<1> QED BY <1>8, <1>9, <1>10

(* A segment that does not fit fails its message.                          *)
LEMMA FailSegmentWhole ==
    ASSUME Inv, NEW u \in Segment, NEW available, FailSegment(u, available)
    PROVE  Whole(stack') /\ Continues(u) /\ Failing(u.key, Asked(u)) /\ AgeRecords
<1>1. InProgress(stack, u.key) /\ AgeRecords /\ Continues(u)
      /\ stack' = FailReassembly(Fresh, u.key, Asked(u))
  BY DEF FailSegment, Continues, Becomes
<1>2. Whole(Fresh) /\ Fresh.reassemblies = stack.reassemblies
      /\ Fresh.timers = stack.timers /\ Fresh.res = <<>>
  BY FreshWhole DEF Inv, Whole
<1>3. WholeBut(Fresh, {u.key}) BY <1>2 DEF Whole, WholeBut, Timed, Consistent
<1>4. InProgress(Fresh, u.key) BY <1>1, <1>2 DEF InProgress, Known
<1>5. Asked(u) \in BOOLEAN
  <2>1. stack \in StackRecord /\ u.key \in DOMAIN stack.reassemblies
        /\ ~ stack.reassemblies[u.key].failed
    BY <1>1 DEF Inv, Whole, WholeBut, InProgress, Known
  <2>2. stack.reassemblies[u.key] \in Process BY <2>1, StackTyped
  <2>3. u.returnOnError \in BOOLEAN BY SegmentTyped
  <2> QED BY <2>2, <2>3 DEF Process, Asked
<1>6. /\ Whole(stack')
      /\ Made(Fresh, stack', u.key, "record", FailedRecord(Fresh.reassemblies[u.key]))
  BY <1>1, <1>3, <1>4, <1>5, FailWhole DEF Inv
<1>7. stack'.res = ReturnOf(u.key, Fresh.reassemblies[u.key].first.content, Asked(u))
  BY <1>1, <1>2, Results DEF Whole, WholeBut
<1>8. Made(stack, stack', u.key, "record", FailedRecord(stack.reassemblies[u.key]))
  BY <1>2, <1>6 DEF Made, SameBut, Others
<1> QED BY <1>1, <1>2, <1>6, <1>7, <1>8 DEF Failing

(* reassemble, path by path.                                               *)
LEMMA SegmentMoves ==
    ASSUME Inv, NEW u \in Segment, Segmented(u),
           NEW available \in BOOLEAN, Reassemble(u, available)
    PROVE  Whole(stack') /\ Moves(u) /\ AgeRecords
<1>1. CASE AbsorbSegment(u)
  <2>1. Whole(Fresh) /\ Fresh.reassemblies = stack.reassemblies
        /\ Fresh.timers = stack.timers /\ Fresh.res = <<>>
    BY FreshWhole DEF Inv, Whole
  <2> QED BY <1>1, <2>1 DEF AbsorbSegment, Becomes, Moves, Unmoved
<1>2. CASE BusyReference(u) BY <1>2, BusyWhole DEF Moves
<1>3. CASE RefuseSegment(u, available) BY <1>3, RefuseWhole DEF RefuseSegment, Moves
<1>4. CASE FailSegment(u, available) BY <1>4, FailSegmentWhole DEF Moves
<1>5. CASE RefuseStart(u) BY <1>5, RefuseWhole DEF RefuseStart, Moves
<1>6. CASE StartReassembly(u)
  BY <1>6, StartWhole DEF StartReassembly, Becomes, Started, Moves
<1>7. CASE ExtendReassembly(u)
  BY <1>7, ExtendWhole DEF ExtendReassembly, Fits, Becomes, Extending, Moves
<1>8. CASE CompleteReassembly(u)
  BY <1>8, CompleteWhole DEF CompleteReassembly, Fits, Becomes, Completed, Moves
<1> QED BY <1>1, <1>2, <1>3, <1>4, <1>5, <1>6, <1>7, <1>8 DEF Reassemble

(* The callbacks: what is due fails, or is forgotten.                      *)
Fires(k) ==
    /\ \E t \in stack.timers : t.key = k /\ Due(t)
    /\ \/ Failing(k, stack.reassemblies[k].returnOnError)
       \/ Failed(stack, k) /\ Dropped(stack, stack', k) /\ stack'.res = <<>>

-----------------------------------------------------------------------------
(* The steps.                                                              *)

(* A timer of a record is new, or its record is what it was.               *)
Keeps(s, r) ==
    \A t \in r.timers :
        t.kind = "record" =>
            \/ t.left = After(ReassemblyTimeout)
            \/ t \in s.timers /\ r.reassemblies[t.key] = s.reassemblies[t.key]

LEMMA ChangesKeep ==
    ASSUME NEW s, NEW r, NEW k, Timed(s, {}), Changes(s, r, k)
    PROVE  Keeps(s, r)
<1> SUFFICES ASSUME NEW t \in r.timers
             PROVE  \/ t.left = After(ReassemblyTimeout)
                    \/ t \in s.timers /\ r.reassemblies[t.key] = s.reassemblies[t.key]
  BY DEF Keeps
<1>1. CASE t \in Others(s, k) BY <1>1 DEF Others, Changes, SameBut, Timed, Known
<1>2. CASE t \notin Others(s, k)
  <2>1. t = NewTimer(k, "process") \/ t = NewTimer(k, "record") BY <1>2 DEF Changes
  <2> QED BY <2>1 DEF NewTimer
<1> QED BY <1>1, <1>2

(* The action of RecordsLast.                                              *)
RecordsKept ==
    \A k \in Records :
        \/ Known(stack', k) /\ stack'.reassemblies[k] = Entries[k]
        \/ recordAge[k] >= ReassemblyTimeout - MaxLag
        \/ /\ arrived'.first /\ arrived'.key = k
           /\ Entries[k].hash \notin {NoHash, SegmentHash(arrived')}

LEMMA OtherRecordsKept ==
    ASSUME NEW k, SameBut(stack, stack', k), NEW q \in Records, q # k
    PROVE  Known(stack', q) /\ stack'.reassemblies[q] = Entries[q]
BY DEF SameBut, Records, Entries, Known

(* The records grow older with their timers.                               *)
LEMMA AgedStep ==
    ASSUME Inv, Whole(stack'), Keeps(stack, stack'), AgeRecords
    PROVE  recordAge' \in [Key -> Nat] /\ Aged'
<1>1. recordAge' \in [Key -> Nat] BY DEF Inv, AgeRecords
<1>2. ASSUME NEW t \in stack'.timers, t.kind = "record"
      PROVE  \/ recordAge'[t.key] >= ReassemblyTimeout
             \/ recordAge'[t.key] + t.left >= ReassemblyTimeout - MaxLag
  <2>1. t \in Timer BY DEF Whole, WholeBut, StackRecord
  <2>2. t.key \in Key /\ t.left \in Int BY <2>1 DEF Timer
  <2>3. recordAge'[t.key] \in Nat BY <1>1, <2>2
  <2>4. CASE t.left = After(ReassemblyTimeout)
    <3>1. t.left = ReassemblyTimeout - lag BY <2>4 DEF After
    <3>2. lag \in Nat /\ lag <= MaxLag /\ MaxLag \in Nat /\ ReassemblyTimeout \in Nat
      BY ReassemblyAssumption DEF Inv, ClockOK
    <3> QED BY <2>2, <2>3, <3>1, <3>2
  <2>5. CASE t \in stack.timers /\ stack'.reassemblies[t.key] = stack.reassemblies[t.key]
    <3>1. Failed(stack, t.key)
      BY <1>2, <2>5 DEF Inv, Whole, WholeBut, Timed, Kind, Failed
    <3>2. Failed(stack', t.key)
      BY <1>2, <2>5, <3>1 DEF Whole, WholeBut, Timed, Failed
    <3>3. recordAge'[t.key] = recordAge[t.key] BY <2>2, <2>5, <3>1, <3>2 DEF AgeRecords
    <3> QED BY <1>2, <2>5, <3>3 DEF Inv, Aged
  <2> QED BY <1>2, <2>4, <2>5 DEF Keeps
<1> QED BY <1>1, <1>2 DEF Aged

LEMMA InitInv == Init => Inv
<1> SUFFICES ASSUME Init PROVE Inv OBVIOUS
<1> DEFINE none == [k \in {} |-> NoSegment]
<1>1. /\ stack.reassemblies = none /\ stack.timers = {} /\ stack.slots = 0
      /\ stack.orphans = 0
  BY DEF Init
<1>2. DOMAIN none = {} /\ none \in EntryMaps
  <2>1. DOMAIN none = {} /\ none = [k \in DOMAIN none |-> none[k]] OBVIOUS
  <2>2. \A k \in DOMAIN none : none[k] \in Process \cup Record BY <2>1
  <2> HIDE DEF none
  <2> QED BY <2>1, <2>2, MapsTyped
<1>3. stack \in StackRecord
  <2>1. <<>> \in Seq(Result) /\ [p \in Peers |-> 0] \in [Peers -> Int] OBVIOUS
  <2> HIDE DEF none
  <2>2. stack = [reassemblies |-> none, timers |-> {}, slots |-> 0, orphans |-> 0,
                 octets |-> 0, peerOctets |-> [p \in Peers |-> 0], res |-> <<>>]
    BY DEF Init, none
  <2> QED BY <1>2, <2>1, <2>2 DEF StackRecord
<1>4. Orphans(stack) = {} /\ Slotted(stack) = {} BY <1>1, <1>2 DEF Orphans, Slotted
<1>5. IsFiniteSet({}) /\ Cardinality({}) = 0 BY FS_EmptySet
<1>6. Counted(stack) BY <1>1, <1>2, <1>4, <1>5, ReassemblyAssumption DEF Counted
<1>7. Timed(stack, {}) BY <1>1, <1>2 DEF Timed
<1>8. Consistent(stack, {}) BY <1>1, <1>2 DEF Consistent
<1>9. locked \in BOOLEAN /\ ClockOK /\ recordAge \in [Key -> Nat]
  <2>1. locked \in BOOLEAN /\ recordAge \in [Key -> Nat] BY DEF Init
  <2>2. 0 \in 0 .. MaxLag BY ReassemblyAssumption
  <2> QED BY <2>1, <2>2 DEF Init, ClockOK
<1>10. Aged BY <1>1 DEF Aged
<1>11. Accounted(stack)
  <2>1. stack.octets = 0 /\ stack.peerOctets = [p \in Peers |-> 0] BY DEF Init
  <2>2. InProcess(stack) = {} /\ \A p \in Peers : InProcessOf(stack, p) = {}
    BY <1>1, <1>2 DEF InProcess, InProcessOf
  <2>3. Held(stack, {}) = 0 BY SumEmpty DEF Held
  <2> QED BY <2>1, <2>2, <2>3, ReassemblyAssumption DEF Accounted
<1> QED BY <1>3, <1>6, <1>7, <1>8, <1>9, <1>10, <1>11 DEF Inv, Whole, WholeBut

LEMMA TickStep == ASSUME Inv, Tick PROVE Inv' /\ RecordsKept
<1> DEFINE Sooner(t) == [t EXCEPT !.left = @ - 1]
           ts == {Sooner(t) : t \in Fresh.timers}
<1>1. /\ Fresh \in StackRecord /\ Whole(Fresh)
      /\ Fresh.reassemblies = stack.reassemblies /\ Fresh.timers = stack.timers
      /\ Fresh.slots = stack.slots /\ Fresh.orphans = stack.orphans
      /\ SameAccounts(stack, Fresh)
  BY FreshWhole DEF Inv, Whole, WholeBut
<1>2. stack' = [Fresh EXCEPT !.timers = ts] BY DEF Tick
<1>3. \A t \in stack.timers :
        /\ t \in Timer /\ t.key \in Key /\ t.left \in Int
        /\ Sooner(t) \in Timer
        /\ Sooner(t).key = t.key /\ Sooner(t).kind = t.kind /\ Sooner(t).left = t.left - 1
  BY DEF Inv, Whole, WholeBut, StackRecord, Timer
<1>4. ts \in SUBSET Timer BY <1>1, <1>3
<1>5. \A n \in ts : \E t \in stack.timers : n = Sooner(t) BY <1>1
<1>6. \A t \in stack.timers : Sooner(t) \in ts BY <1>1
<1> HIDE DEF ts, Sooner
<1>7. stack' \in StackRecord BY <1>1, <1>2, <1>4 DEF StackRecord
<1>8. stack'.reassemblies = stack.reassemblies /\ stack'.timers = ts
  BY <1>1, <1>2 DEF StackRecord
<1>9. stack'.orphans = stack.orphans /\ stack'.slots = stack.slots
  BY <1>1, <1>2 DEF StackRecord
<1>10. Counted(stack')
  <2>1. Orphans(stack') = Orphans(stack) BY <1>8 DEF Orphans
  <2> QED BY <1>8, <1>9, <2>1 DEF Inv, Whole, WholeBut, Counted, Slotted
<1>11. Timed(stack', {})
  <2>1. \A n \in ts : Known(stack', n.key) /\ n.kind = Kind(stack', n.key)
    BY <1>3, <1>5, <1>8 DEF Inv, Whole, WholeBut, Timed, Known, Kind
  <2>2. \A n, o \in ts : n.key = o.key => n = o
    BY <1>3, <1>5 DEF Inv, Whole, WholeBut, Timed
  <2>3. \A k \in DOMAIN stack.reassemblies : \E n \in ts : n.key = k
    BY <1>3, <1>6 DEF Inv, Whole, WholeBut, Timed
  <2> QED BY <1>8, <2>1, <2>2, <2>3 DEF Timed
<1>12. Consistent(stack', {}) BY <1>8 DEF Inv, Whole, WholeBut, Consistent
<1>13. Accounted(stack')
  <2>1. SameAccounts(stack, stack') BY <1>1, <1>2 DEF SameAccounts, StackRecord
  <2> QED BY <1>8, <2>1, AccountedSame DEF Inv, Whole, WholeBut
<1>14. Whole(stack') BY <1>7, <1>10, <1>11, <1>12, <1>13 DEF Whole, WholeBut
<1>15. \A n \in Nat : Longer(n) \in Nat /\ (Longer(n) = n + 1 \/ Longer(n) >= ReassemblyTimeout)
                      /\ (n >= ReassemblyTimeout => Longer(n) >= ReassemblyTimeout)
  BY ReassemblyAssumption DEF Longer
<1>16. recordAge' \in [Key -> Nat] BY <1>15 DEF Inv, Tick
<1>17. Aged'
  <2> SUFFICES ASSUME NEW n \in ts, n.kind = "record"
               PROVE  \/ recordAge'[n.key] >= ReassemblyTimeout
                      \/ recordAge'[n.key] + n.left >= ReassemblyTimeout - MaxLag
    BY <1>8 DEF Aged
  <2>1. PICK t \in stack.timers : n = Sooner(t) BY <1>5
  <2>2. /\ t.key \in Key /\ t.left \in Int /\ t.kind = "record"
        /\ n.key = t.key /\ n.left = t.left - 1
    BY <1>3, <2>1
  <2>3. Failed(stack, t.key) BY <2>2 DEF Inv, Whole, WholeBut, Timed, Kind, Failed
  <2>4. recordAge'[t.key] = Longer(recordAge[t.key]) BY <2>2, <2>3 DEF Tick
  <2>5. recordAge[t.key] \in Nat BY <2>2 DEF Inv
  <2>6. \/ recordAge[t.key] >= ReassemblyTimeout
        \/ recordAge[t.key] + t.left >= ReassemblyTimeout - MaxLag
    BY <2>2 DEF Inv, Aged
  <2> QED BY <2>2, <2>4, <2>5, <2>6, <1>15, ReassemblyAssumption
<1>18. RecordsKept BY <1>8 DEF RecordsKept, Records, Entries, Known
<1> QED BY <1>14, <1>16, <1>17, <1>18 DEF Inv, ClockOK, Tick

(* Each timer has a tick less.                                             *)
LEMMA TickMoves ==
    ASSUME Inv, Tick
    PROVE  /\ stack'.reassemblies = stack.reassemblies /\ stack'.res = <<>>
           /\ \A n \in stack'.timers : \E t \in stack.timers :
                 /\ n.key = t.key /\ n.kind = t.kind /\ n.left = t.left - 1
                 /\ t.left > -MaxLate
<1> DEFINE Sooner(t) == [t EXCEPT !.left = @ - 1]
<1>1. /\ Fresh \in StackRecord /\ Fresh.res = <<>>
      /\ Fresh.reassemblies = stack.reassemblies /\ Fresh.timers = stack.timers
  BY FreshWhole DEF Inv, Whole, WholeBut
<1>2. stack' = [Fresh EXCEPT !.timers = {Sooner(t) : t \in Fresh.timers}] BY DEF Tick
<1>3. \A t \in stack.timers :
        Sooner(t).key = t.key /\ Sooner(t).kind = t.kind /\ Sooner(t).left = t.left - 1
  BY DEF Inv, Whole, WholeBut, StackRecord, Timer
<1>4. \A t \in stack.timers : t.left > -MaxLate BY DEF Tick
<1> HIDE DEF Sooner
<1>5. /\ stack'.reassemblies = stack.reassemblies /\ stack'.res = <<>>
      /\ stack'.timers = {Sooner(t) : t \in stack.timers}
  BY <1>1, <1>2 DEF StackRecord
<1> QED BY <1>3, <1>4, <1>5

(* The other steps that leave the entries and timers alone.                *)
LEMMA CallMoves == ASSUME Inv, Call \/ HandleTimeout PROVE Unmoved
<1>1. stack' = Fresh BY DEF Call, HandleTimeout
<1> QED BY <1>1, FreshWhole DEF Inv, Whole, Unmoved

LEMMA FreshStep ==
    ASSUME Inv, stack' = Fresh, recordAge' = recordAge \/ AgeRecords
    PROVE  Whole(stack') /\ recordAge' \in [Key -> Nat] /\ Aged' /\ RecordsKept
<1>1. /\ Whole(Fresh)
      /\ Fresh.reassemblies = stack.reassemblies /\ Fresh.timers = stack.timers
  BY FreshWhole DEF Inv, Whole
<1>2. RecordsKept BY <1>1 DEF RecordsKept, Records, Entries, Known
<1>3. CASE recordAge' = recordAge BY <1>1, <1>2, <1>3 DEF Inv, Aged
<1>4. CASE AgeRecords
  <2>1. Keeps(stack, stack') BY <1>1 DEF Keeps
  <2> QED BY <1>1, <1>2, <1>4, <2>1, AgedStep
<1> QED BY <1>3, <1>4

LEMMA CallStep == ASSUME Inv, Call \/ HandleTimeout PROVE Inv' /\ RecordsKept
<1>1. stack' = Fresh /\ recordAge' = recordAge BY DEF Call, HandleTimeout
<1>2. locked' \in BOOLEAN /\ ClockOK'
  <2>1. 0 \in 0 .. MaxLag BY ReassemblyAssumption
  <2>2. CASE Call BY <2>2 DEF Call, ClockOK
  <2>3. CASE HandleTimeout BY <2>1, <2>3 DEF HandleTimeout, Unlock, ClockOK
  <2> QED BY <2>2, <2>3
<1> QED BY <1>1, <1>2, FreshStep DEF Inv

(* What is due runs out; the record that ends is old enough.               *)
LEMMA FireStep == ASSUME Inv, Fire PROVE Inv' /\ RecordsKept /\ \E k \in Key : Fires(k)
<1>1. PICK t \in stack.timers :
        LET popped == [Fresh EXCEPT !.timers = @ \ {t}]
            k == t.key
        IN  /\ Due(t)
            /\ \/ /\ t.kind = "process"
                  /\ Becomes(FailReassembly(popped, k, stack.reassemblies[k].returnOnError))
               \/ /\ t.kind = "record"
                  /\ Becomes(EndReassembly(popped, k))
  BY DEF Fire
<1> DEFINE k == t.key
           p == [Fresh EXCEPT !.timers = @ \ {t}]
<1>2. stack \in StackRecord /\ Timed(stack, {}) BY DEF Inv, Whole, WholeBut
<1>3. k \in DOMAIN stack.reassemblies /\ t.kind = Kind(stack, k) /\ t.left \in Int
  <2>1. t \in Timer BY <1>2 DEF StackRecord
  <2> QED BY <1>2, <2>1 DEF Timed, Known, Timer
<1>4. /\ Fresh \in StackRecord /\ Whole(Fresh)
      /\ Fresh.reassemblies = stack.reassemblies /\ Fresh.timers = stack.timers
      /\ Fresh.slots = stack.slots /\ Fresh.orphans = stack.orphans
      /\ SameAccounts(stack, Fresh) /\ Fresh.res = <<>>
  BY FreshWhole DEF Inv, Whole, WholeBut
<1>5. p \in StackRecord BY <1>4 DEF StackRecord
<1>6. p.reassemblies = stack.reassemblies /\ p.timers = stack.timers \ {t} /\ p.res = <<>>
  BY <1>4 DEF StackRecord
<1>7. p.orphans = stack.orphans /\ p.slots = stack.slots /\ SameAccounts(stack, p)
  BY <1>4 DEF SameAccounts, StackRecord
<1> HIDE DEF p
<1>8. WholeBut(p, {k})
  <2>1. Orphans(p) = Orphans(stack) BY <1>6 DEF Orphans
  <2>2. Counted(p) BY <1>6, <1>7, <2>1 DEF Inv, Whole, WholeBut, Counted, Slotted
  <2>3. Timed(p, {k}) BY <1>2, <1>6 DEF Timed, Known, Kind
  <2>4. Consistent(p, {k}) BY <1>6 DEF Inv, Whole, WholeBut, Consistent
  <2>5. Accounted(p) BY <1>6, <1>7, AccountedSame DEF Inv, Whole, WholeBut
  <2> QED BY <1>5, <2>2, <2>3, <2>4, <2>5 DEF WholeBut
<1>9. /\ AgeRecords /\ Whole(stack')
      /\ \/ Failing(k, stack.reassemblies[k].returnOnError)
         \/ Failed(stack, k) /\ Dropped(stack, stack', k) /\ stack'.res = <<>>
  <2>3. Others(p, k) = Others(stack, k) BY <1>6 DEF Others
  <2>1. CASE t.kind = "process"
    <3>1. InProgress(p, k) BY <1>3, <1>6, <2>1 DEF InProgress, Known, Kind
    <3>2. stack.reassemblies[k] \in Process
      BY <1>2, <1>3, <2>1, StackTyped DEF Kind
    <3>3. stack.reassemblies[k].returnOnError \in BOOLEAN BY <3>2 DEF Process
    <3>4. Becomes(FailReassembly(p, k, stack.reassemblies[k].returnOnError))
      BY <1>1, <2>1 DEF p
    <3>5. Whole(stack') /\ Made(p, stack', k, "record", FailedRecord(p.reassemblies[k]))
      BY <1>8, <3>1, <3>3, <3>4, FailWhole DEF Inv, Becomes
    <3>6. stack'.res = ReturnOf(k, p.reassemblies[k].first.content,
                                stack.reassemblies[k].returnOnError)
      BY <1>5, <1>6, <3>4, Results DEF Becomes
    <3> QED BY <1>6, <2>3, <3>1, <3>4, <3>5, <3>6
            DEF Failing, Made, SameBut, Becomes, InProgress, Known
  <2>2. CASE t.kind = "record"
    <3>1. k \in DOMAIN p.reassemblies BY <1>3, <1>6
    <3>2. Becomes(EndReassembly(p, k)) BY <1>1, <2>2 DEF p
    <3>3. Whole(stack') /\ Dropped(p, stack', k) BY <1>8, <3>1, <3>2, EndWhole DEF Becomes
    <3>4. stack'.res = <<>> BY <1>5, <1>6, <3>2, Results DEF Becomes
    <3>5. Failed(stack, k) BY <1>3, <2>2 DEF Kind, Failed, Known
    <3> QED BY <1>6, <2>3, <3>2, <3>3, <3>4, <3>5 DEF Dropped, SameBut, Becomes
  <2> QED BY <1>1, <2>1, <2>2
<1>10. Changes(stack, stack', k) BY <1>9, DroppedOrMade DEF Failing
<1>11. Keeps(stack, stack') BY <1>2, <1>10, ChangesKeep
<1>12. recordAge' \in [Key -> Nat] /\ Aged' BY <1>9, <1>11, AgedStep
<1>13. RecordsKept
  <2> SUFFICES ASSUME NEW q \in Records
               PROVE  \/ Known(stack', q) /\ stack'.reassemblies[q] = Entries[q]
                      \/ recordAge[q] >= ReassemblyTimeout - MaxLag
    BY DEF RecordsKept
  <2>1. CASE q # k BY <1>10, <2>1, OtherRecordsKept DEF Changes
  <2>2. CASE q = k
    <3>1. t.kind = "record" BY <1>3, <2>2 DEF Records, Entries, Kind
    <3>2. \/ recordAge[k] >= ReassemblyTimeout
          \/ recordAge[k] + t.left >= ReassemblyTimeout - MaxLag
      BY <3>1 DEF Inv, Aged
    <3>3. t.left <= -lag BY <1>1 DEF Due
    <3>4. k \in Key BY <1>2, <1>3, StackTyped
    <3>5. recordAge[k] \in Nat BY <3>4 DEF Inv
    <3>6. lag \in Nat /\ MaxLag \in Nat /\ ReassemblyTimeout \in Nat
      BY ReassemblyAssumption DEF Inv, ClockOK
    <3> QED BY <1>3, <2>2, <3>2, <3>3, <3>5, <3>6
  <2> QED BY <2>1, <2>2
<1>14. locked' = locked /\ lag' = lag BY DEF Fire
<1>15. k \in Key /\ Fires(k) BY <1>1, <1>2, <1>3, <1>9, StackTyped DEF Fires
<1> QED BY <1>9, <1>12, <1>13, <1>14, <1>15 DEF Inv, ClockOK

(* The record whose key is taken is that of another message.               *)
LEMMA TakenOver ==
    ASSUME NEW u \in Segment, arrived' = u, StartsMessage(u), NEW k \in Records, k = u.key
    PROVE  arrived'.first /\ arrived'.key = k
           /\ Entries[k].hash \notin {NoHash, SegmentHash(arrived')}
<1>1. Failed(stack, u.key) BY DEF Records, Entries, Failed, Known
<1>2. u.first /\ ~ OfFailedMessage(u) BY DEF StartsMessage
<1>3. stack.reassemblies[u.key].hash \notin {NoHash, SegmentHash(u)}
  BY <1>1, <1>2 DEF OfFailedMessage
<1> QED BY <1>2, <1>3 DEF Entries

LEMMA ChangesStep ==
    ASSUME Inv, NEW u \in Segment, arrived' = u, Whole(stack'), AgeRecords,
           Changes(stack, stack', u.key),
           StartsMessage(u) \/ NoAssociation(u) \/ InProgress(stack, u.key)
    PROVE  recordAge' \in [Key -> Nat] /\ Aged' /\ RecordsKept
<1>1. Timed(stack, {}) BY DEF Inv, Whole, WholeBut
<1>2. Keeps(stack, stack') BY <1>1, ChangesKeep
<1>3. recordAge' \in [Key -> Nat] /\ Aged' BY <1>2, AgedStep
<1>4. ASSUME NEW k \in Records
      PROVE  \/ Known(stack', k) /\ stack'.reassemblies[k] = Entries[k]
             \/ recordAge[k] >= ReassemblyTimeout - MaxLag
             \/ /\ arrived'.first /\ arrived'.key = k
                /\ Entries[k].hash \notin {NoHash, SegmentHash(arrived')}
  <2>1. CASE k # u.key BY <2>1, OtherRecordsKept DEF Changes
  <2>2. CASE k = u.key
    <3>1. Known(stack, u.key) /\ ~ InProgress(stack, u.key)
      BY <2>2 DEF Records, Entries, Known, InProgress
    <3>2. StartsMessage(u) BY <3>1 DEF NoAssociation
    <3> QED BY <2>2, <3>2, TakenOver
  <2> QED BY <2>1, <2>2
<1> QED BY <1>3, <1>4 DEF RecordsKept

LEMMA ReassembleStep ==
    ASSUME Inv, NEW u \in Segment, arrived' = u, Whole(stack'), AgeRecords, Moves(u)
    PROVE  recordAge' \in [Key -> Nat] /\ Aged' /\ RecordsKept
<1>1. CASE Unmoved
  <2>1. Keeps(stack, stack') BY <1>1 DEF Unmoved, Keeps
  <2>2. RecordsKept BY <1>1 DEF Unmoved, RecordsKept, Records, Entries, Known
  <2> QED BY <2>1, <2>2, AgedStep
<1>2. CASE Rejected(u)
  BY <1>2, DroppedOrMade, ChangesStep DEF Rejected, Alone
<1>3. CASE Started(u) BY <1>3, DroppedOrMade, ChangesStep DEF Started
<1>4. CASE Failing(u.key, Asked(u)) BY <1>4, DroppedOrMade, ChangesStep DEF Failing
<1>5. CASE Extending(u)
  <2>1. /\ SameBut(stack, stack', u.key) /\ stack'.timers = stack.timers
        /\ InProgress(stack, u.key)
    BY <1>5 DEF Extending, Continues
  <2>2. Keeps(stack, stack')
    <3> SUFFICES ASSUME NEW t \in stack.timers, t.kind = "record"
                 PROVE  stack'.reassemblies[t.key] = stack.reassemblies[t.key]
      BY <2>1 DEF Keeps
    <3>1. Failed(stack, t.key) BY DEF Inv, Whole, WholeBut, Timed, Kind, Failed
    <3>2. t.key # u.key BY <2>1, <3>1 DEF InProgress, Failed
    <3> QED BY <2>1, <3>1, <3>2 DEF SameBut, Failed, Known
  <2>3. \A k \in Records : k # u.key BY <2>1 DEF Records, Entries, InProgress
  <2>4. RecordsKept BY <2>1, <2>3, OtherRecordsKept DEF RecordsKept
  <2> QED BY <2>2, <2>4, AgedStep
<1>6. CASE Completed(u)
  BY <1>6, DroppedOrMade, ChangesStep DEF Completed, Continues
<1> QED BY <1>1, <1>2, <1>3, <1>4, <1>5, <1>6 DEF Moves

LEMMA SegmentStep ==
    ASSUME Inv, NEW u \in Segment, HandleSegment(u)
    PROVE  Inv' /\ RecordsKept /\ Moves(u)
<1>1. PICK available \in BOOLEAN : Reassemble(u, available) BY DEF HandleSegment
<1>2. Segmented(u) /\ arrived' = u BY DEF HandleSegment
<1>3. Whole(stack') /\ Moves(u) /\ AgeRecords BY <1>1, <1>2, SegmentMoves
<1>6. recordAge' \in [Key -> Nat] /\ Aged' /\ RecordsKept BY <1>2, <1>3, ReassembleStep
<1>4. 0 \in 0 .. MaxLag BY ReassemblyAssumption
<1>5. locked' \in BOOLEAN /\ ClockOK' BY <1>4 DEF HandleSegment, Unlock, ClockOK
<1> QED BY <1>3, <1>5, <1>6 DEF Inv

LEMMA NextInv == Inv /\ [Next]_vars => Inv' /\ [RecordsKept]_vars
<1> SUFFICES ASSUME Inv, [Next]_vars PROVE Inv' /\ [RecordsKept]_vars OBVIOUS
<1>1. CASE Tick BY <1>1, TickStep
<1>2. CASE Call \/ HandleTimeout BY <1>2, CallStep
<1>3. CASE Fire BY <1>3, FireStep
<1>4. CASE \E u \in Segment : HandleSegment(u) BY <1>4, SegmentStep
<1>5. CASE UNCHANGED vars
  BY <1>5 DEF vars, Inv, Aged, ClockOK
<1> QED BY <1>1, <1>2, <1>3, <1>4, <1>5 DEF Next

(* The invariant holds for any number of peers, references and segments,   *)
(* any bounds and any age of the clock readings.                           *)
THEOREM InvHolds == Spec => []Inv
BY InitInv, NextInv, PTL DEF Spec

LEMMA InvGives ==
    Inv => TypeOK /\ SlotsCounted /\ OctetsCounted /\ TimersMatch /\ ProcessesConsistent
<1> SUFFICES ASSUME Inv
             PROVE  TypeOK /\ SlotsCounted /\ OctetsCounted /\ TimersMatch
                    /\ ProcessesConsistent
  OBVIOUS
<1>1. /\ stack \in StackRecord /\ Counted(stack) /\ Accounted(stack)
      /\ Timed(stack, {}) /\ Consistent(stack, {})
  BY DEF Inv, Whole, WholeBut
<1>2. SlotsCounted
  <2>1. {k \in Records : Entries[k].orphan} = Orphans(stack) BY DEF Records, Entries, Orphans
  <2> QED BY <1>1, <2>1 DEF SlotsCounted, Counted, Slotted, Entries
<1>3. TimersMatch
  <2>1. \A t \in stack.timers :
          Known(stack, t.key) /\ t.kind = IF Entries[t.key].failed THEN "record" ELSE "process"
    BY <1>1 DEF Timed, Kind, Entries
  <2>2. ASSUME NEW k \in DOMAIN Entries
        PROVE  Cardinality({t \in stack.timers : t.key = k}) = 1
    <3>1. PICK t \in stack.timers : t.key = k BY <1>1 DEF Timed, Entries
    <3>2. {o \in stack.timers : o.key = k} = {t} BY <1>1, <3>1 DEF Timed
    <3> QED BY <3>2, FS_Singleton
  <2> QED BY <2>1, <2>2 DEF TimersMatch
<1>4. ProcessesConsistent
  BY <1>1 DEF Consistent, ConsistentProcess, ProcessesConsistent, Processes, Entries
<1>5. OctetsCounted
  <2>1. InProcess(stack) = Processes /\ \A p : InProcessOf(stack, p) = {k \in Processes : k.peer = p}
    BY DEF InProcess, InProcessOf, Processes, Entries
  <2> QED BY <1>1, <2>1 DEF OctetsCounted, Accounted, Held, Entries
<1>6. TypeOK
  <2>1. DOMAIN Entries \subseteq Key /\ stack.timers \subseteq Timer
    BY <1>1, MapsTyped DEF StackRecord, Entries
  <2>2. /\ \A k \in Processes : Entries[k] \in Process
        /\ \A k \in Records : Entries[k] \in Record
    BY <1>1, StackTyped DEF Processes, Records, Entries
  <2>3. stack.slots \in Nat /\ stack.orphans \in Nat
    <3>1. IsFiniteSet(Orphans(stack)) /\ IsFiniteSet(Slotted(stack))
      BY <1>1, FS_Subset DEF Counted, Orphans, Slotted
    <3> QED BY <1>1, <3>1, FS_CardinalityType DEF Counted
  <2>4. stack.octets \in Nat BY <1>1, HeldTyped DEF Accounted
  <2>5. stack.peerOctets \in [Peers -> Nat]
    <3>1. stack.peerOctets \in [Peers -> Int] BY <1>1 DEF StackRecord
    <3>2. ASSUME NEW p \in Peers PROVE stack.peerOctets[p] \in Nat
      <4>1. InProcessOf(stack, p) \in SUBSET InProcess(stack) BY DEF InProcessOf
      <4>2. Held(stack, InProcessOf(stack, p)) \in Nat BY <1>1, <4>1, HeldTyped
      <4> QED BY <1>1, <4>2 DEF Accounted
    <3> QED BY <3>1, <3>2
  <2>6. locked \in BOOLEAN /\ lag \in 0 .. MaxLag /\ recordAge \in [Key -> Nat]
    BY DEF Inv, ClockOK
  <2> QED BY <2>1, <2>2, <2>3, <2>4, <2>5, <2>6 DEF TypeOK
<1> QED BY <1>2, <1>3, <1>4, <1>5, <1>6

(* Every variable keeps its shape: in particular no account of octets or   *)
(* slots ever gets below zero.                                             *)
THEOREM TypesHold == Spec => []TypeOK
BY InvHolds, InvGives, PTL

(* The octets accounted, in total and of each peer, are the sums of what   *)
(* the processes hold, and within their bounds.                            *)
THEOREM OctetsAreCounted == Spec => []OctetsCounted
BY InvHolds, InvGives, PTL

(* Both counts of entries are exact, and within MaxReassemblies, on every  *)
(* path that makes, replaces or ends one.                                  *)
THEOREM SlotsAreCounted == Spec => []SlotsCounted
BY InvHolds, InvGives, PTL

(* A timer of T(reassembly) belongs to the entry its callback is about,    *)
(* and every entry has one.                                                *)
THEOREM TimersBelong == Spec => []TimersMatch
BY InvHolds, InvGives, PTL

(* What a process has and what it waits for make up its message, whatever  *)
(* arrives: the uint8 expected never wraps.                                *)
THEOREM ProcessesAreConsistent == Spec => []ProcessesConsistent
BY InvHolds, InvGives, PTL

(* A failed message is remembered for T(reassembly), less the age of a     *)
(* clock reading, unless another message starts with its reference.        *)
THEOREM RecordsAreKept == Spec => RecordsLast
<1>1. Inv /\ [Next]_vars => [RecordsKept]_vars BY NextInv
<1>2. [RecordsKept]_vars =>
        [\A k \in Records :
          \/ Known(stack', k) /\ stack'.reassemblies[k] = Entries[k]
          \/ recordAge[k] >= ReassemblyTimeout - MaxLag
          \/ /\ arrived'.first /\ arrived'.key = k
             /\ Entries[k].hash \notin {NoHash, SegmentHash(arrived')}]_vars
  BY DEF RecordsKept
<1> QED BY <1>1, <1>2, InvHolds, PTL DEF Spec, RecordsLast

=============================================================================
