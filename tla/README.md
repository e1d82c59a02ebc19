# A verification of go-sccp

go-sccp is the SCCP layer of a signalling end node (ITU-T Q.711 to Q.714). Its `Stack` does no I/O: the caller
hands it what the MTP delivered and what its users ask for, and gets back a `Result` with the messages to send, the
primitives to deliver and the messages discarded. This directory holds TLA+ models of the procedures of the `Stack`,
TLC configurations that check them on small instances, and theorems about them, proved with TLAPS.

## 1. The system

| part | state | operations | who it meets |
|---|---|---|---|
| Stack (`stack.go`) | `mu`, `timers` (a heap by deadline), `wake` (a channel of one slot), `subsystems`, `nextSLS` | every method reads the clock, takes `mu`, fires what is due (`expire`), does its work; `HandleTransfer`, `HandleTimeout`, `NextTimeout`, `RunTimers`, subsystem registration | every procedure schedules and stops timers; any number of goroutines call in |
| Connection-oriented procedures (`connection*.go`) | `conn.sections` by local reference, `next`, `active`, `reassemblyOctets`; a section has its state, peer, six timers, a deferred disconnect and a reassembly buffer | `Connect`, `Accept`, `SendData`, `Disconnect`; CR, CC, CREF, RLSD, RLC, DT1, ERR, IT arriving; seven timers | users (primitives), peers (messages), timers (callbacks under the lock) |
| Segmentation (`unitdata.go` 64-335) | `nextSegmentationReference`, `frozenSegmentation` (a map) and `frozenSegmentationOrder` (a list of the same) | `Unitdata`: one message, segments, or a refusal | its segments meet the far end's reassembly |
| Reassembly (`unitdata.go` 605-894) | `reassemblies` by key: processes, and records of failed messages; `reassemblySlots`, `orphanRecords`, `reassemblyOctets`, `peerOctets` | `reassemble`, `rejectSegment`, `failReassembly`, `endReassembly`, T(reassembly) | peers, the message return procedure, the users |
| Routing and message return (`unitdata.go` 366-603) | none but `subsystems` | `handleUnitdata`, `handleService`, `route`, `reject`, `returnMessage`, `fitReturn` | every arriving connectionless message |
| Codecs and parameters (`sccp.go`, `wire.go`, `connectionless.go`, `connection_oriented.go`, `scmg.go`, `params/`) | none | `Marshal`, `ParseMessage`; addresses, global titles and digits; SCMG messages | pure functions, called for every message that is sent or arrives |
| Names, examples | none | generated tables; demonstration programs | - |

What is hard in it:

- **Time and the lock.** A method reads the clock before it waits for the lock. It may work with an old time, after
  another method that had a newer one: timers start early, freezes end early, lists kept "in order of their ends"
  are in the order of the calls.
- **Timers by hand.** A section has six timer fields besides its freeze, and a process has one that becomes its
  record's. A path that forgets to stop one leaves a callback to run on something else.
- **Races in the protocol.** A disconnect that crosses a confirmation, RLSD from both sides, a late RLC, a duplicate of
  the first segment of a failed message, segments of two messages with one reference.
- **Counts by hand.** `active`, the slots, the orphan records, the octets in total and by peer, each changed at many places.
- **Limits of the encoding.** Pointers of one or two octets, lengths of one or two, an optional part that may end without
  its end octet, a maximum message size: long addresses and long data meet all of them, and the data that comes back in a
  service message is found by a bisection over them.
- **The other end.** A confirmation or a release that is lost leaves one end open and the other not; references are used
  again while the other end, or the network, still holds messages for the old connection.
- **The wake channel.** One slot for any number of `RunTimers` loops.
- **Things that must end** whatever the peer does: a pending request, a release, a freeze, a reassembly, a record.

`PROJECT.json` lists these hazards one by one, each at the line where it bites and with the properties that cover it.

## 2. The modules

| module | what it is |
|---|---|
| `ConnectionService` | what the connection-oriented procedures promise: the life of a local reference, without messages, timers or clock |
| `ConnectionStack` | those procedures as the code has them: sections, timers, references, every handler, request and callback |
| `ConnectionProperties` | their properties, the refinement mapping to `ConnectionService`, the inductive invariant `Inv` |
| `ConnectionProofs` | theorems about them |
| `Segmentation`, `SegmentationProperties`, `SegmentationProofs` | the sending side of connectionless data transfer, its properties and theorems |
| `Reassembly`, `ReassemblyProperties`, `ReassemblyProofs` | the receiving side, its properties and theorems |
| `ConnectionlessService` | what connectionless data transfer promises: the outcome of each message, without segments, references or a clock |
| `SegmentedTransfer`, `TransferProofs` | both sides over a network that loses, delays, reorders and repeats segments (`Origin == INSTANCE Segmentation`, `Destination == INSTANCE Reassembly`), the refinement mapping to `ConnectionlessService`, and theorems |
| `ConnectionPair` | two `ConnectionStack`s, a user each, and the MTP between them (`A == INSTANCE ConnectionStack`, `B == INSTANCE ConnectionStack`) |
| `PairProofs` | theorems about it, over what `ConnectionProofs` says of each end |
| `Parameters` | the contents of the parameters, octet by octet: addresses, global titles, digits, references |
| `MessageCodec` | the encoder and decoder of `wire.go`: pointers, lengths, the optional part |
| `ConnectionlessMessages`, `ConnectionMessages`, `ManagementMessages` | what each message type writes and reads |
| `Messages` | `Marshal` and `ParseMessage` over all types |
| `MessageHandling`, `MessageProperties`, `MessageProofs` | an arriving message: decoded, routed, delivered, discarded or returned; properties; theorems, over lemmas about what the encoders and decoders compute, for every message and all octets |
| `TimerLoop`, `TimerLoopProofs` | how timers come to run: `RunTimers` loops, wake channel, deadlines; theorems |
| `Sums`, `SetProofs` | the sum of a number per element of a set; lemmas about it, about least elements of sets of numbers and about cardinalities |
| `MC*` | TLC's instances: symmetry and the views named in section 4 |

An operator whose comment begins with "Fault:" is no part of a model. It is the definition below it with a plausible
mistake, used to see that a property notices it.

### How they correspond to the code

**A method call** is `Call` (the clock is read and the lock taken; `lag` is how old the reading is), one `Fire` step for
each timer that is due (`expire`; the earliest first, ties in either order, as the heap leaves it), and one step of the
method itself, which is everything up to the unlock and gives the lock back. Other goroutines run between calls, never
inside one, as `mu` has it; that is why one action per handler loses no interleaving. What the code reads before it has
the lock is the clock alone, and that is `lag`.

**Time** is relative: a running timer holds the ticks to its deadline, `Tick` takes one off. A deadline the code computes
as `now.Add(d)` is `d - lag` ticks away. `MaxLag` bounds how old a reading may be, `MaxLate` how long a due timer may
wait for a call of `HandleTimeout`. Both are bounds of the models: the code has neither.

**`ConnectionStack`**: `section` is `conn.sections` with `idle` for a reference that has none; `timer` holds the fields
`establishment` ... `freeze` of a section that are in the heap; `next`, `active`, `octets` are `conn`'s. Users and peers
are open: any request at any time, any well-formed message from any peer, so loss, repetition, delay and messages of
earlier connections are all there. `user` and `frozenFor` are history: what the primitives so far told the user of a
reference (Q.711 Figure 8), and how long a reference has been frozen. `sent` is what the last step sent. A request that
is refused, a message discarded for its syntax and a connectionless message change nothing here: `HandleTimeout` stands
for them. Sends cannot fail after the checks that precede them, because the smallest message size a `Stack` accepts holds
every message the procedures send (`minMessageSize`); `SendData` is checked first by the code.

**`Reassembly`**: the fields are one record, `stack`, and each function of the code is an operator on it, so that a
handler reads as the calls it makes: `failReassembly` in the code, `FailReassembly(s, k, asked)` here. A reference of a
key stands for the label, the calling address and the segmentation local reference. User data is an opaque content and
a length; `segmentHash` tells apart what the code's hash is fed, collisions aside. `arrived` and `recordAge` are history.

**`Segmentation`**: the capacities of a message and of a segment, which the code finds by encoding, are constants. The
freeze of a reference has no timer in the code: it is over when an allocation finds it over, with the clock reading of
that call. A freeze that is over for every reading stays at `Thawed`.

**`SegmentedTransfer`**: the sender and the receiver step as the two modules say. `inFlight` holds the segments with
their age; one older than `NetworkDelay` is lost, and one that arrived may arrive again, `MaxRepeats` times in all.

**`ConnectionPair`**: every step is one of a `ConnectionStack`, of A or of B, with what it sends put in `inFlight`; a message
is taken from there to arrive, or stays to arrive again. At a tick the MTP loses what it does not delay. `faults` counts
the messages repeated and the ticks messages were delayed by, and has a bound. A call of one stack is finished before one
of the other begins: they share nothing, so an interleaving of the two shows no other states between calls. `requestOfA`
and `requestOfB` are history: which of the requests of A's user a section, and a message, belongs to.

**`Parameters` to `Messages`**: an encoder or decoder is the set of what it returns, empty for an error; an optional field
is the set of its value. `Layout` says what `encoder` does with its state: pointers reserved, parameters appended, each
pointer the distance to its parameter if that fits. The decoder reads as the code does, by offsets.

**`MessageHandling`**: a peer encodes one of `Cases`, the MTP may cut the octets after any of them or change one, and the stack
handles what arrives. `Handle` is `HandleTransfer` after `expire`, with the functions of `unitdata.go` as operators that
take a `Result` and give the next one. A segment that is not rejected and a connection-oriented message are handed to the
parts that `Reassembly` and `ConnectionStack` model (`handed`); `LocalGlobalTitle` answers anything.

**`TimerLoop`**: a loop is at `read` (before `NextTimeout`), `select`, `handle` (inside `HandleTimeout`) or `done`.
Calls start and stop timers; a started timer that becomes the root of the heap puts the value into the wake channel
unless it is full. A loop that can go on takes no time for it, so what the property says of lateness is what the
protocol of the loop adds, not the scheduler.

## 3. Abstractions

Causes, addresses, importance, data and the wording of discards are left out where no property is about them; the
modules of messages have all of them but the wording. In the other modules, whether a subsystem is available and where a
called address leads are open choices at each step. The receiving buffer of a
connection is its length and capacity. Messages carry the fields the procedures look at. Hash collisions (64 bits,
seeded) do not happen. Octets and references are small numbers, and the only fixed width that matters to an operation
is kept: `expected` is a `uint8` and wraps.

## 4. The runs

| run | question | instance |
|---|---|---|
| `ConnectionLifecycle` | are timers, user, messages and references right in every order of events? | 2 references, 2 peers, 2 remote references, lag 1, late 1 |
| `ConnectionLimits` | are the count of connections, the allocator and the octets exact at their limits? | 3 references, 2 connections, budget 6 for NSDUs of up to 6, DT1s of 1 and 3 |
| `ConnectionDataFull` | is a DT1 refused only when its octets do not fit, as a comment says? **no** | 2 references, budget 6 |
| `ConnectionPair` | does anything of an earlier connection reach a later one, and do the two ends come to rest? | 1 reference at A, 2 at B, 2 requests, 1 message repeated or delayed, T(conn est) 2, T(rel) 1, T(int) 2, T(ias) 1, T(iar) 2, freeze 8 |
| `ConnectionPairDefaults` | with the default timeouts, can anything of an earlier connection reach a later one before a reference came free too early? | 1 reference at each end, 2 requests, 2 messages repeated or delayed; in units of 15 s T(conn est) 6, T(rel) and T(repeat rel) 1, T(int) 4, T(ias) 28, T(iar) 64, freeze 8 |
| `ReassemblyAccounts` | are slots, records, octets and timers exact, whatever arrives? | 2 peers x 2 references, 2 slots, 5 octets, 3 by peer |
| `ReassemblyEnds` | is a record kept as long as promised, and does every process and record end? | 2 keys, 1 slot, 1 record, 2 contents, lag 1, late 1, `FairSpec` |
| `SegmentationReferences` | do map and list agree, are references frozen long enough, are segments right? | 3 references, freeze 4, lag 2, Z = 3, up to 7 octets in 2s |
| `Transfer` | is what is delivered one message, once, has each message an outcome `ConnectionlessService` allows, and is a reference quiet when it is used again? | 3 messages of 2 or 3 segments, 1 reference, delay 1, 3 repeats, T(reassembly) 3, freeze 7, lag 1, late 1 |
| `MessageHandled` | do all messages decode to what was encoded, and does each one that arrives have one fate? | some 1250 cases: every type, parameters absent, shortest and longest, sizes at the limits, labels, one subsystem |
| `TimerLoops` | does any interleaving of loops and calls sleep past a deadline? | 2 loops, 1 cancellable, 3 timers, lag 2 |
| `TimerLoopCancelled` | ... while another loop is cancelled? **yes** | the same |

Why the bounds are enough:

- Two references show everything one connection can do to another: the allocator wraps, one is frozen while the other is
  used, and the budget is shared. `AllocationComplete` needs a third, for a free reference behind a used and a
  frozen one. Two peers are the associated one and a third party.
- Timeouts are one to three ticks, in the order the defaults have where the code depends on it (T(iar) > T(ias),
  T(int) > T(repeat rel)), and a lag of one tick or more makes a timer start already due.
- `ReassemblyAccounts` has three segments to a message, so there is a first, a middle and a last; lengths 1 and 2, so a
  later segment can be longer than the first; and bounds under two messages, so that room runs out in the middle of one.
  Its lag is zero: the accounts do not depend on time, and `ReassemblyEnds` has the time.
- `Transfer` is at the tightest freeze for which `ReferenceQuiet` holds. It needs
  `SegmentationReferenceFreeze - MaxLag > NetworkDelay + ReassemblyTimeout + MaxLate`: with one tick less TLC finds a
  reference used again while the far end still waits. With the defaults, 20 s and 15 s, the network, the age of clock
  readings and the lateness of `HandleTimeout` share 5 s (`FreezeAssumption`). A repeated segment helps itself to no more
  time: it, too, is lost when it is older than `NetworkDelay`. That no message is returned twice or delivered after its
  return needs `ReassemblyTimeout - MaxLag > NetworkDelay`, so that a record outlasts the segments (`RecordAssumption`).
  With one reference each message meets what is left of the one before; two references sharing slots and octets are in
  `ReassemblyAccounts`.
- `ConnectionPair` has one reference at A, so that the second request reuses the first one's; two at B, so that a repeated CR
  finds one; and one fault, enough to delay or repeat any one message, while losses are unbounded. Timeouts are the
  shortest in the order of the defaults. A freeze of 8 is the shortest `FreezeOutlasts` of `PairProofs` allows there; TLC also
  finds 6 enough for this instance, and with 5 a message for the old connection at the new one. What the freeze has to outlast
  is T(iar) + T(rel) + T(int) of an end left half open, and what the MTP delays (section 6, item 4).
- `ConnectionPairDefaults` has the timeouts an unconfigured `Stack` has, where a freeze of 2 minutes does not outlast T(iar) of
  16: with a reference of its own to reuse at once, A does send to, and hear from, an end that still belongs to the old
  connection. The property is about how that can come about. With 2^24 references instead of one, an allocator that goes
  through all of them makes it rare; nothing in the code excludes it. The run has no fairness (`Steps`), so a behaviour may
  stop as soon as something stale is under way, and the reference must have come free by then.
- `MessageHandled` takes the lengths at which something changes: data of 0, 1 and the limit of its parameter and one more,
  addresses from an indicator to the 255 octets a length can say, so that pointers just reach and just do not, message
  sizes around the encodings, odd and even digits, each optional parameter alone, all and none, unknown parameters,
  values one past their range. Encodings of a part of the cases are altered: cut after every octet, and every octet
  changed to a few values.
- Three timers and two loops give `TimerLoops` a timer stopped, one started before it and one after it, while one
  loop reads and the other waits.

Views and symmetry. `ConnectionLimits`, `ConnectionDataFull` and `ReassemblyAccounts` use `StateView`, which leaves out what
a step puts out (and, for reassembly, the segment it handled): no action and no property of these runs reads it. Peers,
references and contents are interchangeable. The views of `ConnectionPair` and `ConnectionPairDefaults` leave out `sent`, which is in
`inFlight`, and the histories of the two stacks; that of `ConnectionPair`, whose properties do not read it, also the request of
references that are not in use. `ReassemblyEnds` uses neither.

Deadlock is checked in every run of one stack: a call can always be made or completed. The runs of `ConnectionPair` and
`MessageHandled` stop when there is nothing left to do: no more requests or faults, and the message handled.

**Fairness.** `Call`, `Fire` and `HandleTimeout` are weakly fair: somebody runs `RunTimers`, or calls `HandleTimeout` when
`NextTimeout` says so, as the documentation of `Stack` asks; and `expire` is a loop that goes on by itself. `Tick` is
strongly fair: time passes between calls however many there are. Nothing is assumed of the network or of the users of one
stack: no message ever has to arrive and no request has to be made. `ConnectionPair` assumes one thing more: B's user
answers a request within `AnswerTime`. The code sets no timer for that (Figure C.3 sheet 2), and a user that never answers
keeps a section for good; that is documented and no property of the code.

Every property was also checked against a model with a plausible mistake in one operator, which violates it:
`PROJECT.json` names them under `mutants`.

## 5. What is proved

Seven modules are proved about, each for every value of the constants its assumptions allow. Every proof of `Spec => []Inv`
has one step for each action of `Next`, over lemmas for the functions that several handlers call.

### Connections

For any number of references and connections, any timeouts, any peers, any lag:

| theorem | says |
|---|---|
| `TypeCorrect` | `TypeOK` always holds |
| `Invariant` | `Inv` always holds |
| `TimersAlwaysMatch`, `UserAlwaysAgrees`, `RepeatsWithinGiveUp` | a section runs the timers of its state; its user knows its state; T(repeat rel) stays within T(int) |
| `SentAlwaysAddressed` | what is sent names a peer and its reference |
| `FreezesAreHonoured` | a released reference is unused for `ReferenceFreeze - MaxLag` |
| `ActiveAlwaysCounted` | `active` counts the sections in use, within `MaxConnections` |
| `AllocatorNeverGivesUp` | a free reference is found, below the limit, within the probes the code makes |
| `BuffersAlwaysAccounted` | `reassemblyOctets` is the sum of the capacities of the receiving buffers, within its bound, and a buffer holds its data |
| `RefusalsAreJustified` | a DT1 is refused for want of room only when the budget would not do if every other connection held twice its data |
| `StackImplementsService` | `ConnectionStack` implements `ConnectionService` |

None of the invariants is inductive alone. A timer callback is right only if the timer was that of
the state (`TimersMatchState`); that the user agrees needs to know that a deferred disconnect is kept in a pending request
only and that a section in use has an associated peer (`SectionsShaped`); and a freeze that ends needs the relation
between its timer and how long it has lasted (`FreezeTimed`). Their conjunction with `TypeOK` is `Inv`, which is.
Then one lemma, `SectionsMove`, says what a step does to the sections as a whole: one of
them begins, opens, defers its disconnect, releases, ends or thaws, or all stay. The action property, the
count and the refinement follow from it, the count with the library's facts on cardinalities. That `occupied + 1` probes
suffice is a comparison of cardinalities: the probes before the first free one are different occupied references.
`BuffersAlwaysAccounted` has an invariant of its own: the capacity of a buffer is zero or less than twice what it holds,
and `octets` is the sum of the capacities. The assumptions are those
`ConnectionStack` names: limits and timeouts are positive, T(iar) > T(ias), and `NoPeer` and `NoRef` are no peers or references.

### Two ends of a connection

For any numbers of references, connections and requests, any timeouts, and any number of messages the MTP repeats or delays:

| theorem | says |
|---|---|
| `StaleOnlyAfterFreedEarly` | no message of an earlier connection is under way to a reference in use before `FreedEarly` was true |

`FreedEarly` is that a reference is free although something of the connection it carried last still names it: a message under
way, or the section of the other end. No relation between the timeouts is assumed, as `initConnections` checks none but
T(iar) > T(ias), and the timeouts of the defaults are among those covered. The theorem leaves one way for a message to go astray and
excludes the others a reader of the code would think of: that a CC or CREF is taken without a look at its source, that a CR
arrives twice and makes two sections, that releases cross, that a section waits for its repeated RLSD to be answered.

A message only names references, and of a CC or CREF only the destination is checked; what keeps an old one away from a new
connection is that the reference it names is not free. The inductive invariant is `Core`: each section and each message has
what it names held. It is kept by every step after which nothing is freed early, so it holds as long as `FreedEarly` does not
(`CoreUntilFreedEarly`). The proof carries a second argument along, for how long: if `FreezeOutlasts`,
`ReferenceFreeze > AnswerTime + T(iar) + T(rel) + T(int) + MaxFaults`, then nothing is ever freed early, and nothing is stale
(`NothingStaleIfFreezeOutlasts`). This is a lemma about a configuration a user may choose; the defaults are not one. `HoldsA(r, k, n)`, and `HoldsB`
for the other end, say that a reference carries request k and will not be free for n ticks more, and for as many again as
the MTP can still delay messages (`Spare`). Three things are known by it. A message under way has its destination held, and
its source if it names one (`Known`). A section holds its counterpart for as long as it can itself go on if it hears nothing
more: T(iar), T(rel) and T(int) in the order they run (`Left`), or the time an unanswered request may wait for B's user and all of
these after it (`Waits`), which a CR under way can still bring about (`Pending`); all that is `LinkedA` and `LinkedB`. And
no two references of A carry one request (`Histories`), which is why B never finds the source of an IT wrong.

A section gets new time only from a message that arrives, and such a message was sent when the other end was established, so
not about to be free: `PutTogether` says what a step has to show of what it sends. Then there is one lemma for each action. At
a tick both sides of the comparison lose one; a message the MTP delays is the only thing that loses nothing, and it takes one
from `Spare` (`TickHolds`). The end that is freed is frozen for `ReferenceFreeze`, which `FreezeOutlasts` makes
longer than anything the other end, or the MTP, can still hold (`SteadyHolds`). When a reference thaws (`ThawCoreA`, `ThawCoreB`), either
nothing names it any more, or it is freed early.

Of each end this needs more than the properties of `ConnectionStack` say: what a step does to the time a section has left, and
what it sends (`MessageWork`, `TimerWork`, `UserLeaves`). `ConnectionProofs` shows it of a stack whose clock is read and whose
timers fire without delay, as both are in `ConnectionPair`, with `Sound` for the invariant. `FreezeOutlasts` is enough but not
necessary: a request in its outgoing section has used up T(conn est) before the section is frozen, and `Core` does not count that.

### Reassembly

For any peers, references, contents and lengths of segments, any bounds, timeout and lag:

| theorem | says |
|---|---|
| `InvHolds`, `TypesHold` | `Inv` and `TypeOK` always hold |
| `SlotsAreCounted` | the counts of slots and orphan records are exact and within `MaxReassemblies` |
| `TimersBelong` | every process and every record has one timer, of its kind, and there is no other |
| `ProcessesAreConsistent` | what a process has and what it waits for make up its message; `expected` never wraps |
| `RecordsAreKept` | a record lasts `ReassemblyTimeout - MaxLag` unless another message starts with its reference |
| `OctetsAreCounted` | `reassemblyOctets` and `peerOctets` are the sums of the octets the processes hold, within both bounds |

The functions of the code are operators on `stack` there, so the invariant is one of a stack, `Whole(s)`: its fields are
typed, the slots counted, the timers matched and the processes consistent. Between the calls a handler makes the stack is
not always whole: `expire` has taken the timer of a key whose entry is still there, or `reassemble` has appended the last
segment of a message it is about to deliver. `WholeBut(s, gaps)` says so, with the keys concerned, and each function has a lemma
that says from which gaps it leads to which. `RecordsAreKept` needs one part more, `Aged`: what is left of a record's timer
and the age of the record make up `ReassemblyTimeout` less the age of a clock reading. That no count of octets gets below
zero, which `TypeOK` says, comes with the sums. They are the `SumOver` of `Sums`, a function defined by recursion over
the subsets of a set: what changes it is proved once in `SetProofs`, by the least counterexample instead of an induction.

### Segmentation

For any number of references, any freeze and any lag, less than the freeze or not:

| theorem | says |
|---|---|
| `InvHolds`, `TypesHold` | `Inv` and `TypeOK` always hold |
| `ListAgrees` | the map and the list of frozen references are the same, each reference once |
| `NoEarlyReuse` | a reference is not used again within `SegmentationReferenceFreeze - MaxLag` |
| `NoFalseExhaustion` | a request is refused for want of a reference only if all were used within the freeze, up to the age of the clock reading |
| `SegmentsAlwaysWhole` | the segments of a request make up its data, as equal as possible, the first the largest, and none too long |

`allocateSegmentationReference` thaws from the head of the list and stops at the first entry that is not over, although the
ends are out of order when clock readings are. What saves it is in `Inv`: an entry's end and the time since its allocation
differ by at most `MaxLag` (`Ages`), and the list is in the order of the allocations (`Sorted`). So an entry that thaws, in any
place, was allocated long enough ago (`UsedLongAgo`), and those behind one that is not over were allocated after it and are
too young to be over for that reading. That the loop stops somewhere is `SmallestOfNaturals`; that no reference is left when the
list is full is a comparison of cardinalities.

### Segmented transfer

For any number of messages, references and repeated segments, any sizes, delay, timeout and lag that satisfy
`FreezeAssumption` and `RecordAssumption`:

| theorem | says |
|---|---|
| `ReferencesAreQuiet` | a reference is used again only when the far end is done with the message that had it: no process, no record without a hash, no segment under way |
| `MessagesAreWhole` | what is delivered is one message, whole and in order |
| `OutcomesAreSingle` | a message is returned at most once; delivered or returned at most once as long as no segment is repeated |
| `SegmentsFit` | no segment that is next in its message is refused for its length |
| `TransferIsService` | `SegmentedTransfer` implements `ConnectionlessService` |

`TransferProofs` takes the invariants of the two sides from `SegmentationProofs` and `ReassemblyProofs`, by INSTANCE, and adds
what holds between them. `Quiet` is about time: a segment is no older than the use of its reference, and what is left of
a timer, with the age of that use, stays within the delay, T(reassembly) and the lateness. So by the end of the freeze
there is neither. The rest is about content. There is a function `use` from references to what each was last used for
(`Owned(use)`): a segment in the network is the one `splitSegments` made of that message at its place, a process holds the
first segments of that message in order, and a message that was returned has no process, and a record with the hash of
its first segment that outlasts whatever is still under way. `use` is not a variable of the model: the invariant says that
there is one, a step that sends changes it at one place, and all others keep it. `Once` is what holds as long as nothing was repeated.
For the refinement each step is shown to change the outcome of at most one message, one that is sent and not returned
(`Fated`).

### Timers

For any number of loops, timers and durations, and any lag:

| theorem | says |
|---|---|
| `InvHolds`, `TypesHold` | `Inv` and `TypeOK` always hold |
| `NoTimerIsLate` | no deadline is passed by more than `MaxLag` while a loop that has read since the last cancellation runs |
| `NoDeadlineIsMissed` | a deadline that no loop waits for is announced in the channel or about to be read |

`DeadlinesCovered` carries the argument: time passes only when every loop waits and the channel is empty, and then each running timer has a
loop that wakes no later than it. A loop that reads finds every timer on time (`ReadsOnTime`) and so waits for
the earliest. `LockOwned` is needed because only a caller works with an old reading, and a loop that handles a timeout does not.

### Message handling

For any messages that peers send, any fault of the MTP the model has, any label, addresses, subsystems and size limits:

| theorem | says |
|---|---|
| `EachHasOneFate` | a message that is handled is delivered, discarded or handed on, never two of these; at most one message is sent for it, and only if it asked for return and was discarded, which is then reported once |
| `LongestIsReturned` | what comes back holds the longest prefix of the user data for which a service message of its type fits the maximum message size |
| `ReturnedIfPossible` | a message that asked for its return and cannot be delivered comes back if and only if some prefix of its data fits a service message that may carry it, and is reported a second time if and only if none does; no other message is sent back or reported twice |

`EachHasOneFate` needs nothing of the codecs: it says of each function which Results it can make of an empty one
(`HasOneFate`), and that the cases of `route` leave none out.

The other two are about what `fitReturn` finds. The code says that fitting is monotonic in the length of the data, and bisects.
`WrittenShorter` and `LayoutShorter` prove it: with a shorter parameter in one place, each pointer has no further to reach, so none
that could be written becomes too long, and the message is shorter by the difference. `FitsWithLess` says so of
service messages, for any two causes; `SearchFinds` that the bisection of a monotonic property ends at the
longest length that has it; `NothingBuilt` that the bound of the search, 3952 octets, excludes nothing. Then `ReturnInv` says of every state
that the octets are read as one message at most (`UnitdataReadOne`) and that what became of it is accounted for: silence,
a return while something fits, or a second report while nothing does (`Returning`). Beyond what
`HandlingAssumption` says of sizes and numbers, one assumption is needed: the encodings of what peers send are octets, as a
`[]byte` is.

The operators there recurse: over the octets of an optional part, over the parameters by folds, over the halves of an interval.
The prover has no induction for them and none is used. `RecursionExists`, proved by the least counterexample, says that a
function exists whose value at a point depends on its value at one point of lower rank; so the function that the definition
chooses obeys its own equation, and what is said of its values is again proved by the least counterexample.

### Only model-checked

- All liveness (`ComesToRest`, `ReassembliesEnd`), which is beyond the prover.
- That `FreezeOutlasts` asks for more than is needed: on the instance of `ConnectionPair` TLC finds 6 enough for
  `NothingStale`.
- That decoding undoes encoding for every message: `RoundTrip`, `CutLosesOptionalsOnly` and `ReencodingStable` are checked over
  the cases of `MessageHandled`. They are about recursive encoders and decoders of every shape of address and optional part,
  for which an induction over the data would be needed.

## 6. Where the code and its words differ

1. `connection_procedures.go:377-378`: "a DT1 is refused only when the octets themselves do not fit". Near the bound the
   code grows the buffer of this DT1 to what it needs, but the buffers of other connections may have been doubled before
   and are never cut: a DT1 can be refused although all octets held would fit with it (`ConnectionDataFull`). What does
   hold is `RefusedOnlyWhenCrowded`: the budget would not do if every other connection held twice its data.
2. `stack.go:254-255`: "user data of Z octets or less is not segmented unless it does not fit". The code segments from
   exactly Z octets on (`len(req.Data) < z` is the condition for one message), which matters when Z is more than a
   segment holds. The test at `unitdata_test.go:388` agrees with the code, and the model does (`BelowThreshold`):
   `SegmentationReferences` sends data of exactly Z octets, which fits one message, in two segments.
3. `stack.go:542`: "RunTimers runs the stack's timers until ctx is done". With two `RunTimers` on one stack, the one that
   takes the value of the wake channel may be cancelled before it waits for the new deadline, or while it does; the other
   one is not woken and sleeps to its old deadline (`TimerLoopCancelled`). With one loop, or with loops that are all
   cancelled together, this cannot happen, and after one sleep the remaining loop is right again (`TimersOnTime`).
4. `docs/standards.md:313-315`: frozen references are kept "longer than the peer's T(int) of up to one minute (Annex C.4), so
   that a repeated RLSD still meets a frozen reference and is answered with RLC"; `connection.go:31-34` asks of
   `ReferenceFreeze` that it is longer than the peer's T(rel) and T(int) together. That does for the RLSD of a release both
   ends take part in. But T(int) of the peer need not start when the reference is frozen. If a CC is lost, T(conn est)
   releases and freezes the requester's reference while the peer stays established until T(iar), 16 minutes by default, and
   its user may disconnect at any time before that. When its first RLSD is lost, the repeated one meets a reference that is
   free again; it is one of the ways `ConnectionPairDefaults` has to `FreedEarly`. A reference that is still unused answers
   with RLC as well, so this is harmless unless the allocator has gone through its 2^24 references in between; one that
   carries another connection then gets the RLSD, and the check of the source reference (`connection_procedures.go:99-102`)
   is what is left.

## 7. The plan

Done, in this order: `ConnectionService`, `ConnectionStack` with its properties and proofs; `Reassembly`; `Segmentation`;
`SegmentedTransfer`; `TimerLoop`; `Parameters`, `MessageCodec` and the message modules; `MessageHandling`; `ConnectionPair`; the
proofs for `TimerLoop`, `Segmentation`, `Reassembly` and `MessageHandling`; those for the sums of octets and the lengths of
segments; those for `SegmentedTransfer`, and `ConnectionlessService` with its refinement; those for the encoded lengths and the
bisection of `fitReturn`; those for `ConnectionPair`.

## 8. What is not modelled, and why

- `String` and `Clone` methods, the texts of errors, and the names of causes (`params/causes.go`): no behaviour a property reads.
- `nextSLS`, the round robin over signalling links: it picks the link of an originated message and no procedure decides anything on it.
- Delivery of `Result`s after the unlock: it is the caller's, and the code promises no order for it.
- A third party whose stray CC or CREF restarts T(iar) of an established connection: the step is in `ConnectionStack`, but
  the standard allows it, so nothing forbids it.
- The content of user data of connections and the addresses of N-CONNECT: passed through.
- Generated tables of names, and the example programs.
