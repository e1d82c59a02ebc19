--------------------------- MODULE TimerLoopProofs ---------------------------
(***************************************************************************)
(* Proofs, for any number of loops and timers, about TimerLoop.            *)
(***************************************************************************)
EXTENDS TimerLoop, SetProofs, TLAPS

(* The lock and the clock reading: a loop holds the lock while it handles  *)
(* a timeout, and only a call may work with an old time.                   *)
LockOwned ==
    /\ \A l \in Loops : pc[l] = "handle" <=> holder = l
    /\ holder # Caller => lag = 0

(* Only loops that are not done have read since a cancellation.            *)
AwareRun == \A l \in aware : pc[l] # "done"

(* A loop about to read finds every timer on time, also when the loop that *)
(* waited for them was cancelled: no time passes before it has read, and   *)
(* what wakes it is a timer started when nothing was due.                  *)
ReadsOnTime ==
    aware = {} /\ (\E l \in Loops : pc[l] = "read" \/ (wake /\ pc[l] = "select")) => OnTime

Inv ==
    /\ TypeOK
    /\ LockOwned
    /\ AwareRun
    /\ ReadsOnTime
    /\ TimersOnTime
    /\ DeadlinesCovered

LEMMA InitInv == Init => Inv
<1> SUFFICES ASSUME Init PROVE Inv OBVIOUS
<1>1. Running = {} BY DEF Init, Running
<1>2. TypeOK
  <2>1. left \in [Timers -> Int \cup {Off}] BY DEF Init
  <2>2. wake \in BOOLEAN /\ pc \in [Loops -> Steps] BY DEF Init, Steps
  <2>3. wait \in [Loops -> Nat] BY LoopAssumption DEF Init
  <2>4. holder \in Loops \cup {Caller, Nobody} /\ lag \in 0 .. MaxLag /\ aware \subseteq Loops
    BY LoopAssumption DEF Init
  <2> QED BY <2>1, <2>2, <2>3, <2>4 DEF TypeOK
<1>3. LockOwned /\ AwareRun BY LoopAssumption DEF Init, LockOwned, AwareRun
<1>4. OnTime /\ DeadlinesCovered BY <1>1 DEF OnTime, DeadlinesCovered
<1> QED BY <1>2, <1>3, <1>4 DEF Inv, ReadsOnTime, TimersOnTime

(* What NextTimeout finds: while no timer is more than MaxLag late there   *)
(* is an earliest one.                                                     *)
LEMMA NextTimeoutIsEarliest ==
    ASSUME TypeOK, OnTime, Running # {}
    PROVE  NextTimeout \in Int /\ \A t \in Running : NextTimeout <= left[t]
<1> DEFINE S == {left[t] : t \in Running}
<1>1. S \subseteq Int /\ S # {} BY DEF TypeOK, Running
<1>2. -MaxLag \in Int /\ \A n \in S : n >= -MaxLag BY LoopAssumption DEF OnTime
<1> HIDE DEF S
<1>3. \E n \in S : \A m \in S : n <= m BY <1>1, <1>2, SmallestOfBounded
<1> USE DEF S
<1>4. PICK t \in Running : Earliest(t) BY <1>3 DEF Earliest
<1>5. \E u \in Running : Earliest(u) /\ NextTimeout = left[u]
  BY <1>4 DEF NextTimeout
<1> QED BY <1>5, <1>1 DEF Earliest

(* A loop that has read waits for every timer.                             *)
LEMMA WaitForCovers ==
    ASSUME TypeOK, OnTime
    PROVE  WaitFor \in Nat /\ \A t \in Running : WaitFor <= left[t] \/ WaitFor = 0
<1>1. CASE Running = {} BY <1>1, LoopAssumption DEF WaitFor
<1>2. CASE Running # {} BY <1>2, NextTimeoutIsEarliest DEF WaitFor, TypeOK, Running
<1> QED BY <1>1, <1>2

LEMMA TickStep == ASSUME Inv, Tick PROVE Inv'
<1>1. TypeOK'
  BY LoopAssumption DEF Inv, TypeOK, Tick, Waits, Steps
<1>2. \A t \in Running' : t \in Running /\ left[t] \in Int /\ left'[t] = left[t] - 1
  BY LoopAssumption DEF Inv, TypeOK, Tick, Running
<1>3. LockOwned' /\ AwareRun' BY DEF Inv, LockOwned, AwareRun, Tick
<1>4. ReadsOnTime' BY DEF Inv, ReadsOnTime, Tick, Waits
<1>5. ASSUME aware # {}
      PROVE  ~ wake /\ \A t \in Running : \E l \in Loops : Covers(l, t) /\ wait[l] > 0
  <2>1. PICK l \in Loops : pc[l] # "done" BY <1>5 DEF Inv, AwareRun, TypeOK
  <2>2. ~ wake BY <2>1 DEF Tick, Waits
  <2> QED BY <2>2, <1>5 DEF Inv, DeadlinesCovered, Tick, Waits, Covers
<1>6. TimersOnTime'
  <2> SUFFICES ASSUME aware # {}, NEW t \in Running' PROVE left'[t] >= -MaxLag
    BY DEF TimersOnTime, OnTime, Tick
  <2>1. PICK l \in Loops : Covers(l, t) /\ wait[l] > 0 BY <1>2, <1>5
  <2> QED BY <1>2, <2>1, LoopAssumption DEF Covers, Inv, TypeOK
<1>7. DeadlinesCovered'
  <2> SUFFICES ASSUME aware # {}, NEW t \in Running'
               PROVE  \E l \in Loops : Covers(l, t)'
    BY DEF DeadlinesCovered, Tick
  <2>1. PICK l \in Loops : Covers(l, t) /\ wait[l] > 0 BY <1>2, <1>5
  <2>2. wait[l] \in Nat /\ left[t] \in Int /\ wait[l] <= left[t]
    BY <1>2, <2>1 DEF Covers, Inv, TypeOK
  <2>3. pc'[l] = "select" /\ wait'[l] = wait[l] - 1 /\ left'[t] = left[t] - 1
    BY <1>2, <2>1 DEF Covers, Inv, TypeOK, Tick
  <2>4. Covers(l, t)' BY <2>2, <2>3 DEF Covers
  <2> QED BY <2>4
<1> QED BY <1>1, <1>3, <1>4, <1>6, <1>7 DEF Inv

(* What schedule keeps, for a timer that is restarted or started when      *)
(* nothing is due.                                                         *)
LEMMA ScheduleStep ==
    ASSUME Inv, NEW t \in Timers, NEW d \in Durations, Schedule(t, d),
           UNCHANGED <<pc, wait, holder, lag, aware>>
    PROVE  Inv'
<1>1. d \in Nat /\ d > 0 /\ lag \in Nat /\ lag <= MaxLag /\ MaxLag \in Nat
  BY LoopAssumption DEF Inv, TypeOK
<1>2. TypeOK' BY <1>1 DEF Inv, TypeOK, Schedule
<1>3. LockOwned' /\ AwareRun' BY DEF Inv, LockOwned, AwareRun
<1>4. \A o \in Running' \ {t} : o \in Running /\ left'[o] = left[o] /\ left[o] \in Int
  BY DEF Inv, TypeOK, Schedule, Running
<1>5. left'[t] = d - lag /\ d - lag > -MaxLag BY <1>1 DEF Inv, TypeOK, Schedule
<1>6. OnTime => OnTime' BY <1>1, <1>4, <1>5 DEF OnTime
<1>7. Wakes(t, d - lag) => OnTime'
  <2> SUFFICES ASSUME Wakes(t, d - lag), NEW o \in Running' PROVE left'[o] >= -MaxLag
    BY DEF OnTime
  <2>1. CASE o = t BY <2>1, <1>1, <1>5
  <2>2. CASE o # t BY <2>2, <1>1, <1>4, <1>5 DEF Wakes
  <2> QED BY <2>1, <2>2
<1>8. ReadsOnTime' BY <1>6, <1>7 DEF Inv, ReadsOnTime, Schedule
<1>9. TimersOnTime' BY <1>6 DEF Inv, TimersOnTime
<1>10. DeadlinesCovered'
  <2> SUFFICES ASSUME aware # {}, ~ wake', \A l \in Loops : pc[l] \notin {"read", "handle"},
                      NEW o \in Running'
               PROVE  \E l \in Loops : Covers(l, o)'
    BY DEF DeadlinesCovered
  <2>1. ~ wake /\ ~ Wakes(t, d - lag) BY DEF Schedule
  <2>2. \A u \in Running : \E l \in Loops : Covers(l, u)
    BY <2>1 DEF Inv, DeadlinesCovered
  <2>3. PICK u \in Running : (u = o \/ o = t) /\ left[u] <= left'[o] /\ left[u] \in Int
    <3>1. CASE o = t
      <4>1. PICK u \in Running \ {t} : ~ (d - lag < left[u]) BY <2>1 DEF Wakes
      <4> QED BY <4>1, <3>1, <1>1, <1>5 DEF Inv, TypeOK, Running
    <3>2. CASE o # t BY <3>2, <1>4
    <3> QED BY <3>1, <3>2
  <2>4. PICK l \in Loops : Covers(l, u) BY <2>2
  <2>5. left'[o] \in Int BY <1>1, <1>4, <1>5
  <2> QED BY <2>3, <2>4, <2>5 DEF Covers, Inv, TypeOK
<1> QED BY <1>2, <1>3, <1>8, <1>9, <1>10 DEF Inv

(* A timer leaves the heap.                                                *)
LEMMA OffStep ==
    ASSUME Inv, NEW t \in Timers, left' = [left EXCEPT ![t] = Off],
           UNCHANGED <<wake, pc, wait, holder, lag, aware>>
    PROVE  Inv'
<1>1. TypeOK' BY DEF Inv, TypeOK
<1>2. \A o \in Running' : o \in Running /\ left'[o] = left[o] BY DEF Inv, TypeOK, Running
<1>3. LockOwned' /\ AwareRun' BY DEF Inv, LockOwned, AwareRun
<1>4. OnTime => OnTime' BY <1>2 DEF OnTime
<1>5. ReadsOnTime' /\ TimersOnTime' BY <1>4 DEF Inv, ReadsOnTime, TimersOnTime
<1>6. DeadlinesCovered' BY <1>2 DEF Inv, DeadlinesCovered, Covers
<1> QED BY <1>1, <1>3, <1>5, <1>6 DEF Inv

LEMMA CallStep == ASSUME Inv, Call PROVE Inv'
<1>1. TypeOK' BY DEF Inv, TypeOK, Call
<1>2. LockOwned' /\ AwareRun' BY LoopAssumption DEF Inv, LockOwned, AwareRun, Call
<1>3. ReadsOnTime' /\ TimersOnTime' /\ DeadlinesCovered'
  BY DEF Inv, ReadsOnTime, TimersOnTime, DeadlinesCovered, OnTime, Covers, Running, Call
<1> QED BY <1>1, <1>2, <1>3 DEF Inv

LEMMA ReturnStep == ASSUME Inv, Return PROVE Inv'
<1>1. TypeOK' BY LoopAssumption DEF Inv, TypeOK, Return
<1>2. LockOwned' /\ AwareRun' BY LoopAssumption DEF Inv, LockOwned, AwareRun, Return
<1>3. ReadsOnTime' /\ TimersOnTime' /\ DeadlinesCovered'
  BY DEF Inv, ReadsOnTime, TimersOnTime, DeadlinesCovered, OnTime, Covers, Running, Return
<1> QED BY <1>1, <1>2, <1>3 DEF Inv

(* A timer that is due runs out, and its callback may start it again.      *)
LEMMA FireStep == ASSUME Inv, NEW t \in Timers, Fire(t) PROVE Inv'
<1>1. UNCHANGED <<pc, wait, holder, lag, aware>> BY DEF Fire
<1>2. CASE left' = [left EXCEPT ![t] = Off] /\ UNCHANGED wake
  BY <1>1, <1>2, OffStep
<1>3. CASE \E d \in Durations : Schedule(t, d)
  BY <1>1, <1>3, ScheduleStep
<1> QED BY <1>2, <1>3 DEF Fire

LEMMA StartTimerStep == ASSUME Inv, NEW t \in Timers, StartTimer(t) PROVE Inv'
BY ScheduleStep DEF StartTimer

LEMMA StopTimerStep == ASSUME Inv, NEW t \in Timers, StopTimer(t) PROVE Inv'
BY OffStep DEF StopTimer

(* The loop that reads finds the timers on time, and then waits for all.   *)
LEMMA ReadTimeoutStep == ASSUME Inv, NEW l \in Loops, ReadTimeout(l) PROVE Inv'
<1>1. OnTime BY DEF Inv, ReadsOnTime, TimersOnTime, ReadTimeout
<1>2. WaitFor \in Nat /\ \A t \in Running : WaitFor <= left[t] \/ WaitFor = 0
  BY <1>1, WaitForCovers DEF Inv
<1>3. TypeOK' BY <1>2 DEF Inv, TypeOK, Steps, ReadTimeout
<1>4. LockOwned' BY DEF Inv, TypeOK, LockOwned, ReadTimeout
<1>5. AwareRun' BY DEF Inv, TypeOK, AwareRun, ReadTimeout
<1>6. ReadsOnTime' /\ TimersOnTime'
  BY <1>1 DEF ReadsOnTime, TimersOnTime, OnTime, Running, ReadTimeout
<1>7. pc'[l] = "select" /\ wait'[l] = WaitFor BY DEF Inv, TypeOK, ReadTimeout
<1>8. \A t \in Running' : Covers(l, t)'
  BY <1>2, <1>7 DEF Covers, Running, ReadTimeout
<1>9. DeadlinesCovered' BY <1>8 DEF DeadlinesCovered
<1> QED BY <1>3, <1>4, <1>5, <1>6, <1>9 DEF Inv

LEMMA WokenStep == ASSUME Inv, NEW l \in Loops, Woken(l) PROVE Inv'
<1>1. OnTime BY DEF Inv, ReadsOnTime, TimersOnTime, Woken
<1>2. TypeOK' BY DEF Inv, TypeOK, Steps, Woken
<1>3. LockOwned' /\ AwareRun' BY DEF Inv, TypeOK, LockOwned, AwareRun, Woken
<1>4. ReadsOnTime' /\ TimersOnTime'
  BY <1>1 DEF ReadsOnTime, TimersOnTime, OnTime, Running, Woken
<1>5. pc'[l] = "read" BY DEF Inv, TypeOK, Woken
<1>6. DeadlinesCovered' BY <1>5 DEF DeadlinesCovered
<1> QED BY <1>2, <1>3, <1>4, <1>6 DEF Inv

LEMMA AlarmStep == ASSUME Inv, NEW l \in Loops, Alarm(l) PROVE Inv'
<1>1. TypeOK' BY DEF Inv, TypeOK, Steps, Alarm
<1>2. LockOwned' BY LoopAssumption DEF Inv, TypeOK, LockOwned, Alarm
<1>3. AwareRun' BY DEF Inv, TypeOK, AwareRun, Alarm
<1>4. ReadsOnTime' /\ TimersOnTime'
  BY DEF Inv, TypeOK, ReadsOnTime, TimersOnTime, OnTime, Running, Alarm
<1>5. pc'[l] = "handle" BY DEF Inv, TypeOK, Alarm
<1>6. DeadlinesCovered' BY <1>5 DEF DeadlinesCovered
<1> QED BY <1>1, <1>2, <1>3, <1>4, <1>6 DEF Inv

(* HandleTimeout leaves nothing that is due, by a fresh time.              *)
LEMMA HandledStep == ASSUME Inv, NEW l \in Loops, Handled(l) PROVE Inv'
<1>1. lag = 0 /\ holder = l BY LoopAssumption DEF Inv, LockOwned, Handled
<1>2. OnTime
  BY <1>1, LoopAssumption DEF Inv, TypeOK, OnTime, NothingDue, Due, Running, Handled
<1>3. TypeOK' BY DEF Inv, TypeOK, Steps, Handled
<1>4. LockOwned' BY <1>1, LoopAssumption DEF Inv, TypeOK, LockOwned, Handled
<1>5. AwareRun' BY DEF Inv, TypeOK, AwareRun, Handled
<1>6. ReadsOnTime' /\ TimersOnTime'
  BY <1>2 DEF ReadsOnTime, TimersOnTime, OnTime, Running, Handled
<1>7. pc'[l] = "read" BY DEF Inv, TypeOK, Handled
<1>8. DeadlinesCovered' BY <1>7 DEF DeadlinesCovered
<1> QED BY <1>3, <1>4, <1>5, <1>6, <1>8 DEF Inv

(* A loop leaves; what the others find when they read is still on time.    *)
LEMMA CancelledStep == ASSUME Inv, NEW l \in Loops, Cancelled(l) PROVE Inv'
<1>1. TypeOK' BY DEF Inv, TypeOK, Steps, Cancelled
<1>2. LockOwned' BY DEF Inv, TypeOK, LockOwned, Cancelled
<1>3. ReadsOnTime'
  <2> SUFFICES ASSUME NEW k \in Loops, pc'[k] = "read" \/ (wake /\ pc'[k] = "select")
               PROVE  OnTime
    BY DEF ReadsOnTime, OnTime, Running, Cancelled
  <2>1. pc'[k] = pc[k] BY DEF Inv, TypeOK, Cancelled
  <2> QED BY <2>1 DEF Inv, ReadsOnTime, TimersOnTime
<1>4. AwareRun' /\ TimersOnTime' /\ DeadlinesCovered'
  BY DEF AwareRun, TimersOnTime, DeadlinesCovered, Cancelled
<1> QED BY <1>1, <1>2, <1>3, <1>4 DEF Inv

LEMMA NextInv == Inv /\ [Next]_vars => Inv'
<1> SUFFICES ASSUME Inv, [Next]_vars PROVE Inv' OBVIOUS
<1>1. CASE Tick BY <1>1, TickStep
<1>2. CASE Call BY <1>2, CallStep
<1>3. CASE \E t \in Timers : Fire(t) \/ StartTimer(t) \/ StopTimer(t)
  BY <1>3, FireStep, StartTimerStep, StopTimerStep
<1>4. CASE Return BY <1>4, ReturnStep
<1>5. CASE \E l \in Loops : Loop(l)
  BY <1>5, ReadTimeoutStep, WokenStep, AlarmStep, HandledStep, CancelledStep DEF Loop
<1>6. CASE UNCHANGED vars
  BY <1>6 DEF vars, Inv, TypeOK, LockOwned, AwareRun, ReadsOnTime, TimersOnTime,
              DeadlinesCovered, OnTime, Covers, Running
<1> QED BY <1>1, <1>2, <1>3, <1>4, <1>5, <1>6 DEF Next

(* Whatever the calls and the loops of RunTimers do, the invariant holds.  *)
THEOREM InvHolds == Spec => []Inv
BY InitInv, NextInv, PTL DEF Spec

(* The variables keep the shapes the code gives them (stack.go).           *)
THEOREM TypesHold == Spec => []TypeOK
<1>1. Inv => TypeOK BY DEF Inv
<1> QED BY <1>1, InvHolds, PTL

(* No loop of RunTimers sleeps past a deadline, for any number of loops    *)
(* and timers, any durations and any age of the clock readings.            *)
THEOREM NoTimerIsLate == Spec => []TimersOnTime
<1>1. Inv => TimersOnTime BY DEF Inv
<1> QED BY <1>1, InvHolds, PTL

(* The one slot of the wake channel is enough: a deadline that no loop     *)
(* waits for is announced in it, or a loop is about to read it.            *)
THEOREM NoDeadlineIsMissed == Spec => []DeadlinesCovered
<1>1. Inv => DeadlinesCovered BY DEF Inv
<1> QED BY <1>1, InvHolds, PTL

=============================================================================
