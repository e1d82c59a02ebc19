----------------------------- MODULE TimerLoop -----------------------------
(***************************************************************************)
(* How the timers of a Stack come to run (stack.go: NextTimeout,           *)
(* HandleTimeout, RunTimers, schedule, stop, expire).                      *)
(*                                                                         *)
(* Each loop of RunTimers reads the earliest deadline, then waits for it,  *)
(* for the wake channel or for its context.  Between the two, and while it *)
(* waits, the calls of users and of the network schedule and stop timers:  *)
(* the one slot of the wake channel must not let a loop sleep past a       *)
(* deadline.  A call holds the lock while it fires what is due; a callback *)
(* may start a timer too.                                                  *)
(*                                                                         *)
(* Time is relative, and passes only when no loop can go on: a loop that   *)
(* has something to do takes no time for it.                               *)
(***************************************************************************)
EXTENDS Integers, FiniteSets

CONSTANTS
    Loops,         \* goroutines in RunTimers
    Cancellable,   \* the loops whose context may be done
    Timers,        \* timers that may run
    Durations,     \* ticks a timer is started for
    IdleWait,      \* the hour a loop waits when no timer runs
    MaxLag,        \* bound on the age of a call's clock reading
    Off,           \* a timer that does not run
    Nobody         \* the lock is free

Caller == "caller"    \* any user or the network

ASSUME LoopAssumption ==
    /\ Cancellable \subseteq Loops
    /\ Caller \notin Loops /\ Nobody \notin Loops \cup {Caller}
    /\ Durations \subseteq Nat \ {0}
    /\ IdleWait \in Nat \ {0}
    /\ MaxLag \in Nat
    /\ Off \notin Int

VARIABLES
    left,     \* left[t]: ticks to the deadline of t, or Off
    wake,     \* the wake channel holds its one value
    pc,       \* pc[l]: where loop l is
    wait,     \* wait[l]: ticks until its time.Timer fires
    holder,   \* who holds Stack.mu
    lag,      \* age of the holder's clock reading
    aware     \* history: loops that read since one was cancelled

vars == <<left, wake, pc, wait, holder, lag, aware>>

Steps == {"read", "select", "handle", "done"}

-----------------------------------------------------------------------------
Running == {t \in Timers : left[t] # Off}

(* Fault: only the first timer wakes the loops.                            *)
WakesWhenIdle(t, deadline) == Running \ {t} = {}

(* schedule: t is the root of the heap when it is due before all others.   *)
Wakes(t, deadline) == \A o \in Running \ {t} : deadline < left[o]

(* Sending to a full channel does nothing.                                 *)
Schedule(t, d) ==
    /\ left' = [left EXCEPT ![t] = d - lag]
    /\ wake' = (wake \/ Wakes(t, d - lag))

Due(t) == t \in Running /\ left[t] <= -lag

Earliest(t) == \A o \in Running : left[t] <= left[o]

NothingDue == \A t \in Timers : ~Due(t)

-----------------------------------------------------------------------------
Init ==
    /\ left = [t \in Timers |-> Off]
    /\ wake = FALSE
    /\ pc = [l \in Loops |-> "read"]
    /\ wait = [l \in Loops |-> IdleWait]
    /\ holder = Nobody
    /\ lag = 0
    /\ aware = Loops

(* A loop that waits has nothing to do before its time.                    *)
Waits(l) == pc[l] = "done" \/ (pc[l] = "select" /\ ~wake /\ wait[l] > 0)

Tick ==
    /\ holder = Nobody
    /\ \A l \in Loops : Waits(l)
    /\ left' = [t \in Timers |-> IF left[t] = Off THEN Off ELSE left[t] - 1]
    /\ wait' = [l \in Loops |-> IF pc[l] = "select" THEN wait[l] - 1 ELSE wait[l]]
    /\ UNCHANGED <<wake, pc, holder, lag, aware>>

-----------------------------------------------------------------------------
(* Who holds the lock.                                                     *)

Call ==
    /\ holder = Nobody
    /\ holder' = Caller
    /\ lag' \in 0 .. MaxLag
    /\ UNCHANGED <<left, wake, pc, wait, aware>>

(* expire takes the earliest timer out of the heap and runs its callback,  *)
(* which may start it again.                                               *)
Fire(t) ==
    /\ holder # Nobody
    /\ Due(t) /\ Earliest(t)
    /\ \/ left' = [left EXCEPT ![t] = Off] /\ UNCHANGED wake
       \/ \E d \in Durations : Schedule(t, d)
    /\ UNCHANGED <<pc, wait, holder, lag, aware>>

(* What a call does once nothing is due.                                   *)
StartTimer(t) ==
    /\ holder = Caller
    /\ NothingDue
    /\ left[t] = Off
    /\ \E d \in Durations : Schedule(t, d)
    /\ UNCHANGED <<pc, wait, holder, lag, aware>>

StopTimer(t) ==
    /\ holder = Caller
    /\ NothingDue
    /\ left[t] # Off
    /\ left' = [left EXCEPT ![t] = Off]
    /\ UNCHANGED <<wake, pc, wait, holder, lag, aware>>

Return ==
    /\ holder = Caller
    /\ holder' = Nobody
    /\ lag' = 0
    /\ UNCHANGED <<left, wake, pc, wait, aware>>

-----------------------------------------------------------------------------
(* RunTimers.                                                              *)

(* Fault: the next deadline is whatever the heap holds, not the earliest.  *)
SomeDeadline == left[CHOOSE t \in Running : \A o \in Running : left[t] >= left[o]]

NextTimeout == left[CHOOSE t \in Running : Earliest(t)]

(* Fault: a deadline that has passed is waited for backwards.              *)
WaitForNegative == IF Running = {} THEN IdleWait ELSE NextTimeout

(* max(time.Until(next), 0), or an hour.                                   *)
WaitFor ==
    IF Running = {} THEN IdleWait ELSE IF NextTimeout > 0 THEN NextTimeout ELSE 0

(* NextTimeout, which takes the lock, and the time.Timer is reset.         *)
ReadTimeout(l) ==
    /\ pc[l] = "read"
    /\ holder = Nobody
    /\ wait' = [wait EXCEPT ![l] = WaitFor]
    /\ pc' = [pc EXCEPT ![l] = "select"]
    /\ aware' = aware \cup {l}
    /\ UNCHANGED <<left, wake, holder, lag>>

Woken(l) ==
    /\ pc[l] = "select"
    /\ wake
    /\ wake' = FALSE
    /\ pc' = [pc EXCEPT ![l] = "read"]
    /\ UNCHANGED <<left, wait, holder, lag, aware>>

(* The time.Timer fired: HandleTimeout takes the lock, with a fresh time.  *)
Alarm(l) ==
    /\ pc[l] = "select"
    /\ wait[l] <= 0
    /\ holder = Nobody
    /\ pc' = [pc EXCEPT ![l] = "handle"]
    /\ holder' = l
    /\ UNCHANGED <<left, wake, wait, lag, aware>>

(* HandleTimeout returns when nothing is due.                              *)
Handled(l) ==
    /\ pc[l] = "handle"
    /\ NothingDue
    /\ pc' = [pc EXCEPT ![l] = "read"]
    /\ holder' = Nobody
    /\ UNCHANGED <<left, wake, wait, lag, aware>>

Cancelled(l) ==
    /\ l \in Cancellable
    /\ pc[l] = "select"
    /\ pc' = [pc EXCEPT ![l] = "done"]
    /\ aware' = {}
    /\ UNCHANGED <<left, wake, wait, holder, lag>>

Loop(l) ==
    \/ ReadTimeout(l)
    \/ Woken(l)
    \/ Alarm(l)
    \/ Handled(l)
    \/ Cancelled(l)

Next ==
    \/ Tick
    \/ Call
    \/ \E t \in Timers : Fire(t) \/ StartTimer(t) \/ StopTimer(t)
    \/ Return
    \/ \E l \in Loops : Loop(l)

Spec == Init /\ [][Next]_vars

-----------------------------------------------------------------------------
(* Every variable has the shape the code gives it.                         *)
TypeOK ==
    /\ left \in [Timers -> Int \cup {Off}]
    /\ wake \in BOOLEAN
    /\ pc \in [Loops -> Steps]
    /\ wait \in [Loops -> Nat]
    /\ holder \in Loops \cup {Caller, Nobody}
    /\ lag \in 0 .. MaxLag
    /\ aware \subseteq Loops

OnTime == \A t \in Running : left[t] >= -MaxLag

(* No timer is past its deadline by more than the age of a clock reading,  *)
(* whatever the calls schedule and stop while the loops read, wait and     *)
(* fire: no loop sleeps past it, and it does not matter which of them      *)
(* takes the one value of the wake channel (RunTimers, schedule).  When a  *)
(* loop leaves, this holds again once another one has read.                *)
TimersOnTime == aware # {} => OnTime

(* "RunTimers runs the stack's timers until ctx is done", and "A Stack is  *)
(* safe for concurrent use": so it does while another RunTimers is         *)
(* cancelled.                                                              *)
OnTimeWhileRun == (\E l \in Loops : pc[l] # "done") => OnTime

(* Some loop is about to look, or waits no longer than the timer runs.     *)
Covers(l, t) == pc[l] = "select" /\ (wait[l] <= left[t] \/ wait[l] = 0)

(* Why TimersOnTime holds: a deadline that no loop waits for has a value   *)
(* in the wake channel or a loop that is going to read it.                 *)
DeadlinesCovered ==
    \/ aware = {}
    \/ wake
    \/ \E l \in Loops : pc[l] \in {"read", "handle"}
    \/ \A t \in Running : \E l \in Loops : Covers(l, t)

=============================================================================
