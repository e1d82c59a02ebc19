SPECIFICATION Spec
CONSTANTS
    Loops = {l1, l2}
    Cancellable = {l1}
    Timers = {t1, t2, t3}
    Durations = {1, 3}
    IdleWait = 4
    MaxLag = 2
    Off = Off
    Nobody = Nobody
INVARIANTS
    OnTimeWhileRun
