SPECIFICATION Spec
CONSTANTS
    NoPeer = NoPeer
    LimitA = 1
    LimitB = 2
    MaxConnections = 2
    EstablishmentTimeout = 2
    ReleaseTimeout = 1
    RepeatReleaseTimeout = 1
    ReleaseGiveUpTimeout = 2
    InactivitySendTimeout = 1
    InactivityReceiveTimeout = 2
    ReferenceFreeze = 8
    AnswerTime = 1
    MaxRequests = 2
    MaxFaults = 1
VIEW StateView
INVARIANTS
    NothingStale
PROPERTIES
    ComesToRest
CHECK_DEADLOCK FALSE
