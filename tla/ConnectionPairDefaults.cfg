SPECIFICATION Steps
CONSTANTS
    NoPeer = NoPeer
    LimitA = 1
    LimitB = 1
    MaxConnections = 2
    EstablishmentTimeout = 6
    ReleaseTimeout = 1
    RepeatReleaseTimeout = 1
    ReleaseGiveUpTimeout = 4
    InactivitySendTimeout = 28
    InactivityReceiveTimeout = 64
    ReferenceFreeze = 8
    AnswerTime = 1
    MaxRequests = 2
    MaxFaults = 2
VIEW RequestsView
PROPERTIES
    StaleOnlyIfFreedEarly
CHECK_DEADLOCK FALSE
