SPECIFICATION Spec
CONSTANTS
    Peers = {p1, p2}
    NoPeer = NoPeer
    RemoteRefs = {x1, x2}
    NoRef = NoRef
    ReferenceLimit = 2
    MaxConnections = 2
    MaxDataLength = 1
    MaxReassemblyOctets = 1
    DT1Size = 1
    DataLengths = {1}
    EstablishmentTimeout = 2
    ReleaseTimeout = 1
    RepeatReleaseTimeout = 1
    ReleaseGiveUpTimeout = 3
    InactivitySendTimeout = 1
    InactivityReceiveTimeout = 2
    ReferenceFreeze = 2
    MaxLag = 1
    MaxLate = 1
SYMMETRY Symmetry
INVARIANTS
    TypeOK
    TimersMatchState
    UserAgrees
    RepeatWithinGiveUp
    SentAddressed
PROPERTIES
    ImplementsService
    FreezeHonoured
