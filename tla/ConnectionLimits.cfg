SPECIFICATION Spec
CONSTANTS
    Peers = {p1}
    NoPeer = NoPeer
    RemoteRefs = {x1, x2}
    NoRef = NoRef
    ReferenceLimit = 3
    MaxConnections = 2
    MaxDataLength = 6
    MaxReassemblyOctets = 6
    DT1Size = 4
    DataLengths = {1, 3}
    EstablishmentTimeout = 1
    ReleaseTimeout = 1
    RepeatReleaseTimeout = 1
    ReleaseGiveUpTimeout = 2
    InactivitySendTimeout = 1
    InactivityReceiveTimeout = 2
    ReferenceFreeze = 1
    MaxLag = 1
    MaxLate = 0
SYMMETRY Symmetry
VIEW StateView
INVARIANTS
    ActiveCounted
    AllocationComplete
    BuffersAccounted
    RefusedOnlyWhenCrowded
