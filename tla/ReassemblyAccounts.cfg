SPECIFICATION Spec
CONSTANTS
    Peers = {p1, p2}
    References = {r1, r2}
    Contents = {c1}
    Lengths = {1, 2}
    MaxSegments = 3
    MaxLongData = 4
    MaxReassemblies = 2
    MaxReassemblyOctets = 5
    MaxReassemblyOctetsPerPeer = 3
    ReassemblyTimeout = 1
    MaxLag = 0
    MaxLate = 0
SYMMETRY Symmetry
VIEW StateView
INVARIANTS
    TypeOK
    SlotsCounted
    OctetsCounted
    TimersMatch
    ProcessesConsistent
