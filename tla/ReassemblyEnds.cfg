SPECIFICATION FairSpec
CONSTANTS
    Peers = {p1}
    References = {r1, r2}
    Contents = {c1, c2}
    Lengths = {1}
    MaxSegments = 3
    MaxLongData = 4
    MaxReassemblies = 1
    MaxReassemblyOctets = 3
    MaxReassemblyOctetsPerPeer = 0
    ReassemblyTimeout = 2
    MaxLag = 1
    MaxLate = 1
PROPERTIES
    RecordsLast
    ReassembliesEnd
