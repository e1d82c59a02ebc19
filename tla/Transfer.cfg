SPECIFICATION Spec
CONSTANTS
    Sender = a
    MaxMessages = 3
    DataSizes = {3, 5}
    NetworkDelay = 1
    MaxRepeats = 3
    MaxReference = 0
    SegmentationReferenceFreeze = 7
    SegmentCapacity = 2
    MaxSegments = 3
    MaxLongData = 5
    MaxReassemblies = 1
    MaxReassemblyOctets = 5
    ReassemblyTimeout = 3
    MaxLag = 1
    MaxLate = 1
INVARIANTS
    OneOutcome
    NextSegmentFits
PROPERTIES
    DeliveredWhole
    ReferenceQuiet
    ImplementsService
