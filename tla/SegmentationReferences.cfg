SPECIFICATION Spec
CONSTANTS
    MaxReference = 2
    SegmentationReferenceFreeze = 4
    SingleCapacity = 3
    SegmentCapacity = 2
    SegmentationThreshold = 3
    MaxSegments = 3
    MaxLongData = 7
    MaxLag = 2
INVARIANTS
    TypeOK
    OrderAgrees
    ExhaustedOnlyWhenFrozen
    SegmentsWhole
    FreezeKept
