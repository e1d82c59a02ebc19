SPECIFICATION Spec
CONSTANTS
    Cases <- MCCases
    Subsystems = {8}
    HopCounter = 15
    NewOctets <- MCNewOctets
CHECK_DEADLOCK FALSE
INVARIANTS
    RoundTrip
    CutLosesOptionalsOnly
    ReencodingStable
    LongestReturned
    OneFate
    ReturnedOrReported
