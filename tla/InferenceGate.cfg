SPECIFICATION FairSpec
CONSTANTS
    Tasks = {k1, k2, k3}
    Device <- MCDevice
    MaxScan = 1
INVARIANTS
    TypeOK
    Serialized
    ComputesOnResident
    TransientOnlyInUse
PROPERTY
    Ends
