SPECIFICATION FairSpec
CONSTANTS
    Threads = {c1, c2}
    Nobody = Nobody
    MaxServices = 3
    NumParts = 2
    MaxBoxes = 3
INVARIANTS TransientHasOwner FreeMeansSettled
PROPERTIES RestartEndsUp ImplementsContract CallsReturn
CHECK_DEADLOCK FALSE
