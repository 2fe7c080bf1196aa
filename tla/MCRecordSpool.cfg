SPECIFICATION FairSpec
CONSTANTS
    Producers = {p1, p2}
    None = none
    Kinds <- MCKinds
    SizeOf <- MCSizeOf
    FrameOf <- MCFrameOf
    MemoryLimit = 2
    WriteBufferBytes = 2
    SegmentSize = 3
    DiskLimit = 5
    MaxPuts = 5
    MaxFaults = 2
INVARIANT SpoolSound
PROPERTIES QueueSpec NobodyLeftWaiting
