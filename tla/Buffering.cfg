SPECIFICATION Spec
CONSTANTS
    None = None
    RangeSizes <- OneOrTwo
    MaxRanges = 2
    BufferSizes <- NoneTwoOrFive
    DefaultBufferSize = 3
    MaxBufferSize = 4
    MaximumFileSize = 4
    MaxMessages = 3
    MaxIncidents = 1
INVARIANTS
    MemoryBounded
    OnceAndInOrder
    NothingDropped
PROPERTY
    FlushReachesDisk
