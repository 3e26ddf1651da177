\* The parser returns: the last state has no successor.
CHECK_DEADLOCK FALSE
SPECIFICATION KSpec
CONSTANTS
    BusIds = {b1, b2}
    Values = {d1, d2, d3}
    None = None
    MaxWritten = 6
    MaxLost = 1
INVARIANTS
    KTypeOK
    RecordsAreBlocks
    RecordsInLogOrder
    NoAnnouncementLost
    ForeignOnlyIfUnannounced
    UninterruptedSerialKept
