\* The walk returns: the last state has no successor.
CHECK_DEADLOCK FALSE
SPECIFICATION MCSpec
CONSTANTS
    Cells = {1, 2, 3, 4}
    Letters = {"E", "F"}
    None = None
INVARIANTS
    TypeOK
    EntriesAreReal
    ReachedExactly
    LinkReportedPerMention
    EveryVolumeNodeOnce
PROPERTIES
    ImplementsCover
    WalkEnds
