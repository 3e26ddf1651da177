\* The readers return: the last state has no successor.
CHECK_DEADLOCK FALSE
CONSTANTS
    None = None
    Letters = {E, F}
    Disks <- MCDisks
    Serials = {"11", "12", "13", "14"}
    IdOf <- MCIdOf
    LabelOf <- MCLabelOf
    PrefixOf <- MCPrefixOf
    SerialOf <- MCSerialOf
    StrayMounts <- MCStrayMounts
    StrayUser <- MCStrayUser
    StrayLabels <- MCStrayLabels
    StrayEmd <- MCStrayEmd
    MaxMounts = 3
SYMMETRY Alike
SPECIFICATION Spec
INVARIANTS
    TypeOK
    LetterNamesLastVolume
    BridgeIsExact
    BridgedLabelIsVolumes
    LabelsWereAtTheirLetters
    EmdLabelsRecovered
