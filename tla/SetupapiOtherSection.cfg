\* The auditor returns: the last state has no successor.
CHECK_DEADLOCK FALSE
SPECIFICATION PSpec
CONSTANTS
    InstanceIds <- MCPaths
    Devices <- MCDevices
    HidIds <- MCHid
    Serials <- MCSerials
    AmpSecond = {madeUp}
    Digits = {"0", "4", "6", "D"}
    Times = {0, 1}
    None = None
    stick = stick
    madeUp = madeUp
    MaxWritten = 2
INVARIANT OnlyInstallsRecorded
