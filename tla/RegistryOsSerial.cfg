\* The auditor returns: the last state has no successor.
CHECK_DEADLOCK FALSE
SPECIFICATION ClassSpec
CONSTANTS
    plain = plain
    hid = hid
    odd = odd
    short = short
    i1 = i1
    o1 = o1
    w1 = w1
    h1 = h1
    t1 = t1
    t2 = t2
    Vendors = {plain, hid, odd, short}
    SegmentsOf <- MCSegmentsOf
    Digits = {"0", "1", "7"}
    Instances <- MCInstances
    AmpSecond = {o1, w1}
    WideFirst = {w1}
    HidNames = {hid, h1}
    Times = {t1, t2}
    Letters = {E, F}
    None = None
    MaxMounts = 2
    MaxProps = 2
INVARIANT OsSerialNotReported
