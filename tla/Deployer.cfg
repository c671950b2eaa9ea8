SPECIFICATION LuckySpec
CONSTANTS
    Serial = {s1, s2}
    MaxWorkers <- Workers
    MaxUnplugs = 2
    Idle = Idle
INVARIANTS
    ScanInv
PROPERTIES
    CheckedBeforeStopping
    PluggedPhoneIsServed
    StopCompletes
CHECK_DEADLOCK FALSE
