\* A single call that waits for a full table of slots is not served.
CHECK_DEADLOCK FALSE
CONSTANTS
    c1 = c1
    c2 = c2
    d1 = d1
    d2 = d2
    v1 = v1
    v2 = v2
    i1 = i1
    i2 = i2
    Calls <- TwoCalls
    Devices <- TwoDevices
    RolloutIds <- TwoRollouts
    Versions <- TwoVersions
    Slots = {1, 2}
    PutStatuses = {"active", "inactive"}
    MaxGauge = 1
    Scenarios <- AnyFailure
SYMMETRY Symmetry
SPECIFICATION Spec
INVARIANTS
    ApprovalIsWhole
    AnnouncedRolloutsAreRecorded
    ChecksSufficeInSequence
PROPERTIES
    OnlyApprovalsRevive
