CONSTANTS
    Detectors = {d1, d2}
    MaxEntries = 3
    StreamMaxLen = 2
    BatchSize = 2
    DetectScenarios <- AnyDetectFailure
    MaxVersion = 3
    Requests = {r1, r2}
    FileKinds <- AllFileKinds
    SwapScenarios <- AnySwapFailure
    Devices = {s1}
    DeviceTypes <- Types
    MaxReadings = 5
    WindowSize = 3
    MinHistory = 2
SPECIFICATION Spec
INVARIANTS
    AlertsAreExact
    OneModelInUse
    DeviationsTellFaults
PROPERTIES
    ReloadsMoveOn
    DeliveredIsEventuallyHandled
    GoodModelsComeBack
