CONSTANTS
    MaxVersion = 2
    Requests = {r1}
    FileKinds <- BadOnnx
    SwapScenarios <- OnlyCrash
SPECIFICATION Spec
PROPERTIES
    AlwaysComesBack
