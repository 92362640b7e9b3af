CONSTANTS
    MaxNested = 2
    MaxLost = 4
SPECIFICATION Spec
INVARIANTS CaptureComplete SpawnRuleSeesAll GeneratedIsAnalysed
CONSTRAINT Bound
CHECK_DEADLOCK FALSE
