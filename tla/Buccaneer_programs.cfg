SPECIFICATION Spec
CONSTANTS
    Programs <- MCPrograms
    Source <- MCSource
    STACK_MAX = 10
    FRAMES_MAX = 4
    LOCALS_MAX = 16
    GLOBALS_MAX = 3
    MaxInstructions = 60
    Keys = {"y", "n"}
    MaxKeys = 2
    Fuel = 7
INVARIANTS VmInv Meaning
PROPERTIES Terminates
CHECK_DEADLOCK FALSE
