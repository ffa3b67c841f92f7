SPECIFICATION Spec
CONSTANTS
    Files = {f1, f2, f3}
    Faults = 2
INVARIANTS
    SuccessIsLoaded
    RepeatsNeedFaults
PROPERTIES
    EveryFileTried
    ScriptEnds
