SPECIFICATION Spec
CONSTANTS
    f1 = f1
    f2 = f2
    Files <- MCFiles
    None = None
    Damaged = Damaged
    Absent = Absent
    Partial = Partial
    Good = Good
    Other = Other
    Envs <- AllEnvs
    Packages <- AllPackages
    MaxRestarts = 1
INVARIANTS TypeOK NoKeyOutlivesFailure PlaintextAtItsPath SuccessIsComplete
PROPERTIES DriftTerminates BootMatchesHealth
CHECK_DEADLOCK FALSE
