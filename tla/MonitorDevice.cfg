SPECIFICATION Spec
CONSTANTS
    f1 = f1
    f2 = f2
    Files <- MCFiles
    None = None
    Damaged = Damaged
    Absent = Absent
    Partial = Partial
    Good = Good
    Other = Other
    Envs <- HostedOnly
    Packages <- WholeOnly
    MaxRestarts = 0
PROPERTY FailedChecksTerminate
CHECK_DEADLOCK FALSE
