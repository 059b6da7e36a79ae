SPECIFICATION LaunchSpec
CONSTANTS
    Inits = {"bare", "kept", "keptroot", "stopped", "manual", "boot", "legacy"}
    MaxOps = 2
    MaxFaults = 2
    MaxKills = 1
    CommitFaults = {"start", "upgrade", "uninstall", "purge"}
CHECK_DEADLOCK FALSE
INVARIANTS RunsInstalled StoppedStays
PROPERTIES Transactional UpAgain UninstallClears
