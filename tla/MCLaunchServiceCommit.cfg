SPECIFICATION LaunchSpec
CONSTANTS
    Inits = {"bare", "kept", "keptroot", "stopped", "manual", "boot", "legacy"}
    MaxOps = 1
    MaxFaults = 1
    MaxKills = 0
    CommitFaults = {"install"}
CHECK_DEADLOCK FALSE
INVARIANTS InstalledUsable
