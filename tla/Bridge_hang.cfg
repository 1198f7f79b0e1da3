SPECIFICATION Spec
CONSTANTS
    Flows = {f1}
    Addrs <- MCAddrs
    Targets <- MCTargets
    Resolve <- MCResolve
    Allow = {1, 2, 3}
    Deny = {3}
    NoAddr = NoAddr
    NoTarget = NoTarget
    MaxCrashes = 1
INVARIANT AppNeverLeftHanging
CHECK_DEADLOCK FALSE
