SPECIFICATION Spec
CONSTANTS
    Procs = {p1, p2}
    NoProc = NoProc
    Absent = Absent
    Torn = Torn
    Transports <- TransportsVal
    MaxStarts = 4
    MaxRemovals = 1
INVARIANTS
    OneIdentity
    StartsUndisturbed
PROPERTIES
    KeyNeverReplaced
