SPECIFICATION Spec
CONSTANTS
    Base = 8
    Requests <- MCRequests
    Responses <- MCResponses
    Payloads <- MCPayloads
    MaxSent = 2
    Expected <- MCExpected
INVARIANTS
    ReadBack
    OnlyOneReading
    DatagramsWhole
    OnlyTheToken
CHECK_DEADLOCK FALSE
