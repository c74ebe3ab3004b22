SPECIFICATION Spec
CONSTANTS
    Half = 8
    Wide = 256
    Absent = Absent
    MaxRequests = 2
    MaxSize = 3
    MaxBytesPerDispatch = 3
    Prefixes = {2}
    MaxPolls = 2
    Addresses = {0, 2, 3}
    VadLists <- SomeVadLists
INVARIANTS TypeOK InStep OldPeerInStep WriteAsRequested RegionFound ProtectionFaithful
PROPERTIES AnswersTheAsked Answered
CHECK_DEADLOCK FALSE
