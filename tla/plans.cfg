SPECIFICATION Spec
CONSTANTS
    Requests <- MCRequests
    Faults <- AnyFault
    None = None
INVARIANTS LeftAlone StrandedOnlyIf FailureIsReported
