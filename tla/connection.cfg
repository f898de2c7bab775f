\* A connection over a plain or an encrypted stream, through every stage and request.
CONSTANTS
    Versions <- MCVersions

SPECIFICATION Spec
INVARIANTS
    TypeOK
    ReadyIsInStep
    NothingHalfOpen
    FailureIsRecoverable
    AsyncHandsOutNothing
PROPERTY
    ImplementsConnection
