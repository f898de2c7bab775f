\* cpporm: sessions, transactions, migration and rows over one connection.
CONSTANTS
    Keys     <- MCKeys
    MaxId    = 3
    Sessions = {s1, s2, s3}
    Offered  <- MCOffered
    MaxGen   = 2
    Fields   <- MCFields
    Declared <- MCDeclared
    IdColumn <- MCIdColumn
    Models   = {m1, m2}
    Asked    <- MCAsked
    RefOf    <- MCRefOf
    Scenes   <- MCScenes
    s1 = s1

\* A behaviour ends when its budget is spent.
CHECK_DEADLOCK FALSE

SPECIFICATION Spec
INVARIANTS
    TransactionOwned
    OwnRow
    ClauseUsedOnce
    PreloadMatches
PROPERTIES
    ScopeHolds
    MigrationConverges
