\* Safety and termination of concurrent proxy calls.
CONSTANTS
    Calls = {c1, c2}
    Budgets = {0, 1, 2, 3}
    Statuses = {200, 503}
SPECIFICATION MCFairSpec
INVARIANTS
    CallTypeOK
    AttemptsAccounted
    ExecutionsBounded
    RelayedIsLastAttempt
    UnavailableMeansNeverSent
PROPERTIES
    SettledIsFinal
    TimedCallsSettle
