\* Two calls and a borrower compete for one connection; one permit; the guard of
\* the application may be a SharedCancelGuard.
CONSTANTS
    Callers = {c1, c2}
    Borrowers = {b1}
    PoolSize = 1
    App = App
    Shared = {App}
SPECIFICATION FairSpec
INVARIANTS TypeOK WaitsOnlyForStrangers CanceledIffGone
PROPERTIES LateNeverRuns CancelCascades CallersAnswered
CHECK_DEADLOCK FALSE
