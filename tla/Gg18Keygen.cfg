\* Three calls for computations of one to three parties, and one restart: two
\* calls can sign up after it while one from before it is still at work.
CONSTANTS
    Callers = {c1, c2, c3}
    Counts = {1, 2, 3}
    MaxRestarts = 1
    NoUuid = NoUuid
SPECIFICATION Spec
SYMMETRY CallerSymmetry
INVARIANTS TypeOK KeyAgreed ReadsVerify CommitFirst
PROPERTIES WrittenOnce
CHECK_DEADLOCK FALSE
