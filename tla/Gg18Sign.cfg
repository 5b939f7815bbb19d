\* Three calls that hold keys of which two suffice, and one restart: the
\* third can be one signer too many, or the first of a computation to come.
CONSTANTS
    Callers = {c1, c2, c3}
    Counts = {3}
    MaxRestarts = 1
    NoUuid = NoUuid
    Threshold = 1
    party_id <- MCPartyId
SPECIFICATION FairSpec
CONSTRAINTS InOrder OneDisturbance
INVARIANTS TypeOK SignatureJoint ReadsVerify RevealLast
PROPERTIES CompleteRunsFinish
CHECK_DEADLOCK FALSE
