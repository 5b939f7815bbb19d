\* A request to sign with none to two of the keys of which two suffice.
CONSTANTS
    Callers = {c1, c2}
    Counts = {2}
    MaxRestarts = 0
    NoUuid = NoUuid
    Threshold = 1
    party_id <- MCPartyId
SPECIFICATION CentralizedSpec
PROPERTY AcceptedIsAnswered
CHECK_DEADLOCK FALSE
