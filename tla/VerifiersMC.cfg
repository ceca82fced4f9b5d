\* one client, two concurrent validations and two hyper blocks; three concurrent header checks
SPECIFICATION Spec
CONSTANTS
    Second = 2
    TokenExpiryInSeconds = 1
    Requests = {r1, r2}
    MaxTime = 4
    MaxBlocks = 2
    MaxFaults = 1
    Verifications = {c1, c2, c3}
    Headers <- MCHeaders
    HeaderShards = {"meta", "0"}
    MaxFailures = 2
SYMMETRY CallSymmetry
INVARIANTS HeaderVerdictsAreTrue
PROPERTIES HandedOutIsAccepted VerdictsAreTrue
CHECK_DEADLOCK FALSE
