\* the parts of a contract call
SPECIFICATION Spec
CONSTANTS
    Integer <- MCIntegers
    ByteLists <- MCByteLists
    MaxCalls = 3
    Users = {u1, u2}
    Guardian = g
    Relayer = r
    NoKey = none
    NetworkVersion = 2
    Chains = {"here", "elsewhere"}
    NetworkChain = "here"
    Base = 4
    ByteValues = {0, 1, 3}
    MaxLength = 7
    Shapes <- MCShapes
    Wallets <- MCWallets
    Passwords = {p1, p2}
    HardenedBit = 1024
    MaxSaves = 3
    Transactions = {t1, t2, t3}
    Outputs <- MCOutputs
    MaxRequests = 2
    ByteBase = 4
    Uint64Bytes = 2
    CommandLines <- MCCommandLines
    InitialNonces <- MCInitialNonces
    MinGasLimit = 3
    GasPerDataByte = 2
    setGuardianGasCost = 10
    MaxOthers = 1
INVARIANTS BuiltIsGiven SignaturesVerify DecodedIsEncoded KeysComeBack ResultsAreTheNodes ToolSignsWhatItSends
CHECK_DEADLOCK FALSE
