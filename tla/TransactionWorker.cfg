\* three concurrent calls over three nonces, cancellation at any point
CONSTANTS
    Requests = {r1, r2, r3}
    Nonces = {0, 1, 2}
    Nil = Nil
SPECIFICATION FairSpec
INVARIANTS QueueMatchesMap SendsNeverBlock OneAnswerOfItsOwn ClosedAnswersEveryone SentLowestNonceFirst
PROPERTIES KeepsPromise
CHECK_DEADLOCK FALSE
