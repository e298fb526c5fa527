SPECIFICATION FairSpec
CONSTANTS
    None = None
    alice = alice  bob = bob
    Runs = {1, 2, 3}
    Subjects = {alice, bob}
INVARIANTS IInv SuccessIsTrue OneRun RetryPossible
PROPERTIES RunEnds
