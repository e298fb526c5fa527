SPECIFICATION FairSpec
CONSTANTS
    None = None
    alice = alice  bob = bob
    Runs = {1, 2}
    Subjects = {alice}
INVARIANTS InvalidStaysAvailable
