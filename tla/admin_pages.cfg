SPECIFICATION Spec
CONSTANTS
    None = None
    KeyCount = 7
    Matching = {1, 2, 3, 5, 6, 7}
    Size = 2
INVARIANTS IInv SurvivorsMet
PROPERTIES RoundTrip
