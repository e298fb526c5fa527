SPECIFICATION FairSpec
CONSTANTS
    None = None  Orphan = Orphan
    old = old  new = new  edited = edited
    core = core  index = index  other = other
    Nodes = {old, new, edited}
    MaxVersion = 3
    Checksums = {core, index, other}
    Seeds <- Databases
    Bundle <- Releases
INVARIANTS IInv ServesKnownSchema BlameIsTrue SqlMatchesRows
PROPERTIES ImplementsHistory EveryStartEnds
