SPECIFICATION Spec
CONSTANTS
    n1 = n1  n2 = n2
    tab = tab
    old = old  new = new
    None = None
    Nodes = {n1, n2}
    Browsers = {tab}
    Identities = {old, new}
    MaxAge = 1
    MaxSkew = 1
    MaxClock = 3
SYMMETRY Alike
INVARIANTS IInv SessionBounded
