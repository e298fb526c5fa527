SPECIFICATION Spec
CONSTANTS
    None = None
    DB = DB
    n1 = n1  n2 = n2
    Nodes = {n1, n2}
    Finishes = {f1, f2}
    f1 = f1  f2 = f2
    TTL = 3
    Deadline = 1
    Skew = 1
    End = 7
INVARIANTS IInv SuccessInTime NoEarlyEnd
