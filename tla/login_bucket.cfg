SPECIFICATION BucketSpec
CONSTANTS
    Never = Never
    Refill = 3
    Capacity = 6
    MaxUptime = 13
INVARIANTS BucketIInv AttemptsBounded RefusalHasCause
