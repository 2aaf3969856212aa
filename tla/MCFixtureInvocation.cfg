\* Two requests with one key and a second invocation, two cancels, one crash.
SPECIFICATION WatchedSpec
CONSTANTS
    k1 = k1  k2 = k2  r1 = r1  r2 = r2  r3 = r3  x1 = x1  x2 = x2  u = u  p = p
    Requests = {r1, r2, r3}
    Keys = {k1, k2}
    KeyOf <- SameKey
    Cancels = {x1, x2}
    TargetOf <- CancelFirst
    MaxAttempts = 3
    Accounts = {u, p}
    AccountsOf <- UserAndProject
    Estimate <- Three
    Limit <- Limits
    Costs = {2, 3}
    CostBound = 3
    MaxCrashes = 1
CONSTRAINT SecondWithoutCancel
INVARIANTS AccountingAlone RetryAfterDefiniteFailure
PROPERTIES SchemaAccepts CancelledAttemptNeverSucceeds
