\* Two invocations of one user, no cancel.
SPECIFICATION WatchedSpec
CONSTANTS
    k1 = k1  k2 = k2  r1 = r1  r2 = r2  r3 = r3  x1 = x1  x2 = x2  u = u  p = p
    Requests = {r1, r2}
    Keys = {k1, k2}
    KeyOf <- OwnKey
    Cancels = {}
    TargetOf <- CancelFirst
    MaxAttempts = 1
    Accounts = {u, p}
    AccountsOf <- UserAndProject
    Estimate <- Three
    Limit <- Limits
    Costs = {2, 3}
    CostBound = 3
    MaxCrashes = 0
INVARIANTS AccountingExact
