\* Two paid calls of a user whose window's length changes between them.
SPECIFICATION Spec
CONSTANTS
    user = user  credits = credits  project = project  c1 = c1  c2 = c2  f = f  g = g
    Accounts = {user, project}
    Live = {user, project}
    Capped = {user}
    LedgerCap = 3
    Costs = {1, 2}
    CostBound = 3
    Calls = {c1, c2}
    AccountsOf <- Charges
    Estimate <- EstimateOf
    Limits <- OneLimit
    Lengths <- LengthsOf
    MaxWindows <- WindowsOf
INVARIANTS LedgerWithinCap
\* Owners may stop saving budgets, and every call may have ended.
CHECK_DEADLOCK FALSE
