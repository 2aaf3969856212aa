\* Two paid calls and two fixture calls over two windows of each user account.
SPECIFICATION Spec
CONSTANTS
    user = user  credits = credits  project = project  c1 = c1  c2 = c2  f = f  g = g
    Accounts = {user, credits, project}
    Live = {user, project}
    Capped = {user}
    LedgerCap = 3
    Costs = {1, 5}
    CostBound = 5
    Calls = {c1, c2, f, g}
    AccountsOf <- Charges
    Estimate <- EstimateOf
    Limits <- LimitsOf
    Lengths <- LengthsOf
    MaxWindows <- WindowsOf
SYMMETRY Alike
INVARIANTS WindowsExact PreviewIsHonest
\* Owners may stop saving budgets, and every call may have ended.
CHECK_DEADLOCK FALSE
