\* No crash: a slow worker meets the recovery of its expired admission.
SPECIFICATION Spec
CONSTANTS
    c1 = c1  c2 = c2  c3 = c3  c4 = c4  u = u  p = p  w1 = w1  w2 = w2  s = s
    NoCall = NoCall
    Calls = {c1, c2, c3}
    Keys = {c1, c2, c3}
    KeyOf <- OwnKeys
    Resources = {w1, w2}
    ResourceOf <- TwoOnOne
    Credentials = {s}
    CredentialOf <- OneCredential
    Users = {u}
    UserOf <- OneUser
    Accounts = {u, p}
    AccountsOf <- UserAndProject
    Estimate <- Two
    PerCall <- PerCallLimits
    Limit <- TightLimits
    LedgerCap = 5
    Costs = {1, 3}
    CostBound = 3
    Legacy = {}
    LegacyCost <- NoLegacyCost
    MaxCrashes = 0
INVARIANTS PreDispatchFailureFreesClaim
