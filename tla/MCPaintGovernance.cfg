\* One fixture command sent twice and two paid regenerations, over two
\* image sets, two readiness reviews, three region sets and three plans,
\* but no more than four reviews and plans together.
SPECIFICATION Spec
CONSTANTS
    f1 = f1  f2 = f2  r1 = r1  r2 = r2  fixtureKey = fixtureKey
    Nobody = Nobody
    Scenarios <- Requests
    Generations = {f1, f2, r1, r2}
    Paid = {r1, r2}
    Regenerations = {r1, r2}
    Keys = {fixtureKey, r1, r2}
    KeyOf <- SharedFixtureKey
    MaxRevisions = 2
    MaxReviews = 2
    MaxSets = 3
    MaxPlans = 3
    MaxHistory = 4
    PpmMax = 4
    MaxVertices = 5
    MaxRegions = 3
    MinAreaTwice = 1
SYMMETRY Twins
INVARIANTS PlansAreLinear PaidOncePerRevision RegionWorkCanContinue HistoryIsRestorable WorkbenchIsCoherent SnapshotsAreSound
PROPERTIES PlanStepsAreGrounded GuardsAcceptCommands
