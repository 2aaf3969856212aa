SPECIFICATION Spec
CONSTANTS
    q0 = q0
    q1 = q1
    q2 = q2
    q3 = q3
    f0 = f0
    f1 = f1
    f2 = f2
    known = known
    new = new
    seed = seed
    project = project
    logout = logout
    c1 = c1
    c2 = c2
    c3 = c3
    c4 = c4
    c5 = c5
    c6 = c6
    c7 = c7
    c8 = c8
    c9 = c9
    c10 = c10
    c11 = c11
    c12 = c12
    c13 = c13
    c14 = c14
    share = share
    other = other
    mate = mate
    assign = assign
    invite = invite
    remove = remove
    dismiss = dismiss
    review = review
    make = make
    repeat = repeat
    reuse = reuse
    terse = terse
    cards = cards
    spare = spare
    plans = plans
    readings = readings
    NoOne = NoOne
    create = create
    replace = replace
    again = again
    revoke = revoke
    lend = lend
    takeback = takeback
    permit = permit
    prefer = prefer
    judge = judge
    None = None
    Nobody = Nobody
    Flows = {f0, f1, f2}
    Callbacks <- MCCallbacks
    FlowOf <- MCFlowOf
    First = q0
    Subjects = {known, new}
    Known = known
    IdTokens <- MCTokens
    Skew = 1
    MaxAge = 1
    Commands = {logout, c1, c2, c3, c4, c5, c6, c7, c8, c9, c10, c11, c12, c13, c14}
    Logouts = {logout}
    Scenarios <- MCScenarios
    MaxInFlight = 2
    Keys = {create, replace, again, revoke, lend, takeback, permit, prefer, judge, share, terse, cards, spare}
    Models = {plans, readings}
    PlanModel = plans
    Asks <- MCAsks
    Seed = seed
    SeedOwner = q0
    Users <- MCUsers
    Projects = {project, other}
    Rank <- MCRank
    Errands = {invite, assign, dismiss, remove, review, make, repeat, reuse}
    Work <- MCWork
    ProjectOwner <- MCOwner
    Readers <- MCReaders
    Calls = {1}
    MaxRevision = 4
    KeyOf <- MCKeyOf
INVARIANTS LoginsOpenOnce PriorSessionIsGone CredentialsAreSound ReadyMeansCallable OneProjectPerKey NoCircularWait
PROPERTIES Irreversible OnlyMembersDecide
CHECK_DEADLOCK FALSE
