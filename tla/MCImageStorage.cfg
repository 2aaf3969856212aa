\* Three uploads with one crash and one unanswered commit; two uploads beside
\* a migration, a backup and two restores, of which two runs stop early.
SPECIFICATION FairStorageSpec
CONSTANTS
    u1 = u1  u2 = u2  u3 = u3  u4 = u4  u5 = u5  k1 = k1  k2 = k2  p1 = p1  p2 = p2
    front = front  back = back  r1 = r1  r2 = r2  None = None
    Uploads = {u1, u2, u3, u4, u5}
    Roles = {front, back}
    Primary = front
    RoleOf <- MCRoleOf
    Keys = {k1, k2}
    KeyOf <- MCKeyOf
    Payloads = {p1, p2}
    PayloadOf <- MCPayloadOf
    StoreOf <- MCStoreOf
    Scenarios <- MCScenarios
    Restores = {r1, r2}
    MaxCrashes = 1
    MaxLost = 1
    MaxStops = 2
INVARIANTS OrphansComeFromFailures AnswersAreDurable RowsHaveObjects CopiesAreWhole
PROPERTIES KeepsHistory CommittedBeforeCompensationSurvives EveryUploadEnds RestoreConverges
