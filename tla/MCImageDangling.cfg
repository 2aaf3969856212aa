\* A commit that takes effect after its references were looked for.
SPECIFICATION Spec
CONSTANTS
    u1 = u1  k1 = k1  p1 = p1
    front = front  back = back  None = None
    Uploads = {u1}
    Roles = {front, back}
    Primary = front
    RoleOf <- AllPrimary
    Keys = {k1}
    KeyOf <- OneKey
    Payloads = {p1}
    PayloadOf <- OneFile
    MaxCrashes = 0
    MaxLost = 1
INVARIANTS ReferencedObjectExists
