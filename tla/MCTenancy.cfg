\* Every interleaving of three auth requests and two changes by an
\* administrator; and of three requests to the desk of clients and mandates.
SPECIFICATION EntrySpec
CONSTANTS
    r1 = r1
    r2 = r2
    r3 = r3
    old = old
    google = google
    held = held
    free = free
    None = None
    Requests = {r1, r2, r3}
    OldAccounts = {old}
    Addresses = {held, free}
    OldAddress <- AddressOfOld
    GoogleAccounts = {google}
    GoogleAddress <- AddressOfGoogle
    Roles = {"partner", "valuer", "client"}
    MaxChanges = 2
    firmA = firmA
    firmB = firmB
    valuer = valuer
    stranger = stranger
    s1 = s1
    s2 = s2
    Absent = Absent
    Firms = {firmA, firmB}
    Scopes <- InstanceScopes
    GivenNames = {" axis ", "canara"}
    Strip <- InstanceStrip
    Terms <- InstanceTerms
    Ids = {1, 2, 3}
    Details <- InstanceDetails
    Staff = {valuer}
    FirstClients <- InstanceClients
    ListLimit = 1
    SearchLimit = 1
    Slots = {s1, s2}
    MaxClock = 5
SYMMETRY EntrySymmetry
INVARIANTS SessionsFollowEnrolment SignUpSecretStays
PROPERTIES StaleSavesUndoNothing AcceptedSecretStays EachFirmAlone
CHECK_DEADLOCK FALSE
