\* Two sign-ups for one address that nobody has yet.
SPECIFICATION Spec
CONSTANTS
    r1 = r1
    r2 = r2
    r3 = r3
    old = old
    google = google
    held = held
    free = free
    None = None
    Requests = {r1, r2, r3}
    OldAccounts = {old}
    Addresses = {held, free}
    OldAddress <- AddressOfOld
    GoogleAccounts = {google}
    GoogleAddress <- AddressOfGoogle
    Roles = {"partner", "valuer", "client"}
    MaxChanges = 2
SYMMETRY RequestSymmetry
INVARIANTS OneAccountPerAddress
CHECK_DEADLOCK FALSE
