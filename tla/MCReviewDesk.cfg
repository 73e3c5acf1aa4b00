SPECIFICATION DeskSpec
CONSTANTS
    None = None
    Deliverables <- MCDeliverables
    FirmOf <- MCFirmOf
    Scopes <- MCScopes
    AssetClasses = {"land", "plant", None}
    Slots = {s1, s2}
    MaxRequests = 2
INVARIANTS NotesBlockSigning
CHECK_DEADLOCK FALSE
