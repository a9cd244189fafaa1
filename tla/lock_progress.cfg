SPECIFICATION FairSpec
CONSTANTS
    o1 = o1
    o2 = o2
    l1 = l1
    l2 = l2
    None = None
    Outputs <- TwoOutputs
    Lockers <- OneLocker
    MaxFaults = 2
    Fates = {"lost"}
    MaxUnread = 2
    Moves = {"seat"}
PROPERTIES
    ContractHolds
    LockIsConfirmed
    BlankScreensComeBack
