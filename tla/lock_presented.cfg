SPECIFICATION Spec
CONSTANTS
    o1 = o1
    o2 = o2
    l1 = l1
    l2 = l2
    None = None
    Outputs <- OneOutput
    Lockers <- OneLocker
    MaxFaults = 1
    Fates = {"late"}
    MaxUnread = 2
    Moves = {}
PROPERTIES
    LockedIsPresented
