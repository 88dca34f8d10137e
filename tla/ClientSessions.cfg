CONSTANTS
    Owners = {"old", "new"}
    Callers = {"a", "b"}
    Keys = {"k"}
    Routes = {"r1", "r2"}
    Overrides = {}
    Calls <- MCCalls
    ClosingOwners = {"old"}
    MaxGeneration = 2
SPECIFICATION SessionSpec
INVARIANTS TypeOK NoLeakedSession AuthorityHasOwner ReuseSameKey OneCallConnects
PROPERTIES LeasesEnd WaitersServed
CHECK_DEADLOCK FALSE
