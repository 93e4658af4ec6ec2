SPECIFICATION FairSpec
CONSTANTS
    Roles = {"a", "b"}
    Passwords = {"p1", "p2"}
    Starts <- AllStarts
    InitBase <- Bases
    Edits <- OneChange
    Persistence = TRUE
    MaxEvents = 3
    Budget <- ChangeFaults
INVARIANTS NotLockedOut
PROPERTIES ActiveIsValid ChangeTakesEffect DefaultIsDropped
