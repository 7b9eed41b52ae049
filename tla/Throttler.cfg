\* At the bounds nothing is left to do.
SPECIFICATION ThrottlerSpec
CONSTANTS
    alice = alice
    phone = phone
    here = here
    there = there
    None = None
    Clients <- MCClients
    Request <- MCRequest
    s1 = s1
    s2 = s2
    Slot <- MCSlot
    EnvLimit <- MCEnvLimit
    Pinned <- MCPinned
    Ttl = 2
    MaxClock = 3
    MaxSeen = 5
    MaxFaults = 1
SYMMETRY SlotSymmetry
INVARIANTS
    BurstBounded
    RefusalsDeserved
    BlockOutlivesCounter
CHECK_DEADLOCK FALSE
