SPECIFICATION Spec
CONSTANT MaxFd = 13
INVARIANTS TypeOK AcceptsOwnSockets ServiceReady AllReleased
PROPERTY ForeignKept
