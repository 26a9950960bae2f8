SPECIFICATION Spec
CONSTANTS
    Pressers = {p1}
    Takers = {}
    Inodes = {i1, i2, i3}
    NoInode = noinode
    TTL = 2
INVARIANTS TypeOK OnlyTheClockHides
PROPERTIES ImplementsTimedLease
