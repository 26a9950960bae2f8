SPECIFICATION FairSpec
CONSTANTS
    Pressers = {p1}
    Takers = {t1}
    Inodes = {i1, i2, i3, i4}
    NoInode = noinode
    TTL = 1
PROPERTIES NeverWedged
