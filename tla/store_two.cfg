SPECIFICATION Spec
CONSTANTS
    short = short
    long = long
    None = None
    Absent = Absent
    Writer = {w1, w2}
    Inode = {i1, i2, i3, i4}
    Doc = {short, long}
    Size <- DocSizes
SYMMETRY Inodes
INVARIANT WholeDocument
