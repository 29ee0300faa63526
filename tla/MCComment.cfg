CONSTANTS
    Users <- MCUsers
    Bodies <- MCBodies
    ByteBase = 2
    KeyBytes = 3
    Nil = Nil
    u1 = u1
    u2 = u2
    b1 = b1
    b2 = b2

SPECIFICATION Spec
CONSTRAINT CountBeforeWrap

INVARIANT TypeOK
INVARIANT ListAllInIdOrder
PROPERTY CommentRefinement
