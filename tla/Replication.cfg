\* Three replicas of each type, up to three updates.
SPECIFICATION Spec
CONSTANTS
    Numbers <- MCNumbers
    Elements = {e1, e2}
    VecBound = 2
    Replicas = {r1, r2, r3}
    UpdateBound = 3
    NetBound = 2
    r1 = r1
    r2 = r2
    r3 = r3
    e1 = e1
    e2 = e2
SYMMETRY Symmetry
INVARIANTS
    Converges
    JoinAndMeetAreBounds
    NaNIsDropped
    VecIsABiasedSet
    VecLawsOnValues
PROPERTY
    NeverGoesBack
