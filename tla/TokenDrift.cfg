\* Two accounts, two tabs, two requests at a time, time standing still: a me() that is
\* answered after another tab signed in puts the old token back.
SPECIFICATION Spec
CONSTANTS
    Users = {u1, u2}
    Tabs = {t1, t2}
    Requests = {r1, r2}
    MaxMinted = 2
    MaxNow = 0
    Ttl = 0
    Cap = 1
    None = None
SYMMETRY SessionSymmetry
CHECK_DEADLOCK FALSE
INVARIANTS
    StaysInSync
