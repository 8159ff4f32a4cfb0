\* Two accounts, two tabs, two requests at a time; one of each tab and account over time.
SPECIFICATION Spec
CONSTANTS
    Users = {u1, u2}
    Tabs = {t1, t2}
    Requests = {r1, r2}
    MaxMinted = 2
    MaxNow = 2
    Ttl = 0
    Cap = 1
    None = None
SYMMETRY SessionSymmetry
CHECK_DEADLOCK FALSE
CONSTRAINTS
    OneOverTime
INVARIANTS
    TypeOK
    ActsAsShown
    TokenInSync
PROPERTIES
    RevokedStaysRevoked
    ServedWhileAlive
