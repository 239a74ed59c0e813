SPECIFICATION Spec
CONSTANTS
    Nil = Nil
    Workers = {w1, w2}
    Instances = {srv}
    Users = {admin}
    Passwords = {p1}
    Admin = admin
    Default = default
    CacheTTL = 1
    MaxTime = 2
    MaxId = 4
    Kinds = {"api", "login", "init", "reset", "reset_cli"}
    Faults = {"error", "lost_ack", "restart"}
SYMMETRY Symmetry
INVARIANTS TypeOK RetiredWithinTTL ConfirmedWithinTTL
