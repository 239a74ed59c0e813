SPECIFICATION Spec
CONSTANTS
    Nil = Nil
    Workers = {w1, w2}
    Instances = {srv, cli}
    Users = {admin}
    Passwords = {p1}
    Admin = admin
    Default = default
    CacheTTL = 1
    MaxTime = 0
    MaxId = 6
    Kinds = {"login", "init"}
    Faults = {"error", "restart"}
SYMMETRY Symmetry
INVARIANTS SessionKept ServingMeansConfigured
