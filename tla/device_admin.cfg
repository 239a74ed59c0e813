SPECIFICATION Spec
CONSTANTS
    Nil = Nil
    NoTag = NoTag
    Devices = {d1}
    Inbounds = {i1, i2}
    WireGuards = {t1}
    MaxPeer = 1
    Workers = {w1, w2}
    Backends = {"database", "supabase"}
    Faults = {"error", "lost_ack", "crash"}
SYMMETRY Symmetry
INVARIANTS TypeOK NoOrphans
PROPERTIES ImplementsRegistry WholeLists DeletedIsDetached
