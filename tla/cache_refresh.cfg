SPECIFICATION Spec
CONSTANTS
    Nil = Nil
    d1 = d1
    d2 = d2
    Subs = {s1}
    Tags = {t1, t2}
    Devices = {d1}
    VisSets = {{}}
    Durations = {1}
    MaxTime = 3
    Backend = "supabase"
    Workers = {w1, w2}
    Ops = {"refresh", "create_outbound", "delete_outbound", "cacheconfig"}
    Faults = {"error", "lost_ack", "crash"}
VIEW RefreshView
SYMMETRY Symmetry
INVARIANTS TypeOK SuccessIsStored SingleBatch NoStaleSuccess
