SPECIFICATION FairSpec
CONSTANTS
    Nil = Nil
    d1 = d1
    d2 = d2
    Subs = {s1}
    Tags = {t1}
    Devices = {d1, d2}
    VisSets <- AllOrSecond
    Durations = {1}
    MaxTime = 3
    Backend = "supabase"
    Workers = {w1}
    Ops = {"generate", "update", "delete_subscribe"}
    Faults = {"error"}
VIEW GenerateView
INVARIANTS HiddenNeverServed
PROPERTIES RequestsEnd
