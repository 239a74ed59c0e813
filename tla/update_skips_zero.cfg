SPECIFICATION Spec
CONSTANTS
    Nil = Nil
    d1 = d1
    d2 = d2
    Subs = {s1}
    Tags = {t1, t2}
    Devices = {d1}
    VisSets = {{}}
    Durations = {1}
    MaxTime = 3
    Backend = "database"
    Workers = {w1}
    Ops = {"update"}
    Faults = {}
INVARIANTS ConfirmedSettingsHold
