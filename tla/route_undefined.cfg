SPECIFICATION Spec
CONSTANTS
    Nil = Nil
    NoTarget = NoTarget
    Direct = Direct
    Reject = Reject
    Blank = Blank
    g1 = g1
    g2 = g2
    General = g1
    Select = g2
    wg = wg
    Endpoint = wg
    Nodes = {1, 2, 3, 4}
    Manual = {1, 3, 4}
    Protocol <- Protocols
    Lacks <- Missing
    Name <- Names
    Groups = {g1, g2}
    r1 = r1
    r2 = r2
    r3 = r3
    Rules = {r1, r2, r3}
    Routed <- Router
    FirstRuleSets <- Initially
    k1 = k1
    k2 = k2
    Tokens = {k1, k2}
    RuleSetRows <- Rows
    Admissions <- SomeAdmissions
    NodeSets = {{}, {2}, {1, 2, 3, 4}}
    Subscriptions = {3, s1}
    MaxEdits = 2
SYMMETRY TokenSymmetry
INVARIANT RoutesHaveRuleSets
