SPECIFICATION Spec
CONSTANTS
    u1 = u1 w1 = w1 w2 = w2 f1 = f1 f2 = f2 k1 = k1 k2 = k2 s1 = s1 s2 = s2 c1 = c1
    Users = {u1}
    Workspaces = {w1}
    Flows = {f1, f2}
    Connections = {k1, k2}
    Slots = {s1, s2}
    ClientOf <- OneClient
    ScopesOf <- SameScopes
    Home <- AtHome
    RequestTtl = 1
    CodeTtl = 1
    TokenTtl = 1
    MaxTime = 1
    None = None
INVARIANT CodeSpentOnce
SYMMETRY Interchangeable
CHECK_DEADLOCK FALSE
