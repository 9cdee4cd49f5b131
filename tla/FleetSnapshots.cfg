CONSTANTS
    w1 = w1
    k1 = k1
    k2 = k2
    c1 = c1
    o1 = o1
    None = None
    Wikis = {w1}
    Workers = {k1}
    Controllers = {c1}
    Operators = {}
    Classes = {"small", "isolated"}
    WorkerClass <- OneClass
    MaxSnapshot = 2
    MaxAttempts = 2
    MaxFaults = 1
SPECIFICATION Spec
INVARIANTS LeasedByClassOnFile CompletionAuthenticated
