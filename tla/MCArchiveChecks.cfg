SPECIFICATION Spec
CONSTANTS
    Clients = {c1, c2}
    Backends = {bd, be, fs}
    Verifying = {bd, be}
    Versions = {1}
    Ops = {"check", "force"}
    Faults = {"local", "replica"}
    PutAttempts = 2
    None = None
VIEW LiveView
SYMMETRY Symmetry
PROPERTY GoodCopySurvives
