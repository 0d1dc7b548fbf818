SPECIFICATION Spec
CONSTANTS
    Clients = {c1}
    Backends = {bd, fs}
    Verifying = {bd}
    Versions = {1, 2}
    Ops = {"check", "force", "replicate", "retention", "archive"}
    Faults = {"local", "replica"}
    PutAttempts = 3
    None = None
PROPERTIES LossesAreKnown MarksStayTrue
