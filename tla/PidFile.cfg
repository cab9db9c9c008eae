CONSTANTS
    Pids = {p1, p2, p3}
SPECIFICATION Spec
INVARIANTS
    OneServing
    ServingIsNamed
