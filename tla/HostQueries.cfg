CONSTANTS
    Levels = 3
    Layers = {"l1", "l2"}
    MaxLower = 2
SPECIFICATION Spec
INVARIANTS
    DockerAnswer
    SessionsClosed
    OverlayRemounts
    FirstFileDecides
