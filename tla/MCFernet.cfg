CONSTANTS
    None = None
    Engines = {"docker", "podman"}
    ImageLabels <- MCImageLabels
    ImageEnv <- MCImageEnv
    MaxGenerated = 3
    MaxEdits = 1
    Cases <- WeeklyCases
SPECIFICATION Spec
INVARIANT RoundRobin
CHECK_DEADLOCK FALSE
