CONSTANTS
    None = None
    Engines = {"docker", "podman"}
    ImageLabels <- NoLabels
    ImageEnv <- NoLabels
    Requests <- MCRequests
    Calls <- MCCalls
    Images = {1, 2}
    Published = 1
    MaxTrouble = 1
SPECIFICATION Spec
INVARIANTS ContainerTypeOK NoOrphanUnit FailedPullSparesService RecreateConverges StopHolds UnchangedMeansUntouched
PROPERTIES ServiceComesUp
