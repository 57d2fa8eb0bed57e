CONSTANTS
    None = None
    Engines = {"docker", "podman"}
    ImageLabels <- MCImageLabels
    ImageEnv <- MCImageEnv
    MaxGenerated = 3
    MaxEdits = 1
    Cases <- MCCases
SPECIFICATION Spec
INVARIANTS CompareIsExact IniMergePrecedence YamlMergeKeepsLeaves NoOverRotation ValidatedInputsDeploy PublishedIsBuilt
PROPERTIES PasswordsStable
CHECK_DEADLOCK FALSE
