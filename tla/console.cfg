SPECIFICATION Spec
CONSTANTS
    Tasks = {11, 12, 13}
    Existing = {1, 2}
    Matching = {2}
    PageSize = 1
    Actions = {21, 22}
    Templates = {31}
    Versions = {41}
    Workloads <- MCWorkloads
INVARIANTS
    TypeOK
    ControlsMatchState
    LatestRenderIsCurrent
    SelectedGoneExplained
    SettingsFollowAnswers
    KeySeenOrReplaced
    SaveReplacesWhatItLoaded
CHECK_DEADLOCK FALSE
