SPECIFICATION ManagersSpec
CONSTANTS
    Configs <- MCConfigs
    LaunchFaults = {}
    MaxReconfig = 1
    MaxSelfExit = 1
PROPERTIES ReconfigureEnds
CHECK_DEADLOCK FALSE
