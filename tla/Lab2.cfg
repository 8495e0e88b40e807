CONSTANTS
    Publishers = {}
    Updaters = {"daemon", "mqtt"}
    Modulus = 3
    InitialTemperature = 1
    WarmLimit = 1
    DeltaPowers = {0, 1}
    DeltaTemperatures = {}
    MaxConnects = 1
    MaxDeltas = 2
SPECIFICATION FairSpec
PROPERTIES
    ShadowConverges
    ReportsReturnWhileUp
CHECK_DEADLOCK FALSE
