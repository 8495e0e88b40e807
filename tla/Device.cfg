SPECIFICATION DeviceSpec
CONSTANTS
    BleBuilds = {"none", "bluedroid", "nimble"}
    MaxFaults = 3
    RxBuffer = 4
    EventQueue = 3
    ArrivalSizes = {1, 2, 3}
    Addresses = {a1, a2}
    Stations = {s1, s2}
    EventLoop = 2
    Configs = {c1, c2}
    LogLocalLevel = 3
    Voltages = {0, 2717, 2718, 2727, 2728, 3815, 3819, 4095}
    Supplies = {3214, 3215}
    Powers = {1, 99, 100}
    Temperatures = {9, 99, 100}
    MaxPublishes = 2
    Modulus = 256
    InitialTemperature = 35
    WarmLimit = 40
    DeltaPowers = {0, 1, 2}
    DeltaTemperatures = {0, 1, 18, 40, 255}
INVARIANTS
    ReadNeverBlocks
    NothingElseIsCutOff
PROPERTIES
    BootSettles
    RoomSettles
CHECK_DEADLOCK FALSE
