SPECIFICATION Spec
CONSTANTS
    Tasks = {t1}
    Agents = {"kpi_tracker"}
    Browsers = {b1}
    MaxDrops = 1
    MaxFaults = 0
    Nil = Nil
INVARIANT ReconnectIsSafe
CHECK_DEADLOCK FALSE
