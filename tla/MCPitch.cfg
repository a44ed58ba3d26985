SPECIFICATION Spec
CONSTANTS
    Tasks = {t1}
    Agents = {"lynch_pitch"}
    Browsers = {b1}
    MaxDrops = 0
    MaxFaults = 0
    Nil = Nil
INVARIANT SavedOutputCompletes
CHECK_DEADLOCK FALSE
