SPECIFICATION ControlSpec
CONSTANTS root = root mgr = mgr blk = blk w1 = w1 w2 = w2 vnd = vnd p = p q = q e = e
CONSTANTS b1 = b1 x = x b2 = b2 y = y nr = nr nb = nb nc = nc mon1 = mon1 mon2 = mon2
CONSTANTS Root = root  Manager = {"manager"}  Vendor = {"vendor"}  Exhaustive = FALSE
CONSTANTS MaxSize = 7  Widths = {3, 7}  ReadOnly = TRUE
CONSTANTS Rebuildables = {{}, {x, y, b1}, {b1, b2}}  Constrained = {x}  Stray = stray  Invasive = TRUE
CONSTANTS Latency = 1  Delay = 4
CONSTANTS Attempts = 2  Requests = 3  Kinds = {"command", "subscription", "illegal"}  Late = {"command"}
CONSTANT Members <- MCMembers
CONSTANT ClassOf <- MCClassOf
CONSTANT Features <- MCFeatures
CONSTANT Limits <- MCLimits
CONSTANT Stored <- MCStored
CONSTANT Sequences <- MCSequences
CONSTANT Listed <- MCListed
CONSTANT Up <- MCUp
CONSTANT New <- MCNew
CONSTANT Monitors <- MCMonitors
INVARIANTS ControlTypeOK ConformingDevicesPass MistakesAreFound ErrorsAreReal RestoredOrReleased
INVARIANTS AnswersAreMatched NotificationsAreKept
CHECK_DEADLOCK FALSE
