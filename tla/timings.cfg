SPECIFICATION RaceSpec
CONSTANTS Timeout = 6  Margin = 4  Refresh = 1  Skew = 1  Travel = 1  MaxStart = 6
CONSTANTS Delays = {2, 4}  Limit = 4  Slow = 1  Reaction = 2
CONSTANTS Last = 5  Second = 3  Interval = 4  Jitter = 1  Irregular = {1, 2, 7}  MaxLapses = 3
CONSTANTS AdvertTimeout = 3  Latency = 1  ConnectTimeout = 3
INVARIANTS RaceTypeOK NoLateAnswer VerdictIsFair ConformingNodePasses RegistriesAreTakenInTurn
PROPERTY PrereqsEnd
CHECK_DEADLOCK FALSE
