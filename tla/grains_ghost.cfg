SPECIFICATION GrainsSpec
CONSTANTS Id = {s1, s2}  Value = {on, off}  Matching = {on}  NoValue = NoValue
CONSTANTS Request = {r1, r2}  Client = {c1, c2}
INVARIANT RemovedIsForgotten
CHECK_DEADLOCK FALSE
