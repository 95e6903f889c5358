SPECIFICATION SubscriptionsSpec
CONSTANTS Registry = {g1}  Type = {sender, receiver}  Rate = {slow, fast}
CONSTANTS Deletable = TRUE  MaxId = 3
INVARIANT PortsAreFree
CHECK_DEADLOCK FALSE
