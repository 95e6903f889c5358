SPECIFICATION MocksSpec
CONSTANTS s1 = s1 s2 = s2 p1 = p1 p2 = p2 p3 = p3 NoPeer = NoPeer Absent = Absent Kept = Kept
CONSTANTS i1 = i1 i2 = i2 on = on off = off r1 = r1 r2 = r2 r3 = r3 c1 = c1 c2 = c2 NoValue = NoValue
CONSTANTS g1 = g1 g2 = g2 sender = sender receiver = receiver slow = slow fast = fast
CONSTANT Peer <- MCPeer
CONSTANT Patch <- MCPatch
CONSTANT Id <- MCId
CONSTANT Value <- MCValue
CONSTANT Matching <- MCMatching
CONSTANT Request <- MCRequest
CONSTANT Client <- MCClient
CONSTANT Registry <- MCRegistry
CONSTANT Type <- MCType
CONSTANT Rate <- MCRate
CONSTANT Resource <- MCResource
CONSTANT Pos <- MCPos
CONSTANTS MaxGen = 2  Enabled = TRUE  Deletable = TRUE  MaxId = 4  Horizon = 10  Limits = {1, 2, 3}
INVARIANTS MocksTypeOK RegistryAgrees OfflineStaysOffline ViewsAreRight
INVARIANTS RepliesAreServed NoChangeIsMissed PortsAreFree
INVARIANTS ForwardWalkIsComplete BackwardWalkIsComplete
PROPERTY WalksEnd
CHECK_DEADLOCK FALSE
