SPECIFICATION Spec
CONSTANTS root = root b1 = b1 x = x b2 = b2 y = y nr = nr nb = nb nc = nc stray = stray
CONSTANTS Root = root Stray = stray Invasive = TRUE Attempts = 2
CONSTANT Up <- MCUp
CONSTANT Listed <- MCListed
CONSTANT New <- MCNew
CONSTANT Rebuildables <- MCRebuildables
CONSTANT Constrained <- MCConstrained
INVARIANT NestedBlocksAreRestored
CHECK_DEADLOCK FALSE
