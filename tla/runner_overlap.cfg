SPECIFICATION Spec
CONSTANTS cli = cli  web1 = web1  web2 = web2  NoRun = NoRun
CONSTANT Run <- MCRun
CONSTANT CommandLine <- MCCommandLine
CONSTANT Tests <- MCShortTests
INVARIANT OneRunAtATime
SYMMETRY Symmetry
CHECK_DEADLOCK FALSE
