SPECIFICATION SpecSpaced
CONSTANTS cli = cli  web1 = web1  web2 = web2  NoRun = NoRun
CONSTANT Run <- MCRun
CONSTANT CommandLine <- MCCommandLine
CONSTANT Tests <- MCTests
PROPERTY RunsTakeTurns
INVARIANTS TypeOK NeverStuck OneRunAtATime RunKeepsItsServices ReportIsComplete
SYMMETRY Symmetry
CHECK_DEADLOCK FALSE
