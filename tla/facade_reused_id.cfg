SPECIFICATION SpecWhole
CONSTANT NoId <- MCNoId
CONSTANT QuestionId <- MCQuestionId
CONSTANT Script <- MCShortScript
CONSTANTS TimeoutEnabled = TRUE  PagesExpire = TRUE  MaxRuns = 2  MaxTabs = 2  MaxQueue = 1
INVARIANT AcceptedAnswerIsForThisAsking
CHECK_DEADLOCK FALSE
