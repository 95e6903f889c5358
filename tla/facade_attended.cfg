SPECIFICATION SpecAttended
CONSTANT NoId <- MCNoId
CONSTANT QuestionId <- MCQuestionId
CONSTANT Script <- MCShortScript
CONSTANTS TimeoutEnabled = FALSE  PagesExpire = FALSE  MaxRuns = 2  MaxTabs = 1  MaxQueue = 1
PROPERTY EveryRunEnds
CHECK_DEADLOCK FALSE
