SPECIFICATION SpecPrompt
CONSTANT NoId <- MCNoId
CONSTANT QuestionId <- MCQuestionId
CONSTANT Script <- MCScript
CONSTANTS TimeoutEnabled = TRUE  PagesExpire = TRUE  MaxRuns = 2  MaxTabs = 1  MaxQueue = 2
PROPERTY CarriesTheDialogue
INVARIANTS TypeOK AcceptedAnswerIsForThisAsking NoIntegrityFailure
CHECK_DEADLOCK FALSE
