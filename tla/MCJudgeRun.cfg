CONSTANTS
  TestCount = 2
  Retests = 2
SPECIFICATION PluginSpec
INVARIANTS PassedMeansPassed StopsAtFirstFault TestsIsolated AnswersComplete MarksEarned
PROPERTY PluginEnds
CHECK_DEADLOCK FALSE
