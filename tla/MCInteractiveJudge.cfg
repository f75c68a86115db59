CONSTANTS
  TestCount = 2
  Retests = 1
  Byte = {7, 8, 9}
  Inputs <- TestInputs
  Plans <- TestPlans
  Correct <- CorrectPlan
  PipeSize = 2
  Missing = Missing
SPECIFICATION JudgeSpec
INVARIANTS InputIntact RightlyJudged
PROPERTY EventuallyJudged
CHECK_DEADLOCK FALSE
