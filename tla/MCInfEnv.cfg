CONSTANTS
  Values = {37, 38, 39, 40, 41, 42, 43, 44}
  MaxLength = 5
  Files <- SmallFiles
  Byte = {1, 2}
  Inputs <- BoundedInputs
  BufferSize = 3
  ReadSize = 4
  XMod = 4
  YMod = 8
  RecordFiles <- FewRecordFiles
  Factors <- SmallFactors
  BadFactor = BadFactor
  Sources <- FewSources
  Rules <- FewRules
  PipeLines = 2
  InfFiles <- FewInfFiles
  Width = 4
  PageSize = 4
  MinReads = 2
  Questions <- FewQuestions
  Lines <- FewLines
  FirstCapacity = 2
  Table <- OneName
  BlockSize = 8
SPECIFICATION ProgramsSpec
INVARIANT EnvWordsChecked
CHECK_DEADLOCK FALSE
