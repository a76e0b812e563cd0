CONSTANTS
  NodeIDs <- MCNodeIDs
  Keys <- MCKeys
  Values <- MCValues
  Numbers <- MCNumbers
  MaxEntries = 2
SPECIFICATION Spec
INVARIANTS
  ReadsWhatWasWritten
  OneDecoderAccepts
  AnswersAreRecognised
CHECK_DEADLOCK FALSE
