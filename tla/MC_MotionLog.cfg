CONSTANTS
  Headers <- MCHeaders
  FieldValues <- MCFieldValues
  IntValue <- MCIntValue
  FloatLiterals <- MCFloatLiterals
  MaxFields = 4
  MaxLines = 2

SPECIFICATION Spec

INVARIANT FullLogsPlot
