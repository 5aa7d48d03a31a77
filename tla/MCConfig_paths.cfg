\* Every file of up to three lines, every sequence of three calls.
SPECIFICATION Spec
CONSTANTS
  Names <- MCNames
  Lines <- MCLines
  MaxLines = 3
  MaxCalls = 3
CHECK_DEADLOCK FALSE
INVARIANTS PagesWhereTheFileSays NoDoubledSlash AnswersSettle
