\* Two threads of two calls each; calls that are not sent, have nobody to ask or
\* end without an answer, and a reply that comes twice.
CONSTANTS
  a = a
  b = b
  Threads <- TwoThreads
  MaxPerIteration = 2
  MaxCalls = 2
  MaxReplies = 2
  MaxRepeated = 1
  Occurs <- IrregularCases
SPECIFICATION DSLFairSpec
CHECK_DEADLOCK FALSE
INVARIANTS NoThreadForgotten AnswerIsForCall
PROPERTIES ReadyRuns
