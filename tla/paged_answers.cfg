SPECIFICATION Spec
CONSTANTS
  NTHREADS = 2
  MaxRows = 5
INVARIANT AnswerComplete
