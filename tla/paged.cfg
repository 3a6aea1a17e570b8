SPECIFICATION FairSpec
CONSTANTS
  NTHREADS = 2
  MaxRows = 5
INVARIANTS
  TypeOK
  PagesCover
  NoRowMisplaced
  AnswerReadable
  SequentialComplete
  QueryInvariant
PROPERTY QueryEnds
