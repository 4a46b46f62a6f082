SPECIFICATION Spec
CONSTANTS
  Shapes <- EveryShape
  MaxRequests = 3
INVARIANTS
  TypeOK
  RequestsAreWhole
  AnswersInOrder
PROPERTY
  AnswerComes
CHECK_DEADLOCK FALSE
