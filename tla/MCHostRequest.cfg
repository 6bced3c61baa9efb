SPECIFICATION RequestSpec
CONSTANTS
  Requests <- MCRequests
  MaxRead = 8
INVARIANTS
  BodyMatchesType
  AnswersInOrder
