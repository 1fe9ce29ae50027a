\* Two connections of three messages each.  When all are used up the backend
\* waits in accept() for good.
SPECIFICATION Spec
CONSTANTS
  Messages <- FourMessages
  MaxConns = 2
  MaxMsgs = 3
INVARIANTS
  TypeOK
  NeverHungUp
PROPERTIES
  ServesReplies
  AwaitingEnds
  AcceptedInTurn
CHECK_DEADLOCK FALSE
