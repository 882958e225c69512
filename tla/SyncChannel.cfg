CONSTANTS
  Senders = {t1, t2}
  SendTimeout = 2
  MaxSends = 2
  MaxTries = 3
  MaxClock = 2
SPECIFICATION Spec
INVARIANTS
  TypeOK
  SuccessesInOrder
PROPERTIES ImplementsAtLeastOnce NeverThrowsEarly SendEnds
CHECK_DEADLOCK FALSE
