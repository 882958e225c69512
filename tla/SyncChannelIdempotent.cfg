CONSTANTS
  Senders = {t1}
  SendTimeout = 2
  MaxSends = 1
  MaxTries = 2
  MaxClock = 3
SPECIFICATION Spec
INVARIANT SendIsIdempotent
CHECK_DEADLOCK FALSE
