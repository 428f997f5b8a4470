SPECIFICATION LiveSpec
CONSTANTS
  MAX_QUEUE = 3
  Lag = {3}
  PULSE_VIOLENCE = 1
  Within = {"look", "qc"}
  MaxTyped = 5
  MaxMeddling = 2
INVARIANTS QueueExact Accounted
PROPERTIES InOrder ImplementsQueue LinesAnswered
