CONSTANTS
  Markets = {1, 2}
  Grads = {1, 2}
  Sweeps = {1, 2}
  Threshold = 4
  FeeSteps = {2, 3}
  MaxFees = 6
  MaxTrades = 3
  Faults = 1
SPECIFICATION KeepersSpec
INVARIANTS FeesAndGraduationsKept
PROPERTIES KeepersGetThere WebhookConverges PricesFollow
CHECK_DEADLOCK FALSE
