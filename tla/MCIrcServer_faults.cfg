SPECIFICATION Spec
CONSTANTS
  Addresses = 2
  MaxRetry = 2
  MaxBatch = 2
  Caps <- OneCap
  SASL_FAIL <- McSaslFail
  AUTORECONNECT = TRUE
  AUTORECONNECT_DELAY = 2
  DELAY_GROWING = 2
  DELAY_MAX = 5
  Events <- AllEvents
INVARIANTS OneLink RetriesAreBounded
