SPECIFICATION Spec
CONSTANTS
  Addresses = 2
  MaxRetry = 1
  MaxBatch = 1
  Caps <- McCaps
  SASL_FAIL <- McSaslFail
  AUTORECONNECT = TRUE
  AUTORECONNECT_DELAY = 2
  DELAY_GROWING = 2
  DELAY_MAX = 5
  Events <- WithUpgrade
INVARIANT TlsHasSession
