\* A download URL that cannot be had leaves the page waiting.
SPECIFICATION Spec
CONSTANTS
  MaxTakes = 1
  MaxPages = 1
  MaxAttempts = 1
PROPERTIES
  FailureIsTold
