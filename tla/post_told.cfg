\* A failure told of a document that is published.
SPECIFICATION Spec
CONSTANTS
  MaxTakes = 1
  MaxPages = 1
  MaxAttempts = 1
INVARIANT ToldIsNotPublished
