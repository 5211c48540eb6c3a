SPECIFICATION Spec
CONSTANTS
  Names = 2
  Builds = {FALSE}
  Requests <- AllRequests
INVARIANT
  Driven
