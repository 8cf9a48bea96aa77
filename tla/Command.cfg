CONSTANTS
  Inputs = {0, 1, 3}
  Capacity = 2
  Accepts = {{0}, {0, 1, 2}}
  Statuses = {0, 1, 4, 124, 127}

SPECIFICATION Spec
PROPERTY ImplementsAtomicCommand
PROPERTY CallReturns
