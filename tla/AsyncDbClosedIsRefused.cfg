CONSTANT MaxExec = 2
SPECIFICATION Spec
INVARIANT ClosedIsRefused
