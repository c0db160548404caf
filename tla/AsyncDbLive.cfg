CONSTANT MaxExec = 3
SPECIFICATION FairSpec
PROPERTIES EveryCallAnswered DestructorReturns
