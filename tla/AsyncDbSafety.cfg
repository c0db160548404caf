CONSTANT MaxExec = 4
SPECIFICATION Spec
INVARIANTS TypeOK DbInv OneAnswerEach StatementsOwned LeakNeedsHolder CrashOnlyWhenHasty
