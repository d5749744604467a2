SPECIFICATION DirSpec
CONSTANT MaxBad = 1
PROPERTY CommitFailureRestores
CHECK_DEADLOCK FALSE
