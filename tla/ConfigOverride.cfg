SPECIFICATION Spec
CONSTANTS
  Files <- SomeFiles
  Lexical <- NamesInOrder
  Upper <- UpperCase
  Lower <- LowerCase
  MaxVariables = 3
INVARIANTS
  MostSpecificWins
  OtherEntriesKept
  
CHECK_DEADLOCK FALSE
