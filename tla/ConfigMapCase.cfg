SPECIFICATION Spec
CONSTANTS
  Files <- SomeFiles
  Lexical <- NamesInOrder
  Upper <- UpperCase
  Lower <- LowerCase
  MaxVariables = 1
INVARIANTS
  EntryReplaced
CHECK_DEADLOCK FALSE
