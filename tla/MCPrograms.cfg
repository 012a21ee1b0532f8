SPECIFICATION ProgramsSpec
CONSTANTS
  num_of_soldiers = 4
  MaxLine = 5
VIEW View
INVARIANTS
  EverySquadFires
  RunsAsTyped
  ParsesTheGrammar
  UtilitiesAgree
  HeapExact
  ImagesExact
PROPERTIES
  ImplementsSquad
  ProgramEnds
  CommandsEnd
CHECK_DEADLOCK FALSE
