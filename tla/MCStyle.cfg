CONSTANTS
  Vocabularies <- MCVocabularies
  MaxTokens = 7
  MaxStates = 3
  MaxDeclarations = 2
  Modes = {"stylesheet", "inline"}
  Alphabets <- MCAlphabets
  MaxText = 4
  LongestRange = 3
  Order <- MCOrder
  Definitions <- MCDefinitions
  Alternates <- MCAlternates
  Parents <- MCParents
  Depths = {2, 5}
  Alphabet = {"var(", "(", ")", "[", "]", ",", "name"}
  MaxValue = 5
SPECIFICATION StyleSpec
INVARIANTS CssPlaced  VariablesSolved
PROPERTIES StyleEnds
