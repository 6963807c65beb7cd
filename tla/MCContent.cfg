CONSTANTS
  Messages <- MCMessages
  MaxDepth = 3
  MaxParts = 5
  MaxHTMLParts = 1
  HTMLBytes = 1
  TextBytes = 2
  CSSBytes = 1
  MemoryLimit = 2
  Charges <- MCCharges
  MaxDocumentNodes = 24
  MaxOpenElements = 7
  MaxTokens <- MCMaxTokens
  Vocabularies <- MCVocabularies
  RawTexts <- MCRawTexts
  Pieces <- MCPieces
  MaxPieces = 4
  InitialCap = 2
  MaxAttributesPerTag = 1
  MaxDocumentAttributes = 2
  Spelling <- MCSpelling
  Doctype <- MCDoctype
  CData <- MCCData
SPECIFICATION ContentSpec
INVARIANTS TreeSound TokensSound ProvenanceKept
PROPERTIES TextKept ImplementsTokenStream ExtractionHonest ContentEnds
