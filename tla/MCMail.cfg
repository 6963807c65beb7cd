CONSTANTS
  Entities <- MCEntities
  Entries <- MCEntries
  Directories <- MCDirectories
  MaxParts = 2
  MaxMIMEDepth = 2
  MaxZIPMetadata = 5
  Blocked = {"rar"}
  InspectSignatures = TRUE
  InspectArchives = TRUE
  MaxAttachmentBytes = 3
  MaxArchiveDepth = 2
  MaxArchiveFiles = 3
  MaxArchiveBytes = 4
  FieldVocabularies <- MCFieldVocabularies
  MaxPieces = 6
  Symbols <- MCSymbols
  Trusted = {"mx"}
  Domains = {"d1", "d2"}
  ReceivedSPF <- MCReceivedSPF
  Sessions = {s1, s2}
  Storage = {"memory", "file", "hybrid"}
  MemoryMessageLimit = 1
  MaxConcurrent = 1
  MaxBytes = 1
  Chunk = {1}
  MaxDKIMSignatures = 1
  MaxMessages = 1
  Actors <- MCActors
  Words <- MCWords
  MaxFields = 4
  Addresses = {"me", "you"}
  Patterns = {"*@d"}
  Hosts = {"ip1"}
  Ids = {"1", "2"}
  Stored <- MCStored
  AliasNames = {"a", "b", "c", "d"}
  FileLines <- MCFileLines
  MaxLines = 3
  MaxEntry = 4
  MaxChain = 2
SPECIFICATION PartsSpec
INVARIANTS ScanSound  VerificationSound OwnershipProved
PROPERTIES CommandsConfined AnswersArrive
