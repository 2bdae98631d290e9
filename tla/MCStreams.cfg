CONSTANTS
  MaxPendingFrame = 3
  Blocks = {0, 2}
  Chars <- MCChars
  Parts <- MCParts
  Objects <- MCObjects
  EmptyObject <- MCEmptyObject
  MaxArguments = 2
  Chunks <- MCChunks
  InputReports = {1}
  OutputReports = {1, 4}
  TokenModulus = 4
  NoTool = NoTool
  NotReported = NotReported
  NotSent = NotSent
  Lines <- MCLines
  Unreported = Unreported
  MaxLines = 3
  MaxPiece = 2
SPECIFICATION StreamSpec
CHECK_DEADLOCK FALSE
INVARIANTS
  StreamsTypeOK
  CallsMatchTools
  BilledAsShown
  EndIsMarked
  RelaysExact
PROPERTIES
  ImplementsChat
  ChunkingInvisible
