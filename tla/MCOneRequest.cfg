SPECIFICATION OneSpec
CONSTANTS
  Curated <- MCCurated
  Catalogs <- MCCatalogs
  Cases <- MCCases
  SimpleMaxInput = 25
  SimpleMaxOutput = 16
  ComplexMinInput = 40
  ComplexMinOutput = 64
  ComplexMinMessages = 3
  SimpleMinQuality = 5
  SimpleMaxBlended = 5
  DedupMinChars = 14
  ServerMode = "on"
  Valid <- MCValid
  Requests <- MCAccessRequests
  AdminKeys <- MCAdminKeys
  AdminHeaders <- MCAdminHeaders
  Unreadable = Unreadable
  None = None
  Bits = 3
  Registry <- MCRegistry
  Slug <- MCSlug
  DefaultRates <- MCDefaultRates
  Inputs <- MCInputs
  Limits <- MCLimits
  Reports <- MCReports
  Unregistered = "deployment"
  DefaultOutput = 3
  OutputLimit = 5
INVARIANTS
  PickedFits
  NoNeedlessRefusal
  ReservedForSent
  CompressionKeeps
  ToolResultsPaired
  CredentialsHold
  ReservationCovers
  SettledAsBilled
CHECK_DEADLOCK FALSE
