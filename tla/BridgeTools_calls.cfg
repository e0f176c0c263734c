\* Clients may stop calling.
CHECK_DEADLOCK FALSE
SPECIFICATION FairSpec
CONSTANTS
  c1 = c1
  c2 = c2
  None = None
  Callers <- MCCallers
  Boards <- MCBoards
  Archivable <- MCArchivable
  TTL = 2
  MaxFetch = 1
  Texts <- MCTexts
  ResultBytes <- MCResultBytes
  MaxRunSummaryChars = 7
  MinFieldRunes = 2
  MarkerHeadroom = 2
  Cards <- MCCards
  Columns <- MCColumns
  MaxQueueItems = 3
  ListLimit = 3
  MaxRowBytes = 14
  Modes <- MCModes
  Tickets <- MCTickets
  Remarks <- MCRemarks
  Requests <- MCRequests
  Filters <- MCFilters
  Workloads <- MCWorkloads
  MaxPosts = 2
INVARIANTS
  RefreshIsShared
  NewestSurvives
  NoLossIsSilent
  OversizeIsReal
  QueueIsHonest
  RetryCreatesOnce
PROPERTIES
  SlugsAreRecent
  EveryCallEnds
