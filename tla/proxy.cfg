SPECIFICATION LiveSpec
CONSTANTS
  OpenReach = 8
  OpenHold = 6
  CloseReach = 7
  CloseHold = 6
  Lexemes <- MCLexemes
  MetaReach = 2
  Room <- MCRoom
  Histories <- MCHistories
  TargetSafePayloadBytes = 24
  SingleMessageHeadBytes = 9
  SingleMessageTailBytes = 9
  MinUserBytes = 3
  MinRemBytes = 1
  MarkerBytes = 2
  TombstoneBytes = 2
  RuneSlack = 1
  Window = 1
  MaxRequests = 2
  MaxTokens = 2
  TokenFloor = 1
  TokenRefill = 2
  TokenCosts = {1}
  MaxPayloadWindowThreshold = 28
  PromptBytes = 2
  Framing = {0, 3, 30}
  DirectStatuses = {400, 404, 429, 500}
  RaceStatuses = {0, 429, 404, 503}
  TokenLimits = {0, 1}
INVARIANTS
  TypeOK
  AnswerIsTrue
  NothingHeld
  EnvelopeKept
  ResultFits
  NewestKept
  LatestSurvives
  TextIsFaithful
  CutsDoNotMatter
  AnswerIsComplete
  WholeIsVisible
  PlainAnswerIsWhole
  LimitsInRange
PROPERTIES
  RequestsOnlyFall
  Answered
