SPECIFICATION ExchangeSpec
CONSTANTS
  None = None
  HeadCap = 7
  Secret = 6
  Plans <- MCPlans
  Requests <- MCRequests
  ServerEnv <- MCServerEnv
  Upstreams <- MCUpstreams
  Answers <- MCAnswers
  Responses <- MCResponses
  Unpack <- MCUnpack
  SizeMax = 20
  MaxRequestBody = 4
  RequestHeadCap = 10
  MaxBody = 3
  ResponseHeadCap = 20
INVARIANTS RunsWhatWasAsked BodyIsFaithful DialIsFaithful
