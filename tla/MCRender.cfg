\* Two renders, six requests; every cap can be met and every cap exceeded.
SPECIFICATION FairSpec
CONSTANTS
  Request <- MCRequest
  Renders = 2
  RenderOf <- MCRenderOf
  Size <- MCSize
  Declared <- MCDeclared
  Materialized <- MCMaterialized
  Document <- MCTopDocument
  TopDocument <- MCTopDocument
  Forbidden <- MCForbidden
  Untracked <- MCUntracked
  MaxRequests = 3
  MaxBytes = 4
  MaxDocumentBytes = 1
  FollowRedirects = TRUE
  MaxRedirects = 0
  NetworkIdle = TRUE
  CrawlDelay = TRUE
INVARIANTS BodyAccountsHold CapsHold
PROPERTIES ImplementsBudget RendersEnd
