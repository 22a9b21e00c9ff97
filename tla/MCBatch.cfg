\* Four URLs, three workers, scrapes that may unwind in three, a pacing sleep.
SPECIFICATION FairSpec
CONSTANTS
  NumUrls = 4
  Concurrency = 3
  PaceMs = 1
  MayPanic = {1, 2, 3}
  NoItem = NoItem
INVARIANTS ItemsAreTheirOwn
PROPERTIES ImplementsPromise BatchReturns
