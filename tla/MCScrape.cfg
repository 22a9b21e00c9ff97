\* Singles of every shape, and groups of two and three; two may be in flight.
SPECIFICATION FairSpec
CONSTANTS
  s1 = s1
  s2 = s2
  s3 = s3
  k1 = k1
  k2 = k2
  all = all
  dot = dot
  Key = {k1, k2, all, dot}
  All = all
  Roots = {dot}
  Workload <- MCWorkload
  MaxInflight = 2
  MaxKeys = 2
  Nothing = Nothing
CHECK_DEADLOCK FALSE
INVARIANTS LimitsHold HardScrapesAreHonest JarIsOnesOwn SignedByCommittedKey
PROPERTIES RequestsEnd
