SPECIFICATION FairSpec
CONSTANTS
  Schedulers = {s1, s2}
  shared = shared
  move = move
  save = save
  Supplied <- MCSupplied
  NoCollector = none
  Configs <- MCConfigs
  Keys <- MCKeys
  Runs <- MCRuns
  Buckets <- MCBuckets
  Callers = {t1, t2}
  Scraper = scraper
  Nobody = nobody
  MaxSummaries = 2
  MaxReconfigs = 1
INVARIANTS
  TypeOK
  SummaryIsDelivered
  PagesAreExact
  TraceIsOwned
PROPERTY
  PublishReturns
