\* Whether every query gets an answer: two shards, three pages of which one changes, two fetches at a time.
\* The shards end and the pages have their last version.
CHECK_DEADLOCK FALSE
SPECIFICATION Spec
CONSTANTS
  s1 = s1
  s2 = s2
  Shards = {s1, s2}
  Queries <- MCQueries
  Domain <- MCDomain
  Page <- MCPage
  Extract <- MCExtract
  Parallel = 2
  DomainCap = 2
  SerpK = 8
INVARIANT
  NothingIsAnAnswer
