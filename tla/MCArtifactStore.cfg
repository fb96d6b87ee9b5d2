\* Two processes put, fail and rebuild.
SPECIFICATION Spec
CONSTANTS
  p = p
  q = q
  page = page
  summary = summary
  slice = slice
  Processes = {p, q}
  Requests <- MCRequests
  MaxPuts = 3
  MaxRebuilds = 1
  MaxFailures = 1
INVARIANTS
  Resolvable
  LedgerComplete
  IndexCoversLedger
PROPERTY
  RebuildComplete
