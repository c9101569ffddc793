SPECIFICATION Spec
CONSTANTS
  grep = grep
  table = table
  list = list
  scan = scan
  leak = leak
  prose = prose
  figures = figures
  listing = listing
  secret = secret
  None = None
  Torn = Torn
  Blocks <- MCBlocks
  Contents <- MCContents
  ContentOf <- MCRestartContentOf
  Scans = {scan}
  Named = {prose, listing}
  Unsafe = {secret}
  Shrinks = {prose, figures, listing}
  Pays = {prose, figures}
  Conversations <- MCRestartConversations
  HintLimit = 0
  MaxRequests = 2
  AtOnce = 1
  MaxCrashes = 1
  MaxFailures = 0
INVARIANTS SameBytes
CHECK_DEADLOCK FALSE
