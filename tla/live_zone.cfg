SPECIFICATION Spec
CONSTANTS
  grep = grep
  table = table
  list = list
  scan = scan
  leak = leak
  prose = prose
  figures = figures
  listing = listing
  secret = secret
  None = None
  Torn = Torn
  Blocks <- MCBlocks
  Contents <- MCContents
  ContentOf <- MCContentOf
  Scans = {scan}
  Named = {prose}
  Unsafe = {secret}
  Shrinks = {prose, figures, listing}
  Pays = {prose, figures}
  Conversations <- MCConversations
  HintLimit = 1
  MaxRequests = 3
  AtOnce = 2
  MaxCrashes = 1
  MaxFailures = 1
INVARIANTS  SentOnRecord PinsHold ScanSteady
CHECK_DEADLOCK FALSE
