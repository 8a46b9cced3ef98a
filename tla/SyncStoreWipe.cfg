SPECIFICATION WipeSpec
INVARIANT WipedStaysWiped
CONSTANTS
  u = u
  v = v
  tab1 = tab1
  tab2 = tab2
  tab3 = tab3
  Users = {u, v}
  Classes = {theme}
  Devices = {tab1, tab2, tab3}
  Owner <- MCOwner
  Stamps = {1}
  None = None
  Accounts = {u}
  Requests = {r1}
  SessionTTL = 1
  SessionEnd = 2
  Calls = {c1}
  Products = {kiwi, peregrine}
  IssuedFor = kiwi
  LicenseTTL = 1
  LicenseEnd = 2
  RunData <- MCRunData
  Hashes = {"h1", "h2"}
  Threshold = 2
  LlmFallback = TRUE
  Similarity <- Alike
  FuzzyThreshold = 8
  Models = {500}
  Quants = {4}
  Available = {1000}
  Layers = {32}
  Contexts = {1024}
  Sizes = {0}
  Ages = {30, 31}
  Weekdays = {4, 5}
  Reposts = {2, 3}
  Requirements = {13}
  Lengths = {399}
  Applicants = {200, 201}
  Rates = {60, 61}
  Length = 5
  Labels = {1, 3}
  MaxSpans = 3
CHECK_DEADLOCK FALSE
