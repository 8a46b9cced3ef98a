SPECIFICATION MCSpec
CONSTANTS
  u = u
  v = v
  tab1 = tab1
  tab2 = tab2
  tab3 = tab3
  Users = {u, v}
  Classes = {theme}
  Devices = {tab1, tab2}
  Owner <- MCOwner
  Stamps = {1, 2}
  None = None
  Accounts = {u}
  Requests = {r1, r2}
  SessionTTL = 1
  SessionEnd = 2
  Calls = {c1, c2}
  Products = {kiwi, peregrine}
  IssuedFor = kiwi
  LicenseTTL = 1
  LicenseEnd = 2
  RunData <- MCRunData
  Hashes = {"h1", "h2"}
  Threshold = 2
  LlmFallback = TRUE
  Similarity <- Alike
  FuzzyThreshold = 8
  Models = {0, 500, 7000, 14000}
  Quants = {0, 4, 16}
  Available = {0, 1000, 4700, 4800, 8192, 16384, 24576}
  Layers = {32}
  Contexts = {1024, 2048}
  Sizes = {0, 3000, 5000}
  Ages = {30, 31}
  Weekdays = {4, 5}
  Reposts = {2, 3}
  Requirements = {13}
  Lengths = {399}
  Applicants = {200, 201}
  Rates = {60, 61}
  Length = 5
  Labels = {1, 3}
  MaxSpans = 3
SYMMETRY MCSymmetry
INVARIANTS NothingWithoutOptIn TierIsRecent RevocationIsSeen
INVARIANTS EnoughRunsCrystallize DeterministicMeansApproved
INVARIANTS FitsMeansItFits FallbacksExist NothingPersonalSurvives
PROPERTIES LastWriteWins ScoreFollowsEvidence
\* What callers ask for comes to its end.
CHECK_DEADLOCK FALSE
