SPECIFICATION Spec
CONSTANTS
  Services = {web, api}
  Pids = {p1, p2}
  MaxCrashes = 1
  NativeServices = {web}
  MaxRuns = 3
  MaxKills = 1
  Requests = {r1, r2}
  Calls = {c1}
  Models = {m1, m2}
  Nobody = Nobody
INVARIANTS OrphansOnlyFromKills AnsweredByItsModel NothingTwice
PROPERTIES StoppedMeansGone ServicesProgress
\* Commands and requests end.
CHECK_DEADLOCK FALSE
