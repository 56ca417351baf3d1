\* A request for /public and one for /releases that share the release builds,
\* two revisions, and a lease that comes and goes.
SPECIFICATION FairSpec
CONSTANTS
  Requests = {p1, q1}
  Public = {p1}
  MaxRev = 1
  None = None
PROPERTIES
  AnswersAreCurrent
  NewerBuildSurvives
  EveryRequestEnds
