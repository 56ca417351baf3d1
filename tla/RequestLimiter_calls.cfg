\* Two callers, two places, one at a time after a limit; responses ask for no delay
\* or for a long one.
SPECIFICATION FairSpec
CONSTANTS
  Callers = {c1, c2}
  Concurrency = 2
  Spacing = 1
  CooldownBase = 1
  CooldownMax = 1
  Delays = {0, 2}
  MaxRetries = 1
INVARIANTS
  InFlightBounded
  CooldownsDoNotAddUp
PROPERTIES
  RetryAfterHonoured
  EveryCallEnds
