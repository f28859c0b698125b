CONSTANTS
  h1 = h1
  h2 = h2
  m1 = m1
  m2 = m2
  None = None
  Handler = {h1, h2}
  Port = {m1, m2}
  Limit = 1
  MaxRestarts = 1
SPECIFICATION FairSpec
INVARIANTS TypeOK KnownOrExplained CullMatchesMap
PROPERTIES OverTimeRecord UnusedCulled RegistrationCompletes
