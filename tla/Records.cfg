CONSTANTS
  r1 = r1
  r2 = r2
  r3 = r3
  i1 = i1
  p1 = p1
  p2 = p2
  d1 = d1
  x1 = x1
  founder = founder
  member = member
  Query = {r1, r2, r3}
  Area = {"finance"}
  KeySets <- FallbackKeys
  Ks <- AskedFor
  MaxChunks = 2
  EfSearch = 2
  Invocation = {i1}
  Department = {"executive_office", "investor_relations", "finance", "operations"}
  MaxRequests = 3
  Visit = {r1, r2, r3}
  Deal = {d1}
  Stage <- Stages
  Amount <- Amounts
  Limit = 1
  MaxClock = 1
  Purge = {p1, p2}
  Writer = {r1, r2, r3}
  Keep = 1
  MaxDay = 3
  Call = {r1, r2, r3}
  Person = {founder, member}
  Founder = founder
  Role = {x1}
  Code = {"finance.act"}
SPECIFICATION RecordsSpec
SYMMETRY Symmetry
CHECK_DEADLOCK FALSE
INVARIANTS
  RecordsTypeOK
  BestOfWhatWasStored
  SteadySearchNeverBreaks
  InvocationsAccounted
  TotalsStand
  LastWordStands
  GrantsAccounted
PROPERTY
  RemovalsAccounted
