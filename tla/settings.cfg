SPECIFICATION Spec
CONSTANTS
  Admin = {a1, a2}
  Request = {r1, r2}
  Nobody = Nobody
  Absent = Absent
  Keep = Keep
  Field = {enabled, key}
  off = off
  on = on
  Value <- MCValue
  Default <- MCDefault
  Ask <- MCAsk
  CacheDuration = 2
  MaxFetch = 0
  MaxTime = 3
  MaxWrites = 2
INVARIANTS
  OneRow
  StaleBound
PROPERTIES
  CacheForward
  ChangesAsked
  Answered
