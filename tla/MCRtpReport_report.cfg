SPECIFICATION ReportFairSpec
CONSTANTS
  NoBucket = NoBucket
  Row = {1, 2, 3, 4, 5}
  Bucket <- ReportBuckets
  BucketOf <- ReportBucketOf
  DeltaOf <- ReportDeltas
  Undoes <- ReportRemovals
  Minute = {1, 2, 3}
  User = {1, 2, 3}
  MinuteOf <- First
  UserOf <- Second
  OfCurrency = {1, 2, 3}
  OfUser = {1, 2}
  From = 1
  To = 3
  Limit = 1
  Client = {c1}
  Loop = {d1, d2}
  Script = {}
  BatchSize = 2
  MaxErrors = 0
INVARIANTS
  WalkMissesNone
  ReportsAgree
PROPERTY
  EventuallyRolledUp
  DrainsEnd
CHECK_DEADLOCK FALSE
