SPECIFICATION Spec
CONSTANTS
  m1 = m1
  m2 = m2
  NoBucket = NoBucket
  Row = {1, 2, 3, 4}
  Bucket = {m1, m2}
  BucketOf <- Buckets
  DeltaOf <- Deltas
  Undoes <- Removals
  Loop = {d1, d2}
  Script = {s1}
  BatchSize = 2
  MaxErrors = 1
INVARIANTS
  TypeOK
  RolledUpOnce
  NothingLeftProcessing
  ClaimsDisjoint
PROPERTY
  ScriptMissesOnlyHeld
  RemovalOvertakesOnlyHeld
  CountsAtomically
CHECK_DEADLOCK FALSE
