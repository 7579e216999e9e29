SPECIFICATION FleetSpec
CONSTANTS
  A = A
  b1 = b1
  b2 = b2
  k1 = k1
  k2 = k2
  t1 = t1
  r1 = r1
  r2 = r2
  NoId = NoId
  NoJob = NoJob
  Account = {A}
  ActionId = {b1, b2, k1, k2}
  Worker = {t1, r1, r2}
  RustWorker = {r1, r2}
  Request = {"play", "undo", "redo", "bad"}
  Body <- FleetBody
  Seed <- FleetSeed
  MaxSend <- FleetSend
  MaxMinute = 0
SYMMETRY FleetSymmetry
INVARIANTS
  MarkedIffReversed
CHECK_DEADLOCK FALSE
