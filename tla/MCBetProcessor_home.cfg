SPECIFICATION Spec
CONSTANTS
  A = A
  B = B
  b1 = b1
  b2 = b2
  w1 = w1
  k1 = k1
  k2 = k2
  k3 = k3
  k4 = k4
  NoId = NoId
  NoJob = NoJob
  Account = {A}
  ActionId = {b1, b2, w1, k1, k2, k3, k4}
  Worker = {u1, u2, u3}
  Request = {"play", "undo", "redo", "spend", "look"}
  Body <- HomeBody
  Seed <- Twos
  MaxSend <- HomeSend
  MaxMinute = 0
SYMMETRY WorkerSymmetry
INVARIANTS
  TypeOK
  BalanceIsLedger
  TombstoneHolds
  
  
  ReportFollowsBalance
PROPERTY
  ServesOneByOne
CHECK_DEADLOCK FALSE
