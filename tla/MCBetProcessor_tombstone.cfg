SPECIFICATION Spec
CONSTANTS
  A = A
  B = B
  b1 = b1
  b2 = b2
  w1 = w1
  k1 = k1
  k2 = k2
  k3 = k3
  k4 = k4
  NoId = NoId
  NoJob = NoJob
  Account = {A, B}
  ActionId = {b1, b2, w1, k1, k2, k3}
  Worker = {u1, u2, u3}
  Request = {"playA", "playB", "undoA", "undoB", "zero"}
  Body <- CrossedBody
  Seed <- Twos
  MaxSend <- CrossedSend
  MaxMinute = 0
SYMMETRY WorkerSymmetry
INVARIANTS
  TombstoneHolds
CHECK_DEADLOCK FALSE
