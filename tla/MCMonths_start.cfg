SPECIFICATION Spec
CONSTANTS
  w1 = w1
  w2 = w2
  api = api
  rtpworker = rtpworker
  Wallet = {}
  Service = {api, rtpworker}
  Begins <- StartsOnly
  MaxMonth = 1
  Default = Default
INVARIANT AllStart
CHECK_DEADLOCK FALSE
