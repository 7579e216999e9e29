SPECIFICATION FairSpec
CONSTANTS
  w1 = w1
  w2 = w2
  api = api
  rtpworker = rtpworker
  Wallet = {w1, w2}
  Service = {api, rtpworker}
  Begins <- Compose
  MaxMonth = 1
  Default = Default
INVARIANTS TypeOK RoutedToMonth CreatesOnce
PROPERTIES   TransactionsEnd
CHECK_DEADLOCK FALSE
