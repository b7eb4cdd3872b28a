SPECIFICATION Spec
CONSTANTS
  Sched <- MCSched
  TipLamports = 1
  FeeBps = 2500
  SlippageBps = 2500
  Outs = {2, 12, 16}
  MaxTx = 2
  Offered = {"sell", "sellBridge", "unwrap"}
  ATARent = 2
  UserFunds = {0, 6}
  SponsorFunds = 12
  WsolFunds = {0, 16}
  QuoteFunds = {0}
  OwnATAs = {"wsol", "out"}
  Leftovers = {5}
PROPERTIES ImplementsContract
CHECK_DEADLOCK FALSE
