SPECIFICATION Spec
CONSTANTS
  Sched <- MCSched
  TipLamports = 1
  FeeBps = 2500
  SlippageBps = 2500
  Outs = {2, 12, 16}
  MaxTx = 1
  Offered <- Routes
  ATARent = 2
  UserFunds = {0, 6}
  SponsorFunds = 12
  WsolFunds = {0, 16}
  QuoteFunds = {0}
  OwnATAs = {"wsol", "out"}
  Leftovers = {5}
INVARIANT QuoteSwapRepaidFromProceeds
CHECK_DEADLOCK FALSE
