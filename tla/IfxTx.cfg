SPECIFICATION Spec
CONSTANTS
  Sched <- MCSched
  TipLamports = 1
  FeeBps = 2500
  SlippageBps = 2500
  Outs = {2, 12, 16}
  MaxTx = 1
  Offered <- Routes
  ATARent = 2
  UserFunds = {0, 6}
  SponsorFunds = 12
  WsolFunds = {0, 16}
  QuoteFunds = {0, 16}
  OwnATAs <- ATAs
  Leftovers = {5}
INVARIANTS TypeOK SponsorMadeWhole ChainedHopsExact QuoteHopsExact HopTwoCoversSizing SellRepaidFromProceeds
CHECK_DEADLOCK FALSE
