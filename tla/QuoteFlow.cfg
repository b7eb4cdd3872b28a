SPECIFICATION Spec
CONSTANTS
  Pairs <- MCPairs
  PoolQuotes = {"wsol", "usdc", "usdt", "foreign"}
  EncoderFaults = {"jito_tip", "tx_too_large", "sponsor_sign"}
INVARIANTS
  TypeOK
  SponsoredRoutesYieldSOL
  SponsoredBuildsSized
  RouteConnected
  EveryVariantExplained
  AnswerAsPageExpects
  LookupsFetched
  AccountsOpenWhenUsed
  HopsFindTheMoney
  PaidFromTrade
  DeliveredWhereAsked
CHECK_DEADLOCK FALSE
