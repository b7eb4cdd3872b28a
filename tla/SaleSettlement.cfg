SPECIFICATION Spec
CONSTANTS
  Pairs <- MCPairs
  PoolQuotes = {"wsol", "usdc", "usdt"}
  EncoderFaults = {"jito_tip", "tx_too_large", "sponsor_sign"}
INVARIANTS
  SaleSettledAsAsked
CHECK_DEADLOCK FALSE
