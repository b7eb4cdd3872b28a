SPECIFICATION Spec
CONSTANTS
  Pairs <- MCPairs
  PoolQuotes = {"wsol", "usdc", "usdt"}
  EncoderFaults = {"jito_tip", "tx_too_large", "sponsor_sign"}
INVARIANTS
  CoSignedNeverEmpty
CHECK_DEADLOCK FALSE
