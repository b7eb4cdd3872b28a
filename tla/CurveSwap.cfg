SPECIFICATION Spec
CONSTANTS
  ProtocolBps = 100
  CreatorBps = 50
  FeeBps = 500
  SlippageBps = 1000
  Repay = 3
  Dues = {0, 1, 3}
  Amounts = {1, 7, 9, 30, 60}
  Word = 1073741824
  MaxTrades = 2
  StartCurve <- MCCurve
  StartBridge <- MCBridge
INVARIANTS TypeOK SecondHopAbsorbsFirst PromiseKept RoundTripNeverGains
CHECK_DEADLOCK FALSE
