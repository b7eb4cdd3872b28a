SPECIFICATION Spec
CONSTANTS
  Forms <- MCForms
  Conversions = {"unwrap", "wrap"}
  Unwraps = {"unwrap"}
  Flipped <- MCFlipped
  Wallets = {"w1"}
  MaxQuotes = 2
  MaxSends = 1
INVARIANTS TypeOK ShownIsSent UntouchedOffersForm
PROPERTIES PendingResolves
