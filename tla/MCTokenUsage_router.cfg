\* Two sessions ask for completions of one run, up to two in a transaction.
CONSTANTS
  Runs = {r1}
  Sessions = {s1, s2}
  Providers <- MCProviders
  Default = "fake"
  Tokens <- MCTokens
  MaxCalls = 2
  None = None
SPECIFICATION Spec
SYMMETRY Symmetry
INVARIANTS UsageDense SummaryBillsReplies
CHECK_DEADLOCK FALSE
