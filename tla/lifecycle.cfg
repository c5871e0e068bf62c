CONSTANTS
  crypto = crypto
  equity = equity
  p1 = p1
  p2 = p2
  Groups = {crypto, equity}
  PairsOf <- MCPairsOf
  Pnls <- MCPnls
  BleedLimit = 1
  LossBudget = 2
  Shadow = FALSE
  HaltAfter = 2
  StaleAfter = 1
  FlightMax = 1
  Fed = {p1}
  MaxTroubles = 2
SPECIFICATION Spec
INVARIANTS SpentBudgetStaysDown
PROPERTIES LatchedIsNotQuoted BudgetNeverRefunded LatchedGoesDark StallIsNoticed OutageHeals
