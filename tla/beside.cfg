CONSTANTS
  crypto = crypto
  p1 = p1
  p2 = p2
  Groups = {crypto}
  PairsOf <- MCOneGroup
  Fairs = {2, 3}
  NoFair = NoFair
  NoView = NoView
  Scale = 2
  InitQuote = 6
  InitBase = 3
  InitFair = 2
  Costs = {1, 2}
  BleedWindow = 1
  BleedLimit = 2
  LossBudget = 2
  Shadow = FALSE
  MaxFills = 2
  MaxRestarts = 1
  Live = {p1}
  Paper = {p2}
  Carry = 1
  QtyMin = 1
  OrderMax = 3
  Lot = 2
  CoolOff = 1
  NoOrder = NoOrder
  NoBlock = NoBlock
  Overlap = 2
  MaxRange = 3
  ChunksMax = 2
  Lookback = 3
  SeenCap = 3
  Longest = 1
  Late = 2
  MaxBlock = 6
  MaxSwaps = 2
  Classes = {"a", "b"}
  QueueCap = 2
  FillsMax = 1
  AlertsMax = 1
  ClassesMax = 1
  MaxEvents = 4
  MaxFlushes = 1
SPECIFICATION BesideSpec
INVARIANTS IdleBookIsFree HedgeBookTrue HedgeOnlyOffsets EachSwapOnce Accounted
CHECK_DEADLOCK FALSE
