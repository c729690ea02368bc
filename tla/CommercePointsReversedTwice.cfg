SPECIFICATION CommerceSpec
CONSTANTS
  DraftLines <- MCLines
  Editors = {e1, e2}
  NoEdit = NoEdit
  Scalars = {0, 2}
  PointRequests = {0, 2}
  Discounts <- MCDiscounts
  Balance = 2
  MinPoints = 1
  MaxPercentage = 50
  PointValue = 1
  MaxVersion = 2
  i1 = i1
  i2 = i2
  Invoices = {i1, i2}
  Payments = {1, 2}
  Keys = {k1}
  NoKey = NoKey
  NoInvoice = NoInvoice
  Payable = 2
  RedeemChoices = {1}
  EarnPoints = 2
  InitialPoints = 1
  Requests = {1, 2}
  Interleaved <- MCInterleaved
  Idle = Idle
  Done = Done
  Subs = {s1}
  NoSub = NoSub
  payer = payer
  friend = friend
  Members = {payer, friend}
  Payer = payer
  Allotment <- MCAllotment
  Counters = {c1, c2}
  MaxCodes = 1
  CodeAttempts = 1
INVARIANT NeverTakesMoreThanGave
CHECK_DEADLOCK FALSE
