SPECIFICATION Spec
CHECK_DEADLOCK FALSE

CONSTANTS
  MaxTrades = 7
  MaxEntered = 2
  MaxQty = 1
  MaxDate = 3
  Listings = {l1, l2}
  Accounts = {acA, acB}
  DefaultAccount = acA
  TransferIds = {}
  Actions = {scrip, demerger, worthless, buyback}
  None = None
  l1 = l1
  l2 = l2
  scrip = scrip
  demerger = demerger
  worthless = worthless
  buyback = buyback
  Terms <- MCTerms

INVARIANT OperationsWhole
PROPERTY NothingNewlyStranded
