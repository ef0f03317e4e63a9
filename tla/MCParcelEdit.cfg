SPECIFICATION Spec
CHECK_DEADLOCK FALSE

CONSTANTS
  MaxTrades = 6
  MaxEntered = 2
  MaxQty = 1
  MaxDate = 4
  Listings = {l1, l2}
  Accounts = {acA}
  DefaultAccount = acA
  TransferIds = {}
  Actions = {demerger, worthless}
  None = None
  l1 = l1
  l2 = l2
  scrip = scrip
  demerger = demerger
  worthless = worthless
  buyback = buyback
  Terms <- MCTerms

PROPERTY EditNeverNewlyBehind
