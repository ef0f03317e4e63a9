SPECIFICATION Spec
CHECK_DEADLOCK FALSE
SYMMETRY TransferSymmetry

CONSTANTS
  MaxTrades = 6
  MaxEntered = 2
  MaxQty = 2
  MaxDate = 2
  Listings = {l1}
  Accounts = {acA, acB}
  DefaultAccount = acA
  TransferIds = {t1, t2}
  Actions = {worthless, buyback}
  None = None
  l1 = l1
  l2 = l2
  scrip = scrip
  demerger = demerger
  worthless = worthless
  buyback = buyback
  Terms <- MCTerms

INVARIANT SaleFullyAllocated
INVARIANT AllocationsSound
INVARIANT NoParcelOversold
INVARIANT TransfersWhole
