SPECIFICATION RecordsSpec
CONSTANTS
  Distributions = {d1, d2, d3}
  MaxPeriods = 2
  DrpDays = 2
  Cash = {4}
  UnitPrice = 3
  FundAccounts = {a, b}
  Holders = {a, b}
  StatementIds = {1}
  FundDays = 3
  YearLength = 2
  LotSizes = {1, 2}
  MaxLots = 4
  MaxFundWrites = 3
  MaxTyped = 1
  CgtParcels = {1, 2}
  CgtDays = 6
  FyLength = 2
  SettleLag = 1
  CentGrain = 4
  BuyDays = {1, 2}
  LotUnits = {2}
  UnitCosts = {18}
  SellDays = {2, 3, 5}
  UnitProceeds = {6, 30}
  PayDays = {4}
  PayRates = {24}
  RecordGaps <- GapSet
  StatementYears = {2}
  StatementRates <- RateSet
  AttributedGains = {6}
  OpeningLosses = {10}
  AmitFrom = 3
  MaxCgtWrites = 4
  MaxOptParcels = 3
  OptBuyDays = {1, 2}
  OptSaleDays = {1, 3}
  DiscountDays = 1
  OptQuantities = {2}
  OptUnitCosts = {2, 3, 7, 9}
  OptPrices = {5}
  MaxOptSells = 1
SYMMETRY Symmetry
INVARIANTS
  RecordsWellFormed
  ChainConserved
  SplitDerived
  EveryUnitPlaced
  GenerationNeverRefused
  AdjustmentsReachUnits
  EveryDollarTaxedOnce
  LossesUsedBest
  StrategiesOptimal
  AdviceRecordable
PROPERTY WhatIfForetells
CHECK_DEADLOCK FALSE
