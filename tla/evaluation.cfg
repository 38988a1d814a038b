\* Both gates on every build that has lost at most two parts.
SPECIFICATION Spec
CONSTANTS
  MvpCases <- TheMvpCases
  PlanCases <- ThePlanCases
  LiveTexts <- TheLiveTexts
  Losses <- TheLosses
  NoData = NoData
  Numerals = {"1", "200", "99"}
  Endings = {}
  Beginnings = {}
  MaxText = 20
  TokenEndings = {}
  TokenBeginnings = {}
  OfferCount = 3
  MaxAge = 30
  Currencies = {"JPY"}
  LongCodes = {}
  LongVersions = {}
  MoneyLimit = 1000000
  CountLimit = 1000000
INVARIANTS GateDecidesRight ReleasedBuildsRoute
CHECK_DEADLOCK FALSE
