\* A question whose conflicting evidence the store refuses.
SPECIFICATION Spec
CONSTANTS
  Requests = {r1}
  c1 = c1
  c2 = c2
  v1 = v1
  v2 = v2
  Customers = {c1}
  Conversations = {v1}
  Owner <- OnlyOwner
  Questions <- TheQuestions
  Texts <- TheTexts
  Numerals = {}
  Endings = {}
  Beginnings = {}
  MaxText = 12
  TokenEndings <- LongerWords
  TokenBeginnings <- LongerTokens
  Plans <- ThePlans
  Bills <- TheBills
  Charges <- TheCharges
  Catalogs <- TheCatalogs
  NoData = NoData
  Start <- AtFirst
  Currencies = {"JPY", "USD"}
  LongCode = "code of 65 characters"
  LongVersion = "version of 129 characters"
  TooMuch = 1000
  LongCodes = {"code of 65 characters"}
  LongVersions = {"version of 129 characters"}
  MoneyLimit = 1000
  CountLimit = 1000
  OfferCount = 2
  MaxAge = 1
  MaxChanges = 1
  LastDay = 0
  Faults = {}
INVARIANTS ConflictingEvidenceIsFlagged
CHECK_DEADLOCK FALSE
