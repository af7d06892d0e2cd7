\* One shift, one sale made offline and one discount; the till may be online twice at once.
CONSTANTS
  Cashiers = {c1}
  Sales = {x1}
  Methods = {"cash"}
  Requests = {t1, t2}
  MaxShifts = 1
  OfflineSales = {x1}
  Handlers = {t1, t2}
  MaxTries = 2
  BatchIsValid = TRUE
  Discounts = {1}
  Rule <- DailyRule
  Price <- PriceOf
  Category <- CategoryOf
  Extra <- ExtraOf
  Menu = {}
  MaxItems = 0
SPECIFICATION EndsSpec
CHECK_DEADLOCK FALSE
PROPERTIES
  OverdueIsClosed
  OfflineSalesAreSynced
  SwitchesHold
