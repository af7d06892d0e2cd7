\* The batch as the till sends it, which the backend's validation refuses.
CONSTANTS
  OfflineSales = {x1}
  Handlers = {t1}
  MaxTries = 2
  BatchIsValid = FALSE
SPECIFICATION TillSyncSpec
CHECK_DEADLOCK FALSE
PROPERTY
  OfflineSalesAreSynced
