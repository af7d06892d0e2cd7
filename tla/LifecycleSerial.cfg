\* A QRIS order and a cash order, one request at a time.
CONSTANTS
  Orders = {q, c}
  Charged = {q}
  WithExpiry = {}
  Workers = {w1}
  VoidApproval = {FALSE}
  Ageing = TRUE
  Stamps = {"true", "none", "ahead"}
  Faults = {}
SPECIFICATION Spec
INVARIANTS
  StockLaunchedOnce
  CashRefundedOnce
PROPERTIES
  CompletedIsFinal
