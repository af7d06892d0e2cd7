\* Two voids of one order at the same time.
CONSTANTS
  Orders = {c}
  Charged = {}
  WithExpiry = {}
  Workers = {w1, w2}
  VoidApproval = {FALSE}
  Ageing = FALSE
  Stamps = {"true"}
  Faults = {}
SPECIFICATION Spec
INVARIANT
  CashRefundedOnce
