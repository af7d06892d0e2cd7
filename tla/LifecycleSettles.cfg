\* Every notification in time: a payment takes effect.
CONSTANTS
  Orders = {q}
  Charged = {q}
  WithExpiry = {}
  Workers = {w1, w2}
  VoidApproval = {FALSE}
  Ageing = FALSE
  Stamps = {"true", "none"}
  Faults = {}
SPECIFICATION FairSpec
PROPERTY
  SettlementTakesEffect
