\* A customer who pays more than five minutes after the charge.
CONSTANTS
  Orders = {q}
  Charged = {q}
  WithExpiry = {}
  Workers = {w1, w2}
  VoidApproval = {FALSE}
  Ageing = TRUE
  Stamps = {"true"}
  Faults = {}
SPECIFICATION FairSpec
PROPERTY
  SettlementTakesEffect
