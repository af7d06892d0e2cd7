\* A QRIS order: webhooks, approved voids and the cron race, processes die and keys are lost.
CONSTANTS
  Orders = {q}
  Charged = {q}
  WithExpiry = {q}
  Workers = {w1, w2}
  VoidApproval = {TRUE}
  Ageing = TRUE
  Stamps = {"true", "none", "ahead"}
  Faults = {"crash", "forget"}
SPECIFICATION Spec
SYMMETRY WorkerSymmetry
INVARIANTS
  TypeOK
  PaidOnlyIfSettled
  KeyMeansLaunched
  VoidNeedsApproval
