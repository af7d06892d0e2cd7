\* Database errors and crashes in the middle of a settlement and of an approved void.
CONSTANTS
  Orders = {q}
  Charged = {q}
  WithExpiry = {}
  Workers = {w1, w2}
  VoidApproval = {TRUE}
  Ageing = TRUE
  Stamps = {"true", "none"}
  Faults = {"crash", "error", "forget"}
SPECIFICATION Spec
SYMMETRY WorkerSymmetry
INVARIANTS
  LostEffectsAreInDlq
  ApprovedIsRefunded
