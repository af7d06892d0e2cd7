\* A completed order whose stock was never deducted.
CONSTANTS
  u1 = u1
  u2 = u2
  Uuids = {u1, u2}
  Letters = {A}
  Handlers = {h1, h2}
  MethodOf <- MixedMethods
  MemberSales = {u1, u2}
  None = None
SPECIFICATION Spec
INVARIANT
  CompletedOrderMovedStock
