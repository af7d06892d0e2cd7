\* A cash sale and a QRIS sale of members, two requests at a time.
CONSTANTS
  u1 = u1
  u2 = u2
  Uuids = {u1, u2}
  Letters = {A}
  Handlers = {h1, h2}
  MethodOf <- MixedMethods
  MemberSales = {u1, u2}
  None = None
SPECIFICATION FairSpec
INVARIANTS
  TypeOK
  BookIsGapless
  AnswersAgree
  CacheOnlyOfOrders
  EffectsAtMostOnce
  PointsOnlyOfCompleted
PROPERTIES
  ImplementsOrderBook
  EveryRequestEnds
