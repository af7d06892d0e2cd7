\* The books, two calls at a time of each.
CONSTANTS
  t1 = t1
  t2 = t2
  m1 = m1
  m2 = m2
  o1 = o1
  o2 = o2
  Cashiers = {c1}
  Sales = {x1}
  Methods = {"cash", "split"}
  Requests = {t1, t2}
  MaxShifts = 2
  Sellers = {a, b}
  Closings = {t1, t2}
  Payments = {t1, t2}
  Amounts = {4, 20}
  Strays = {0, 4}
  CostAmounts = {1}
  OrdersExists = TRUE
  MemberSales = {x1, x2}
  Calls = {t1, t2}
  Earnings = {3}
  MinPoints <- ThreeTiers
  Materials = {m1, m2}
  StockOrders = {o1, o2}
  Entries <- CrossedEntries
  Servings = {0, 2}
  StockJobs = {t1, t2}
  InitialStock = 2
  MaxAdmin = 1
  ProductRows = {p1}
  ExtraRows = {}
  BasketItems = {i1}
  Editors = {t1, t2}
  Prices = {1, 2}
  Same = Same
  MaxLog = 1
  Discounts = {2}
  Rule <- AimedRule
  Price <- PriceOf
  Category <- CategoryOf
  Extra <- ExtraOf
  Menu <- OneProduct
  MaxItems = 2
  MaxBills = 2
  DayShifts = {s1}
  PageSize = 1
  RawTablesExist = TRUE
  Equipment = {e1}
  Updates = {t1, t2}
  Worths = {7, 24}
  Lives = {0, 2, 12}
  NotGiven = NotGiven
  FirstRows = {r1}
  LastRows = {r2}
  SeedMaterials = {m1}
  OwnProduct = Own
  BomProducts = {p1}
  Seeders = {t1, t2}
  SeedStock = 1
  MaxRows = 2
  MaxChanges = 1
SPECIFICATION BooksSpec
SYMMETRY BooksSymmetry
CHECK_DEADLOCK FALSE
INVARIANTS
  BooksTypeOK
  OneOpenShift
  PointsAreExplained
  
  HistoryIsKept
  CartsAreJudged
  FiguresAreWhole
PROPERTIES
  MoneyIsCountedOnce
  
