-------------------------------- MODULE MCBooks --------------------------------
(***************************************************************************)
(* The books of the shop, side by side: drawer, profit share, points, stock, *)
(* catalog, prices, reports, equipment and the seeds.  The modules share no  *)
(* state, so a behaviour of this one is a behaviour of one of them; part     *)
(* says of which, and the others stay as they start.                         *)
(***************************************************************************)
EXTENDS CashDrawer, ProfitShare, MemberPoints, Inventory, Catalog, Pricing, Reports, Assets,
        Seeding, TLC

CONSTANTS
    t1, t2,     \* the two calls, jobs, editors or runs of whichever part it is
    m1, m2,     \* materials
    o1, o2      \* orders

VARIABLE part

BooksParts == {"drawer", "share", "points", "stock", "catalog", "price", "report", "asset", "seed"}

BooksInit ==
    /\ part \in BooksParts
    /\ DrawerInit /\ ShareInit /\ PointsInit /\ InventoryInit /\ CatalogInit /\ PricingInit
    /\ ReportsInit /\ AssetsInit /\ SeedInit
    /\ part # "share" => books = [c \in Sellers |-> CHOOSE b \in Books : TRUE]

BooksNext ==
    \/ /\ part = "drawer"
       /\ UNCHANGED <<part, shareVars, memberVars, inventoryVars, catalogVars, priceVars, reportVars, assetVars, seedVars>>
       /\ DrawerNext
    \/ /\ part = "share"
       /\ UNCHANGED <<part, drawerVars, memberVars, inventoryVars, catalogVars, priceVars, reportVars, assetVars, seedVars>>
       /\ ShareNext
    \/ /\ part = "points"
       /\ UNCHANGED <<part, drawerVars, shareVars, inventoryVars, catalogVars, priceVars, reportVars, assetVars, seedVars>>
       /\ PointsNext
    \/ /\ part = "stock"
       /\ UNCHANGED <<part, drawerVars, shareVars, memberVars, catalogVars, priceVars, reportVars, assetVars, seedVars>>
       /\ InventoryNext
    \/ /\ part = "catalog"
       /\ UNCHANGED <<part, drawerVars, shareVars, memberVars, inventoryVars, priceVars, reportVars, assetVars, seedVars>>
       /\ CatalogNext
    \/ /\ part = "price"
       /\ UNCHANGED <<part, drawerVars, shareVars, memberVars, inventoryVars, catalogVars, reportVars, assetVars, seedVars>>
       /\ PricingNext
    \/ /\ part = "report"
       /\ UNCHANGED <<part, drawerVars, shareVars, memberVars, inventoryVars, catalogVars, priceVars, assetVars, seedVars>>
       /\ ReportsNext
    \/ /\ part = "asset"
       /\ UNCHANGED <<part, drawerVars, shareVars, memberVars, inventoryVars, catalogVars, priceVars, reportVars, seedVars>>
       /\ AssetsNext
    \/ /\ part = "seed"
       /\ UNCHANGED <<part, drawerVars, shareVars, memberVars, inventoryVars, catalogVars, priceVars, reportVars, assetVars>>
       /\ SeedNext

booksVars == <<part, drawerVars, shareVars, memberVars, inventoryVars, catalogVars, priceVars,
               reportVars, assetVars, seedVars>>

BooksSpec == BooksInit /\ [][BooksNext]_booksVars

-----------------------------------------------------------------------------
BooksSymmetry == Permutations({t1, t2})

\* The second order locks its materials in the opposite order.
CrossedEntries == o1 :> <<m1, m2>> @@ o2 :> <<m2, m1>>

\* min_points of three tiers, in the units of Earnings.
ThreeTiers == <<0, 2, 4>>

\* An amount above the price, off one product, today.
AimedRule ==
    2 :> [scope |-> "specific_product", target |-> 1, type |-> "fixed_amount", value |-> 150,
          days |-> "today"]
PriceOf == 1 :> 100 @@ 2 :> 200
CategoryOf == 1 :> 1 @@ 2 :> 1
ExtraOf == "a" :> 0 @@ "b" :> 30

\* One product with its two options, chosen in either order.
OneProduct == {<<1, <<"a", "b">>>>, <<1, <<"b", "a">>>>}

-----------------------------------------------------------------------------
\* Rows and requests keep their shape.
BooksTypeOK ==
    /\ DrawerTypeOK /\ ShareTypeOK /\ PointsTypeOK /\ InventoryTypeOK /\ CatalogTypeOK
    /\ PricingTypeOK /\ ReportsTypeOK /\ AssetsTypeOK /\ SeedTypeOK

\* What the admin reads adds up: the shares of a month, the depreciation that goes
\* into its profit, the figures of a report and its pages.
FiguresAreWhole == SharesAreExact /\ DepreciationFits /\ FiguresAgree /\ PagesMissNothing
=============================================================================
