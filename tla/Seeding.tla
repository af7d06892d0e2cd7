--------------------------------- MODULE Seeding ---------------------------------
(***************************************************************************)
(* The two seed programs: seed.ts (users, categories, one product, outlet,    *)
(* materials, settings, flags, tiers) and seed-bom.ts (costs of the materials *)
(* and seven products with their recipes).  Each is one await after the       *)
(* other without a transaction; each may die at any of them, be run again, or  *)
(* be run twice at once, and the shop may be selling meanwhile.                *)
(***************************************************************************)
EXTENDS Integers, Sequences, FiniteSets

CONSTANTS
    FirstRows,    \* rows written with upsert and an empty update: the users and categories
    LastRows,     \* ... and the settings, flags and tiers, at the end
    SeedMaterials,    \* the raw materials of a recipe
    OwnProduct,   \* the product of seed.ts
    BomProducts,  \* the products of seed-bom.ts
    Seeders,      \* runs that may be under way
    SeedStock,    \* the current_stock a material is seeded with
    MaxRows, MaxChanges   \* bounds: rows of a product, sales and changes by an administrator

ASSUME SeedingAssumption == /\ SeedStock \in Nat /\ MaxRows \in Nat /\ MaxChanges \in Nat
                            /\ OwnProduct \notin BomProducts /\ SeedMaterials # {}
                            /\ IsFiniteSet(Seeders)

KeptRows == FirstRows \cup LastRows

VARIABLES
    keptRow,         \* the rows: as seeded, or as an administrator left them
    material,        \* the materials: current_stock, and the movements of the seed
    goods,        \* the rows of Product, each with the rows of its recipe
    run,          \* the runs
    changes,      \* sales and changes so far
    torn,         \* products whose recipe a dead or overlapping run may have spoiled
    repriced      \* the rows of Product whose price or cost is an administrator's

seedVars == <<keptRow, material, goods, run, changes, torn, repriced>>

NoMaterial == [there |-> FALSE, amount |-> 0, seeded |-> 0]
NoRun == [kind |-> "none"]
NoRecipe == [m \in SeedMaterials |-> 0]
OnceEach == [m \in SeedMaterials |-> 1]

SeededMaterial == [there: BOOLEAN, amount: Int, seeded: 0..Cardinality(Seeders)]
SeededGoods == [name: BomProducts \cup {OwnProduct}, recipe: [SeedMaterials -> Nat]]
SeedRun == [kind: {"seed"}, at: {"first", "create", "stock", "move", "found", "recipe", "last"},
            todo: SUBSET (KeptRows \cup SeedMaterials), row: Nat, name: {OwnProduct},
            left: SUBSET SeedMaterials]
BomRun == [kind: {"bom"}, at: {"cost", "products", "new", "update", "empty", "entries"},
           todo: SUBSET (SeedMaterials \cup BomProducts), row: Nat,
           name: BomProducts \cup {OwnProduct}, left: SUBSET SeedMaterials]

SeedTypeOK ==
    /\ keptRow \in [KeptRows -> {"none", "seeded", "changed"}]
    /\ material \in [SeedMaterials -> SeededMaterial]
    /\ goods \in Seq(SeededGoods)
    /\ run \in [Seeders -> {NoRun} \cup SeedRun \cup BomRun]
    /\ changes \in 0..MaxChanges /\ torn \subseteq BomProducts \cup {OwnProduct}
    /\ repriced \subseteq Nat

SeedInit ==
    /\ keptRow = [r \in KeptRows |-> "none"] /\ material = [m \in SeedMaterials |-> NoMaterial]
    /\ goods = <<>> /\ run = [k \in Seeders |-> NoRun] /\ changes = 0 /\ torn = {}
    /\ repriced = {}

-----------------------------------------------------------------------------
\* at: the step of the run; todo: what the loop has left; row: the row of goods in
\* hand; name: its product; left: the materials of the inner loop or in hand.
StartedRun(kind, at, todo) ==
    [kind |-> kind, at |-> at, todo |-> todo, row |-> 0, name |-> OwnProduct, left |-> {}]

RunAt(k, kind, at) == run[k].kind = kind /\ run[k].at = at
Proceeds(k, at, todo) == run' = [run EXCEPT ![k].at = at, ![k].todo = todo]
ActiveRuns == {k \in Seeders : run[k] # NoRun}
RowsOf(name) == {i \in DOMAIN goods : goods[i].name = name}

\* A second run spoils whatever the two have in hand.
StartRun(k, kind) ==
    /\ run[k] = NoRun
    /\ run' = [run EXCEPT ![k] = IF kind = "seed" THEN StartedRun(kind, "first", FirstRows)
                                 ELSE StartedRun(kind, "cost", SeedMaterials)]
    /\ torn' = IF ActiveRuns # {} THEN BomProducts \cup {OwnProduct} ELSE torn
    /\ UNCHANGED <<keptRow, material, goods, changes, repriced>>

\* Variant: the update of the upsert writes the seed's values.
Upserted_Anew(old) == "seeded"

\* upsert with update: {}.
Upserted(old) == IF old = "none" THEN "seeded" ELSE old

KeepRow(k, r) ==
    /\ run[k].kind = "seed" /\ run[k].at \in {"first", "last"} /\ r \in run[k].todo
    /\ keptRow' = [keptRow EXCEPT ![r] = Upserted(@)]
    /\ Proceeds(k, run[k].at, run[k].todo \ {r})
    /\ UNCHANGED <<material, goods, changes, torn, repriced>>

\* The product is looked for by its name, which is not unique.
FindOwn(k) ==
    /\ RunAt(k, "seed", "first") /\ run[k].todo = {}
    /\ IF RowsOf(OwnProduct) = {} THEN run' = [run EXCEPT ![k].at = "create"]
       ELSE \E i \in RowsOf(OwnProduct) :
               run' = [run EXCEPT ![k].at = "stock", ![k].todo = SeedMaterials, ![k].row = i]
    /\ UNCHANGED <<keptRow, material, goods, changes, torn, repriced>>

CreateOwn(k) ==
    /\ RunAt(k, "seed", "create") /\ Len(goods) < MaxRows
    /\ goods' = Append(goods, [name |-> OwnProduct, recipe |-> NoRecipe])
    /\ run' = [run EXCEPT ![k].at = "stock", ![k].todo = SeedMaterials, ![k].row = Len(goods')]
    /\ UNCHANGED <<keptRow, material, changes, torn, repriced>>

\* The upsert of a material sets its stock, whatever it is, and says so nowhere.
UpsertMaterial(k, m) ==
    /\ RunAt(k, "seed", "stock") /\ m \in run[k].todo
    /\ material' = [material EXCEPT ![m].there = TRUE, ![m].amount = SeedStock]
    /\ run' = [run EXCEPT ![k].at = IF material[m].seeded = 0 THEN "move" ELSE "found", ![k].left = {m}]
    /\ UNCHANGED <<keptRow, goods, changes, torn, repriced>>

FirstMovement(k) == run[k].at = "move"

Movement(k, m) ==
        /\ run[k].kind = "seed" /\ run[k].at \in {"move", "found"} /\ m \in run[k].left
        /\ material' = [material EXCEPT ![m].seeded = IF FirstMovement(k) THEN @ + 1 ELSE @]
        /\ run' = [run EXCEPT ![k].at = "stock", ![k].todo = @ \ {m}]
        /\ UNCHANGED <<keptRow, goods, changes, torn, repriced>>

HasRecipe(i) == goods[i].recipe # NoRecipe

FindRecipe(k) ==
    /\ RunAt(k, "seed", "stock") /\ run[k].todo = {}
    /\ IF HasRecipe(run[k].row) THEN Proceeds(k, "last", LastRows) ELSE Proceeds(k, "recipe", {})
    /\ UNCHANGED <<keptRow, material, goods, changes, torn, repriced>>

\* createMany: all the rows, or none.
CreateRecipe(k) ==
    LET i == run[k].row
    IN  /\ RunAt(k, "seed", "recipe")
        /\ goods' = [goods EXCEPT ![i].recipe = [m \in SeedMaterials |-> @[m] + 1]]
        /\ Proceeds(k, "last", LastRows)
        /\ UNCHANGED <<keptRow, material, changes, torn, repriced>>

EndSeedRun(k) ==
    /\ RunAt(k, "seed", "last") /\ run[k].todo = {}
    /\ run' = [run EXCEPT ![k] = NoRun]
    /\ UNCHANGED <<keptRow, material, goods, changes, torn, repriced>>

-----------------------------------------------------------------------------
(* seed-bom.ts *)

SetCost(k, m) ==
    /\ RunAt(k, "bom", "cost") /\ m \in run[k].todo
    /\ material' = [material EXCEPT ![m].there = TRUE, ![m].amount = SeedStock]
    /\ Proceeds(k, "cost", run[k].todo \ {m})
    /\ UNCHANGED <<keptRow, goods, changes, torn, repriced>>

\* Without a superadmin it ends here.
FindAdmin(k) ==
    /\ RunAt(k, "bom", "cost") /\ run[k].todo = {}
    /\ run' = [run EXCEPT ![k] = IF \E r \in FirstRows : keptRow[r] # "none"
                                 THEN [@ EXCEPT !.at = "products", !.todo = BomProducts] ELSE NoRun]
    /\ UNCHANGED <<keptRow, material, goods, changes, torn, repriced>>

\* The product is looked for by its name and brought up to date, or created.
TakeProduct(k, p) ==
    /\ RunAt(k, "bom", "products") /\ p \in run[k].todo
    /\ IF RowsOf(p) = {}
       THEN run' = [run EXCEPT ![k].at = "new", ![k].name = p]
       ELSE \E i \in RowsOf(p) : run' = [run EXCEPT ![k].at = "update", ![k].name = p, ![k].row = i]
    /\ UNCHANGED <<keptRow, material, goods, changes, torn, repriced>>

\* The price and the cost of a product that is there are written anew on every run.
UpdateProduct(k) ==
    /\ RunAt(k, "bom", "update")
    /\ repriced' = repriced \ {run[k].row}
    /\ run' = [run EXCEPT ![k].at = "empty"]
    /\ UNCHANGED <<keptRow, material, goods, changes, torn>>

CreateBomProduct(k) ==
    /\ RunAt(k, "bom", "new") /\ Len(goods) < MaxRows
    /\ goods' = Append(goods, [name |-> run[k].name, recipe |-> NoRecipe])
    /\ run' = [run EXCEPT ![k].at = "entries", ![k].left = SeedMaterials, ![k].row = Len(goods')]
    /\ UNCHANGED <<keptRow, material, changes, torn, repriced>>

Emptied(recipe) == NoRecipe

\* Alone with the only row of its product, a run starts its recipe afresh.
EmptyRecipe(k) ==
    LET i == run[k].row
    IN  /\ RunAt(k, "bom", "empty")
        /\ goods' = [goods EXCEPT ![i].recipe = Emptied(@)]
        /\ run' = [run EXCEPT ![k].at = "entries", ![k].left = SeedMaterials]
        /\ torn' = IF ActiveRuns = {k} /\ Cardinality(RowsOf(run[k].name)) = 1
                   THEN torn \ {run[k].name} ELSE torn
        /\ UNCHANGED <<keptRow, material, changes, repriced>>

\* One row of the recipe after the other; seed.ts has its rows in one statement.
AddEntry(k, m) ==
    LET i == run[k].row
    IN  /\ RunAt(k, "bom", "entries") /\ m \in run[k].left
        /\ goods' = [goods EXCEPT ![i].recipe[m] = @ + 1]
        /\ run' = [run EXCEPT ![k].left = @ \ {m}]
        /\ UNCHANGED <<keptRow, material, changes, torn, repriced>>

EndProduct(k) ==
    /\ RunAt(k, "bom", "entries") /\ run[k].left = {}
    /\ run' = [run EXCEPT ![k].at = "products", ![k].todo = @ \ {run[k].name}, ![k].name = OwnProduct]
    /\ UNCHANGED <<keptRow, material, goods, changes, torn, repriced>>

EndBom(k) ==
    /\ RunAt(k, "bom", "products") /\ run[k].todo = {}
    /\ run' = [run EXCEPT ![k] = NoRun]
    /\ UNCHANGED <<keptRow, material, goods, changes, torn, repriced>>

\* An error, or the end of the process.
Dies(k) ==
    /\ run[k] # NoRun
    /\ run' = [run EXCEPT ![k] = NoRun]
    /\ torn' = IF run[k].at \in {"entries", "recipe", "stock", "move", "found"}
               THEN torn \cup {run[k].name} ELSE torn
    /\ UNCHANGED <<keptRow, material, goods, changes, repriced>>

-----------------------------------------------------------------------------
\* The shop sells; an administrator changes a row.
SellPortion(m) ==
    /\ material[m].there /\ changes < MaxChanges /\ changes' = changes + 1
    /\ material' = [material EXCEPT ![m].amount = @ - 1]
    /\ UNCHANGED <<keptRow, goods, run, torn, repriced>>

ChangeRow(r) ==
    /\ keptRow[r] = "seeded" /\ changes < MaxChanges /\ changes' = changes + 1
    /\ keptRow' = [keptRow EXCEPT ![r] = "changed"]
    /\ UNCHANGED <<material, goods, run, torn, repriced>>

ChangePrice(i) ==
    /\ i \notin repriced /\ changes < MaxChanges /\ changes' = changes + 1
    /\ repriced' = repriced \cup {i}
    /\ UNCHANGED <<keptRow, material, goods, run, torn>>

SeedNext ==
    \/ \E k \in Seeders :
          \/ \E kind \in {"seed", "bom"} : StartRun(k, kind)
          \/ \E r \in KeptRows : KeepRow(k, r)
          \/ \E m \in SeedMaterials : UpsertMaterial(k, m) \/ SetCost(k, m) \/ AddEntry(k, m)
                                  \/ Movement(k, m)
          \/ \E p \in BomProducts : TakeProduct(k, p)
          \/ FindOwn(k) \/ CreateOwn(k) \/ FindRecipe(k) \/ CreateRecipe(k) \/ EndSeedRun(k)
          \/ FindAdmin(k) \/ CreateBomProduct(k) \/ UpdateProduct(k) \/ EmptyRecipe(k)
          \/ EndProduct(k) \/ EndBom(k)
          \/ Dies(k)
    \/ \E m \in SeedMaterials : SellPortion(m)
    \/ \E r \in KeptRows : ChangeRow(r)
    \/ \E i \in DOMAIN goods : ChangePrice(i)

SeedSpec == SeedInit /\ [][SeedNext]_seedVars

-----------------------------------------------------------------------------
(* Properties *)

\* Run again, the programs leave a user, a category, a setting, a flag or a tier as an
\* administrator changed it.  Prices and costs they do not leave: seed-bom.ts sets
\* those of its own products on every run (and both set the stock of the materials);
\* no other product loses its price.
ChoicesAreKept ==
    [][/\ \A r \in KeptRows : keptRow[r] = "changed" => keptRow'[r] = "changed"
       /\ \A i \in repriced \ repriced' : goods[i].name \in BomProducts]_seedVars

\* However often the programs are run one after the other, a product that no run is
\* at has one row and every material once in its recipe, unless a run died over it.
RecipesAreWhole ==
    \A p \in (BomProducts \cup {OwnProduct}) \ torn :
       ActiveRuns = {} => /\ Cardinality(RowsOf(p)) <= 1
                      /\ \A i \in RowsOf(p) : goods[i].recipe = OnceEach

\* The movement that explains the initial stock is written once, unless the runs
\* overlapped.
SeededOnce == OwnProduct \notin torn => \A m \in SeedMaterials : material[m].seeded <= 1

\* The seeds may be run again: nothing is doubled, and of an administrator's choices
\* only the prices of the products of seed-bom.ts are lost.
SeedsRunAgain == []RecipesAreWhole /\ []SeededOnce /\ ChoicesAreKept
=============================================================================
