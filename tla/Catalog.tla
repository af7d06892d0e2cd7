--------------------------------- MODULE Catalog ---------------------------------
(***************************************************************************)
(* Products and the modifier groups and options below them.  An update reads *)
(* the row, logs a change of a product's price and writes every field back,  *)
(* each in an await of its own; a delete asks whether the product was sold    *)
(* and then hides the row or drops it.  Orders read the products, active or   *)
(* not, and insert their items later.                                        *)
(***************************************************************************)
EXTENDS Naturals, Sequences, FiniteSets

CONSTANTS
    ProductRows,     \* ids of products
    ExtraRows,       \* ids of modifier groups and of their options
    BasketItems,  \* lines of orders
    Editors,      \* requests of administrators that may be under way
    Prices,       \* base_price, additional_price
    Same,         \* a field the request leaves out
    MaxLog        \* bound: price changes logged per product

ASSUME CatalogAssumption == /\ Prices # {} /\ Same \notin Prices /\ Same \notin BOOLEAN
                            /\ MaxLog \in Nat /\ ProductRows \cap ExtraRows = {}

CatalogRows == ProductRows \cup ExtraRows

VARIABLES
    entry,        \* the rows
    priceLog,     \* PRODUCT_PRICE_UPDATE in AuditLog, per product
    edit,         \* the requests
    item,         \* the order lines
    disturbed     \* entries whose updates overlapped, or stopped between log and row

catalogVars == <<entry, priceLog, edit, item, disturbed>>

\* of: the product an extra belongs to.  hidden: deleteProduct switched it off,
\* and no update has switched it on again.
NoEntry == [there |-> FALSE]
Entry == [there: {TRUE}, price: Prices, active: BOOLEAN, of: ProductRows, hidden: BOOLEAN]
NoEdit == [at |-> "idle"]
Edit == [at: {"log", "write"}, entry: CatalogRows, read: Entry,
         price: Prices \cup {Same}, active: BOOLEAN \cup {Same}]
Removal == [at: {"hide", "drop"}, entry: ProductRows]
Change == [from: Prices, to: Prices]
NoItem == [state |-> "none"]
Item == [state: {"read", "sold"}, product: ProductRows, price: Prices]

CatalogTypeOK ==
    /\ entry \in [CatalogRows -> {NoEntry} \cup Entry]
    /\ priceLog \in [ProductRows -> Seq(Change)]
    /\ \A p \in ProductRows : Len(priceLog[p]) <= MaxLog
    /\ edit \in [Editors -> {NoEdit} \cup Edit \cup Removal]
    /\ item \in [BasketItems -> {NoItem} \cup Item]
    /\ disturbed \subseteq CatalogRows

CatalogInit ==
    /\ entry = [e \in CatalogRows |-> NoEntry]
    /\ priceLog = [p \in ProductRows |-> <<>>]
    /\ edit = [r \in Editors |-> NoEdit]
    /\ item = [i \in BasketItems |-> NoItem]
    /\ disturbed = {}

-----------------------------------------------------------------------------
There(e) == entry[e].there
NotEditing(r) == edit[r] = NoEdit
EndEdit(r) == edit' = [edit EXCEPT ![r] = NoEdit]
Goods(p) == {i \in BasketItems : item[i].state # "none" /\ item[i].product = p}

\* create; createModifierGroup and createModifierOption, whose foreign key asks
\* for the product (an option's group asks for it in turn).
Create(e, p, price) ==
    /\ ~There(e)
    /\ IF e \in ProductRows THEN e = p /\ priceLog[p] = <<>> /\ e \notin disturbed ELSE There(p)
    /\ entry' = [entry EXCEPT ![e] =
          [there |-> TRUE, price |-> price, active |-> TRUE, of |-> p, hidden |-> FALSE]]
    /\ UNCHANGED <<priceLog, edit, item, disturbed>>

Logs(e, old, price) == e \in ProductRows /\ price # Same /\ price # old

\* update, updateModifierGroup, updateModifierOption.
BeginEdit(r, e, price, active) ==
    /\ NotEditing(r) /\ There(e)
    /\ edit' = [edit EXCEPT ![r] =
          [at |-> IF Logs(e, entry[e].price, price) THEN "log" ELSE "write",
           entry |-> e, read |-> entry[e], price |-> price, active |-> active]]
    /\ disturbed' = IF \E q \in Editors : edit[q] # NoEdit /\ edit[q].entry = e
                    THEN disturbed \cup {e} ELSE disturbed
    /\ UNCHANGED <<entry, priceLog, item>>

LogPrice(r) ==
    LET e == edit[r]
    IN  /\ e.at = "log" /\ Len(priceLog[e.entry]) < MaxLog
        /\ priceLog' = [priceLog EXCEPT ![e.entry] =
              Append(@, [from |-> e.read.price, to |-> e.price])]
        /\ edit' = [edit EXCEPT ![r].at = "write"]
        /\ UNCHANGED <<entry, item, disturbed>>

Merged(given, read) == IF given = Same THEN read ELSE given

\* The row is written whole; when it is gone the update throws.
WriteEntry(r) ==
    LET e == edit[r]
    IN  /\ e.at = "write"
        /\ entry' = IF ~There(e.entry) THEN entry
                    ELSE [entry EXCEPT ![e.entry].price = Merged(e.price, e.read.price),
                                       ![e.entry].active = Merged(e.active, e.read.active),
                                       ![e.entry].hidden = @ /\ e.active # TRUE]
        /\ EndEdit(r)
        /\ UNCHANGED <<priceLog, item, disturbed>>

-----------------------------------------------------------------------------
(* deleteProduct *)

BeginDelete(r, p) ==
    /\ NotEditing(r) /\ There(p)
    /\ edit' = [edit EXCEPT ![r] =
          [at |-> IF \E i \in Goods(p) : item[i].state = "sold" THEN "hide" ELSE "drop",
           entry |-> p]]
    /\ disturbed' = IF \E q \in Editors : edit[q] # NoEdit /\ edit[q].entry = p
                    THEN disturbed \cup {p} ELSE disturbed
    /\ UNCHANGED <<entry, priceLog, item>>

Hide(r) ==
    LET p == edit[r].entry
    IN  /\ edit[r].at = "hide"
        /\ entry' = IF There(p) THEN [entry EXCEPT ![p].active = FALSE, ![p].hidden = TRUE]
                    ELSE entry
        /\ EndEdit(r)
        /\ UNCHANGED <<priceLog, item, disturbed>>

\* Variant: the database lets the items' product go.
Unsold_Any(p) == p \in ProductRows

\* OrderItem_product_id_fkey ON DELETE RESTRICT.
Unsold(p) == \A i \in Goods(p) : item[i].state # "sold"

\* The groups and options go with the product.
Drop(r) ==
    LET p == edit[r].entry
    IN  /\ edit[r].at = "drop"
        /\ entry' = IF Unsold(p)
                    THEN [e \in CatalogRows |-> IF There(e) /\ entry[e].of = p THEN NoEntry
                                            ELSE entry[e]]
                    ELSE entry
        /\ EndEdit(r)
        /\ UNCHANGED <<priceLog, item, disturbed>>

\* One of the statements throws.
StopEdit(r) ==
    /\ ~NotEditing(r)
    /\ EndEdit(r)
    /\ disturbed' = disturbed \cup {edit[r].entry}
    /\ UNCHANGED <<entry, priceLog, item>>

-----------------------------------------------------------------------------
(* Orders *)

\* findProductsWithModifiers: is_active is not looked at.
ReadBasket(i, p) ==
    /\ item[i].state = "none" /\ There(p)
    /\ item' = [item EXCEPT ![i] = [state |-> "read", product |-> p, price |-> entry[p].price]]
    /\ UNCHANGED <<entry, priceLog, edit, disturbed>>

\* The transaction inserts the items with the prices read; without the product
\* it rolls back.
InsertItem(i) ==
    /\ item[i].state = "read"
    /\ item' = [item EXCEPT ![i] = IF There(@.product) THEN [@ EXCEPT !.state = "sold"]
                                   ELSE NoItem]
    /\ UNCHANGED <<entry, priceLog, edit, disturbed>>

-----------------------------------------------------------------------------
CatalogNext ==
    \/ \E e \in CatalogRows, p \in ProductRows, price \in Prices : Create(e, p, price)
    \/ \E r \in Editors :
          \/ \E e \in CatalogRows, price \in Prices \cup {Same}, active \in BOOLEAN \cup {Same} :
                BeginEdit(r, e, price, active)
          \/ LogPrice(r) \/ WriteEntry(r) \/ Hide(r) \/ Drop(r) \/ StopEdit(r)
          \/ \E p \in ProductRows : BeginDelete(r, p)
    \/ \E i \in BasketItems : InsertItem(i) \/ \E p \in ProductRows : ReadBasket(i, p)

CatalogSpec == CatalogInit /\ [][CatalogNext]_catalogVars

-----------------------------------------------------------------------------
(* Properties *)

\* The product of a sold item has its row, though the delete that asked for the
\* items may have asked before the item was inserted.
SoldProductStays ==
    \A i \in BasketItems : item[i].state = "sold" => There(item[i].product)

\* The last logged change of a price leads to the price of the row when no
\* request is under way, unless updates overlapped or one stopped after its log.
LogExplainsPrice ==
    \A p \in ProductRows :
       LET n == Len(priceLog[p])
       IN  /\ There(p) /\ n > 0 /\ p \notin disturbed
           /\ \A r \in Editors : NotEditing(r) \/ edit[r].entry # p
           => priceLog[p][n].to = entry[p].price

\* A product that was deleted after it was sold is not offered again by an update
\* that says nothing of its status, unless the two overlapped.
DeletedStaysHidden ==
    \A p \in ProductRows : There(p) /\ entry[p].hidden /\ p \notin disturbed => ~entry[p].active

\* What was sold and what a price was can be told from the catalog afterwards.
HistoryIsKept == SoldProductStays /\ LogExplainsPrice /\ DeletedStaysHidden
=============================================================================
