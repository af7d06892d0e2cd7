---------------------------------- MODULE Pricing --------------------------------
(***************************************************************************)
(* What a cart costs: for the till, by the discounts it has loaded, and for   *)
(* the backend, which computes the price again from its own discounts and     *)
(* marks the order 'Perlu Cek' when the two are too far apart.  The rows of   *)
(* Discount are switched by the admin and by a cron job, and read through a   *)
(* cache of a minute.                                                         *)
(*                                                                         *)
(* Prices are whole and percentages come out even; JavaScript's rounding of   *)
(* other amounts is left out.                                                 *)
(***************************************************************************)
EXTENDS Integers, Sequences, FiniteSets, FiniteSetsExt, Functions, SequencesExt

CONSTANTS
    Discounts,   \* ids of the rows of Discount
    Rule,        \* what each of them says
    Price,       \* base_price of each product
    Category,    \* and its category
    Extra,       \* additional_price of each modifier option
    Menu,        \* what can be added: <<product, options in the order chosen>>
    MaxItems     \* bound: products in the cart

Products == DOMAIN Price

RuleRow == [scope: {"all_products", "category", "specific_product"}, target: Nat,
            type: {"percentage", "fixed_amount"}, value: Nat,
            days: {"every", "none", "today", "tomorrow"}]

ASSUME PricingAssumption ==
    /\ IsFiniteSet(Discounts) /\ Rule \in [Discounts -> RuleRow] /\ Products \subseteq Nat
    /\ Price \in [Products -> Nat \ {0}] /\ Category \in [Products -> Nat]
    /\ Extra \in [DOMAIN Extra -> Nat]
    /\ Menu \subseteq Products \X Seq(DOMAIN Extra) /\ MaxItems \in Nat
    /\ \A d \in Discounts : Rule[d].type = "percentage" => Rule[d].value <= 100

VARIABLES
    discount,    \* the rows
    cache,       \* active_discounts in Redis, or NoCache
    tillHas,     \* active_discounts of the till
    lines,       \* its cart
    cron,        \* handleDiscountCron: where it is and the ids it found
    overtaken    \* those an admin touched since it found them

priceVars == <<discount, cache, tillHas, lines, cron, overtaken>>

\* time: now against valid_from and valid_until; "starting" lasts five minutes.
\* aimed: it has a target_id.
DiscountRow == [exists: BOOLEAN, active: BOOLEAN, manual: BOOLEAN, aimed: BOOLEAN,
                time: {"before", "starting", "running", "over"}]

\* What a reader has of the table: the discounts, and whether they had a target.
Views == SUBSET (Discounts \X BOOLEAN)
NoCache == {<<0, FALSE>>}
Line == [product: Products, chosen: Seq(DOMAIN Extra), qty: Nat \ {0}]
Cron == [at: {"idle", "expire", "look", "start"}, found: SUBSET Discounts]

PricingTypeOK ==
    /\ discount \in [Discounts -> DiscountRow]
    /\ cache \in Views \cup {NoCache} /\ tillHas \in Views
    /\ lines \in Seq(Line)
    /\ cron \in Cron /\ overtaken \subseteq Discounts

PricingInit ==
    /\ discount = [d \in Discounts |-> [exists |-> FALSE, active |-> FALSE, manual |-> FALSE,
                                        aimed |-> Rule[d].scope # "all_products", time |-> "before"]]
    /\ cache = NoCache /\ tillHas = {} /\ lines = <<>>
    /\ cron = [at |-> "idle", found |-> {}] /\ overtaken = {}

-----------------------------------------------------------------------------
(* The rows *)

CreateDiscount(d, active, time) ==
    /\ ~discount[d].exists
    /\ discount' = [discount EXCEPT ![d].exists = TRUE, ![d].active = active, ![d].time = time]
    /\ UNCHANGED <<cache, tillHas, lines, cron, overtaken>>

\* PATCH { is_active }, which also sets target_id to null.
Toggle(d) ==
    LET active == ~discount[d].active
    IN /\ discount[d].exists
       /\ discount' = [discount EXCEPT ![d].active = active, ![d].manual = ~active,
                                       ![d].aimed = FALSE]
       /\ overtaken' = IF cron.at = "start" THEN overtaken \cup ({d} \cap cron.found) ELSE overtaken
       /\ UNCHANGED <<cache, tillHas, lines, cron>>

\* DELETE leaves manually_disabled as it was.
RemoveDiscount(d) ==
    /\ discount[d].exists
    /\ discount' = [discount EXCEPT ![d].active = FALSE]
    /\ UNCHANGED <<cache, tillHas, lines, cron, overtaken>>

Later == [before |-> "starting", starting |-> "running", running |-> "over"]
ClockMoves(d) ==
    /\ discount[d].exists /\ discount[d].time # "over"
    /\ discount' = [discount EXCEPT ![d].time = Later[@]]
    /\ UNCHANGED <<cache, tillHas, lines, cron, overtaken>>

Switch(ds, active) ==
    discount' = [d \in Discounts |-> IF d \in ds THEN [discount[d] EXCEPT !.active = active]
                                                 ELSE discount[d]]

\* Variant: the comparison with valid_until is the wrong way round.
Expired_Gte == {d \in Discounts : discount[d].active /\ discount[d].time = "running"}

Expired == {d \in Discounts : discount[d].active /\ discount[d].time = "over"}

Starting ==
    {d \in Discounts : /\ discount[d].exists /\ discount[d].time = "starting"
                       /\ ~discount[d].active /\ ~discount[d].manual}

\* Every five minutes: find the expired ones, switch them off by id, find those
\* that start, switch them on by id.
CronFinds ==
    /\ cron.at \in {"idle", "look"}
    /\ cron' = IF cron.at = "idle" THEN [at |-> "expire", found |-> Expired]
                                   ELSE [at |-> "start", found |-> Starting]
    /\ UNCHANGED <<discount, cache, tillHas, lines, overtaken>>

CronSwitches ==
    /\ cron.at \in {"expire", "start"}
    /\ Switch(cron.found, cron.at = "start")
    /\ cron' = [at |-> IF cron.at = "expire" THEN "look" ELSE "idle", found |-> {}]
    /\ overtaken' = {}
    /\ UNCHANGED <<cache, tillHas, lines>>

CronFails ==
    /\ cron.at # "idle"
    /\ cron' = [at |-> "idle", found |-> {}]
    /\ overtaken' = {}
    /\ UNCHANGED <<discount, cache, tillHas, lines>>

-----------------------------------------------------------------------------
(* Reading them *)

View(ds) == {<<d, discount[d].aimed>> : d \in ds}
Usable == {d \in Discounts : discount[d].active /\ discount[d].time \in {"starting", "running"}}

\* findActiveDiscounts.
ServerHas == IF cache # NoCache THEN cache ELSE View(Usable)

BackendReads ==
    /\ cache = NoCache
    /\ cache' = ServerHas
    /\ UNCHANGED <<discount, tillHas, lines, cron, overtaken>>

CacheEnds ==
    /\ cache # NoCache
    /\ cache' = NoCache
    /\ UNCHANGED <<discount, tillHas, lines, cron, overtaken>>

\* fetch_discounts asks for is_active alone.  The route is the admin's: for a
\* cashier the till keeps what it has.
TillLoads ==
    /\ tillHas' = View({d \in Discounts : discount[d].active})
    /\ UNCHANGED <<discount, cache, lines, cron, overtaken>>

-----------------------------------------------------------------------------
(* The cart *)

Signature(chosen) == ToSet(chosen)

Items == SumFunction([i \in DOMAIN lines |-> lines[i].qty])

AddToCart(item) ==
    LET same == {i \in DOMAIN lines : /\ lines[i].product = item[1]
                                      /\ Signature(lines[i].chosen) = Signature(item[2])}
    IN /\ Items < MaxItems
       /\ lines' = IF same # {}
                   THEN [lines EXCEPT ![Min(same)].qty = @ + 1]
                   ELSE Append(lines, [product |-> item[1], chosen |-> item[2], qty |-> 1])
       /\ UNCHANGED <<discount, cache, tillHas, cron, overtaken>>

\* Variant: the line stays when its last piece is taken away.
UpdateQuantity_KeepsLine(i, delta) ==
    /\ delta > 0 => Items < MaxItems
    /\ lines' = [lines EXCEPT ![i].qty = @ + delta]
    /\ UNCHANGED <<discount, cache, tillHas, cron, overtaken>>

UpdateQuantity(i, delta) ==
    /\ delta > 0 => Items < MaxItems
    /\ lines' = IF lines[i].qty + delta <= 0 THEN RemoveAt(lines, i)
                ELSE [lines EXCEPT ![i].qty = @ + delta]
    /\ UNCHANGED <<discount, cache, tillHas, cron, overtaken>>

-----------------------------------------------------------------------------
(* The price *)

Amount(d, p) == IF Rule[d].type = "percentage" THEN (Price[p] * Rule[d].value) \div 100
                ELSE Rule[d].value

InScope(v, p) ==
    LET r == Rule[v[1]]
    IN \/ r.scope = "all_products"
       \/ v[2] /\ r.scope = "category" /\ r.target = Category[p]
       \/ v[2] /\ r.scope = "specific_product" /\ r.target = p

\* get_best_discount_for_product: by scope, then by amount; the till's own day,
\* and an empty list of days is none of them.
Priority(d) == CASE Rule[d].scope = "specific_product" -> 3
                 [] Rule[d].scope = "category" -> 2
                 [] OTHER -> 1

TillDiscount(p, day) ==
    LET found == {v \in tillHas : InScope(v, p) /\ Rule[v[1]].days \in {"every", day}}
        top == {v \in found : \A w \in found : Priority(w[1]) <= Priority(v[1])}
    IN IF found = {} THEN 0 ELSE Max({Amount(v[1], p) : v \in top})

\* calculate_product_discount: the best amount, at most the price; the day in
\* UTC, and an empty list of days is all of them.
ServerDiscount(p) ==
    LET found == {v \in ServerHas : InScope(v, p) /\ Rule[v[1]].days \in {"every", "none", "today"}}
        capped(v) == IF Amount(v[1], p) < Price[p] THEN Amount(v[1], p) ELSE Price[p]
    IN Max({capped(v) : v \in found} \cup {0})

Extras(l) == SumFunction([k \in DOMAIN l.chosen |-> Extra[l.chosen[k]]])

\* cart_total, which is what the order says as client_final_price.
CartTotal(day) ==
    LET total == SumFunction([i \in DOMAIN lines |->
                   (Price[lines[i].product] + Extras(lines[i]) - TillDiscount(lines[i].product, day))
                   * lines[i].qty])
    IN IF total > 0 THEN total ELSE 0

UnitPrice(l) == Price[l.product] - ServerDiscount(l.product) + Extras(l)

Subtotal == SumFunction([i \in DOMAIN lines |-> UnitPrice(lines[i]) * lines[i].qty])

\* In hundredths: TAX_RATE is 11%.
FinalPrice == 111 * Subtotal

\* createOrderWithCache adds up the unit prices, without quantity or tax.
SyncedFinalPrice == 100 * SumFunction([i \in DOMAIN lines |-> UnitPrice(lines[i])])

\* Variant: the sign is kept.
PriceGap_Signed(final, client) == client - final

PriceGap(final, client) == IF final > client THEN final - client ELSE client - final

\* verification_status, with a threshold of 10%.
Verdict(final, client) ==
    IF (IF final > 0 THEN 10 * PriceGap(final, client) > final ELSE client > 0)
    THEN "Perlu Cek" ELSE "Valid"

-----------------------------------------------------------------------------
PricingNext ==
    \/ \E d \in Discounts :
          \/ Toggle(d) \/ RemoveDiscount(d) \/ ClockMoves(d)
          \/ \E active \in BOOLEAN, time \in {"before", "starting"} : CreateDiscount(d, active, time)
    \/ CronFinds \/ CronSwitches \/ CronFails
    \/ BackendReads \/ CacheEnds \/ TillLoads
    \/ \E item \in Menu : AddToCart(item)
    \/ \E i \in DOMAIN lines, delta \in {-1, 1} : UpdateQuantity(i, delta)

\* The cron runs on, and not every one of its rounds fails.
PricingFairness ==
    /\ SF_priceVars(CronFinds) /\ SF_priceVars(CronSwitches)
    /\ SF_priceVars(cron.at = "expire" /\ CronSwitches)

PricingSpec == PricingInit /\ [][PricingNext]_priceVars /\ PricingFairness

-----------------------------------------------------------------------------
(* Properties *)

\* A product with the same options is one line of the cart, in whatever order
\* they were chosen.
OneLinePerChoice ==
    \A i, j \in DOMAIN lines :
       lines[i].product = lines[j].product /\ ToSet(lines[i].chosen) = ToSet(lines[j].chosen) => i = j

\* When till and backend come to the same discounts, the order is 'Valid': the
\* tax of 11%, which the till leaves out, is within the threshold of 10%.
AgreedPriceIsValid ==
    \A day \in {"today", "tomorrow"} :
       (\A i \in DOMAIN lines : TillDiscount(lines[i].product, day) = ServerDiscount(lines[i].product))
       => Verdict(FinalPrice, 100 * CartTotal(day)) = "Valid"

\* Whatever the till had loaded, an order that passes as 'Valid' was not sold
\* for a thousandth less than the backend's price before tax.
UnderchargeIsFlagged ==
    \A day \in {"today", "tomorrow"} :
       Verdict(FinalPrice, 100 * CartTotal(day)) = "Valid" => 1000 * CartTotal(day) >= 999 * Subtotal

\* What an admin switched off stays off, whatever the cron does, unless it was
\* switched off between the cron's two queries.
SwitchedOffStaysOff ==
    [][\A d \in Discounts :
          discount[d].manual /\ discount'[d].manual /\ ~discount[d].active /\ discount'[d].active
          => d \in overtaken]_priceVars

\* A discount that is over is switched off in the end, also when an admin
\* switches it on again.
ExpiredIsSwitchedOff ==
    \A d \in Discounts : discount[d].active /\ discount[d].time = "over" ~> ~discount[d].active

\* A sale made offline is judged without quantities and tax: one that has a
\* single piece of each is 'Valid' when till and backend come to the same discounts.
SinglePiecesAreValid ==
    \A day \in {"today", "tomorrow"} :
       (\A i \in DOMAIN lines :
           lines[i].qty = 1 /\ TillDiscount(lines[i].product, day) = ServerDiscount(lines[i].product))
       => Verdict(SyncedFinalPrice, 100 * CartTotal(day)) = "Valid"

\* Till and backend judge a cart alike: one line for one choice, no alarm when
\* they agree, and an alarm when the till was too cheap.
CartsAreJudged ==
    OneLinePerChoice /\ AgreedPriceIsValid /\ UnderchargeIsFlagged /\ SinglePiecesAreValid

\* The switch of a discount: the cron ends what is over, and starts nothing that
\* an admin has stopped.
SwitchesHold == SwitchedOffStaysOff /\ ExpiredIsSwitchedOff
=============================================================================
