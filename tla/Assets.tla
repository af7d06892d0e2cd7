---------------------------------- MODULE Assets ----------------------------------
(***************************************************************************)
(* The shop's equipment and what it loses in worth each month: createAsset,     *)
(* and updateAsset, which reads the row, fills in what the request leaves out    *)
(* from it, and writes the row whole with the monthly figure computed anew.     *)
(***************************************************************************)
EXTENDS Integers, FiniteSets

CONSTANTS
    Equipment,    \* rows of Asset
    Updates,      \* requests that may be under way
    Worths,       \* purchase prices
    Lives,        \* useful lives in months a request may give, 0 among them
    NotGiven      \* a field the request leaves out

ASSUME AssetsAssumption == Worths \subseteq Nat /\ Lives \subseteq Nat /\ NotGiven \notin Nat

VARIABLES
    asset,        \* the rows
    update        \* the requests

assetVars == <<asset, update>>

NoAsset == [there |-> FALSE]
AssetRow == [there: {TRUE}, worth: Worths, life: Lives \ {0}, monthly: Nat]
NoUpdate == [at |-> "idle"]
Given == [worth: Worths \cup {NotGiven}, life: Lives \cup {NotGiven}]
Update == [at: {"write"}, of: Equipment, given: Given, worth: Worths, life: Lives \ {0}]

AssetsTypeOK ==
    /\ asset \in [Equipment -> AssetRow \cup {NoAsset}]
    /\ update \in [Updates -> Update \cup {NoUpdate}]

AssetsInit ==
    /\ asset = [e \in Equipment |-> NoAsset] /\ update = [k \in Updates |-> NoUpdate]

-----------------------------------------------------------------------------
\* Math.round(price / life).
PerMonth(worth, life) == (2 * worth + life) \div (2 * life)

\* Without a price or a life it is refused.
CreateAsset(e, worth, life) ==
    /\ ~asset[e].there /\ worth > 0 /\ life > 0
    /\ asset' = [asset EXCEPT ![e] = [there |-> TRUE, worth |-> worth, life |-> life,
                                      monthly |-> PerMonth(worth, life)]]
    /\ UNCHANGED update

GivenOr(given, old) == IF given = NotGiven THEN old ELSE given

\* updateAsset up to its guard: a life of nothing is refused.
ReadAsset(k, e, worth, life) ==
    /\ update[k] = NoUpdate /\ asset[e].there
    /\ GivenOr(life, asset[e].life) > 0
    /\ update' = [update EXCEPT ![k] =
          [at |-> "write", of |-> e, given |-> [worth |-> worth, life |-> life],
           worth |-> GivenOr(worth, asset[e].worth), life |-> GivenOr(life, asset[e].life)]]
    /\ UNCHANGED asset

Written(row, u) ==
    [there |-> TRUE, worth |-> u.worth, life |-> u.life, monthly |-> PerMonth(u.worth, u.life)]

WriteAsset(k) ==
    /\ update[k].at = "write"
    /\ asset' = [asset EXCEPT ![update[k].of] = Written(@, update[k])]
    /\ update' = [update EXCEPT ![k] = NoUpdate]

UpdateDies(k) ==
    /\ update[k] # NoUpdate /\ update' = [update EXCEPT ![k] = NoUpdate]
    /\ UNCHANGED asset

AssetsNext ==
    \/ \E e \in Equipment, worth \in Worths, life \in Lives : CreateAsset(e, worth, life)
    \/ \E k \in Updates :
          \/ WriteAsset(k) \/ UpdateDies(k)
          \/ \E e \in Equipment, worth \in Worths \cup {NotGiven}, life \in Lives \cup {NotGiven} :
                ReadAsset(k, e, worth, life)

AssetsSpec == AssetsInit /\ [][AssetsNext]_assetVars

-----------------------------------------------------------------------------
(* Properties *)

\* However requests overlap, the monthly figure that closePeriod takes from the
\* profit is that of the row's own price and life.
DepreciationFits ==
    \A e \in Equipment : asset[e].there => asset[e].monthly = PerMonth(asset[e].worth, asset[e].life)
=============================================================================
