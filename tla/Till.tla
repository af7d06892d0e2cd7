---------------------------------- MODULE Till ----------------------------------
(***************************************************************************)
(* The till while it is online: the cart and its copy in the browser's       *)
(* database, the payment (process_payment) and the waiting for a QRIS        *)
(* payment, with a countdown, server-sent events and polls whose answers     *)
(* come when they come.  Carts are the sales they are for, with sale 0 for   *)
(* the empty cart; every press of the button draws a new client_uuid.        *)
(* A split payment waits as a QRIS payment does.                             *)
(***************************************************************************)
EXTENDS Naturals, FiniteSets

CONSTANTS
    Carts,       \* the sales, positive numbers
    Uuids,       \* client_uuids
    NoUuid

ASSUME TillAssumption == Carts \subseteq Nat \ {0} /\ NoUuid \notin Uuids

VARIABLES
    cart, saved,       \* the cart, and the row current_cart of db.cart
    begun,             \* the sales whose cart was once built
    payDialog,         \* show_payment_modal
    sent,              \* the request is_processing stands for: a client_uuid
    orders,            \* what was sent under each client_uuid, and its order
    qrisInfo, waiting, \* qris_order_info, is_waiting_qris
    events,            \* messages that say "completed", on their way
    success,           \* last_order_details, while show_success_modal
    timers,            \* running timeouts of three seconds
    lost,              \* sales with an order whose answer never came
    again,             \* sales whose cart was back, or still there, after it was sent
    crossed            \* an answer came that was not the one waited for

tillVars == <<cart, saved, begun, payDialog, sent, orders, qrisInfo, waiting, events,
              success, timers, lost, again, crossed>>

cartVars == <<cart, saved, begun>>
qrisVars == <<qrisInfo, waiting, events>>
ghostVars == <<lost, again, crossed>>

OrderOf == [sale: Carts \cup {0}, method: {"cash", "qris"},
            status: {"unsent", "sent", "pending", "completed"}]

TillTypeOK ==
    /\ {cart, saved} \subseteq Carts \cup {0} /\ begun \subseteq Carts
    /\ {payDialog, waiting, crossed} \subseteq BOOLEAN
    /\ {sent, qrisInfo, success} \subseteq Uuids \cup {NoUuid}
    /\ orders \in [Uuids -> OrderOf]
    /\ events \subseteq Uuids \X {"poll", "stream"} /\ timers \in Nat
    /\ lost \subseteq Carts /\ again \subseteq Carts

TillInit ==
    /\ cart = 0 /\ saved = 0 /\ begun = {}
    /\ payDialog = FALSE /\ sent = NoUuid
    /\ orders = [u \in Uuids |-> [sale |-> 0, method |-> "cash", status |-> "unsent"]]
    /\ qrisInfo = NoUuid /\ waiting = FALSE /\ events = {}
    /\ success = NoUuid /\ timers = 0
    /\ lost = {} /\ again = {} /\ crossed = FALSE

-----------------------------------------------------------------------------
(* The cart *)

InTheWay == waiting \/ success # NoUuid   \* dialogs that cover the page

\* Products are chosen: an effect saves every cart that is not empty.
NewCart(s) ==
    /\ cart = 0 /\ s \notin begun /\ ~InTheWay /\ ~payDialog
    /\ cart' = s /\ saved' = s /\ begun' = begun \cup {s}
    /\ UNCHANGED <<payDialog, sent, orders, success, timers, qrisVars, ghostVars>>

\* "Kosongkan", or the last line is removed: the saved cart stays.
EmptyCart ==
    /\ cart # 0 /\ ~InTheWay /\ ~payDialog
    /\ cart' = 0
    /\ UNCHANGED <<saved, begun, payDialog, sent, orders, success, timers, qrisVars, ghostVars>>

\* The dialog can be closed while the request is under way.
TogglePayDialog ==
    /\ payDialog \/ (cart # 0 /\ ~InTheWay)
    /\ payDialog' = ~payDialog
    /\ UNCHANGED <<sent, orders, success, timers, cartVars, qrisVars, ghostVars>>

\* reset_pos clears the saved cart too, reset_cart does not.
ResetPos ==
    /\ cart' = 0 /\ saved' = 0 /\ success' = NoUuid
    /\ UNCHANGED begun

-----------------------------------------------------------------------------
(* The payment *)

\* Variant: a second press is not kept out.
MayPay_Twice == cart # 0 /\ payDialog

MayPay == cart # 0 /\ payDialog /\ sent = NoUuid

Pay(u, method) ==
    /\ MayPay
    /\ orders[u].status = "unsent"
    /\ orders' = [orders EXCEPT ![u] = [sale |-> cart, method |-> method, status |-> "sent"]]
    /\ sent' = u
    /\ UNCHANGED <<payDialog, success, timers, cartVars, qrisVars, ghostVars>>

\* The backend takes the order: cash is completed, QRIS is pending.
BackendTakes(u) ==
    /\ orders[u].status = "sent"
    /\ orders' = [orders EXCEPT ![u].status =
                    IF orders[u].method = "cash" THEN "completed" ELSE "pending"]
    /\ UNCHANGED <<payDialog, sent, success, timers, cartVars, qrisVars, ghostVars>>

\* The dialog's method is read after the answer, when the cashier may have
\* chosen another one, or another cart.
Answer(u, method) ==
    /\ sent = u /\ orders[u].status \in {"pending", "completed"}
    /\ sent' = NoUuid
    /\ crossed' = (crossed \/ cart # orders[u].sale \/ method # orders[u].method)

\* on_success.
AnswerCash(u) ==
    /\ Answer(u, "cash")
    /\ success' = u /\ payDialog' = FALSE
    /\ timers' = timers + 1
    /\ UNCHANGED <<orders, lost, again, cartVars, qrisVars>>

\* The request fails or times out, and the cart stays: the order may be there,
\* or may still be made.
AnswerLost(u) ==
    /\ sent = u
    /\ sent' = NoUuid
    /\ lost' = lost \cup {orders[u].sale}
    /\ UNCHANGED <<payDialog, orders, success, timers, again, crossed, cartVars, qrisVars>>

\* on_qris_wait: start_qris_waiting.
AnswerQris(u) ==
    /\ Answer(u, "qris")
    /\ waiting' = TRUE /\ qrisInfo' = u
    /\ payDialog' = FALSE
    /\ UNCHANGED <<orders, events, success, timers, lost, again, cartVars>>

-----------------------------------------------------------------------------
(* Waiting for a QRIS payment *)

\* The webhook completes the order.
QrisPaid(u) ==
    /\ orders[u].status = "pending"
    /\ orders' = [orders EXCEPT ![u].status = "completed"]
    /\ UNCHANGED <<payDialog, sent, success, timers, cartVars, qrisVars, ghostVars>>

Message(u, via) ==
    /\ waiting /\ qrisInfo = u
    /\ events' = events \cup {<<u, via>>}
    /\ UNCHANGED <<payDialog, sent, orders, qrisInfo, waiting, success, timers, cartVars, ghostVars>>

\* A poll, or the stream, has seen it, and the message is on its way.
Seen(u, via) == orders[u].status = "completed" /\ Message(u, via)

\* cancel_qris_waiting closes the stream, but not a poll that is under way.  It
\* also sets is_order_completed back, which on_success has just set.
StopWaiting(left) ==
    /\ waiting' = FALSE
    /\ events' = {e \in left : e[2] # "stream"}

\* on_success of a QRIS sale; what it shows is the order waited for now, which
\* may be another one than u.
QrisSuccess(u, via) ==
    /\ <<u, via>> \in events
    /\ StopWaiting(events \ {<<u, via>>})
    /\ success' = qrisInfo
    /\ timers' = timers + 1
    /\ crossed' = (crossed \/ cart # orders[u].sale \/ qrisInfo # u \/ ~waiting)
    /\ UNCHANGED <<payDialog, sent, orders, qrisInfo, lost, again, cartVars>>

\* "BATALKAN": reset_cart.
CancelWaiting ==
    /\ waiting
    /\ StopWaiting(events)
    /\ cart' = 0 /\ payDialog' = FALSE
    /\ UNCHANGED <<saved, begun, sent, orders, qrisInfo, success, timers, ghostVars>>

\* 15 minutes: the cart stays and can be paid for again.
CountdownEnds ==
    /\ waiting
    /\ StopWaiting(events)
    /\ again' = again \cup {orders[qrisInfo].sale}
    /\ UNCHANGED <<payDialog, sent, orders, qrisInfo, success, timers, lost, crossed, cartVars>>

-----------------------------------------------------------------------------
(* Afterwards *)

NewOrder ==
    /\ success # NoUuid
    /\ ResetPos
    /\ UNCHANGED <<payDialog, sent, orders, timers, qrisVars, ghostVars>>

\* setTimeout: resets if a success is shown, be it another one.
TimerFires ==
    /\ timers > 0
    /\ timers' = timers - 1
    /\ IF success # NoUuid THEN ResetPos ELSE UNCHANGED <<cart, saved, begun, success>>
    /\ UNCHANGED <<payDialog, sent, orders, qrisVars, ghostVars>>

\* The page is loaded anew: requests, messages and timers are gone, and the
\* saved cart is back.
Reload ==
    /\ cart' = saved
    /\ again' = again \cup {s \in Carts : s = saved /\ \E u \in Uuids : orders[u].sale = s}
    /\ lost' = lost \cup {s \in Carts : sent # NoUuid /\ orders[sent].sale = s}
    /\ payDialog' = FALSE /\ sent' = NoUuid /\ success' = NoUuid /\ timers' = 0
    /\ qrisInfo' = NoUuid /\ waiting' = FALSE /\ events' = {}
    /\ UNCHANGED <<saved, begun, orders, crossed>>

TillNext ==
    \/ \E s \in Carts : NewCart(s)
    \/ EmptyCart \/ TogglePayDialog \/ CancelWaiting \/ CountdownEnds
    \/ NewOrder \/ TimerFires \/ Reload
    \/ \E u \in Uuids :
          \/ BackendTakes(u) \/ AnswerCash(u) \/ AnswerLost(u) \/ AnswerQris(u)
          \/ QrisPaid(u)
          \/ \E via \in {"poll", "stream"} : Seen(u, via) \/ QrisSuccess(u, via)
          \/ \E method \in {"cash", "qris"} : Pay(u, method)

TillSpec == TillInit /\ [][TillNext]_tillVars

-----------------------------------------------------------------------------
(* Properties *)

\* A sale is paid for twice only when an answer was lost, when its countdown had
\* ended or when a reload had brought its cart back.
PaidOnceAtTill ==
    \A u, v \in Uuids :
       /\ u # v /\ orders[u].sale = orders[v].sale
       /\ orders[u].status = "completed" /\ orders[v].status = "completed"
       => orders[u].sale \in lost \cup again

\* A success is only shown for an order that is paid, unless an answer came that
\* was not the one waited for.
SuccessIsPaid == success # NoUuid /\ ~crossed => orders[success].status = "completed"

\* What the reset after a success throws away is the cart that was sold, unless
\* an answer came that was not the one waited for.
SoldCartIsReset ==
    success # NoUuid /\ ~crossed => cart = orders[success].sale

\* The payment dialog of the till: one payment for a sale, a success for a paid
\* order only, and the cart that is thrown away is the one that was sold; with the
\* exceptions of its three parts.
TillSellsOnce == PaidOnceAtTill /\ SuccessIsPaid /\ SoldCartIsReset
=============================================================================
