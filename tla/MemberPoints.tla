------------------------------ MODULE MemberPoints -----------------------------
(***************************************************************************)
(* The loyalty points and the tier of one member.  Every sale to the member  *)
(* has process_points called twice: by the backend when the order is paid    *)
(* (createOrder, the webhook), without redemption, and by the till when its  *)
(* payment dialog is told so, with the redemption the cashier ticked.  What  *)
(* keeps the second call from awarding again is the cooldown of two minutes. *)
(*                                                                         *)
(* process_points reads the balance and writes a new one in a read-committed *)
(* transaction.  The advisory lock around it is taken with $executeRaw,      *)
(* which answers with the number of rows, 1, whoever holds the lock.         *)
(***************************************************************************)
EXTENDS Integers, Sequences, FiniteSets, Functions

CONSTANTS
    MemberSales,  \* sales to the member
    Calls,        \* calls of process_points that may run at once
    Earnings,     \* points a sale may be worth
    MinPoints     \* the sequence of min_points of the tiers, from the lowest

ASSUME PointsAssumption ==
    /\ Earnings \subseteq Nat
    /\ MinPoints \in Seq(Nat) /\ Len(MinPoints) > 0 /\ MinPoints[1] = 0
    /\ \A i, j \in DOMAIN MinPoints : i < j => MinPoints[i] < MinPoints[j]

Tiers == DOMAIN MinPoints

VARIABLES
    balance, tier,    \* loyalty_points and current_tier_id of the Member
    rows,             \* the rows of MemberTransaction, oldest first
    bought,           \* the sales, and how far their calls are
    call,             \* the running calls
    callsOverlap,          \* two calls have run at the same time
    adjusted          \* an admin has set the tier since it was last evaluated

memberVars == <<balance, tier, rows, bought, call, callsOverlap, adjusted>>

\* fresh: created in the last two minutes.
MemberRow == [sale: MemberSales, type: {"earn", "redeem"}, points: Int, fresh: BOOLEAN]
NoCall == [at |-> "idle"]
Call == [at: {"cooldown", "commit"}, sale: MemberSales, redeem: BOOLEAN, read: Int,
         canEarn: BOOLEAN]

PointsTypeOK ==
    /\ balance \in Int /\ tier \in Tiers
    /\ rows \in Seq(MemberRow)
    /\ bought \in [MemberSales -> [method: {"none", "cash", "qris"}, points: Earnings \cup {0},
                                   server: BOOLEAN, till: BOOLEAN]]
    /\ call \in [Calls -> {NoCall} \cup Call]
    /\ callsOverlap \in BOOLEAN /\ adjusted \in BOOLEAN

\* register gives a new member no points and the tier Bronze.
PointsInit ==
    /\ balance = 0 /\ tier = 1
    /\ rows = <<>>
    /\ bought = [x \in MemberSales |->
                   [method |-> "none", points |-> 0, server |-> FALSE, till |-> FALSE]]
    /\ call = [k \in Calls |-> NoCall]
    /\ callsOverlap = FALSE /\ adjusted = FALSE

-----------------------------------------------------------------------------
(* process_points *)

Running == {k \in Calls : call[k] # NoCall}

\* The member is found and is active.
BeginCall(k, x, redeem) ==
    /\ call[k] = NoCall
    /\ call' = [call EXCEPT ![k] = [at |-> "cooldown", sale |-> x, redeem |-> redeem,
                                    read |-> balance, canEarn |-> FALSE]]
    /\ callsOverlap' = (callsOverlap \/ Running # {})

RecentEarn == {i \in DOMAIN rows : rows[i].type = "earn" /\ rows[i].fresh}

LookCooldown(k) ==
    /\ call[k].at = "cooldown"
    /\ call' = [call EXCEPT ![k].at = "commit", ![k].canEarn = RecentEarn = {}]
    /\ UNCHANGED <<balance, tier, rows, bought, callsOverlap, adjusted>>

TierFor(points) ==
    CHOOSE t \in Tiers : /\ MinPoints[t] <= points
                         /\ \A u \in Tiers : MinPoints[u] <= points => u <= t

PointRow(x, type, points) == [sale |-> x, type |-> type, points |-> points, fresh |-> TRUE]

\* Variant: the redeemed points are not subtracted before the earned are added.
NewBalance_KeepsRedeemed(read, redeemed, earned) == read + earned

NewBalance(read, redeemed, earned) == read - redeemed + earned

\* The balance is the one read at the beginning; the rows and the new balance
\* become visible together.  The tier is looked at when points were earned.
CommitCall(k) ==
    LET c == call[k]
        redeemed == IF c.redeem /\ c.read > 0 THEN c.read ELSE 0
        earned == IF c.canEarn THEN bought[c.sale].points ELSE 0
        new == IF earned > 0 THEN NewBalance(c.read, redeemed, earned) ELSE 0
    IN /\ c.at = "commit"
       /\ rows' = rows \o (IF redeemed > 0 THEN <<PointRow(c.sale, "redeem", -redeemed)>> ELSE <<>>)
                       \o (IF earned > 0 THEN <<PointRow(c.sale, "earn", earned)>> ELSE <<>>)
       /\ balance' = IF redeemed > 0 \/ earned > 0 THEN new ELSE balance
       /\ tier' = IF earned > 0 THEN TierFor(new) ELSE tier
       /\ adjusted' = (adjusted /\ earned = 0)
       /\ call' = [call EXCEPT ![k] = NoCall]
       /\ UNCHANGED <<bought, callsOverlap>>

\* An error rolls back; the callers only log it.
AbortCall(k) ==
    /\ call[k] # NoCall
    /\ call' = [call EXCEPT ![k] = NoCall]
    /\ UNCHANGED <<balance, tier, rows, bought, callsOverlap, adjusted>>

-----------------------------------------------------------------------------
(* The callers *)

ServerBusy(x) == \E k \in Running : call[k].sale = x

\* createOrder for cash; the webhook for QRIS.
Paid(k, x, method, points) ==
    /\ ~bought[x].server
    /\ bought' = [bought EXCEPT ![x].method = method, ![x].points = points, ![x].server = TRUE]
    /\ BeginCall(k, x, FALSE)
    /\ UNCHANGED <<balance, tier, rows, adjusted>>

\* The answer to a cash sale comes after the backend's call; a poll for a QRIS
\* payment may see it before.
TillCalls(k, x, redeem) ==
    /\ bought[x].server /\ ~bought[x].till
    /\ bought[x].method = "cash" => ~ServerBusy(x)
    /\ bought' = [bought EXCEPT ![x].till = TRUE]
    /\ BeginCall(k, x, redeem)
    /\ UNCHANGED <<balance, tier, rows, adjusted>>

\* Two minutes after a row was created.
RowAges(i) ==
    /\ rows[i].fresh
    /\ \A j \in 1..(i - 1) : ~rows[j].fresh
    /\ rows' = [rows EXCEPT ![i].fresh = FALSE]
    /\ UNCHANGED <<balance, tier, bought, call, callsOverlap, adjusted>>

\* admin_adjust_tier.
AdjustTier(t) ==
    /\ t # tier
    /\ tier' = t /\ adjusted' = TRUE
    /\ UNCHANGED <<balance, rows, bought, call, callsOverlap>>

PointsNext ==
    \/ \E k \in Calls : LookCooldown(k) \/ CommitCall(k) \/ AbortCall(k)
    \/ \E k \in Calls, x \in MemberSales :
          \/ \E m \in {"cash", "qris"}, p \in Earnings : Paid(k, x, m, p)
          \/ \E redeem \in BOOLEAN : TillCalls(k, x, redeem)
    \/ \E i \in DOMAIN rows : RowAges(i)
    \/ \E t \in Tiers : AdjustTier(t)

PointsSpec == PointsInit /\ [][PointsNext]_memberVars

-----------------------------------------------------------------------------
(* Properties *)

Total(s) == SumFunction([i \in DOMAIN s |-> s[i].points])

\* As long as the calls did not overlap, the balance is the sum of the rows.
BalanceIsItsRows == ~callsOverlap => balance = Total(rows)

\* Points are earned once in two minutes, so that the two calls of a sale earn
\* once if the till is quick, again as long as the calls did not overlap.
EarnsAreApart ==
    ~callsOverlap =>
       Cardinality({i \in DOMAIN rows : rows[i].type = "earn" /\ rows[i].fresh}) <= 1

\* A member is never below the tier of the points earned so far, unless an
\* admin said so.
TierIsEarned ==
    ~callsOverlap /\ ~adjusted => \A t \in Tiers : MinPoints[t] <= balance => t <= tier

\* Calls of process_points that do not overlap leave balance, rows and tier in
\* agreement.
PointsAreExplained == BalanceIsItsRows /\ EarnsAreApart /\ TierIsEarned
=============================================================================
