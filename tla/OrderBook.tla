------------------------------ MODULE OrderBook ------------------------------
(***************************************************************************)
(* What the order service promises of one day, whatever is retried,         *)
(* duplicated or interrupted: every cashier letter has a book to which a    *)
(* sale is appended at most once and is never moved again, so that the      *)
(* letter's order numbers are 1, 2, 3, ... in the order the sales were      *)
(* recorded; and a client is only ever told the place its sale has.         *)
(***************************************************************************)
EXTENDS Naturals, Sequences

CONSTANTS Uuids, Letters

VARIABLES
    book,     \* the sales recorded under each letter, oldest first
    receipts  \* the answers given to clients

vars == <<book, receipts>>

Recorded(u) == \E l \in Letters : \E n \in 1..Len(book[l]) : book[l][n] = u

Init ==
    /\ book = [l \in Letters |-> <<>>]
    /\ receipts = {}

Enter(l, u) ==
    /\ ~Recorded(u)
    /\ book' = [book EXCEPT ![l] = Append(@, u)]
    /\ UNCHANGED receipts

Answer(l, n) ==
    /\ n \in 1..Len(book[l])
    /\ receipts' = receipts \cup {[uuid |-> book[l][n], id |-> <<l, n>>]}
    /\ UNCHANGED book

Next ==
    \E l \in Letters :
        \/ \E u \in Uuids : Enter(l, u)
        \/ \E n \in 1..Len(book[l]) : Answer(l, n)

Spec == Init /\ [][Next]_vars
=============================================================================
