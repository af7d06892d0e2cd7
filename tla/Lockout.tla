--------------------------------- MODULE Lockout ---------------------------------
(***************************************************************************)
(* The lock after failed logins (login, validateAdminCredentials): a count    *)
(* and a lock on the user's row and on a row per address and browser, written *)
(* one await after the other by attempts that run side by side, each of which *)
(* may fail or die with the process; and the count the login page keeps for   *)
(* itself.                                                                    *)
(***************************************************************************)
EXTENDS Naturals, FiniteSets

CONSTANTS
    CashierUsers, AdminUsers,   \* users
    Addresses,          \* hashes of an address and a browser
    Logins,             \* attempts that may be under way
    Threshold,          \* LOCKOUT_THRESHOLD and MAX_PIN_ATTEMPTS (5 in the code)
    MaxCount            \* bound: failures counted

ASSUME LockoutAssumption == /\ Threshold \in Nat \ {0} /\ MaxCount \in Nat /\ MaxCount > Threshold
                            /\ CashierUsers \cap AdminUsers = {}

Users == CashierUsers \cup AdminUsers

VARIABLES
    userRow, addressRow, \* failed_login_count and locked_until
    attempt,             \* the attempts
    pageTries,           \* rate_limit of the login page, per address
    opened               \* users whose lock has ended, was lifted or could not be written
                         \* since the last failure

lockoutVars == <<userRow, addressRow, attempt, pageTries, opened>>

FailureRow == [count: 0..MaxCount, locked: BOOLEAN]
Zero == [count |-> 0, locked |-> FALSE]
NoAttempt == [at |-> "idle"]
Steps == {"user", "compare", "countUser", "lockUser", "countAddress", "lockAddress",
          "resetUser", "resetAddress", "welcome", "refused"}

LockoutTypeOK ==
    /\ userRow \in [Users -> FailureRow] /\ addressRow \in [Addresses -> FailureRow]
    /\ attempt \in [Logins -> {NoAttempt} \cup
          [at: Steps, user: Users, address: Addresses, weak: BOOLEAN,
           userOver: BOOLEAN, addressOver: BOOLEAN]]
    /\ pageTries \in [Addresses -> 0..Threshold] /\ opened \subseteq Users

LockoutInit ==
    /\ userRow = [u \in Users |-> Zero] /\ addressRow = [i \in Addresses |-> Zero]
    /\ attempt = [l \in Logins |-> NoAttempt]
    /\ pageTries = [i \in Addresses |-> 0] /\ opened = {}

-----------------------------------------------------------------------------
On(l, step) == attempt[l].at = step
Goes(l, step) == attempt' = [attempt EXCEPT ![l].at = step]

\* can_attempt_login: five failures close the page's form for 30 seconds.  An
\* admin's form does not count.  findIpLockout comes first.
Knock(l, u, i) ==
    /\ attempt[l] = NoAttempt
    /\ u \in CashierUsers => pageTries[i] < Threshold
    /\ ~addressRow[i].locked
    /\ userRow[u].count < MaxCount /\ addressRow[i].count < MaxCount
    /\ attempt' = [attempt EXCEPT ![l] =
          [at |-> "user", user |-> u, address |-> i, weak |-> FALSE,
           userOver |-> FALSE, addressOver |-> FALSE]]
    /\ UNCHANGED <<userRow, addressRow, pageTries, opened>>

FindUser(l) ==
    /\ On(l, "user")
    /\ Goes(l, IF userRow[attempt[l].user].locked THEN "refused" ELSE "compare")
    /\ UNCHANGED <<userRow, addressRow, pageTries, opened>>

\* bcrypt, or for an admin the rule of how strong a password is.
Compare(l, outcome) ==
    /\ On(l, "compare")
    /\ outcome = "weak" => attempt[l].user \in AdminUsers
    /\ attempt' = [attempt EXCEPT ![l].at = IF outcome = "right" THEN "resetUser" ELSE "countUser",
                                  ![l].weak = outcome = "weak"]
    /\ UNCHANGED <<userRow, addressRow, pageTries, opened>>

\* Variant: the row is locked after one failure too many.
Reached_Over(count) == count > Threshold

Reached(count) == count >= Threshold

\* login counts and locks the user before the address; validateAdminCredentials
\* counts both before it locks.  A weak password only counts.
AfterCountUser(a) == IF a.userOver /\ a.user \in CashierUsers THEN "lockUser" ELSE "countAddress"
LockTheAddress(a) == IF a.addressOver THEN "lockAddress" ELSE "refused"
AfterCountAddress(a) ==
    IF a.userOver /\ a.user \in AdminUsers THEN "lockUser" ELSE LockTheAddress(a)
AfterLockUser(a) == IF a.user \in CashierUsers THEN "countAddress" ELSE LockTheAddress(a)

\* The increment is one UPDATE, which answers with the new count.
CountUser(l) ==
    LET u == attempt[l].user n == userRow[u].count + 1
        counted == [attempt[l] EXCEPT !.userOver = ~attempt[l].weak /\ Reached(n)]
    IN  /\ On(l, "countUser") /\ n <= MaxCount
        /\ userRow' = [userRow EXCEPT ![u].count = n]
        /\ opened' = opened \ {u}
        /\ attempt' = [attempt EXCEPT ![l] = [counted EXCEPT !.at = AfterCountUser(counted)]]
        /\ UNCHANGED <<addressRow, pageTries>>

LockUser(l) ==
    /\ On(l, "lockUser")
    /\ userRow' = [userRow EXCEPT ![attempt[l].user].locked = TRUE]
    /\ Goes(l, AfterLockUser(attempt[l]))
    /\ UNCHANGED <<addressRow, pageTries, opened>>

CountAddress(l) ==
    LET i == attempt[l].address n == addressRow[i].count + 1
        counted == [attempt[l] EXCEPT !.addressOver = ~attempt[l].weak /\ Reached(n)]
    IN  /\ On(l, "countAddress") /\ n <= MaxCount
        /\ addressRow' = [addressRow EXCEPT ![i].count = n]
        /\ attempt' = [attempt EXCEPT ![l] = [counted EXCEPT !.at = AfterCountAddress(counted)]]
        /\ UNCHANGED <<userRow, pageTries, opened>>

LockAddress(l) ==
    /\ On(l, "lockAddress")
    /\ addressRow' = [addressRow EXCEPT ![attempt[l].address].locked = TRUE]
    /\ Goes(l, "refused")
    /\ UNCHANGED <<userRow, pageTries, opened>>

\* The right one sets count and lock back, a lock of the meantime included.
ResetUser(l) ==
    /\ On(l, "resetUser")
    /\ userRow' = [userRow EXCEPT ![attempt[l].user] = Zero]
    /\ opened' = opened \cup {attempt[l].user}
    /\ Goes(l, "resetAddress")
    /\ UNCHANGED <<addressRow, pageTries>>

ResetAddress(l) ==
    /\ On(l, "resetAddress")
    /\ addressRow' = [addressRow EXCEPT ![attempt[l].address] = Zero]
    /\ Goes(l, "welcome")
    /\ UNCHANGED <<userRow, pageTries, opened>>

\* A query fails, or the process dies: what is written stays, the rest is not done.
AttemptBreaks(l) ==
    /\ attempt[l].at \in Steps \ {"welcome", "refused"}
    /\ opened' = IF On(l, "lockUser") THEN opened \cup {attempt[l].user} ELSE opened
    /\ Goes(l, "refused")
    /\ UNCHANGED <<userRow, addressRow, pageTries>>

\* record_failed_attempt, for whatever is not a success, and reset_rate_limit; a lost
\* answer counts as neither.
PageHears(l, lost) ==
    LET i == attempt[l].address cashier == attempt[l].user \in CashierUsers
    IN  /\ attempt[l].at \in {"welcome", "refused"}
        /\ pageTries' = [pageTries EXCEPT ![i] =
               IF lost \/ ~cashier THEN @
               ELSE CASE On(l, "welcome") -> 0
                      [] OTHER -> IF @ < Threshold THEN @ + 1 ELSE @]
        /\ attempt' = [attempt EXCEPT ![l] = NoAttempt]
        /\ UNCHANGED <<userRow, addressRow, opened>>

\* The page's half minute has passed, or the page was loaded anew.
PageOpens(i) ==
    /\ pageTries[i] # 0 /\ pageTries' = [pageTries EXCEPT ![i] = 0]
    /\ UNCHANGED <<userRow, addressRow, attempt, opened>>

\* LOCKOUT_DURATION_MS is over: the count stays.
UserLockEnds(u) ==
    /\ userRow[u].locked /\ userRow' = [userRow EXCEPT ![u].locked = FALSE]
    /\ opened' = opened \cup {u}
    /\ UNCHANGED <<addressRow, attempt, pageTries>>

AddressLockEnds(i) ==
    /\ addressRow[i].locked /\ addressRow' = [addressRow EXCEPT ![i].locked = FALSE]
    /\ UNCHANGED <<userRow, attempt, pageTries, opened>>

\* resetCashierPin, by an admin: the new PIN comes with an open account.
ResetPin(u) ==
    /\ u \in CashierUsers /\ userRow[u] # Zero
    /\ userRow' = [userRow EXCEPT ![u] = Zero]
    /\ opened' = opened \cup {u}
    /\ UNCHANGED <<addressRow, attempt, pageTries>>

LockoutNext ==
    \/ \E l \in Logins :
          \/ \E u \in Users, i \in Addresses : Knock(l, u, i)
          \/ \E outcome \in {"right", "wrong", "weak"} : Compare(l, outcome)
          \/ FindUser(l) \/ CountUser(l) \/ LockUser(l) \/ CountAddress(l) \/ LockAddress(l)
          \/ ResetUser(l) \/ ResetAddress(l) \/ AttemptBreaks(l)
          \/ \E lost \in BOOLEAN : PageHears(l, lost)
    \/ \E i \in Addresses : PageOpens(i) \/ AddressLockEnds(i)
    \/ \E u \in Users : UserLockEnds(u) \/ ResetPin(u)

LockoutSpec == LockoutInit /\ [][LockoutNext]_lockoutVars

-----------------------------------------------------------------------------
(* Properties *)

\* When no attempt is under way, a cashier with as many failures as the limit is
\* locked, however the failures overlapped, unless the lock has ended since the
\* last one, a right PIN has lifted it, or the attempt that should have written it
\* broke off.  (The next failure writes it then.)
LimitLocks ==
    \A u \in CashierUsers :
       /\ userRow[u].count >= Threshold
       /\ \A l \in Logins : attempt[l] # NoAttempt => attempt[l].user # u
       => userRow[u].locked \/ u \in opened
=============================================================================
