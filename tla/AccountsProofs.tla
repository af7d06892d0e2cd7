----------------------------- MODULE AccountsProofs -----------------------------
(* What the ways in keep for any number of users, addresses, codes and requests: *)
(* the locks after failed logins, the codes by e-mail, the limit of requests, the *)
(* tokens and what ends them.                                                   *)
EXTENDS Lockout, Otp, RateLimits, Sessions, FiniteSetTheorems, TLAPS

-----------------------------------------------------------------------------
(* The lock after failed logins *)

Attempts == [at: Steps, user: Users, address: Addresses, weak: BOOLEAN,
             userOver: BOOLEAN, addressOver: BOOLEAN]

LEMMA AttemptUnderWay ==
    ASSUME LockoutTypeOK, NEW l \in Logins, attempt[l].at # "idle"
    PROVE  attempt[l] \in Attempts
BY DEF LockoutTypeOK, Attempts, NoAttempt

LEMMA LockoutTypeInit == LockoutInit => LockoutTypeOK
BY LockoutAssumption DEF LockoutInit, LockoutTypeOK, Zero, FailureRow

LEMMA LockoutTypeNext == LockoutTypeOK /\ [LockoutNext]_lockoutVars => LockoutTypeOK'
<1> SUFFICES ASSUME LockoutTypeOK, [LockoutNext]_lockoutVars PROVE LockoutTypeOK'
    OBVIOUS
<1> USE DEF LockoutTypeOK
<1>1. ASSUME NEW l \in Logins, NEW u \in Users, NEW i \in Addresses, Knock(l, u, i)
      PROVE  LockoutTypeOK'
    BY <1>1 DEF Knock, Steps
<1>2. ASSUME NEW l \in Logins, NEW outcome \in {"right", "wrong", "weak"}, Compare(l, outcome)
      PROVE  LockoutTypeOK'
  <2>1. attempt[l] \in Attempts
    BY <1>2, AttemptUnderWay DEF Compare, On
  <2>2. QED
    BY <1>2, <2>1 DEF Attempts, Compare, On, NoAttempt, Steps
<1>3. ASSUME NEW l \in Logins, FindUser(l) PROVE LockoutTypeOK'
  <2>1. attempt[l] \in Attempts
    BY <1>3, AttemptUnderWay DEF FindUser, On
  <2>2. QED
    BY <1>3, <2>1 DEF Attempts, FindUser, On, Goes, NoAttempt, Steps
<1>4. ASSUME NEW l \in Logins, CountUser(l) PROVE LockoutTypeOK'
  <2>1. attempt[l] \in Attempts
    BY <1>4, AttemptUnderWay DEF CountUser, On
  <2>2. QED
    <3> DEFINE n == userRow[attempt[l].user].count + 1
               counted == [attempt[l] EXCEPT !.userOver = ~attempt[l].weak /\ Reached(n)]
               next == [counted EXCEPT !.at = AfterCountUser(counted)]
    <3>1. n \in 0..MaxCount
      BY <1>4, <2>1, LockoutAssumption DEF CountUser, Attempts, FailureRow
    <3>2. next \in Attempts
      BY <2>1 DEF Attempts, AfterCountUser, Steps, Reached
    <3>3. userRow' \in [Users -> FailureRow]
      BY <1>4, <2>1, <3>1 DEF CountUser, Attempts, FailureRow
    <3>4. attempt' = [attempt EXCEPT ![l] = next]
      BY <1>4 DEF CountUser
    <3> HIDE DEF next
    <3>5. attempt' \in [Logins -> {NoAttempt} \cup Attempts]
      BY <3>2, <3>4 DEF Attempts
    <3>6. addressRow' = addressRow /\ pageTries' = pageTries /\ opened' \subseteq opened
      BY <1>4 DEF CountUser
    <3>7. QED
      BY <3>3, <3>5, <3>6 DEF Attempts
<1>5. ASSUME NEW l \in Logins, LockUser(l) PROVE LockoutTypeOK'
  <2>1. attempt[l] \in Attempts
    BY <1>5, AttemptUnderWay DEF LockUser, On
  <2>2. QED
    BY <1>5, <2>1 DEF Attempts, LockUser, On, Goes, NoAttempt, Steps, FailureRow, AfterLockUser, LockTheAddress
<1>6. ASSUME NEW l \in Logins, CountAddress(l) PROVE LockoutTypeOK'
  <2>1. attempt[l] \in Attempts
    BY <1>6, AttemptUnderWay DEF CountAddress, On
  <2>2. QED
    <3> DEFINE n == addressRow[attempt[l].address].count + 1
               counted == [attempt[l] EXCEPT !.addressOver = ~attempt[l].weak /\ Reached(n)]
               next == [counted EXCEPT !.at = AfterCountAddress(counted)]
    <3>1. n \in 0..MaxCount
      BY <1>6, <2>1, LockoutAssumption DEF CountAddress, Attempts, FailureRow
    <3>2. next \in Attempts
      BY <2>1 DEF Attempts, AfterCountAddress, LockTheAddress, Steps, Reached
    <3>3. addressRow' \in [Addresses -> FailureRow]
      BY <1>6, <2>1, <3>1 DEF CountAddress, Attempts, FailureRow
    <3>4. attempt' = [attempt EXCEPT ![l] = next]
      BY <1>6 DEF CountAddress
    <3> HIDE DEF next
    <3>5. attempt' \in [Logins -> {NoAttempt} \cup Attempts]
      BY <3>2, <3>4 DEF Attempts
    <3>6. userRow' = userRow /\ pageTries' = pageTries /\ opened' \subseteq opened
      BY <1>6 DEF CountAddress
    <3>7. QED
      BY <3>3, <3>5, <3>6 DEF Attempts
<1>7. ASSUME NEW l \in Logins, LockAddress(l) PROVE LockoutTypeOK'
  <2>1. attempt[l] \in Attempts
    BY <1>7, AttemptUnderWay DEF LockAddress, On
  <2>2. QED
    BY <1>7, <2>1 DEF Attempts, LockAddress, On, Goes, NoAttempt, Steps, FailureRow
<1>8. ASSUME NEW l \in Logins, ResetUser(l) PROVE LockoutTypeOK'
  <2>1. attempt[l] \in Attempts
    BY <1>8, AttemptUnderWay DEF ResetUser, On
  <2>2. QED
    BY <1>8, LockoutAssumption, <2>1 DEF Attempts, ResetUser, On, Goes, NoAttempt, Steps, FailureRow, Zero
<1>9. ASSUME NEW l \in Logins, ResetAddress(l) PROVE LockoutTypeOK'
  <2>1. attempt[l] \in Attempts
    BY <1>9, AttemptUnderWay DEF ResetAddress, On
  <2>2. QED
    BY <1>9, LockoutAssumption, <2>1 DEF Attempts, ResetAddress, On, Goes, NoAttempt, Steps, FailureRow, Zero
<1>10. ASSUME NEW l \in Logins, NEW lost \in BOOLEAN, PageHears(l, lost) PROVE LockoutTypeOK'
  <2>1. attempt[l] \in Attempts
    BY <1>10, AttemptUnderWay DEF PageHears, On
  <2>2. QED
    <3> DEFINE i == attempt[l].address
    <3>1. i \in Addresses
      BY <2>1 DEF Attempts
    <3>2. PICK n \in 0..Threshold : pageTries' = [pageTries EXCEPT ![i] = n]
      <4> DEFINE n == IF lost \/ ~(attempt[l].user \in CashierUsers) THEN pageTries[i]
                      ELSE CASE On(l, "welcome") -> 0
                             [] OTHER -> IF pageTries[i] < Threshold THEN pageTries[i] + 1
                                         ELSE pageTries[i]
      <4>1. n \in 0..Threshold
        BY <3>1, LockoutAssumption
      <4>2. pageTries' = [pageTries EXCEPT ![i] = n]
        BY <1>10 DEF PageHears
      <4> QED
        BY <4>1, <4>2
    <3>3. QED
      BY <1>10, <3>1, <3>2 DEF PageHears
<1>11. ASSUME NEW i \in Addresses, PageOpens(i) \/ AddressLockEnds(i) PROVE LockoutTypeOK'
  <2>1. CASE PageOpens(i)
    BY <2>1, LockoutAssumption DEF PageOpens
  <2>2. CASE AddressLockEnds(i)
    <3>1. addressRow' \in [Addresses -> FailureRow]
      BY <2>2 DEF AddressLockEnds, FailureRow
    <3>2. QED
      BY <2>2, <3>1 DEF AddressLockEnds
  <2>3. QED
    BY <1>11, <2>1, <2>2
<1>12. ASSUME NEW u \in Users, UserLockEnds(u) \/ ResetPin(u) PROVE LockoutTypeOK'
  <2>1. Zero \in FailureRow
    BY LockoutAssumption DEF Zero, FailureRow
  <2>2. CASE UserLockEnds(u)
    <3>1. userRow' \in [Users -> FailureRow]
      BY <2>2 DEF UserLockEnds, FailureRow
    <3>2. QED
      BY <2>2, <3>1 DEF UserLockEnds
  <2>3. CASE ResetPin(u)
    BY <2>1, <2>3 DEF ResetPin
  <2>4. QED
    BY <1>12, <2>2, <2>3
<1>13. ASSUME NEW l \in Logins, AttemptBreaks(l) PROVE LockoutTypeOK'
  <2>1. attempt[l] \in Attempts
    BY <1>13, AttemptUnderWay DEF AttemptBreaks, Steps
  <2>2. QED
    BY <1>13, <2>1 DEF Attempts, AttemptBreaks, On, Goes, NoAttempt, Steps
<1>14. CASE UNCHANGED lockoutVars
    BY <1>14 DEF lockoutVars
<1>15. QED
    BY <1>1, <1>2, <1>3, <1>4, <1>5, <1>6, <1>7, <1>8, <1>9, <1>10, <1>11, <1>12, <1>13, <1>14
    DEF LockoutNext

\* A password that is too weak is an admin's: a cashier's failure always counts
\* against the limit.
WeakIsAdmin ==
    \A l \in Logins : attempt[l].at # "idle" /\ attempt[l].weak => attempt[l].user \notin CashierUsers

\* Who has reached the limit is locked, or an attempt is about to write the lock.
CountedIsLocked ==
    \A u \in CashierUsers :
       userRow[u].count >= Threshold =>
          \/ userRow[u].locked \/ u \in opened
          \/ \E l \in Logins : attempt[l].at = "lockUser" /\ attempt[l].user = u

LockoutInv == LockoutTypeOK /\ WeakIsAdmin /\ CountedIsLocked

LEMMA LockoutInvInit == LockoutInit => LockoutInv
<1> SUFFICES ASSUME LockoutInit PROVE LockoutInv
    OBVIOUS
<1>1. WeakIsAdmin
    BY DEF LockoutInit, WeakIsAdmin, NoAttempt
<1>2. CountedIsLocked
    BY LockoutAssumption DEF LockoutInit, CountedIsLocked, Zero, Users
<1>3. QED
    BY <1>1, <1>2, LockoutTypeInit DEF LockoutInv

\* An attempt that is not about to write the lock moves on, and the row of its user
\* keeps count and lock: nothing changes for anybody.
LEMMA OthersStayLocked ==
    ASSUME LockoutInv, NEW l \in Logins, UNCHANGED <<userRow, opened>>,
           attempt[l].at # "lockUser", \A k \in Logins \ {l} : attempt'[k] = attempt[k]
    PROVE  CountedIsLocked'
BY DEF LockoutInv, CountedIsLocked

LEMMA LockoutInvNext == LockoutInv /\ [LockoutNext]_lockoutVars => LockoutInv'
<1> SUFFICES ASSUME LockoutInv, [LockoutNext]_lockoutVars PROVE LockoutInv'
    OBVIOUS
<1>0. LockoutTypeOK /\ LockoutTypeOK'
    BY LockoutTypeNext DEF LockoutInv
<1>1. ASSUME NEW l \in Logins, NEW u \in Users, NEW i \in Addresses, Knock(l, u, i)
      PROVE  WeakIsAdmin' /\ CountedIsLocked'
  <2>1. attempt[l] = NoAttempt /\ \A k \in Logins \ {l} : attempt'[k] = attempt[k]
    BY <1>0, <1>1 DEF Knock, LockoutTypeOK
  <2>2. CountedIsLocked'
    BY <1>1, <2>1, OthersStayLocked DEF Knock, NoAttempt
  <2>3. WeakIsAdmin'
    BY <1>0, <1>1 DEF Knock, WeakIsAdmin, LockoutInv, LockoutTypeOK
  <2>4. QED
    BY <2>2, <2>3
<1>2. ASSUME NEW l \in Logins, NEW outcome \in {"right", "wrong", "weak"}, Compare(l, outcome)
      PROVE  WeakIsAdmin' /\ CountedIsLocked'
  <2>1. attempt[l] \in Attempts
    BY <1>0, <1>2, AttemptUnderWay DEF Compare, On
  <2>2. CountedIsLocked'
    BY <1>0, <1>2, <2>1, OthersStayLocked DEF Compare, On, LockoutTypeOK, Attempts
  <2>3. WeakIsAdmin'
    BY <1>0, <1>2, <2>1, LockoutAssumption DEF Compare, WeakIsAdmin, LockoutInv, LockoutTypeOK, Attempts
  <2>4. QED
    BY <2>2, <2>3
<1>3. ASSUME NEW l \in Logins, FindUser(l) \/ CountAddress(l) \/ LockAddress(l) \/ ResetAddress(l)
      PROVE  WeakIsAdmin' /\ CountedIsLocked'
  <2>1. attempt[l] \in Attempts /\ attempt[l].at # "lockUser"
    BY <1>0, <1>3, AttemptUnderWay DEF FindUser, CountAddress, LockAddress, ResetAddress, On
  <2>2. /\ UNCHANGED <<userRow, opened>>
        /\ \A k \in Logins \ {l} : attempt'[k] = attempt[k]
        /\ attempt'[l].user = attempt[l].user /\ attempt'[l].weak = attempt[l].weak
    <3>1. CASE FindUser(l)
      BY <1>0, <2>1, <3>1 DEF FindUser, Goes, LockoutTypeOK, Attempts
    <3>2. CASE CountAddress(l)
      BY <1>0, <2>1, <3>2 DEF CountAddress, LockoutTypeOK, Attempts
    <3>3. CASE LockAddress(l) \/ ResetAddress(l)
      BY <1>0, <2>1, <3>3 DEF LockAddress, ResetAddress, Goes, LockoutTypeOK, Attempts
    <3>4. QED
      BY <1>3, <3>1, <3>2, <3>3
  <2>3. CountedIsLocked'
    BY <2>1, <2>2, OthersStayLocked
  <2>4. WeakIsAdmin'
    BY <2>1, <2>2 DEF WeakIsAdmin, LockoutInv, Attempts, Steps
  <2>5. QED
    BY <2>3, <2>4
<1>4. ASSUME NEW l \in Logins, CountUser(l) PROVE WeakIsAdmin' /\ CountedIsLocked'
  <2> DEFINE u == attempt[l].user
  <2>1. attempt[l] \in Attempts /\ attempt[l].at = "countUser"
    BY <1>0, <1>4, AttemptUnderWay DEF CountUser, On
  <2>a. attempt' = [attempt EXCEPT ![l] =
                       [attempt[l] EXCEPT !.userOver = ~attempt[l].weak
                                             /\ Reached(userRow[u].count + 1),
                                          !.at = attempt'[l].at]]
    BY <1>0, <1>4, <2>1 DEF CountUser, LockoutTypeOK, Attempts
  <2>2. /\ \A k \in Logins \ {l} : attempt'[k] = attempt[k]
        /\ attempt'[l].user = u /\ attempt'[l].weak = attempt[l].weak
    BY <1>0, <2>a, <2>1 DEF LockoutTypeOK, Attempts
  <2>3. WeakIsAdmin'
    BY <2>1, <2>2 DEF WeakIsAdmin, LockoutInv, Attempts, Steps
  <2>4. u \in CashierUsers /\ userRow'[u].count >= Threshold => attempt'[l].at = "lockUser"
    <3>1. userRow'[u].count = userRow[u].count + 1
      BY <1>0, <1>4, <2>1 DEF CountUser, LockoutTypeOK, Attempts, FailureRow
    <3>2. u \in CashierUsers => ~attempt[l].weak
      BY <2>1 DEF LockoutInv, WeakIsAdmin
    <3>3. attempt'[l].at = IF ~attempt[l].weak /\ Reached(userRow[u].count + 1) /\ u \in CashierUsers
                           THEN "lockUser" ELSE "countAddress"
      BY <1>0, <1>4, <2>1 DEF CountUser, LockoutTypeOK, Attempts, AfterCountUser
    <3>4. QED
      BY <3>1, <3>2, <3>3 DEF Reached
  <2>5. \A w \in Users \ {u} : userRow'[w] = userRow[w] /\ (w \in opened' <=> w \in opened)
    BY <1>0, <1>4 DEF CountUser, LockoutTypeOK
  <2>6. CountedIsLocked'
    BY <2>1, <2>2, <2>4, <2>5 DEF CountedIsLocked, LockoutInv, Users
  <2>7. QED
    BY <2>3, <2>6
<1>5. ASSUME NEW l \in Logins, LockUser(l) PROVE WeakIsAdmin' /\ CountedIsLocked'
  <2> DEFINE u == attempt[l].user
  <2>1. attempt[l] \in Attempts /\ attempt[l].at = "lockUser"
    BY <1>0, <1>5, AttemptUnderWay DEF LockUser, On
  <2>2. /\ \A k \in Logins \ {l} : attempt'[k] = attempt[k]
        /\ attempt'[l].user = u /\ attempt'[l].weak = attempt[l].weak
        /\ UNCHANGED opened
    BY <1>0, <1>5, <2>1 DEF LockUser, Goes, LockoutTypeOK, Attempts
  <2>3. /\ userRow'[u].locked /\ \A w \in Users \ {u} : userRow'[w] = userRow[w]
    BY <1>0, <1>5, <2>1 DEF LockUser, LockoutTypeOK, Attempts, FailureRow
  <2>4. WeakIsAdmin'
    BY <2>1, <2>2 DEF WeakIsAdmin, LockoutInv, Attempts, Steps
  <2>5. CountedIsLocked'
    BY <2>1, <2>2, <2>3 DEF CountedIsLocked, LockoutInv, Users
  <2>6. QED
    BY <2>4, <2>5
<1>6. ASSUME NEW l \in Logins, ResetUser(l) PROVE WeakIsAdmin' /\ CountedIsLocked'
  <2> DEFINE u == attempt[l].user
  <2>1. attempt[l] \in Attempts /\ attempt[l].at = "resetUser"
    BY <1>0, <1>6, AttemptUnderWay DEF ResetUser, On
  <2>2. /\ \A k \in Logins \ {l} : attempt'[k] = attempt[k]
        /\ attempt'[l].user = u /\ attempt'[l].weak = attempt[l].weak
        /\ opened' = opened \cup {u} /\ \A w \in Users \ {u} : userRow'[w] = userRow[w]
    BY <1>0, <1>6, <2>1 DEF ResetUser, Goes, LockoutTypeOK, Attempts
  <2>3. WeakIsAdmin'
    BY <2>1, <2>2 DEF WeakIsAdmin, LockoutInv, Attempts, Steps
  <2>4. CountedIsLocked'
    BY <2>1, <2>2 DEF CountedIsLocked, LockoutInv, Users
  <2>5. QED
    BY <2>3, <2>4
<1>7. ASSUME NEW l \in Logins, NEW lost \in BOOLEAN, PageHears(l, lost)
      PROVE  WeakIsAdmin' /\ CountedIsLocked'
  <2>1. /\ attempt[l].at # "lockUser" /\ UNCHANGED <<userRow, opened>>
        /\ attempt'[l] = NoAttempt /\ \A k \in Logins \ {l} : attempt'[k] = attempt[k]
    BY <1>0, <1>7 DEF PageHears, LockoutTypeOK
  <2>2. QED
    BY <2>1, OthersStayLocked DEF WeakIsAdmin, LockoutInv, NoAttempt
<1>8. ASSUME UNCHANGED attempt,
             \A u \in CashierUsers :
                \/ u \in opened'
                \/ userRow'[u] = userRow[u] /\ (u \in opened' <=> u \in opened)
      PROVE  WeakIsAdmin' /\ CountedIsLocked'
    BY <1>8 DEF LockoutInv, WeakIsAdmin, CountedIsLocked
<1>9. ASSUME NEW i \in Addresses, PageOpens(i) \/ AddressLockEnds(i)
      PROVE  WeakIsAdmin' /\ CountedIsLocked'
    BY <1>8, <1>9 DEF PageOpens, AddressLockEnds
<1>10. ASSUME NEW u \in Users, UserLockEnds(u) \/ ResetPin(u) PROVE WeakIsAdmin' /\ CountedIsLocked'
  <2>1. /\ UNCHANGED attempt /\ u \in opened'
        /\ \A w \in Users \ {u} : userRow'[w] = userRow[w] /\ (w \in opened' <=> w \in opened)
    BY <1>0, <1>10 DEF UserLockEnds, ResetPin, LockoutTypeOK
  <2>2. QED
    BY <1>8, <2>1 DEF Users
<1>11. ASSUME UNCHANGED lockoutVars PROVE WeakIsAdmin' /\ CountedIsLocked'
  <2>1. UNCHANGED <<attempt, userRow, opened>>
    BY <1>11 DEF lockoutVars
  <2>2. QED
    BY <1>8, <2>1
<1>12. ASSUME NEW l \in Logins, AttemptBreaks(l) PROVE WeakIsAdmin' /\ CountedIsLocked'
  <2> DEFINE u == attempt[l].user
  <2>1. attempt[l] \in Attempts
    BY <1>0, <1>12, AttemptUnderWay DEF AttemptBreaks, Steps
  <2>2. /\ \A k \in Logins \ {l} : attempt'[k] = attempt[k]
        /\ attempt'[l].user = u /\ attempt'[l].weak = attempt[l].weak
        /\ userRow' = userRow /\ opened \subseteq opened'
        /\ attempt[l].at = "lockUser" => u \in opened'
    BY <1>0, <1>12, <2>1 DEF AttemptBreaks, Goes, On, LockoutTypeOK, Attempts
  <2>3. attempt[l].at # "idle"
    BY <2>1 DEF Attempts, Steps
  <2>4. WeakIsAdmin'
    BY <2>1, <2>2, <2>3 DEF WeakIsAdmin, LockoutInv
  <2>5. CountedIsLocked'
    BY <2>1, <2>2 DEF CountedIsLocked, LockoutInv
  <2>6. QED
    BY <2>4, <2>5
<1>13. WeakIsAdmin' /\ CountedIsLocked'
    BY <1>1, <1>2, <1>3, <1>4, <1>5, <1>6, <1>7, <1>9, <1>10, <1>11, <1>12 DEF LockoutNext
<1>14. QED
    BY <1>0, <1>13 DEF LockoutInv

\* A cashier who has failed as often as the limit is locked (Reached), however the
\* attempts overlapped, unless the lock has ended, was lifted or could not be written
\* since, for any number of users, addresses and attempts.
THEOREM LocksAfterFailures == LockoutSpec => [](LockoutTypeOK /\ LimitLocks)
<1>1. LockoutInv => LockoutTypeOK /\ LimitLocks
  <2> SUFFICES ASSUME LockoutInv, NEW u \in CashierUsers, userRow[u].count >= Threshold,
                      \A l \in Logins : attempt[l] # NoAttempt => attempt[l].user # u
               PROVE  userRow[u].locked \/ u \in opened
    BY DEF LockoutInv, LimitLocks
  <2>1. QED
    BY DEF LockoutInv, CountedIsLocked, NoAttempt
<1>2. QED
    BY <1>1, LockoutInvInit, LockoutInvNext, PTL DEF LockoutSpec

-----------------------------------------------------------------------------
(* The codes by e-mail *)

LEMMA ZeroIsNoCode == 0 \notin Codes /\ Codes \subseteq Nat
BY OtpAssumption DEF Codes

LEMMA NoneIsTyped == NoCode \in KeptCode /\ NoCheck \in CheckRow /\ NoSend \in SendRow
BY DEF NoCode, NoCheck, NoSend, KeptCode, CheckRow, SendRow, Looking, OTP_MAX_ATTEMPTS

LEMMA CheckMoves ==
    ASSUME OtpTypeOK, NEW v \in Checks, NEW step \in Looking \cup Refusing \cup Accepting
    PROVE  [check EXCEPT ![v].at = step] \in [Checks -> CheckRow]
BY DEF OtpTypeOK, CheckRow

LEMMA SendMoves ==
    ASSUME OtpTypeOK, NEW q \in Senders, NEW step \in {"idle", "code", "email", "cool", "mail"}
    PROVE  [sender EXCEPT ![q].at = step] \in [Senders -> SendRow]
BY DEF OtpTypeOK, SendRow

LEMMA OtpTypeInit == OtpInit => OtpTypeOK
BY NoneIsTyped DEF OtpInit, OtpTypeOK

\* A refusal is counted and its verification over.
LEMMA RefusedTypes ==
    ASSUME OtpTypeOK, NEW v \in Checks, Refused(v)
    PROVE  refusals' \in [Codes -> Nat] /\ check' \in [Checks -> CheckRow]
<1>1. \A n \in Nat : UpTo(OTP_MAX_ATTEMPTS + 1, n) \in Nat
    BY DEF UpTo
<1>2. refusals' \in [Codes -> Nat]
    BY <1>1 DEF Refused, OtpTypeOK
<1>3. QED
    BY <1>2, NoneIsTyped DEF Refused, OtpTypeOK

\* A verification has read a code from its comparison on, and writes back what is not
\* the third refusal.
RowsFit ==
    \A v \in Checks :
       /\ check[v].at \in Looking <=> check[v].code = 0
       /\ check[v].at = "keep" => Tried(check[v]) < OTP_MAX_ATTEMPTS

LEMMA OtpTypeNext == OtpTypeOK /\ RowsFit /\ [OtpNext]_otpVars => OtpTypeOK'
<1> SUFFICES ASSUME OtpTypeOK, RowsFit, [OtpNext]_otpVars PROVE OtpTypeOK'
    OBVIOUS
<1>0. Store \in Stores
    BY DEF Store, Stores
<1> USE NoneIsTyped, <1>0 DEF OtpTypeOK, sendOnly, checkOnly
<1>1. ASSUME NEW q \in Senders, AskForCode(q) PROVE OtpTypeOK'
    BY <1>1, SendMoves DEF AskForCode, SendGoes
<1>2. ASSUME NEW q \in Senders, NEW c \in Codes, SetCode(q, c) PROVE OtpTypeOK'
  <2>1. [code |-> c, attempts |-> 0] \in KeptCode /\ [at |-> "email", code |-> c] \in SendRow
    BY DEF KeptCode, SendRow, OTP_MAX_ATTEMPTS
  <2>2. QED
    BY <1>2, <2>1 DEF SetCode
<1>3. ASSUME NEW q \in Senders, SetEmail(q) \/ SetCooling(q) PROVE OtpTypeOK'
    BY <1>3, SendMoves DEF SetEmail, SetCooling, SendGoes
<1>4. ASSUME NEW q \in Senders, NEW sent \in BOOLEAN, MailCode(q, sent) PROVE OtpTypeOK'
    BY <1>4 DEF MailCode
<1>5. ASSUME NEW v \in Checks, ReadEmail(v) \/ ReadLockout(v) PROVE OtpTypeOK'
  <2>1. PICK step \in {"idle", "lockout", "code"} : check' = [check EXCEPT ![v].at = step]
    BY <1>5 DEF ReadEmail, ReadLockout, CheckGoes
  <2>2. step \in Looking \cup Refusing \cup Accepting
    BY DEF Looking
  <2>3. check' \in [Checks -> CheckRow]
    BY <2>1, <2>2, CheckMoves
  <2>4. QED
    BY <1>5, <2>3 DEF ReadEmail, ReadLockout
<1>6. ASSUME NEW v \in Checks, NEW guess \in Codes \cup {0}, ReadCode(v, guess) PROVE OtpTypeOK'
  <2>1. kept[Store] \in KeptCode
    OBVIOUS
  <2>2. PICK row \in CheckRow : check' = [check EXCEPT ![v] = row]
    <3> DEFINE step == IF guess = kept[Store].code THEN "useCode"
                       ELSE IF Tried(kept[Store]) >= OTP_MAX_ATTEMPTS THEN "lock" ELSE "keep"
               row == IF kept[Store].code = 0 THEN NoCheck
                      ELSE [at |-> step, code |-> kept[Store].code, attempts |-> kept[Store].attempts]
    <3>1. row \in CheckRow
      BY <2>1 DEF CheckRow, KeptCode, Refusing, Accepting
    <3>2. check' = [check EXCEPT ![v] = row]
      BY <1>6 DEF ReadCode
    <3>3. QED
      BY <3>1, <3>2
  <2>3. racing' \subseteq Codes
    BY <1>6, <2>1 DEF ReadCode, KeptCode
  <2>4. QED
    BY <1>6, <2>2, <2>3 DEF ReadCode
<1>7. ASSUME NEW v \in Checks, KeepCode(v) PROVE OtpTypeOK'
  <2>1. check[v] \in CheckRow
    OBVIOUS
  <2>2. kept' \in [Stores -> KeptCode]
    <3>1. Tried(check[v]) \in 0..(OTP_MAX_ATTEMPTS - 1)
      BY <1>7, <2>1 DEF KeepCode, RowsFit, CheckRow, Tried, OTP_MAX_ATTEMPTS
    <3>2. [code |-> check[v].code, attempts |-> Tried(check[v])] \in KeptCode
      BY <2>1, <3>1 DEF KeptCode, CheckRow
    <3>3. QED
      BY <1>7, <3>2 DEF KeepCode
  <2>3. QED
    BY <1>7, <2>2, RefusedTypes DEF KeepCode
<1>8. ASSUME NEW v \in Checks, LockOut(v) \/ DeleteCode(v) \/ DeleteLockout(v) PROVE OtpTypeOK'
  <2>1. {"lockCode", "lockEmail", "useEmail", "enter"} \subseteq Looking \cup Refusing \cup Accepting
    BY DEF Refusing, Accepting
  <2>2. QED
    BY <1>8, <2>1, CheckMoves DEF LockOut, DeleteCode, DeleteLockout, CheckGoes
<1>9. ASSUME NEW v \in Checks, DeleteEmail(v) PROVE OtpTypeOK'
  <2>1. "useLockout" \in Looking \cup Refusing \cup Accepting
    BY DEF Accepting
  <2>2. QED
    BY <1>9, <2>1, CheckMoves, RefusedTypes DEF DeleteEmail, CheckGoes
<1>10. ASSUME NEW v \in Checks, NEW succeed \in BOOLEAN, Enter(v, succeed) PROVE OtpTypeOK'
  <2>1. \A n \in Nat : UpTo(2, n) \in Nat
    BY DEF UpTo
  <2>2. accepted' \in [Codes -> Nat]
    BY <1>10, <2>1 DEF Enter
  <2>3. QED
    BY <1>10, <2>2 DEF Enter
<1>11. ASSUME NEW s \in Stores, CodeExpires(s) \/ EntryExpires(s) PROVE OtpTypeOK'
    BY <1>11 DEF CodeExpires, EntryExpires
<1>12. CASE OtpRedisChanges
  <2>1. \A v \in Checks : check[v].code \in Codes \cup {0}
    BY DEF CheckRow
  <2>2. racing' \subseteq Codes
    BY <1>12, <2>1 DEF OtpRedisChanges
  <2>3. QED
    BY <1>12, <2>2 DEF OtpRedisChanges
<1>13. CASE OtpRestart
    BY <1>13 DEF OtpRestart
<1>14. CASE UNCHANGED otpVars
    BY <1>14 DEF otpVars
<1>15. QED
    BY <1>1, <1>2, <1>3, <1>4, <1>5, <1>6, <1>7, <1>8, <1>9, <1>10, <1>11, <1>12, <1>13, <1>14
    DEF OtpNext

\* The rows of a step: the verification's own, and nobody else's.
LEMMA OneRowMoves ==
    ASSUME OtpTypeOK, NEW v \in Checks, NEW step, CheckGoes(v, step)
    PROVE  /\ check'[v].at = step /\ check'[v].code = check[v].code
           /\ check'[v].attempts = check[v].attempts
           /\ \A w \in Checks \ {v} : check'[w] = check[w]
BY DEF OtpTypeOK, CheckRow, CheckGoes

LEMMA OneRowEnds ==
    ASSUME OtpTypeOK, NEW v \in Checks, check' = [check EXCEPT ![v] = NoCheck]
    PROVE  /\ check'[v].at = "idle" /\ check'[v].code = 0
           /\ \A w \in Checks \ {v} : check'[w] = check[w]
BY DEF OtpTypeOK, NoCheck

LEMMA RowsFitNext == OtpTypeOK /\ RowsFit /\ [OtpNext]_otpVars => RowsFit'
<1> SUFFICES ASSUME OtpTypeOK, RowsFit, [OtpNext]_otpVars PROVE RowsFit'
    OBVIOUS
<1> USE DEF RowsFit, Looking
<1>1. ASSUME UNCHANGED check PROVE RowsFit'
    BY <1>1 DEF Tried
<1>2. ASSUME NEW v \in Checks, ReadEmail(v) \/ ReadLockout(v) PROVE RowsFit'
  <2>1. PICK step \in {"idle", "lockout", "code"} :
           check[v].at \in {"idle", "lockout"} /\ CheckGoes(v, step)
    BY <1>2 DEF ReadEmail, ReadLockout
  <2>2. QED
    BY <2>1, OneRowMoves DEF Tried
<1>3. ASSUME NEW v \in Checks, NEW guess \in Codes \cup {0}, ReadCode(v, guess) PROVE RowsFit'
  <2> DEFINE step == IF guess = kept[Store].code THEN "useCode"
                     ELSE IF Tried(kept[Store]) >= OTP_MAX_ATTEMPTS THEN "lock" ELSE "keep"
             row == IF kept[Store].code = 0 THEN NoCheck
                    ELSE [at |-> step, code |-> kept[Store].code, attempts |-> kept[Store].attempts]
  <2>1. check' = [check EXCEPT ![v] = row]
    BY <1>3 DEF ReadCode
  <2>2. Tried(kept[Store]) \in Nat
    BY DEF OtpTypeOK, KeptCode, Tried, Store, Stores, OTP_MAX_ATTEMPTS
  <2>3. /\ row.at \in Looking <=> row.code = 0
        /\ row.at = "keep" => Tried(row) < OTP_MAX_ATTEMPTS
    BY <2>2 DEF NoCheck, Tried, OTP_MAX_ATTEMPTS
  <2> HIDE DEF row
  <2>4. check'[v] = row /\ \A w \in Checks \ {v} : check'[w] = check[w]
    BY <2>1 DEF OtpTypeOK
  <2>5. QED
    BY <2>3, <2>4 DEF Tried
<1>4. ASSUME NEW v \in Checks, LockOut(v) \/ DeleteCode(v) \/ DeleteLockout(v) PROVE RowsFit'
  <2>1. PICK step \in {"lockCode", "lockEmail", "useEmail", "enter"} :
           check[v].at \notin Looking /\ CheckGoes(v, step)
    BY <1>4 DEF LockOut, DeleteCode, DeleteLockout
  <2>2. /\ check'[v].at = step /\ check'[v].code = check[v].code
        /\ \A w \in Checks \ {v} : check'[w] = check[w]
    BY <2>1, OneRowMoves
  <2>3. QED
    BY <2>1, <2>2 DEF Tried
<1>5. ASSUME NEW v \in Checks, check' = [check EXCEPT ![v] = NoCheck] PROVE RowsFit'
  <2>1. /\ check'[v].at = "idle" /\ check'[v].code = 0
        /\ \A w \in Checks \ {v} : check'[w] = check[w]
    BY <1>5, OneRowEnds
  <2>2. QED
    BY <2>1 DEF Tried
<1>6. ASSUME NEW v \in Checks, KeepCode(v) PROVE RowsFit'
    BY <1>5, <1>6 DEF KeepCode, Refused
<1>7. ASSUME NEW v \in Checks, NEW succeed \in BOOLEAN, Enter(v, succeed) PROVE RowsFit'
    BY <1>5, <1>7 DEF Enter
<1>8. ASSUME NEW v \in Checks, DeleteEmail(v) PROVE RowsFit'
  <2>1. CASE Refused(v)
    BY <1>5, <2>1 DEF Refused
  <2>2. CASE check[v].at = "useEmail" /\ CheckGoes(v, "useLockout")
    BY <2>2, OneRowMoves DEF Tried
  <2>3. QED
    BY <1>8, <2>1, <2>2 DEF DeleteEmail
<1>9. ASSUME OtpRestart PROVE RowsFit'
    BY <1>9 DEF OtpRestart, NoCheck
<1>10. ASSUME NEW q \in Senders,
              \/ AskForCode(q) \/ SetEmail(q) \/ SetCooling(q) \/ \E c \in Codes : SetCode(q, c)
              \/ \E sent \in BOOLEAN : MailCode(q, sent)
       PROVE  RowsFit'
    BY <1>1, <1>10 DEF AskForCode, SetEmail, SetCooling, SetCode, MailCode, sendOnly
<1>11. ASSUME NEW s \in Stores, CodeExpires(s) \/ EntryExpires(s) PROVE RowsFit'
    BY <1>1, <1>11 DEF CodeExpires, EntryExpires, sendOnly
<1>12. ASSUME OtpRedisChanges \/ UNCHANGED otpVars PROVE RowsFit'
    BY <1>1, <1>12 DEF OtpRedisChanges, otpVars
<1>13. QED
    BY <1>2, <1>3, <1>4, <1>6, <1>7, <1>8, <1>9, <1>10, <1>11, <1>12 DEF OtpNext

\* A code not yet drawn has no history, and no one has it.
DrawnOnce(c) ==
    mailed[c] = "undrawn" =>
       /\ accepted[c] = 0 /\ refusals[c] = 0 /\ \A s \in Stores : kept[s].code # c
       /\ \A v \in Checks : check[v].code # c

\* It is in one store, and the attempts kept with it are the times it was refused.
KeptIsCounted(c) ==
    /\ kept["redis"].code # c \/ kept["memory"].code # c
    /\ \A s \in Stores : kept[s].code = c => accepted[c] = 0 /\ refusals[c] = kept[s].attempts

\* One verification works on it, in the store it was read from, which does not have it
\* any more once the verification has deleted it.
CheckedIsCounted(c) ==
    /\ \A v, w \in Checks : check[v].code = c /\ check[w].code = c => v = w
    /\ \A v \in Checks : check[v].code = c =>
          /\ accepted[c] = 0 /\ refusals[c] = check[v].attempts
          /\ \A s \in Stores : kept[s].code = c =>
                s = Store /\ check[v].at \in {"keep", "lock", "lockCode", "useCode"}

Spent(c) == accepted[c] <= 1 /\ refusals[c] <= OTP_MAX_ATTEMPTS

CodeIsCounted(c) == DrawnOnce(c) /\ KeptIsCounted(c) /\ CheckedIsCounted(c) /\ Spent(c)

OtpInv == OtpTypeOK /\ RowsFit /\ \A c \in Codes \ racing : CodeIsCounted(c)

LEMMA OtpInvInit == OtpInit => OtpInv
<1> SUFFICES ASSUME OtpInit PROVE OtpInv
    OBVIOUS
<1>1. ASSUME NEW c \in Codes PROVE CodeIsCounted(c)
    BY ZeroIsNoCode DEF OtpInit, CodeIsCounted, DrawnOnce, KeptIsCounted, CheckedIsCounted, Spent,
             NoCode, NoCheck, Stores, OTP_MAX_ATTEMPTS
<1>2. RowsFit
    BY DEF OtpInit, RowsFit, NoCheck, Looking
<1>3. QED
    BY <1>1, <1>2, OtpTypeInit DEF OtpInv

LEMMA CodeIsCountedNext ==
    ASSUME OtpTypeOK, RowsFit, [OtpNext]_otpVars,
           NEW c \in Codes, c \notin racing, c \notin racing', CodeIsCounted(c)
    PROVE  CodeIsCounted(c)'
<1>0. c # 0 /\ Store \in Stores /\ Stores = {"redis", "memory"}
    BY ZeroIsNoCode DEF Store, Stores
<1>a. /\ kept \in [Stores -> KeptCode] /\ check \in [Checks -> CheckRow]
      /\ accepted \in [Codes -> Nat] /\ refusals \in [Codes -> Nat]
      /\ mailed \in [Codes -> {"undrawn", "lost", "sent"}]
    BY DEF OtpTypeOK
<1> USE DEF CodeIsCounted, DrawnOnce, KeptIsCounted, CheckedIsCounted, Spent
<1>1. ASSUME UNCHANGED <<check, accepted, refusals, otpRedisUp>>,
             \A s \in Stores : kept'[s] = kept[s] \/ kept'[s] = NoCode,
             mailed'[c] = "undrawn" => mailed[c] = "undrawn"
      PROVE  CodeIsCounted(c)'
    BY <1>0, <1>1 DEF NoCode, Store
<1>2. ASSUME NEW q \in Senders, AskForCode(q) \/ SetEmail(q) \/ SetCooling(q)
      PROVE  CodeIsCounted(c)'
    BY <1>1, <1>2 DEF AskForCode, SetEmail, SetCooling, sendOnly
<1>3. ASSUME NEW q \in Senders, NEW sent \in BOOLEAN, MailCode(q, sent) PROVE CodeIsCounted(c)'
  <2>1. mailed'[c] = mailed[c] \/ mailed'[c] = "sent"
    BY <1>3, <1>a DEF MailCode
  <2>2. QED
    BY <1>1, <1>3, <2>1 DEF MailCode, sendOnly
<1>4. ASSUME NEW q \in Senders, NEW d \in Codes, SetCode(q, d) PROVE CodeIsCounted(c)'
  <2>1. /\ kept'[Store] = [code |-> d, attempts |-> 0]
        /\ \A s \in Stores \ {Store} : kept'[s] = kept[s]
        /\ mailed[d] = "undrawn" /\ mailed'[d] = "lost"
        /\ \A e \in Codes \ {d} : mailed'[e] = mailed[e]
        /\ UNCHANGED <<check, accepted, refusals, otpRedisUp>>
    BY <1>0, <1>4, <1>a DEF SetCode, sendOnly
  <2>2. Store' = Store
    BY <2>1 DEF Store
  <2>3. CASE d = c
    BY <1>0, <2>1, <2>2, <2>3
  <2>4. CASE d # c
    BY <1>0, <2>1, <2>2, <2>4
  <2>5. QED
    BY <2>3, <2>4
<1>5. ASSUME NEW v \in Checks, ReadEmail(v) \/ ReadLockout(v) PROVE CodeIsCounted(c)'
  <2>1. PICK step : CheckGoes(v, step)
    BY <1>5 DEF ReadEmail, ReadLockout
  <2>2. check[v].code = 0 /\ UNCHANGED <<kept, accepted, refusals, mailed, otpRedisUp>>
    BY <1>5 DEF ReadEmail, ReadLockout, RowsFit, Looking, checkOnly
  <2>3. Store' = Store
    BY <2>2 DEF Store
  <2>4. QED
    BY <1>0, <2>1, <2>2, <2>3, OneRowMoves
<1>6. ASSUME NEW v \in Checks, NEW guess \in Codes \cup {0}, ReadCode(v, guess)
      PROVE  CodeIsCounted(c)'
  <2> DEFINE entry == kept[Store]
  <2>1. UNCHANGED <<kept, accepted, refusals, mailed, otpRedisUp>> /\ Store' = Store
    BY <1>6 DEF ReadCode, checkOnly, Store
  <2>2. \A w \in Checks \ {v} : check'[w] = check[w]
    BY <1>6, <1>a DEF ReadCode
  <2>3. CASE entry.code = c
    <3>1. \A w \in Checks : check[w].code # c
      BY <1>0, <1>6, <2>3 DEF ReadCode
    <3>2. /\ check'[v].code = c /\ check'[v].attempts = entry.attempts
          /\ check'[v].at \in {"useCode", "lock", "keep"}
      BY <1>0, <1>6, <1>a, <2>3 DEF ReadCode
    <3>3. accepted[c] = 0 /\ refusals[c] = entry.attempts
      BY <1>0, <2>3
    <3>4. \A s \in Stores : kept[s].code = c => s = Store
      BY <1>0, <2>3
    <3> HIDE DEF entry
    <3>5. CheckedIsCounted(c)'
      BY <2>1, <2>2, <3>1, <3>2, <3>3, <3>4
    <3>6. mailed[c] # "undrawn"
      BY <1>0, <2>3 DEF entry
    <3>7. QED
      BY <2>1, <3>5, <3>6
  <2>4. CASE entry.code # c
    <3>1. check'[v].code # c
      BY <1>0, <1>6, <1>a, <2>4 DEF ReadCode, NoCheck
    <3>2. QED
      BY <2>1, <2>2, <3>1
  <2>5. QED
    BY <2>3, <2>4
<1>7. ASSUME NEW v \in Checks, KeepCode(v) PROVE CodeIsCounted(c)'
  <2>1. /\ check[v].at = "keep" /\ UNCHANGED <<accepted, mailed, otpRedisUp>>
        /\ check[v].code \in Codes /\ Store' = Store /\ check[v].attempts \in Nat
    BY <1>7, <1>a DEF KeepCode, RowsFit, Looking, CheckRow, checkOnly, Store
  <2>2. /\ kept'[Store] = [code |-> check[v].code, attempts |-> Tried(check[v])]
        /\ \A s \in Stores \ {Store} : kept'[s] = kept[s]
    BY <1>0, <1>7, <1>a DEF KeepCode
  <2>3. /\ check'[v].code = 0 /\ \A w \in Checks \ {v} : check'[w] = check[w]
    BY <1>7, OneRowEnds DEF KeepCode, Refused
  <2>4. /\ refusals'[check[v].code] = UpTo(OTP_MAX_ATTEMPTS + 1, refusals[check[v].code])
        /\ \A e \in Codes \ {check[v].code} : refusals'[e] = refusals[e]
    BY <1>7, <1>a, <2>1 DEF KeepCode, Refused
  <2>5. CASE check[v].code = c
    <3>1. refusals[c] = check[v].attempts /\ accepted[c] = 0 /\ mailed[c] # "undrawn"
      BY <2>5
    <3>2. Tried(check[v]) < OTP_MAX_ATTEMPTS
      BY <2>1 DEF RowsFit
    <3>3. refusals'[c] = Tried(check[v])
      BY <2>1, <2>4, <2>5, <3>1, <3>2 DEF UpTo, Tried, OTP_MAX_ATTEMPTS
    <3>4. \A w \in Checks : check'[w].code # c
      BY <1>0, <2>3, <2>5
    <3>5. \A s \in Stores : kept'[s].code = c => s = Store
      BY <1>0, <2>2, <2>5
    <3>6. kept'[Store].code = c /\ kept'[Store].attempts = Tried(check[v])
      BY <2>2, <2>5
    <3>7. KeptIsCounted(c)'
      BY <1>0, <2>1, <3>1, <3>3, <3>5, <3>6
    <3>8. Spent(c)'
      BY <2>1, <3>1, <3>2, <3>3 DEF Tried, OTP_MAX_ATTEMPTS
    <3>9. QED
      BY <2>1, <3>1, <3>4, <3>7, <3>8
  <2>6. CASE check[v].code # c
    BY <1>0, <2>1, <2>2, <2>3, <2>4, <2>6
  <2>7. QED
    BY <2>5, <2>6
<1>8. ASSUME NEW v \in Checks, LockOut(v) PROVE CodeIsCounted(c)'
  <2>1. /\ check[v].at = "lock" /\ CheckGoes(v, "lockCode") /\ Store' = Store
        /\ UNCHANGED <<kept, accepted, refusals, mailed, otpRedisUp>>
    BY <1>8 DEF LockOut, checkOnly, Store
  <2>2. QED
    BY <2>1, OneRowMoves
<1>9. ASSUME NEW v \in Checks, DeleteCode(v) PROVE CodeIsCounted(c)'
  <2>1. PICK step : CheckGoes(v, step)
    BY <1>9 DEF DeleteCode
  <2>2. /\ kept'[Store] = NoCode /\ \A s \in Stores \ {Store} : kept'[s] = kept[s]
        /\ UNCHANGED <<accepted, refusals, mailed, otpRedisUp>> /\ Store' = Store
    BY <1>0, <1>9, <1>a DEF DeleteCode, checkOnly, Store
  <2>3. \A s \in Stores : kept'[s].code = c => s # Store /\ kept[s].code = c
    BY <1>0, <2>2 DEF NoCode
  <2>4. /\ check'[v].code = check[v].code /\ check'[v].attempts = check[v].attempts
        /\ \A w \in Checks \ {v} : check'[w] = check[w]
    BY <2>1, OneRowMoves
  <2>5. KeptIsCounted(c)'
    BY <1>0, <2>2, <2>3
  <2>6. DrawnOnce(c)' /\ Spent(c)'
    BY <2>2, <2>3, <2>4
  <2>7. CheckedIsCounted(c)'
    BY <2>2, <2>3, <2>4
  <2>8. QED
    BY <2>5, <2>6, <2>7
<1>10. ASSUME NEW v \in Checks, DeleteLockout(v) PROVE CodeIsCounted(c)'
  <2>1. /\ check[v].at = "useLockout" /\ CheckGoes(v, "enter") /\ Store' = Store
        /\ UNCHANGED <<kept, accepted, refusals, mailed, otpRedisUp>>
    BY <1>10 DEF DeleteLockout, checkOnly, Store
  <2>2. QED
    BY <2>1, OneRowMoves
<1>11. ASSUME NEW v \in Checks, DeleteEmail(v) PROVE CodeIsCounted(c)'
  <2>1. UNCHANGED <<kept, accepted, mailed, otpRedisUp>> /\ Store' = Store
    BY <1>11 DEF DeleteEmail, checkOnly, Store
  <2>2. CASE check[v].at = "useEmail" /\ CheckGoes(v, "useLockout") /\ UNCHANGED refusals
    BY <2>1, <2>2, OneRowMoves
  <2>3. CASE check[v].at = "lockEmail" /\ Refused(v)
    <3>1. /\ check'[v].code = 0 /\ \A w \in Checks \ {v} : check'[w] = check[w]
      BY <2>3, OneRowEnds DEF Refused
    <3>2. check[v].code \in Codes /\ check[v].attempts \in 0..2
      BY <1>a, <2>3 DEF RowsFit, Looking, CheckRow, OTP_MAX_ATTEMPTS
    <3>3. /\ refusals'[check[v].code] = UpTo(OTP_MAX_ATTEMPTS + 1, refusals[check[v].code])
          /\ \A e \in Codes \ {check[v].code} : refusals'[e] = refusals[e]
      BY <1>a, <2>3, <3>2 DEF Refused
    <3>4. CASE check[v].code = c
      <4>1. /\ refusals[c] = check[v].attempts /\ accepted[c] = 0 /\ mailed[c] # "undrawn"
            /\ \A s \in Stores : kept[s].code # c
        BY <2>3, <3>4
      <4>2. refusals'[c] <= OTP_MAX_ATTEMPTS
        BY <3>2, <3>3, <3>4, <4>1 DEF UpTo, OTP_MAX_ATTEMPTS
      <4>3. \A w \in Checks : check'[w].code # c
        BY <1>0, <3>1, <3>4
      <4>4. QED
        BY <2>1, <4>1, <4>2, <4>3
    <3>5. CASE check[v].code # c
      BY <1>0, <2>1, <3>1, <3>3, <3>5
    <3>6. QED
      BY <3>4, <3>5
  <2>4. QED
    BY <1>11, <2>2, <2>3 DEF DeleteEmail
<1>12. ASSUME NEW v \in Checks, NEW succeed \in BOOLEAN, Enter(v, succeed) PROVE CodeIsCounted(c)'
  <2>1. /\ check[v].at = "enter" /\ UNCHANGED <<kept, refusals, mailed, otpRedisUp>>
        /\ check[v].code \in Codes /\ Store' = Store
    BY <1>12, <1>a DEF Enter, RowsFit, Looking, CheckRow, checkOnly, Store
  <2>2. /\ check'[v].code = 0 /\ \A w \in Checks \ {v} : check'[w] = check[w]
    BY <1>12, OneRowEnds DEF Enter
  <2>3. /\ accepted'[check[v].code] \in {accepted[check[v].code], UpTo(2, accepted[check[v].code])}
        /\ \A e \in Codes \ {check[v].code} : accepted'[e] = accepted[e]
    BY <1>12, <1>a, <2>1 DEF Enter
  <2>4. CASE check[v].code = c
    <3>1. /\ accepted[c] = 0 /\ mailed[c] # "undrawn" /\ \A s \in Stores : kept[s].code # c
      BY <2>1, <2>4
    <3>2. accepted'[c] <= 1
      BY <2>3, <2>4, <3>1 DEF UpTo
    <3>3. \A w \in Checks : check'[w].code # c
      BY <1>0, <2>2, <2>4
    <3>4. QED
      BY <2>1, <3>1, <3>2, <3>3
  <2>5. CASE check[v].code # c
    BY <1>0, <2>1, <2>2, <2>3, <2>5
  <2>6. QED
    BY <2>4, <2>5
<1>13. ASSUME NEW s \in Stores, CodeExpires(s) PROVE CodeIsCounted(c)'
  <2>1. \A r \in Stores : kept'[r] = kept[r] \/ kept'[r] = NoCode
    BY <1>13, <1>a DEF CodeExpires
  <2>2. QED
    BY <1>1, <1>13, <2>1 DEF CodeExpires, sendOnly, checkOnly
<1>14. ASSUME NEW s \in Stores, EntryExpires(s) PROVE CodeIsCounted(c)'
    BY <1>1, <1>14 DEF EntryExpires, sendOnly
<1>15. ASSUME OtpRedisChanges PROVE CodeIsCounted(c)'
  <2>1. \A v \in Checks : check[v].code # c
    BY <1>0, <1>15 DEF OtpRedisChanges
  <2>2. UNCHANGED <<kept, check, accepted, refusals, mailed>>
    BY <1>15 DEF OtpRedisChanges
  <2>3. QED
    BY <2>1, <2>2
<1>16. ASSUME OtpRestart PROVE CodeIsCounted(c)'
  <2>1. /\ \A s \in Stores : kept'[s] = kept[s] \/ kept'[s] = NoCode
        /\ UNCHANGED <<accepted, refusals, mailed>>
    BY <1>0, <1>16, <1>a DEF OtpRestart
  <2>2. \A v \in Checks : check'[v].code # c
    BY <1>0, <1>16 DEF OtpRestart, NoCheck
  <2>3. QED
    BY <1>0, <2>1, <2>2 DEF NoCode
<1>17. ASSUME UNCHANGED otpVars PROVE CodeIsCounted(c)'
    BY <1>1, <1>17 DEF otpVars
<1>18. QED
    BY <1>2, <1>3, <1>4, <1>5, <1>6, <1>7, <1>8, <1>9, <1>10, <1>11, <1>12, <1>13, <1>14, <1>15,
       <1>16, <1>17 DEF OtpNext

LEMMA OtpInvNext == OtpInv /\ [OtpNext]_otpVars => OtpInv'
<1> SUFFICES ASSUME OtpInv, [OtpNext]_otpVars PROVE OtpInv'
    OBVIOUS
<1>1. racing \subseteq racing'
    BY DEF OtpNext, otpVars, sendOnly, AskForCode, SetCode, SetEmail, SetCooling, MailCode,
           ReadEmail, ReadLockout, ReadCode, KeepCode, LockOut, DeleteCode, DeleteEmail,
           DeleteLockout, Enter, CodeExpires, EntryExpires, OtpRedisChanges, OtpRestart
<1>2. \A c \in Codes \ racing' : CodeIsCounted(c)'
    BY <1>1, CodeIsCountedNext DEF OtpInv
<1>3. QED
    BY <1>2, OtpTypeNext, RowsFitNext DEF OtpInv

\* A code lets one in once and is refused three times at most (verifyOtp), for any
\* number of codes, requests and verifications an await at a time, whatever the process
\* dies over: unless two verifications had read the code at one time, or the store was
\* exchanged under one.
THEOREM CodesAreSpent == OtpSpec => [](OtpTypeOK /\ CodeIsUsedOnce /\ ThreeTries)
<1>1. OtpInv => OtpTypeOK /\ CodeIsUsedOnce /\ ThreeTries
    BY DEF OtpInv, CodeIsCounted, Spent, CodeIsUsedOnce, ThreeTries
<1>2. QED
    BY <1>1, OtpInvInit, OtpInvNext, PTL DEF OtpSpec

-----------------------------------------------------------------------------
(* The limit of requests *)

Counts == [is: {"count"}, by: [LimitStores -> Nat], until: Nat]
Requests == [at: {"record"}, asked: LimitStores]
Entries == [time: 0..MaxTime, asked: LimitStores, nth: Nat]

LEMMA LimitTypeInit == LimitInit => LimitTypeOK /\ IsFiniteSet(sorted)
BY RateLimitsAssumption, FS_EmptySet DEF LimitInit, LimitTypeOK

LEMMA LimitTypeNext ==
    LimitTypeOK /\ IsFiniteSet(sorted) /\ [LimitNext]_limitVars
    => LimitTypeOK' /\ IsFiniteSet(sorted')
<1> SUFFICES ASSUME LimitTypeOK, IsFiniteSet(sorted), [LimitNext]_limitVars
             PROVE  LimitTypeOK' /\ IsFiniteSet(sorted')
    OBVIOUS
<1> USE RateLimitsAssumption DEF LimitTypeOK
<1>1. ASSUME NEW q \in Visits, NEW store \in LimitStores, Ask(q, store)
      PROVE  LimitTypeOK' /\ IsFiniteSet(sorted')
  <2>1. [at |-> "record", asked |-> store] \in Requests
    BY DEF Requests
  <2>2. QED
    BY <1>1, <2>1 DEF Ask, Requests
<1>2. ASSUME NEW q \in Visits, Record(q) PROVE LimitTypeOK' /\ IsFiniteSet(sorted')
  <2> DEFINE asked == request[q].asked
             member == [time |-> clock, asked |-> asked, nth |-> NextMember(asked)]
  <2>1. asked \in LimitStores
    BY <1>2 DEF Record, Waiting
  <2>2. request' \in [Visits -> {Waiting} \cup Requests]
    BY <1>2 DEF Record, Requests
  <2>3. CASE reachable
    <3>1. NextMember(asked) \in Nat
      BY FS_Subset, FS_CardinalityType,
         {e \in sorted : e.time = clock /\ e.asked = asked} \in SUBSET sorted DEF NextMember
    <3>2. member \in Entries
      BY <2>1, <3>1 DEF Entries
    <3>3. sorted' = sorted \cup {member} /\ UNCHANGED <<memory, clock, reachable, flips>>
      BY <1>2, <2>3 DEF Record
    <3>4. IsFiniteSet(sorted')
      BY <3>3, FS_AddElement
    <3> HIDE DEF member
    <3>5. QED
      BY <2>2, <3>2, <3>3, <3>4 DEF Entries, Requests
  <2>4. CASE ~reachable
    <3>1. memory' \in Counts
      <4>1. CASE CountGoesOn
        <5>1. memory \in Counts
          BY <4>1 DEF CountGoesOn, Counts
        <5>2. memory' = [memory EXCEPT !.by[asked] = @ + 1]
          BY <1>2, <2>4, <4>1 DEF Record
        <5>3. [memory.by EXCEPT ![asked] = @ + 1] \in [LimitStores -> Nat]
          BY <2>1, <5>1 DEF Counts
        <5>4. QED
          BY <5>1, <5>2, <5>3 DEF Counts
      <4>2. CASE ~CountGoesOn
        <5>1. memory' = [is |-> "count", until |-> clock + Window + 1,
                         by |-> [Nobody EXCEPT ![asked] = 1]]
          BY <1>2, <2>4, <4>2 DEF Record
        <5>2. [Nobody EXCEPT ![asked] = 1] \in [LimitStores -> Nat]
          BY DEF Nobody
        <5>a. clock + Window + 1 \in Nat
          OBVIOUS
        <5>3. QED
          BY <5>1, <5>2, <5>a DEF Counts
      <4>3. QED
        BY <4>1, <4>2
    <3>2. UNCHANGED <<sorted, clock, reachable, flips>>
      BY <1>2, <2>4 DEF Record
    <3>3. QED
      BY <2>2, <3>1, <3>2 DEF Counts, Requests
  <2>5. QED
    BY <2>3, <2>4
<1>3. CASE RedisFlips
    BY <1>3 DEF RedisFlips
<1>4. CASE Tick
  <2>1. sorted' \subseteq sorted
    BY <1>4 DEF Tick
  <2>2. IsFiniteSet(sorted')
    BY <2>1, FS_Subset
  <2>3. QED
    BY <1>4, <2>1, <2>2 DEF Tick
<1>5. CASE UNCHANGED limitVars
    BY <1>5 DEF limitVars
<1>6. QED
    BY <1>1, <1>2, <1>3, <1>4, <1>5 DEF LimitNext

\* The requests between asking a store and recording.
Recording(store) == {q \in Visits : request[q].at = "record" /\ request[q].asked = store}
PassedRedis == {e \in sorted : InWindow(e.time) /\ e.asked \in {"redis"}}
Most == Limit + Cardinality(Visits) - 1

\* Whoever asked while fewer than the limit were counted may still be recorded:
\* what is counted and what is pending stay together below the bound.
RedisIsBounded == Cardinality(PassedRedis) + Cardinality(Recording("redis")) <= Most
MemoryIsBounded == CountGoesOn => memory.by["memory"] + Cardinality(Recording("memory")) <= Most

LimitInv == LimitTypeOK /\ IsFiniteSet(sorted) /\ RedisIsBounded /\ MemoryIsBounded

\* What is counted is finite, and so no more than what it is a part of.
LEMMA CountedSets ==
    ASSUME LimitTypeOK, IsFiniteSet(sorted)
    PROVE  /\ Cardinality(Visits) \in Nat
           /\ \A store : /\ IsFiniteSet(Recording(store)) /\ Cardinality(Recording(store)) \in Nat
                         /\ Cardinality(Recording(store)) <= Cardinality(Visits)
           /\ IsFiniteSet(PassedRedis) /\ Cardinality(PassedRedis) \in Nat
           /\ Cardinality(PassedRedis) <= InRedis(LimitStores)
<1>1. \A store : Recording(store) \subseteq Visits
    BY DEF Recording
<1>2. \A store : /\ IsFiniteSet(Recording(store))
                 /\ Cardinality(Recording(store)) <= Cardinality(Visits)
    BY <1>1, FS_Subset, RateLimitsAssumption
<1>3. PassedRedis \subseteq {e \in sorted : InWindow(e.time) /\ e.asked \in LimitStores}
    BY DEF PassedRedis, LimitStores
<1>4. IsFiniteSet({e \in sorted : InWindow(e.time) /\ e.asked \in LimitStores})
    BY FS_Subset
<1>5. IsFiniteSet(PassedRedis) /\ Cardinality(PassedRedis) <= InRedis(LimitStores)
    BY <1>3, <1>4, FS_Subset DEF InRedis
<1>6. QED
    BY <1>2, <1>5, FS_CardinalityType, RateLimitsAssumption

LEMMA LimitInvInit == LimitInit => LimitInv
<1> SUFFICES ASSUME LimitInit PROVE LimitInv
    OBVIOUS
<1>1. LimitTypeOK /\ IsFiniteSet(sorted)
    BY LimitTypeInit
<1>2. PassedRedis = {} /\ Recording("redis") = {} /\ Recording("memory") = {} /\ ~CountGoesOn
    BY DEF LimitInit, PassedRedis, Recording, Waiting, CountGoesOn
<1>3. QED
    BY <1>1, <1>2, CountedSets, FS_EmptySet, RateLimitsAssumption
    DEF LimitInv, RedisIsBounded, MemoryIsBounded, Most

\* A request that records leaves those who wait, one fewer of its store.
LEMMA OneFewerWaits ==
    ASSUME LimitTypeOK, NEW q \in Visits, Record(q)
    PROVE  /\ request[q].asked \in LimitStores
           /\ \A store \in LimitStores :
                 Cardinality(Recording(store)') =
                    Cardinality(Recording(store)) - (IF store = request[q].asked THEN 1 ELSE 0)
<1>1. /\ request[q].asked \in LimitStores /\ request[q].at = "record"
      /\ request'[q].at # "record" /\ \A p \in Visits \ {q} : request'[p] = request[p]
    BY DEF Record, LimitTypeOK, Waiting
<1>2. ASSUME NEW store \in LimitStores
      PROVE  Cardinality(Recording(store)') =
                Cardinality(Recording(store)) - (IF store = request[q].asked THEN 1 ELSE 0)
  <2>1. IsFiniteSet(Recording(store))
    BY FS_Subset, RateLimitsAssumption, Recording(store) \subseteq Visits DEF Recording
  <2>2. Recording(store)' = Recording(store) \ {q}
    BY <1>1 DEF Recording
  <2>3. q \in Recording(store) <=> store = request[q].asked
    BY <1>1 DEF Recording
  <2>4. Cardinality(Recording(store)) \in Nat
    BY <2>1, FS_CardinalityType
  <2>5. Cardinality(Recording(store) \ {q}) =
           IF q \in Recording(store) THEN Cardinality(Recording(store)) - 1
           ELSE Cardinality(Recording(store))
    BY <2>1, FS_RemoveElement
  <2>6. QED
    BY <2>2, <2>3, <2>4, <2>5
<1>3. QED
    BY <1>1, <1>2

LEMMA LimitInvNext == LimitInv /\ [LimitNext]_limitVars => LimitInv'
<1> SUFFICES ASSUME LimitInv, [LimitNext]_limitVars PROVE LimitInv'
    OBVIOUS
<1>0. /\ LimitTypeOK /\ IsFiniteSet(sorted) /\ LimitTypeOK' /\ IsFiniteSet(sorted')
      /\ RedisIsBounded /\ MemoryIsBounded
    BY LimitTypeNext DEF LimitInv
<1>a. /\ Cardinality(PassedRedis) \in Nat /\ Cardinality(Visits) \in Nat
      /\ \A store : /\ Cardinality(Recording(store)) \in Nat
                    /\ Cardinality(Recording(store)) <= Cardinality(Visits)
      /\ Cardinality(PassedRedis) <= InRedis(LimitStores)
    BY <1>0, CountedSets
<1>b. \A store : /\ Cardinality(Recording(store)') \in Nat
                 /\ Cardinality(Recording(store)') <= Cardinality(Visits)
  <2>1. \A store : Recording(store)' \subseteq Visits
    BY DEF Recording
  <2>2. QED
    BY <2>1, FS_Subset, FS_CardinalityType, RateLimitsAssumption
<1>c. Cardinality(PassedRedis') \in Nat
    BY <1>0, FS_Subset, FS_CardinalityType, PassedRedis' \subseteq sorted' DEF PassedRedis
<1>d. IsFiniteSet(PassedRedis)
    BY <1>0, CountedSets
<1> USE RateLimitsAssumption DEF RedisIsBounded, MemoryIsBounded, Most
<1>1. ASSUME NEW q \in Visits, NEW store \in LimitStores, Ask(q, store)
      PROVE  RedisIsBounded' /\ MemoryIsBounded'
  <2>1. \A s \in LimitStores \ {store} : Recording(s)' = Recording(s)
    BY <1>0, <1>1 DEF Recording, Ask, LimitTypeOK, Waiting
  <2>2. PassedRedis' = PassedRedis /\ CountGoesOn' = CountGoesOn /\ memory' = memory
    BY <1>1 DEF PassedRedis, InWindow, CountGoesOn, Ask
  <2>3. CASE store = "redis"
    <3>1. Cardinality(PassedRedis) < Limit
      <4>1. Allows(InRedis(LimitStores))
        BY <1>1, <2>3 DEF Ask
      <4>2. InRedis(LimitStores) \in Nat
        BY <1>0, FS_Subset, FS_CardinalityType,
           {e \in sorted : InWindow(e.time) /\ e.asked \in LimitStores} \subseteq sorted DEF InRedis
      <4>3. QED
        BY <1>a, <4>1, <4>2 DEF Allows
    <3>2. QED
      BY <1>0, <1>a, <1>b, <2>1, <2>2, <2>3, <3>1 DEF LimitStores
  <2>4. CASE store = "memory"
    <3>1. CountGoesOn => memory.by["memory"] \in Nat /\ memory.by["memory"] < Limit
      BY <1>0, <1>1, <2>4 DEF Ask, Allows, InMemory, CountGoesOn, Both, LimitTypeOK, LimitStores
    <3>2. QED
      BY <1>0, <1>a, <1>b, <2>1, <2>2, <2>4, <3>1 DEF LimitStores
  <2>5. QED
    BY <2>3, <2>4 DEF LimitStores
<1>2. ASSUME NEW q \in Visits, Record(q) PROVE RedisIsBounded' /\ MemoryIsBounded'
  <2> DEFINE asked == request[q].asked
             member == [time |-> clock, asked |-> asked, nth |-> NextMember(asked)]
  <2>1. /\ asked = "redis" \/ asked = "memory"
        /\ Cardinality(Recording("redis")') =
              Cardinality(Recording("redis")) - (IF asked = "redis" THEN 1 ELSE 0)
        /\ Cardinality(Recording("memory")') =
              Cardinality(Recording("memory")) - (IF asked = "memory" THEN 1 ELSE 0)
    BY <1>0, <1>2, OneFewerWaits DEF LimitStores
  <2>2. clock' = clock
    BY <1>2 DEF Record
  <2>3. CASE reachable
    <3>1. /\ PassedRedis' \subseteq PassedRedis \cup {member}
          /\ asked = "memory" => PassedRedis' \subseteq PassedRedis
          /\ CountGoesOn' = CountGoesOn /\ memory' = memory
      BY <1>2, <2>3 DEF Record, PassedRedis, InWindow, CountGoesOn
    <3>2. Cardinality(PassedRedis') <= Cardinality(PassedRedis) + (IF asked = "redis" THEN 1 ELSE 0)
      <4>1. CASE asked = "memory"
        BY <1>d, <3>1, <4>1, FS_Subset, <1>a, <1>c
      <4>2. CASE asked = "redis"
        <5>a. IsFiniteSet(PassedRedis \cup {member})
          BY <1>d, FS_AddElement
        <5>b. Cardinality(PassedRedis \cup {member}) =
                 IF member \in PassedRedis THEN Cardinality(PassedRedis)
                 ELSE Cardinality(PassedRedis) + 1
          BY <1>d, FS_AddElement
        <5>1. /\ IsFiniteSet(PassedRedis \cup {member})
              /\ Cardinality(PassedRedis \cup {member}) <= Cardinality(PassedRedis) + 1
              /\ Cardinality(PassedRedis \cup {member}) \in Nat
          BY <1>a, <5>a, <5>b
        <5>2. Cardinality(PassedRedis') <= Cardinality(PassedRedis \cup {member})
          BY <3>1, <5>1, FS_Subset
        <5>3. QED
          BY <1>a, <1>c, <4>2, <5>1, <5>2
      <4>3. QED
        BY <2>1, <4>1, <4>2 DEF LimitStores
    <3>3. QED
      <4>1. CASE asked = "redis"
        BY <1>0, <1>a, <1>b, <1>c, <2>1, <3>1, <3>2, <4>1 DEF LimitStores
      <4>2. CASE asked = "memory"
        <5>1. CountGoesOn => memory.by["memory"] \in Nat
          BY <1>0 DEF LimitTypeOK, CountGoesOn, LimitStores
        <5>2. QED
          BY <1>0, <1>a, <1>b, <1>c, <2>1, <3>1, <3>2, <4>2, <5>1 DEF LimitStores
      <4>3. QED
        BY <2>1, <4>1, <4>2 DEF LimitStores
  <2>4. CASE ~reachable
    <3>1. PassedRedis' = PassedRedis
      BY <1>2, <2>4 DEF Record, PassedRedis, InWindow
    <3>2. memory'.by["memory"] = (IF CountGoesOn THEN memory.by["memory"] ELSE 0)
                                 + (IF asked = "memory" THEN 1 ELSE 0)
      <4>1. CASE CountGoesOn
        <5>1. memory \in Counts
          BY <1>0, <4>1 DEF CountGoesOn, Counts, LimitTypeOK
        <5>2. memory' = [memory EXCEPT !.by[asked] = @ + 1]
          BY <1>2, <2>4, <4>1 DEF Record
        <5>3. QED
          BY <2>1, <4>1, <5>1, <5>2 DEF Counts, LimitStores
      <4>2. CASE ~CountGoesOn
        <5>1. memory' = [is |-> "count", until |-> clock + Window + 1,
                         by |-> [Nobody EXCEPT ![asked] = 1]]
          BY <1>2, <2>4, <4>2 DEF Record
        <5>2. QED
          BY <2>1, <4>2, <5>1 DEF Nobody, LimitStores
      <4>3. QED
        BY <4>1, <4>2
    <3>3. CountGoesOn => memory.by["memory"] \in Nat
      BY <1>0 DEF LimitTypeOK, CountGoesOn, LimitStores
    <3>4. Cardinality(Recording("redis")') <= Cardinality(Recording("redis"))
      BY <1>a, <2>1 DEF LimitStores
    <3>5. memory'.by["memory"] + Cardinality(Recording("memory")') <= Most
      <4>1. CASE asked = "memory"
        BY <1>0, <1>a, <1>b, <2>1, <3>2, <3>3, <4>1 DEF LimitStores
      <4>2. CASE asked = "redis"
        BY <1>0, <1>a, <1>b, <2>1, <3>2, <3>3, <4>2 DEF LimitStores
      <4>3. QED
        BY <2>1, <4>1, <4>2 DEF LimitStores
    <3>6. QED
      BY <1>0, <1>a, <1>b, <3>1, <3>4, <3>5
  <2>5. QED
    BY <2>3, <2>4
<1>3. ASSUME UNCHANGED <<request, memory>>, PassedRedis' \subseteq PassedRedis,
             CountGoesOn' => CountGoesOn
      PROVE  RedisIsBounded' /\ MemoryIsBounded'
  <2>1. Cardinality(PassedRedis') <= Cardinality(PassedRedis)
    BY <1>d, <1>3, FS_Subset
  <2>2. \A s : Recording(s)' = Recording(s)
    BY <1>3 DEF Recording
  <2>3. QED
    BY <1>0, <1>3, <1>a, <1>c, <2>1, <2>2
<1>4. ASSUME RedisFlips PROVE RedisIsBounded' /\ MemoryIsBounded'
    BY <1>3, <1>4 DEF RedisFlips, PassedRedis, InWindow, CountGoesOn
<1>5. ASSUME Tick PROVE RedisIsBounded' /\ MemoryIsBounded'
  <2>1. PassedRedis' \subseteq PassedRedis
    BY <1>0, <1>5 DEF Tick, PassedRedis, InWindow, LimitTypeOK
  <2>2. CountGoesOn' => CountGoesOn
    BY <1>0, <1>5 DEF Tick, CountGoesOn, LimitTypeOK
  <2>3. QED
    BY <1>3, <1>5, <2>1, <2>2 DEF Tick
<1>6. ASSUME UNCHANGED limitVars PROVE RedisIsBounded' /\ MemoryIsBounded'
    BY <1>3, <1>6 DEF limitVars, PassedRedis, InWindow, CountGoesOn
<1>7. RedisIsBounded' /\ MemoryIsBounded'
    BY <1>1, <1>2, <1>4, <1>5, <1>6 DEF LimitNext
<1>8. QED
    BY <1>0, <1>7 DEF LimitInv

\* Whatever the order of asking and recording, and whichever store answers: no more
\* pass than the limit and those who asked before it was reached.
THEOREM FewPass == LimitSpec => [](LimitTypeOK /\ PassedIsBounded)
<1>1. LimitInv => LimitTypeOK /\ PassedIsBounded
  <2> SUFFICES ASSUME LimitInv PROVE PassedIsBounded
    BY DEF LimitInv
  <2>1. /\ LimitTypeOK /\ IsFiniteSet(sorted) /\ RedisIsBounded /\ MemoryIsBounded
    BY DEF LimitInv
  <2>2. CountGoesOn => memory.by["memory"] \in Nat
    BY <2>1 DEF LimitTypeOK, CountGoesOn, LimitStores
  <2>3. InRedis({"redis"}) = Cardinality(PassedRedis)
    BY DEF InRedis, PassedRedis
  <2>4. QED
    BY <2>1, <2>2, <2>3, CountedSets, RateLimitsAssumption
    DEF RedisIsBounded, MemoryIsBounded, Most, PassedIsBounded
<1>2. QED
    BY <1>1, LimitInvInit, LimitInvNext, PTL DEF LimitSpec

------------------------------------------------------------------------------
(* The tokens *)

\* What a guard knew to be blocked stays refused as long as the token is good.
BlockedIsKept ==
    \A g \in Guards :
       /\ guard[g].at # "idle" => guard[g].token \in Tokens /\ token[guard[g].token] # "none"
       /\ guard[g].blocked =>
             \/ token[guard[g].token] = "expired"
             \/ guard[g].token \in inDb /\ guard[g].at # "accepted"
       /\ guard[g].at = "idle" => guard[g] = NoGuard

\* The page counts no more failures than there were.
TriesAreFailures == page.tries <= failures

SessionInv == /\ SessionTypeOK /\ BlockedIsKept /\ TriesAreFailures
              /\ ForcedOutAfterThree /\ RefreshGoesOn /\ NoTokenAfterLogout

LogoutRow == {NoLogout} \cup [at: {"db", "redis"}, token: Tokens]
PageRow == [at: {"out", "verify", "in", "left", "forced"}, timer: {"none", "due", "retry"},
            tries: 0..(MaxRetries - 1), reads: BOOLEAN]

LEMMA PageRowIs ==
    /\ PageRow = [at: {"out", "verify", "in", "left", "forced"}, timer: {"none", "due", "retry"},
                  tries: 0..2, reads: BOOLEAN]
    /\ MaxRetries = 3
<1>1. 0..(MaxRetries - 1) = 0..2 /\ MaxRetries = 3
    BY DEF MaxRetries
<1>2. QED
    BY <1>1 DEF PageRow

LEMMA SessionTypeInit == SessionInit => SessionTypeOK
<1> SUFFICES ASSUME SessionInit PROVE SessionTypeOK
    OBVIOUS
<1>1. page \in PageRow
    BY PageRowIs DEF SessionInit
<1>2. failures \in 0..MaxRetries
    BY PageRowIs DEF SessionInit
<1>3. guard \in [Guards -> GuardRow]
    BY DEF SessionInit, NoGuard, GuardRow
<1>4. QED
    BY <1>1, <1>2, <1>3 DEF SessionInit, SessionTypeOK, NoLogout, PageRow

LEMMA IssueTypes ==
    ASSUME SessionTypeOK, Issue
    PROVE  /\ token' \in [Tokens -> {"none", "fresh", "due", "expired"}] /\ cookie' \in Tokens
           /\ \A t \in Tokens : token[t] # "none" => token'[t] = token[t]
BY DEF SessionTypeOK, Issue

LEMMA LogoutTypes ==
    ASSUME SessionTypeOK, NEW reached, LogoutCall(reached)
    PROVE  /\ logout' \in LogoutRow
           /\ cookie' \in {cookie, 0} /\ (reached => cookie' = 0)
BY DEF SessionTypeOK, LogoutCall, LogoutRow, NoLogout

LEMMA FailedTypes ==
    ASSUME SessionTypeOK, Alive, NEW reached, Failed(reached)
    PROVE  /\ page' \in PageRow /\ failures' \in 0..MaxRetries
           /\ logout' \in LogoutRow
           /\ cookie' \in {cookie, 0}
           /\ TriesAreFailures =>
                 TriesAreFailures' /\ (page'.at = "forced" => failures' = MaxRetries)
           /\ page'.at = "forced" \/ (page'.at = page.at /\ page'.timer = "retry")
<1>0. page \in PageRow /\ failures \in 0..3
    BY PageRowIs DEF SessionTypeOK, PageRow
<1>1. failures' = IF failures < 3 THEN failures + 1 ELSE failures
    BY DEF Failed, MaxRetries
<1>2. CASE LastTry
  <2>1. page' = [page EXCEPT !.at = "forced", !.timer = "none", !.tries = 0] /\ LogoutCall(reached)
    BY <1>2 DEF Failed
  <2>2. /\ logout' \in LogoutRow
        /\ cookie' \in {cookie, 0}
    BY <2>1, LogoutTypes
  <2>3. page' \in PageRow /\ page'.at = "forced" /\ page'.tries = 0
    <3>1. page' = [at |-> "forced", timer |-> "none", tries |-> 0, reads |-> page.reads]
      BY <1>0, <2>1, PageRowIs
    <3>2. page.reads \in BOOLEAN /\ 0 \in 0..2
      BY <1>0, PageRowIs
    <3>3. QED
      BY <3>1, <3>2, PageRowIs
  <2>4. page.tries + 1 >= 3
    BY <1>2 DEF LastTry, MaxRetries
  <2>5. TriesAreFailures => failures' = 3
    BY <1>0, <1>1, <2>4, PageRowIs DEF TriesAreFailures
  <2>6. failures' \in 0..3
    BY <1>0, <1>1
  <2>7. TriesAreFailures'
    BY <2>3, <2>6 DEF TriesAreFailures
  <2>8. failures' \in 0..MaxRetries /\ (TriesAreFailures => failures' = MaxRetries)
    BY <2>5, <2>6, PageRowIs
  <2>9. QED
    BY <2>2, <2>3, <2>7, <2>8
<1>3. CASE ~LastTry
  <2>1. /\ page' = [page EXCEPT !.tries = page.tries + 1, !.timer = "retry"]
        /\ UNCHANGED <<logout, cookie>>
    BY <1>3 DEF Failed
  <2>2. page.tries + 1 \in 0..2
    BY <1>0, <1>3, PageRowIs DEF LastTry
  <2>3. /\ page' \in PageRow /\ page'.at = page.at /\ page'.timer = "retry"
        /\ page'.tries = page.tries + 1
    BY <1>0, <2>1, <2>2, PageRowIs
  <2>4. TriesAreFailures => TriesAreFailures'
    BY <1>0, <1>1, <2>2, <2>3, PageRowIs DEF TriesAreFailures
  <2>5. page'.at # "forced"
    BY <2>3 DEF Alive
  <2>6. failures' \in 0..3
    BY <1>0, <1>1
  <2>7. logout \in LogoutRow
    BY DEF SessionTypeOK, LogoutRow
  <2>8. QED
    BY <2>1, <2>3, <2>4, <2>5, <2>6, <2>7, PageRowIs
<1>4. QED
    BY <1>2, <1>3

LEMMA PageMoves ==
    ASSUME page \in PageRow, NEW at \in {"out", "verify", "in", "left", "forced"},
           NEW timer \in {"none", "due", "retry"},
           page' = [page EXCEPT !.at = at, !.timer = timer, !.tries = 0]
    PROVE  /\ page' \in PageRow /\ page'.at = at /\ page'.timer = timer /\ page'.tries = 0
           /\ page'.reads = page.reads
<1>1. page' = [at |-> at, timer |-> timer, tries |-> 0, reads |-> page.reads]
    BY PageRowIs
<1>2. page.reads \in BOOLEAN /\ 0 \in 0..2
    BY PageRowIs
<1>3. QED
    BY <1>1, <1>2, PageRowIs

LEMMA SessionTypeNext == SessionTypeOK /\ [SessionNext]_sessionVars => SessionTypeOK'
<1> SUFFICES ASSUME SessionTypeOK, [SessionNext]_sessionVars PROVE SessionTypeOK'
    OBVIOUS
<1>0. page \in PageRow
    BY DEF SessionTypeOK, PageRow
<1> USE DEF LogoutRow
<1>a. ASSUME page' \in PageRow, UNCHANGED <<inDb, inRedis, redisUp, guard>>,
             token' \in [Tokens -> {"none", "fresh", "due", "expired"}],
             cookie' \in Tokens \cup {0}, strayed' \in BOOLEAN, failures' \in 0..MaxRetries,
             logout' \in LogoutRow
      PROVE  SessionTypeOK'
    BY <1>a DEF SessionTypeOK, PageRow
<1>b. ASSUME guard' \in [Guards -> GuardRow], page' \in PageRow,
             UNCHANGED <<token, cookie, inDb, inRedis, redisUp, logout, failures, strayed>>
      PROVE  SessionTypeOK'
    BY <1>b DEF SessionTypeOK, PageRow
<1>1. ASSUME Login PROVE SessionTypeOK'
  <2>1. page' \in PageRow /\ failures' \in 0..MaxRetries
    BY <1>0, <1>1, PageRowIs, PageMoves DEF Login
  <2>2. QED
    BY <1>1, <2>1, IssueTypes DEF Login, SessionTypeOK, PageRow
<1>2. ASSUME Verified \/ VerifyRefused \/ Remount PROVE SessionTypeOK'
  <2>1. page' \in PageRow
    <3>1. CASE Verified
      <4>1. page' = [page EXCEPT !.at = "in", !.tries = 0,
                                 !.timer = IF page.reads /\ cookie # 0 THEN "due" ELSE "none"]
        BY <3>1 DEF Verified, InitRefresh
      <4>2. \E timer \in {"none", "due"} :
                page' = [page EXCEPT !.at = "in", !.timer = timer, !.tries = 0]
        BY <1>0, <4>1, PageRowIs
      <4>3. QED
        BY <1>0, <4>2, PageMoves
    <3>2. CASE VerifyRefused
      BY <1>0, <3>2, PageMoves DEF VerifyRefused
    <3>3. CASE Remount
      BY <1>0, <3>3, PageMoves DEF Remount
    <3>4. QED
      BY <1>2, <3>1, <3>2, <3>3
  <2>2. QED
    BY <1>2, <2>1 DEF Verified, VerifyRefused, Remount, SessionTypeOK, PageRow
<1>3. ASSUME CleanUp PROVE SessionTypeOK'
    BY <1>3 DEF CleanUp, SessionTypeOK
<1>4. ASSUME NEW t \in Tokens, TokenAges(t) PROVE SessionTypeOK'
    BY <1>4 DEF TokenAges, SessionTypeOK
<1>5. ASSUME NEW g \in Guards, NEW t, NEW refresh \in BOOLEAN, t \in Tokens \cup {0},
             Arrive(g, t, refresh)
      PROVE  guard' \in [Guards -> GuardRow]
  <2>1. (t \in inDb) \in BOOLEAN
    OBVIOUS
  <2>2. QED
    BY <1>5, <2>1 DEF Arrive, SessionTypeOK, GuardRow
<1>6. ASSUME NEW g \in Guards, NEW t \in Tokens, TokenRequest(g, t) PROVE SessionTypeOK'
    BY <1>0, <1>b, <1>5, <1>6 DEF TokenRequest
<1>7. ASSUME NEW g \in Guards, Refresh(g) PROVE SessionTypeOK'
  <2>1. cookie \in Tokens \cup {0}
    BY DEF SessionTypeOK
  <2>2. page' \in PageRow
    BY <1>0, <1>7, PageRowIs DEF Refresh
  <2>3. QED
    BY <1>b, <1>5, <1>7, <2>1, <2>2 DEF Refresh
<1>8. ASSUME NEW g \in Guards, Answered(g) PROVE SessionTypeOK'
    BY <1>8 DEF Answered, SessionTypeOK, NoGuard, GuardRow
<1>9. ASSUME NEW g \in Guards, RefreshOk(g) PROVE SessionTypeOK'
  <2>1. page' \in PageRow /\ failures' \in 0..MaxRetries /\ strayed' \in BOOLEAN
    <3>1. CASE Alive
      <4>1. page' = [page EXCEPT !.tries = 0, !.timer = IF page.reads THEN "due" ELSE "none"]
        BY <1>9, <3>1 DEF RefreshOk
      <4>2. 0 \in 0..2 /\ 0 \in 0..MaxRetries
        BY PageRowIs
      <4>3. page' \in PageRow
        BY <1>0, <4>1, <4>2, PageRowIs
      <4>4. failures' = 0 /\ strayed' = strayed
        BY <1>9, <3>1 DEF RefreshOk
      <4>5. QED
        BY <4>2, <4>3, <4>4 DEF SessionTypeOK
    <3>2. CASE ~Alive
      BY <1>0, <1>9, <3>2 DEF RefreshOk, SessionTypeOK
    <3>3. QED
      BY <3>1, <3>2
  <2>2. guard' \in [Guards -> GuardRow]
    BY <1>9 DEF RefreshOk, SessionTypeOK, NoGuard, GuardRow
  <2>3. UNCHANGED <<inDb, inRedis, redisUp, logout>> /\ Issue
    BY <1>9 DEF RefreshOk
  <2>4. QED
    BY <2>1, <2>2, <2>3, IssueTypes DEF SessionTypeOK, PageRow
<1>10. ASSUME NEW g \in Guards, NEW reached \in BOOLEAN, RefreshFails(g, reached)
       PROVE  SessionTypeOK'
  <2>1. guard' \in [Guards -> GuardRow]
    BY <1>10 DEF RefreshFails, SessionTypeOK, NoGuard, GuardRow
  <2>2. /\ page' \in PageRow /\ failures' \in 0..MaxRetries /\ cookie' \in Tokens \cup {0}
        /\ logout' \in LogoutRow
    <3>1. CASE Alive
      BY <1>10, <3>1, FailedTypes DEF RefreshFails, SessionTypeOK
    <3>2. CASE ~Alive
      BY <1>0, <1>10, <3>2 DEF RefreshFails, SessionTypeOK
    <3>3. QED
      BY <3>1, <3>2
  <2>3. UNCHANGED <<token, inDb, inRedis, redisUp, strayed>>
    BY <1>10 DEF RefreshFails
  <2>4. QED
    BY <2>1, <2>2, <2>3 DEF SessionTypeOK, PageRow
<1>11. ASSUME NEW reached \in BOOLEAN, RefreshWithoutAnswer(reached) PROVE SessionTypeOK'
  <2>1. Alive /\ Failed(reached) /\ UNCHANGED <<token, inDb, inRedis, redisUp, guard, strayed>>
    BY <1>11 DEF RefreshWithoutAnswer
  <2>2. /\ page' \in PageRow /\ failures' \in 0..MaxRetries /\ cookie' \in Tokens \cup {0}
        /\ logout' \in LogoutRow
    BY <2>1, FailedTypes DEF SessionTypeOK
  <2>3. QED
    BY <2>1, <2>2 DEF SessionTypeOK, PageRow
<1>12. ASSUME NEW g \in Guards, NEW fails \in BOOLEAN, LookInRedis(g, fails) \/ LookInDb(g, fails)
       PROVE  SessionTypeOK'
  <2>1. guard[g] \in GuardRow
    BY DEF SessionTypeOK
  <2>2. guard' \in [Guards -> GuardRow]
    BY <1>12, <2>1 DEF LookInRedis, LookInDb, AfterRedis, SessionTypeOK, GuardRow
  <2>3. QED
    BY <1>0, <1>12, <1>b, <2>2 DEF LookInRedis, LookInDb
<1>13. ASSUME NEW fails \in BOOLEAN, BlockInDb(fails) PROVE SessionTypeOK'
  <2>1. logout' \in LogoutRow
    BY <1>13 DEF BlockInDb, SessionTypeOK, NoLogout
  <2>2. inDb' \subseteq Tokens
    BY <1>13 DEF BlockInDb, SessionTypeOK, NoLogout
  <2>3. QED
    BY <1>13, <2>1, <2>2 DEF BlockInDb, SessionTypeOK
<1>14. ASSUME NEW fails \in BOOLEAN, BlockInRedis(fails) \/ RedisChanges(fails)
       PROVE  SessionTypeOK'
  <2>1. logout' \in LogoutRow
    BY <1>14 DEF BlockInRedis, RedisChanges, SessionTypeOK, NoLogout
  <2>2. inRedis' \subseteq Tokens /\ redisUp' \in BOOLEAN
    <3>1. CASE BlockInRedis(fails)
      BY <3>1 DEF BlockInRedis, SessionTypeOK, NoLogout
    <3>2. CASE RedisChanges(fails)
      BY <3>2 DEF RedisChanges, SessionTypeOK
    <3>3. QED
      BY <1>14, <3>1, <3>2
  <2>3. UNCHANGED <<token, cookie, inDb, guard, page, failures, strayed>>
    BY <1>14 DEF BlockInRedis, RedisChanges
  <2>4. QED
    BY <2>1, <2>2, <2>3 DEF SessionTypeOK
<1>15. ASSUME NEW lost \in BOOLEAN, Logout(lost) PROVE SessionTypeOK'
  <2>1. page' \in PageRow
    BY <1>0, <1>15, PageMoves DEF Logout
  <2>2. /\ LogoutCall(page.reads /\ ~lost) /\ strayed' \in BOOLEAN
        /\ UNCHANGED <<token, inDb, inRedis, redisUp, guard, failures>>
    BY <1>15 DEF Logout
  <2>3. QED
    BY <2>1, <2>2, LogoutTypes DEF SessionTypeOK, PageRow
<1>16. CASE UNCHANGED sessionVars
    BY <1>16 DEF sessionVars, SessionTypeOK
<1>17. QED
    BY <1>1, <1>2, <1>3, <1>4, <1>6, <1>7, <1>8, <1>9, <1>10, <1>11, <1>12, <1>13, <1>14, <1>15,
       <1>16 DEF SessionNext

LEMMA SessionInvInit == SessionInit => SessionInv
<1> SUFFICES ASSUME SessionInit PROVE SessionInv
    OBVIOUS
<1>1. BlockedIsKept
    BY DEF SessionInit, BlockedIsKept, NoGuard
<1>2. page.at = "out" /\ page.tries = 0 /\ failures = 0 /\ cookie = 0
    BY DEF SessionInit
<1>3. QED
    BY <1>1, <1>2, SessionTypeInit DEF SessionInv, TriesAreFailures, ForcedOutAfterThree,
       RefreshGoesOn, NoTokenAfterLogout

\* The block lists only lose what has expired, and a token that was given stays given.
LEMMA BlockedIsKeptNext ==
    ASSUME SessionTypeOK, BlockedIsKept, [SessionNext]_sessionVars
    PROVE  BlockedIsKept'
<1>0. /\ guard \in [Guards -> GuardRow] /\ inDb \subseteq Tokens
      /\ token \in [Tokens -> {"none", "fresh", "due", "expired"}]
    BY DEF SessionTypeOK
<1> USE DEF BlockedIsKept
<1>1. ASSUME UNCHANGED guard, inDb \subseteq inDb',
             \A t \in Tokens : /\ token[t] # "none" => token'[t] # "none"
                               /\ token[t] = "expired" => token'[t] = "expired"
      PROVE  BlockedIsKept'
  <2>1. \A g \in Guards : guard[g].blocked => guard[g].at # "idle"
    BY DEF NoGuard
  <2>2. QED
    BY <1>1, <2>1
<1>2. ASSUME NEW g \in Guards, guard' = [guard EXCEPT ![g] = NoGuard], inDb' = inDb,
             \A t \in Tokens : token[t] # "none" => token'[t] = token[t]
      PROVE  BlockedIsKept'
  <2>1. \A h \in Guards : guard[h].blocked => guard[h].at # "idle"
    BY DEF NoGuard
  <2>2. /\ guard'[g] = NoGuard /\ NoGuard.at = "idle" /\ NoGuard.blocked = FALSE
        /\ \A h \in Guards \ {g} : guard'[h] = guard[h]
    BY <1>0, <1>2 DEF NoGuard
  <2>3. QED
    BY <1>2, <2>1, <2>2
<1>3. ASSUME NEW g \in Guards, NEW t \in Tokens \cup {0}, NEW refresh \in BOOLEAN,
             Arrive(g, t, refresh), UNCHANGED <<token, inDb>>
      PROVE  BlockedIsKept'
  <2>1. t \in Tokens /\ token[t] \in {"fresh", "due"}
    BY <1>3 DEF Arrive, Live
  <2>2. /\ guard'[g].token = t /\ guard'[g].at \in {"redis", "db"}
        /\ guard'[g].blocked => t \in inDb
        /\ \A h \in Guards \ {g} : guard'[h] = guard[h]
    BY <1>0, <1>3 DEF Arrive
  <2>3. QED
    BY <1>3, <2>1, <2>2
<1>4. ASSUME Login PROVE BlockedIsKept'
    BY <1>1, <1>4, IssueTypes DEF Login
<1>5. ASSUME Verified \/ VerifyRefused \/ Remount PROVE BlockedIsKept'
    BY <1>1, <1>5 DEF Verified, VerifyRefused, Remount
<1>6. ASSUME CleanUp PROVE BlockedIsKept'
    BY <1>6 DEF CleanUp
<1>7. ASSUME NEW t \in Tokens, TokenAges(t) PROVE BlockedIsKept'
  <2>1. token[t] \in {"fresh", "due"} /\ UNCHANGED <<guard, inDb>>
    BY <1>7 DEF TokenAges, Live
  <2>2. \A u \in Tokens : /\ token[u] # "none" => token'[u] # "none"
                          /\ token[u] = "expired" => token'[u] = "expired"
    BY <1>0, <1>7, <2>1 DEF TokenAges
  <2>3. QED
    BY <1>1, <2>1, <2>2
<1>8. ASSUME NEW g \in Guards, NEW t \in Tokens, TokenRequest(g, t) PROVE BlockedIsKept'
    BY <1>3, <1>8 DEF TokenRequest
<1>9. ASSUME NEW g \in Guards, Refresh(g) PROVE BlockedIsKept'
  <2>1. cookie \in Tokens \cup {0}
    BY DEF SessionTypeOK
  <2>2. QED
    BY <1>3, <1>9, <2>1 DEF Refresh
<1>10. ASSUME NEW g \in Guards, Answered(g) PROVE BlockedIsKept'
    BY <1>2, <1>10 DEF Answered
<1>11. ASSUME NEW g \in Guards, RefreshOk(g) PROVE BlockedIsKept'
    BY <1>2, <1>11, IssueTypes DEF RefreshOk
<1>12. ASSUME NEW g \in Guards, NEW reached \in BOOLEAN, RefreshFails(g, reached)
       PROVE  BlockedIsKept'
    BY <1>2, <1>12 DEF RefreshFails
<1>13. ASSUME NEW reached \in BOOLEAN, RefreshWithoutAnswer(reached) PROVE BlockedIsKept'
    BY <1>1, <1>13 DEF RefreshWithoutAnswer
<1>14. ASSUME NEW g \in Guards, NEW fails \in BOOLEAN, LookInRedis(g, fails) \/ LookInDb(g, fails)
       PROVE  BlockedIsKept'
  <2>1. /\ guard[g].at # "idle" /\ UNCHANGED <<token, inDb>>
        /\ \A h \in Guards \ {g} : guard'[h] = guard[h]
        /\ guard'[g].token = guard[g].token /\ guard'[g].blocked = guard[g].blocked
        /\ guard'[g].at \in {"db", "refused", "accepted"}
        /\ guard'[g].at = "accepted" => guard[g].token \notin inDb
    BY <1>0, <1>14 DEF LookInRedis, LookInDb, AfterRedis, GuardRow
  <2>2. QED
    BY <2>1
<1>15. ASSUME NEW fails \in BOOLEAN, BlockInDb(fails) PROVE BlockedIsKept'
    BY <1>1, <1>15 DEF BlockInDb
<1>16. ASSUME NEW fails \in BOOLEAN, BlockInRedis(fails) \/ RedisChanges(fails)
       PROVE  BlockedIsKept'
    BY <1>1, <1>16 DEF BlockInRedis, RedisChanges
<1>17. ASSUME NEW lost \in BOOLEAN, Logout(lost) PROVE BlockedIsKept'
    BY <1>1, <1>17 DEF Logout
<1>18. CASE UNCHANGED sessionVars
    BY <1>1, <1>18 DEF sessionVars
<1>19. QED
    BY <1>4, <1>5, <1>6, <1>7, <1>8, <1>9, <1>10, <1>11, <1>12, <1>13, <1>14, <1>15, <1>16, <1>17,
       <1>18 DEF SessionNext

LEMMA SessionPageNext ==
    ASSUME SessionInv, [SessionNext]_sessionVars
    PROVE  (TriesAreFailures /\ ForcedOutAfterThree /\ RefreshGoesOn /\ NoTokenAfterLogout)'
<1>0. /\ page \in PageRow /\ failures \in 0..3 /\ SessionTypeOK /\ strayed \in BOOLEAN
      /\ guard \in [Guards -> GuardRow] /\ page.reads \in BOOLEAN
    BY PageRowIs DEF SessionInv, SessionTypeOK, PageRow
<1> DEFINE Rest == (TriesAreFailures /\ ForcedOutAfterThree /\ RefreshGoesOn /\ NoTokenAfterLogout)'
<1>a. TriesAreFailures /\ ForcedOutAfterThree /\ RefreshGoesOn /\ NoTokenAfterLogout
    BY DEF SessionInv
<1>b. page.tries \in 0..2
    BY <1>0, PageRowIs
<1>1. ASSUME UNCHANGED <<page, failures, cookie, strayed>>,
             \A g \in Guards : guard[g].at # "idle" /\ guard[g].refresh =>
                                  guard'[g].at # "idle" /\ guard'[g].refresh
      PROVE  Rest
    BY <1>1, <1>a DEF TriesAreFailures, ForcedOutAfterThree, RefreshGoesOn, NoTokenAfterLogout,
                      Refreshing
<1>2. ASSUME NEW at \in {"verify", "in", "left"}, NEW timer \in {"none", "due"},
             page' = [page EXCEPT !.at = at, !.timer = timer, !.tries = 0],
             failures' \in 0..3, at = "in" /\ page.reads => timer # "none"
      PROVE  Rest
  <2>1. page'.at = at /\ page'.tries = 0 /\ page'.timer = timer /\ page'.reads = page.reads
    BY <1>0, <1>2, PageMoves
  <2>2. QED
    BY <1>2, <2>1 DEF TriesAreFailures, ForcedOutAfterThree, RefreshGoesOn, NoTokenAfterLogout
<1>3. ASSUME Login PROVE Rest
  <2>1. page' = [page EXCEPT !.at = "verify", !.timer = "none", !.tries = 0] /\ failures' = 0
    BY <1>3 DEF Login
  <2>2. 0 \in 0..3
    OBVIOUS
  <2>3. QED
    BY <1>2, <2>1, <2>2
<1>4. ASSUME Verified PROVE Rest
  <2>1. cookie # 0 /\ failures' = failures
    BY <1>4 DEF Verified, Live
  <2>2. page' = [page EXCEPT !.at = "in", !.tries = 0,
                             !.timer = IF page.reads THEN "due" ELSE "none"]
    BY <1>4, <2>1 DEF Verified, InitRefresh
  <2>3. \E timer \in {"none", "due"} :
            /\ page' = [page EXCEPT !.at = "in", !.timer = timer, !.tries = 0]
            /\ page.reads => timer # "none"
    BY <1>0, <2>2, PageRowIs
  <2>4. QED
    BY <1>0, <1>2, <2>1, <2>3
<1>5. ASSUME VerifyRefused \/ Remount PROVE Rest
  <2>1. /\ failures' = failures
        /\ \E at \in {"verify", "left"} :
              page' = [page EXCEPT !.at = at, !.timer = "none", !.tries = 0]
    BY <1>5 DEF VerifyRefused, Remount
  <2>2. QED
    BY <1>0, <1>2, <2>1
<1>6. ASSUME NEW g \in Guards, NEW t \in Tokens, TokenRequest(g, t) PROVE Rest
  <2>1. guard[g].at = "idle" /\ \A h \in Guards \ {g} : guard'[h] = guard[h]
    BY <1>0, <1>6 DEF TokenRequest, Arrive, NoGuard
  <2>2. UNCHANGED <<page, failures, cookie, strayed>>
    BY <1>6 DEF TokenRequest
  <2>3. QED
    BY <1>1, <2>1, <2>2
<1>7. ASSUME NEW g \in Guards, Refresh(g) PROVE Rest
  <2>1. /\ page' = [page EXCEPT !.timer = "none"] /\ UNCHANGED <<failures, cookie, strayed>>
        /\ Alive
    BY <1>7 DEF Refresh
  <2>2. page'.at = page.at /\ page'.tries = page.tries /\ page.at \in {"verify", "in"}
    BY <1>0, <2>1, PageRowIs DEF Alive
  <2>3. guard'[g].at # "idle" /\ guard'[g].refresh
    BY <1>0, <1>7 DEF Refresh, Arrive
  <2>4. Refreshing'
    BY <2>3 DEF Refreshing
  <2>5. QED
    BY <1>a, <2>1, <2>2, <2>4
    DEF TriesAreFailures, ForcedOutAfterThree, RefreshGoesOn, NoTokenAfterLogout
<1>8. ASSUME NEW g \in Guards, Answered(g) PROVE Rest
  <2>1. /\ ~guard[g].refresh /\ \A h \in Guards \ {g} : guard'[h] = guard[h]
        /\ UNCHANGED <<page, failures, cookie, strayed>>
    BY <1>0, <1>8 DEF Answered
  <2>2. QED
    BY <1>1, <2>1
<1>9. ASSUME NEW g \in Guards, RefreshOk(g) PROVE Rest
  <2>1. CASE Alive
    <3>1. page' = [page EXCEPT !.tries = 0, !.timer = IF page.reads THEN "due" ELSE "none"]
          /\ failures' = 0 /\ page.at \in {"verify", "in"}
      BY <1>9, <2>1 DEF RefreshOk, Alive
    <3>2. /\ page'.at = page.at /\ page'.tries = 0 /\ page'.reads = page.reads
          /\ page.reads => page'.timer = "due"
      BY <1>0, <3>1, PageRowIs
    <3>3. QED
      BY <3>1, <3>2 DEF TriesAreFailures, ForcedOutAfterThree, RefreshGoesOn, NoTokenAfterLogout
  <2>2. CASE ~Alive
    <3>1. strayed' = TRUE /\ UNCHANGED <<page, failures>> /\ page.at \notin {"verify", "in"}
      BY <1>9, <2>2 DEF RefreshOk, Alive
    <3>2. QED
      BY <1>a, <3>1 DEF TriesAreFailures, ForcedOutAfterThree, RefreshGoesOn, NoTokenAfterLogout
  <2>3. QED
    BY <2>1, <2>2
<1>10. ASSUME Alive, NEW reached \in BOOLEAN, Failed(reached) PROVE Rest
  <2>1. /\ TriesAreFailures' /\ (page'.at = "forced" => failures' = MaxRetries)
        /\ page'.at = "forced" \/ (page'.at = page.at /\ page'.timer = "retry")
    BY <1>0, <1>10, <1>a, FailedTypes
  <2>2. page.at \in {"verify", "in"}
    BY <1>10 DEF Alive
  <2>3. QED
    BY <2>1, <2>2 DEF ForcedOutAfterThree, RefreshGoesOn, NoTokenAfterLogout
<1>11. ASSUME NEW g \in Guards, NEW reached \in BOOLEAN, RefreshFails(g, reached) PROVE Rest
  <2>1. CASE Alive
    BY <1>10, <1>11, <2>1 DEF RefreshFails
  <2>2. CASE ~Alive
    <3>1. UNCHANGED <<page, failures, cookie, strayed>> /\ page.at \notin {"verify", "in"}
      BY <1>11, <2>2 DEF RefreshFails, Alive
    <3>2. QED
      BY <1>a, <3>1 DEF TriesAreFailures, ForcedOutAfterThree, RefreshGoesOn, NoTokenAfterLogout
  <2>3. QED
    BY <2>1, <2>2
<1>12. ASSUME NEW reached \in BOOLEAN, RefreshWithoutAnswer(reached) PROVE Rest
    BY <1>10, <1>12 DEF RefreshWithoutAnswer
<1>13. ASSUME NEW g \in Guards, NEW fails \in BOOLEAN, LookInRedis(g, fails) \/ LookInDb(g, fails)
       PROVE  Rest
  <2>1. /\ UNCHANGED <<page, failures, cookie, strayed>>
        /\ \A h \in Guards \ {g} : guard'[h] = guard[h]
        /\ guard'[g].refresh = guard[g].refresh /\ guard'[g].at # "idle"
    BY <1>0, <1>13 DEF LookInRedis, LookInDb, AfterRedis, GuardRow
  <2>2. QED
    BY <1>1, <2>1
<1>14. ASSUME NEW lost \in BOOLEAN, Logout(lost) PROVE Rest
  <2>1. /\ LogoutCall(page.reads /\ ~lost) /\ failures' = failures
        /\ strayed' = (strayed \/ lost \/ ~page.reads)
        /\ page' = [page EXCEPT !.at = "out", !.timer = "none", !.tries = 0]
    BY <1>14 DEF Logout
  <2>2. page'.at = "out" /\ page'.tries = 0
    BY <1>0, <2>1, PageMoves
  <2>3. page.reads /\ ~lost => cookie' = 0
    BY <1>0, <2>1, LogoutTypes
  <2>4. cookie' = 0 \/ strayed'
    BY <1>0, <2>1, <2>3
  <2>5. QED
    BY <1>0, <2>1, <2>2, <2>4
    DEF TriesAreFailures, ForcedOutAfterThree, RefreshGoesOn, NoTokenAfterLogout
<1>15. ASSUME CleanUp \/ UNCHANGED sessionVars PROVE Rest
    BY <1>1, <1>15 DEF CleanUp, sessionVars
<1>16. ASSUME NEW t \in Tokens, TokenAges(t) PROVE Rest
    BY <1>1, <1>16 DEF TokenAges
<1>17. ASSUME NEW fails \in BOOLEAN, BlockInDb(fails) \/ BlockInRedis(fails) \/ RedisChanges(fails)
       PROVE  Rest
    BY <1>1, <1>17 DEF BlockInDb, BlockInRedis, RedisChanges
<1>18. QED
    BY <1>3, <1>4, <1>5, <1>6, <1>7, <1>8, <1>9, <1>11, <1>12, <1>13, <1>14, <1>15, <1>16, <1>17
    DEF SessionNext

\* For any number of tokens and requests, whatever fails: what was revoked stays refused,
\* and the page's session goes on until three refreshes fail and ends with its token.
THEOREM SessionsEndInTime == SessionSpec => [](SessionTypeOK /\ SessionsEnd)
<1>1. SessionInv => SessionTypeOK /\ SessionsEnd
  <2>1. BlockedIsKept => RevokedIsRefused
    BY DEF BlockedIsKept, RevokedIsRefused
  <2>2. QED
    BY <2>1 DEF SessionInv, SessionsEnd
<1>2. SessionInv /\ [SessionNext]_sessionVars => SessionInv'
    BY SessionTypeNext, BlockedIsKeptNext, SessionPageNext DEF SessionInv
<1>3. QED
    BY <1>1, <1>2, SessionInvInit, PTL DEF SessionSpec
=============================================================================
