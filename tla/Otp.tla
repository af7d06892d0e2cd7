----------------------------------- MODULE Otp -----------------------------------
(***************************************************************************)
(* The code an admin gets by e-mail (sendOtp, verifyOtp), kept in Redis, or   *)
(* in the memory of the process while Redis is away: each keeps its own copy  *)
(* when the other one takes over, and every read and write of a request goes  *)
(* to the one that is there at its time.  Requests run side by side, an await *)
(* at a time, and end where they are when the process dies.                   *)
(***************************************************************************)
EXTENDS Naturals, FiniteSets

CONSTANTS
    MaxCodes,   \* bound: codes drawn
    Senders,    \* requests for a code that may be under way
    Checks      \* verifications that may be under way

ASSUME OtpAssumption == MaxCodes \in Nat \ {0}

Codes == 1..MaxCodes
OTP_MAX_ATTEMPTS == 3
Stores == {"redis", "memory"}

VARIABLES
    kept,       \* otp:admin in each store: a code and its attempts; code 0: none
    pendingFor, \* stores with otp:email
    cooling,    \* stores with otp:ratelimit
    lockedOut,  \* stores with otp:lockout
    otpRedisUp,
    mailed,     \* codes drawn, and whether the e-mail went out
    sender,     \* the requests for a code
    check,      \* the verifications: the step they are at, and the code and the
                \* attempts they have read
    accepted, refusals, \* how often each code was taken, and not
    racing      \* codes that two verifications had read at one time, or whose store
                \* was exchanged while one was at work

otpVars == <<kept, pendingFor, cooling, lockedOut, otpRedisUp, mailed, sender, check,
             accepted, refusals, racing>>

NoCode == [code |-> 0, attempts |-> 0]
NoSend == [at |-> "idle", code |-> 0]
NoCheck == [at |-> "idle", code |-> 0, attempts |-> 0]

Looking == {"idle", "lockout", "code"}                         \* nothing read yet
Refusing == {"keep", "lock", "lockCode", "lockEmail"}
Accepting == {"useCode", "useEmail", "useLockout", "enter"}

KeptCode == [code: Codes \cup {0}, attempts: 0..(OTP_MAX_ATTEMPTS - 1)]
SendRow == [at: {"idle", "code", "email", "cool", "mail"}, code: Codes \cup {0}]
CheckRow == [at: Looking \cup Refusing \cup Accepting, code: Codes \cup {0},
             attempts: 0..(OTP_MAX_ATTEMPTS - 1)]

OtpTypeOK ==
    /\ kept \in [Stores -> KeptCode]
    /\ pendingFor \subseteq Stores /\ cooling \subseteq Stores /\ lockedOut \subseteq Stores
    /\ otpRedisUp \in BOOLEAN /\ racing \subseteq Codes
    /\ mailed \in [Codes -> {"undrawn", "lost", "sent"}]
    /\ sender \in [Senders -> SendRow] /\ check \in [Checks -> CheckRow]
    /\ accepted \in [Codes -> Nat] /\ refusals \in [Codes -> Nat]

OtpInit ==
    /\ kept = [s \in Stores |-> NoCode]
    /\ pendingFor = {} /\ cooling = {} /\ lockedOut = {} /\ otpRedisUp = TRUE
    /\ mailed = [c \in Codes |-> "undrawn"]
    /\ sender = [q \in Senders |-> NoSend] /\ check = [v \in Checks |-> NoCheck]
    /\ accepted = [c \in Codes |-> 0] /\ refusals = [c \in Codes |-> 0] /\ racing = {}

-----------------------------------------------------------------------------
Store == IF otpRedisUp THEN "redis" ELSE "memory"
UpTo(bound, n) == IF n < bound THEN n + 1 ELSE n   \* bound: what is counted

SendGoes(q, step) == sender' = [sender EXCEPT ![q].at = step]
CheckGoes(v, step) == check' = [check EXCEPT ![v].at = step]

sendOnly == <<check, accepted, refusals, racing, otpRedisUp>>
checkOnly == <<sender, mailed, otpRedisUp, cooling>>

\* After the password, or to send it again.  Without Redis the request is denied.
AskForCode(q) ==
    /\ sender[q] = NoSend
    /\ otpRedisUp /\ Store \notin cooling
    /\ SendGoes(q, "code")
    /\ UNCHANGED <<kept, pendingFor, cooling, lockedOut, mailed, sendOnly>>

\* The new code is written over the old one.
SetCode(q, c) ==
    /\ sender[q].at = "code"
    /\ mailed[c] = "undrawn" /\ \A d \in 1..(c - 1) : mailed[d] # "undrawn"
    /\ kept' = [kept EXCEPT ![Store] = [code |-> c, attempts |-> 0]]
    /\ mailed' = [mailed EXCEPT ![c] = "lost"]
    /\ sender' = [sender EXCEPT ![q] = [at |-> "email", code |-> c]]
    /\ UNCHANGED <<pendingFor, cooling, lockedOut, sendOnly>>

SetEmail(q) ==
    /\ sender[q].at = "email"
    /\ pendingFor' = pendingFor \cup {Store}
    /\ SendGoes(q, "cool")
    /\ UNCHANGED <<kept, cooling, lockedOut, mailed, sendOnly>>

SetCooling(q) ==
    /\ sender[q].at = "cool"
    /\ cooling' = cooling \cup {Store}
    /\ SendGoes(q, "mail")
    /\ UNCHANGED <<kept, pendingFor, lockedOut, mailed, sendOnly>>

MailCode(q, sent) ==
    /\ sender[q].at = "mail"
    /\ mailed' = IF sent THEN [mailed EXCEPT ![sender[q].code] = "sent"] ELSE mailed
    /\ sender' = [sender EXCEPT ![q] = NoSend]
    /\ UNCHANGED <<kept, pendingFor, cooling, lockedOut, sendOnly>>

-----------------------------------------------------------------------------
(* verifyOtp *)

ReadEmail(v) ==
    /\ check[v].at = "idle" /\ Store \in pendingFor
    /\ CheckGoes(v, "lockout")
    /\ UNCHANGED <<kept, pendingFor, lockedOut, accepted, refusals, racing, checkOnly>>

ReadLockout(v) ==
    /\ check[v].at = "lockout"
    /\ CheckGoes(v, IF Store \in lockedOut THEN "idle" ELSE "code")
    /\ UNCHANGED <<kept, pendingFor, lockedOut, accepted, refusals, racing, checkOnly>>

Tried(entry) == entry.attempts + 1

\* The code is read and compared.  The right guess is the code that was mailed.
ReadCode(v, guess) ==
    LET entry == kept[Store]
    IN  /\ check[v].at = "code"
        /\ guess \in Codes => mailed[guess] = "sent"
        /\ check' = [check EXCEPT ![v] =
              IF entry.code = 0 THEN NoCheck
              ELSE [at |-> IF guess = entry.code THEN "useCode"
                           ELSE IF Tried(entry) >= OTP_MAX_ATTEMPTS THEN "lock" ELSE "keep",
                    code |-> entry.code, attempts |-> entry.attempts]]
        /\ racing' = IF \E w \in Checks : check[w].code = entry.code
                     THEN racing \cup ({entry.code} \ {0}) ELSE racing
        /\ UNCHANGED <<kept, pendingFor, lockedOut, accepted, refusals, checkOnly>>

Refused(v) ==
    /\ refusals' = [refusals EXCEPT ![check[v].code] = UpTo(OTP_MAX_ATTEMPTS + 1, @)]
    /\ check' = [check EXCEPT ![v] = NoCheck]

\* The code is written back as it was read, for another ten minutes.
KeepCode(v) ==
    /\ check[v].at = "keep"
    /\ kept' = [kept EXCEPT ![Store] = [code |-> check[v].code, attempts |-> Tried(check[v])]]
    /\ Refused(v)
    /\ UNCHANGED <<pendingFor, lockedOut, accepted, racing, checkOnly>>

\* The third refusal locks for five minutes and deletes the entries.
LockOut(v) ==
    /\ check[v].at = "lock"
    /\ lockedOut' = lockedOut \cup {Store}
    /\ CheckGoes(v, "lockCode")
    /\ UNCHANGED <<kept, pendingFor, accepted, refusals, racing, checkOnly>>

\* otp:admin is deleted, after a right guess or for the lockout.
DeleteCode(v) ==
    /\ check[v].at \in {"lockCode", "useCode"}
    /\ kept' = [kept EXCEPT ![Store] = NoCode]
    /\ CheckGoes(v, IF check[v].at = "lockCode" THEN "lockEmail" ELSE "useEmail")
    /\ UNCHANGED <<pendingFor, lockedOut, accepted, refusals, racing, checkOnly>>

\* otp:email is deleted.
DeleteEmail(v) ==
    /\ check[v].at \in {"lockEmail", "useEmail"}
    /\ pendingFor' = pendingFor \ {Store}
    /\ \/ check[v].at = "lockEmail" /\ Refused(v)
       \/ check[v].at = "useEmail" /\ CheckGoes(v, "useLockout") /\ UNCHANGED refusals
    /\ UNCHANGED <<kept, lockedOut, accepted, racing, checkOnly>>

DeleteLockout(v) ==
    /\ check[v].at = "useLockout"
    /\ lockedOut' = lockedOut \ {Store}
    /\ CheckGoes(v, "enter")
    /\ UNCHANGED <<kept, pendingFor, accepted, refusals, racing, checkOnly>>

\* The count of failed logins is set back and the token issued, if the queries succeed.
Enter(v, succeed) ==
    /\ check[v].at = "enter"
    /\ accepted' = IF succeed THEN [accepted EXCEPT ![check[v].code] = UpTo(2, @)] ELSE accepted
    /\ check' = [check EXCEPT ![v] = NoCheck]
    /\ UNCHANGED <<kept, pendingFor, lockedOut, refusals, racing, checkOnly>>

-----------------------------------------------------------------------------
\* Every entry has a time of its own to run out.
CodeExpires(s) ==
    /\ kept[s] # NoCode /\ kept' = [kept EXCEPT ![s] = NoCode]
    /\ UNCHANGED <<pendingFor, lockedOut, sendOnly, checkOnly>>

EntryExpires(s) ==
    /\ \/ s \in pendingFor /\ pendingFor' = pendingFor \ {s} /\ UNCHANGED <<cooling, lockedOut>>
       \/ s \in cooling /\ cooling' = cooling \ {s} /\ UNCHANGED <<pendingFor, lockedOut>>
       \/ s \in lockedOut /\ lockedOut' = lockedOut \ {s} /\ UNCHANGED <<pendingFor, cooling>>
    /\ UNCHANGED <<kept, sender, mailed, sendOnly>>

\* The connection to Redis is lost or found, or fails one call: what comes next goes
\* to the other store.
OtpRedisChanges ==
    /\ otpRedisUp' = ~otpRedisUp
    /\ racing' = racing \cup ({check[v].code : v \in Checks} \ {0})
    /\ UNCHANGED <<kept, pendingFor, cooling, lockedOut, mailed, sender, check, accepted, refusals>>

\* The process dies, and its memory and its requests with it.
OtpRestart ==
    /\ kept' = [kept EXCEPT !["memory"] = NoCode]
    /\ pendingFor' = pendingFor \ {"memory"} /\ cooling' = cooling \ {"memory"}
    /\ lockedOut' = lockedOut \ {"memory"}
    /\ sender' = [q \in Senders |-> NoSend] /\ check' = [v \in Checks |-> NoCheck]
    /\ UNCHANGED <<otpRedisUp, mailed, accepted, refusals, racing>>

OtpNext ==
    \/ \E q \in Senders :
          \/ AskForCode(q) \/ SetEmail(q) \/ SetCooling(q)
          \/ \E c \in Codes : SetCode(q, c)
          \/ \E sent \in BOOLEAN : MailCode(q, sent)
    \/ \E v \in Checks :
          \/ ReadEmail(v) \/ ReadLockout(v) \/ KeepCode(v) \/ LockOut(v) \/ DeleteCode(v)
          \/ DeleteEmail(v) \/ DeleteLockout(v)
          \/ \E guess \in Codes \cup {0} : ReadCode(v, guess)
          \/ \E succeed \in BOOLEAN : Enter(v, succeed)
    \/ \E s \in Stores : CodeExpires(s) \/ EntryExpires(s)
    \/ OtpRedisChanges \/ OtpRestart

OtpSpec == OtpInit /\ [][OtpNext]_otpVars

-----------------------------------------------------------------------------
(* Properties *)

\* A code lets somebody in once, unless two verifications had read it at one time or
\* the store was exchanged under one.
CodeIsUsedOnce == \A c \in Codes : accepted[c] <= 1 \/ c \in racing

\* A code is refused three times at most, with the same exceptions.
ThreeTries == \A c \in Codes : refusals[c] <= OTP_MAX_ATTEMPTS \/ c \in racing
=============================================================================
