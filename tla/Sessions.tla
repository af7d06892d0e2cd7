---------------------------------- MODULE Sessions -------------------------------
(***************************************************************************)
(* The tokens of a cashier's browser: the login gives one, a timer of the     *)
(* page exchanges it for a new one before it expires, the logout puts it on   *)
(* a block list, in PostgreSQL and in Redis, and the guard of every request   *)
(* asks both lists.  Redis and the database fail when they like.              *)
(***************************************************************************)
EXTENDS Naturals, FiniteSets

CONSTANTS
    MaxTokens,       \* bound: tokens issued
    Guards           \* requests that may be under way

ASSUME SessionAssumption == MaxTokens \in Nat \ {0}

Tokens == 1..MaxTokens
MaxRetries == 3

VARIABLES
    token,        \* where the tokens are in their life; "due": its last hour
    cookie,       \* access_token, or 0
    inDb, inRedis,\* the block lists
    redisUp,      \* isAvailable
    logout,       \* the running logout: blockJwt and its token
    guard,        \* the requests: isJwtBlocked
    page,         \* the page and its timer (auth_store); reads: it can read its cookies,
                  \* access_token and csrf_token, which the login sets httpOnly
    failures,     \* refreshes that failed since one went through, at most 3
    strayed       \* a refresh was answered after the page was given up, or a logout was lost

sessionVars == <<token, cookie, inDb, inRedis, redisUp, logout, guard, page, failures, strayed>>

NoLogout == [at |-> "idle", token |-> 0]
NoGuard == [at |-> "idle", token |-> 0, refresh |-> FALSE, blocked |-> FALSE]

\* blocked: the token was on the list in the database when the request came.
GuardRow == [at: {"idle", "redis", "db", "accepted", "refused"}, token: Tokens \cup {0},
             refresh: BOOLEAN, blocked: BOOLEAN]

SessionTypeOK ==
    /\ token \in [Tokens -> {"none", "fresh", "due", "expired"}]
    /\ cookie \in Tokens \cup {0}
    /\ inDb \subseteq Tokens /\ inRedis \subseteq Tokens /\ redisUp \in BOOLEAN
    /\ logout \in {NoLogout} \cup [at: {"db", "redis"}, token: Tokens]
    /\ guard \in [Guards -> GuardRow]
    /\ page \in [at: {"out", "verify", "in", "left", "forced"}, timer: {"none", "due", "retry"},
                 tries: 0..(MaxRetries - 1), reads: BOOLEAN]
    /\ failures \in 0..MaxRetries /\ strayed \in BOOLEAN

SessionInit ==
    /\ token = [t \in Tokens |-> "none"] /\ cookie = 0
    /\ inDb = {} /\ inRedis = {} /\ redisUp \in BOOLEAN
    /\ logout = NoLogout
    /\ guard = [g \in Guards |-> NoGuard]
    /\ page \in [at: {"out"}, timer: {"none"}, tries: {0}, reads: BOOLEAN]
    /\ failures = 0 /\ strayed = FALSE

-----------------------------------------------------------------------------
Live(t) == t # 0 /\ token[t] \in {"fresh", "due"}
Alive == page.at \in {"verify", "in"}
Refreshing == \E g \in Guards : guard[g].at # "idle" /\ guard[g].refresh

\* A new token, set as the cookie.
Issue == \E t \in Tokens : /\ token[t] = "none" /\ \A u \in 1..(t - 1) : token[u] # "none"
                           /\ token' = [token EXCEPT ![t] = "fresh"] /\ cookie' = t

\* POST /auth/login; the page that comes next asks /auth/me first.
Login ==
    /\ page.at \in {"out", "left", "forced"}
    /\ Issue
    /\ page' = [page EXCEPT !.at = "verify", !.timer = "none", !.tries = 0]
    /\ failures' = 0
    /\ UNCHANGED <<inDb, inRedis, redisUp, logout, guard, strayed>>

\* init_silent_refresh: an hour before the token expires, or at once.
InitRefresh(t) ==
    page' = [page EXCEPT !.at = "in", !.tries = 0,
                         !.timer = IF page.reads /\ t # 0 THEN "due" ELSE "none"]

Verified ==
    /\ page.at = "verify" /\ Live(cookie)
    /\ InitRefresh(cookie)
    /\ UNCHANGED <<token, cookie, inDb, inRedis, redisUp, logout, guard, failures, strayed>>

\* /auth/me is refused, or the token has expired: to the login page, no logout.
VerifyRefused ==
    /\ page.at = "verify"
    /\ page' = [page EXCEPT !.at = "left", !.timer = "none", !.tries = 0]
    /\ UNCHANGED <<token, cookie, inDb, inRedis, redisUp, logout, guard, failures, strayed>>

\* The page is left and comes back: the timer is cleared, and its count with it.
Remount ==
    /\ page.at = "in"
    /\ page' = [page EXCEPT !.at = "verify", !.timer = "none", !.tries = 0]
    /\ UNCHANGED <<token, cookie, inDb, inRedis, redisUp, logout, guard, failures, strayed>>

TokenAges(t) ==
    /\ Live(t)
    /\ token' = [token EXCEPT ![t] = IF @ = "fresh" THEN "due" ELSE "expired"]
    /\ UNCHANGED <<cookie, inDb, inRedis, redisUp, logout, guard, page, failures, strayed>>

-----------------------------------------------------------------------------
(* The guard: JwtStrategy and isJwtBlocked *)

\* The signature and the expiry are checked first.
Arrive(g, t, refresh) ==
    /\ guard[g] = NoGuard /\ Live(t)
    /\ guard' = [guard EXCEPT ![g] = [at |-> IF redisUp THEN "redis" ELSE "db", token |-> t,
                                      refresh |-> refresh, blocked |-> t \in inDb]]

\* It may have been on its way for a while: any token that was a cookie once.
TokenRequest(g, t) ==
    /\ Arrive(g, t, FALSE)
    /\ UNCHANGED <<token, cookie, inDb, inRedis, redisUp, logout, page, failures, strayed>>

\* Variant: what is not in Redis is not looked for in the database.
AfterRedis_Trusted(found) == IF found THEN "refused" ELSE "accepted"

AfterRedis(found) == IF found THEN "refused" ELSE "db"

\* exists, or an error.
LookInRedis(g, fails) ==
    /\ guard[g].at = "redis"
    /\ guard' = [guard EXCEPT ![g].at =
                   IF fails \/ ~redisUp THEN "db" ELSE AfterRedis(guard[g].token \in inRedis)]
    /\ UNCHANGED <<token, cookie, inDb, inRedis, redisUp, logout, page, failures, strayed>>

\* An error refuses as well (fail-closed).
LookInDb(g, fails) ==
    /\ guard[g].at = "db"
    /\ guard' = [guard EXCEPT ![g].at =
                   IF fails \/ guard[g].token \in inDb THEN "refused" ELSE "accepted"]
    /\ UNCHANGED <<token, cookie, inDb, inRedis, redisUp, logout, page, failures, strayed>>

Answered(g) ==
    /\ guard[g].at \in {"accepted", "refused"} /\ ~guard[g].refresh
    /\ guard' = [guard EXCEPT ![g] = NoGuard]
    /\ UNCHANGED <<token, cookie, inDb, inRedis, redisUp, logout, page, failures, strayed>>

-----------------------------------------------------------------------------
(* The refresh: refresh_token, schedule_retry, force_logout *)

Refresh(g) ==
    /\ Alive /\ page.timer # "none"
    /\ Arrive(g, cookie, TRUE)
    /\ page' = [page EXCEPT !.timer = "none"]
    /\ UNCHANGED <<token, cookie, inDb, inRedis, redisUp, logout, failures, strayed>>

\* The old token stays good until it expires.
RefreshOk(g) ==
    /\ guard[g].at = "accepted" /\ guard[g].refresh
    /\ Issue
    /\ guard' = [guard EXCEPT ![g] = NoGuard]
    /\ IF Alive
       THEN /\ page' = [page EXCEPT !.tries = 0,
                                    !.timer = IF page.reads THEN "due" ELSE "none"]
            /\ failures' = 0 /\ UNCHANGED strayed
       ELSE strayed' = TRUE /\ UNCHANGED <<page, failures>>
    /\ UNCHANGED <<inDb, inRedis, redisUp, logout>>

\* What the backend does at once; blockJwt goes on from here.
LogoutCall(reached) ==
    /\ logout' = IF reached /\ logout = NoLogout /\ cookie # 0 /\ token[cookie] # "expired"
                 THEN [at |-> "db", token |-> cookie] ELSE logout
    /\ cookie' = IF reached THEN 0 ELSE cookie

\* Variant: a failure more.
LastTry_OneMore == page.tries >= MaxRetries

LastTry == page.tries + 1 >= MaxRetries

\* The third failure ends the session (force_logout), with a logout that is not
\* waited for and needs no csrf_token.
Failed(reached) ==
    /\ failures' = IF failures < MaxRetries THEN failures + 1 ELSE failures
    /\ IF LastTry
       THEN page' = [page EXCEPT !.at = "forced", !.timer = "none", !.tries = 0] /\ LogoutCall(reached)
       ELSE /\ page' = [page EXCEPT !.tries = @ + 1, !.timer = "retry"]
            /\ UNCHANGED <<logout, cookie>>

\* The token has expired, the browser is offline or the answer is lost.
RefreshWithoutAnswer(reached) ==
    /\ Alive /\ page.timer # "none"
    /\ Failed(reached)
    /\ UNCHANGED <<token, inDb, inRedis, redisUp, guard, strayed>>

\* Refused, or no answer.  The page may have been given up meanwhile.
RefreshFails(g, reached) ==
    /\ guard[g].at # "idle" /\ guard[g].refresh
    /\ guard' = [guard EXCEPT ![g] = NoGuard]
    /\ IF Alive THEN Failed(reached) ELSE UNCHANGED <<page, failures, logout, cookie>>
    /\ UNCHANGED <<token, inDb, inRedis, redisUp, strayed>>

-----------------------------------------------------------------------------
(* The logout: blockJwt *)

\* The page goes to the login page whatever comes of it.  Its request is not even
\* sent when it cannot read csrf_token.
Logout(lost) ==
    /\ page.at \in {"verify", "in"} /\ logout = NoLogout
    /\ LogoutCall(page.reads /\ ~lost)
    /\ strayed' = (strayed \/ lost \/ ~page.reads)
    /\ page' = [page EXCEPT !.at = "out", !.timer = "none", !.tries = 0]
    /\ UNCHANGED <<token, inDb, inRedis, redisUp, guard, failures>>

BlockInDb(fails) ==
    /\ logout.at = "db"
    /\ inDb' = IF fails THEN inDb ELSE inDb \cup {logout.token}
    /\ logout' = IF redisUp THEN [logout EXCEPT !.at = "redis"] ELSE NoLogout
    /\ UNCHANGED <<token, cookie, inRedis, redisUp, guard, page, failures, strayed>>

BlockInRedis(fails) ==
    /\ logout.at = "redis"
    /\ inRedis' = IF fails \/ ~redisUp THEN inRedis ELSE inRedis \cup {logout.token}
    /\ logout' = NoLogout
    /\ UNCHANGED <<token, cookie, inDb, redisUp, guard, page, failures, strayed>>

\* The connection is lost or comes back; a Redis that was restarted is empty.
RedisChanges(kept) ==
    /\ redisUp' = ~redisUp
    /\ inRedis' = IF kept THEN inRedis ELSE {}
    /\ UNCHANGED <<token, cookie, inDb, logout, guard, page, failures, strayed>>

\* Every night at three.
CleanUp ==
    /\ inDb' = {t \in inDb : token[t] # "expired"}
    /\ UNCHANGED <<token, cookie, inRedis, redisUp, logout, guard, page, failures, strayed>>

-----------------------------------------------------------------------------
SessionNext ==
    \/ Login \/ Verified \/ VerifyRefused \/ Remount \/ CleanUp
    \/ \E t \in Tokens : TokenAges(t)
    \/ \E g \in Guards :
          \/ \E t \in Tokens : TokenRequest(g, t)
          \/ Answered(g) \/ Refresh(g) \/ RefreshOk(g)
          \/ \E reached \in BOOLEAN : RefreshFails(g, reached)
          \/ \E fails \in BOOLEAN : LookInRedis(g, fails) \/ LookInDb(g, fails)
    \/ \E fails \in BOOLEAN : BlockInDb(fails) \/ BlockInRedis(fails) \/ RedisChanges(fails)
    \/ \E lost \in BOOLEAN : Logout(lost) \/ RefreshWithoutAnswer(lost)

SessionSpec == SessionInit /\ [][SessionNext]_sessionVars

-----------------------------------------------------------------------------
(* Properties *)

\* A request that comes after the logout was stored in the database is refused,
\* whatever Redis has lost or not answered: "revoked tokens remain blocked even
\* when Redis is down".
RevokedIsRefused ==
    \A g \in Guards :
       guard[g].at = "accepted" /\ guard[g].blocked => token[guard[g].token] = "expired"

\* A session is only ended after three refreshes failed in a row.
ForcedOutAfterThree == page.at = "forced" => failures = MaxRetries

\* "Provides automatic token refresh before expiry": as long as the page is open
\* and can read its cookies there is a timer or a refresh under way.
RefreshGoesOn == page.at = "in" /\ page.reads => page.timer # "none" \/ Refreshing

\* After a logout the browser has no token, unless a refresh was answered late
\* or the logout was lost.
NoTokenAfterLogout == page.at = "out" => cookie = 0 \/ strayed

\* A session lives as long as its page and no longer: it is renewed until three
\* refreshes fail, and a logout leaves no token that opens anything.
SessionsEnd == RevokedIsRefused /\ ForcedOutAfterThree /\ RefreshGoesOn /\ NoTokenAfterLogout
=============================================================================
