--------------------------------- MODULE AppCache --------------------------------
(***************************************************************************)
(* The service worker of the till.  Every build has caches of its own: the   *)
(* shell is loaded when its worker is installed, answers and pages are stored  *)
(* as they come, and a worker that takes over deletes every cache that is not  *)
(* its own.  A page is of the build that is on the server when it is asked for, *)
(* whichever build's worker asks.  Putting an answer away is not awaited, so   *)
(* that two requests for one address may be stored in the order they did not   *)
(* come in, and may fail, which nobody is told.                               *)
(*                                                                         *)
(* What the browser does (the states of a worker, its waiting until the old    *)
(* one has answered) is modelled from the Service Worker standard.            *)
(***************************************************************************)
EXTENDS Naturals, FiniteSets

CONSTANTS
    Routes,       \* APP_SHELL_ROUTES
    Fetches,      \* GET requests for one API address that may be under way
    Loads,        \* requests for pages of the shell that may be under way
    MaxVersions,  \* bound: builds deployed
    MaxData       \* bound: changes of what the API answers

ASSUME AppCacheAssumption == Routes # {} /\ MaxVersions \in Nat \ {0} /\ MaxData \in Nat

Versions == 1..MaxVersions
Kinds == {"app-shell", "api-cache"}   \* the static cache goes as the API cache does

VARIABLES
    deployed, data,   \* the build on the server, and what the API would answer
    worker,           \* the state of each build's worker
    names,            \* the caches there are
    shell, answers,   \* what the shell caches hold (of which build each route's page
                      \* is) and what the API caches hold (0: nothing)
    listed,           \* the keys an activating worker has read
    fetching, pageLoads,   \* the requests
    heard,            \* the newest answer the pages got from each build's worker
    shellCrossed,     \* builds whose requests overlapped, or could not store an answer
    workersCrowded    \* builds that were installed while another took over

cacheVars == <<deployed, data, worker, names, shell, answers, listed, fetching, heard,
               shellCrossed, workersCrowded, pageLoads>>

NoFetch == [at |-> "idle"]
NoPages == [r \in Routes |-> 0]

AppCacheTypeOK ==
    /\ deployed \in Versions /\ data \in 1..(MaxData + 1)
    /\ worker \in [Versions -> {"none", "installing", "waiting", "activating", "active", "gone"}]
    /\ names \subseteq Kinds \X Versions /\ listed \subseteq names
    /\ shell \in [Versions -> [Routes -> 0..MaxVersions]]
    /\ answers \in [Versions -> 0..(MaxData + 1)]
    /\ \A f \in Fetches : fetching[f] = NoFetch \/
          fetching[f] \in [at: {"sent", "store"}, by: Versions, answer: 0..(MaxData + 1)]
    /\ \A l \in Loads : pageLoads[l] = NoFetch \/
          pageLoads[l] \in [at: {"sent", "store"}, by: Versions, route: Routes, page: 0..MaxVersions]
    /\ heard \in [Versions -> 0..(MaxData + 1)]
    /\ shellCrossed \subseteq Versions /\ workersCrowded \subseteq Versions

AppCacheInit ==
    /\ deployed = 1 /\ data = 1
    /\ worker = [v \in Versions |-> "none"] /\ names = {} /\ listed = {}
    /\ shell = [v \in Versions |-> NoPages] /\ answers = [v \in Versions |-> 0]
    /\ fetching = [f \in Fetches |-> NoFetch] /\ pageLoads = [l \in Loads |-> NoFetch]
    /\ heard = [v \in Versions |-> 0]
    /\ shellCrossed = {} /\ workersCrowded = {}

-----------------------------------------------------------------------------
In(v, states) == worker[v] \in states
Move(v, state) == worker' = [worker EXCEPT ![v] = state]
Busy(v) == \/ \E f \in Fetches : fetching[f].at = "sent" /\ fetching[f].by = v
           \/ \E l \in Loads : pageLoads[l].at = "sent" /\ pageLoads[l].by = v

\* A build is put on the server; the API's data change.
Deploy ==
    /\ deployed < MaxVersions /\ deployed' = deployed + 1
    /\ UNCHANGED <<data, worker, names, shell, answers, listed, fetching, heard, shellCrossed, workersCrowded, pageLoads>>

DataChange ==
    /\ data <= MaxData /\ data' = data + 1
    /\ UNCHANGED <<deployed, worker, names, shell, answers, listed, fetching, heard, shellCrossed, workersCrowded, pageLoads>>

\* The browser finds a new worker and installs it, one at a time.
Install(v) ==
    /\ v = deployed /\ In(v, {"none"})
    /\ \A w \in Versions : ~In(w, {"installing", "waiting"})
    /\ Move(v, "installing")
    /\ names' = names \cup {<<"app-shell", v>>}
    /\ workersCrowded' = IF \E w \in Versions : In(w, {"activating"}) THEN workersCrowded \cup {v} ELSE workersCrowded
    /\ UNCHANGED <<deployed, data, shell, answers, listed, fetching, heard, shellCrossed, pageLoads>>

\* addAll: all of them or none, each of a build that was on the server meanwhile.
Added(v) == [Routes -> v..deployed]

\* skipWaiting.  A cache deleted meanwhile is filled for nobody.
AddShell(v) ==
    /\ In(v, {"installing"})
    /\ \E added \in Added(v) :
          shell' = [shell EXCEPT ![v] = IF <<"app-shell", v>> \in names THEN added ELSE NoPages]
    /\ Move(v, "waiting")
    /\ UNCHANGED <<deployed, data, names, answers, listed, fetching, heard, shellCrossed, workersCrowded, pageLoads>>

\* A route was not to be had: the browser drops the worker; its cache stays, empty.
InstallFails(v) ==
    /\ In(v, {"installing"}) /\ Move(v, "none")
    /\ UNCHANGED <<deployed, data, names, shell, answers, listed, fetching, heard, shellCrossed, workersCrowded, pageLoads>>

\* The browser waits for the old worker's answers and makes it redundant.
Activate(v) ==
    /\ In(v, {"waiting"})
    /\ \A w \in Versions : In(w, {"active", "activating"}) => In(w, {"active"}) /\ ~Busy(w)
    /\ worker' = [w \in Versions |->
          CASE w = v -> "activating" [] In(w, {"active"}) -> "gone" [] OTHER -> worker[w]]
    /\ UNCHANGED <<deployed, data, names, shell, answers, listed, fetching, heard, shellCrossed, workersCrowded, pageLoads>>

Foreign(v) == {n \in names : n[2] # v}

ListCaches(v) ==
    /\ In(v, {"activating"}) /\ listed = {}
    /\ listed' = Foreign(v) /\ listed' # {}
    /\ UNCHANGED <<deployed, data, worker, names, shell, answers, fetching, heard, shellCrossed, workersCrowded, pageLoads>>

\* The listed caches are deleted, and the pages claimed.
TakeOver(v) ==
    /\ In(v, {"activating"}) /\ (listed # {} \/ Foreign(v) = {})
    /\ names' = names \ listed /\ listed' = {}
    /\ shell' = [w \in Versions |-> IF <<"app-shell", w>> \in names' THEN shell[w] ELSE NoPages]
    /\ answers' = [w \in Versions |-> IF <<"api-cache", w>> \in names' THEN answers[w] ELSE 0]
    /\ Move(v, "active")
    /\ UNCHANGED <<deployed, data, fetching, heard, shellCrossed, workersCrowded, pageLoads>>

-----------------------------------------------------------------------------
(* network_first *)

\* The cache is opened, which makes it, and the network is asked.
Fetch(f, v) ==
    /\ fetching[f] = NoFetch /\ In(v, {"active"})
    /\ names' = names \cup {<<"api-cache", v>>}
    /\ fetching' = [fetching EXCEPT ![f] = [at |-> "sent", by |-> v, answer |-> 0]]
    /\ shellCrossed' = IF \E g \in Fetches : fetching[g] # NoFetch THEN shellCrossed \cup {v} ELSE shellCrossed
    /\ UNCHANGED <<deployed, data, worker, shell, answers, listed, heard, workersCrowded, pageLoads>>

\* The page has its answer before it is stored.
NetworkAnswers(f) ==
    LET v == fetching[f].by
    IN  /\ fetching[f].at = "sent"
        /\ fetching' = [fetching EXCEPT ![f].at = "store", ![f].answer = data]
        /\ heard' = [heard EXCEPT ![v] = data]
        /\ UNCHANGED <<deployed, data, worker, names, shell, answers, listed, shellCrossed, workersCrowded, pageLoads>>

\* The network is away, or its answer no success: the page gets the stored
\* answer, the offline answer or the failure; nothing is stored.
NetworkFails(f) ==
    /\ fetching[f].at = "sent"
    /\ fetching' = [fetching EXCEPT ![f] = NoFetch]
    /\ UNCHANGED <<deployed, data, worker, names, shell, answers, listed, heard, shellCrossed, workersCrowded, pageLoads>>

Kept(old, new) == new

\* cache.put, to the cache that was opened: a deleted one takes it for nobody.
StoreAnswer(f) ==
    LET v == fetching[f].by
    IN  /\ fetching[f].at = "store"
        /\ answers' = IF <<"api-cache", v>> \in names
                      THEN [answers EXCEPT ![v] = Kept(@, fetching[f].answer)] ELSE answers
        /\ fetching' = [fetching EXCEPT ![f] = NoFetch]
        /\ UNCHANGED <<deployed, data, worker, names, shell, listed, heard, shellCrossed, workersCrowded, pageLoads>>

\* cache.put is refused, for want of space.
StoreFails(f) ==
    /\ fetching[f].at = "store"
    /\ shellCrossed' = shellCrossed \cup {fetching[f].by}
    /\ fetching' = [fetching EXCEPT ![f] = NoFetch]
    /\ UNCHANGED <<deployed, data, worker, names, shell, answers, listed, heard, workersCrowded, pageLoads>>

-----------------------------------------------------------------------------
(* network_first_with_fallback, for the pages of the shell *)

FetchPage(l, v, r) ==
    /\ pageLoads[l] = NoFetch /\ In(v, {"active"})
    /\ names' = names \cup {<<"app-shell", v>>}
    /\ pageLoads' = [pageLoads EXCEPT ![l] = [at |-> "sent", by |-> v, route |-> r, page |-> 0]]
    /\ UNCHANGED <<deployed, data, worker, shell, answers, listed, fetching, heard, shellCrossed, workersCrowded>>

\* The server sends the page of the build it has.
PageComes(l) ==
    /\ pageLoads[l].at = "sent"
    /\ pageLoads' = [pageLoads EXCEPT ![l].at = "store", ![l].page = deployed]
    /\ UNCHANGED <<deployed, data, worker, names, shell, answers, listed, fetching, heard, shellCrossed, workersCrowded>>

\* The network is away: the stored page, or that of '/'.  Or the page is not stored.
PageFails(l) ==
    /\ pageLoads[l] # NoFetch
    /\ pageLoads' = [pageLoads EXCEPT ![l] = NoFetch]
    /\ UNCHANGED <<deployed, data, worker, names, shell, answers, listed, fetching, heard, shellCrossed, workersCrowded>>

StorePage(l) ==
    LET v == pageLoads[l].by
    IN  /\ pageLoads[l].at = "store"
        /\ shell' = IF <<"app-shell", v>> \in names
                    THEN [shell EXCEPT ![v][pageLoads[l].route] = pageLoads[l].page] ELSE shell
        /\ pageLoads' = [pageLoads EXCEPT ![l] = NoFetch]
        /\ UNCHANGED <<deployed, data, worker, names, answers, listed, fetching, heard, shellCrossed, workersCrowded>>

AppCacheNext ==
    \/ Deploy \/ DataChange
    \/ \E v \in Versions : Install(v) \/ AddShell(v) \/ InstallFails(v) \/ Activate(v)
                           \/ ListCaches(v) \/ TakeOver(v)
    \/ \E f \in Fetches : NetworkAnswers(f) \/ NetworkFails(f) \/ StoreAnswer(f) \/ StoreFails(f)
                          \/ \E v \in Versions : Fetch(f, v)
    \/ \E l \in Loads : PageComes(l) \/ PageFails(l) \/ StorePage(l)
                        \/ \E v \in Versions, r \in Routes : FetchPage(l, v, r)

AppCacheSpec == AppCacheInit /\ [][AppCacheNext]_cacheVars

-----------------------------------------------------------------------------
(* Properties *)

\* A worker that answers has a page for every route to answer with, unless it was
\* installed while another took over, which deletes the caches of newer builds too.
\* The page is of its own build or of one that was deployed since, never of an older.
ShellIsWhole ==
    \A v \in Versions : In(v, {"active"}) /\ v \notin workersCrowded =>
       \A r \in Routes : shell[v][r] \in v..deployed

\* Offline the till is shown the newest answer it was shown online by this build,
\* unless requests overlapped or an answer could not be stored.
NewestIsKept ==
    \A v \in Versions :
       /\ In(v, {"active"}) /\ v \notin shellCrossed
       /\ \A f \in Fetches : fetching[f].at # "store"
       => answers[v] = heard[v]

\* Where a worker has taken over, older builds leave no cache behind.
OldCachesGo ==
    \A v \in Versions : In(v, {"active"}) => \A n \in names : n[2] >= v

\* A till that is offline has all its pages, none of them older than its worker, and
\* the newest data it has seen.  (They need not be of one build: a page that was loaded
\* after a deployment stands in the old build's cache.)
CachesAreWhole == ShellIsWhole /\ NewestIsKept /\ OldCachesGo
=============================================================================
