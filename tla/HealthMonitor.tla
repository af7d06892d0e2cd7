------------------------------ MODULE HealthMonitor ------------------------------
(***************************************************************************)
(* health-monitor.sh: a check of every container, with a file that counts the  *)
(* checks in a row that went badly, and a page for those that have reached the  *)
(* threshold.  A check takes several calls of docker and the count is read and   *)
(* written back, into a file that is emptied first; two monitors (the timer's    *)
(* and an administrator's) may run at once.  Under "set -e" a log line or a      *)
(* message that fails ends the monitor.  --watch ends at its first line,         *)
(* `local` outside of a function.                                               *)
(***************************************************************************)
EXTENDS Integers, FiniteSets

CONSTANTS
    Containers,   \* the containers of the list
    Monitors,     \* monitors that may run at once
    AlertThreshold,    \* UNHEALTHY_THRESHOLD
    MaxBad        \* bound: bad checks in a row

ASSUME HealthMonitorAssumption == AlertThreshold \in Nat \ {0} /\ MaxBad \in Nat

VARIABLES
    container,    \* what docker would say of each
    counter,      \* the counter files; 0: there is none
    monitor,      \* the monitors
    bad,          \* bad checks in a row that have ended, of each container
    countSpoiled  \* containers whose count another monitor, or one that was killed as
                  \* it wrote, may have spoiled

healthVars == <<container, counter, monitor, bad, countSpoiled>>

NoMonitor == [at |-> "idle"]
Sights == {"nothing", "down", "running", "healthy"}

MonitorTypeOK ==
    /\ container \in [Containers -> {"healthy", "unhealthy", "down"}]
    /\ counter \in [Containers -> 0..(MaxBad + 1)] /\ bad \in [Containers -> 0..(MaxBad + 1)]
    /\ monitor \in [Monitors -> {NoMonitor} \cup
          [at: {"status", "health", "read", "write", "fill", "page", "send"}, left: SUBSET Containers,
           of: Containers \cup {"none"}, saw: Sights, count: 0..(MaxBad + 1),
           critical: SUBSET [of: Containers, saw: Sights, bad: 0..(MaxBad + 1)]]]
    /\ countSpoiled \subseteq Containers

HealthInit ==
    /\ container = [c \in Containers |-> "healthy"] /\ counter = [c \in Containers |-> 0]
    /\ monitor = [k \in Monitors |-> NoMonitor] /\ bad = [c \in Containers |-> 0]
    /\ countSpoiled = {}

-----------------------------------------------------------------------------
ContainerChanges(c, state) ==
    /\ state # container[c] /\ container' = [container EXCEPT ![c] = state]
    /\ UNCHANGED <<counter, monitor, bad, countSpoiled>>

\* paged: the containers found critical, each with the bad checks it had then.
StartMonitor(k) ==
    /\ monitor[k] = NoMonitor
    /\ monitor' = [monitor EXCEPT ![k] = [at |-> "status", left |-> Containers, of |-> "none",
                                          saw |-> "nothing", count |-> 0, critical |-> {}]]
    /\ countSpoiled' = IF \E j \in Monitors : monitor[j] # NoMonitor THEN Containers ELSE countSpoiled
    /\ UNCHANGED <<container, counter, bad>>

Of(k) == monitor[k].of

\* docker inspect: its status ...
InspectStatus(k, c) ==
    /\ monitor[k].at = "status" /\ c \in monitor[k].left
    /\ monitor' = [monitor EXCEPT ![k].at = "health", ![k].of = c,
                                  ![k].saw = IF container[c] = "down" THEN "down" ELSE "running"]
    /\ UNCHANGED <<container, counter, bad, countSpoiled>>

\* ... and its health.  Who is running and healthy loses the file.
InspectHealth(k) ==
    /\ monitor[k].at = "health"
    /\ IF monitor[k].saw = "running" /\ container[Of(k)] = "healthy"
       THEN monitor' = [monitor EXCEPT ![k].at = "write", ![k].saw = "healthy"]
       ELSE monitor' = [monitor EXCEPT ![k].at = "read"]
    /\ UNCHANGED <<container, counter, bad, countSpoiled>>

ReadCounter(k) ==
    /\ monitor[k].at = "read" /\ counter[Of(k)] <= MaxBad
    /\ monitor' = [monitor EXCEPT ![k].at = "write", ![k].count = counter[Of(k)] + 1]
    /\ UNCHANGED <<container, counter, bad, countSpoiled>>

AfterHealthy(count) == 0

ThresholdReached(count) == count >= AlertThreshold

\* The verdict.  Of a container that is down the function prints two lines, which
\* the caller knows neither as "unhealthy" nor as "down": it takes it for critical.
Critical(k) ==
    \/ monitor[k].saw = "down"
    \/ monitor[k].saw = "running" /\ ThresholdReached(monitor[k].count)

\* `echo > file` empties the file ...
EmptyCounter(k) ==
    /\ monitor[k].at = "write" /\ monitor[k].saw # "healthy"
    /\ counter' = [counter EXCEPT ![Of(k)] = 0]
    /\ monitor' = [monitor EXCEPT ![k].at = "fill"]
    /\ UNCHANGED <<container, bad, countSpoiled>>

\* ... and writes the count; of a healthy container the file goes.
WriteCounter(k) ==
    LET c == Of(k)
        healthy == monitor[k].saw = "healthy"
        alone == \A j \in Monitors \ {k} : monitor[j] = NoMonitor
    IN  /\ monitor[k].at = "fill" \/ (monitor[k].at = "write" /\ healthy)
        /\ bad[c] <= MaxBad
        /\ counter' = [counter EXCEPT ![c] = IF healthy THEN AfterHealthy(@) ELSE monitor[k].count]
        /\ bad' = [bad EXCEPT ![c] = IF healthy THEN 0 ELSE @ + 1]
        /\ countSpoiled' = IF healthy /\ alone THEN countSpoiled \ {c} ELSE countSpoiled
        /\ monitor' = [monitor EXCEPT ![k].left = @ \ {c}, ![k].saw = "nothing",
                          ![k].at = IF monitor[k].left = {c} THEN "page" ELSE "status",
                          ![k].critical = IF Critical(k)
                                          THEN @ \cup {[of |-> c, saw |-> monitor[k].saw, bad |-> bad'[c]]}
                                          ELSE @]
        /\ UNCHANGED container

\* The log line, then a message for each container on the list.
LogAlert(k) ==
    /\ monitor[k].at = "page"
    /\ monitor' = [monitor EXCEPT ![k].at = "send"]
    /\ UNCHANGED <<container, counter, bad, countSpoiled>>

PageOut(k, c) ==
    /\ monitor[k].at = "send" /\ \E p \in monitor[k].critical : p.of = c
    /\ monitor' = [monitor EXCEPT ![k].critical = {p \in @ : p.of # c}]
    /\ UNCHANGED <<container, counter, bad, countSpoiled>>

EndMonitor(k) ==
    /\ monitor[k].at = "send" /\ monitor[k].critical = {}
    /\ monitor' = [monitor EXCEPT ![k] = NoMonitor]
    /\ UNCHANGED <<container, counter, bad, countSpoiled>>

\* The monitor ends: it is killed, at whatever it is, or its tee or its curl fails,
\* and who is left on the list is not paged.
MonitorDies(k) ==
    /\ monitor[k] # NoMonitor
    /\ monitor' = [monitor EXCEPT ![k] = NoMonitor]
    /\ countSpoiled' = IF monitor[k].at = "fill" THEN countSpoiled \cup {Of(k)} ELSE countSpoiled
    /\ UNCHANGED <<container, counter, bad>>

HealthNext ==
    \/ \E c \in Containers, state \in {"healthy", "unhealthy", "down"} : ContainerChanges(c, state)
    \/ \E k \in Monitors :
          \/ StartMonitor(k) \/ InspectHealth(k) \/ ReadCounter(k) \/ EmptyCounter(k)
          \/ WriteCounter(k) \/ LogAlert(k) \/ EndMonitor(k) \/ MonitorDies(k)
          \/ \E c \in Containers : InspectStatus(k, c) \/ PageOut(k, c)

HealthSpec == HealthInit /\ [][HealthNext]_healthVars

-----------------------------------------------------------------------------
(* Properties *)

\* The list of a monitor that comes to its pages: a container that runs is on it only
\* when the threshold of bad checks in a row is reached, and whatever has reached it is
\* on it, however often a monitor ended half way, unless since the container was last
\* well two monitors were at it together or one was killed between emptying and
\* writing its file.  A container that is down is paged for at once.
PagedAtThreshold ==
    \A k \in Monitors :
       monitor[k].at = "page" =>
          /\ \A p \in monitor[k].critical :
                p.saw = "running" /\ p.of \notin countSpoiled => p.bad >= AlertThreshold
          /\ \A c \in Containers \ countSpoiled :
                bad[c] >= AlertThreshold => \E p \in monitor[k].critical : p.of = c

=============================================================================
