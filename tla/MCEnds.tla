--------------------------------- MODULE MCEnds ---------------------------------
(***************************************************************************)
(* What must happen in the end, with the fairness each module states: a      *)
(* shift that is overdue, a sale that was made offline, a discount that is   *)
(* over.  part says which of the three modules moves; what is written in the *)
(* modules as fairness of an action of theirs is fairness of the action      *)
(* while the module moves, so that a conjunct here serves all three.         *)
(***************************************************************************)
EXTENDS CashDrawer, TillSync, Pricing, TLC

VARIABLE part

endVars == <<part, drawerVars, tillSyncVars, priceVars>>

InDrawerOnly == part = "drawer" /\ UNCHANGED <<part, tillSyncVars, priceVars>>
InQueueOnly == part = "queue" /\ UNCHANGED <<part, drawerVars, priceVars>>
InPriceOnly == part = "price" /\ UNCHANGED <<part, drawerVars, tillSyncVars>>

EndsInit ==
    /\ part \in {"drawer", "queue", "price"}
    /\ DrawerInit /\ TillSyncInit /\ PricingInit
    /\ part # "queue" => offline

EndsNext ==
    \/ InDrawerOnly /\ DrawerNext
    \/ InQueueOnly /\ TillSyncNext
    \/ InPriceOnly /\ PricingNext

-----------------------------------------------------------------------------
\* The conjuncts of DrawerFairness, TillSyncFairness and PricingFairness, side by
\* side.
EndsFairness ==
    /\ WF_endVars(\/ InQueueOnly /\ GoOffline
                  \/ InDrawerOnly /\ \E r \in Requests : InsertRefused(r))
    /\ \A h \in Handlers :
          /\ SF_endVars(\/ InQueueOnly /\ GoOnline(h)
                        \/ InDrawerOnly /\ h \in Requests /\ Check(h)
                        \/ InPriceOnly /\ CronFinds)
          /\ SF_endVars(\/ InQueueOnly /\ SendBatch(h)
                        \/ InDrawerOnly /\ h \in Requests /\ SumSales(h)
                        \/ InPriceOnly /\ CronSwitches)
          /\ WF_endVars(InQueueOnly /\ PrintStep(h))
    /\ \A x \in OfflineSales, s \in ShiftIds :
          /\ SF_endVars(\/ InQueueOnly /\ \E h \in Handlers : BackendRecords(h, x)
                        \/ InDrawerOnly /\ \E r \in Requests : AutoFind(r, s)
                        \/ InPriceOnly /\ cron.at = "expire" /\ CronSwitches)
          /\ SF_endVars(\/ InQueueOnly /\ \E h \in Handlers :
                              \E ok \in SUBSET (handler[h].list \cap recorded) :
                                 x \in ok /\ AnswerBatch(h, ok)
                        \/ InDrawerOnly /\ \E r \in Requests : Write(r))

EndsSpec == EndsInit /\ [][EndsNext]_endVars /\ EndsFairness

-----------------------------------------------------------------------------
\* Ten percent off everything, every day.
DailyRule ==
    1 :> [scope |-> "all_products", target |-> 0, type |-> "percentage", value |-> 10,
          days |-> "every"]
PriceOf == 1 :> 100 @@ 2 :> 200
CategoryOf == 1 :> 1 @@ 2 :> 1
ExtraOf == "a" :> 0
=============================================================================
