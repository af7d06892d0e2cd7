------------------------------- MODULE TillShift -------------------------------
(***************************************************************************)
(* The outlet and the shift as the till knows them.  A cashier chooses an    *)
(* outlet, which localStorage keeps; the page of the till asks the backend   *)
(* every minute whether the cashier has an open shift, and opens and closes  *)
(* one.  No button waits for an earlier answer, so checks, openings and      *)
(* closings overlap, and the admin or the cron may close the shift meanwhile. *)
(***************************************************************************)
EXTENDS FiniteSets

CONSTANTS
    Outlets, NoOutlet,
    TillCalls     \* requests the till may have under way

ASSUME TillShiftAssumption == NoOutlet \notin Outlets

VARIABLES
    shiftAt,      \* backend: the outlet of the cashier's open shift, or NoOutlet
    place,        \* the page; "mount": the page of the till runs its onMount
    offer,        \* outlet selection: how its list stands, and selected_outlet_id
    outlet, savedAt, \* pos_store.selected_outlet_id, and localStorage's selected_outlet
    believed,     \* has_open_shift
    checking,     \* is_checking_shift
    poll,         \* the minute: "pending" until onMount has asked once, "on", or "leaked",
                  \* when it was set up after its page was left, so that nothing clears it
    call,         \* the requests
    mingled,      \* of the requests under way: they are or were several, or somebody else
                  \* moved the shift meanwhile
    disturbed,    \* the belief rests on no check of its own (see TillKnowsShift)
    otherTab      \* another tab has written selected_outlet since this one read it

pages == <<place, offer, outlet, savedAt, otherTab>>
belief == <<believed, checking>>
requests == <<poll, call, mingled, disturbed>>
tillShiftVars == <<shiftAt, pages, belief, requests>>

Somewhere == Outlets \cup {NoOutlet}
NoCall == [kind |-> "none"]
Call == [kind: {"check", "open", "close"}, answer: {"none", "yes", "no"}, outlet: Somewhere]
NewVisit == [list |-> "asked", picked |-> NoOutlet]

TillShiftTypeOK ==
    /\ {shiftAt, outlet, savedAt} \subseteq Somewhere
    /\ place \in {"login", "outlets", "mount", "pos"}
    /\ offer \in [list: {"asked", "failed", "given"}, picked: Somewhere]
    /\ believed \in BOOLEAN /\ checking \in BOOLEAN
    /\ poll \in {"none", "pending", "on", "leaked"}
    /\ call \in [TillCalls -> Call \cup {NoCall}]
    /\ mingled \in BOOLEAN /\ disturbed \in BOOLEAN /\ otherTab \in BOOLEAN

TillShiftInit ==
    /\ shiftAt = NoOutlet /\ place = "login" /\ offer = NewVisit
    /\ outlet = NoOutlet /\ savedAt = NoOutlet
    /\ believed = TRUE /\ checking = TRUE
    /\ poll = "none" /\ call = [r \in TillCalls |-> NoCall]
    /\ mingled = FALSE /\ disturbed = TRUE /\ otherTab = FALSE

Asking == {r \in TillCalls : call[r] # NoCall}

-----------------------------------------------------------------------------
(* Pages *)

\* The browser loads a page: what the stores held is gone, and nobody waits for
\* the answers any more.
LoadTillPage(page) ==
    /\ place' = page
    /\ offer' = NewVisit /\ outlet' = NoOutlet
    /\ believed' = TRUE /\ checking' = TRUE
    /\ poll' = "none" /\ call' = [r \in TillCalls |-> NoCall]
    /\ mingled' = FALSE /\ disturbed' = TRUE

\* The page of the till is left for another of the same application.  A minute
\* that onMount sets up only after that is never cleared.
Leave(page) ==
    /\ place' = page /\ offer' = NewVisit
    /\ poll' = IF poll = "on" THEN "none" ELSE IF poll = "pending" THEN "leaked" ELSE poll
    /\ UNCHANGED <<shiftAt, outlet, savedAt, otherTab, belief, call, mingled, disturbed>>

\* A cashier logs in: not the one, perhaps, the till has been used by.
LogIn ==
    /\ place = "login"
    /\ place' = "outlets" /\ offer' = NewVisit
    /\ shiftAt' \in Somewhere
    /\ disturbed' = TRUE /\ mingled' = (Asking # {})
    /\ UNCHANGED <<outlet, savedAt, otherTab, belief, poll, call>>

\* handle_logout.
LogOut ==
    /\ place = "pos"
    /\ savedAt' = NoOutlet /\ LoadTillPage("login")
    /\ otherTab' = FALSE /\ UNCHANGED shiftAt

\* The page of the till is opened by its address, or loaded again.
OpenPage == place # "login" /\ LoadTillPage("mount") /\ UNCHANGED <<shiftAt, savedAt, otherTab>>

\* The primary outlet of the cashier is picked, or the first, or there is none.
OutletsGiven ==
    /\ place = "outlets" /\ offer.list = "asked"
    /\ \E o \in Somewhere : offer' = [list |-> "given", picked |-> o]
    /\ UNCHANGED <<shiftAt, place, outlet, savedAt, otherTab, belief, requests>>

OutletsRefused ==
    /\ place = "outlets" /\ offer.list = "asked"
    /\ offer' = [offer EXCEPT !.list = "failed"]
    /\ UNCHANGED <<shiftAt, place, outlet, savedAt, otherTab, belief, requests>>

TryAgain ==
    /\ place = "outlets" /\ offer.list = "failed"
    /\ offer' = [offer EXCEPT !.list = "asked"]
    /\ UNCHANGED <<shiftAt, place, outlet, savedAt, otherTab, belief, requests>>

SelectOutlet(o) ==
    /\ place = "outlets" /\ offer.list = "given" /\ offer.picked # NoOutlet
    /\ offer' = [offer EXCEPT !.picked = o]
    /\ UNCHANGED <<shiftAt, place, outlet, savedAt, otherTab, belief, requests>>

ConfirmSelection ==
    /\ place = "outlets" /\ offer.list = "given" /\ offer.picked # NoOutlet
    /\ savedAt' = offer.picked /\ outlet' = offer.picked
    /\ place' = "mount" /\ offer' = NewVisit /\ otherTab' = FALSE
    /\ UNCHANGED <<shiftAt, belief, requests>>

BackToLogin == place = "outlets" /\ Leave("login")
ChangeOutlet == place = "pos" /\ Leave("outlets")

\* onMount: the outlet, and then the first check, or none while offline.
Mount ==
    LET o == IF savedAt # NoOutlet THEN savedAt ELSE outlet
    IN /\ place = "mount"
       /\ outlet' = o
       /\ IF o = NoOutlet
          THEN place' = "outlets" /\ offer' = NewVisit /\ UNCHANGED <<checking, poll>>
          ELSE /\ place' = "pos" /\ UNCHANGED offer
               /\ \/ poll' = (IF poll = "leaked" THEN poll ELSE "pending") /\ UNCHANGED checking
                  \/ checking' = FALSE /\ UNCHANGED poll
       /\ otherTab' = (otherTab /\ savedAt = NoOutlet)
       /\ UNCHANGED <<shiftAt, savedAt, believed, call, mingled, disturbed>>

\* Another tab of the browser chooses, or logs out.
OtherTab(o) ==
    /\ savedAt' = o /\ otherTab' = TRUE
    /\ UNCHANGED <<shiftAt, place, offer, outlet, belief, requests>>

-----------------------------------------------------------------------------
(* Requests *)

SendShift(kind) ==
    \E r \in TillCalls \ Asking :
        /\ call' = [call EXCEPT ![r] = [kind |-> kind, answer |-> "none",
                                       outlet |-> IF kind = "open" THEN outlet ELSE NoOutlet]]
        /\ mingled' = (Asking # {})

\* check_shift, at first and then every minute.
CheckShift ==
    /\ poll # "none"
    /\ poll' = IF poll = "pending" THEN "on" ELSE poll
    /\ SendShift("check")
    /\ checking' = TRUE
    /\ UNCHANGED <<shiftAt, pages, believed, disturbed>>

\* ModalManager: the dialog covers the page, be it put aside ("Nanti Saja") or not.
MustOpen == place = "pos" /\ ~believed /\ ~checking

OpenShift ==
    /\ MustOpen /\ outlet # NoOutlet
    /\ SendShift("open")
    /\ UNCHANGED <<shiftAt, pages, belief, poll, disturbed>>

\* From its dialog, which a button of the page opens (show_close_shift_modal).
CloseShift ==
    /\ place = "pos"
    /\ SendShift("close")
    /\ UNCHANGED <<shiftAt, pages, belief, poll, disturbed>>

Unserved(r, kind) == r \in Asking /\ call[r].kind = kind /\ call[r].answer = "none"
ServeWith(r, answer) == call' = [call EXCEPT ![r].answer = answer]

\* getCurrentShift looks at all outlets.
ServeCheck(r) ==
    /\ Unserved(r, "check")
    /\ ServeWith(r, IF shiftAt # NoOutlet THEN "yes" ELSE "no")
    /\ UNCHANGED <<shiftAt, pages, belief, poll, mingled, disturbed>>

\* startShift answers with the open shift of today at the outlet, or inserts one;
\* the index refuses a second one, and an outlet that is not the cashier's.
ServeOpen(r) ==
    /\ Unserved(r, "open")
    /\ \/ /\ shiftAt \in {NoOutlet, call[r].outlet}
          /\ shiftAt' = call[r].outlet
          /\ ServeWith(r, "yes")
       \/ ServeWith(r, "no") /\ UNCHANGED shiftAt
    /\ UNCHANGED <<pages, belief, poll, mingled, disturbed>>

\* closeShift.
ServeClose(r) ==
    /\ Unserved(r, "close")
    /\ \/ /\ shiftAt # NoOutlet
          /\ shiftAt' = NoOutlet
          /\ ServeWith(r, "yes")
       \/ ServeWith(r, "no") /\ UNCHANGED shiftAt
    /\ UNCHANGED <<pages, belief, poll, mingled, disturbed>>

\* What an answer makes of the belief: a check tells, and of the others it is
\* known what they did when they went through.
\* Variant: a closing that went through is left to the next check.
Believe_NotClosed(c) ==
    CASE c.kind = "check" -> c.answer = "yes"
      [] c.kind = "open"  -> believed \/ c.answer = "yes"
      [] c.kind = "close" -> believed

Believe(c) ==
    CASE c.kind = "check" -> c.answer = "yes"
      [] c.kind = "open"  -> believed \/ c.answer = "yes"
      [] c.kind = "close" -> believed /\ c.answer # "yes"

Settles(c) == c.kind = "check" \/ c.answer = "yes"

ShiftAnswered(r) ==
    LET c == call[r]
    IN /\ r \in Asking /\ c.answer # "none"
       /\ call' = [call EXCEPT ![r] = NoCall]
       /\ believed' = Believe(c)
       /\ checking' = (checking /\ c.kind # "check")
       /\ disturbed' = (mingled \/ (disturbed /\ ~Settles(c)))
       /\ mingled' = (mingled /\ Asking # {r})
       /\ UNCHANGED <<shiftAt, pages, poll>>

\* No answer, or an error: of a check this counts as "no shift".
NotAnswered(r) ==
    LET c == call[r]
    IN /\ r \in Asking
       /\ call' = [call EXCEPT ![r] = NoCall]
       /\ believed' = (believed /\ c.kind # "check")
       /\ checking' = (checking /\ c.kind # "check")
       /\ disturbed' = TRUE
       /\ mingled' = (mingled /\ Asking # {r})
       /\ UNCHANGED <<shiftAt, pages, poll>>

\* 401, or no CSRF token to send: the api client loads the login page.
SentAway ==
    /\ Asking # {} \/ (place = "outlets" /\ offer.list = "asked")
    /\ LoadTillPage("login") /\ UNCHANGED <<shiftAt, savedAt, otherTab>>

\* An admin or the cron closes the shift, or the cashier uses another device.
Elsewhere ==
    /\ shiftAt' \in Somewhere \ {shiftAt}
    /\ disturbed' = TRUE /\ mingled' = (Asking # {})
    /\ UNCHANGED <<pages, belief, poll, call>>

TillShiftNext ==
    \/ LogIn \/ LogOut \/ OpenPage \/ OutletsGiven \/ OutletsRefused \/ TryAgain
    \/ ConfirmSelection \/ BackToLogin \/ ChangeOutlet \/ Mount
    \/ \E o \in Outlets : SelectOutlet(o)
    \/ \E o \in Somewhere : OtherTab(o)
    \/ CheckShift \/ OpenShift \/ CloseShift
    \/ \E r \in TillCalls : \/ ServeCheck(r) \/ ServeOpen(r) \/ ServeClose(r)
                            \/ ShiftAnswered(r) \/ NotAnswered(r)
    \/ SentAway \/ Elsewhere

TillShiftSpec == TillShiftInit /\ [][TillShiftNext]_tillShiftVars

-----------------------------------------------------------------------------
\* When nothing is under way the till knows whether the cashier has a shift, so
\* that it is neither blocked nor sells without one - if the last request was
\* answered and ran alone, and nobody else has moved the shift since it was asked.
TillKnowsShift ==
    (Asking = {} /\ ~disturbed) => (believed <=> shiftAt # NoOutlet)

\* The till sells for an outlet, and for the one a reload will come back to,
\* unless another tab chose or logged out.
OutletIsKept ==
    place = "pos" => outlet # NoOutlet /\ (outlet = savedAt \/ otherTab)
=============================================================================
