------------------------------- MODULE TillMember ------------------------------
(***************************************************************************)
(* The member at the till.  member_store holds the member of the sale and    *)
(* whether points are redeemed, and the sidebar a flag of its own: the sale   *)
(* redeems by the first, the total the customer is told follows the second.   *)
(* A lookup may be answered after its dialog was closed, and the answer of a  *)
(* sale's points (process_points) after the member has changed.  A sale does  *)
(* not end with the member: the next one is the same member's until removed.  *)
(***************************************************************************)
EXTENDS FiniteSets

CONSTANTS
    Members, NoMember,
    PointCalls    \* process_points under way

ASSUME TillMemberAssumption == NoMember \notin Members

VARIABLES
    current,      \* current_member's id
    hasPoints,    \* ... and whether the points shown of it are more than 0
    redeem,       \* selected_for_redeem
    usePoints,    \* member_use_points of the sidebar
    lookupOpen,   \* show_member_modal of the sidebar
    lookup,       \* the member the running lookup will be answered with
    points,       \* the calls: the member that was current when they were sent
    astray       \* since a member was chosen, the sidebar was mounted anew, or a lookup
                  \* was answered with no dialog open

tillMemberVars == <<current, hasPoints, redeem, usePoints, lookupOpen, lookup, points, astray>>

NotLooking == "none"
Failing == "fails"

TillMemberTypeOK ==
    /\ current \in Members \cup {NoMember}
    /\ hasPoints \in BOOLEAN /\ redeem \in BOOLEAN /\ usePoints \in BOOLEAN
    /\ lookupOpen \in BOOLEAN /\ astray \in BOOLEAN
    /\ lookup \in Members \cup {NotLooking, Failing}
    /\ points \in [PointCalls -> Members \cup {NoMember}]

TillMemberInit ==
    /\ current = NoMember /\ hasPoints = FALSE /\ redeem = FALSE
    /\ usePoints = FALSE /\ lookupOpen = FALSE
    /\ lookup = NotLooking
    /\ points = [r \in PointCalls |-> NoMember]
    /\ astray = FALSE

\* What the store's clear() leaves.
Clear == current' = NoMember /\ hasPoints' = FALSE /\ redeem' = FALSE

-----------------------------------------------------------------------------
(* The dialog *)

OpenLookup ==
    /\ current = NoMember /\ ~lookupOpen
    /\ lookupOpen' = TRUE
    /\ UNCHANGED <<current, hasPoints, redeem, usePoints, lookup, points, astray>>

\* handle_search; the button waits for the answer of an earlier search.
Search(m) ==
    /\ lookupOpen /\ current = NoMember /\ lookup = NotLooking
    /\ lookup' = m
    /\ UNCHANGED <<current, hasPoints, redeem, usePoints, lookupOpen, points, astray>>

\* The answer takes its place whether or not the dialog still waits for it.
Found ==
    /\ lookup \in Members
    /\ current' = lookup /\ hasPoints' \in BOOLEAN
    /\ lookup' = NotLooking
    /\ astray' = (astray \/ ~lookupOpen)
    /\ UNCHANGED <<redeem, usePoints, lookupOpen, points>>

\* No such member, or no answer.
NotFound ==
    /\ lookup # NotLooking
    /\ current' = NoMember /\ hasPoints' = FALSE
    /\ lookup' = NotLooking
    /\ UNCHANGED <<redeem, usePoints, lookupOpen, points, astray>>

\* The box is there when there are points.
TickRedeem ==
    /\ lookupOpen /\ current # NoMember /\ hasPoints
    /\ redeem' = ~redeem
    /\ UNCHANGED <<current, hasPoints, usePoints, lookupOpen, lookup, points, astray>>

\* "Cari Lagi": the tick stays.
SearchAgain ==
    /\ lookupOpen /\ current # NoMember
    /\ current' = NoMember /\ hasPoints' = FALSE
    /\ UNCHANGED <<redeem, usePoints, lookupOpen, lookup, points, astray>>

\* handle_select and handle_member_selected.
\* Variant: the sidebar is told that points are used when there are any.
SelectMember_IfPoints ==
    /\ lookupOpen /\ current # NoMember
    /\ usePoints' = hasPoints
    /\ lookupOpen' = FALSE /\ astray' = FALSE
    /\ UNCHANGED <<current, hasPoints, redeem, lookup, points>>

SelectMember ==
    /\ lookupOpen /\ current # NoMember
    /\ usePoints' = redeem
    /\ lookupOpen' = FALSE /\ astray' = FALSE
    /\ UNCHANGED <<current, hasPoints, redeem, lookup, points>>

\* handle_close.
CloseLookup ==
    /\ lookupOpen
    /\ lookupOpen' = FALSE /\ Clear
    /\ UNCHANGED <<usePoints, lookup, points, astray>>

-----------------------------------------------------------------------------
(* The sidebar and the sale *)

\* "Hapus Member"; the dialog would cover the button.
RemoveMember ==
    /\ current # NoMember /\ ~lookupOpen
    /\ Clear
    /\ UNCHANGED <<usePoints, lookupOpen, lookup, points, astray>>

\* A sale went through: process_member_points.
ProcessPoints(r) ==
    /\ current # NoMember /\ ~lookupOpen /\ points[r] = NoMember
    /\ points' = [points EXCEPT ![r] = current]
    /\ UNCHANGED <<current, hasPoints, redeem, usePoints, lookupOpen, lookup, astray>>

\* The balance of the answer becomes that of the member who is current now.
PointsProcessed(r) ==
    /\ points[r] # NoMember
    /\ points' = [points EXCEPT ![r] = NoMember]
    /\ IF current = NoMember THEN UNCHANGED hasPoints ELSE hasPoints' \in BOOLEAN
    /\ UNCHANGED <<current, redeem, usePoints, lookupOpen, lookup, astray>>

\* The page is left and comes back: the store survives, the sidebar's flags do not.
MountSidebar ==
    /\ usePoints' = FALSE /\ lookupOpen' = FALSE
    /\ astray' = TRUE
    /\ UNCHANGED <<current, hasPoints, redeem, lookup, points>>

\* The page is loaded again.
LoadTill ==
    /\ Clear
    /\ usePoints' = FALSE /\ lookupOpen' = FALSE /\ lookup' = NotLooking
    /\ points' = [r \in PointCalls |-> NoMember] /\ astray' = FALSE

TillMemberNext ==
    \/ OpenLookup \/ Found \/ NotFound \/ TickRedeem \/ SearchAgain \/ SelectMember
    \/ CloseLookup \/ RemoveMember \/ MountSidebar \/ LoadTill
    \/ \E m \in Members \cup {Failing} : Search(m)
    \/ \E r \in PointCalls : ProcessPoints(r) \/ PointsProcessed(r)

TillMemberSpec == TillMemberInit /\ [][TillMemberNext]_tillMemberVars

-----------------------------------------------------------------------------
\* The total that is shown is less by the points exactly when the sale will ask
\* to redeem them: what the sidebar remembers and what the store holds agree,
\* through searches, removals and sales, unless the sidebar was mounted anew or a
\* lookup came back to no dialog.
TotalFollowsRedeem ==
    (current # NoMember /\ ~lookupOpen /\ ~astray) => usePoints = redeem
=============================================================================
