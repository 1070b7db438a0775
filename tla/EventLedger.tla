---------------------------- MODULE EventLedger ----------------------------
(***************************************************************************)
(* What the lakehouse promises of each event, whoever refreshes it, however *)
(* often, and whatever fails on the way: it is loaded from the source, then *)
(* it gets one verdict, accepted or rejected, and neither is ever taken     *)
(* back.  A summary shows only what was accepted, and counts only what has  *)
(* a verdict; it is replaced as a whole and may fall behind for a while.    *)
(***************************************************************************)

CONSTANT Event

VARIABLES source,    \* what the live system has stored so far
          loaded,    \* Bronze
          accepted,  \* Silver
          rejected,  \* Rejected
          shown,     \* what the traffic summaries are made of
          counted    \* what the quality summary is made of

ledger == <<source, loaded, accepted, rejected>>
vars == <<ledger, shown, counted>>

Init ==
    /\ source = {} /\ loaded = {} /\ accepted = {} /\ rejected = {}
    /\ shown = {} /\ counted = {}

Arrive ==
    /\ source \subseteq source' /\ source' \subseteq Event
    /\ UNCHANGED <<loaded, accepted, rejected, shown, counted>>

Load ==
    /\ loaded \subseteq loaded' /\ loaded' \subseteq source
    /\ UNCHANGED <<source, accepted, rejected, shown, counted>>

\* A loaded event may get its verdict; nobody gets a second one.
Judge ==
    /\ accepted \subseteq accepted' /\ rejected \subseteq rejected'
    /\ accepted' \union rejected' \subseteq loaded
    /\ accepted' \cap rejected' = {}
    /\ UNCHANGED <<source, loaded, shown, counted>>

Summarise ==
    /\ shown' \subseteq accepted
    /\ counted' \subseteq accepted \union rejected
    /\ UNCHANGED ledger

Next == Arrive \/ Load \/ Judge \/ Summarise

Spec == Init /\ [][Next]_vars
=============================================================================
