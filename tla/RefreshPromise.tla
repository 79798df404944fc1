--------------------------- MODULE RefreshPromise ---------------------------
(***************************************************************************)
(* What services/refresh_scheduler.py promises whoever calls mark_dirty(): *)
(* a refresh follows, however many calls it merges, unless cancel() or     *)
(* force_refresh() comes first; and no refresh is made that neither a      *)
(* report nor force_refresh() asked for.                                   *)
(***************************************************************************)
EXTENDS Naturals

VARIABLES owed,       \* a change was reported that no refresh has covered yet
          refreshes,  \* how many times refresh_requested was emitted
          orders      \* how many calls of force_refresh() and cancel()

vars == <<owed, refreshes, orders>>

Init ==
    /\ owed = FALSE
    /\ refreshes = 0
    /\ orders = 0

Report ==
    /\ owed' = TRUE
    /\ UNCHANGED <<refreshes, orders>>

Refresh ==
    /\ owed
    /\ owed' = FALSE
    /\ refreshes' = refreshes + 1
    /\ UNCHANGED orders

Force ==
    /\ owed' = FALSE
    /\ refreshes' = refreshes + 1
    /\ orders' = orders + 1

Forget ==
    /\ owed' = FALSE
    /\ orders' = orders + 1
    /\ UNCHANGED refreshes

Next ==
    \/ Report
    \/ Refresh
    \/ Force
    \/ Forget

Safety == Init /\ [][Next]_vars
Spec == Safety /\ WF_vars(Refresh)
=============================================================================
