------------------------------ MODULE SourceSwitch ------------------------------
(***************************************************************************)
(* What the source-mode controller promises (the design document of        *)
(* sessions and replay, sections 4.1 and 6): a switch in front of the bus  *)
(* with one source on it.  A base can be swapped for a base, a replay can  *)
(* take the base's place and gives it back to that same base; the mode     *)
(* shown follows the source that is on, never ahead of it, and while it    *)
(* says "replay" no base is swapped.                                       *)
(***************************************************************************)
EXTENDS SourceKinds

VARIABLES
    active,   \* the source on the bus
    shown,    \* the mode the navbar shows
    home      \* the base to come back to after a replay

vars == <<active, shown, home>>

Init ==
    /\ home \in Base
    /\ active = home
    /\ shown = home

SwapBase ==
    /\ active \in Base
    /\ shown # "replay"
    /\ home' \in Base
    /\ active' = home'
    /\ UNCHANGED shown

EnterReplay ==
    /\ active = home
    /\ shown = home
    /\ active' = "replay"
    /\ UNCHANGED <<shown, home>>

LeaveReplay ==
    /\ shown = "replay"
    /\ active = "replay"
    /\ active' = home
    /\ UNCHANGED <<shown, home>>

Show ==
    /\ shown' = active
    /\ UNCHANGED <<active, home>>

Next == SwapBase \/ EnterReplay \/ LeaveReplay \/ Show

Spec == Init /\ [][Next]_vars
=================================================================================
