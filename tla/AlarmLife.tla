-------------------------------- MODULE AlarmLife --------------------------------
(***************************************************************************)
(* What every safety alarm promises the helm (packages/core/src/alarms.ts  *)
(* and the predicates of packages/compute/src/alarms): it begins to sound  *)
(* only when it is due, and once answered it stays silent until its        *)
(* condition has gone, unless what comes is worse in a way that an answer  *)
(* does not cover.                                                         *)
(***************************************************************************)

CONSTANT Overrides   \* <<from, to>>: the severities an answer to `from' does not cover

VARIABLES
    life,     \* "quiet", "sounding" or "answered"
    level,    \* the severity that sounds or was answered; "none" when quiet
    due       \* the alarm's condition is met; it changes as it pleases

LifeInit ==
    /\ life = "quiet"
    /\ level = "none"

(* The alarm fires, for the first time or again while it sounds. *)
Raise ==
    /\ due
    /\ life # "answered"
    /\ life' = "sounding"
    /\ level' \in {"WARN", "CRITICAL"}

Answer ==
    /\ life = "sounding"
    /\ life' = "answered"
    /\ level' = level

Override ==
    /\ due
    /\ life = "answered"
    /\ <<level, level'>> \in Overrides
    /\ life' = "sounding"

(* The condition goes, the alarm is called off, or the process restarts. *)
Subside ==
    /\ life' = "quiet"
    /\ level' = "none"

LifeNext == Raise \/ Answer \/ Override \/ Subside

LifeSpec == LifeInit /\ [][LifeNext]_<<life, level>>
=================================================================================
