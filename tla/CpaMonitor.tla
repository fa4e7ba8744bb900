--------------------------------- MODULE CpaMonitor ---------------------------------
(***************************************************************************)
(* The AIS collision monitor (packages/compute/src/alarms/cpa-monitor.ts): *)
(* a check every two seconds of all targets against the boat's own vector, *)
(* one registry entry for all threats.  What computeCpa makes of a target  *)
(* is reduced to no threat, a threat (WARN) or an imminent one (CRITICAL). *)
(* The registry of targets (packages/bridge/src/ais/targets-registry.ts)   *)
(* has one stamp per target, which every message of it renews, whatever    *)
(* it says: the vector may be older than the stamp.                        *)
(***************************************************************************)
EXTENDS AlarmsRegistry, FiniteSets

CONSTANT Vessels

VARIABLES
    cpaReg,     \* the entry 'ais-cpa'
    gates,      \* the alarm is enabled, in the alarms' and in the AIS settings
    ownFresh,   \* position, course and speed were all heard within STALE_MS
    seen,       \* what the stored vector of a vessel makes it
    course,     \* what the vessel's movement makes it
    heard,      \* the vessels with a message within STALE_MS
    verdict,    \* history: the outcome of the last check
    answered    \* history: the severity acknowledged since there was no threat

CpaVars == <<cpaReg, gates, ownFresh, seen, course, heard, verdict, answered>>

Levels == {"none", "WARN", "CRITICAL"}

CpaTypeOK ==
    /\ cpaReg \in Registries
    /\ gates \in BOOLEAN
    /\ ownFresh \in BOOLEAN
    /\ seen \in [Vessels -> Levels]
    /\ course \in [Vessels -> Levels]
    /\ heard \subseteq Vessels
    /\ verdict \in Levels
    /\ answered \in Levels

CpaInit ==
    /\ cpaReg = Empty
    /\ gates = TRUE
    /\ ownFresh = FALSE
    /\ seen = [v \in Vessels |-> "none"]
    /\ course = [v \in Vessels |-> "none"]
    /\ heard = {}
    /\ verdict = "none"
    /\ answered = "none"

---------------------------------------------------------------------------------
(* The check.  No gate, no own vector or no threat: the alarm is cleared. *)

CanJudge == gates /\ ownFresh
Threats(level) == {v \in heard : seen[v] = level}
Worst ==
    IF ~CanJudge THEN "none"
    ELSE IF Threats("CRITICAL") # {} THEN "CRITICAL"
    ELSE IF Threats("WARN") # {} THEN "WARN" ELSE "none"

CheckClear ==
    /\ Worst = "none"
    /\ cpaReg' = Clear(cpaReg, TRUE)
    /\ answered' = "none"

AckedPending ==
    /\ cpaReg.alarm.severity # "none"
    /\ ~cpaReg.alarm.cleared
    /\ cpaReg.alarm.acked

Escalates == Worst = "CRITICAL" /\ cpaReg.alarm.severity # "CRITICAL"

(* Mutant: an acknowledged alarm never escalates. *)
CheckHeldAlways ==
    /\ Worst # "none"
    /\ AckedPending
    /\ UNCHANGED <<cpaReg, answered>>

(* Acknowledged and not worse than then: nothing. *)
CheckHeld ==
    /\ Worst # "none"
    /\ AckedPending /\ ~Escalates
    /\ UNCHANGED <<cpaReg, answered>>

CheckFire ==
    /\ Worst # "none"
    /\ AckedPending => Escalates
    /\ cpaReg' = Fire(cpaReg, Worst, FALSE, TRUE)
    /\ UNCHANGED answered

Check ==
    /\ CheckClear \/ CheckHeld \/ CheckFire
    /\ verdict' = Worst
    /\ UNCHANGED <<gates, ownFresh, seen, course, heard>>

---------------------------------------------------------------------------------
(* PATCH /api/alarms and the settings. *)
AcknowledgeCpa ==
    /\ cpaReg' = Ack(cpaReg, TRUE)
    /\ answered' = IF Sounding(cpaReg.alarm) THEN cpaReg.alarm.severity ELSE answered
    /\ UNCHANGED <<gates, ownFresh, seen, course, heard, verdict>>

ConfigureCpa ==
    /\ gates' = ~gates
    /\ UNCHANGED <<cpaReg, ownFresh, seen, course, heard, verdict, answered>>

(* Mutant: the stored vector wins over the report. *)
ReportKeepsVector(v) ==
    /\ seen' = [seen EXCEPT ![v] = IF v \in heard THEN @ ELSE course[v]]
    /\ heard' = heard \cup {v}
    /\ UNCHANGED <<cpaReg, gates, ownFresh, course, verdict, answered>>

(* upsert: a position report brings the vector up to date, any other       *)
(* message only the stamp.                                                 *)
Report(v) ==
    /\ seen' = [seen EXCEPT ![v] = course[v]]
    /\ heard' = heard \cup {v}
    /\ UNCHANGED <<cpaReg, gates, ownFresh, course, verdict, answered>>

StaticData(v) ==
    /\ heard' = heard \cup {v}
    /\ UNCHANGED <<cpaReg, gates, ownFresh, seen, course, verdict, answered>>

(* The world: vessels turn and fall silent, the boat's own data come and go. *)
Turn(v) ==
    /\ \E level \in Levels : course' = [course EXCEPT ![v] = level]
    /\ UNCHANGED <<cpaReg, gates, ownFresh, seen, heard, verdict, answered>>

Silence(v) ==
    /\ heard' = heard \ {v}
    /\ UNCHANGED <<cpaReg, gates, ownFresh, seen, course, verdict, answered>>

OwnVector ==
    /\ ownFresh' = ~ownFresh
    /\ UNCHANGED <<cpaReg, gates, seen, course, heard, verdict, answered>>

CpaNext ==
    \/ Check \/ AcknowledgeCpa \/ ConfigureCpa \/ OwnVector
    \/ \E v \in Vessels : Report(v) \/ StaticData(v) \/ Turn(v) \/ Silence(v)

(* The interval timer keeps running; targets that sail on keep reporting. *)
CpaFairness ==
    /\ WF_CpaVars(Check)
    /\ \A v \in Vessels : WF_CpaVars(Report(v))

CpaSpec == CpaInit /\ [][CpaNext]_CpaVars /\ CpaFairness

---------------------------------------------------------------------------------
(* A threat the last check found sounds at its severity, unless the helm   *)
(* acknowledged one of at least that severity since there last was none    *)
(* (cpa-monitor.ts:154-159).  So an acknowledged WARN cannot hide a        *)
(* vessel that becomes imminent.                                           *)
ThreatSounds ==
    \/ verdict = "none" /\ ~Sounding(cpaReg.alarm)
    \/ verdict # "none" /\ Sounding(cpaReg.alarm) /\ cpaReg.alarm.severity = verdict
    \/ verdict # "none" /\ answered \in {verdict, "CRITICAL"} /\ ~Sounding(cpaReg.alarm)

(* An acknowledged alarm is silent at the next check, unless that check    *)
(* finds worse (cpa-monitor.ts:154).                                       *)
AckNotUndone ==
    [][(AckedPending /\ Sounding(cpaReg'.alarm)) => (cpaReg.alarm.severity = "WARN" /\ verdict' = "CRITICAL")]_CpaVars

(* The collision alarm is an alarm of AlarmLife: due when a vessel is a    *)
(* threat, silent once acknowledged for as long as there is one, unless a  *)
(* WARN was acknowledged and one becomes CRITICAL (cpa-monitor.ts:154).    *)
CpaLife ==
    IF Sounding(cpaReg.alarm) THEN "sounding" ELSE IF AckedPending THEN "answered" ELSE "quiet"

Collision == INSTANCE AlarmLife WITH
    life <- CpaLife,
    level <- IF CpaLife = "quiet" THEN "none" ELSE cpaReg.alarm.severity,
    due <- Worst # "none",
    Overrides <- {<<"WARN", "CRITICAL">>}

CpaIsAnAlarm == Collision!LifeSpec

(* A vessel on a collision course gets the helm's attention, through       *)
(* whatever comes and goes before, as long as it stays on that course, is  *)
(* heard, the boat knows its own vector and the alarm is not switched off  *)
(* (cpa-monitor.ts:68-70).                                                 *)
Colliding(v) == course[v] = "CRITICAL" /\ v \in heard /\ CanJudge
CollisionNoticed ==
    \A v \in Vessels :
        Colliding(v) ~> (Sounding(cpaReg.alarm) \/ answered # "none" \/ ~Colliding(v))

(* Refuted.  Acknowledged, the alarm fires again when the situation        *)
(* escalates from WARN to CRITICAL (cpa-monitor.ts:155).                   *)
EscalationSounds ==
    [][(verdict = "WARN" /\ verdict' = "CRITICAL") => Sounding(cpaReg'.alarm)]_CpaVars
=================================================================================
