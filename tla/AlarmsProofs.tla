------------------------------ MODULE AlarmsProofs ------------------------------
(* Proofs about the held alarms and the collision monitor, for every hold  *)
(* and any vessels, and about the pipeline they make with the anchor       *)
(* watch.  The registry's lemmas are those of AnchorWatchProofs.           *)
EXTENDS AnchorWatchProofs, AlarmsPipeline

LEMMA EmptyFacts == Empty \in Registries /\ ~Sounding(Empty.alarm) /\ Empty.alarm.severity = "none"
<1>1. NoAlarm \in Snapshots /\ NoRow \in Rows
    BY DEF NoAlarm, Snapshots, NoRow, Rows
<1> QED
    BY <1>1 DEF Empty, Registries, NoAlarm, Sounding

---------------------------------------------------------------------------------
(* A timer that is pending belongs to a spell of bad samples that goes on: *)
(* what has passed of it and what is left make the hold, and the alarm has *)
(* not fired.                                                              *)
TimerMeansBad ==
    hold # Off => /\ last = "bad"
                  /\ badFor + hold >= Hold
                  /\ ~Uncleared

HoldInv == HoldTypeOK /\ TimerMeansBad /\ SilentWhenGood

LEMMA HoldInvInit == HoldInit => HoldInv
<1> SUFFICES ASSUME HoldInit PROVE HoldInv
    OBVIOUS
<1> USE HoldAssumption
<1>1. HoldTypeOK
    BY EmptyFacts DEF HoldInit, HoldTypeOK, Off
<1> QED
    BY <1>1, EmptyFacts DEF HoldInit, HoldInv, TimerMeansBad, SilentWhenGood

LEMMA ExpiryFacts ==
    ASSUME HoldExpires, alarmReg \in Registries
    PROVE  /\ hold = 0
           /\ hold' = Off
           /\ UNCHANGED <<enabled, last, badFor>>
           /\ alarmReg' \in Registries
           /\ Sounding(alarmReg'.alarm)
           /\ alarmReg'.alarm.severity = "WARN"
<1>1. "WARN" \in Severities
    BY DEF Severities
<1>2. PICK sticky \in BOOLEAN, ok \in BOOLEAN : alarmReg' = Fire(alarmReg, "WARN", sticky, ok)
    BY Zenon DEF HoldExpires
<1>3. alarmReg' \in Registries /\ Sounding(alarmReg'.alarm) /\ alarmReg'.alarm.severity = "WARN"
    BY <1>1, <1>2, FireFacts
<1>4. hold = 0 /\ hold' = Off /\ UNCHANGED <<enabled, last, badFor>>
    BY Zenon DEF HoldExpires
<1> QED
    BY <1>3, <1>4, Zenon

(* What a good sample and an acknowledgement make of the entry. *)
LEMMA GoodFacts ==
    ASSUME SampleGood, alarmReg \in Registries
    PROVE  /\ ~Sounding(alarmReg'.alarm)
           /\ alarmReg'.alarm.severity # "none" => alarmReg'.alarm.cleared
<1>1. PICK ok \in BOOLEAN : alarmReg' = Clear(alarmReg, ok)
    BY Zenon DEF SampleGood
<1>2. ~Sounding(alarmReg'.alarm)
    BY <1>1, ClearFacts
<1> QED
    BY <1>1, <1>2, AlarmFields

LEMMA HeldAckFacts ==
    ASSUME AcknowledgeHold, alarmReg \in Registries
    PROVE  /\ ~Sounding(alarmReg'.alarm)
           /\ alarmReg'.alarm.severity = alarmReg.alarm.severity
           /\ alarmReg'.alarm.cleared = alarmReg.alarm.cleared
<1>1. PICK ok \in BOOLEAN : alarmReg' = Ack(alarmReg, ok)
    BY Zenon DEF AcknowledgeHold
<1>2. ~Sounding(alarmReg'.alarm)
    BY <1>1, AckFacts
<1> QED
    BY <1>1, <1>2, AlarmFields

LEMMA HoldInvNext == HoldInv /\ [HoldNext]_HoldVars => HoldInv'
<1> SUFFICES ASSUME HoldInv, [HoldNext]_HoldVars PROVE HoldInv'
    OBVIOUS
<1> USE HoldAssumption DEF HoldInv, HoldTypeOK, TimerMeansBad, SilentWhenGood, Off
<1>0. banded' = banded
    BY DEF HoldNext, HoldVars
<1> USE <1>0
<1>1. ASSUME SampleDisabled, UNCHANGED enabled PROVE HoldInv'
    BY <1>1 DEF SampleDisabled
<1>2. ASSUME SampleBad, UNCHANGED enabled PROVE HoldInv'
    BY <1>2 DEF SampleBad, Bad, Uncleared
<1>3. ASSUME SampleBand, UNCHANGED enabled PROVE HoldInv'
    <2>1. hold' = Off /\ last' = "band" /\ badFor' = 0 /\ alarmReg' = alarmReg
        BY <1>3, Zenon DEF SampleBand
    <2> QED
        BY <1>3, <2>1
<1>4. ASSUME SampleGood, UNCHANGED enabled PROVE HoldInv'
    <2>1. alarmReg' \in Registries /\ ~Sounding(alarmReg'.alarm)
        BY <1>4, ClearFacts DEF SampleGood
    <2>2. hold' = Off /\ last' = "good" /\ badFor' = 0
        BY <1>4, Zenon DEF SampleGood
    <2> QED
        BY <1>4, <2>1, <2>2
<1>5. ASSUME HoldExpires PROVE HoldInv'
    BY <1>5, ExpiryFacts
<1>6. ASSUME AcknowledgeHold PROVE HoldInv'
    <2>1. alarmReg' \in Registries /\ ~Sounding(alarmReg'.alarm)
        BY <1>6, AckFacts DEF AcknowledgeHold
    <2>2. Uncleared' <=> Uncleared
        BY <1>6, AlarmFields DEF AcknowledgeHold, Uncleared
    <2> QED
        BY <1>6, <2>1, <2>2 DEF AcknowledgeHold
<1>7. ASSUME Toggle PROVE HoldInv'
    BY <1>7 DEF Toggle, Uncleared
<1>8. ASSUME RestartHold PROVE HoldInv'
    <2>1. alarmReg' \in Registries
        BY <1>8, RestartedFacts DEF RestartHold
    <2> QED
        BY <1>8, <2>1 DEF RestartHold
<1>9. ASSUME HoldTick PROVE HoldInv'
    BY <1>9 DEF HoldTick, Uncleared
<1>10. CASE UNCHANGED HoldVars
    BY <1>10 DEF HoldVars, Uncleared
<1> QED
    BY <1>1, <1>2, <1>3, <1>4, <1>5, <1>6, <1>7, <1>8, <1>9, <1>10 DEF HoldNext, SampleHold

LEMMA HoldInvariance == HoldSpec => []HoldInv
BY HoldInvInit, HoldInvNext, PTL DEF HoldSpec

(* Once a good sample was judged the alarm is silent and stays so: no      *)
(* timer of an earlier spell brings it back (shallow-water.ts:45-51).      *)
THEOREM GoodSilences == HoldSpec => []SilentWhenGood
<1>1. HoldInv => SilentWhenGood
    BY DEF HoldInv
<1> QED
    BY HoldInvariance, <1>1, PTL

LEMMA SoundersWereHeld ==
    HoldInv /\ [HoldNext]_HoldVars =>
        [(~Sounding(alarmReg.alarm) /\ Sounding(alarmReg'.alarm)) => (last = "bad" /\ badFor = Hold)]_HoldVars
<1>1. ASSUME HoldInv, [HoldNext]_HoldVars, ~Sounding(alarmReg.alarm), Sounding(alarmReg'.alarm)
      PROVE  last = "bad" /\ badFor = Hold
    <2>1. alarmReg \in Registries
        BY <1>1 DEF HoldInv, HoldTypeOK
    <2>2. alarmReg' # alarmReg
        BY <1>1
    <2>3. ~SampleGood /\ ~AcknowledgeHold /\ ~RestartHold
        BY <1>1, <2>1, ClearFacts, AckFacts, RestartedFacts DEF SampleGood, AcknowledgeHold, RestartHold
    <2>4. HoldExpires
        BY <1>1, <2>2, <2>3 DEF HoldNext, HoldVars, SampleHold, SampleDisabled, SampleBad, Bad, SampleBand,
           Toggle, HoldTick
    <2> QED
        BY <1>1, <2>4, ExpiryFacts, HoldAssumption DEF HoldInv, HoldTypeOK, TimerMeansBad, Off
<1> QED
    BY <1>1

(* An alarm that begins to sound has had the whole hold of bad samples,    *)
(* with none of another kind between (high-wind.ts:68).                    *)
THEOREM SoundsAfterHold == HoldSpec => FiresAfterHold
BY SoundersWereHeld, HoldInvariance, PTL DEF HoldSpec, FiresAfterHold

LEMMA AnsweredAreSilent ==
    HoldInv /\ [HoldNext]_HoldVars =>
        [(Uncleared /\ alarmReg.alarm.acked) => ~Sounding(alarmReg'.alarm)]_HoldVars
<1>1. ASSUME HoldInv, [HoldNext]_HoldVars, Uncleared, alarmReg.alarm.acked
      PROVE  ~Sounding(alarmReg'.alarm)
    <2>1. alarmReg \in Registries
        BY <1>1 DEF HoldInv, HoldTypeOK
    <2>2. ~HoldExpires
        BY <1>1, <2>1, ExpiryFacts, HoldAssumption DEF HoldInv, TimerMeansBad, Off
    <2>3. CASE alarmReg' = alarmReg
        BY <1>1, <2>3 DEF Sounding
    <2>4. CASE SampleGood \/ AcknowledgeHold \/ RestartHold
        BY <2>1, <2>4, ClearFacts, AckFacts, RestartedFacts DEF SampleGood, AcknowledgeHold, RestartHold
    <2> QED
        BY <1>1, <2>2, <2>3, <2>4 DEF HoldNext, HoldVars, SampleHold, SampleDisabled, SampleBad, Bad,
           SampleBand, Toggle, HoldTick
<1> QED
    BY <1>1

(* An acknowledged alarm stays silent until its condition clears, however  *)
(* many bad samples follow (high-wind.ts:52).                              *)
THEOREM AcknowledgedStaysSilent == HoldSpec => AckHolds
BY AnsweredAreSilent, HoldInvariance, PTL DEF HoldSpec, AckHolds

(* Every step of a held alarm is one of an alarm's life, or none. *)
LEMMA HoldStepIsLife ==
    ASSUME HoldInv, [HoldNext]_HoldVars
    PROVE  \/ Held!LifeNext
           \/ UNCHANGED <<HeldLife, IF HeldLife = "quiet" THEN "none" ELSE alarmReg.alarm.severity>>
<1> USE DEF HeldLife, Uncleared
<1>0. alarmReg \in Registries
    BY DEF HoldInv, HoldTypeOK
<1>1. CASE HoldExpires
    <2>1. hold = 0 /\ Sounding(alarmReg'.alarm) /\ alarmReg'.alarm.severity = "WARN"
        BY <1>0, <1>1, ExpiryFacts
    <2>2. last = "bad" /\ badFor = Hold /\ HeldLife # "answered"
        BY <2>1, HoldAssumption DEF HoldInv, HoldTypeOK, TimerMeansBad, Off
    <2>3. Held!Raise
        BY <2>1, <2>2 DEF Held!Raise
    <2> QED
        BY <2>3 DEF Held!LifeNext
<1>2. CASE SampleGood
    <2>1. ~Sounding(alarmReg'.alarm) /\ (alarmReg'.alarm.severity # "none" => alarmReg'.alarm.cleared)
        BY <1>0, <1>2, GoodFacts
    <2> QED
        BY <2>1 DEF Held!LifeNext, Held!Subside
<1>3. CASE RestartHold
    <2>1. alarmReg'.alarm = NoAlarm
        BY <1>3 DEF RestartHold, Restarted
    <2> QED
        BY <2>1 DEF Held!LifeNext, Held!Subside, NoAlarm, Sounding
<1>4. CASE AcknowledgeHold
    <2>1. /\ ~Sounding(alarmReg'.alarm) /\ alarmReg'.alarm.severity = alarmReg.alarm.severity
          /\ alarmReg'.alarm.cleared = alarmReg.alarm.cleared
        BY <1>0, <1>4, HeldAckFacts
    <2>2. CASE Uncleared
        BY <2>1, <2>2 DEF Held!LifeNext, Held!Answer
    <2>3. CASE ~Uncleared
        BY <2>1, <2>3 DEF Sounding
    <2> QED
        BY <2>2, <2>3
<1>5. CASE alarmReg' = alarmReg
    BY <1>5
<1> QED
    BY <1>1, <1>2, <1>3, <1>4, <1>5 DEF HoldNext, HoldVars, SampleHold, SampleDisabled, SampleBad, Bad,
       SampleBand, Toggle, HoldTick

LEMMA HoldStartsQuiet == HoldInit => Held!LifeInit
BY EmptyFacts DEF HoldInit, HeldLife, Uncleared, Held!LifeInit

(* Refinement: a held alarm is an alarm that begins to sound only when its *)
(* hold of bad samples is complete and that stays silent, once it is       *)
(* acknowledged, until a good sample or a restart, for every hold          *)
(* (high-wind.ts:52, 68).                                                  *)
THEOREM HoldImplementsLife == HoldSpec => HoldIsAnAlarm
<1>1. HoldInv /\ [HoldNext]_HoldVars =>
          [Held!LifeNext]_<<HeldLife, IF HeldLife = "quiet" THEN "none" ELSE alarmReg.alarm.severity>>
    BY HoldStepIsLife
<1> QED
    BY <1>1, HoldStartsQuiet, HoldInvInit, HoldInvNext, PTL DEF HoldSpec, HoldIsAnAlarm, Held!LifeSpec

---------------------------------------------------------------------------------
(* While an acknowledged alarm is pending, what was acknowledged is its    *)
(* severity of now.                                                        *)
AnsweredIsSeverity == AckedPending => answered = cpaReg.alarm.severity

CpaInv == CpaTypeOK /\ AnsweredIsSeverity /\ ThreatSounds

LEMMA CpaInvInit == CpaInit => CpaInv
<1> SUFFICES ASSUME CpaInit PROVE CpaInv
    OBVIOUS
<1>1. CpaTypeOK
    BY EmptyFacts DEF CpaInit, CpaTypeOK, Levels
<1> QED
    BY <1>1, EmptyFacts DEF CpaInit, CpaInv, AnsweredIsSeverity, AckedPending, ThreatSounds

(* Steps that leave the entry and the histories alone. *)
LEMMA CpaAside ==
    ASSUME AnsweredIsSeverity, ThreatSounds, UNCHANGED <<cpaReg, verdict, answered>>
    PROVE  AnsweredIsSeverity' /\ ThreatSounds'
BY DEF AnsweredIsSeverity, AckedPending, ThreatSounds

LEMMA WorstType == Worst \in Levels
BY DEF Worst, Levels

LEMMA FiredFacts ==
    ASSUME CheckFire, cpaReg \in Registries
    PROVE  /\ cpaReg' \in Registries
           /\ cpaReg'.alarm.severity = Worst
           /\ Sounding(cpaReg'.alarm)
<1>1. Worst \in Severities
    BY WorstType DEF CheckFire, Levels, Severities
<1>2. PICK sticky \in BOOLEAN, ok \in BOOLEAN : cpaReg' = Fire(cpaReg, Worst, sticky, ok)
    BY Zenon DEF CheckFire
<1> QED
    BY <1>1, <1>2, FireFacts

LEMMA CpaInvNext == CpaInv /\ [CpaNext]_CpaVars => CpaInv'
<1> SUFFICES ASSUME CpaInv, [CpaNext]_CpaVars PROVE CpaInv'
    OBVIOUS
<1> USE DEF CpaInv, CpaTypeOK
<1>1. ASSUME Check, CheckClear PROVE CpaInv'
    <2>1. cpaReg' \in Registries /\ ~Sounding(cpaReg'.alarm)
        BY <1>1, ClearFacts DEF CheckClear
    <2>2. cpaReg.alarm.severity # "none" => cpaReg'.alarm.cleared
        BY <1>1, AlarmFields DEF CheckClear
    <2>3. cpaReg'.alarm.severity = cpaReg.alarm.severity
        BY <1>1, AlarmFields DEF CheckClear
    <2>4. verdict' = "none" /\ answered' = "none" /\ UNCHANGED <<gates, ownFresh, seen, course, heard>>
        BY <1>1 DEF Check, CheckClear
    <2> QED
        BY <2>1, <2>2, <2>3, <2>4 DEF AnsweredIsSeverity, AckedPending, ThreatSounds, Levels
<1>2. ASSUME Check, CheckHeld PROVE CpaInv'
    <2>1. cpaReg' = cpaReg /\ answered' = answered /\ verdict' = Worst /\ UNCHANGED <<gates, ownFresh, seen, course, heard>>
        BY <1>2 DEF Check, CheckHeld
    <2>2. AckedPending /\ Worst # "none" /\ (Worst = "CRITICAL" => cpaReg.alarm.severity = "CRITICAL")
        BY <1>2 DEF CheckHeld, Escalates
    <2>3. answered = cpaReg.alarm.severity /\ answered # "none" /\ ~Sounding(cpaReg.alarm)
        BY <2>2 DEF AnsweredIsSeverity, AckedPending, Sounding
    <2>4. answered \in {Worst, "CRITICAL"}
        BY <2>2, <2>3, WorstType DEF Levels
    <2>5. ThreatSounds'
        BY <2>1, <2>2, <2>3, <2>4, Zenon DEF ThreatSounds
    <2>6. AnsweredIsSeverity'
        BY <2>1, <2>3 DEF AnsweredIsSeverity
    <2> QED
        BY <2>1, <2>5, <2>6, WorstType
<1>3. ASSUME Check, CheckFire PROVE CpaInv'
    <2>1. verdict' = Worst /\ answered' = answered /\ UNCHANGED <<gates, ownFresh, seen, course, heard>> /\ Worst # "none"
        BY <1>3, Zenon DEF Check, CheckFire
    <2>2. cpaReg' \in Registries /\ cpaReg'.alarm.severity = Worst /\ Sounding(cpaReg'.alarm)
        BY <1>3, FiredFacts
    <2>3. ~AckedPending'
        BY <2>2 DEF AckedPending, Sounding
    <2>4. ThreatSounds'
        BY <2>1, <2>2 DEF ThreatSounds
    <2> QED
        BY <2>1, <2>2, <2>3, <2>4, WorstType DEF AnsweredIsSeverity
<1>4. ASSUME AcknowledgeCpa PROVE CpaInv'
    <2>1. cpaReg' \in Registries /\ ~Sounding(cpaReg'.alarm)
        BY <1>4, AckFacts DEF AcknowledgeCpa
    <2>2. cpaReg'.alarm.severity = cpaReg.alarm.severity /\ cpaReg'.alarm.cleared = cpaReg.alarm.cleared
        BY <1>4, AlarmFields DEF AcknowledgeCpa
    <2>3. answered' = IF Sounding(cpaReg.alarm) THEN cpaReg.alarm.severity ELSE answered
        BY <1>4 DEF AcknowledgeCpa
    <2>4. verdict' = verdict /\ UNCHANGED <<gates, ownFresh, seen, course, heard>>
        BY <1>4 DEF AcknowledgeCpa
    <2>5. cpaReg.alarm.severity \in Levels
        BY DEF Registries, Snapshots, Severities, Levels
    <2>6. AnsweredIsSeverity'
        BY <2>2, <2>3 DEF AnsweredIsSeverity, AckedPending, Sounding
    <2>7. ThreatSounds'
        BY <2>1, <2>3, <2>4 DEF ThreatSounds
    <2> QED
        BY <2>1, <2>3, <2>4, <2>5, <2>6, <2>7
<1>5. ASSUME ConfigureCpa \/ OwnVector PROVE CpaInv'
    BY <1>5, CpaAside DEF ConfigureCpa, OwnVector
<1>6. ASSUME NEW v \in Vessels, Report(v) \/ StaticData(v) \/ Turn(v) \/ Silence(v) PROVE CpaInv'
    BY <1>6, CpaAside DEF Report, StaticData, Turn, Silence
<1>7. CASE UNCHANGED CpaVars
    BY <1>7, CpaAside DEF CpaVars
<1> QED
    BY <1>1, <1>2, <1>3, <1>4, <1>5, <1>6, <1>7 DEF CpaNext, Check

LEMMA CpaInvariance == CpaSpec => []CpaInv
BY CpaInvInit, CpaInvNext, PTL DEF CpaSpec

(* A threat the last check found sounds at its severity, unless one of at  *)
(* least that severity was acknowledged (cpa-monitor.ts:154-159).          *)
THEOREM EveryThreatSounds == CpaSpec => []ThreatSounds
<1>1. CpaInv => ThreatSounds
    BY DEF CpaInv
<1> QED
    BY CpaInvariance, <1>1, PTL

LEMMA SoundersAreWorse ==
    CpaInv /\ [CpaNext]_CpaVars =>
        [(AckedPending /\ Sounding(cpaReg'.alarm)) =>
            (cpaReg.alarm.severity = "WARN" /\ verdict' = "CRITICAL")]_CpaVars
<1>1. ASSUME CpaInv, [CpaNext]_CpaVars, AckedPending, Sounding(cpaReg'.alarm)
      PROVE  cpaReg.alarm.severity = "WARN" /\ verdict' = "CRITICAL"
    <2>1. cpaReg \in Registries
        BY <1>1 DEF CpaInv, CpaTypeOK
    <2>2. cpaReg' # cpaReg
        BY <1>1 DEF AckedPending, Sounding
    <2>3. ~CheckClear /\ ~AcknowledgeCpa
        BY <1>1, <2>1, ClearFacts, AckFacts DEF CheckClear, AcknowledgeCpa
    <2>4. Check /\ CheckFire
        BY <1>1, <2>2, <2>3 DEF CpaNext, CpaVars, Check, CheckHeld, ConfigureCpa, OwnVector, Report,
           StaticData, Turn, Silence
    <2>5. Escalates /\ verdict' = Worst
        BY <1>1, <2>4, Zenon DEF Check, CheckFire
    <2>6. cpaReg.alarm.severity \in Severities
        BY <1>1, <2>1 DEF Registries, Snapshots, AckedPending
    <2> QED
        BY <2>5, <2>6 DEF Escalates, Severities
<1> QED
    BY <1>1

(* An acknowledged alarm sounds again only when a check finds CRITICAL     *)
(* where WARN was acknowledged (cpa-monitor.ts:154).                       *)
THEOREM OnlyWorseSoundsAgain == CpaSpec => AckNotUndone
BY SoundersAreWorse, CpaInvariance, PTL DEF CpaSpec, AckNotUndone

(* Every step of the monitor is one of an alarm's life, or none. *)
LEMMA CpaStepIsLife ==
    ASSUME CpaInv, [CpaNext]_CpaVars
    PROVE  \/ Collision!LifeNext
           \/ UNCHANGED <<CpaLife, IF CpaLife = "quiet" THEN "none" ELSE cpaReg.alarm.severity>>
<1> USE DEF CpaLife, AckedPending
<1>0. cpaReg \in Registries /\ cpaReg.alarm.severity \in {"none", "WARN", "CRITICAL"}
    BY DEF CpaInv, CpaTypeOK, Registries, Snapshots, Severities
<1>1. CASE CheckFire
    <2>1. Sounding(cpaReg'.alarm) /\ cpaReg'.alarm.severity = Worst
        BY <1>0, <1>1, FiredFacts
    <2>2. Worst # "none" /\ Worst \in {"WARN", "CRITICAL"} /\ (AckedPending => Escalates)
        BY <1>1, WorstType, Zenon DEF CheckFire, Levels
    <2>3. CASE CpaLife # "answered"
        BY <2>1, <2>2, <2>3 DEF Collision!LifeNext, Collision!Raise
    <2>4. CASE CpaLife = "answered"
        <3>1. cpaReg.alarm.severity = "WARN" /\ cpaReg'.alarm.severity = "CRITICAL"
            BY <1>0, <2>1, <2>2, <2>4 DEF Escalates
        <3> QED
            BY <2>1, <2>2, <2>4, <3>1 DEF Collision!LifeNext, Collision!Override
    <2> QED
        BY <2>3, <2>4
<1>2. CASE CheckClear
    <2>1. cpaReg' = Clear(cpaReg, TRUE)
        BY <1>2, Zenon DEF CheckClear
    <2>2. /\ ~Sounding(cpaReg'.alarm) /\ cpaReg'.alarm.severity = cpaReg.alarm.severity
          /\ cpaReg.alarm.severity # "none" => cpaReg'.alarm.cleared
        BY <1>0, <2>1, ClearFacts, AlarmFields
    <2> QED
        BY <2>2 DEF Collision!LifeNext, Collision!Subside
<1>3. CASE AcknowledgeCpa
    <2>1. cpaReg' = Ack(cpaReg, TRUE)
        BY <1>3, Zenon DEF AcknowledgeCpa
    <2>2. /\ ~Sounding(cpaReg'.alarm) /\ cpaReg'.alarm.severity = cpaReg.alarm.severity
          /\ cpaReg'.alarm.cleared = cpaReg.alarm.cleared
          /\ cpaReg.alarm.severity # "none" => cpaReg'.alarm.acked
        BY <1>0, <2>1, AckFacts, AlarmFields
    <2>3. CASE cpaReg.alarm.severity # "none" /\ ~cpaReg.alarm.cleared
        BY <2>2, <2>3 DEF Sounding, Collision!LifeNext, Collision!Answer
    <2>4. CASE ~(cpaReg.alarm.severity # "none" /\ ~cpaReg.alarm.cleared)
        BY <2>2, <2>4 DEF Sounding
    <2> QED
        BY <2>3, <2>4
<1>4. CASE cpaReg' = cpaReg
    BY <1>4
<1> QED
    BY <1>1, <1>2, <1>3, <1>4 DEF CpaNext, CpaVars, Check, CheckHeld, ConfigureCpa, OwnVector, Report,
       StaticData, Turn, Silence

LEMMA CpaStartsQuiet == CpaInit => Collision!LifeInit
BY EmptyFacts DEF CpaInit, CpaLife, AckedPending, Collision!LifeInit

(* Refinement: the collision alarm is an alarm that begins to sound only   *)
(* when a vessel is a threat and that, once acknowledged, only a CRITICAL  *)
(* after a WARN brings back, for any vessels (cpa-monitor.ts:154).         *)
THEOREM CpaImplementsLife == CpaSpec => CpaIsAnAlarm
<1>1. CpaInv /\ [CpaNext]_CpaVars =>
          [Collision!LifeNext]_<<CpaLife, IF CpaLife = "quiet" THEN "none" ELSE cpaReg.alarm.severity>>
    BY CpaStepIsLife
<1> QED
    BY <1>1, CpaStartsQuiet, CpaInvInit, CpaInvNext, PTL DEF CpaSpec, CpaIsAnAlarm, Collision!LifeSpec

---------------------------------------------------------------------------------
(* The pipeline.  A step of one predicate leaves the others as they are,   *)
(* so that what each promises it keeps in the whole.                       *)
LEMMA OnePartMoves ==
    ASSUME [PipelineNext]_pipelineVars
    PROVE  [Next]_vars /\ [HoldNext]_HoldVars /\ [CpaNext]_CpaVars
<1>1. CASE UNCHANGED pipelineVars
    BY <1>1 DEF pipelineVars
<1>2. CASE AnchorStep
    BY <1>2 DEF AnchorStep
<1>3. CASE HoldStep
    BY <1>3 DEF HoldStep
<1>4. CASE CpaStep
    BY <1>4 DEF CpaStep
<1> QED
    BY <1>1, <1>2, <1>3, <1>4 DEF PipelineNext

(* The safety of the anchor watch, of the alarms with a hold and of the    *)
(* collision monitor, of the behaviours that are model-checked; each of    *)
(* them is an alarm of AlarmLife in the pipeline too.                      *)
THEOREM PipelineIsSafe ==
    PipelineSpec => /\ []TypeOK /\ []BreachSounds /\ []PushedSeverity /\ []HistoryFollows
                    /\ []SilentWhenGood /\ FiresAfterHold /\ AckHolds
                    /\ []ThreatSounds /\ AckNotUndone
                    /\ EachIsAnAlarm
<1>1. PipelineInit => Inv /\ PushInv /\ HistoryInv /\ AnsweredInv /\ HoldInv /\ CpaInv
    BY InvInit, PushInvInit, HistoryInvInit, AnsweredInvInit, HoldInvInit, CpaInvInit DEF PipelineInit
<1>2. Inv /\ PushInv /\ HistoryInv /\ AnsweredInv /\ HoldInv /\ CpaInv /\ [PipelineNext]_pipelineVars =>
          (Inv /\ PushInv /\ HistoryInv /\ AnsweredInv /\ HoldInv /\ CpaInv)'
    BY OnePartMoves, InvNext, PushInvNext, HistoryInvNext, AnsweredInvNext, HoldInvNext, CpaInvNext
<1>3. Inv /\ PushInv /\ HistoryInv /\ HoldInv /\ CpaInv =>
          /\ TypeOK /\ BreachSounds /\ PushedSeverity /\ HistoryFollows
          /\ SilentWhenGood /\ ThreatSounds
    <2>1. Inv => TypeOK /\ BreachSounds
        BY DEF Inv, BreachInv, BreachSounds
    <2>2. PushInv => PushedSeverity
        BY DEF PushInv, PushedSeverity
    <2>3. HistoryInv => HistoryFollows
        BY Zenon DEF HistoryInv, HistoryFollows
    <2> QED
        BY <2>1, <2>2, <2>3 DEF HoldInv, CpaInv
<1>4. HoldInv /\ [PipelineNext]_pipelineVars =>
          [(~Sounding(alarmReg.alarm) /\ Sounding(alarmReg'.alarm)) => (last = "bad" /\ badFor = Hold)]_HoldVars
    BY OnePartMoves, SoundersWereHeld
<1>5. HoldInv /\ [PipelineNext]_pipelineVars =>
          [(Uncleared /\ alarmReg.alarm.acked) => ~Sounding(alarmReg'.alarm)]_HoldVars
    BY OnePartMoves, AnsweredAreSilent
<1>6. CpaInv /\ [PipelineNext]_pipelineVars =>
          [(AckedPending /\ Sounding(cpaReg'.alarm)) =>
              (cpaReg.alarm.severity = "WARN" /\ verdict' = "CRITICAL")]_CpaVars
    BY OnePartMoves, SoundersAreWorse
<1>7. Inv /\ AnsweredInv /\ [PipelineNext]_pipelineVars =>
          [Watch!LifeNext]_<<WatchLife, IF WatchLife = "quiet" THEN "none" ELSE reg.alarm.severity>>
    BY OnePartMoves, WatchStepIsLife
<1>8. HoldInv /\ [PipelineNext]_pipelineVars =>
          [Held!LifeNext]_<<HeldLife, IF HeldLife = "quiet" THEN "none" ELSE alarmReg.alarm.severity>>
    BY OnePartMoves, HoldStepIsLife
<1>9. CpaInv /\ [PipelineNext]_pipelineVars =>
          [Collision!LifeNext]_<<CpaLife, IF CpaLife = "quiet" THEN "none" ELSE cpaReg.alarm.severity>>
    BY OnePartMoves, CpaStepIsLife
<1>10. PipelineInit => Watch!LifeInit /\ Held!LifeInit /\ Collision!LifeInit
    BY WatchStartsQuiet, HoldStartsQuiet, CpaStartsQuiet DEF PipelineInit
<1>11. PipelineSpec => EachIsAnAlarm
    BY <1>1, <1>2, <1>7, <1>8, <1>9, <1>10, PTL
    DEF PipelineSpec, EachIsAnAlarm, WatchIsAnAlarm, HoldIsAnAlarm, CpaIsAnAlarm,
        Watch!LifeSpec, Held!LifeSpec, Collision!LifeSpec
<1> QED
    BY <1>1, <1>2, <1>3, <1>4, <1>5, <1>6, <1>11, PTL
    DEF PipelineSpec, FiresAfterHold, AckHolds, AckNotUndone
=================================================================================
