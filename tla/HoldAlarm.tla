--------------------------------- MODULE HoldAlarm ---------------------------------
(***************************************************************************)
(* The alarms that need their condition to hold for a while: shallow       *)
(* water, over speed, low battery and high wind                            *)
(* (packages/compute/src/alarms).  A sample either is bad, is good, or     *)
(* lies between the two thresholds of the one predicate that has           *)
(* hysteresis; the sea decides which.  The predicate is the handler of a   *)
(* sample and a timer, over the alarm's entry in the registry; its         *)
(* severity is its own (CRITICAL in shallow water) and never changes.      *)
(***************************************************************************)
EXTENDS AlarmsRegistry, Naturals

CONSTANTS
    Hold,       \* holdMs, in ticks of the clock
    Banded      \* whether there is a band, one for a whole behaviour

ASSUME HoldAssumption == Hold \in Nat \ {0}
ASSUME BandedAssumption == Banded \subseteq BOOLEAN

VARIABLES
    alarmReg,   \* the registry's entry
    hold,       \* ticks until pendingFireTimer fires; Off without a timer
    enabled,    \* configRef.current.enabled[ID]
    last,       \* history: what the last sample was judged
    badFor,     \* history: ticks since the first bad sample in a row, up to Hold
    banded      \* chosen at first: the predicate has a band (high wind)

HoldVars == <<alarmReg, hold, enabled, last, badFor, banded>>

Off == Hold + 1
Uncleared == alarmReg.alarm.severity # "none" /\ ~alarmReg.alarm.cleared

HoldTypeOK ==
    /\ alarmReg \in Registries
    /\ hold \in 0 .. Off
    /\ enabled \in BOOLEAN
    /\ last \in {"none", "disabled", "good", "band", "bad"}
    /\ badFor \in 0 .. Hold
    /\ banded \in Banded

HoldInit ==
    /\ alarmReg = Empty
    /\ hold = Off
    /\ enabled = TRUE
    /\ last = "none"
    /\ badFor = 0
    /\ banded \in Banded

---------------------------------------------------------------------------------
(* The handler of a sample. *)

(* Disabled: the timer is cancelled; an alarm that sounds goes on. *)
SampleDisabled ==
    /\ ~enabled
    /\ hold' = Off
    /\ last' = "disabled"
    /\ badFor' = 0
    /\ UNCHANGED alarmReg

Bad ==
    /\ enabled
    /\ last' = "bad"
    /\ badFor' = IF last = "bad" THEN badFor ELSE 0
    /\ UNCHANGED alarmReg

(* Mutant: every bad sample starts the hold afresh. *)
SampleBadRestartsHold ==
    /\ Bad
    /\ hold' = IF Uncleared THEN hold ELSE Hold

(* Fired already, acknowledged or not, or pending already: nothing. *)
SampleBad ==
    /\ Bad
    /\ hold' = IF Uncleared \/ hold # Off THEN hold ELSE Hold

(* Mutant: the band does not break the hold. *)
SampleBandKeepsTimer ==
    /\ enabled
    /\ banded
    /\ last' = "band"
    /\ badFor' = 0
    /\ UNCHANGED <<alarmReg, hold>>

SampleBand ==
    /\ enabled
    /\ banded
    /\ hold' = Off
    /\ last' = "band"
    /\ badFor' = 0
    /\ UNCHANGED alarmReg

SampleGood ==
    /\ enabled
    /\ alarmReg' = Clear(alarmReg, TRUE)
    /\ hold' = Off
    /\ last' = "good"
    /\ badFor' = 0

SampleHold == (SampleDisabled \/ SampleBad \/ SampleBand \/ SampleGood) /\ UNCHANGED enabled

(* The timer's callback: it looks at neither the configuration nor the     *)
(* samples.                                                                *)
HoldExpires ==
    /\ hold = 0
    /\ alarmReg' = Fire(alarmReg, "WARN", FALSE, TRUE)
    /\ hold' = Off
    /\ UNCHANGED <<enabled, last, badFor>>

---------------------------------------------------------------------------------
(* PATCH /api/alarms, PUT /api/alarms/config, a restart, the clock. *)
AcknowledgeHold ==
    /\ alarmReg' = Ack(alarmReg, TRUE)
    /\ UNCHANGED <<hold, enabled, last, badFor>>

Toggle ==
    /\ enabled' = ~enabled
    /\ UNCHANGED <<alarmReg, hold, last, badFor>>

RestartHold ==
    /\ alarmReg' = Restarted(alarmReg)
    /\ hold' = Off
    /\ last' = "none"
    /\ badFor' = 0
    /\ UNCHANGED enabled

HoldTick ==
    /\ hold # 0
    /\ hold' = IF hold = Off THEN Off ELSE hold - 1
    /\ badFor' = IF last = "bad" /\ badFor < Hold THEN badFor + 1 ELSE badFor
    /\ UNCHANGED <<alarmReg, enabled, last>>

HoldNext ==
    /\ SampleHold \/ HoldExpires \/ AcknowledgeHold \/ Toggle \/ RestartHold \/ HoldTick
    /\ UNCHANGED banded

(* A timer that is due is run, and the clock goes on. *)
Timely == (HoldExpires \/ HoldTick) /\ UNCHANGED banded

HoldSpec == HoldInit /\ [][HoldNext]_HoldVars /\ WF_HoldVars(Timely)

---------------------------------------------------------------------------------
(* A held alarm sounds only in the time after a bad sample: once a good    *)
(* one was judged it is silent, and neither the timer of an earlier spell  *)
(* nor one started before the alarm was disabled can bring it back         *)
(* (shallow-water.ts:16, 45).                                              *)
SilentWhenGood == last = "good" => ~Sounding(alarmReg.alarm)

(* An alarm that begins to sound has had the hold's time of bad samples,   *)
(* one at least and no other between (high-wind.ts:68: the band breaks     *)
(* the sustain).                                                           *)
FiresAfterHold ==
    [][(~Sounding(alarmReg.alarm) /\ Sounding(alarmReg'.alarm)) => (last = "bad" /\ badFor = Hold)]_HoldVars

(* An acknowledged alarm stays silent as long as its condition does not    *)
(* clear, however many bad samples follow (high-wind.ts:52).               *)
AckHolds ==
    [][(Uncleared /\ alarmReg.alarm.acked) => ~Sounding(alarmReg'.alarm)]_HoldVars

(* A held alarm is an alarm of AlarmLife that no severity overrides: it is *)
(* due when its hold of bad samples is complete (high-wind.ts:52, 68).     *)
HeldLife ==
    IF Sounding(alarmReg.alarm) THEN "sounding" ELSE IF Uncleared THEN "answered" ELSE "quiet"

Held == INSTANCE AlarmLife WITH
    life <- HeldLife,
    level <- IF HeldLife = "quiet" THEN "none" ELSE alarmReg.alarm.severity,
    due <- last = "bad" /\ badFor = Hold,
    Overrides <- {}

HoldIsAnAlarm == Held!LifeSpec

(* A condition that goes on is alarmed: samples that repeat it do not put  *)
(* the alarm off (shallow-water.ts:34).                                    *)
BadIsAlarmed == last = "bad" ~> (Uncleared \/ last # "bad")
=================================================================================
