------------------------------- MODULE AnchorWatch -------------------------------
(***************************************************************************)
(* The anchor watch: the two-stage predicate on the boat's position        *)
(* (packages/compute/src/alarms/anchor-watch.ts), the configuration object *)
(* it shares with the routes that drop and weigh the anchor and that store *)
(* the settings form (packages/web/src/app/api/alarms), and the registry   *)
(* entry 'anchor-watch' that all of them and the acknowledging helm write. *)
(* Every handler runs in one tick of the event loop: the database driver   *)
(* is synchronous.  The geometry (isBreached) is reduced to whether the    *)
(* boat lies outside the swing area, which the sea decides.                *)
(***************************************************************************)
EXTENDS AlarmsRegistry, Naturals

CONSTANTS
    EscalateAfter,   \* escalateAfterS, in ticks of the clock
    Usages           \* how the watch is used, one of them for a whole behaviour

(* "plain": nobody opens the settings form and every database write        *)
(* succeeds; "failing": a write may fail; "any": both may happen.          *)
ASSUME EscalateAfterAssumption == EscalateAfter \in Nat
ASSUME UsagesAssumption == Usages \subseteq {"plain", "failing", "any"}

VARIABLES
    reg,        \* the registry, its history row and its last push
    stage,      \* the predicate's stage
    age,        \* ticks since the warning, up to EscalateAfter
    config,     \* configRef.current
    saved,      \* the configuration in the database
    form,       \* the copy of it a browser's settings form holds
    outside,    \* the boat lies outside the swing area
    judged,     \* history: the verdict of the last sample on this anchor
    silenced,   \* history: acknowledged since the stage was last idle
    hushed,     \* history: acknowledged since a weighed anchor was dropped
    owed,       \* history: a CRITICAL fired that nobody has acknowledged
    usage       \* chosen at first: how the watch is used

vars == <<reg, stage, age, config, saved, form, outside, judged, silenced, hushed, owed, usage>>

DbAnswers == IF usage = "plain" THEN {TRUE} ELSE BOOLEAN

Configs == [enabled : BOOLEAN, armed : BOOLEAN]
Default == [enabled |-> TRUE, armed |-> FALSE]

TypeOK ==
    /\ reg \in Registries
    /\ stage \in {"idle", "warn", "critical"}
    /\ age \in 0 .. EscalateAfter
    /\ config \in Configs
    /\ saved \in Configs
    /\ form \in Configs
    /\ outside \in BOOLEAN
    /\ judged \in {"none", "inside", "outside"}
    /\ silenced \in BOOLEAN
    /\ hushed \in BOOLEAN
    /\ owed \in BOOLEAN
    /\ usage \in Usages

Init ==
    /\ reg = Empty
    /\ stage = "idle"
    /\ age = 0
    /\ config = Default
    /\ saved = Default
    /\ form = Default
    /\ outside = FALSE
    /\ judged = "none"
    /\ silenced = FALSE
    /\ hushed = FALSE
    /\ owed = FALSE
    /\ usage \in Usages

---------------------------------------------------------------------------------
(* The predicate's handler of a selected position sample. *)
Judging == config.enabled /\ config.armed

(* Disarmed: only the stage is reset. *)
SampleDisarmed ==
    /\ config.enabled
    /\ ~config.armed
    /\ stage' = "idle"
    /\ judged' = "none"
    /\ silenced' = FALSE
    /\ UNCHANGED <<reg, age, owed>>

(* Mutant: the stage survives the boat's return. *)
SampleInsideKeepsStage ==
    /\ Judging
    /\ ~outside
    /\ \E ok \in DbAnswers : reg' = Clear(reg, ok)
    /\ judged' = "inside"
    /\ silenced' = FALSE
    /\ UNCHANGED <<stage, age, owed>>

SampleInside ==
    /\ Judging
    /\ ~outside
    /\ \E ok \in DbAnswers : reg' = Clear(reg, ok)
    /\ stage' = "idle"
    /\ judged' = "inside"
    /\ silenced' = FALSE
    /\ UNCHANGED <<age, owed>>

Breached(at) ==
    /\ Judging
    /\ outside
    /\ stage = at
    /\ judged' = "outside"

SampleBreach ==
    /\ Breached("idle")
    /\ \E ok \in DbAnswers : reg' = Fire(reg, "WARN", FALSE, ok)
    /\ stage' = "warn"
    /\ age' = 0
    /\ UNCHANGED <<silenced, owed>>

(* Acknowledged: nothing more for this breach. *)
SampleSilenced ==
    /\ Breached("warn") \/ Breached("critical")
    /\ reg.alarm.acked
    /\ UNCHANGED <<reg, stage, age, silenced, owed>>

(* Mutant: every refresh of the warning restarts its clock. *)
SampleWarnRestartsClock ==
    /\ Breached("warn")
    /\ ~reg.alarm.acked
    /\ age < EscalateAfter
    /\ \E ok \in DbAnswers : reg' = Fire(reg, "WARN", FALSE, ok)
    /\ age' = 0
    /\ UNCHANGED <<stage, silenced, owed>>

SampleWarn ==
    /\ Breached("warn")
    /\ ~reg.alarm.acked
    /\ age < EscalateAfter
    /\ \E ok \in DbAnswers : reg' = Fire(reg, "WARN", FALSE, ok)
    /\ UNCHANGED <<stage, age, silenced, owed>>

(* Mutant: the escalation fires over the sounding warning. *)
SampleEscalateOver ==
    /\ Breached("warn")
    /\ ~reg.alarm.acked
    /\ age = EscalateAfter
    /\ \E ok \in DbAnswers : reg' = Fire(reg, "CRITICAL", TRUE, ok)
    /\ stage' = "critical"
    /\ owed' = TRUE
    /\ UNCHANGED <<age, silenced>>

SampleEscalate ==
    /\ Breached("warn")
    /\ ~reg.alarm.acked
    /\ age = EscalateAfter
    /\ \E ok1, ok2 \in DbAnswers : reg' = Fire(Clear(reg, ok1), "CRITICAL", TRUE, ok2)
    /\ stage' = "critical"
    /\ owed' = TRUE
    /\ UNCHANGED <<age, silenced>>

SampleCritical ==
    /\ Breached("critical")
    /\ ~reg.alarm.acked
    /\ \E ok \in DbAnswers : reg' = Fire(reg, "CRITICAL", TRUE, ok)
    /\ owed' = TRUE
    /\ UNCHANGED <<stage, age, silenced>>

Sample ==
    /\ \/ SampleDisarmed \/ SampleInside
       \/ SampleBreach \/ SampleSilenced \/ SampleWarn \/ SampleEscalate \/ SampleCritical
    /\ UNCHANGED <<config, saved, form, outside, hushed>>

---------------------------------------------------------------------------------
(* PATCH /api/alarms: the helm acknowledges. *)
Acknowledge ==
    /\ \E ok \in DbAnswers : reg' = Ack(reg, ok)
    /\ silenced' = TRUE
    /\ hushed' = TRUE
    /\ owed' = FALSE
    /\ UNCHANGED <<stage, age, config, saved, form, outside, judged>>

(* The live configuration is replaced, then saved if the database answers. *)
Configure(new) ==
    /\ config' = new
    /\ \E ok \in DbAnswers : saved' = IF ok THEN new ELSE saved

(* Mutant: the drop is not saved. *)
DropUnsaved ==
    /\ config' = [config EXCEPT !.armed = TRUE]
    /\ outside' = FALSE
    /\ judged' = "none"
    /\ hushed' = (config.armed /\ hushed)
    /\ UNCHANGED <<reg, stage, age, saved, form, silenced, owed>>

(* POST /api/alarms/anchor: the anchor is dropped where the boat is. *)
Drop ==
    /\ Configure([config EXCEPT !.armed = TRUE])
    /\ outside' = FALSE
    /\ judged' = "none"
    /\ hushed' = (config.armed /\ hushed)
    /\ UNCHANGED <<reg, stage, age, form, silenced, owed>>

Weigh ==
    /\ Configure([config EXCEPT !.armed = FALSE])
    /\ \E ok1, ok2 \in DbAnswers : reg' = Ack(Clear(reg, ok1), ok2)
    /\ silenced' = TRUE
    /\ hushed' = TRUE
    /\ owed' = FALSE
    /\ UNCHANGED <<stage, age, form, outside, judged>>

(* The settings form: loaded once, then every change of a field puts the   *)
(* whole configuration it holds (PUT /api/alarms/config).                  *)
LoadForm ==
    /\ usage = "any"
    /\ form' = config
    /\ UNCHANGED <<reg, stage, age, config, saved, outside, judged, silenced, hushed, owed>>

SaveForm ==
    /\ usage = "any"
    /\ \E e \in BOOLEAN : form' = [form EXCEPT !.enabled = e]
    /\ Configure(form')
    /\ UNCHANGED <<reg, stage, age, outside, judged, silenced, hushed, owed>>

(* The process restarts: the configuration is read back, the rest is new. *)
Restart ==
    /\ reg' = Restarted(reg)
    /\ stage' = "idle"
    /\ age' = 0
    /\ config' = saved
    /\ judged' = "none"
    /\ silenced' = FALSE
    /\ owed' = FALSE
    /\ UNCHANGED <<saved, form, outside, hushed>>

---------------------------------------------------------------------------------
(* The world: the boat moves, the clock ticks. *)
Move ==
    /\ outside' = ~outside
    /\ UNCHANGED <<reg, stage, age, config, saved, form, judged, silenced, hushed, owed>>

Tick ==
    /\ stage = "warn"
    /\ age < EscalateAfter
    /\ age' = age + 1
    /\ UNCHANGED <<reg, stage, config, saved, form, outside, judged, silenced, hushed, owed>>

Next ==
    /\ \/ Sample \/ Acknowledge \/ Drop \/ Weigh \/ LoadForm \/ SaveForm \/ Restart
       \/ Move \/ Tick
    /\ UNCHANGED usage

(* Positions keep arriving and the clock keeps ticking. *)
Fairness ==
    /\ WF_vars(Sample /\ UNCHANGED usage)
    /\ WF_vars(Tick /\ UNCHANGED usage)

Spec == Init /\ [][Next]_vars /\ Fairness

---------------------------------------------------------------------------------
(* A breach the last sample saw, and that nobody has acknowledged since    *)
(* the boat left the swing area, sounds: warnings, returns, escalations    *)
(* and new drops in any order never leave the watch silent on its own      *)
(* ("Acking the WARN suppresses escalation for the remainder of that       *)
(* breach", anchor-watch.ts:22).                                           *)
BreachSounds ==
    (judged = "outside" /\ ~silenced) => Sounding(reg.alarm)

(* The last notification a phone received names the severity of the alarm  *)
(* that sounds: an escalation reaches the phones although the alarm was    *)
(* sounding before it (alarm-push.ts:113, anchor-watch.ts:80), unless a    *)
(* form disarms the watch in between.                                      *)
PushedSeverity ==
    (usage # "any" /\ Sounding(reg.alarm)) => reg.pushed = reg.alarm.severity

(* While a CRITICAL sounds the history has an open row of that severity,   *)
(* ready for its clear and ack times, and every row the writer let go of   *)
(* was closed (alarms-history.ts:26, 55), as long as every write succeeds. *)
HistoryFollows ==
    usage = "plain" =>
        /\ ~reg.leftOpen
        /\ (Sounding(reg.alarm) /\ reg.alarm.severity = "CRITICAL") =>
               /\ OpenRow(reg.row)
               /\ reg.row.severity = "CRITICAL"

(* The watch is an alarm of AlarmLife that no severity overrides: it       *)
(* begins to sound only on a sample outside the armed swing area, and once *)
(* acknowledged it is silent until the breach is over, through drops,      *)
(* weighs, stale forms and failing writes (anchor-watch.ts:22, 77).        *)
WatchLife ==
    IF Sounding(reg.alarm) THEN "sounding"
    ELSE IF stage # "idle" /\ reg.alarm.acked THEN "answered" ELSE "quiet"

Watch == INSTANCE AlarmLife WITH
    life <- WatchLife,
    level <- IF WatchLife = "quiet" THEN "none" ELSE reg.alarm.severity,
    due <- Judging /\ outside,
    Overrides <- {}

WatchIsAnAlarm == Watch!LifeSpec

(* A warning that is neither acknowledged nor overtaken by events becomes  *)
(* CRITICAL: the samples that refresh it do not postpone the escalation    *)
(* (anchor-watch.ts:79).                                                   *)
WarningEscalates ==
    (stage = "warn" /\ ~reg.alarm.acked) ~> (stage # "warn" \/ reg.alarm.acked \/ ~config.enabled)

(* A boat that drags out of an armed watch gets an alarm although the      *)
(* process may restart at any time: the drop is in the database before     *)
(* anything else happens (anchor/route.ts:23).                             *)
DragIsNoticed ==
    (usage = "plain" /\ config.armed /\ config.enabled /\ outside) ~> (Sounding(reg.alarm) \/ silenced \/ ~outside)

(* Refuted.  A CRITICAL stays in the active list until someone             *)
(* acknowledges it (the design of the safety alarms, line 151).            *)
StickyUntilAck == owed => Active(reg.alarm)

(* Refuted.  An alarm acknowledged before the anchor was weighed does not  *)
(* silence the next drop (anchor-watch.ts:41).                             *)
NextDropStartsFresh ==
    (judged = "outside" /\ ~hushed) => Sounding(reg.alarm)
=================================================================================
