---------------------------- MODULE AnchorWatchProofs ----------------------------
(* Proofs about AnchorWatch, for every escalation time and every usage.     *)
EXTENDS AnchorWatch, TLAPS

(* The registry's operators keep its type and say what becomes of the      *)
(* alarm, whatever the history writer does (alarms-history.ts:24-78).      *)
LEMMA RecordFacts ==
    ASSUME NEW r \in Registries, NEW a \in Snapshots, NEW row \in Rows, NEW forget \in BOOLEAN
    PROVE  /\ Record(r, a, row, forget) \in Registries
           /\ Record(r, a, row, forget).alarm = a
           /\ Record(r, a, row, forget).pushed = r.pushed
<1>1. r.pushed \in Severities \cup {"none"} /\ r.leftOpen \in BOOLEAN
    BY DEF Registries
<1>2. (r.leftOpen \/ (forget /\ OpenRow(row))) \in BOOLEAN
    BY Zenon DEF OpenRow
<1>3. NoRow \in Rows
    BY DEF NoRow, Rows
<1>4. (IF forget THEN NoRow ELSE row) \in Rows
    BY <1>3
<1> QED
    BY <1>1, <1>2, <1>4 DEF Record, Registries

LEMMA FireFacts ==
    ASSUME NEW r \in Registries, NEW s \in Severities, NEW t \in BOOLEAN, NEW ok \in BOOLEAN
    PROVE  /\ Fire(r, s, t, ok) \in Registries
           /\ Sounding(Fire(r, s, t, ok).alarm)
           /\ Fire(r, s, t, ok).alarm.severity = s
           /\ Fire(r, s, t, ok).pushed = IF Sounding(r.alarm) THEN r.pushed ELSE s
<1> DEFINE a == [severity |-> s, sticky |-> t, cleared |-> FALSE, acked |-> FALSE]
           fresh == [severity |-> s, cleared |-> FALSE, acked |-> FALSE]
<1>1. a \in Snapshots /\ Sounding(a) /\ a.severity = s
    BY DEF Snapshots, Severities, Sounding
<1>2. fresh \in Rows /\ r.row \in Rows
    BY DEF Registries, Rows
<1>3. r.leftOpen \in BOOLEAN /\ r.pushed \in Severities \cup {"none"}
    BY DEF Registries
<1>4. (IF Sounding(r.alarm) THEN r.pushed ELSE s) \in Severities \cup {"none"}
    BY <1>3
<1>5. (IF r.row.severity = "none" /\ ok THEN fresh ELSE r.row) \in Rows
    BY <1>2
<1> HIDE DEF a, fresh
<1>6. Fire(r, s, t, ok) =
          [alarm |-> a, row |-> IF r.row.severity = "none" /\ ok THEN fresh ELSE r.row,
           leftOpen |-> r.leftOpen, pushed |-> IF Sounding(r.alarm) THEN r.pushed ELSE s]
    BY DEF Fire, a, fresh
<1> QED
    BY <1>1, <1>3, <1>4, <1>5, <1>6 DEF Registries

LEMMA ClearFacts ==
    ASSUME NEW r \in Registries, NEW ok \in BOOLEAN
    PROVE  /\ Clear(r, ok) \in Registries
           /\ ~Sounding(Clear(r, ok).alarm)
           /\ Clear(r, ok).pushed = r.pushed
<1>1. r.alarm \in Snapshots /\ r.row \in Rows
    BY DEF Registries
<1>2. ClearedAlarm(r.alarm) \in Snapshots /\ ~Sounding(ClearedAlarm(r.alarm))
    BY <1>1 DEF ClearedAlarm, Snapshots, Sounding
<1>3. (r.row.cleared \/ (ok /\ r.row.severity # "none")) \in BOOLEAN
    BY Zenon
<1>4. ClearedRow(r.row, ok) \in Rows
    <2>1. PICK b \in BOOLEAN : b = (r.row.cleared \/ (ok /\ r.row.severity # "none"))
        BY <1>3, Zenon
    <2>2. ClearedRow(r.row, ok) = [r.row EXCEPT !.cleared = b]
        BY <2>1, Zenon DEF ClearedRow
    <2>3. r.row \in [severity : Severities \cup {"none"}, cleared : BOOLEAN, acked : BOOLEAN]
        BY <1>1 DEF Rows
    <2>4. [r.row EXCEPT !.cleared = b] \in Rows
        BY <2>3 DEF Rows
    <2> QED
        BY <2>2, <2>4
<1>5. PICK forget \in BOOLEAN : forget = ~r.alarm.sticky
    BY Zenon
<1>6. Clear(r, ok) = Record(r, ClearedAlarm(r.alarm), ClearedRow(r.row, ok), forget)
    BY <1>5, Zenon DEF Clear
<1> DEFINE new == Record(r, ClearedAlarm(r.alarm), ClearedRow(r.row, ok), forget)
<1>7. new \in Registries /\ new.alarm = ClearedAlarm(r.alarm) /\ new.pushed = r.pushed
    BY <1>2, <1>4, RecordFacts
<1> QED
    BY <1>2, <1>6, <1>7

LEMMA AckFacts ==
    ASSUME NEW r \in Registries, NEW ok \in BOOLEAN
    PROVE  /\ Ack(r, ok) \in Registries
           /\ ~Sounding(Ack(r, ok).alarm)
           /\ Ack(r, ok).pushed = r.pushed
<1> DEFINE a == [r.alarm EXCEPT !.acked = (r.alarm.severity # "none")]
           row == [r.row EXCEPT !.acked = (r.row.acked \/ (ok /\ r.row.severity # "none"))]
<1>1. r.alarm \in Snapshots /\ r.row \in Rows
    BY DEF Registries
<1>2. a \in Snapshots /\ ~Sounding(a)
    BY <1>1 DEF Snapshots, Sounding
<1>3. (r.row.acked \/ (ok /\ r.row.severity # "none")) \in BOOLEAN
    BY Zenon
<1>4. row \in Rows
    <2>1. PICK b \in BOOLEAN : b = (r.row.acked \/ (ok /\ r.row.severity # "none"))
        BY <1>3, Zenon
    <2>2. row = [r.row EXCEPT !.acked = b]
        BY <2>1, Zenon
    <2>3. r.row \in [severity : Severities \cup {"none"}, cleared : BOOLEAN, acked : BOOLEAN]
        BY <1>1 DEF Rows
    <2>4. [r.row EXCEPT !.acked = b] \in Rows
        BY <2>3 DEF Rows
    <2> QED
        BY <2>2, <2>4
<1>5. Ack(r, ok) = Record(r, a, row, TRUE)
    BY Zenon DEF Ack
<1> HIDE DEF a, row
<1> DEFINE new == Record(r, a, row, TRUE)
<1>6. new \in Registries /\ new.alarm = a /\ new.pushed = r.pushed
    BY <1>2, <1>4, RecordFacts
<1> HIDE DEF new
<1> QED
    BY <1>2, <1>5, <1>6 DEF new

LEMMA RestartedFacts ==
    ASSUME NEW r \in Registries
    PROVE  /\ Restarted(r) \in Registries
           /\ ~Sounding(Restarted(r).alarm)
<1>1. NoAlarm \in Snapshots /\ ~Sounding(NoAlarm) /\ NoRow \in Rows
    BY DEF NoAlarm, Snapshots, Sounding, NoRow, Rows
<1>2. r.leftOpen \in BOOLEAN /\ r.pushed \in Severities \cup {"none"}
    BY DEF Registries
<1>3. PICK b \in BOOLEAN : b = r.leftOpen
    BY <1>2, Zenon
<1>4. Restarted(r) = [alarm |-> NoAlarm, row |-> NoRow, leftOpen |-> b, pushed |-> r.pushed]
    BY <1>3 DEF Restarted
<1>5. Restarted(r) \in Registries
    BY <1>1, <1>2, <1>4 DEF Registries
<1> QED
    BY <1>1, <1>4, <1>5

(* What becomes of the alarm of an entry, field by field                   *)
(* (packages/core/src/alarms.ts:67-108).                                   *)
LEMMA AlarmFields ==
    ASSUME NEW r \in Registries, NEW ok \in BOOLEAN
    PROVE  /\ Clear(r, ok).alarm.severity = r.alarm.severity
           /\ r.alarm.severity # "none" => Clear(r, ok).alarm.cleared
           /\ Clear(r, ok).alarm.acked = r.alarm.acked
           /\ Ack(r, ok).alarm.severity = r.alarm.severity
           /\ Ack(r, ok).alarm.cleared = r.alarm.cleared
           /\ r.alarm.severity # "none" => Ack(r, ok).alarm.acked
<1>1. r.alarm \in Snapshots
    BY DEF Registries
<1>2. PICK b \in BOOLEAN : b = (r.alarm.severity # "none")
    BY Zenon
<1>3. Clear(r, ok).alarm = [r.alarm EXCEPT !.cleared = b]
    BY <1>2, Zenon DEF Clear, Record, ClearedAlarm
<1>4. Ack(r, ok).alarm = [r.alarm EXCEPT !.acked = b]
    BY <1>2, Zenon DEF Ack, Record
<1> QED
    BY <1>1, <1>2, <1>3, <1>4 DEF Snapshots

---------------------------------------------------------------------------------
(* A breach nobody answered keeps the alarm sounding while the predicate   *)
(* is past its idle stage, so a breach the last sample saw does.           *)
BreachInv ==
    /\ judged = "outside" => stage # "idle"
    /\ (stage # "idle" /\ ~silenced) => Sounding(reg.alarm)

Inv == TypeOK /\ BreachInv

LEMMA DbAnswersType == DbAnswers \subseteq BOOLEAN
BY DEF DbAnswers

LEMMA InvInit == Init => Inv
<1>1. NoAlarm \in Snapshots /\ NoRow \in Rows
    BY DEF NoAlarm, Snapshots, NoRow, Rows
<1>2. Empty \in Registries
    BY <1>1 DEF Empty, Registries
<1>3. ~Sounding(Empty.alarm)
    BY DEF Empty, NoAlarm, Sounding
<1>4. 0 \in 0 .. EscalateAfter /\ Default \in Configs
    BY EscalateAfterAssumption DEF Default, Configs
<1> SUFFICES ASSUME Init PROVE Inv
    OBVIOUS
<1>5. TypeOK
    BY <1>2, <1>4 DEF Init, TypeOK
<1>6. BreachInv
    BY DEF Init, BreachInv
<1> QED
    BY <1>5, <1>6 DEF Inv

LEMMA InvNext == Inv /\ [Next]_vars => Inv'
<1> SUFFICES ASSUME Inv, [Next]_vars PROVE Inv'
    OBVIOUS
<1> USE EscalateAfterAssumption, DbAnswersType DEF Inv, TypeOK, BreachInv
<1> DEFINE Frame == UNCHANGED <<config, saved, form, outside, hushed>>
<1>U. usage' = usage
    BY DEF Next, vars
<1> USE <1>U
<1>0. "WARN" \in Severities /\ "CRITICAL" \in Severities
    BY DEF Severities
<1>1. ASSUME SampleDisarmed, Frame PROVE Inv'
    BY <1>1 DEF SampleDisarmed
<1>2. ASSUME SampleInside, Frame PROVE Inv'
    <2>1. PICK ok \in BOOLEAN : reg' = Clear(reg, ok)
        BY <1>2 DEF SampleInside
    <2>2. reg' \in Registries
        BY <2>1, ClearFacts
    <2>3. stage' = "idle" /\ judged' = "inside" /\ silenced' = FALSE /\ age' = age /\ owed' = owed
        BY <1>2 DEF SampleInside
    <2> QED
        BY <1>2, <2>2, <2>3
<1>3. ASSUME SampleBreach, Frame PROVE Inv'
    <2>1. PICK ok \in BOOLEAN : reg' = Fire(reg, "WARN", FALSE, ok)
        BY <1>3 DEF SampleBreach
    <2>2. reg' \in Registries /\ Sounding(reg'.alarm)
        BY <1>0, <2>1, FireFacts
    <2>3. stage' = "warn" /\ judged' = "outside" /\ age' = 0 /\ UNCHANGED <<silenced, owed>>
        BY <1>3 DEF SampleBreach, Breached
    <2>4. 0 \in 0 .. EscalateAfter
        OBVIOUS
    <2> QED
        BY <1>3, <2>2, <2>3, <2>4
<1>4. ASSUME SampleSilenced, Frame PROVE Inv'
    <2>1. judged' = "outside" /\ stage # "idle"
        BY <1>4 DEF SampleSilenced, Breached
    <2> QED
        BY <1>4, <2>1 DEF SampleSilenced
<1>5. ASSUME SampleWarn, Frame PROVE Inv'
    <2>1. PICK ok \in BOOLEAN : reg' = Fire(reg, "WARN", FALSE, ok)
        BY <1>5 DEF SampleWarn
    <2>2. reg' \in Registries /\ Sounding(reg'.alarm)
        BY <1>0, <2>1, FireFacts
    <2> QED
        BY <1>5, <2>2 DEF SampleWarn, Breached
<1>6. ASSUME SampleEscalate, Frame PROVE Inv'
    <2>1. PICK ok1 \in BOOLEAN, ok2 \in BOOLEAN : reg' = Fire(Clear(reg, ok1), "CRITICAL", TRUE, ok2)
        BY <1>6 DEF SampleEscalate
    <2>2. Clear(reg, ok1) \in Registries
        BY ClearFacts
    <2>3. reg' \in Registries /\ Sounding(reg'.alarm)
        BY <1>0, <2>1, <2>2, FireFacts
    <2> QED
        BY <1>6, <2>3 DEF SampleEscalate, Breached
<1>7. ASSUME SampleCritical, Frame PROVE Inv'
    <2>1. PICK ok \in BOOLEAN : reg' = Fire(reg, "CRITICAL", TRUE, ok)
        BY <1>7 DEF SampleCritical
    <2>2. reg' \in Registries /\ Sounding(reg'.alarm)
        BY <1>0, <2>1, FireFacts
    <2> QED
        BY <1>7, <2>2 DEF SampleCritical, Breached
<1>8. ASSUME Acknowledge PROVE Inv'
    <2>1. PICK ok \in BOOLEAN : reg' = Ack(reg, ok)
        BY <1>8 DEF Acknowledge
    <2> QED
        BY <1>8, <2>1, AckFacts DEF Acknowledge
<1>9. ASSUME Drop PROVE Inv'
    BY <1>9 DEF Drop, Configure, Configs
<1>10. ASSUME Weigh PROVE Inv'
    <2>1. PICK ok1 \in BOOLEAN, ok2 \in BOOLEAN : reg' = Ack(Clear(reg, ok1), ok2)
        BY <1>10 DEF Weigh
    <2>2. Clear(reg, ok1) \in Registries
        BY ClearFacts
    <2>3. reg' \in Registries
        BY <2>1, <2>2, AckFacts
    <2> QED
        BY <1>10, <2>3 DEF Weigh, Configure, Configs
<1>11. ASSUME LoadForm PROVE Inv'
    BY <1>11 DEF LoadForm
<1>12. ASSUME SaveForm PROVE Inv'
    <2>1. form' \in Configs
        BY <1>12 DEF SaveForm, Configs
    <2>2. config' = form' /\ saved' \in {form', saved}
        BY <1>12 DEF SaveForm, Configure
    <2> QED
        BY <1>12, <2>1, <2>2 DEF SaveForm, TypeOK
<1>13. ASSUME Restart PROVE Inv'
    <2>1. reg' \in Registries
        BY <1>13, RestartedFacts DEF Restart
    <2>2. 0 \in 0 .. EscalateAfter
        OBVIOUS
    <2> QED
        BY <1>13, <2>1, <2>2 DEF Restart
<1>14. ASSUME Move PROVE Inv'
    BY <1>14 DEF Move
<1>15. ASSUME Tick PROVE Inv'
    BY <1>15 DEF Tick
<1>16. CASE UNCHANGED vars
    BY <1>16 DEF vars
<1> QED
    BY <1>1, <1>2, <1>3, <1>4, <1>5, <1>6, <1>7, <1>8, <1>9, <1>10, <1>11, <1>12, <1>13, <1>14,
       <1>15, <1>16 DEF Next, Sample

(* The watch keeps its types whatever is requested and whatever the        *)
(* database answers.                                                       *)
THEOREM WatchTypeCorrect == Spec => []TypeOK
<1>1. Inv => TypeOK
    BY DEF Inv
<1> QED
    BY InvInit, InvNext, <1>1, PTL DEF Spec

(* A breach the last sample saw and nobody answered sounds: no order of    *)
(* samples, acknowledgements, drops, weighs, edits of the settings,        *)
(* restarts and database failures makes the watch silent on its own.       *)
THEOREM UnansweredBreachSounds == Spec => []BreachSounds
<1>1. Inv => BreachSounds
    BY DEF Inv, BreachInv, BreachSounds
<1> QED
    BY InvInit, InvNext, <1>1, PTL DEF Spec

---------------------------------------------------------------------------------
(* Where no settings form disarms the watch, the alarm that sounds is the  *)
(* one of the predicate's stage, and the phones were told its severity.    *)
PushInv ==
    usage # "any" =>
        /\ Sounding(reg.alarm) => reg.pushed = reg.alarm.severity
        /\ Sounding(reg.alarm) =>
               \/ stage = "warn" /\ reg.alarm.severity = "WARN"
               \/ stage = "critical" /\ reg.alarm.severity = "CRITICAL"
        /\ ~config.armed => ~Sounding(reg.alarm)

LEMMA PushInvInit == Init => PushInv
<1>1. ~Sounding(Empty.alarm)
    BY DEF Empty, NoAlarm, Sounding
<1> QED
    BY <1>1 DEF Init, PushInv

LEMMA PushInvNext == Inv /\ PushInv /\ [Next]_vars => PushInv'
<1> SUFFICES ASSUME Inv, PushInv, [Next]_vars PROVE PushInv'
    OBVIOUS
<1>U. usage' = usage
    BY DEF Next, vars
<1> SUFFICES ASSUME usage # "any" PROVE PushInv'
    BY <1>U, Zenon DEF PushInv
<1> USE DbAnswersType DEF PushInv
<1> DEFINE Frame == UNCHANGED <<config, saved, form, outside, hushed>>
<1>0. reg \in Registries /\ "WARN" \in Severities /\ "CRITICAL" \in Severities
    BY DEF Inv, TypeOK, Severities
<1>1. ASSUME SampleDisarmed, Frame PROVE PushInv'
    BY <1>1 DEF SampleDisarmed
<1>2. ASSUME SampleInside, Frame PROVE PushInv'
    <2>1. PICK ok \in BOOLEAN : reg' = Clear(reg, ok)
        BY <1>2 DEF SampleInside
    <2>2. ~Sounding(reg'.alarm)
        BY <1>0, <2>1, ClearFacts
    <2> QED
        BY <2>2
<1>3. ASSUME SampleBreach, Frame PROVE PushInv'
    <2>0. PICK sticky \in BOOLEAN : sticky = FALSE
        BY Zenon
    <2>1. PICK ok \in BOOLEAN : reg' = Fire(reg, "WARN", sticky, ok)
        BY <1>3, <2>0, Zenon DEF SampleBreach
    <2>2. stage = "idle" /\ stage' = "warn" /\ config'.armed
        BY <1>3 DEF SampleBreach, Breached, Judging
    <2>3. /\ reg'.alarm.severity = "WARN"
          /\ reg'.pushed = IF Sounding(reg.alarm) THEN reg.pushed ELSE "WARN"
        BY <1>0, <2>1, FireFacts
    <2>4. reg'.pushed = "WARN"
        BY <2>2, <2>3
    <2> QED
        BY <2>2, <2>3, <2>4
<1>4. ASSUME SampleSilenced, Frame PROVE PushInv'
    BY <1>4 DEF SampleSilenced
<1>5. ASSUME SampleWarn, Frame PROVE PushInv'
    <2>0. PICK sticky \in BOOLEAN : sticky = FALSE
        BY Zenon
    <2>1. PICK ok \in BOOLEAN : reg' = Fire(reg, "WARN", sticky, ok)
        BY <1>5, <2>0, Zenon DEF SampleWarn
    <2>2. stage = "warn" /\ stage' = "warn" /\ config'.armed
        BY <1>5 DEF SampleWarn, Breached, Judging
    <2>3. /\ reg'.alarm.severity = "WARN"
          /\ reg'.pushed = IF Sounding(reg.alarm) THEN reg.pushed ELSE "WARN"
        BY <1>0, <2>1, FireFacts
    <2>4. reg'.pushed = "WARN"
        BY <2>2, <2>3
    <2> QED
        BY <2>2, <2>3, <2>4
<1>6. ASSUME SampleEscalate, Frame PROVE PushInv'
    <2>0. PICK sticky \in BOOLEAN : sticky = TRUE
        BY Zenon
    <2>1. PICK ok1 \in BOOLEAN, ok2 \in BOOLEAN : reg' = Fire(Clear(reg, ok1), "CRITICAL", sticky, ok2)
        BY <1>6, <2>0, Zenon DEF SampleEscalate
    <2>2. stage' = "critical" /\ config'.armed
        BY <1>6 DEF SampleEscalate, Breached, Judging
    <2>3. Clear(reg, ok1) \in Registries /\ ~Sounding(Clear(reg, ok1).alarm)
        BY <1>0, ClearFacts
    <2>4. PICK r \in Registries : r = Clear(reg, ok1)
        BY <2>3
    <2>5. reg' = Fire(r, "CRITICAL", sticky, ok2)
        BY <2>1, <2>4, Zenon
    <2>6. ~Sounding(r.alarm)
        BY <2>3, <2>4, Zenon
    <2>7. /\ Fire(r, "CRITICAL", sticky, ok2).alarm.severity = "CRITICAL"
          /\ Fire(r, "CRITICAL", sticky, ok2).pushed = IF Sounding(r.alarm) THEN r.pushed ELSE "CRITICAL"
        BY <1>0, FireFacts
    <2>8. reg'.alarm.severity = "CRITICAL" /\ reg'.pushed = "CRITICAL"
        BY <2>5, <2>7, <2>6
    <2> QED
        BY <2>2, <2>8
<1>7. ASSUME SampleCritical, Frame PROVE PushInv'
    <2>0. PICK sticky \in BOOLEAN : sticky = TRUE
        BY Zenon
    <2>1. PICK ok \in BOOLEAN : reg' = Fire(reg, "CRITICAL", sticky, ok)
        BY <1>7, <2>0, Zenon DEF SampleCritical
    <2>2. stage = "critical" /\ stage' = "critical" /\ config'.armed
        BY <1>7 DEF SampleCritical, Breached, Judging
    <2>3. /\ reg'.alarm.severity = "CRITICAL"
          /\ reg'.pushed = IF Sounding(reg.alarm) THEN reg.pushed ELSE "CRITICAL"
        BY <1>0, <2>1, FireFacts
    <2>4. reg'.pushed = "CRITICAL"
        BY <2>2, <2>3
    <2> QED
        BY <2>2, <2>3, <2>4
<1>8. ASSUME Acknowledge PROVE PushInv'
    <2>1. PICK ok \in BOOLEAN : reg' = Ack(reg, ok)
        BY <1>8 DEF Acknowledge
    <2>2. ~Sounding(reg'.alarm)
        BY <1>0, <2>1, AckFacts
    <2> QED
        BY <2>2
<1>9. ASSUME Drop PROVE PushInv'
    <2>1. config'.armed
        BY <1>9 DEF Drop, Configure, Inv, TypeOK, Configs
    <2> QED
        BY <1>9, <2>1 DEF Drop
<1>10. ASSUME Weigh PROVE PushInv'
    <2>1. PICK ok1 \in BOOLEAN, ok2 \in BOOLEAN : reg' = Ack(Clear(reg, ok1), ok2)
        BY <1>10 DEF Weigh
    <2>2. Clear(reg, ok1) \in Registries
        BY <1>0, ClearFacts
    <2>3. ~Sounding(reg'.alarm)
        BY <2>1, <2>2, AckFacts
    <2> QED
        BY <2>3
<1>11. ASSUME LoadForm \/ SaveForm PROVE PushInv'
    BY <1>11 DEF LoadForm, SaveForm
<1>12. ASSUME Restart PROVE PushInv'
    <2>1. ~Sounding(reg'.alarm)
        BY <1>0, <1>12, RestartedFacts DEF Restart
    <2> QED
        BY <2>1
<1>13. ASSUME Move \/ Tick \/ UNCHANGED vars PROVE PushInv'
    BY <1>13 DEF Move, Tick, vars
<1> QED
    BY <1>1, <1>2, <1>3, <1>4, <1>5, <1>6, <1>7, <1>8, <1>9, <1>10, <1>11, <1>12, <1>13
    DEF Next, Sample

(* Where only drop and weigh configure the watch, every escalation         *)
(* is pushed: the last notification has the severity of the alarm that     *)
(* sounds, across restarts and failing writes.                             *)
THEOREM EscalationIsPushed == Spec => []PushedSeverity
<1>1. PushInv => PushedSeverity
    BY DEF PushInv, PushedSeverity
<1> QED
    BY InvInit, InvNext, PushInvInit, PushInvNext, <1>1, PTL DEF Spec

---------------------------------------------------------------------------------
(* What the history writer does when every write succeeds: a fresh alarm   *)
(* opens a row unless one is in hand; no row is let go of open             *)
(* (alarms-history.ts:24-78).                                              *)
LEMMA FireHistory ==
    ASSUME NEW r \in Registries, NEW s \in Severities, NEW t \in BOOLEAN, NEW ok \in BOOLEAN,
           ~r.leftOpen, ok
    PROVE  /\ ~Fire(r, s, t, ok).leftOpen
           /\ ~t => ~Fire(r, s, t, ok).alarm.sticky
           /\ r.row.severity # "none" => Fire(r, s, t, ok).row = r.row
           /\ r.row.severity = "none" =>
                  /\ OpenRow(Fire(r, s, t, ok).row)
                  /\ Fire(r, s, t, ok).row.severity = s
<1> DEFINE new == Fire(r, s, t, ok)
           fresh == [severity |-> s, cleared |-> FALSE, acked |-> FALSE]
<1>1. new.leftOpen = r.leftOpen
    BY DEF Fire
<1>2. new.alarm = [severity |-> s, sticky |-> t, cleared |-> FALSE, acked |-> FALSE]
    BY DEF Fire
<1>3. ASSUME ~t PROVE ~new.alarm.sticky
    <2>1. t = FALSE
        BY <1>3, Zenon
    <2>2. new.alarm = [severity |-> s, sticky |-> FALSE, cleared |-> FALSE, acked |-> FALSE]
        BY <1>2, <2>1, Zenon
    <2>3. [severity |-> s, sticky |-> FALSE, cleared |-> FALSE, acked |-> FALSE].sticky = FALSE
        OBVIOUS
    <2> QED
        BY <2>2, <2>3, Zenon
<1>4. r.row.severity # "none" => new.row = r.row
    BY DEF Fire
<1>5. r.row.severity = "none" => new.row = fresh
    BY DEF Fire
<1>6. OpenRow(fresh) /\ fresh.severity = s
    BY DEF OpenRow, Severities
<1>7. ~new.leftOpen
    BY <1>1, Zenon
<1> HIDE DEF new, fresh
<1>8. r.row.severity = "none" => OpenRow(new.row) /\ new.row.severity = s
    BY <1>5, <1>6, Zenon
<1> QED
    BY <1>3, <1>4, <1>7, <1>8, Zenon DEF new

LEMMA RecordHistory ==
    ASSUME NEW r, NEW a, NEW row, NEW forget \in BOOLEAN, ~r.leftOpen, ~OpenRow(row)
    PROVE  /\ ~Record(r, a, row, forget).leftOpen
           /\ Record(r, a, row, forget).alarm = a
           /\ forget => Record(r, a, row, forget).row = NoRow
<1>1. PICK left : left = (r.leftOpen \/ (forget /\ OpenRow(row)))
    BY Zenon
<1>2. left = FALSE
    BY <1>1, Zenon
<1>3. Record(r, a, row, forget) =
          [alarm |-> a, row |-> IF forget THEN NoRow ELSE row, leftOpen |-> FALSE, pushed |-> r.pushed]
    BY <1>1, <1>2, Zenon DEF Record
<1>4. Record(r, a, row, forget).leftOpen = FALSE /\ Record(r, a, row, forget).alarm = a
    BY <1>3
<1>5. CASE forget
    <2>1. (IF forget THEN NoRow ELSE row) = NoRow
        BY <1>5, Zenon
    <2>2. Record(r, a, row, forget).row = NoRow
        BY <1>3, <2>1
    <2> QED
        BY <1>4, <2>2, Zenon
<1>6. CASE ~forget
    BY <1>4, <1>6, Zenon
<1> QED
    BY <1>5, <1>6, Zenon

LEMMA ClearHistory ==
    ASSUME NEW r \in Registries, ~r.leftOpen
    PROVE  /\ ~Clear(r, TRUE).leftOpen
           /\ Clear(r, TRUE).alarm.severity = r.alarm.severity
           /\ ~r.alarm.sticky => Clear(r, TRUE).row = NoRow
<1>1. r.alarm \in Snapshots /\ r.row \in Rows
    BY DEF Registries
<1>2. PICK forget \in BOOLEAN : forget = ~r.alarm.sticky
    BY Zenon
<1>3. PICK closed : closed = ClearedRow(r.row, TRUE)
    BY Zenon
<1>4. ~OpenRow(closed)
    <2>1. CASE r.row.severity = "none"
        <3>1. closed.severity = "none"
            BY <1>1, <1>3, <2>1 DEF ClearedRow, Rows
        <3> QED
            BY <3>1 DEF OpenRow
    <2>2. CASE r.row.severity # "none"
        <3>1. closed = [r.row EXCEPT !.cleared = TRUE]
            <4>1. (r.row.cleared \/ (TRUE /\ r.row.severity # "none")) = TRUE
                BY <2>2, Zenon
            <4> QED
                BY <1>3, <4>1, Zenon DEF ClearedRow
        <3>2. closed.cleared
            BY <1>1, <3>1 DEF Rows
        <3> QED
            BY <3>2 DEF OpenRow
    <2> QED
        BY <2>1, <2>2
<1>5. Clear(r, TRUE) = Record(r, ClearedAlarm(r.alarm), closed, forget)
    BY <1>2, <1>3, Zenon DEF Clear
<1>6. /\ ~Clear(r, TRUE).leftOpen
      /\ Clear(r, TRUE).alarm = ClearedAlarm(r.alarm)
      /\ forget => Clear(r, TRUE).row = NoRow
    <2> DEFINE new == Record(r, ClearedAlarm(r.alarm), closed, forget)
    <2>1. ~new.leftOpen /\ new.alarm = ClearedAlarm(r.alarm) /\ (forget => new.row = NoRow)
        BY <1>4, RecordHistory
    <2> QED
        BY <1>5, <2>1, Zenon
<1>8. ClearedAlarm(r.alarm).severity = r.alarm.severity
    BY <1>1 DEF ClearedAlarm, Snapshots
<1>10. ~r.alarm.sticky => forget
    BY <1>2, Zenon
<1> QED
    BY <1>6, <1>8, <1>10, Zenon

LEMMA AckHistory ==
    ASSUME NEW r \in Registries, ~r.leftOpen
    PROVE  /\ ~Ack(r, TRUE).leftOpen
           /\ Ack(r, TRUE).alarm.severity = r.alarm.severity
           /\ r.alarm.severity # "none" => Ack(r, TRUE).alarm.acked
<1>1. r.alarm \in Snapshots /\ r.row \in Rows
    BY DEF Registries
<1>2. PICK closed : closed = [r.row EXCEPT !.acked = (r.row.acked \/ (TRUE /\ r.row.severity # "none"))]
    BY Zenon
<1>3. PICK a : a = [r.alarm EXCEPT !.acked = (r.alarm.severity # "none")]
    BY Zenon
<1>4. ~OpenRow(closed)
    <2>1. CASE r.row.severity = "none"
        <3>1. closed.severity = "none"
            BY <1>1, <1>2, <2>1 DEF Rows
        <3> QED
            BY <3>1 DEF OpenRow
    <2>2. CASE r.row.severity # "none"
        <3>1. closed = [r.row EXCEPT !.acked = TRUE]
            <4>1. (r.row.acked \/ (TRUE /\ r.row.severity # "none")) = TRUE
                BY <2>2, Zenon
            <4> QED
                BY <1>2, <4>1, Zenon
        <3>2. closed.acked
            BY <1>1, <3>1 DEF Rows
        <3> QED
            BY <3>2 DEF OpenRow
    <2> QED
        BY <2>1, <2>2
<1>5. Ack(r, TRUE) = Record(r, a, closed, TRUE)
    BY <1>2, <1>3, Zenon DEF Ack
<1>6. PICK forget \in BOOLEAN : forget = TRUE
    BY Zenon
<1>7. ~Ack(r, TRUE).leftOpen /\ Ack(r, TRUE).alarm = a
    <2> DEFINE new == Record(r, a, closed, forget)
    <2>1. ~new.leftOpen /\ new.alarm = a
        BY <1>4, RecordHistory
    <2> QED
        BY <1>5, <1>6, <2>1, Zenon
<1>8. a.severity = r.alarm.severity
    BY <1>1, <1>3 DEF Snapshots
<1>9. r.alarm.severity # "none" => a.acked
    BY <1>1, <1>3 DEF Snapshots
<1> QED
    BY <1>7, <1>8, <1>9, Zenon

LEMMA RestartHistory ==
    ASSUME NEW r \in Registries, ~r.leftOpen
    PROVE  ~Restarted(r).leftOpen
<1>1. Restarted(r).leftOpen = r.leftOpen
    BY DEF Restarted
<1> QED
    BY <1>1, Zenon

(* Past its idle stage the alarm sounds or is acknowledged.  A WARN that   *)
(* sounds is not sticky, so that the escalation lets go of its row and     *)
(* opens another; a CRITICAL that sounds has it open.                      *)
HistoryInv ==
    usage = "plain" =>
        /\ ~reg.leftOpen
        /\ stage # "idle" => reg.alarm.severity # "none" /\ (Sounding(reg.alarm) \/ reg.alarm.acked)
        /\ Sounding(reg.alarm) /\ reg.alarm.severity = "WARN" => ~reg.alarm.sticky
        /\ Sounding(reg.alarm) /\ reg.alarm.severity = "CRITICAL" =>
               OpenRow(reg.row) /\ reg.row.severity = "CRITICAL"

LEMMA HistoryInvInit == Init => HistoryInv
<1>1. ~Sounding(Empty.alarm) /\ ~Empty.leftOpen
    BY DEF Empty, NoAlarm, Sounding
<1> QED
    BY <1>1 DEF Init, HistoryInv

LEMMA HistoryInvNext == Inv /\ PushInv /\ HistoryInv /\ [Next]_vars => HistoryInv'
<1> SUFFICES ASSUME Inv, PushInv, HistoryInv, [Next]_vars PROVE HistoryInv'
    OBVIOUS
<1>U. usage' = usage
    BY DEF Next, vars
<1> SUFFICES ASSUME usage = "plain" PROVE HistoryInv'
    BY <1>U, Zenon DEF HistoryInv
<1>A. DbAnswers = {TRUE}
    BY DEF DbAnswers
<1> DEFINE Frame == UNCHANGED <<config, saved, form, outside, hushed>>
<1>0. reg \in Registries /\ "WARN" \in Severities /\ "CRITICAL" \in Severities
    BY DEF Inv, TypeOK, Severities
<1>B. ~reg.leftOpen
    BY DEF HistoryInv
<1>C. stage # "idle" => reg.alarm.severity # "none" /\ (Sounding(reg.alarm) \/ reg.alarm.acked)
    BY Zenon DEF HistoryInv
<1>D. Sounding(reg.alarm) /\ reg.alarm.severity = "WARN" => ~reg.alarm.sticky
    BY Zenon DEF HistoryInv
<1>E. Sounding(reg.alarm) /\ reg.alarm.severity = "CRITICAL" =>
          OpenRow(reg.row) /\ reg.row.severity = "CRITICAL"
    BY Zenon DEF HistoryInv
<1>F. Sounding(reg.alarm) =>
          \/ stage = "warn" /\ reg.alarm.severity = "WARN"
          \/ stage = "critical" /\ reg.alarm.severity = "CRITICAL"
    BY Zenon DEF PushInv
<1>W. "WARN" # "none" /\ "CRITICAL" # "none" /\ "WARN" # "CRITICAL"
    OBVIOUS
<1>1. ASSUME SampleDisarmed, Frame PROVE HistoryInv'
    BY <1>1, <1>B, <1>D, <1>E DEF SampleDisarmed, HistoryInv
<1>2. ASSUME SampleInside, Frame PROVE HistoryInv'
    <2>1. reg' = Clear(reg, TRUE) /\ stage' = "idle"
        BY <1>2, <1>A, Zenon DEF SampleInside
    <2>2. ~Sounding(reg'.alarm) /\ ~reg'.leftOpen
        BY <1>0, <1>B, <2>1, ClearFacts, ClearHistory, Zenon
    <2> QED
        BY <2>1, <2>2, Zenon DEF HistoryInv
<1>3. ASSUME SampleBreach \/ SampleWarn PROVE HistoryInv'
    <2>1. reg' = Fire(reg, "WARN", FALSE, TRUE)
        BY <1>3, <1>A, Zenon DEF SampleBreach, SampleWarn
    <2>2. /\ Sounding(reg'.alarm) /\ reg'.alarm.severity = "WARN"
          /\ ~reg'.leftOpen /\ ~reg'.alarm.sticky
        <3>1. PICK sticky \in BOOLEAN, ok \in BOOLEAN : ~sticky /\ ok
            BY Zenon
        <3>E. reg' = Fire(reg, "WARN", sticky, ok)
            BY <2>1, <3>1, Zenon
        <3>2. Sounding(reg'.alarm) /\ reg'.alarm.severity = "WARN"
            BY <1>0, <3>E, FireFacts
        <3>3. ~reg'.leftOpen /\ ~reg'.alarm.sticky
            BY <1>0, <1>B, <3>E, <3>1, FireHistory
        <3> QED
            BY <3>2, <3>3, Zenon
    <2> QED
        BY <2>2, <1>W, Zenon DEF HistoryInv
<1>4. ASSUME SampleSilenced, Frame PROVE HistoryInv'
    BY <1>4, Zenon DEF SampleSilenced, HistoryInv
<1>6. ASSUME SampleEscalate, Frame PROVE HistoryInv'
    <2>1. reg' = Fire(Clear(reg, TRUE), "CRITICAL", TRUE, TRUE)
        BY <1>6, <1>A, Zenon DEF SampleEscalate
    <2>2. stage = "warn" /\ ~reg.alarm.acked
        BY <1>6, Zenon DEF SampleEscalate, Breached
    <2>3. ~reg.alarm.sticky
        BY <2>2, <1>C, <1>D, <1>F
    <2>4. PICK r : r = Clear(reg, TRUE)
        BY Zenon
    <2>5. r \in Registries /\ ~r.leftOpen /\ r.row = NoRow
        BY <1>0, <1>B, <2>3, <2>4, ClearFacts, ClearHistory, Zenon
    <2>6. r.row.severity = "none"
        BY <2>5 DEF NoRow
    <2>T. PICK yes \in BOOLEAN : yes
        BY Zenon
    <2>E. reg' = Fire(r, "CRITICAL", yes, yes)
        BY <2>1, <2>4, <2>T, Zenon
    <2>7. /\ ~reg'.leftOpen
          /\ OpenRow(reg'.row)
          /\ reg'.row.severity = "CRITICAL"
        BY <1>0, <2>E, <2>5, <2>6, <2>T, FireHistory
    <2>8. Sounding(reg'.alarm) /\ reg'.alarm.severity = "CRITICAL"
        BY <1>0, <2>E, <2>5, FireFacts
    <2> QED
        BY <2>7, <2>8, <1>W, Zenon DEF HistoryInv
<1>7. ASSUME SampleCritical, Frame PROVE HistoryInv'
    <2>1. reg' = Fire(reg, "CRITICAL", TRUE, TRUE)
        BY <1>7, <1>A, Zenon DEF SampleCritical
    <2>2. stage = "critical" /\ ~reg.alarm.acked
        BY <1>7, Zenon DEF SampleCritical, Breached
    <2>3. OpenRow(reg.row) /\ reg.row.severity = "CRITICAL"
        BY <2>2, <1>C, <1>E, <1>F
    <2>T. PICK yes \in BOOLEAN : yes
        BY Zenon
    <2>E. reg' = Fire(reg, "CRITICAL", yes, yes)
        BY <2>1, <2>T, Zenon
    <2>4. ~reg'.leftOpen /\ reg'.row = reg.row
        BY <1>0, <1>B, <1>W, <2>E, <2>3, <2>T, FireHistory
    <2>5. Sounding(reg'.alarm) /\ reg'.alarm.severity = "CRITICAL"
        BY <1>0, <2>E, FireFacts
    <2> QED
        BY <2>3, <2>4, <2>5, <1>W, Zenon DEF HistoryInv
<1>8. ASSUME Acknowledge PROVE HistoryInv'
    <2>1. reg' = Ack(reg, TRUE) /\ stage' = stage
        BY <1>8, <1>A, Zenon DEF Acknowledge
    <2>2. ~Sounding(reg'.alarm) /\ ~reg'.leftOpen
        BY <1>0, <1>B, <2>1, AckFacts, AckHistory, Zenon
    <2>3. stage # "idle" => reg'.alarm.severity # "none" /\ reg'.alarm.acked
        BY <1>0, <1>B, <1>C, <2>1, AckHistory, Zenon
    <2> QED
        BY <2>1, <2>2, <2>3, Zenon DEF HistoryInv
<1>9. ASSUME Drop PROVE HistoryInv'
    BY <1>9, Zenon DEF Drop, HistoryInv
<1>10. ASSUME Weigh PROVE HistoryInv'
    <2>1. reg' = Ack(Clear(reg, TRUE), TRUE) /\ stage' = stage
        BY <1>10, <1>A, Zenon DEF Weigh
    <2>2. PICK r : r = Clear(reg, TRUE)
        BY Zenon
    <2>3. r \in Registries /\ ~r.leftOpen /\ r.alarm.severity = reg.alarm.severity
        BY <1>0, <1>B, <2>2, ClearFacts, ClearHistory, Zenon
    <2>4. ~Sounding(reg'.alarm) /\ ~reg'.leftOpen
        BY <2>1, <2>2, <2>3, AckFacts, AckHistory, Zenon
    <2>5. stage # "idle" => reg'.alarm.severity # "none" /\ reg'.alarm.acked
        BY <1>C, <2>1, <2>2, <2>3, AckHistory, Zenon
    <2> QED
        BY <2>1, <2>4, <2>5, Zenon DEF HistoryInv
<1>11. ASSUME LoadForm \/ SaveForm PROVE HistoryInv'
    BY <1>11 DEF LoadForm, SaveForm
<1>12. ASSUME Restart PROVE HistoryInv'
    <2>1. reg' = Restarted(reg) /\ stage' = "idle"
        BY <1>12, Zenon DEF Restart
    <2>2. ~Sounding(reg'.alarm) /\ ~reg'.leftOpen
        BY <1>0, <1>B, <2>1, RestartedFacts, RestartHistory, Zenon
    <2> QED
        BY <2>1, <2>2, Zenon DEF HistoryInv
<1>13. ASSUME Move PROVE HistoryInv'
    BY <1>13, Zenon DEF Move, HistoryInv
<1>14. ASSUME Tick PROVE HistoryInv'
    BY <1>14, Zenon DEF Tick, HistoryInv
<1>15. ASSUME UNCHANGED vars PROVE HistoryInv'
    <2>1. reg' = reg /\ stage' = stage
        BY <1>15 DEF vars
    <2> QED
        BY <2>1, Zenon DEF HistoryInv
<1> QED
    BY <1>1, <1>2, <1>3, <1>4, <1>6, <1>7, <1>8, <1>9, <1>10, <1>11, <1>12, <1>13, <1>14, <1>15
    DEF Next, Sample

(* As long as every write succeeds the history follows the alarm: a        *)
(* CRITICAL that sounds has its row open, and every row the writer let go  *)
(* of was closed, through escalations, returns, weighs and restarts.       *)
THEOREM HistoryFollowsAlarm == Spec => []HistoryFollows
<1>1. HistoryInv => HistoryFollows
    BY Zenon DEF HistoryInv, HistoryFollows
<1> QED
    BY InvInit, InvNext, PushInvInit, PushInvNext, HistoryInvInit, HistoryInvNext, <1>1, PTL DEF Spec

---------------------------------------------------------------------------------
(* The watch as an alarm of AlarmLife.  Past the idle stage there is an    *)
(* alarm, which sounds or was answered.                                    *)
AnsweredInv ==
    stage # "idle" => reg.alarm.severity # "none" /\ (Sounding(reg.alarm) \/ reg.alarm.acked)

LEMMA AnsweredInvInit == Init => AnsweredInv
BY DEF Init, AnsweredInv

(* A firing leaves an alarm that sounds with the severity it was given. *)
LEMMA FiredAlarm ==
    ASSUME Inv, SampleBreach \/ SampleWarn \/ SampleEscalate \/ SampleCritical
    PROVE  Sounding(reg'.alarm) /\ reg'.alarm.severity \in {"WARN", "CRITICAL"}
<1>1. PICK r \in Registries, s \in Severities, t \in BOOLEAN, ok \in BOOLEAN : reg' = Fire(r, s, t, ok)
    <2>0. reg \in Registries /\ "WARN" \in Severities /\ "CRITICAL" \in Severities
        BY DEF Inv, TypeOK, Severities
    <2>1. CASE SampleBreach \/ SampleWarn \/ SampleCritical
        BY <2>0, <2>1, DbAnswersType DEF SampleBreach, SampleWarn, SampleCritical
    <2>2. CASE SampleEscalate
        <3>1. PICK ok1 \in BOOLEAN, ok2 \in BOOLEAN : reg' = Fire(Clear(reg, ok1), "CRITICAL", TRUE, ok2)
            BY <2>2, DbAnswersType DEF SampleEscalate
        <3> QED
            BY <2>0, <3>1, ClearFacts
    <2> QED
        BY <2>1, <2>2
<1>2. Sounding(Fire(r, s, t, ok).alarm) /\ Fire(r, s, t, ok).alarm.severity = s
    BY FireFacts
<1> QED
    BY <1>1, <1>2 DEF Severities

LEMMA AnsweredAlarm ==
    ASSUME Inv, Acknowledge \/ Weigh
    PROVE  /\ ~Sounding(reg'.alarm)
           /\ reg'.alarm.severity = reg.alarm.severity
           /\ reg.alarm.severity # "none" => reg'.alarm.acked
           /\ stage' = stage
<1>0. reg \in Registries
    BY DEF Inv, TypeOK
<1>1. CASE Acknowledge
    <2>1. PICK ok \in BOOLEAN : reg' = Ack(reg, ok)
        BY <1>1, DbAnswersType DEF Acknowledge
    <2> QED
        BY <1>0, <1>1, <2>1, AckFacts, AlarmFields DEF Acknowledge
<1>2. CASE Weigh
    <2>1. PICK ok1 \in BOOLEAN, ok2 \in BOOLEAN : reg' = Ack(Clear(reg, ok1), ok2)
        BY <1>2, DbAnswersType DEF Weigh
    <2>2. Clear(reg, ok1) \in Registries /\ Clear(reg, ok1).alarm.severity = reg.alarm.severity
        BY <1>0, ClearFacts, AlarmFields
    <2> QED
        BY <1>2, <2>1, <2>2, AckFacts, AlarmFields DEF Weigh
<1> QED
    BY <1>1, <1>2

LEMMA AnsweredInvNext == Inv /\ AnsweredInv /\ [Next]_vars => AnsweredInv'
<1> SUFFICES ASSUME Inv, AnsweredInv, [Next]_vars PROVE AnsweredInv'
    OBVIOUS
<1> USE DEF AnsweredInv
<1>1. CASE SampleDisarmed \/ SampleInside \/ Restart
    BY <1>1 DEF SampleDisarmed, SampleInside, Restart
<1>2. CASE SampleBreach \/ SampleWarn \/ SampleEscalate \/ SampleCritical
    BY <1>2, FiredAlarm
<1>3. CASE Acknowledge \/ Weigh
    BY <1>3, AnsweredAlarm
<1>4. CASE SampleSilenced \/ Drop \/ LoadForm \/ SaveForm \/ Move \/ Tick \/ UNCHANGED vars
    BY <1>4 DEF SampleSilenced, Drop, LoadForm, SaveForm, Move, Tick, vars
<1> QED
    BY <1>1, <1>2, <1>3, <1>4 DEF Next, Sample

(* Every step of the watch is one of an alarm's life, or none. *)
LEMMA WatchStepIsLife ==
    ASSUME Inv, AnsweredInv, [Next]_vars
    PROVE  \/ Watch!LifeNext
           \/ UNCHANGED <<WatchLife, IF WatchLife = "quiet" THEN "none" ELSE reg.alarm.severity>>
<1> USE DEF WatchLife
<1>1. CASE SampleBreach \/ SampleWarn \/ SampleEscalate \/ SampleCritical
    <2>1. Sounding(reg'.alarm) /\ reg'.alarm.severity \in {"WARN", "CRITICAL"}
        BY <1>1, FiredAlarm
    <2>2. Judging /\ outside /\ (stage = "idle" \/ ~reg.alarm.acked)
        BY <1>1 DEF SampleBreach, SampleWarn, SampleEscalate, SampleCritical, Breached
    <2>3. Watch!Raise
        BY <2>1, <2>2 DEF Watch!Raise
    <2> QED
        BY <2>3 DEF Watch!LifeNext
<1>2. CASE SampleInside \/ Restart
    <2>1. ~Sounding(reg'.alarm) /\ stage' = "idle"
        BY <1>2, ClearFacts, RestartedFacts, DbAnswersType DEF SampleInside, Restart, Inv, TypeOK
    <2> QED
        BY <2>1 DEF Watch!LifeNext, Watch!Subside
<1>3. CASE SampleDisarmed
    <2>1. reg' = reg /\ stage' = "idle"
        BY <1>3 DEF SampleDisarmed
    <2>2. CASE Sounding(reg.alarm)
        BY <2>1, <2>2
    <2>3. CASE ~Sounding(reg.alarm)
        BY <2>1, <2>3 DEF Watch!LifeNext, Watch!Subside
    <2> QED
        BY <2>2, <2>3
<1>4. CASE Acknowledge \/ Weigh
    <2>1. /\ ~Sounding(reg'.alarm) /\ reg'.alarm.severity = reg.alarm.severity /\ stage' = stage
          /\ reg.alarm.severity # "none" => reg'.alarm.acked
        BY <1>4, AnsweredAlarm
    <2>2. CASE stage = "idle"
        BY <2>1, <2>2 DEF Watch!LifeNext, Watch!Subside
    <2>3. CASE stage # "idle"
        <3>1. WatchLife' = "answered" /\ WatchLife \in {"sounding", "answered"}
            BY <2>1, <2>3 DEF AnsweredInv
        <3> QED
            BY <2>1, <3>1 DEF Watch!LifeNext, Watch!Answer
    <2> QED
        BY <2>2, <2>3
<1>5. CASE SampleSilenced \/ Drop \/ LoadForm \/ SaveForm \/ Move \/ Tick \/ UNCHANGED vars
    <2>1. reg' = reg /\ stage' = stage
        BY <1>5 DEF SampleSilenced, Drop, LoadForm, SaveForm, Move, Tick, vars
    <2> QED
        BY <2>1
<1> QED
    BY <1>1, <1>2, <1>3, <1>4, <1>5 DEF Next, Sample

LEMMA WatchStartsQuiet == Init => Watch!LifeInit
BY DEF Init, WatchLife, Watch!LifeInit, Empty, NoAlarm, Sounding

(* Refinement: the anchor watch is an alarm that begins to sound only on a *)
(* sample outside the armed swing area and that no severity overrides once *)
(* it is acknowledged, for every escalation time and every usage           *)
(* (anchor-watch.ts:22, 77).                                               *)
THEOREM WatchImplementsLife == Spec => WatchIsAnAlarm
<1>1. Inv /\ AnsweredInv /\ [Next]_vars =>
          [Watch!LifeNext]_<<WatchLife, IF WatchLife = "quiet" THEN "none" ELSE reg.alarm.severity>>
    BY WatchStepIsLife
<1> QED
    BY <1>1, WatchStartsQuiet, InvInit, InvNext, AnsweredInvInit, AnsweredInvNext, PTL
    DEF Spec, WatchIsAnAlarm, Watch!LifeSpec
=================================================================================
