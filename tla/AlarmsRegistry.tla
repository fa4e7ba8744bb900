----------------------------- MODULE AlarmsRegistry -----------------------------
(***************************************************************************)
(* One id of the safety alarms registry (packages/core/src/alarms.ts) as   *)
(* the app wires it: every mutator is wrapped by the history writer        *)
(* (apps/g5000/src/alarms-history.ts), and fire once more by the ntfy push *)
(* (apps/g5000/src/alarm-push.ts, with a topic configured).  Timestamps    *)
(* are reduced to whether they are set.  The history table is reduced to   *)
(* the row the writer still has the id of, and to whether it let go of     *)
(* some other row with neither a clear nor an ack time.  Every operator    *)
(* takes `ok', whether the database accepts the write.                     *)
(***************************************************************************)
Severities == {"WARN", "CRITICAL"}

Snapshots == [severity : Severities \cup {"none"}, sticky : BOOLEAN, cleared : BOOLEAN, acked : BOOLEAN]
Rows == [severity : Severities \cup {"none"}, cleared : BOOLEAN, acked : BOOLEAN]

(* byId has no snapshot under the id; rowIdByAlarmId has no row under it. *)
NoAlarm == [severity |-> "none", sticky |-> FALSE, cleared |-> FALSE, acked |-> FALSE]
NoRow == [severity |-> "none", cleared |-> FALSE, acked |-> FALSE]

Registries == [alarm : Snapshots, row : Rows, leftOpen : BOOLEAN, pushed : Severities \cup {"none"}]
Empty == [alarm |-> NoAlarm, row |-> NoRow, leftOpen |-> FALSE, pushed |-> "none"]

(* isActive: what the UI lists. *)
Active(a) ==
    /\ a.severity # "none"
    /\ ~a.acked
    /\ a.cleared => a.sticky

(* Fired, and neither cleared nor acknowledged since. *)
Sounding(a) ==
    /\ a.severity # "none"
    /\ ~a.acked
    /\ ~a.cleared

OpenRow(row) ==
    /\ row.severity # "none"
    /\ ~row.cleared
    /\ ~row.acked

---------------------------------------------------------------------------------
(* fire: a fresh snapshot; a row unless one is in hand; a push unless the  *)
(* alarm was sounding already.                                             *)
Fire(reg, severity, sticky, ok) ==
    [alarm |-> [severity |-> severity, sticky |-> sticky, cleared |-> FALSE, acked |-> FALSE],
     row |-> IF reg.row.severity = "none" /\ ok
             THEN [severity |-> severity, cleared |-> FALSE, acked |-> FALSE]
             ELSE reg.row,
     leftOpen |-> reg.leftOpen,
     pushed |-> IF Sounding(reg.alarm) THEN reg.pushed ELSE severity]

(* The alarm becomes `alarm', the row in hand `row'; the writer forgets the *)
(* row if `forget'.                                                         *)
Record(reg, alarm, row, forget) ==
    [alarm |-> alarm,
     row |-> IF forget THEN NoRow ELSE row,
     leftOpen |-> reg.leftOpen \/ (forget /\ OpenRow(row)),
     pushed |-> reg.pushed]

ClearedAlarm(a) == [a EXCEPT !.cleared = (a.severity # "none")]
ClearedRow(row, ok) == [row EXCEPT !.cleared = (row.cleared \/ (ok /\ row.severity # "none"))]

(* Mutant: the writer keeps the row of an alarm that was not sticky. *)
ClearKeepsRow(reg, ok) ==
    Record(reg, ClearedAlarm(reg.alarm), ClearedRow(reg.row, ok), FALSE)

(* clear: the row in hand is closed, and kept in hand while the alarm is   *)
(* sticky.                                                                 *)
Clear(reg, ok) ==
    Record(reg, ClearedAlarm(reg.alarm), ClearedRow(reg.row, ok), ~reg.alarm.sticky)

(* ack: the row in hand is closed and forgotten. *)
Ack(reg, ok) ==
    Record(reg, [reg.alarm EXCEPT !.acked = (reg.alarm.severity # "none")],
           [reg.row EXCEPT !.acked = (reg.row.acked \/ (ok /\ reg.row.severity # "none"))], TRUE)

(* A new process: the snapshots and the row ids are gone, the table and the *)
(* notifications on the phones are not.  (A row open at that time stays so  *)
(* and is not counted as left open.)                                        *)
Restarted(reg) ==
    [alarm |-> NoAlarm, row |-> NoRow, leftOpen |-> reg.leftOpen, pushed |-> reg.pushed]
=================================================================================
