----------------------------- MODULE MCSettingsFile -----------------------------
(* Instances of SettingsFile for TLC. *)
EXTENDS SettingsFile

CONSTANTS planner, tab1, tab2, planning, socketCan

(* One page owns the planning settings, two can toggle SocketCAN. *)
MCKey == [c \in Clients |-> IF c = planner THEN planning ELSE socketCan]
=================================================================================
