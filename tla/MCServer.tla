-------------------------------- MODULE MCServer --------------------------------
(* Instances of Server for TLC. *)
EXTENDS Server

CONSTANTS planner, tab1, planning, socketCan

(* One page owns the planning settings, one can toggle SocketCAN. *)
MCKey == [c \in Clients |-> IF c = planner THEN planning ELSE socketCan]
=================================================================================
