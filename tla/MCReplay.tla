-------------------------------- MODULE MCReplay --------------------------------
(* Instances of Replay for TLC. *)
EXTENDS Replay

(* Two frames together, a gap, and a frame stamped before its predecessor. *)
MCOffsets == <<0, 0, 2, 1, 4>>
=================================================================================
