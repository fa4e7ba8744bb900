-------------------------------- MODULE MCInputs --------------------------------
(* Instances of Inputs for TLC. *)
EXTENDS Inputs

CONSTANTS gps, gpsB, aux, other

(* The rule lists both receivers by a prefix, gpsB again with the auxiliary *)
(* one and gps again on its own; the last tag is unlisted.                  *)
MCPattern == [t \in Tags |-> IF t = gps THEN {1, 3} ELSE IF t = gpsB THEN {1, 2}
                             ELSE IF t = aux THEN {2} ELSE {}]

(* Two frames together, a gap, and a frame stamped before its predecessor. *)
MCOffsets == <<0, 0, 2, 1, 4>>
=================================================================================
