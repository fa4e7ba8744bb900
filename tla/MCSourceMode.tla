------------------------------ MODULE MCSourceMode ------------------------------
(* Instances of SourceMode for TLC. *)
EXTENDS SourceMode

CONSTANTS c1, c2, c3, s1, s2, s3

ThreeCallers == {c1, c2, c3}
ThreeSlots == {s1, s2, s3}

(* Swaps that overlap; all the operations, one request at a time; all of them *)
(* overlapping, with every fault.                                             *)
Swapping == [ops |-> {"setLiveOrDemo"}, callers |-> {c1, c2, c3}, inTurn |-> FALSE,
             faulty |-> {"factory"}]
TakingTurns == [ops |-> AllOps, callers |-> {c1, c2}, inTurn |-> TRUE, faulty |-> {}]
Overlapping == [ops |-> AllOps, callers |-> {c1, c2}, inTurn |-> FALSE, faulty |-> AllFaults]

AllUsages == {Swapping, TakingTurns, Overlapping}

(* Two requests overlap and everything they await succeeds. *)
TwoRequests == {[Overlapping EXCEPT !.faulty = {}]}
=================================================================================
