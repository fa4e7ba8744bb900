-------------------------------- MODULE FastPacket --------------------------------
(***************************************************************************)
(* FastPacketReassembler.feed (packages/bridge/src/bandg-perf.ts): the     *)
(* frames of the fast packets that one source sends, put together again.   *)
(* A frame carries its counter and the number of its packet, of three bits *)
(* (SeqNumbers = 8); frames are lost, never reordered.  Each driver on the *)
(* hub has a reassembler of its own, with an entry per source.             *)
(***************************************************************************)
EXTENDS Naturals

CONSTANTS
    SeqNumbers,     \* packet numbers
    MaxFrames       \* frames of the longest packet

ASSUME FastPacketAssumption == SeqNumbers \in Nat \ {0, 1} /\ MaxFrames \in Nat \ {0}

VARIABLES
    seqId, counter, length, \* of the frame that is sent next; frames of its packet
    entry,      \* inProgress of the source, or NoEntry; what its frames are of, and the
                \* longest run of lost frames between two of them
    current,    \* the last frame of the entry is of the packet being sent
    unharmed,   \* no frame of the packet being sent was lost
    lost,       \* frames lost in a row, up to Many
    result      \* what feed returned last: of how many packets, over which run;
                \* and whether that was the end of an unharmed packet

packetVars == <<seqId, counter, length, entry, current, unharmed, lost, result>>

Many == SeqNumbers + 1
NoEntry == [seqId |-> 0, expected |-> 0, nextCounter |-> 0, of |-> "none", run |-> 0]
Entries == [seqId : 0 .. SeqNumbers - 1, expected : 1 .. MaxFrames, nextCounter : 1 .. MaxFrames,
            of : {"one", "two"}, run : 0 .. Many]
Results == [of : {"none", "one", "two"}, run : 0 .. Many, unharmed : BOOLEAN]
Null == [of |-> "none", run |-> 0, unharmed |-> FALSE]

PacketTypeOK ==
    /\ seqId \in 0 .. SeqNumbers - 1
    /\ length \in 1 .. MaxFrames
    /\ counter \in 0 .. length - 1
    /\ entry \in Entries \cup {NoEntry}
    /\ current \in BOOLEAN
    /\ unharmed \in BOOLEAN
    /\ lost \in 0 .. Many
    /\ result \in Results

PacketInit ==
    /\ seqId = 0 /\ counter = 0 /\ length \in 1 .. MaxFrames
    /\ entry = NoEntry
    /\ current = FALSE
    /\ unharmed = TRUE
    /\ lost = 0
    /\ result = Null

---------------------------------------------------------------------------------
(* The source goes on to its next frame. *)
Advance ==
    IF counter + 1 < length THEN counter' = counter + 1 /\ UNCHANGED <<seqId, length>>
    ELSE counter' = 0 /\ seqId' = (seqId + 1) % SeqNumbers /\ length' \in 1 .. MaxFrames

Ends == counter + 1 = length

(* Mutant: the number of the packet is not compared. *)
ContinuesAny == entry # NoEntry /\ counter = entry.nextCounter

Continues == entry # NoEntry /\ seqId = entry.seqId /\ counter = entry.nextCounter

Begun == [seqId |-> seqId, expected |-> length, nextCounter |-> 1, of |-> "one", run |-> 0]

Continued ==
    [entry EXCEPT !.nextCounter = counter + 1,
                  !.of = IF current THEN @ ELSE "two",
                  !.run = IF lost > @ THEN lost ELSE @]

(* The entry with the frame, or none. *)
Fed == IF counter = 0 THEN Begun ELSE IF Continues THEN Continued ELSE NoEntry

(* feed(src, frame): what is complete is returned and forgotten. *)
Feed ==
    LET complete == Fed # NoEntry /\ Fed.nextCounter >= Fed.expected
    IN  /\ entry' = IF complete THEN NoEntry ELSE Fed
        /\ result' = [of |-> IF complete THEN Fed.of ELSE "none", run |-> IF complete THEN Fed.run ELSE 0,
                      unharmed |-> Ends /\ unharmed]
        /\ current' = ~Ends
        /\ unharmed' = (Ends \/ unharmed)
        /\ lost' = 0
        /\ Advance

(* The frame is lost on the way. *)
Lose ==
    /\ unharmed' = Ends
    /\ lost' = IF lost = Many THEN Many ELSE lost + 1
    /\ current' = (current /\ ~Ends)
    /\ result' = Null
    /\ UNCHANGED entry
    /\ Advance

PacketNext == Feed \/ Lose

PacketSpec == PacketInit /\ [][PacketNext]_packetVars

---------------------------------------------------------------------------------
(* "dropped/interleaved frames just yield a miss, never a corrupt payload" *)
(* (bandg-perf.ts:155): a payload made of two packets is returned only     *)
(* when all packets between them, a cycle of the numbers, were lost whole, *)
(* with the end of the one and the beginning of the other.                 *)
NeverCorrupt == result.of = "two" => result.run >= SeqNumbers + 1

(* And no more is missed than was lost: a packet whose frames all arrive   *)
(* is returned with its last one, whatever was lost before it.             *)
WholeIsReturned == result.unharmed => result.of = "one"
=================================================================================
