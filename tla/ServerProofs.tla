------------------------------ MODULE ServerProofs ------------------------------
(* Proofs about what the server process keeps: the settings file, the live *)
(* sources, the fast packets, the configuration database, and with the     *)
(* proofs of the hub and of the trip log the whole of Server, for every    *)
(* value of their constants.                                               *)
EXTENDS Server, DriverHubProofs, TripEngineProofs, FiniteSetTheorems, TLAPS

(* Every set of natural numbers that is not empty has a least element, by  *)
(* the well-foundedness of their order.                                    *)
LEMMA Least ==
    ASSUME NEW S \in SUBSET Nat, S # {}
    PROVE  \E m \in S : \A n \in S : m <= n
<1>1. \E x \in S : \A y \in S : ~(<<y, x>> \in OpToRel(<, Nat))
    BY NatLessThanWellFounded, WFMin
<1>2. PICK x \in S : \A y \in S : ~(<<y, x>> \in OpToRel(<, Nat))
    BY <1>1
<1>3. \A y \in S : ~(y < x)
    BY <1>2 DEF OpToRel
<1> QED
    BY <1>3

LEMMA MinIsLeast ==
    ASSUME NEW S \in SUBSET Nat, S # {}
    PROVE  Min(S) \in S /\ \A n \in S : Min(S) <= n
BY Least DEF Min

(* The settings file.  Only a toggle applies anything to the hub. *)
OnlyTogglesApply == \A c \in Clients : awaits[c] \in {"applying", "answering"} => Key[c] = SocketCan

(* Requests and sources in turn: the request that is not answered changes  *)
(* nothing of the file but its own key, and the file is whole except while *)
(* it writes.                                                              *)
Ours(c) == [stored EXCEPT ![Key[c]] = wanted[c]]
OneAtATime ==
    /\ \A c, d \in Clients : (awaits[c] # "idle" /\ awaits[d] # "idle") => c = d
    /\ opening # "no" => \A c \in Clients : awaits[c] = "idle"
    /\ \A c \in Clients :
           /\ awaits[c] \in {"opening", "writing"} => merged[c] = Ours(c)
           /\ awaits[c] = "writing" => state = "empty"
           /\ awaits[c] = "applying" => wanted[c] = stored[SocketCan]
    /\ (\A c \in Clients : awaits[c] # "writing") => state = "whole"
    /\ stored = saved

(* The hub runs what the file names, but for a driver that failed, from    *)
(* when a toggle has been applied or a source has added it until the next  *)
(* toggle is written or the next source opens.                             *)
HubInTurn ==
    /\ opening # "no" => running = Off
    /\ opening = "adding" => wished = stored[SocketCan]
    /\ (opening = "no" /\ hubShared /\ \A c \in Clients : awaits[c] # "applying") =>
           (running = stored[SocketCan] \/ (failed /\ running = Off))

SettingsInv ==
    /\ SettingsTypeOK
    /\ OnlyTogglesApply
    /\ requestsInTurn => OneAtATime /\ HubInTurn

LEMMA NothingType == Nothing \in Settings /\ Nothing[SocketCan] = Off
BY ValuesAssumption DEF Nothing, Settings, Keys

LEMMA OursType ==
    ASSUME SettingsTypeOK, NEW c \in Clients
    PROVE  Ours(c) \in Settings /\ Ours(c)[Key[c]] = wanted[c] /\ \A k \in Keys : k # Key[c] => Ours(c)[k] = stored[k]
BY DEF SettingsTypeOK, Ours, Settings, Keys

LEMMA SettingsInvInit == SettingsInit => SettingsInv
<1> SUFFICES ASSUME SettingsInit PROVE SettingsInv
    OBVIOUS
<1>1. SettingsTypeOK
    BY NothingType, ValuesAssumption DEF SettingsInit, SettingsTypeOK
<1>2. OnlyTogglesApply
    BY DEF SettingsInit, OnlyTogglesApply
<1>3. OneAtATime /\ HubInTurn
    BY NothingType DEF SettingsInit, OneAtATime, HubInTurn
<1> QED
    BY <1>1, <1>2, <1>3 DEF SettingsInv

(* The type of the next state. *)
LEMMA SettingsTypeNext == SettingsTypeOK /\ [SettingsNext]_settingsVars => SettingsTypeOK'
<1> SUFFICES ASSUME SettingsTypeOK, [SettingsNext]_settingsVars PROVE SettingsTypeOK'
    OBVIOUS
<1> USE NothingType, ValuesAssumption DEF SettingsTypeOK, hubSideVars
<1>0. requestsInTurn' = requestsInTurn
    BY DEF SettingsNext, settingsVars
<1>1. ASSUME NEW c \in Clients, NEW v \in Values, Request(c, v) PROVE SettingsTypeOK'
    BY <1>0, <1>1 DEF Request, Goto
<1>2. ASSUME NEW c \in Clients, Read(c) PROVE SettingsTypeOK'
    <2>1. [stored EXCEPT ![Key[c]] = wanted[c]] \in Settings
        BY DEF Settings, Keys
    <2> QED
        BY <1>0, <1>2, <2>1 DEF Read, Goto
<1>3. ASSUME NEW c \in Clients, ReadFailed(c) PROVE SettingsTypeOK'
    BY <1>0, <1>3 DEF ReadFailed, Answer, Goto
<1>4. ASSUME NEW c \in Clients, Open(c) PROVE SettingsTypeOK'
    BY <1>0, <1>4 DEF Open, Goto
<1>5. ASSUME NEW c \in Clients, Write(c) PROVE SettingsTypeOK'
    <2>1. [saved EXCEPT ![Key[c]] = wanted[c]] \in Settings
        BY DEF Settings, Keys
    <2> QED
        BY <1>0, <1>5, <2>1 DEF Write, Answer, Goto
<1>6. ASSUME NEW c \in Clients, Unavailable(c) \/ AnswerToggle(c) PROVE SettingsTypeOK'
    BY <1>0, <1>6 DEF Unavailable, AnswerToggle, Answer, Goto
<1>7. ASSUME NEW c \in Clients, Apply(c) PROVE SettingsTypeOK'
    BY <1>0, <1>7 DEF Apply, Goto
<1>8. CASE ShareHub
    BY <1>0, <1>8 DEF ShareHub
<1>9. CASE ReadChoice
    <2>1. SocketCan \in Keys
        OBVIOUS
    <2>2. stored[SocketCan] \in Values
        BY <2>1 DEF Settings
    <2> QED
        BY <1>0, <1>9, <2>2 DEF ReadChoice
<1>10. CASE AddChoice
    BY <1>0, <1>10 DEF AddChoice
<1>11. CASE UNCHANGED settingsVars
    BY <1>11 DEF settingsVars
<1> QED
    BY <1>1, <1>2, <1>3, <1>4, <1>5, <1>6, <1>7, <1>8, <1>9, <1>10, <1>11 DEF SettingsNext

(* The parts of the invariant that a step must keep, each at a step of its *)
(* own.                                                                    *)
LEMMA OnlyTogglesApplyNext ==
    ASSUME SettingsInv, [SettingsNext]_settingsVars
    PROVE  OnlyTogglesApply'
<1> USE DEF SettingsInv, SettingsTypeOK, OnlyTogglesApply
<1>1. ASSUME NEW c \in Clients, NEW v \in Values, Request(c, v) PROVE OnlyTogglesApply'
    BY <1>1 DEF Request, Goto
<1>2. ASSUME NEW c \in Clients, Read(c) PROVE OnlyTogglesApply'
    BY <1>2 DEF Read, Goto
<1>3. ASSUME NEW c \in Clients, ReadFailed(c) \/ Unavailable(c) \/ AnswerToggle(c) PROVE OnlyTogglesApply'
    BY <1>3 DEF ReadFailed, Unavailable, AnswerToggle, Answer, Goto
<1>4. ASSUME NEW c \in Clients, Open(c) PROVE OnlyTogglesApply'
    BY <1>4 DEF Open, Goto
<1>5. ASSUME NEW c \in Clients, Write(c) PROVE OnlyTogglesApply'
    BY <1>5 DEF Write, Answer, Goto
<1>6. ASSUME NEW c \in Clients, Apply(c) PROVE OnlyTogglesApply'
    BY <1>6 DEF Apply, Goto
<1>7. CASE ShareHub \/ ReadChoice \/ AddChoice \/ UNCHANGED settingsVars
    BY <1>7 DEF ShareHub, ReadChoice, AddChoice, settingsVars
<1> QED
    BY <1>1, <1>2, <1>3, <1>4, <1>5, <1>6, <1>7 DEF SettingsNext

LEMMA OneAtATimeNext ==
    ASSUME SettingsInv, [SettingsNext]_settingsVars, requestsInTurn
    PROVE  OneAtATime'
<1> USE DEF SettingsInv, SettingsTypeOK, OneAtATime, hubSideVars
<1>1. ASSUME NEW c \in Clients, NEW v \in Values, Request(c, v) PROVE OneAtATime'
    BY <1>1 DEF Request, Goto, Quiet, Ours
<1>2. ASSUME NEW c \in Clients, Read(c) PROVE OneAtATime'
    BY <1>2 DEF Read, Goto, Ours
<1>3. ASSUME NEW c \in Clients, ReadFailed(c) \/ Unavailable(c) \/ AnswerToggle(c) PROVE OneAtATime'
    BY <1>3 DEF ReadFailed, Unavailable, AnswerToggle, Answer, Goto, Ours
<1>4. ASSUME NEW c \in Clients, Open(c) PROVE OneAtATime'
    BY <1>4 DEF Open, Goto, Ours
<1>5. ASSUME NEW c \in Clients, Write(c) PROVE OneAtATime'
    <2>1. state' = "whole" /\ stored' = Ours(c) /\ saved' = Ours(c) /\ opening' = opening
        BY <1>5 DEF Write, Ours
    <2>2. \A d \in Clients : d # c => awaits[d] = "idle"
        BY <1>5 DEF Write
    <2>3. CASE Key[c] = SocketCan
        <3>1. awaits' = [awaits EXCEPT ![c] = "applying"] /\ UNCHANGED <<wanted, merged>>
            BY <1>5, <2>3 DEF Write, Goto
        <3>2. stored'[SocketCan] = wanted[c]
            BY <2>1, <2>3, OursType
        <3> QED
            BY <1>5, <2>1, <2>2, <3>1, <3>2 DEF Write
    <2>4. CASE Key[c] # SocketCan
        <3>1. awaits' = [awaits EXCEPT ![c] = "idle"]
            BY <1>5, <2>4 DEF Write, Answer, Goto
        <3> QED
            BY <1>5, <2>1, <2>2, <3>1 DEF Write
    <2> QED
        BY <2>3, <2>4
<1>6. ASSUME NEW c \in Clients, Apply(c) PROVE OneAtATime'
    BY <1>6 DEF Apply, Goto, Ours
<1>7. CASE ShareHub
    BY <1>7 DEF ShareHub, Quiet, Ours
<1>8. CASE ReadChoice \/ AddChoice \/ UNCHANGED settingsVars
    BY <1>8 DEF ReadChoice, AddChoice, settingsVars, Ours
<1> QED
    BY <1>1, <1>2, <1>3, <1>4, <1>5, <1>6, <1>7, <1>8 DEF SettingsNext

LEMMA HubInTurnNext ==
    ASSUME SettingsInv, [SettingsNext]_settingsVars, requestsInTurn
    PROVE  HubInTurn'
<1> USE DEF SettingsInv, SettingsTypeOK, HubInTurn, hubSideVars
<1>1. ASSUME NEW c \in Clients, NEW v \in Values, Request(c, v) PROVE HubInTurn'
    BY <1>1 DEF Request, Goto, Quiet
<1>2. ASSUME NEW c \in Clients, Read(c) \/ Open(c) PROVE HubInTurn'
    BY <1>2 DEF Read, Open, Goto
<1>3. ASSUME NEW c \in Clients, ReadFailed(c) \/ Unavailable(c) \/ AnswerToggle(c) PROVE HubInTurn'
    BY <1>3 DEF ReadFailed, Unavailable, AnswerToggle, Answer, Goto, OneAtATime
<1>4. ASSUME NEW c \in Clients, Write(c) PROVE HubInTurn'
    <2>1. stored' = Ours(c) /\ UNCHANGED <<running, failed, hubShared, opening, wished>> /\ opening = "no"
        BY <1>4 DEF Write, OneAtATime
    <2>2. CASE Key[c] = SocketCan
        <3>1. awaits'[c] = "applying"
            BY <1>4, <2>2 DEF Write, Goto
        <3> QED
            BY <2>1, <3>1
    <2>3. CASE Key[c] # SocketCan
        <3>1. stored'[SocketCan] = stored[SocketCan]
            BY <2>1, <2>3, OursType, ValuesAssumption
        <3>2. \A d \in Clients : awaits[d] # "applying"
            BY <1>4 DEF Write, OneAtATime
        <3> QED
            BY <2>1, <3>1, <3>2
    <2> QED
        BY <2>2, <2>3
<1>5. ASSUME NEW c \in Clients, Apply(c) PROVE HubInTurn'
    <2>1. opening = "no" /\ wanted[c] = stored[SocketCan]
        BY <1>5 DEF Apply, OneAtATime
    <2> QED
        BY <1>5, <2>1 DEF Apply
<1>6. CASE ShareHub
    BY <1>6 DEF ShareHub
<1>7. CASE ReadChoice
    <2>1. state = "whole"
        BY <1>7 DEF ReadChoice, OneAtATime
    <2> QED
        BY <1>7, <2>1 DEF ReadChoice
<1>8. CASE AddChoice
    BY <1>8 DEF AddChoice
<1>9. CASE UNCHANGED settingsVars
    BY <1>9 DEF settingsVars
<1> QED
    BY <1>1, <1>2, <1>3, <1>4, <1>5, <1>6, <1>7, <1>8, <1>9 DEF SettingsNext

LEMMA SettingsInvNext == SettingsInv /\ [SettingsNext]_settingsVars => SettingsInv'
<1> SUFFICES ASSUME SettingsInv, [SettingsNext]_settingsVars PROVE SettingsInv'
    OBVIOUS
<1>1. SettingsTypeOK'
    BY SettingsTypeNext DEF SettingsInv
<1>2. requestsInTurn' = requestsInTurn
    BY DEF SettingsNext, settingsVars
<1>3. requestsInTurn' => (OneAtATime /\ HubInTurn)'
    BY <1>2, OneAtATimeNext, HubInTurnNext
<1> QED
    BY <1>1, <1>3, OnlyTogglesApplyNext DEF SettingsInv

LEMMA SettingsInvHolds == SettingsSpec => []SettingsInv
BY SettingsInvInit, SettingsInvNext, PTL DEF SettingsSpec

(* Requests in turn: the file parses and holds for every key what its      *)
(* owner's last request wrote (settings/route.ts:33-65).                   *)
THEOREM KeysStayApart == SettingsSpec => []KeysKeptApart
<1>1. SettingsInv => KeysKeptApart
    BY DEF SettingsInv, OneAtATime, Quiet, KeysKeptApart
<1> QED
    BY <1>1, SettingsInvHolds, PTL

(* Requests and sources in turn: with none in flight the hub that is       *)
(* shared runs the interface the file names, or the driver did not start   *)
(* (socketcan/route.ts:30, live-factory.ts:235).                           *)
THEOREM HubRunsWhatIsStored == SettingsSpec => []RunningAsStored
<1>1. SettingsInv => RunningAsStored
    BY DEF SettingsInv, HubInTurn, Quiet, RunningAsStored
<1> QED
    BY <1>1, SettingsInvHolds, PTL

(***************************************************************************)
(* The fast packets.  How many packets lie between the entry's and the one *)
(* being sent, modulo the numbers; the same number again is a whole cycle. *)
(***************************************************************************)
Distance == IF seqId > entry.seqId THEN seqId - entry.seqId ELSE seqId - entry.seqId + SeqNumbers

(* An entry of one packet is of the packet being sent, or every frame since *)
(* its last was lost: one of its own, one of each packet between, those of  *)
(* the packet being sent.                                                   *)
EntryInv ==
    entry # NoEntry =>
        /\ entry.nextCounter < entry.expected
        /\ entry.of = "two" => entry.run >= Many
        /\ entry.of = "one" /\ current => seqId = entry.seqId /\ length = entry.expected
        /\ entry.of = "one" /\ ~current => lost = Many \/ lost >= counter + Distance

UnharmedInv ==
    (unharmed /\ counter > 0) =>
        entry # NoEntry /\ entry.of = "one" /\ current /\ entry.nextCounter = counter

PacketInv == PacketTypeOK /\ EntryInv /\ UnharmedInv /\ NeverCorrupt /\ WholeIsReturned

LEMMA NextNumber ==
    ASSUME NEW s \in 0 .. SeqNumbers - 1
    PROVE  (s + 1) % SeqNumbers = IF s + 1 < SeqNumbers THEN s + 1 ELSE 0
<1>0. SeqNumbers \in Nat /\ SeqNumbers > 1
    BY FastPacketAssumption
<1>1. CASE s + 1 < SeqNumbers
    BY <1>0, <1>1
<1>2. CASE s + 1 = SeqNumbers
    BY <1>0, <1>2
<1> QED
    BY <1>0, <1>1, <1>2

LEMMA NullIs == Null \in Results /\ Null.of = "none" /\ Null.unharmed = FALSE
<1>1. Null.of = "none" /\ Null.unharmed = FALSE
    BY DEF Null
<1>2. Null \in Results
    BY FastPacketAssumption DEF Null, Results, Many
<1> QED
    BY <1>1, <1>2

LEMMA PacketInvInit == PacketInit => PacketInv
<1> SUFFICES ASSUME PacketInit PROVE PacketInv
    OBVIOUS
<1>1. PacketTypeOK
    <2>1. current \in BOOLEAN /\ unharmed \in BOOLEAN
        BY Zenon DEF PacketInit
    <2>2. seqId = 0 /\ counter = 0 /\ length \in 1 .. MaxFrames /\ entry = NoEntry /\ lost = 0 /\ result = Null
        BY Zenon DEF PacketInit
    <2> QED
        BY <2>1, <2>2, NullIs, FastPacketAssumption DEF PacketTypeOK, Many
<1>2. EntryInv /\ UnharmedInv
    BY DEF PacketInit, EntryInv, UnharmedInv
<1>3. NeverCorrupt /\ WholeIsReturned
    <2>1. result.of = "none" /\ result.unharmed = FALSE
        BY NullIs DEF PacketInit
    <2> QED
        BY <2>1 DEF NeverCorrupt, WholeIsReturned
<1> QED
    BY <1>1, <1>2, <1>3 DEF PacketInv

LEMMA AdvanceType ==
    ASSUME PacketTypeOK, Advance
    PROVE  /\ seqId' \in 0 .. SeqNumbers - 1
           /\ length' \in 1 .. MaxFrames
           /\ counter' \in 0 .. length' - 1
           /\ ~Ends => counter' = counter + 1 /\ seqId' = seqId /\ length' = length
           /\ Ends => counter' = 0 /\ seqId' = IF seqId + 1 < SeqNumbers THEN seqId + 1 ELSE 0
BY NextNumber, FastPacketAssumption DEF PacketTypeOK, Advance, Ends

(* What feed makes of the entry, as the invariant needs it. *)
LEMMA BegunIs ==
    ASSUME PacketTypeOK
    PROVE  /\ Begun \in Entries /\ Begun # NoEntry
           /\ Begun.seqId = seqId /\ Begun.expected = length /\ Begun.nextCounter = 1
           /\ Begun.of = "one" /\ Begun.run = 0
<1>1. 1 \in 1 .. MaxFrames /\ 0 \in 0 .. Many
    BY FastPacketAssumption DEF Many
<1>2. Begun \in Entries
    BY <1>1 DEF PacketTypeOK, Begun, Entries
<1>3. /\ Begun.seqId = seqId /\ Begun.expected = length /\ Begun.nextCounter = 1
      /\ Begun.of = "one" /\ Begun.run = 0
    BY DEF Begun
<1>4. NoEntry.of = "none"
    BY DEF NoEntry
<1> QED
    BY <1>2, <1>3, <1>4

LEMMA ContinuedIs ==
    ASSUME PacketInv, Continues
    PROVE  /\ Continued \in Entries
           /\ Continued.seqId = seqId /\ Continued.expected = entry.expected
           /\ Continued.nextCounter = counter + 1 /\ counter + 1 <= entry.expected
           /\ Continued.of = IF current THEN entry.of ELSE "two"
           /\ Continued.of = "two" => Continued.run >= Many
<1> USE FastPacketAssumption
<1>1. entry \in Entries /\ entry # NoEntry
    BY DEF PacketInv, PacketTypeOK, Continues
<1>2. seqId = entry.seqId /\ counter = entry.nextCounter /\ counter + 1 <= entry.expected
    BY <1>1 DEF PacketInv, EntryInv, Continues, Entries, PacketTypeOK
<1>3. PICK who \in {"one", "two"} : who = IF current THEN entry.of ELSE "two"
    BY <1>1 DEF Entries
<1>4. PICK run \in 0 .. Many : run = IF lost > entry.run THEN lost ELSE entry.run
    BY <1>1 DEF Entries, PacketInv, PacketTypeOK
<1>5. Continued = [entry EXCEPT !.nextCounter = counter + 1, !.of = who, !.run = run]
    BY <1>3, <1>4, Zenon DEF Continued
<1>6. /\ Continued \in Entries
      /\ Continued.seqId = seqId /\ Continued.expected = entry.expected
      /\ Continued.nextCounter = counter + 1 /\ Continued.of = who /\ Continued.run = run
    <2>1. counter + 1 \in 1 .. MaxFrames
        BY <1>1, <1>2 DEF Entries, PacketInv, PacketTypeOK
    <2>2. Continued \in Entries
        BY <1>1, <1>5, <2>1 DEF Entries
    <2>3. /\ Continued.seqId = entry.seqId /\ Continued.expected = entry.expected
          /\ Continued.nextCounter = counter + 1 /\ Continued.of = who /\ Continued.run = run
        BY <1>1, <1>5 DEF Entries
    <2> QED
        BY <1>2, <2>2, <2>3
<1>7. who = "two" => run >= Many
    <2>1. CASE entry.of = "two"
        BY <1>1, <1>4, <2>1 DEF PacketInv, EntryInv, PacketTypeOK, Entries, Many
    <2>2. CASE entry.of = "one" /\ ~current
        <3>1. lost >= Many
            <4>1. lost = Many \/ lost >= counter + Distance
                BY <1>1, <2>2 DEF PacketInv, EntryInv
            <4>2. Distance = SeqNumbers
                BY <1>2 DEF Distance, PacketInv, PacketTypeOK
            <4>3. counter >= 1
                BY <1>1, <1>2 DEF Entries
            <4> QED
                BY <4>1, <4>2, <4>3 DEF Many, PacketInv, PacketTypeOK
        <3> QED
            BY <1>1, <1>4, <3>1 DEF PacketInv, PacketTypeOK, Entries, Many
    <2>3. CASE entry.of = "one" /\ current
        BY <1>3, <2>3
    <2> QED
        BY <1>1, <2>1, <2>2, <2>3 DEF Entries
<1> QED
    BY <1>2, <1>3, <1>6, <1>7

LEMMA FeedKeeps ==
    ASSUME PacketInv, Feed
    PROVE  PacketInv'
<1> USE FastPacketAssumption
<1>0. PacketTypeOK /\ MaxFrames > 0
    BY DEF PacketInv
<1>1. /\ seqId' \in 0 .. SeqNumbers - 1 /\ length' \in 1 .. MaxFrames /\ counter' \in 0 .. length' - 1
      /\ ~Ends => counter' = counter + 1 /\ seqId' = seqId /\ length' = length
      /\ Ends => counter' = 0 /\ seqId' = IF seqId + 1 < SeqNumbers THEN seqId + 1 ELSE 0
    BY <1>0, AdvanceType DEF Feed
<1>2. current' = ~Ends /\ unharmed' = (Ends \/ unharmed) /\ lost' = 0
    BY Zenon DEF Feed
<1> DEFINE complete == Fed # NoEntry /\ Fed.nextCounter >= Fed.expected
<1>3. entry' = IF complete THEN NoEntry ELSE Fed
    BY Zenon DEF Feed
<1>4. PICK b \in BOOLEAN : b = (Ends /\ unharmed)
    BY Zenon
<1>5. result' = [of |-> IF complete THEN Fed.of ELSE "none", run |-> IF complete THEN Fed.run ELSE 0, unharmed |-> b]
    BY <1>4, Zenon DEF Feed
<1>6. /\ Fed \in Entries \cup {NoEntry}
      /\ Fed # NoEntry =>
           /\ Fed.seqId = seqId /\ Fed.nextCounter = counter + 1 /\ Fed.nextCounter <= Fed.expected
           /\ Fed.of = "two" => Fed.run >= Many
           /\ Fed.of = "one" => Fed.expected = length
      /\ unharmed => Fed # NoEntry /\ Fed.of = "one"
    <2>1. CASE counter = 0
        <3>1. Fed = Begun
            BY <2>1 DEF Fed
        <3> QED
            BY <1>0, <2>1, <3>1, BegunIs DEF PacketTypeOK, Entries
    <2>2. CASE counter # 0 /\ Continues
        <3>1. Fed = Continued
            BY <2>2 DEF Fed
        <3>2. Continued.of = "one" => current /\ entry.of = "one" /\ entry # NoEntry
            BY <2>2, ContinuedIs DEF Continues
        <3>3. Continued.of = "one" => Continued.expected = length
            BY <2>2, <3>2, ContinuedIs DEF PacketInv, EntryInv
        <3>4. unharmed => Continued.of = "one"
            BY <1>0, <2>2, ContinuedIs DEF PacketInv, UnharmedInv, PacketTypeOK
        <3>5. Continued # NoEntry
            BY <2>2, ContinuedIs DEF NoEntry, Entries
        <3> QED
            BY <2>2, <3>1, <3>3, <3>4, <3>5, ContinuedIs
    <2>3. CASE counter # 0 /\ ~Continues
        <3>1. Fed = NoEntry
            BY <2>3 DEF Fed
        <3>2. ~unharmed
            BY <1>0, <2>3 DEF PacketInv, UnharmedInv, EntryInv, Continues, PacketTypeOK
        <3> QED
            BY <3>1, <3>2
    <2> QED
        BY <2>1, <2>2, <2>3
<1>7. PacketTypeOK'
    <2>1. result' \in Results
        BY <1>5, <1>6 DEF Results, Entries, NoEntry, Many
    <2>2. entry' \in Entries \cup {NoEntry}
        BY <1>3, <1>6
    <2>3. current' \in BOOLEAN /\ unharmed' \in BOOLEAN
        BY <1>2, Zenon
    <2>4. lost' \in 0 .. Many
        BY <1>2 DEF Many
    <2> QED
        BY <1>1, <2>1, <2>2, <2>3, <2>4 DEF PacketTypeOK
<1>8. EntryInv'
    <2>1. ASSUME entry' # NoEntry
          PROVE  entry' = Fed /\ Fed # NoEntry /\ Fed.nextCounter < Fed.expected
        BY <1>0, <1>3, <1>6, <2>1 DEF PacketTypeOK, Entries
    <2>2. ASSUME entry' # NoEntry, Fed.of = "one"
          PROVE  ~Ends
        <3>1. counter + 1 < length
            BY <1>6, <2>1, <2>2
        <3> QED
            BY <1>0, <3>1 DEF Ends, PacketTypeOK
    <2> QED
        BY <1>1, <1>2, <1>6, <2>1, <2>2 DEF EntryInv
<1>9. UnharmedInv'
    <2>1. ASSUME unharmed', counter' > 0
          PROVE  ~Ends /\ unharmed /\ current' /\ counter' = counter + 1
        <3>1. counter' # 0
            BY <2>1
        <3> QED
            BY <1>1, <1>2, <2>1, <3>1, Zenon
    <2>2. ASSUME unharmed, ~Ends
          PROVE  entry' = Fed /\ Fed # NoEntry /\ Fed.of = "one" /\ Fed.nextCounter = counter + 1
        BY <1>0, <1>3, <1>6, <2>2 DEF Ends, PacketTypeOK
    <2> QED
        BY <2>1, <2>2 DEF UnharmedInv
<1>10. NeverCorrupt'
    BY <1>5, <1>6 DEF NeverCorrupt, Many
<1>11. WholeIsReturned'
    <2>1. ASSUME Ends, unharmed
          PROVE  complete
        BY <1>0, <1>6, <2>1 DEF Ends, PacketTypeOK
    <2> QED
        BY <1>4, <1>5, <1>6, <2>1 DEF WholeIsReturned
<1> QED
    BY <1>7, <1>8, <1>9, <1>10, <1>11 DEF PacketInv

LEMMA LoseKeeps ==
    ASSUME PacketInv, Lose
    PROVE  PacketInv'
<1> USE FastPacketAssumption
<1>0. PacketTypeOK
    BY DEF PacketInv
<1>1. /\ seqId' \in 0 .. SeqNumbers - 1 /\ length' \in 1 .. MaxFrames /\ counter' \in 0 .. length' - 1
      /\ ~Ends => counter' = counter + 1 /\ seqId' = seqId /\ length' = length
      /\ Ends => counter' = 0 /\ seqId' = IF seqId + 1 < SeqNumbers THEN seqId + 1 ELSE 0
    BY <1>0, AdvanceType DEF Lose
<1>2. /\ unharmed' = Ends /\ current' = (current /\ ~Ends)
      /\ lost' = IF lost = Many THEN Many ELSE lost + 1
      /\ result' = Null /\ entry' = entry
    BY Zenon DEF Lose
<1>3. PacketTypeOK'
    <2>1. current' \in BOOLEAN /\ unharmed' \in BOOLEAN
        BY <1>2, Zenon DEF Ends
    <2>2. lost' \in 0 .. Many
        BY <1>0, <1>2 DEF PacketTypeOK, Many
    <2> QED
        BY <1>0, <1>1, <1>2, <2>1, <2>2, NullIs DEF PacketTypeOK
<1>4. ASSUME entry # NoEntry, entry.of = "one", ~current'
      PROVE  lost' = Many \/ lost' >= counter' + Distance'
    <2>0. entry.seqId \in 0 .. SeqNumbers - 1
        BY <1>0, <1>4 DEF PacketTypeOK, Entries
    <2>1. CASE current
        <3>1. seqId = entry.seqId /\ Ends
            BY <1>2, <1>4, <2>1 DEF PacketInv, EntryInv
        <3>2. Distance' = 1
            BY <1>0, <1>1, <1>2, <2>0, <3>1 DEF Distance, PacketTypeOK
        <3>3. counter' = 0 /\ lost' = IF lost = Many THEN Many ELSE lost + 1
            BY <1>1, <1>2, <3>1
        <3> QED
            BY <1>0, <3>2, <3>3 DEF PacketTypeOK, Many
    <2>2. CASE ~current
        <3>1. lost = Many \/ lost >= counter + Distance
            BY <1>4, <2>2 DEF PacketInv, EntryInv
        <3>2. Distance \in Nat /\ (Distance' = IF Ends THEN (IF Distance = SeqNumbers THEN 1 ELSE Distance + 1) ELSE Distance)
            BY <1>0, <1>1, <1>2, <2>0 DEF Distance, PacketTypeOK
        <3>3. lost' = (IF lost = Many THEN Many ELSE lost + 1) /\ counter \in Nat
            BY <1>0, <1>2 DEF PacketTypeOK
        <3>4. CASE Ends
            <4>1. counter' = 0 /\ Distance' <= Distance + 1
                BY <1>1, <3>2, <3>4
            <4>2. Distance' \in Nat
                BY <3>2, <3>4
            <4> QED
                BY <1>0, <3>1, <3>2, <3>3, <4>1, <4>2 DEF PacketTypeOK, Many
        <3>5. CASE ~Ends
            <4>1. counter' = counter + 1 /\ Distance' = Distance
                BY <1>1, <3>2, <3>5
            <4> QED
                BY <1>0, <3>1, <3>2, <3>3, <4>1 DEF PacketTypeOK, Many
        <3> QED
            BY <3>4, <3>5
    <2> QED
        BY <2>1, <2>2
<1>5. EntryInv'
    <2>1. ASSUME current'
          PROVE  current /\ seqId' = seqId /\ length' = length
        BY <1>1, <1>2, <2>1, Zenon
    <2>2. ASSUME entry # NoEntry
          PROVE  /\ entry.nextCounter < entry.expected
                 /\ entry.of = "two" => entry.run >= Many
                 /\ entry.of = "one" /\ current => seqId = entry.seqId /\ length = entry.expected
        BY <2>2 DEF PacketInv, EntryInv
    <2> QED
        BY <1>2, <1>4, <2>1, <2>2 DEF EntryInv
<1>6. UnharmedInv'
    <2>1. unharmed' => counter' = 0
        BY <1>1, <1>2, Zenon
    <2> QED
        BY <1>1, <2>1 DEF UnharmedInv
<1>7. (NeverCorrupt /\ WholeIsReturned)'
    <2>1. result'.of = "none" /\ result'.unharmed = FALSE
        BY <1>2, NullIs
    <2> QED
        BY <2>1 DEF NeverCorrupt, WholeIsReturned
<1> QED
    BY <1>3, <1>5, <1>6, <1>7 DEF PacketInv

LEMMA PacketInvHolds == PacketSpec => []PacketInv
<1>1. ASSUME PacketInv, [PacketNext]_packetVars
      PROVE  PacketInv'
    <2>1. CASE UNCHANGED packetVars
        BY <1>1, <2>1 DEF packetVars, PacketInv, PacketTypeOK, EntryInv, Distance, UnharmedInv, NeverCorrupt, WholeIsReturned
    <2> QED
        BY <1>1, <2>1, FeedKeeps, LoseKeeps DEF PacketNext
<1> QED
    BY <1>1, PacketInvInit, PTL DEF PacketSpec

(* A payload made of two packets is returned only when a whole cycle of    *)
(* the numbers was lost between its two parts (bandg-perf.ts:155, 173-194). *)
THEOREM PayloadsAreOfOnePacket == PacketSpec => []NeverCorrupt
<1>1. PacketInv => NeverCorrupt
    BY DEF PacketInv
<1> QED
    BY <1>1, PacketInvHolds, PTL

(* A packet whose frames all arrive is returned with its last one, whatever *)
(* was lost before it (bandg-perf.ts:175-194).                              *)
THEOREM WholePacketsReturn == PacketSpec => []WholeIsReturned
<1>1. PacketInv => WholeIsReturned
    BY DEF PacketInv
<1> QED
    BY <1>1, PacketInvHolds, PTL

(***************************************************************************)
(* The configuration database.  Once the wardrobe is loaded its row is of  *)
(* version 3 and is what subscribers see, but for what is not emitted yet. *)
(***************************************************************************)
Loaded == stage \in {"wardrobe", "dropped", "open", "sailsWritten", "revisionWritten"}

ConfigInv ==
    /\ wardrobeRow \in Wardrobes \cup {NoRow}
    /\ activeBoatId \in Boats
    /\ Loaded => /\ wardrobeRow.version = 3 /\ sails \in Wardrobes /\ sails.version = 3
                 /\ stage # "sailsWritten" => sails = wardrobeRow
    /\ PaintKept

LEMMA NoRowIs == NoRow.version = 0 /\ NoRow.painted = FALSE /\ NoRow.boatId \in Boats /\ NoRow.activeMode \in Modes
<1>1. (CHOOSE b \in Boats : TRUE) \in Boats /\ (CHOOSE m \in Modes : TRUE) \in Modes
    BY ConfigAssumption
<1> QED
    BY <1>1 DEF NoRow

LEMMA ConfigInvInit == ConfigInit => ConfigInv
<1> SUFFICES ASSUME ConfigInit PROVE ConfigInv
    OBVIOUS
<1>1. stage = "down" /\ activeBoatId \in Boats /\ paint = mapRows
    BY Zenon DEF ConfigInit
<1>2. CASE wardrobeRow = NoRow
    <2>1. mapRows = {}
        BY <1>2 DEF ConfigInit
    <2> QED
        BY <1>1, <1>2, <2>1, NoRowIs DEF ConfigInv, PaintKept, Loaded
<1>3. CASE wardrobeRow # NoRow
    <2>1. wardrobeRow \in Wardrobes /\ wardrobeRow.version = 2
        BY <1>3, Zenon DEF ConfigInit
    <2> QED
        BY <1>1, <2>1 DEF ConfigInv, PaintKept, Loaded
<1> QED
    BY <1>2, <1>3

(* The migrated row: of version 3, and painted if paint is taken. *)
LEMMA MigratedIs ==
    ASSUME ConfigInv, NEW readable \in BOOLEAN
    PROVE  /\ Migrated(readable) \in Wardrobes /\ Migrated(readable).version = 3
           /\ wardrobeRow.version = 2 /\ Taken(readable) # {} => Migrated(readable).painted
           /\ wardrobeRow.version # 2 /\ paint # {} => Migrated(readable).painted
<1>1. CASE wardrobeRow = NoRow
    <2>1. Migrated(readable) = [NoRow EXCEPT !.version = 3, !.boatId = activeBoatId]
        BY <1>1, Zenon DEF Migrated
    <2>2. Migrated(readable) \in Wardrobes /\ Migrated(readable).version = 3
        BY <2>1, NoRowIs DEF Wardrobes, NoRow, ConfigInv
    <2>3. paint = {}
        BY <1>1, NoRowIs DEF ConfigInv, PaintKept
    <2> QED
        BY <1>1, <2>2, <2>3, NoRowIs
<1>2. CASE wardrobeRow # NoRow /\ wardrobeRow.version = 3
    <2>1. Migrated(readable) = wardrobeRow
        BY <1>2, Zenon DEF Migrated
    <2> QED
        BY <1>2, <2>1 DEF ConfigInv, PaintKept
<1>3. CASE wardrobeRow # NoRow /\ wardrobeRow.version = 2
    <2>0. wardrobeRow \in Wardrobes
        BY <1>3 DEF ConfigInv
    <2>1. PICK b \in BOOLEAN : b = (readable /\ <<activeBoatId, wardrobeRow.activeMode>> \in mapRows)
        <3>1. (readable /\ <<activeBoatId, wardrobeRow.activeMode>> \in mapRows) \in BOOLEAN
            OBVIOUS
        <3> QED
            BY <3>1, Zenon
    <2>2. wardrobeRow.version # 3
        BY <1>3
    <2>3. Migrated(readable) = [wardrobeRow EXCEPT !.version = 3, !.painted = b]
        BY <1>3, <2>1, <2>2, Zenon DEF Migrated
    <2>4. Migrated(readable) \in Wardrobes /\ Migrated(readable).version = 3 /\ Migrated(readable).painted = b
        BY <2>0, <2>3 DEF Wardrobes
    <2>5. ASSUME Taken(readable) # {} PROVE b
        <3>1. PICK cell \in paint : readable /\ cell = <<activeBoatId, wardrobeRow.activeMode>>
            BY <2>5, Zenon DEF Taken
        <3>2. paint \subseteq mapRows
            BY <1>3 DEF ConfigInv, PaintKept
        <3>3. <<activeBoatId, wardrobeRow.activeMode>> \in mapRows
            BY <3>1, <3>2, Zenon
        <3> QED
            BY <2>1, <3>1, <3>3, Zenon
    <2> QED
        BY <1>3, <2>4, <2>5
<1> QED
    BY <1>1, <1>2, <1>3 DEF ConfigInv, Wardrobes

LEMMA ConfigInvNext == ConfigInv /\ [ConfigNext]_configVars => ConfigInv'
<1> SUFFICES ASSUME ConfigInv, [ConfigNext]_configVars PROVE ConfigInv'
    OBVIOUS
<1>1. CASE CreateTables
    BY <1>1 DEF CreateTables, ConfigInv, PaintKept, Loaded
<1>2. ASSUME NEW readable \in BOOLEAN, LoadWardrobe(readable) PROVE ConfigInv'
    <2>1. /\ stage' = "wardrobe" /\ sails' = Migrated(readable) /\ wardrobeRow' = Migrated(readable)
          /\ paint' = IF wardrobeRow.version = 2 THEN Taken(readable) ELSE paint
          /\ activeBoatId' = activeBoatId
        BY <1>2, Zenon DEF LoadWardrobe
    <2>2. paint' # {} => Migrated(readable).painted
        BY <2>1, MigratedIs, Zenon
    <2>3. PaintKept'
        BY <2>1, <2>2, MigratedIs DEF PaintKept
    <2> QED
        BY <2>1, <2>3, MigratedIs DEF ConfigInv, Loaded
<1>3. CASE DropLegacy
    <2>1. wardrobeRow.version = 3 /\ sails = wardrobeRow
        BY <1>3 DEF DropLegacy, ConfigInv, Loaded
    <2>2. paint # {} => wardrobeRow.painted
        BY <2>1 DEF ConfigInv, PaintKept
    <2> QED
        BY <1>3, <2>1, <2>2 DEF DropLegacy, ConfigInv, PaintKept, Loaded
<1>4. CASE Load
    BY <1>4 DEF Load, ConfigInv, PaintKept, Loaded
<1>5. CASE EndProcess
    BY <1>5 DEF EndProcess, ConfigInv, PaintKept, Loaded
<1>6. ASSUME NEW mode \in Modes, NEW painted \in BOOLEAN, SetSails(mode, painted)
      PROVE  ConfigInv'
    <2>1. sails.version = 3 /\ sails \in Wardrobes
        BY <1>6 DEF SetSails, ConfigInv, Loaded
    <2>2. /\ stage' = "sailsWritten" /\ wardrobeRow' = [sails EXCEPT !.activeMode = mode, !.painted = painted]
          /\ sails' = sails /\ paint' = (IF painted THEN {<<sails.boatId, mode>>} ELSE {})
          /\ activeBoatId' = activeBoatId
        BY <1>6, Zenon DEF SetSails
    <2>3. wardrobeRow' \in Wardrobes /\ wardrobeRow'.version = 3 /\ wardrobeRow'.painted = painted
        BY <2>1, <2>2 DEF Wardrobes
    <2>4. paint' # {} => painted
        BY <2>2, Zenon
    <2>5. PaintKept'
        BY <2>3, <2>4 DEF PaintKept
    <2> QED
        BY <2>1, <2>2, <2>3, <2>5 DEF ConfigInv
<1>7. CASE EmitSails
    <2>1. wardrobeRow \in Wardrobes /\ wardrobeRow.version = 3
        BY <1>7, NoRowIs DEF EmitSails, ConfigInv, Loaded
    <2> QED
        BY <1>7, <2>1 DEF EmitSails, ConfigInv, PaintKept, Loaded
<1>8. CASE SavePolar \/ SaveRevision
    <2>1. UNCHANGED <<activeBoatId, wardrobeRow, mapRows, sails, paint>> /\ stage = "open" /\ stage' = "revisionWritten"
        BY <1>8, Zenon DEF SavePolar, SaveRevision, CreateRevision
    <2> QED
        BY <2>1 DEF ConfigInv, PaintKept, Loaded
<1>9. CASE EmitRevision
    BY <1>9 DEF EmitRevision, ConfigInv, PaintKept, Loaded
<1>10. CASE SetClock
    BY <1>10 DEF SetClock, ConfigInv, PaintKept, Loaded
<1>11. CASE UNCHANGED configVars
    BY <1>11 DEF configVars, ConfigInv, PaintKept, Loaded
<1> QED
    BY <1>1, <1>2, <1>3, <1>4, <1>5, <1>6, <1>7, <1>8, <1>9, <1>10, <1>11 DEF ConfigNext

LEMMA ConfigInvHolds == ConfigSpec => []ConfigInv
BY ConfigInvInit, ConfigInvNext, PTL DEF ConfigSpec

(* Wherever open() is cut, and however often, what the migration is to     *)
(* take is in the row of version 3 or in the legacy map                    *)
(* (config-store.ts:342-398).                                              *)
THEOREM MigrationLosesNoPaint == ConfigSpec => []PaintKept
<1>1. ConfigInv => PaintKept
    BY DEF ConfigInv
<1> QED
    BY <1>1, ConfigInvHolds, PTL

(***************************************************************************)
(* The polar revisions, as lists of rowids.                                *)
(***************************************************************************)
LEMMA SeqWidens == ASSUME NEW S, NEW T, S \subseteq T, NEW f \in Seq(S) PROVE f \in Seq(T)
OBVIOUS

RowsOK == revisionRows \in Seq(Revisions)

Sorted(list) == \A n, m \in DOMAIN list : n < m => ListedBefore(list[n], list[m])

LEMMA RowIs ==
    ASSUME RowsOK, NEW i \in DOMAIN revisionRows
    PROVE  /\ i \in Nat
           /\ revisionRows[i].createdAt \in Nat /\ revisionRows[i].createdAt <= MaxStamp
           /\ revisionRows[i].config \in Nat /\ revisionRows[i].mode \in Nat
<1>1. revisionRows[i] \in Revisions /\ i \in Nat
    BY DEF RowsOK
<1>2. revisionRows[i].createdAt \in 0 .. MaxStamp /\ revisionRows[i].config \in Configs /\ revisionRows[i].mode \in Modes
    BY <1>1 DEF Revisions
<1> QED
    <2>1. \A t \in 0 .. MaxStamp : t \in Nat /\ t <= MaxStamp
        BY ConfigAssumption
    <2>2. Configs \subseteq Nat /\ Modes \subseteq Nat
        BY ConfigsAssumption
    <2> QED
        BY <1>1, <1>2, <2>1, <2>2

(* The order of the query is a strict total order of the rows. *)
LEMMA ListedBeforeIs ==
    ASSUME RowsOK, NEW i \in DOMAIN revisionRows, NEW j \in DOMAIN revisionRows, NEW k \in DOMAIN revisionRows
    PROVE  /\ ~ListedBefore(i, i)
           /\ i # j => ListedBefore(i, j) \/ ListedBefore(j, i)
           /\ ListedBefore(i, j) /\ ListedBefore(j, k) => ListedBefore(i, k)
<1>1. \A l \in {i, j, k} : /\ l \in Nat /\ revisionRows[l].createdAt \in Nat
                           /\ revisionRows[l].config \in Nat /\ revisionRows[l].mode \in Nat
    BY RowIs
<1> QED
    BY <1>1 DEF ListedBefore

(* Whatever rows are listed, another one has a place in the list. *)
LEMMA PlaceExists ==
    ASSUME RowsOK, NEW x \in DOMAIN revisionRows, NEW S \in SUBSET DOMAIN revisionRows, x \notin S,
           NEW f \in Seq(S), Sorted(f), Range(f) = S
    PROVE  \E g \in Seq(S \cup {x}) : Sorted(g) /\ Range(g) = S \cup {x}
<1> DEFINE P == {i \in 1 .. Len(f) : ListedBefore(x, f[i])} \cup {Len(f) + 1}
<1>0. Len(f) \in Nat /\ DOMAIN f = 1 .. Len(f)
    OBVIOUS
<1>1. \A i \in 1 .. Len(f) : f[i] \in S /\ f[i] \in DOMAIN revisionRows /\ f[i] # x
    OBVIOUS
<1>2. P # {} /\ P \in SUBSET Nat
    BY <1>0
<1>3. PICK q \in P : \A i \in P : q <= i
    BY <1>2, Least
<1> DEFINE g == [i \in 1 .. Len(f) + 1 |-> IF i < q THEN f[i] ELSE IF i = q THEN x ELSE f[i - 1]]
<1>4. q \in 1 .. Len(f) + 1 /\ (q \in 1 .. Len(f) => ListedBefore(x, f[q]))
    BY <1>0, <1>3
<1>5. \A n, m \in 1 .. Len(f) : n < m => ListedBefore(f[n], f[m])
    BY <1>0 DEF Sorted
<1>6. \A i \in 1 .. Len(f) : i < q => ListedBefore(f[i], x)
    <2> TAKE i \in 1 .. Len(f)
    <2> HAVE i < q
    <2>1. i \notin P
        BY <1>0, <1>3, <1>4
    <2>2. ~ListedBefore(x, f[i])
        BY <2>1
    <2> QED
        BY <1>1, <2>2, ListedBeforeIs
<1>7. \A i \in 1 .. Len(f) : i >= q => ListedBefore(x, f[i])
    <2> TAKE i \in 1 .. Len(f)
    <2> HAVE i >= q
    <2>1. q \in 1 .. Len(f) /\ ListedBefore(x, f[q])
        BY <1>0, <1>4
    <2>2. i = q \/ ListedBefore(f[q], f[i])
        BY <1>0, <1>5, <2>1
    <2> QED
        BY <1>1, <2>1, <2>2, ListedBeforeIs
<1> HIDE DEF P
<1>8. g \in Seq(S \cup {x}) /\ DOMAIN g = 1 .. Len(f) + 1
    <2>1. \A i \in 1 .. Len(f) + 1 : g[i] \in S \cup {x}
        BY <1>0, <1>1, <1>4
    <2> QED
        BY <1>0, <2>1
<1>9. ASSUME NEW n \in 1 .. Len(f) + 1, NEW m \in 1 .. Len(f) + 1, n < m
      PROVE  ListedBefore(g[n], g[m])
    <2>1. CASE m < q
        <3>1. g[m] = f[m] /\ g[n] = f[n] /\ n \in 1 .. Len(f) /\ m \in 1 .. Len(f)
            BY <1>0, <1>4, <1>9, <2>1
        <3> QED
            BY <1>5, <1>9, <3>1
    <2>2. CASE m = q
        <3>1. g[m] = x /\ n \in 1 .. Len(f) /\ g[n] = f[n] /\ n < q
            BY <1>0, <1>4, <1>9, <2>2
        <3> QED
            BY <1>6, <3>1
    <2>3. CASE m > q /\ n < q
        <3>1. g[m] = f[m - 1] /\ g[n] = f[n] /\ n \in 1 .. Len(f) /\ m - 1 \in 1 .. Len(f) /\ n < m - 1
            BY <1>0, <1>4, <1>9, <2>3
        <3> QED
            BY <1>5, <3>1
    <2>4. CASE m > q /\ n = q
        <3>1. g[m] = f[m - 1] /\ g[n] = x /\ m - 1 \in 1 .. Len(f) /\ m - 1 >= q
            BY <1>0, <1>4, <1>9, <2>4
        <3> QED
            BY <1>7, <3>1
    <2>5. CASE n > q
        <3>1. /\ g[m] = f[m - 1] /\ g[n] = f[n - 1] /\ m - 1 \in 1 .. Len(f) /\ n - 1 \in 1 .. Len(f)
              /\ n - 1 < m - 1
            BY <1>0, <1>4, <1>9, <2>5
        <3> QED
            BY <1>5, <3>1
    <2> QED
        BY <1>0, <1>4, <1>9, <2>1, <2>2, <2>3, <2>4, <2>5
<1> HIDE DEF g
<1>10. Sorted(g)
    BY <1>8, <1>9 DEF Sorted
<1> USE DEF g
<1>11. Range(g) = S \cup {x}
    <2>1. x \in Range(g)
        <3>1. g[q] = x
            BY <1>4
        <3> QED
            BY <1>4, <1>8, <3>1 DEF Range
    <2>2. ASSUME NEW y \in S PROVE y \in Range(g)
        <3>1. PICK i \in 1 .. Len(f) : f[i] = y
            BY DEF Range
        <3>2. CASE i < q
            <4>1. i \in 1 .. Len(f) + 1 /\ g[i] = y
                BY <1>1, <3>1, <3>2
            <4> QED
                BY <1>8, <4>1 DEF Range
        <3>3. CASE i >= q
            <4>1. i + 1 \in 1 .. Len(f) + 1 /\ ~(i + 1 < q) /\ i + 1 # q /\ (i + 1) - 1 = i
                BY <1>0, <1>1, <1>4, <3>1, <3>3
            <4>2. g[i + 1] = y
                BY <3>1, <4>1
            <4> QED
                BY <1>8, <4>1, <4>2 DEF Range
        <3> QED
            BY <1>4, <3>1, <3>2, <3>3
    <2>3. \A i \in 1 .. Len(f) + 1 : g[i] \in S \cup {x}
        BY <1>0, <1>1, <1>4
    <2> QED
        BY <1>8, <2>1, <2>2, <2>3 DEF Range
<1> QED
    BY <1>8, <1>10, <1>11

LEMMA SortedExists ==
    ASSUME RowsOK
    PROVE  \A own \in SUBSET DOMAIN revisionRows : \E f \in Seq(own) : Sorted(f) /\ Range(f) = own
<1> DEFINE can(k) == \A own \in SUBSET (1 .. k) : \E f \in Seq(own) : Sorted(f) /\ Range(f) = own
           N == Len(revisionRows)
           Bad == {k \in 0 .. N : ~can(k)}
<1>1. N \in Nat /\ DOMAIN revisionRows = 1 .. N
    BY DEF RowsOK
<1>2. SUFFICES ASSUME Bad # {} PROVE FALSE
    BY <1>1
<1>5. can(0)
    <2> TAKE own \in SUBSET (1 .. 0)
    <2>1. own = {}
        OBVIOUS
    <2>2. << >> \in Seq(own) /\ Sorted(<< >>) /\ Range(<< >>) = {}
        BY DEF Sorted, Range
    <2> QED
        BY <2>1, <2>2
<1> HIDE DEF can
<1>31. Bad \in SUBSET Nat
    BY <1>1
<1>3. PICK k \in Bad : \A j \in Bad : k <= j
    <2> HIDE DEF Bad
    <2> QED
        BY <1>2, <1>31, Least
<1>4. k \in 0 .. N /\ ~can(k)
    BY <1>3
<1>6. k - 1 \in 0 .. N /\ k - 1 < k /\ k \in 1 .. N /\ k - 1 + 1 = k
    BY <1>1, <1>4, <1>5
<1>7. can(k - 1)
    BY <1>3, <1>6
<1>8. can(k)
    <2> SUFFICES ASSUME NEW own \in SUBSET (1 .. k) PROVE \E f \in Seq(own) : Sorted(f) /\ Range(f) = own
        BY DEF can
    <2>1. own \ {k} \in SUBSET (1 .. k - 1)
        BY <1>6
    <2>2. PICK f \in Seq(own \ {k}) : Sorted(f) /\ Range(f) = own \ {k}
        BY <1>7, <2>1 DEF can
    <2>3. CASE k \notin own
        <3>1. own \ {k} = own
            BY <2>3
        <3> QED
            BY <2>2, <3>1
    <2>4. CASE k \in own
        <3>1. (own \ {k}) \cup {k} = own
            BY <2>4
        <3>2. k \in DOMAIN revisionRows /\ own \ {k} \in SUBSET DOMAIN revisionRows /\ k \notin own \ {k}
            BY <1>1, <1>6, <2>1
        <3>3. \E g \in Seq((own \ {k}) \cup {k}) : Sorted(g) /\ Range(g) = (own \ {k}) \cup {k}
            BY <2>2, <3>2, PlaceExists
        <3> QED
            BY <3>1, <3>3
    <2> QED
        BY <2>3, <2>4
<1> QED
    BY <1>4, <1>8

(* The rows of a boat in the order of the index: each of them, once.       *)
LEMMA ListIs ==
    ASSUME RowsOK, NEW boat
    PROVE  LET own == {i \in DOMAIN revisionRows : revisionRows[i].boatId = boat} IN
           /\ ListRevisions(boat) \in Seq(own)
           /\ Sorted(ListRevisions(boat))
           /\ Range(ListRevisions(boat)) = own
<1> DEFINE own == {i \in DOMAIN revisionRows : revisionRows[i].boatId = boat}
           n == Cardinality(own)
           L == ListRevisions(boat)
<1>1. PICK f \in Seq(own) : Sorted(f) /\ Range(f) = own
    BY SortedExists
<1> DEFINE m == Len(f)
<1>2. m \in Nat /\ DOMAIN f = 1 .. m /\ f \in [1 .. m -> own]
    OBVIOUS
<1>3. \A i \in DOMAIN revisionRows : ~ListedBefore(i, i)
    BY ListedBeforeIs
<1>4. ASSUME NEW k \in Nat, NEW g \in [1 .. k -> own], Sorted(g) PROVE g \in Injection(1 .. k, own)
    <2>1. ASSUME NEW a \in 1 .. k, NEW b \in 1 .. k, a < b PROVE g[a] # g[b]
        <3>1. g[a] \in DOMAIN revisionRows /\ g[b] \in DOMAIN revisionRows /\ ListedBefore(g[a], g[b])
            BY <1>4, <2>1 DEF Sorted
        <3> QED
            BY <1>3, <3>1
    <2>2. \A a, b \in 1 .. k : g[a] = g[b] => a = b
        <3> TAKE a \in 1 .. k, b \in 1 .. k
        <3>1. a < b \/ b < a \/ a = b
            OBVIOUS
        <3> QED
            BY <2>1, <3>1
    <2> QED
        BY <2>2 DEF Injection, IsInjective
<1>5. f \in Bijection(1 .. m, own)
    <2>1. f \in Injection(1 .. m, own)
        BY <1>1, <1>2, <1>4
    <2>2. \A t \in own : \E s \in 1 .. m : f[s] = t
        BY <1>1, <1>2 DEF Range
    <2> QED
        BY <1>2, <2>1, <2>2 DEF Bijection, Surjection
<1>6. n = m /\ IsFiniteSet(own)
    <2>1. ExistsBijection(1 .. m, own)
        BY <1>5 DEF ExistsBijection
    <2> QED
        BY <1>2, <2>1, FS_CountingElements, FS_NatBijection
<1>7. L \in [1 .. n -> own] /\ Sorted(L)
    <2>1. \E list \in [1 .. n -> own] : \A a, b \in DOMAIN list : a < b => ListedBefore(list[a], list[b])
        BY <1>1, <1>2, <1>6 DEF Sorted
    <2> QED
        BY <2>1 DEF ListRevisions, Sorted
<1>8. L \in Surjection(1 .. n, own)
    <2>1. L \in Injection(1 .. n, own)
        BY <1>2, <1>4, <1>6, <1>7
    <2>2. Cardinality(1 .. n) = n
        BY <1>2, <1>6, FS_Interval
    <2> QED
        BY <1>6, <2>1, <2>2, FS_Injection
<1>9. Range(L) = own
    BY <1>7, <1>8 DEF Surjection, Range
<1>10. L \in Seq(own)
    <2>1. \A g \in [1 .. m -> own] : g \in Seq(own)
        BY <1>2
    <2>2. L \in [1 .. m -> own]
        BY <1>6, <1>7
    <2> QED
        BY <2>1, <2>2
<1> QED
    BY <1>7, <1>9, <1>10

(* The polar in use depends only on the rows that are ours and on the      *)
(* order of those with one stamp, sail_config_id and mode.                 *)
SameSecond(i, j) ==
    /\ revisionRows[i].createdAt = revisionRows[j].createdAt
    /\ revisionRows[i].config = revisionRows[j].config
    /\ revisionRows[i].mode = revisionRows[j].mode

InTurn(map) == \A n, m \in DOMAIN map : n < m /\ SameSecond(map[n], map[m]) => map[n] < map[m]

LEMMA ActiveIs ==
    ASSUME RowsOK, NEW map \in Seq(DOMAIN revisionRows), InTurn(map), OneConfigASecond,
           \A i \in DOMAIN revisionRows : revisionRows[i].boatId = sails.boatId => i \in Range(map)
    PROVE  LET ours == {i \in DOMAIN revisionRows : OfTheMode(i)}
               latest == {i \in ours : \A j \in ours : revisionRows[j].createdAt <= revisionRows[i].createdAt}
           IN  /\ ours = {} => ActivePolar(map) = 0
               /\ ours # {} => /\ ActivePolar(map) \in latest
                               /\ \A i \in latest : ActivePolar(map) <= i
<1> DEFINE ours == {i \in DOMAIN revisionRows : OfTheMode(i)}
           latest == {i \in ours : \A j \in ours : revisionRows[j].createdAt <= revisionRows[i].createdAt}
           at(i) == revisionRows[i].createdAt
           mine == {n \in DOMAIN map : OfTheMode(map[n])}
           last == {n \in mine : \A m \in mine : at(map[m]) <= at(map[n])}
<1>1. ActivePolar(map) = IF mine = {} THEN 0 ELSE map[Min(last)]
    BY DEF ActivePolar
<1>2. DOMAIN map = 1 .. Len(map) /\ Len(map) \in Nat /\ \A n \in DOMAIN map : map[n] \in DOMAIN revisionRows
    OBVIOUS
<1>3. \A n \in mine : map[n] \in ours
    BY <1>2
<1>4. \A i \in ours : \E n \in mine : map[n] = i
    BY DEF OfTheMode, Range
<1>5. \A i \in DOMAIN revisionRows : at(i) \in Nat /\ i \in Nat /\ at(i) <= MaxStamp
    BY RowIs
<1>6. \A n \in last : map[n] \in latest
    BY <1>3, <1>4
<1>7. \A i \in latest : \E n \in last : map[n] = i
    <2> TAKE i \in latest
    <2>1. PICK n \in mine : map[n] = i
        BY <1>4
    <2>2. n \in last
        BY <1>3, <2>1
    <2> QED
        BY <2>1, <2>2
<1>8. ASSUME ours # {} PROVE latest # {}
    <2> DEFINE S == {MaxStamp - at(i) : i \in ours}
    <2>1. \A i \in ours : at(i) \in 0 .. MaxStamp
        BY <1>5, ConfigAssumption
    <2>2. S \in SUBSET Nat /\ S # {}
        BY <1>8, <2>1, ConfigAssumption
    <2>3. PICK s \in S : \A t \in S : s <= t
        <3> HIDE DEF S
        <3> QED
            BY <2>2, Least
    <2>4. PICK i \in ours : s = MaxStamp - at(i)
        BY <2>3
    <2>5. \A j \in ours : at(j) <= at(i)
        <3> TAKE j \in ours
        <3>1. MaxStamp - at(i) <= MaxStamp - at(j)
            BY <2>3, <2>4
        <3> QED
            BY <2>1, <3>1, ConfigAssumption
    <2> QED
        BY <2>5
<1>9. ASSUME ours # {}
      PROVE  ActivePolar(map) \in latest /\ \A i \in latest : ActivePolar(map) <= i
    <2>1. mine # {} /\ last # {}
        BY <1>4, <1>7, <1>8, <1>9
    <2>2. last \in SUBSET Nat
        BY <1>2
    <2>3. Min(last) \in last /\ \A n \in last : Min(last) <= n
        <3> HIDE DEF last
        <3> QED
            BY <2>1, <2>2, MinIsLeast
    <2>4. PICK k \in last : k = Min(last) /\ \A n \in last : k <= n
        BY <2>3
    <2>5. ActivePolar(map) = map[k]
        BY <1>1, <2>1, <2>4
    <2>6. ASSUME NEW i \in latest PROVE map[k] <= i
        <3>1. PICK n \in last : map[n] = i
            BY <1>7
        <3>2. k <= n /\ at(map[k]) = at(map[n])
            <4>1. k \in mine /\ n \in mine
                OBVIOUS
            <4>2. at(map[n]) <= at(map[k])
                BY <4>1
            <4>3. at(map[k]) <= at(map[n])
                BY <4>1
            <4>4. at(map[k]) \in Nat /\ at(map[n]) \in Nat
                BY <1>2, <1>5, <4>1
            <4> QED
                BY <2>4, <4>2, <4>3, <4>4
        <3>3. SameSecond(map[k], map[n])
            <4>1. OfTheMode(map[k]) /\ OfTheMode(map[n]) /\ map[k] \in DOMAIN revisionRows /\ map[n] \in DOMAIN revisionRows
                BY <1>2
            <4>2. revisionRows[map[k]].config = revisionRows[map[n]].config
                BY <3>2, <4>1 DEF OneConfigASecond
            <4> QED
                BY <3>2, <4>1, <4>2 DEF SameSecond, OfTheMode
        <3>4. n = k \/ map[k] < map[n]
            BY <1>2, <3>2, <3>3 DEF InTurn
        <3> QED
            BY <1>2, <1>5, <3>1, <3>4
    <2> QED
        BY <1>6, <2>5, <2>6
<1>10. ASSUME ours = {} PROVE ActivePolar(map) = 0
    BY <1>1, <1>3, <1>10
<1> QED
    BY <1>9, <1>10

(* The subject holds every row of the active boat but the one that is not  *)
(* emitted yet, those of one stamp, sail_config_id and mode in the order   *)
(* they were inserted, as the index lists them.                            *)
Emitted == IF stage = "revisionWritten" THEN 1 .. Len(revisionRows) - 1 ELSE DOMAIN revisionRows

RevisionsInv ==
    /\ RowsOK
    /\ revisions \in Seq(Emitted)
    /\ InTurn(revisions)
    /\ stamp \in 0 .. MaxStamp
    /\ stage = "revisionWritten" => Len(revisionRows) > 0
    /\ stage \in {"open", "sailsWritten", "revisionWritten"} => \A i \in Emitted :
           revisionRows[i].boatId = activeBoatId => i \in Range(revisions)

LEMMA ListInTurn ==
    ASSUME RowsOK, NEW boat
    PROVE  /\ ListRevisions(boat) \in Seq(DOMAIN revisionRows)
           /\ InTurn(ListRevisions(boat))
           /\ \A i \in DOMAIN revisionRows : revisionRows[i].boatId = boat => i \in Range(ListRevisions(boat))
<1> DEFINE own == {i \in DOMAIN revisionRows : revisionRows[i].boatId = boat}
           L == ListRevisions(boat)
<1>1. L \in Seq(own) /\ Sorted(L) /\ Range(L) = own
    BY ListIs
<1> HIDE DEF L
<1>2. L \in Seq(DOMAIN revisionRows)
    BY <1>1
<1>4. InTurn(L)
    <2> SUFFICES ASSUME NEW n \in DOMAIN L, NEW m \in DOMAIN L, n < m, SameSecond(L[n], L[m])
                 PROVE  L[n] < L[m]
        BY DEF InTurn
    <2>1. L[n] \in DOMAIN revisionRows /\ L[m] \in DOMAIN revisionRows
        BY <1>2
    <2>2. /\ revisionRows[L[n]].createdAt \in Nat /\ revisionRows[L[n]].config \in Nat
          /\ revisionRows[L[n]].mode \in Nat
        BY <2>1, RowIs
    <2>3. ListedBefore(L[n], L[m])
        BY <1>1 DEF Sorted
    <2> QED
        BY <2>2, <2>3 DEF ListedBefore, SameSecond
<1> QED
    BY <1>1, <1>2, <1>4 DEF L

LEMMA RevisionsInvInit == ConfigInit => RevisionsInv
<1> SUFFICES ASSUME ConfigInit PROVE RevisionsInv
    OBVIOUS
<1>1. revisionRows = << >> /\ revisions = << >> /\ stage = "down" /\ stamp = 0
    BY Zenon DEF ConfigInit
<1> QED
    BY <1>1, ConfigAssumption DEF RevisionsInv, RowsOK, InTurn, Emitted

LEMMA CreateKeeps ==
    ASSUME RevisionsInv, NEW boat \in Boats, NEW config \in Configs, NEW mode \in Modes,
           CreateRevision(boat, config, mode)
    PROVE  RevisionsInv'
<1> DEFINE row == [boatId |-> boat, config |-> config, mode |-> mode, createdAt |-> stamp]
<1>1. /\ revisionRows \in Seq(Revisions) /\ row \in Revisions
      /\ stage = "open" /\ stage' = "revisionWritten"
      /\ activeBoatId' = activeBoatId /\ stamp' = stamp /\ stamp \in 0 .. MaxStamp
      /\ revisionRows' = Append(revisionRows, row) /\ revisions' = revisions
    BY DEF RevisionsInv, RowsOK, CreateRevision, Revisions
<1> HIDE DEF row
<1>2. /\ revisionRows' \in Seq(Revisions) /\ Len(revisionRows') = Len(revisionRows) + 1 /\ Len(revisionRows) \in Nat
      /\ \A i \in DOMAIN revisionRows : revisionRows'[i] = revisionRows[i]
      /\ DOMAIN revisionRows = 1 .. Len(revisionRows)
    BY <1>1
<1>3. Emitted = DOMAIN revisionRows /\ Emitted' = DOMAIN revisionRows
    BY <1>1, <1>2 DEF Emitted
<1>4. revisions \in Seq(DOMAIN revisionRows)
    BY <1>3 DEF RevisionsInv
<1>5. InTurn(revisions)'
    <2> SUFFICES ASSUME NEW n \in DOMAIN revisions, NEW m \in DOMAIN revisions, n < m,
                        SameSecond(revisions[n], revisions[m])'
                 PROVE  revisions[n] < revisions[m]
        BY <1>1 DEF InTurn
    <2>1. revisions[n] \in DOMAIN revisionRows /\ revisions[m] \in DOMAIN revisionRows
        BY <1>4
    <2>2. SameSecond(revisions[n], revisions[m])
        BY <1>1, <1>2, <2>1 DEF SameSecond
    <2> QED
        BY <2>2 DEF RevisionsInv, InTurn
<1>6. \A i \in Emitted' : revisionRows'[i].boatId = activeBoatId' => i \in Range(revisions')
    BY <1>1, <1>2, <1>3 DEF RevisionsInv
<1> QED
    BY <1>1, <1>2, <1>3, <1>4, <1>5, <1>6 DEF RevisionsInv, RowsOK

LEMMA EmitKeeps == ASSUME RevisionsInv, EmitRevision PROVE RevisionsInv'
<1> DEFINE new == Len(revisionRows)
<1>1. /\ stage = "revisionWritten" /\ stage' = "open"
      /\ UNCHANGED <<activeBoatId, stamp, revisionRows>> /\ revisions' = Append(revisions, new)
    BY DEF EmitRevision
<1>2. new \in Nat /\ new > 0 /\ DOMAIN revisionRows = 1 .. new
    BY <1>1 DEF RevisionsInv, RowsOK
<1>3. Emitted = 1 .. new - 1 /\ Emitted' = 1 .. new
    BY <1>1, <1>2 DEF Emitted
<1>4. revisions \in Seq(1 .. new - 1) /\ revisions \in Seq(1 .. new)
    <2>1. revisions \in Seq(1 .. new - 1)
        BY <1>3 DEF RevisionsInv
    <2>2. 1 .. new - 1 \subseteq 1 .. new
        BY <1>2
    <2> QED
        BY <2>1, <2>2
<1> HIDE DEF new
<1>5. /\ revisions' \in Seq(1 .. new) /\ DOMAIN revisions' = 1 .. Len(revisions) + 1
      /\ revisions'[Len(revisions) + 1] = new /\ Len(revisions) \in Nat
      /\ \A n \in 1 .. Len(revisions) : revisions'[n] = revisions[n] /\ revisions[n] \in 1 .. new - 1
    BY <1>1, <1>2, <1>4
<1>6. InTurn(revisions)'
    <2> SUFFICES ASSUME NEW n \in 1 .. Len(revisions) + 1, NEW m \in 1 .. Len(revisions) + 1, n < m,
                        SameSecond(revisions'[n], revisions'[m])
                 PROVE  revisions'[n] < revisions'[m]
        BY <1>1, <1>5 DEF InTurn, SameSecond
    <2>1. n \in 1 .. Len(revisions)
        BY <1>5
    <2>2. CASE m = Len(revisions) + 1
        BY <1>2, <1>5, <2>1, <2>2
    <2>3. CASE m \in 1 .. Len(revisions)
        <3>1. revisions'[n] = revisions[n] /\ revisions'[m] = revisions[m] /\ n \in DOMAIN revisions /\ m \in DOMAIN revisions
            BY <1>4, <1>5, <2>1, <2>3
        <3>2. SameSecond(revisions[n], revisions[m])
            BY <3>1
        <3> QED
            BY <3>1, <3>2 DEF RevisionsInv, InTurn
    <2> QED
        BY <1>5, <2>2, <2>3
<1>7. ASSUME NEW i \in 1 .. new, revisionRows[i].boatId = activeBoatId
      PROVE  i \in Range(revisions')
    <2>1. CASE i = new
        BY <1>5, <2>1 DEF Range
    <2>2. CASE i \in 1 .. new - 1
        <3>1. i \in Range(revisions)
            BY <1>1, <1>3, <1>7, <2>2 DEF RevisionsInv
        <3>2. PICK n \in 1 .. Len(revisions) : revisions[n] = i
            BY <1>4, <3>1 DEF Range
        <3> QED
            BY <1>5, <3>2 DEF Range
    <2> QED
        BY <1>2, <2>1, <2>2
<1> QED
    BY <1>1, <1>3, <1>5, <1>6, <1>7 DEF RevisionsInv, RowsOK

LEMMA RevisionsInvNext ==
    ASSUME activeBoatId \in Boats, stage = "open" => sails \in Wardrobes, RevisionsInv,
           [ConfigNext]_configVars
    PROVE  RevisionsInv'
<1>1. ASSUME UNCHANGED <<revisionRows, revisions, activeBoatId, stamp>>, stage # "revisionWritten" \/ stage' = stage,
             stage' \in {"tables", "wardrobe", "dropped"} \/ stage' = stage
      PROVE  RevisionsInv'
    BY <1>1 DEF RevisionsInv, RowsOK, InTurn, SameSecond, Emitted
<1>2. CASE CreateTables \/ (\E readable \in BOOLEAN : LoadWardrobe(readable)) \/ DropLegacy
    BY <1>1, <1>2 DEF CreateTables, LoadWardrobe, DropLegacy
<1>3. CASE Load
    <2>1. /\ UNCHANGED <<revisionRows, activeBoatId, stamp>> /\ revisions' = ListRevisions(activeBoatId)
          /\ stage = "dropped" /\ stage' = "open"
        BY <1>3 DEF Load
    <2> QED
        BY <2>1, ListInTurn DEF RevisionsInv, RowsOK, InTurn, SameSecond, Emitted
<1>4. CASE EndProcess
    <2>1. UNCHANGED <<revisionRows, stamp>> /\ revisions' = << >> /\ stage' = "down"
        BY <1>4 DEF EndProcess
    <2> QED
        BY <2>1 DEF RevisionsInv, RowsOK, InTurn, Emitted
<1>5. CASE EmitSails \/ \E mode \in Modes, painted \in BOOLEAN : SetSails(mode, painted)
    <2>1. /\ UNCHANGED <<revisionRows, revisions, activeBoatId, stamp>>
          /\ stage \in {"open", "sailsWritten"} /\ stage' \in {"open", "sailsWritten"}
        BY <1>5 DEF SetSails, EmitSails
    <2> QED
        BY <2>1 DEF RevisionsInv, RowsOK, InTurn, SameSecond, Emitted
<1>6. CASE SavePolar
    <2>1. sails.boatId \in Boats /\ sails.activeMode \in Modes /\ sails.activeMode \in Configs
        BY <1>6, ConfigsAssumption DEF SavePolar, CreateRevision, Wardrobes
    <2> QED
        BY <1>6, <2>1, CreateKeeps DEF SavePolar
<1>7. CASE SaveRevision
    BY <1>7, CreateKeeps DEF SaveRevision
<1>8. CASE EmitRevision
    BY <1>8, EmitKeeps
<1>9. CASE UNCHANGED configVars
    BY <1>1, <1>9 DEF configVars
<1>10. CASE SetClock
    BY <1>10 DEF SetClock, RevisionsInv, RowsOK, InTurn, SameSecond, Emitted
<1> QED
    BY <1>2, <1>3, <1>4, <1>5, <1>6, <1>7, <1>8, <1>9, <1>10 DEF ConfigNext

(* RevisionsInv is inductive relative to ConfigInv. *)
LEMMA RevisionsInvHolds == ConfigSpec => []RevisionsInv
<1>1. ConfigInv /\ RevisionsInv /\ [ConfigNext]_configVars => RevisionsInv'
    <2> SUFFICES ASSUME ConfigInv, RevisionsInv, [ConfigNext]_configVars PROVE RevisionsInv'
        OBVIOUS
    <2>1. activeBoatId \in Boats /\ (stage = "open" => sails \in Wardrobes)
        BY DEF ConfigInv, Loaded
    <2> QED
        BY <2>1, RevisionsInvNext
<1> QED
    BY <1>1, ConfigInvHolds, RevisionsInvInit, PTL DEF ConfigSpec

(* A restart does not change the polar in use, whatever the clock did and  *)
(* however many revisions share a second under one sail_config_id: the Map *)
(* and the index agree on the order of such rows, and the latest stamp is  *)
(* the same in every list of the boat's rows (config-store.ts:577-590).    *)
THEOREM RestartsKeepThePolar == ConfigSpec => []RestartKeepsPolar
<1>1. RevisionsInv => RestartKeepsPolar
    <2> SUFFICES ASSUME RevisionsInv, stage = "open", sails.boatId = activeBoatId, OneConfigASecond
                 PROVE  ActivePolar(revisions) = ActivePolar(ListRevisions(activeBoatId))
        BY DEF RestartKeepsPolar
    <2> DEFINE listed == ListRevisions(activeBoatId)
               ours == {i \in DOMAIN revisionRows : OfTheMode(i)}
               latest == {i \in ours : \A j \in ours : revisionRows[j].createdAt <= revisionRows[i].createdAt}
               one == ActivePolar(revisions)
               two == ActivePolar(listed)
    <2>1. RowsOK /\ revisions \in Seq(DOMAIN revisionRows) /\ InTurn(revisions)
          /\ \A i \in DOMAIN revisionRows : revisionRows[i].boatId = sails.boatId => i \in Range(revisions)
        BY DEF RevisionsInv, Emitted
    <2>2. listed \in Seq(DOMAIN revisionRows) /\ InTurn(listed)
          /\ \A i \in DOMAIN revisionRows : revisionRows[i].boatId = sails.boatId => i \in Range(listed)
        BY <2>1, ListInTurn
    <2> HIDE DEF listed
    <2>3. (ours = {} => one = 0) /\ (ours # {} => one \in latest /\ \A i \in latest : one <= i)
        BY <2>1, ActiveIs
    <2>4. (ours = {} => two = 0) /\ (ours # {} => two \in latest /\ \A i \in latest : two <= i)
        BY <2>1, <2>2, ActiveIs
    <2>5. latest \subseteq Nat
        BY <2>1, RowIs
    <2> HIDE DEF ours, latest, one, two
    <2>6. one = two
        <3>1. CASE ours = {}
            BY <2>3, <2>4, <3>1
        <3>2. CASE ours # {}
            <4>1. one \in latest /\ two \in latest /\ one <= two /\ two <= one
                BY <2>3, <2>4, <3>2
            <4>2. one \in Nat /\ two \in Nat
                BY <2>5, <4>1
            <4> QED
                BY <4>1, <4>2
        <3> QED
            BY <3>1, <3>2
    <2> QED
        BY <2>6 DEF one, two, listed
<1> QED
    BY <1>1, RevisionsInvHolds, PTL

(* The types that the invariants above do not give. *)
ConfigSorts ==
    /\ stage \in {"down", "tables"} \/ Loaded
    /\ mapRows \subseteq Boats \X Modes
    /\ ~Loaded => sails = NoRow
    /\ paint \subseteq Boats \X Modes

(* Every row and subject of the database is of its type, through cut       *)
(* migrations, the end of the process between a write and its emission and *)
(* restarts (config-store.ts:180-509).                                     *)
THEOREM ConfigTypeCorrect == ConfigSpec => []ConfigTypeOK
<1>1. ConfigInit => ConfigSorts
    <2> SUFFICES ASSUME ConfigInit PROVE ConfigSorts
        OBVIOUS
    <2>1. stage = "down" /\ sails = NoRow /\ mapRows \subseteq Boats \X Modes /\ paint = mapRows
        BY Zenon DEF ConfigInit
    <2> QED
        BY <2>1 DEF ConfigSorts, Loaded
<1>2. ConfigInv /\ ConfigSorts /\ [ConfigNext]_configVars => ConfigSorts'
    <2> SUFFICES ASSUME ConfigInv, ConfigSorts, [ConfigNext]_configVars PROVE ConfigSorts'
        OBVIOUS
    <2>1. ASSUME NEW readable \in BOOLEAN, LoadWardrobe(readable) PROVE ConfigSorts'
        <3>1. stage' = "wardrobe" /\ UNCHANGED mapRows /\ paint' \subseteq paint
            BY <2>1, Zenon DEF LoadWardrobe, Taken
        <3> QED
            BY <3>1 DEF ConfigSorts, Loaded
    <2>2. CASE CreateTables \/ DropLegacy \/ Load \/ EndProcess
        BY <2>2 DEF CreateTables, DropLegacy, Load, EndProcess, ConfigSorts, Loaded
    <2>3. ASSUME NEW mode \in Modes, NEW painted \in BOOLEAN, SetSails(mode, painted) PROVE ConfigSorts'
        <3>1. stage = "open" /\ stage' = "sailsWritten" /\ UNCHANGED mapRows
              /\ paint' = (IF painted THEN {<<sails.boatId, mode>>} ELSE {})
            BY <2>3, Zenon DEF SetSails
        <3>2. sails.boatId \in Boats
            BY <3>1 DEF ConfigInv, Loaded, Wardrobes
        <3> QED
            BY <3>1, <3>2 DEF ConfigSorts, Loaded
    <2>4. CASE SavePolar \/ SaveRevision
        BY <2>4 DEF SavePolar, SaveRevision, CreateRevision, ConfigSorts, Loaded
    <2>5. CASE EmitSails \/ EmitRevision \/ SetClock \/ UNCHANGED configVars
        BY <2>5 DEF EmitSails, EmitRevision, SetClock, configVars, ConfigSorts, Loaded
    <2> QED
        BY <2>1, <2>2, <2>3, <2>4, <2>5 DEF ConfigNext
<1>3. ConfigInv /\ RevisionsInv /\ ConfigSorts => ConfigTypeOK
    <2> SUFFICES ASSUME ConfigInv, RevisionsInv, ConfigSorts PROVE ConfigTypeOK
        OBVIOUS
    <2>1. sails \in Wardrobes \cup {NoRow}
        BY DEF ConfigInv, ConfigSorts
    <2>2. revisionRows \in Seq(Revisions) /\ revisions \in Seq(1 .. Len(revisionRows))
        <3>1. revisionRows \in Seq(Revisions) /\ revisions \in Seq(Emitted)
            BY DEF RevisionsInv, RowsOK
        <3>2. Emitted \subseteq 1 .. Len(revisionRows)
            BY <3>1 DEF Emitted
        <3> HIDE DEF Emitted
        <3>3. revisions \in Seq(1 .. Len(revisionRows))
            BY <3>1, <3>2, SeqWidens
        <3> QED
            BY <3>1, <3>3
    <2>3. stage \in {"down", "tables", "wardrobe", "dropped", "open", "sailsWritten", "revisionWritten"}
        BY DEF ConfigSorts, Loaded
    <2> QED
        BY <2>1, <2>2, <2>3 DEF ConfigInv, RevisionsInv, ConfigSorts, ConfigTypeOK
<1> QED
    BY <1>1, <1>2, <1>3, ConfigInvHolds, RevisionsInvHolds, PTL DEF ConfigSpec

(***************************************************************************)
(* The live sources.                                                       *)
(***************************************************************************)
Bridged(g) == phase[g] \in {"bridged", "read", "added", "up"} /\ found[g] # "none"

(* What the registries hold belongs to a source that is up, however the    *)
(* sources overlap; the drivers a bridge was run with run until it stops.  *)
RegistriesInv ==
    /\ \A g \in Lives : Bridged(g) => "boot" \in hub[g]
    /\ \A g \in {deviceTx, alertsTx} \ {0} : phase[g] = "up" /\ found[g] = "n2k"
    /\ \A g \in discovery : phase[g] = "up"

(* One source at a time: the only one that is not at rest.                 *)
Resting(g) == phase[g] \in {"none", "gone", "rejected"}
OneSource ==
    /\ \A g, h \in Lives : Resting(g) \/ Resting(h) \/ g = h
    /\ \A g \in Lives : Bridged(g) => sharedHub = g
    /\ \A g \in Lives : phase[g] = "up" /\ found[g] = "n2k" => deviceTx = g /\ alertsTx = g

(* Steady use: only what is between its opening and its teardown has       *)
(* anything open.                                                          *)
SteadyInv ==
    \A g \in Lives :
        /\ phase[g] # "rejected"
        /\ phase[g] # "none" => found[g] # "none"
        /\ g \in ports => phase[g] \notin {"none", "gone"}
        /\ hub[g] # {} => phase[g] \in {"bridged", "read", "added", "up", "closing", "stopping"}
        /\ phase[g] = "stopping" => hub[g] \subseteq left[g]

LiveInv ==
    /\ LiveTypeOK
    /\ RegistriesInv
    /\ liveUsage # "overlapping" => OneSource
    /\ liveUsage = "steady" => SteadyInv

LEMMA LiveInvInit == LiveInit => LiveInv
<1> SUFFICES ASSUME LiveInit PROVE LiveInv
    OBVIOUS
<1>1. LiveTypeOK
    BY DEF LiveInit, LiveTypeOK, Findings
<1>2. RegistriesInv /\ OneSource /\ SteadyInv
    BY DEF LiveInit, RegistriesInv, OneSource, SteadyInv, Bridged, Resting
<1> QED
    BY <1>1, <1>2 DEF LiveInv

(* Only SocketCAN of the shared hub is put or taken away. *)
PutChanges ==
    /\ hub' \in [Lives -> SUBSET {"boot", "socketcan"}]
    /\ \A g \in Lives : g # sharedHub => hub'[g] = hub[g]
    /\ \A g \in Lives : "boot" \in hub[g] => "boot" \in hub'[g]

LEMMA PutIs ==
    ASSUME LiveTypeOK, NEW on \in BOOLEAN, Put(on) \/ UNCHANGED hub
    PROVE  PutChanges
<1>1. CASE hub' = hub
    BY <1>1 DEF LiveTypeOK, PutChanges
<1>2. CASE sharedHub # 0 /\ Put(on)
    <2>1. sharedHub \in Lives
        BY <1>2 DEF LiveTypeOK
    <2>2. PICK run \in {hub[sharedHub] \cup {"socketcan"}, hub[sharedHub] \ {"socketcan"}} :
              hub' = [hub EXCEPT ![sharedHub] = run]
        BY <1>2, Zenon DEF Put
    <2>3. run \in SUBSET {"boot", "socketcan"} /\ ("boot" \in hub[sharedHub] => "boot" \in run)
        BY <2>1, <2>2 DEF LiveTypeOK
    <2> QED
        BY <2>1, <2>2, <2>3 DEF LiveTypeOK, PutChanges
<1> QED
    BY <1>1, <1>2 DEF Put

LEMMA AddSocketCanIs ==
    ASSUME LiveTypeOK, NEW g \in Lives, AddSocketCan(g)
    PROVE  /\ phase[g] = "read" /\ phase' = [phase EXCEPT ![g] = "added"] /\ PutChanges
           /\ wishing' \subseteq wishing
           /\ UNCHANGED <<found, ports, left, sharedHub, canSetting, deviceTx, alertsTx, discovery>>
<1>1. /\ phase[g] = "read" /\ phase' = [phase EXCEPT ![g] = "added"] /\ wishing' \subseteq wishing
      /\ UNCHANGED <<found, ports, left, sharedHub, canSetting, deviceTx, alertsTx, discovery>>
    BY Zenon DEF AddSocketCan, At
<1>2. TRUE \in BOOLEAN /\ (Put(TRUE) \/ UNCHANGED hub)
    BY Zenon DEF AddSocketCan
<1> QED
    BY <1>1, <1>2, PutIs

LEMMA ToggleIs ==
    ASSUME LiveTypeOK, ToggleSocketCan
    PROVE  /\ PutChanges /\ canSetting' \in BOOLEAN
           /\ UNCHANGED <<phase, found, ports, wishing, left, sharedHub, deviceTx, alertsTx, discovery>>
<1>1. PICK on \in BOOLEAN : canSetting' = on /\ (Put(on) \/ Put(FALSE))
    BY Zenon DEF ToggleSocketCan
<1>2. UNCHANGED <<phase, found, ports, wishing, left, sharedHub, deviceTx, alertsTx, discovery>>
    BY Zenon DEF ToggleSocketCan, heldVars
<1>3. PICK put \in BOOLEAN : Put(put)
    <2>1. FALSE \in BOOLEAN
        OBVIOUS
    <2> QED
        BY <1>1, <2>1, Zenon
<1> QED
    BY <1>1, <1>2, <1>3, PutIs

(* The teardown takes drivers off its own hub only, and those it has yet   *)
(* to stop are among those it captured.                                    *)
StopChanges(g, labels) ==
    /\ hub' \in [Lives -> SUBSET {"boot", "socketcan"}] /\ left' \in [Lives -> SUBSET {"boot", "socketcan"}]
    /\ \A h \in Lives : h # g => hub'[h] = hub[h] /\ left'[h] = left[h]
    /\ hub[g] \subseteq labels => hub'[g] \subseteq left'[g]
    /\ hub'[g] \subseteq hub[g]

LEMMA StopDriverIs ==
    ASSUME LiveTypeOK, NEW g \in Lives, NEW labels \in SUBSET {"boot", "socketcan"}, StopDriver(g, labels)
    PROVE  StopChanges(g, labels)
<1>1. PICK rest \in SUBSET labels : /\ hub' = [hub EXCEPT ![g] = @ \ (labels \ rest)]
                                    /\ left' = [left EXCEPT ![g] = rest]
    BY DEF StopDriver
<1> QED
    BY <1>1 DEF LiveTypeOK, StopChanges

LEMMA StopBridgeIs ==
    ASSUME LiveTypeOK, NEW g \in Lives, StopBridge(g)
    PROVE  /\ phase[g] = "closing" /\ UNCHANGED <<found, ports, wishing, sharedHub, canSetting, deviceTx, alertsTx, discovery>>
           /\ \/ found[g] = "none" /\ phase' = [phase EXCEPT ![g] = "unbridged"] /\ UNCHANGED <<hub, left>>
              \/ found[g] # "none" /\ phase' = [phase EXCEPT ![g] = "stopping"] /\ StopChanges(g, hub[g])
<1>1. UNCHANGED <<found, ports, wishing, sharedHub, canSetting, deviceTx, alertsTx, discovery>>
    BY Zenon DEF StopBridge
<1>2. CASE found[g] = "none"
    BY <1>1, <1>2, Zenon DEF StopBridge, At
<1>3. CASE found[g] # "none"
    <2>1. phase[g] = "closing" /\ phase' = [phase EXCEPT ![g] = "stopping"] /\ StopDriver(g, hub[g])
        BY <1>3, Zenon DEF StopBridge, At
    <2>2. hub[g] \in SUBSET {"boot", "socketcan"}
        BY DEF LiveTypeOK
    <2> QED
        BY <1>1, <1>3, <2>1, <2>2, StopDriverIs
<1> QED
    BY <1>2, <1>3

LEMMA StopNextIs ==
    ASSUME LiveTypeOK, NEW g \in Lives, StopNext(g)
    PROVE  /\ phase[g] = "stopping" /\ UNCHANGED <<found, ports, wishing, sharedHub, canSetting, deviceTx, alertsTx, discovery>>
           /\ \/ phase' = [phase EXCEPT ![g] = "stopping"] /\ StopChanges(g, left[g])
              \/ /\ phase' = [phase EXCEPT ![g] = "unbridged"] /\ hub' = hub
                 /\ left[g] = {} \/ Unsteady
                 /\ left' \in [Lives -> SUBSET {"boot", "socketcan"}] /\ \A h \in Lives : h # g => left'[h] = left[h]
<1>1. UNCHANGED <<found, ports, wishing, sharedHub, canSetting, deviceTx, alertsTx, discovery>>
    BY Zenon DEF StopNext
<1>2. CASE At(g, "stopping", "stopping") /\ StopDriver(g, left[g])
    <2>1. left[g] \in SUBSET {"boot", "socketcan"}
        BY DEF LiveTypeOK
    <2> QED
        BY <1>1, <1>2, <2>1, StopDriverIs DEF At
<1>3. CASE left[g] = {} /\ At(g, "stopping", "unbridged") /\ UNCHANGED <<hub, left>>
    BY <1>1, <1>3 DEF At, LiveTypeOK
<1>4. CASE Unsteady /\ At(g, "stopping", "unbridged") /\ left' = [left EXCEPT ![g] = {}] /\ UNCHANGED hub
    BY <1>1, <1>4 DEF At, LiveTypeOK
<1> QED
    BY <1>2, <1>3, <1>4, Zenon DEF StopNext

(* One lemma for each part of the invariant, with a step for each action. *)
LEMMA LiveTypeNext == ASSUME LiveInv, [LiveNext]_liveVars PROVE LiveTypeOK'
<1>0. LiveTypeOK /\ liveUsage' = liveUsage
    BY DEF LiveInv, LiveNext, liveVars
<1> USE <1>0 DEF LiveTypeOK, Findings, PutChanges, heldVars
<1>1. ASSUME NEW g \in Lives, OpenPorts(g) PROVE LiveTypeOK'
    BY <1>1 DEF OpenPorts, At, AtRest
<1>2. ASSUME NEW g \in Lives, RunBridge(g) PROVE LiveTypeOK'
    <2>1. phase' \in [Lives -> {"none", "opened", "bridged", "read", "added", "up",
                               "closing", "stopping", "unbridged", "gone", "rejected"}]
        BY <1>2 DEF RunBridge, At
    <2>2. hub' \in [Lives -> SUBSET {"boot", "socketcan"}]
        <3>1. UNCHANGED hub \/ \E run \in {{}, {"boot"}} : hub' = [hub EXCEPT ![g] = run]
            <4>1. CASE found[g] = "none"
                BY <1>2, <4>1, Zenon DEF RunBridge
            <4>2. CASE found[g] # "none"
                BY <1>2, <4>2 DEF RunBridge
            <4> QED
                BY <4>1, <4>2
        <3> QED
            BY <3>1
    <2>3. sharedHub' \in Lives \cup {0}
        BY <1>2 DEF RunBridge
    <2>4. UNCHANGED <<found, ports, wishing, left, canSetting, deviceTx, alertsTx, discovery>>
        BY <1>2, Zenon DEF RunBridge
    <2> QED
        BY <2>1, <2>2, <2>3, <2>4
<1>3. ASSUME NEW g \in Lives, AddSocketCan(g) PROVE LiveTypeOK'
    BY <1>3, AddSocketCanIs
<1>11. ASSUME NEW g \in Lives, ReadSocketCan(g) PROVE LiveTypeOK'
    BY <1>11 DEF ReadSocketCan, At
<1>4. ASSUME NEW g \in Lives, Rejected(g) PROVE LiveTypeOK'
    BY <1>4 DEF Rejected, At
<1>5. ASSUME NEW g \in Lives, Register(g) PROVE LiveTypeOK'
    BY <1>5 DEF Register, At
<1>6. ASSUME NEW g \in Lives, Unregister(g) PROVE LiveTypeOK'
    BY <1>6 DEF Unregister, At
<1>7. ASSUME NEW g \in Lives, StopBridge(g) PROVE LiveTypeOK'
    BY <1>7, StopBridgeIs DEF StopChanges
<1>12. ASSUME NEW g \in Lives, StopNext(g) PROVE LiveTypeOK'
    BY <1>12, StopNextIs DEF StopChanges
<1>8. ASSUME NEW g \in Lives, ClosePorts(g) PROVE LiveTypeOK'
    BY <1>8 DEF ClosePorts, At
<1>9. CASE ToggleSocketCan
    BY <1>9, ToggleIs
<1>10. CASE UNCHANGED liveVars
    BY <1>10 DEF liveVars
<1> QED
    BY <1>1, <1>2, <1>3, <1>4, <1>5, <1>6, <1>7, <1>8, <1>9, <1>10, <1>11, <1>12 DEF LiveNext

LEMMA RegistriesNext == ASSUME LiveInv, [LiveNext]_liveVars PROVE RegistriesInv'
<1> USE DEF LiveInv, LiveTypeOK, RegistriesInv, Bridged, PutChanges
<1>1. ASSUME NEW g \in Lives, OpenPorts(g) PROVE RegistriesInv'
    BY <1>1 DEF OpenPorts, At, AtRest
<1>2. ASSUME NEW g \in Lives, RunBridge(g) PROVE RegistriesInv'
    BY <1>2 DEF RunBridge, At
<1>3. ASSUME NEW g \in Lives, AddSocketCan(g) PROVE RegistriesInv'
    BY <1>3, AddSocketCanIs
<1>11. ASSUME NEW g \in Lives, ReadSocketCan(g) PROVE RegistriesInv'
    BY <1>11 DEF ReadSocketCan, At
<1>4. ASSUME NEW g \in Lives, Rejected(g) PROVE RegistriesInv'
    BY <1>4 DEF Rejected, At
<1>5. ASSUME NEW g \in Lives, Register(g) PROVE RegistriesInv'
    BY <1>5 DEF Register, At
<1>6. ASSUME NEW g \in Lives, Unregister(g) PROVE RegistriesInv'
    BY <1>6 DEF Unregister, At
<1>7. ASSUME NEW g \in Lives, StopBridge(g) PROVE RegistriesInv'
    BY <1>7, StopBridgeIs DEF StopChanges
<1>12. ASSUME NEW g \in Lives, StopNext(g) PROVE RegistriesInv'
    BY <1>12, StopNextIs DEF StopChanges
<1>8. ASSUME NEW g \in Lives, ClosePorts(g) PROVE RegistriesInv'
    BY <1>8 DEF ClosePorts, At
<1>9. CASE ToggleSocketCan
    BY <1>9, ToggleIs DEF ToggleSocketCan
<1>10. CASE UNCHANGED liveVars
    BY <1>10 DEF liveVars
<1> QED
    BY <1>1, <1>2, <1>3, <1>4, <1>5, <1>6, <1>7, <1>8, <1>9, <1>10, <1>11, <1>12 DEF LiveNext

LEMMA OneSourceNext == ASSUME LiveInv, [LiveNext]_liveVars, liveUsage # "overlapping" PROVE OneSource'
<1> USE DEF LiveInv, LiveTypeOK, OneSource, Bridged, Resting, PutChanges
<1>1. ASSUME NEW g \in Lives, OpenPorts(g) PROVE OneSource'
    BY <1>1 DEF OpenPorts, At, AtRest
<1>2. ASSUME NEW g \in Lives, RunBridge(g) PROVE OneSource'
    BY <1>2 DEF RunBridge, At
<1>3. ASSUME NEW g \in Lives, AddSocketCan(g) PROVE OneSource'
    BY <1>3, AddSocketCanIs
<1>11. ASSUME NEW g \in Lives, ReadSocketCan(g) PROVE OneSource'
    BY <1>11 DEF ReadSocketCan, At
<1>4. ASSUME NEW g \in Lives, Rejected(g) PROVE OneSource'
    BY <1>4 DEF Rejected, At
<1>5. ASSUME NEW g \in Lives, Register(g) PROVE OneSource'
    BY <1>5 DEF Register, At
<1>6. ASSUME NEW g \in Lives, Unregister(g) PROVE OneSource'
    BY <1>6 DEF Unregister, At
<1>7. ASSUME NEW g \in Lives, StopBridge(g) PROVE OneSource'
    BY <1>7, StopBridgeIs DEF StopChanges
<1>12. ASSUME NEW g \in Lives, StopNext(g) PROVE OneSource'
    BY <1>12, StopNextIs DEF StopChanges
<1>8. ASSUME NEW g \in Lives, ClosePorts(g) PROVE OneSource'
    BY <1>8 DEF ClosePorts, At
<1>9. CASE ToggleSocketCan
    BY <1>9, ToggleIs DEF ToggleSocketCan
<1>10. CASE UNCHANGED liveVars
    BY <1>10 DEF liveVars
<1> QED
    BY <1>1, <1>2, <1>3, <1>4, <1>5, <1>6, <1>7, <1>8, <1>9, <1>10, <1>11, <1>12 DEF LiveNext

LEMMA SteadyNext == ASSUME LiveInv, [LiveNext]_liveVars, liveUsage = "steady" PROVE SteadyInv'
<1> USE DEF LiveInv, LiveTypeOK, OneSource, SteadyInv, Bridged, Unsteady, PutChanges, heldVars
<1>1. ASSUME NEW g \in Lives, OpenPorts(g) PROVE SteadyInv'
    BY <1>1 DEF OpenPorts, At, AtRest
<1>2. ASSUME NEW g \in Lives, RunBridge(g) PROVE SteadyInv'
    BY <1>2 DEF RunBridge, At
<1>3. ASSUME NEW g \in Lives, AddSocketCan(g) PROVE SteadyInv'
    BY <1>3, AddSocketCanIs
<1>11. ASSUME NEW g \in Lives, ReadSocketCan(g) PROVE SteadyInv'
    BY <1>11 DEF ReadSocketCan, At
<1>4. ASSUME NEW g \in Lives, Rejected(g) PROVE SteadyInv'
    BY <1>4 DEF Rejected, At
<1>5. ASSUME NEW g \in Lives, Register(g) PROVE SteadyInv'
    BY <1>5 DEF Register, At
<1>6. ASSUME NEW g \in Lives, Unregister(g) PROVE SteadyInv'
    BY <1>6 DEF Unregister, At
<1>7. ASSUME NEW g \in Lives, StopBridge(g) PROVE SteadyInv'
    BY <1>7, StopBridgeIs DEF StopChanges
<1>12. ASSUME NEW g \in Lives, StopNext(g) PROVE SteadyInv'
    BY <1>12, StopNextIs DEF StopChanges
<1>8. ASSUME NEW g \in Lives, ClosePorts(g) PROVE SteadyInv'
    BY <1>8 DEF ClosePorts, At
<1>9. CASE ToggleSocketCan
    BY <1>9, ToggleIs DEF ToggleSocketCan
<1>10. CASE UNCHANGED liveVars
    BY <1>10 DEF liveVars
<1> QED
    BY <1>1, <1>2, <1>3, <1>4, <1>5, <1>6, <1>7, <1>8, <1>9, <1>10, <1>11, <1>12 DEF LiveNext

LEMMA LiveInvHolds == LiveSpec => []LiveInv
<1>1. ASSUME LiveInv, [LiveNext]_liveVars
      PROVE  LiveInv'
    <2>1. liveUsage' = liveUsage
        BY <1>1 DEF LiveNext, liveVars
    <2> QED
        BY <1>1, <2>1, LiveTypeNext, RegistriesNext, OneSourceNext, SteadyNext DEF LiveInv
<1> QED
    BY <1>1, LiveInvInit, PTL DEF LiveSpec

(* However sources overlap and whatever rejects, the transmitters of the   *)
(* registries are those of a source that is up and whose drivers run       *)
(* (live-factory.ts:312-330, 350-356).                                     *)
THEOREM NoStaleTransmitter == LiveSpec => []TransmittersUp
<1>1. LiveInv => TransmittersUp
    BY DEF LiveInv, LiveTypeOK, RegistriesInv, Bridged, TransmittersUp
<1> QED
    BY <1>1, LiveInvHolds, PTL

(* One source at a time: the registries and the shared hub are those of    *)
(* the source that is up.                                                  *)
THEOREM RegistriesAreOfTheSource == LiveSpec => []RegistriesFollow
<1>1. LiveInv => RegistriesFollow
    BY DEF LiveInv, OneSource, Bridged, RegistriesFollow
<1> QED
    BY <1>1, LiveInvHolds, PTL

(* In steady use a teardown leaves no driver running and no port open      *)
(* (live-factory.ts:128-131, 350-370).                                     *)
THEOREM TeardownReachesAll == LiveSpec => []TornDownIsSilent
<1>1. LiveInv => TornDownIsSilent
    BY DEF LiveInv, LiveTypeOK, SteadyInv, AtRest, TornDownIsSilent
<1> QED
    BY <1>1, LiveInvHolds, PTL

---------------------------------------------------------------------------------
(* The composition.  A behaviour of the server is one of each of its parts: *)
(* a step of one leaves the variables of the others as they are.            *)
LEMMA OnlyOnePartMoves ==
    ASSUME [ServerNext]_serverVars
    PROVE  /\ [HubNext]_hubVars /\ [LiveNext]_liveVars /\ [SettingsNext]_settingsVars
           /\ [PacketNext]_packetVars /\ [Next]_vars /\ [ConfigNext]_configVars
<1>1. CASE UNCHANGED serverVars
    BY <1>1 DEF serverVars
<1>2. CASE HubStep
    BY <1>2 DEF HubStep
<1>3. CASE LiveStep
    BY <1>3 DEF LiveStep
<1>4. CASE SettingsStep
    BY <1>4 DEF SettingsStep
<1>5. CASE PacketStep
    BY <1>5 DEF PacketStep
<1>6. CASE TripsStep
    BY <1>6 DEF TripsStep
<1>7. CASE ConfigStep
    BY <1>7 DEF ConfigStep
<1> QED
    BY <1>1, <1>2, <1>3, <1>4, <1>5, <1>6, <1>7 DEF ServerNext

(* Server implements the specification of each of its parts. *)
THEOREM ServerIsItsParts ==
    ServerSpec => HubSpec /\ LiveSpec /\ SettingsSpec /\ PacketSpec /\ Spec /\ ConfigSpec
<1>1. ServerInit => HubInit /\ LiveInit /\ SettingsInit /\ PacketInit /\ Init /\ ConfigInit
    BY DEF ServerInit
<1>2. [ServerNext]_serverVars =>
          /\ [HubNext]_hubVars /\ [LiveNext]_liveVars /\ [SettingsNext]_settingsVars
          /\ [PacketNext]_packetVars /\ [Next]_vars /\ [ConfigNext]_configVars
    BY OnlyOnePartMoves
<1> QED
    BY <1>1, <1>2, PTL
    DEF ServerSpec, HubSpec, LiveSpec, SettingsSpec, PacketSpec, Spec, ConfigSpec

(* What the parts promise holds in the server as it is model-checked: of   *)
(* its hub, its live source, its settings file, its fast packets, its trip *)
(* log and its configuration database.                                     *)
THEOREM ServerIsSafe ==
    ServerSpec => /\ []RegisteredOnBus /\ []NoShadow
                  /\ []RegistriesFollow /\ []TornDownIsSilent
                  /\ []KeysKeptApart /\ []RunningAsStored
                  /\ []NeverCorrupt
                  /\ []TripsInOrder /\ EndsAtRest
                  /\ []PaintKept /\ []RestartKeepsPolar
BY ServerIsItsParts, RegisteredAlwaysOnBus, NoneShadowed, RegistriesAreOfTheSource, TeardownReachesAll,
   KeysStayApart, HubRunsWhatIsStored, PayloadsAreOfOnePacket, TripsNeverOverlap, TripsEndAtRest,
   MigrationLosesNoPaint, RestartsKeepThePolar, PTL
=================================================================================
