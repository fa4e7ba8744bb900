------------------------------ MODULE SettingsFile ------------------------------
(***************************************************************************)
(* settings.json, shared by the requests that merge one top-level key into *)
(* it: PATCH /api/settings (packages/web/src/app/api/settings/route.ts)    *)
(* and the SocketCAN toggle (.../api/socketcan/route.ts), which puts its   *)
(* choice into the file and then makes the driver hub agree, as a live     *)
(* source does when it opens (apps/g5000/src/live-factory.ts).  Every file *)
(* operation is awaited, so requests interleave between them.  A write is  *)
(* what writeFile does: the file is opened and truncated, then written     *)
(* from its beginning (packages/web/src/lib/persistence.ts).               *)
(***************************************************************************)
CONSTANTS
    Clients,     \* browsers' pages, each with one request at a time
    SocketCan,   \* the key of the SocketCAN toggle
    Key,         \* the top-level key each client owns
    Values,      \* the values of a key; of SocketCan: interfaces and Off
    Off          \* the value all keys have at first: nothing, disabled

Keys == {Key[c] : c \in Clients}

ASSUME ValuesAssumption == Off \in Values /\ SocketCan \in Keys

VARIABLES
    state,     \* the file is whole, empty (truncated) or garbled
    stored,    \* what it says of each key when whole
    awaits,    \* what each client's request awaits
    wanted,    \* the value each request carries
    merged,    \* the settings each request read and will write
    hubShared, \* whether a hub is shared; none is before the first live source
    opening,   \* what the live source that opens awaits
    wished,    \* the interface it read, or Off
    running,   \* the interface of the driver in the shared hub, or Off
    saved,     \* history: the value last written for each key
    failed,    \* history: the last driver that was added did not start
    requestsInTurn \* chosen at first: requests and sources wait for each other's end

settingsVars == <<state, stored, awaits, wanted, merged, hubShared, opening, wished, running, saved, failed, requestsInTurn>>
hubSideVars == <<hubShared, opening, wished>>

Settings == [Keys -> Values]
Nothing == [k \in Keys |-> Off]

SettingsTypeOK ==
    /\ state \in {"whole", "empty", "garbled"}
    /\ stored \in Settings
    /\ awaits \in [Clients -> {"idle", "reading", "opening", "writing", "applying", "answering"}]
    /\ wanted \in [Clients -> Values]
    /\ merged \in [Clients -> Settings]
    /\ hubShared \in BOOLEAN
    /\ opening \in {"no", "reading", "adding"}
    /\ wished \in Values
    /\ running \in Values
    /\ saved \in Settings
    /\ failed \in BOOLEAN
    /\ requestsInTurn \in BOOLEAN

SettingsInit ==
    /\ state = "whole"
    /\ stored = Nothing
    /\ awaits = [c \in Clients |-> "idle"]
    /\ wanted = [c \in Clients |-> Off]
    /\ merged = [c \in Clients |-> Nothing]
    /\ hubShared = FALSE
    /\ opening = "no"
    /\ wished = Off
    /\ running = Off
    /\ saved = Nothing
    /\ failed = FALSE
    /\ requestsInTurn \in BOOLEAN

---------------------------------------------------------------------------------
Goto(c, next) == awaits' = [awaits EXCEPT ![c] = next]

(* The request is answered, and what it held is gone. *)
Answer(c) ==
    /\ Goto(c, "idle")
    /\ wanted' = [wanted EXCEPT ![c] = Off]
    /\ merged' = [merged EXCEPT ![c] = Nothing]

Quiet == opening = "no" /\ \A c \in Clients : awaits[c] = "idle"

(* A PATCH or a toggle arrives with a new value of the client's key. *)
Request(c, v) ==
    /\ awaits[c] = "idle"
    /\ requestsInTurn => Quiet
    /\ wanted' = [wanted EXCEPT ![c] = v]
    /\ Goto(c, "reading")
    /\ UNCHANGED <<state, stored, merged, running, saved, failed, hubSideVars>>

(* Mutant: the body replaces the file instead of being merged into it. *)
ReadUnmerged(c) ==
    /\ awaits[c] = "reading"
    /\ state = "whole"
    /\ merged' = [merged EXCEPT ![c] = [k \in Keys |-> IF k = Key[c] THEN wanted[c] ELSE Off]]
    /\ Goto(c, "opening")
    /\ UNCHANGED <<state, stored, wanted, running, saved, failed, hubSideVars>>

(* The file is read and the key merged into what it says. *)
Read(c) ==
    /\ awaits[c] = "reading"
    /\ state = "whole"
    /\ merged' = [merged EXCEPT ![c] = [stored EXCEPT ![Key[c]] = wanted[c]]]
    /\ Goto(c, "opening")
    /\ UNCHANGED <<state, stored, wanted, running, saved, failed, hubSideVars>>

(* JSON.parse throws: the request is answered with an error. *)
ReadFailed(c) ==
    /\ awaits[c] = "reading"
    /\ state # "whole"
    /\ Answer(c)
    /\ UNCHANGED <<state, stored, running, saved, failed, hubSideVars>>

Open(c) ==
    /\ awaits[c] = "opening"
    /\ state' = "empty"
    /\ Goto(c, "writing")
    /\ UNCHANGED <<stored, wanted, merged, running, saved, failed, hubSideVars>>

(* Over an empty file the settings stand alone.  Over what another request *)
(* wrote since, the end of the longer text remains.                        *)
Write(c) ==
    /\ awaits[c] = "writing"
    /\ \/ state' = "whole"
       \/ state # "empty" /\ state' = "garbled"
    /\ stored' = merged[c]
    /\ saved' = [saved EXCEPT ![Key[c]] = wanted[c]]
    /\ IF Key[c] = SocketCan THEN Goto(c, "applying") /\ UNCHANGED <<wanted, merged>> ELSE Answer(c)
    /\ UNCHANGED <<running, failed, hubSideVars>>

(* The toggle without a hub: 503, the choice being in the file. *)
Unavailable(c) ==
    /\ awaits[c] = "applying"
    /\ ~hubShared
    /\ Answer(c)
    /\ UNCHANGED <<state, stored, running, saved, failed, hubSideVars>>

(* Mutant: a driver that runs already is left alone. *)
ApplyKeepsRunning(c) ==
    /\ awaits[c] = "applying"
    /\ hubShared
    /\ \/ /\ running' = IF wanted[c] # Off /\ running # Off THEN running ELSE wanted[c]
          /\ failed' = FALSE
       \/ wanted[c] # Off /\ running' = Off /\ failed' = TRUE
    /\ Goto(c, "answering")
    /\ UNCHANGED <<state, stored, wanted, merged, saved, hubSideVars>>

(* The toggle goes on: the hub's driver is removed, and one on the wanted  *)
(* interface added, which may fail to start.  The hub's calls settle       *)
(* before anything else runs.                                              *)
Apply(c) ==
    /\ awaits[c] = "applying"
    /\ hubShared
    /\ \/ running' = wanted[c] /\ failed' = FALSE
       \/ wanted[c] # Off /\ running' = Off /\ failed' = TRUE
    /\ Goto(c, "answering")
    /\ UNCHANGED <<state, stored, wanted, merged, saved, hubSideVars>>

(* currentState has read the file again for the answer; where it does not  *)
(* parse the answer is an error.                                           *)
AnswerToggle(c) ==
    /\ awaits[c] = "answering"
    /\ Answer(c)
    /\ UNCHANGED <<state, stored, running, saved, failed, hubSideVars>>

---------------------------------------------------------------------------------
(* A live source opens: its hub takes the place of the last one. *)
ShareHub ==
    /\ opening = "no"
    /\ requestsInTurn => Quiet
    /\ opening' = "reading"
    /\ hubShared' = TRUE
    /\ running' = Off
    /\ UNCHANGED <<state, stored, awaits, wanted, merged, wished, saved, failed>>

(* readSocketCanSettings: a file that does not parse means disabled. *)
ReadChoice ==
    /\ opening = "reading"
    /\ opening' = "adding"
    /\ wished' = IF state = "whole" THEN stored[SocketCan] ELSE Off
    /\ UNCHANGED <<state, stored, awaits, wanted, merged, hubShared, running, saved, failed>>

(* A driver that does not start is passed over, and so is a label that a   *)
(* toggle has taken meanwhile.                                             *)
AddChoice ==
    /\ opening = "adding"
    /\ opening' = "no"
    /\ wished' = Off
    /\ \/ (wished = Off \/ running # Off) /\ UNCHANGED <<running, failed>>
       \/ wished # Off /\ running = Off /\ running' = wished /\ failed' = FALSE
       \/ wished # Off /\ running = Off /\ running' = Off /\ failed' = TRUE
    /\ UNCHANGED <<state, stored, awaits, wanted, merged, hubShared, saved>>

SettingsNext ==
    /\ \/ \E c \in Clients : \/ \E v \in Values : Request(c, v)
                             \/ Read(c) \/ ReadFailed(c) \/ Open(c) \/ Write(c)
                             \/ Unavailable(c) \/ Apply(c) \/ AnswerToggle(c)
       \/ ShareHub \/ ReadChoice \/ AddChoice
    /\ UNCHANGED requestsInTurn

SettingsSpec == SettingsInit /\ [][SettingsNext]_settingsVars

---------------------------------------------------------------------------------
(* When nothing is in flight the file parses and holds, for every key, the *)
(* value its owner's last request wrote, as long as requests do not        *)
(* overlap: each merges what it read earlier.                              *)
KeysKeptApart ==
    (requestsInTurn /\ Quiet) => (state = "whole" /\ stored = saved)

(* Refuted when requests overlap: "a per-key PATCH from one client never   *)
(* clobbers keys owned by another" (settings/route.ts:33).                 *)
NoClobber ==
    (Quiet /\ state = "whole") => stored = saved

(* The driver in the hub is the one the file names, or did not start ("May *)
(* differ from `enabled` if the driver failed to start",                   *)
(* socketcan/route.ts:30), whatever toggles, answers of 503 and live       *)
(* sources came before, as long as they do not overlap: each updates the   *)
(* hub at another time than it reads or writes the file, so that of two    *)
(* toggles one can be the last in the file and the other in the hub.       *)
RunningAsStored ==
    (requestsInTurn /\ Quiet /\ hubShared) =>
        (running = stored[SocketCan] \/ (failed /\ running = Off))
=================================================================================
