----------------------------------- MODULE Server -----------------------------------
(***************************************************************************)
(* What the server process keeps: the driver hub, the live source that     *)
(* puts drivers on it, the settings file with the SocketCAN toggle, what   *)
(* each driver's pipeline has of a fast packet, the trip log and the       *)
(* configuration database.  Each sees of another what it models of it      *)
(* itself (LiveSource the hub as a set, SettingsFile its one driver), so   *)
(* that a behaviour is that of one, `part', with the others at rest.       *)
(***************************************************************************)
EXTENDS DriverHub, LiveSource, SettingsFile, FastPacket, TripEngine, ConfigStore

VARIABLE part

serverVars == <<part, hubVars, liveVars, settingsVars, packetVars, vars, configVars>>

(* A part at rest has one beginning. *)
Beginnings ==
    /\ part # "hub" => ~inTurn /\ label = [c \in Callers |-> CHOOSE l \in Labels : TRUE]
    /\ part # "live" => ~canSetting /\ liveUsage = "steady"
    /\ part # "settings" => ~requestsInTurn
    /\ part # "packets" => length = 1
    /\ part # "trips" => ~live
    /\ part # "config" => wardrobeRow = NoRow /\ activeBoatId = NoRow.boatId

ServerInit ==
    /\ part \in {"hub", "live", "settings", "packets", "trips", "config"}
    /\ HubInit /\ LiveInit /\ SettingsInit /\ PacketInit /\ Init /\ ConfigInit
    /\ Beginnings

HubStep ==
    /\ part = "hub"
    /\ HubNext
    /\ UNCHANGED <<liveVars, settingsVars, packetVars, vars, configVars>>

LiveStep ==
    /\ part = "live"
    /\ LiveNext
    /\ UNCHANGED <<hubVars, settingsVars, packetVars, vars, configVars>>

SettingsStep ==
    /\ part = "settings"
    /\ SettingsNext
    /\ UNCHANGED <<hubVars, liveVars, packetVars, vars, configVars>>

PacketStep ==
    /\ part = "packets"
    /\ PacketNext
    /\ UNCHANGED <<hubVars, liveVars, settingsVars, vars, configVars>>

TripsStep ==
    /\ part = "trips"
    /\ Next
    /\ UNCHANGED <<hubVars, liveVars, settingsVars, packetVars, configVars>>

ConfigStep ==
    /\ part = "config"
    /\ ConfigNext
    /\ UNCHANGED <<hubVars, liveVars, settingsVars, packetVars, vars>>

ServerNext ==
    /\ HubStep \/ LiveStep \/ SettingsStep \/ PacketStep \/ TripsStep \/ ConfigStep
    /\ UNCHANGED part

ServerSpec == ServerInit /\ [][ServerNext]_serverVars
=================================================================================
