-------------------------------- MODULE LiveSource --------------------------------
(***************************************************************************)
(* The live factory and its teardown (apps/g5000/src/live-factory.ts): the *)
(* ports it opens, the hub runBridge makes for them and shares             *)
(* (packages/bridge/src/bridge.ts), SocketCAN on whatever hub is shared,   *)
(* and what it registers with objects that outlive it: the transmitter of  *)
(* the device registry and that of the N2K alerts.  One action per stretch *)
(* between awaits.  The hub's own steps are DriverHub's; here it is the    *)
(* set of what it runs, "boot" being all the drivers given to runBridge.   *)
(***************************************************************************)
EXTENDS Naturals

CONSTANTS
    MaxLives,       \* bound on the live sources of a behaviour
    LiveUsages      \* how they are used, one of them for a whole behaviour

(* "steady": one after the other, a driver is found each time, no await    *)
(* rejects, SocketCAN is toggled while a source is up; "unplugged": steady *)
(* but for drivers that may be missing; "unsteady": an await may reject as *)
(* well and toggles come at any time; "overlapping": unsteady, and sources *)
(* overlap (as startReplay and stopReplay allow, see SourceMode).          *)
ASSUME LivesAssumption == MaxLives \in Nat
ASSUME LiveUsagesAssumption == LiveUsages \subseteq {"steady", "unplugged", "unsteady", "overlapping"}

VARIABLES
    phase,      \* where each factory or teardown is
    found,      \* which drivers it found
    ports,      \* the sources whose ports are open
    hub,        \* what the hub of each source runs
    wishing,    \* the sources whose factory read that SocketCAN is enabled
    left,       \* what each hub's teardown has yet to stop, of what it ran at first
    sharedHub,  \* getSharedDriverHub: the source that made it, 0 for none
    canSetting, \* socketCan.enabled in settings.json
    deviceTx,   \* DeviceRegistry.txer: the source whose driver it is, 0 for none
    alertsTx,   \* the alerts registry's txer
    discovery,  \* the sources with device discovery installed
    liveUsage   \* chosen at first

liveVars ==
    <<phase, found, ports, hub, wishing, left, sharedHub, canSetting, deviceTx, alertsTx, discovery, liveUsage>>
heldVars == <<wishing, left>>   \* over an await

(* The live sources, in the order they open. *)
Lives == 1 .. MaxLives

(* Drivers found: none, 0183 ports only, or an NGT-1 or YDWG-02 among them. *)
Findings == {"none", "0183", "n2k"}

LiveTypeOK ==
    /\ phase \in [Lives -> {"none", "opened", "bridged", "read", "added", "up",
                           "closing", "stopping", "unbridged", "gone", "rejected"}]
    /\ found \in [Lives -> Findings]
    /\ ports \subseteq Lives
    /\ hub \in [Lives -> SUBSET {"boot", "socketcan"}]
    /\ wishing \subseteq Lives
    /\ left \in [Lives -> SUBSET {"boot", "socketcan"}]
    /\ sharedHub \in Lives \cup {0}
    /\ canSetting \in BOOLEAN
    /\ deviceTx \in Lives \cup {0}
    /\ alertsTx \in Lives \cup {0}
    /\ discovery \subseteq Lives
    /\ liveUsage \in LiveUsages

LiveInit ==
    /\ phase = [g \in Lives |-> "none"]
    /\ found = [g \in Lives |-> "none"]
    /\ ports = {}
    /\ hub = [g \in Lives |-> {}]
    /\ wishing = {}
    /\ left = [g \in Lives |-> {}]
    /\ sharedHub = 0
    /\ canSetting \in BOOLEAN
    /\ deviceTx = 0
    /\ alertsTx = 0
    /\ discovery = {}
    /\ liveUsage \in LiveUsages

At(g, from, to) == phase[g] = from /\ phase' = [phase EXCEPT ![g] = to]
AtRest == \A g \in Lives : phase[g] \in {"none", "gone", "rejected"}
Unsteady == liveUsage \in {"unsteady", "overlapping"}

---------------------------------------------------------------------------------
(* The factory.  A port that does not open is passed over. *)
OpenPorts(g) ==
    /\ At(g, "none", "opened")
    /\ \A h \in Lives : h < g => phase[h] # "none"
    /\ liveUsage # "overlapping" => AtRest
    /\ \E f \in IF liveUsage = "steady" THEN Findings \ {"none"} ELSE Findings :
           /\ found' = [found EXCEPT ![g] = f]
           /\ ports' = IF f = "none" THEN ports ELSE ports \cup {g}
    /\ UNCHANGED <<hub, sharedHub, canSetting, deviceTx, alertsTx, discovery, heldVars>>

(* runBridge, only if there is a driver; the hub is shared first.  A       *)
(* driver that does not start rejects it, and those before run on.         *)
RunBridge(g) ==
    /\ \/ At(g, "opened", "bridged")
       \/ Unsteady /\ found[g] # "none" /\ At(g, "opened", "rejected")
    /\ IF found[g] = "none" THEN UNCHANGED <<hub, sharedHub>>
       ELSE /\ sharedHub' = g
            /\ \E run \in IF phase'[g] = "bridged" THEN {{"boot"}} ELSE {{}, {"boot"}} :
                   hub' = [hub EXCEPT ![g] = run]
    /\ UNCHANGED <<found, ports, canSetting, deviceTx, alertsTx, discovery, heldVars>>

(* addDriver and removeDriver of 'socketcan' on the hub that is shared. *)
Put(on) ==
    IF sharedHub = 0 THEN UNCHANGED hub
    ELSE hub' = [hub EXCEPT ![sharedHub] = IF on THEN @ \cup {"socketcan"} ELSE @ \ {"socketcan"}]

(* A file that does not parse, as while a request writes it, is disabled. *)
ReadSocketCan(g) ==
    /\ At(g, "bridged", "read")
    /\ \/ wishing' = wishing
       \/ canSetting /\ wishing' = wishing \cup {g}
    /\ UNCHANGED <<found, ports, hub, left, sharedHub, canSetting, deviceTx, alertsTx, discovery>>

(* A driver that does not start, or a label that is taken, is passed over. *)
AddSocketCan(g) ==
    /\ At(g, "read", "added")
    /\ \/ UNCHANGED hub
       \/ g \in wishing /\ Put(TRUE)
    /\ wishing' = wishing \ {g}
    /\ UNCHANGED <<found, ports, left, sharedHub, canSetting, deviceTx, alertsTx, discovery>>

(* The logger, the true-wind pipeline or its transmitter rejects. *)
Rejected(g) ==
    /\ Unsteady
    /\ At(g, "added", "rejected")
    /\ UNCHANGED <<found, ports, hub, sharedHub, canSetting, deviceTx, alertsTx, discovery, heldVars>>

(* Mutant: the YDWG branch forgets the alerts. *)
RegisterDevicesOnly(g) ==
    /\ At(g, "added", "up")
    /\ IF found[g] # "n2k" THEN UNCHANGED <<deviceTx, alertsTx, discovery>>
       ELSE deviceTx' = g /\ alertsTx' = alertsTx /\ discovery' = discovery \cup {g}
    /\ UNCHANGED <<found, ports, hub, sharedHub, canSetting, heldVars>>

Register(g) ==
    /\ At(g, "added", "up")
    /\ IF found[g] # "n2k" THEN UNCHANGED <<deviceTx, alertsTx, discovery>>
       ELSE deviceTx' = g /\ alertsTx' = g /\ discovery' = discovery \cup {g}
    /\ UNCHANGED <<found, ports, hub, sharedHub, canSetting, heldVars>>

---------------------------------------------------------------------------------
(* The teardown: its first stretch, the bridge, the ports. *)

(* unregisterTxer looks whose it is; setTxer(null) does not. *)
Unregister(g) ==
    /\ At(g, "up", "closing")
    /\ discovery' = discovery \ {g}
    /\ IF found[g] # "n2k" THEN UNCHANGED <<deviceTx, alertsTx>>
       ELSE deviceTx' = (IF deviceTx = g THEN 0 ELSE deviceTx) /\ alertsTx' = 0
    /\ UNCHANGED <<found, ports, hub, sharedHub, canSetting, heldVars>>

(* Of the labels that are left the next is taken off the hub, "boot" with  *)
(* the last of its drivers, and its driver's stop awaited.                 *)
StopDriver(g, labels) ==
    \E rest \in IF "boot" \in labels THEN {labels, labels \ {"boot"}} ELSE {{}} :
        /\ hub' = [hub EXCEPT ![g] = @ \ (labels \ rest)]
        /\ left' = [left EXCEPT ![g] = rest]

(* Mutant: only the drivers the bridge was run with are stopped. *)
StopBridgeDrivers(g) ==
    /\ IF found[g] = "none" THEN At(g, "closing", "unbridged") /\ UNCHANGED <<hub, left>>
       ELSE At(g, "closing", "stopping") /\ StopDriver(g, hub[g] \cap {"boot"})
    /\ UNCHANGED <<found, ports, wishing, sharedHub, canSetting, deviceTx, alertsTx, discovery>>

(* The labels on the hub are captured: one that is added later stays. *)
StopBridge(g) ==
    /\ IF found[g] = "none" THEN At(g, "closing", "unbridged") /\ UNCHANGED <<hub, left>>
       ELSE At(g, "closing", "stopping") /\ StopDriver(g, hub[g])
    /\ UNCHANGED <<found, ports, wishing, sharedHub, canSetting, deviceTx, alertsTx, discovery>>

(* The driver stopped, or its stop rejects, which the teardown swallows    *)
(* with the labels that are left.                                          *)
StopNext(g) ==
    /\ \/ left[g] # {} /\ At(g, "stopping", "stopping") /\ StopDriver(g, left[g])
       \/ left[g] = {} /\ At(g, "stopping", "unbridged") /\ UNCHANGED <<hub, left>>
       \/ Unsteady /\ At(g, "stopping", "unbridged") /\ left' = [left EXCEPT ![g] = {}] /\ UNCHANGED hub
    /\ UNCHANGED <<found, ports, wishing, sharedHub, canSetting, deviceTx, alertsTx, discovery>>

ClosePorts(g) ==
    /\ At(g, "unbridged", "gone")
    /\ ports' = ports \ {g}
    /\ UNCHANGED <<found, hub, sharedHub, canSetting, deviceTx, alertsTx, discovery, heldVars>>

(* POST /api/socketcan, whose driver may not start: see SettingsFile. *)
ToggleSocketCan ==
    /\ Unsteady \/ \E g \in Lives : phase[g] = "up"
    /\ \E on \in BOOLEAN : canSetting' = on /\ (Put(on) \/ Put(FALSE))
    /\ UNCHANGED <<phase, found, ports, sharedHub, deviceTx, alertsTx, discovery, heldVars>>

LiveNext ==
    /\ \/ ToggleSocketCan
       \/ \E g \in Lives : \/ OpenPorts(g) \/ RunBridge(g) \/ ReadSocketCan(g) \/ AddSocketCan(g)
                           \/ Rejected(g) \/ Register(g)
                           \/ Unregister(g) \/ StopBridge(g) \/ StopNext(g) \/ ClosePorts(g)
    /\ UNCHANGED liveUsage

LiveSpec == LiveInit /\ [][LiveNext]_liveVars

---------------------------------------------------------------------------------
(* Whoever transmits through the device registry or the alerts reaches a   *)
(* source that is up, its drivers started and not yet stopped: no click on *)
(* Acknowledge and no half of a refresh meets a stopped driver, however    *)
(* sources overlap and whatever rejects (live-factory.ts:354, "rather than *)
(* calling a stale ngt").                                                  *)
TransmittersUp ==
    /\ \A g \in {deviceTx, alertsTx} \ {0} : phase[g] = "up" /\ "boot" \in hub[g]
    /\ \A g \in discovery : phase[g] = "up"

(* One source at a time: the one that is up is the one the registries      *)
(* transmit through and whose hub the routes toggle SocketCAN on.          *)
RegistriesFollow ==
    \A g \in Lives :
        (liveUsage # "overlapping" /\ phase[g] = "up") =>
            /\ found[g] = "n2k" => deviceTx = g /\ alertsTx = g
            /\ found[g] # "none" => sharedHub = g

(* In steady use a teardown reaches everything its source opened: at rest  *)
(* no driver runs on any hub, SocketCAN toggled meanwhile included, and no *)
(* port is open (live-factory.ts:128-131).                                 *)
TornDownIsSilent ==
    (liveUsage = "steady" /\ AtRest) => (ports = {} /\ \A g \in Lives : hub[g] = {})
=================================================================================
