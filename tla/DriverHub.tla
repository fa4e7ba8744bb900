------------------------------- MODULE DriverHub --------------------------------
(***************************************************************************)
(* The driver hub (packages/bridge/src/driver-hub.ts): wire drivers        *)
(* registered under labels, each with the subscriptions that carry its     *)
(* frames to the bus.  Its three methods await the driver's start() and    *)
(* stop(); other calls may run at those awaits.  A driver is a fresh       *)
(* object of the caller of addDriver.                                      *)
(***************************************************************************)
EXTENDS FiniteSets, Functions

CONSTANTS
    Labels, Drivers, Callers,
    None,        \* no driver: a label absent from the map
    Faulty       \* which of the drivers' start and stop may reject

ASSUME NoneAssumption == None \notin Drivers
ASSUME FaultyAssumption == Faulty \subseteq {"start", "stop"}

VARIABLES
    entries,      \* const entries: the driver under each label
    publishing,   \* drivers whose pipelines are subscribed
    up,           \* drivers started and not stopped
    pc,           \* the await each caller is suspended at
    drv,          \* the driver each caller is starting or stopping
    label,        \* the label each caller adds under
    todo,         \* the labels a teardown has yet to visit
    inTurn        \* chosen at first: a call is made only after the previous settled

hubVars == <<entries, publishing, up, pc, drv, label, todo, inTurn>>

HubTypeOK ==
    /\ entries \in [Labels -> Drivers \cup {None}]
    /\ publishing \subseteq Drivers
    /\ up \subseteq Drivers
    /\ pc \in [Callers -> {"idle", "starting", "stopping", "tearing"}]
    /\ drv \in [Callers -> Drivers \cup {None}]
    /\ label \in [Callers -> Labels]
    /\ todo \in [Callers -> SUBSET Labels]
    /\ inTurn \in BOOLEAN

HubInit ==
    /\ entries = [l \in Labels |-> None]
    /\ publishing = {}
    /\ up = {}
    /\ pc = [c \in Callers |-> "idle"]
    /\ drv = [c \in Callers |-> None]
    /\ label \in [Callers -> Labels]
    /\ todo = [c \in Callers |-> {}]
    /\ inTurn \in BOOLEAN

---------------------------------------------------------------------------------
CanCall(c) ==
    /\ pc[c] = "idle"
    /\ inTurn => \A d \in Callers : pc[d] = "idle"

Await(c, await, d) ==
    /\ pc' = [pc EXCEPT ![c] = await]
    /\ drv' = [drv EXCEPT ![c] = d]

Registered == {l \in Labels : entries[l] # None}

Fresh == Drivers \ (up \cup publishing \cup Range(drv) \cup Range(entries))

(* Unsubscribe the pipelines of the driver under l and forget the label; the *)
(* caller then awaits its stop().                                            *)
Detach(c, l, await) ==
    /\ publishing' = publishing \ {entries[l]}
    /\ entries' = [entries EXCEPT ![l] = None]
    /\ Await(c, await, entries[l])

(* Mutant: no look at the map before start(). *)
AddDriverUnchecked(c, l) ==
    /\ CanCall(c)
    /\ \E d \in Fresh : up' = up \cup {d} /\ Await(c, "starting", d)
    /\ label' = [label EXCEPT ![c] = l]
    /\ UNCHANGED <<entries, publishing, todo>>

(* addDriver: a taken label rejects, which is no step. *)
AddDriver(c, l) ==
    /\ CanCall(c)
    /\ l \notin Registered
    /\ \E d \in Fresh : up' = up \cup {d} /\ Await(c, "starting", d)
    /\ label' = [label EXCEPT ![c] = l]
    /\ UNCHANGED <<entries, publishing, todo>>

(* start() resolved: subscribe, then entries.set, whatever is there by now. *)
Started(c) ==
    /\ pc[c] = "starting"
    /\ publishing' = publishing \cup {drv[c]}
    /\ entries' = [entries EXCEPT ![label[c]] = drv[c]]
    /\ Await(c, "idle", None)
    /\ UNCHANGED <<up, label, todo>>

StartFailed(c) ==
    /\ pc[c] = "starting"
    /\ "start" \in Faulty
    /\ up' = up \ {drv[c]}
    /\ Await(c, "idle", None)
    /\ UNCHANGED <<entries, publishing, label, todo>>

(* Mutant: the label is not deleted from the map. *)
RemoveDriverKeepsEntry(c, l) ==
    /\ CanCall(c)
    /\ l \in Registered
    /\ publishing' = publishing \ {entries[l]}
    /\ Await(c, "stopping", entries[l])
    /\ UNCHANGED <<entries, up, label, todo>>

(* removeDriver: an absent label is a no-op, which is no step. *)
RemoveDriver(c, l) ==
    /\ CanCall(c)
    /\ l \in Registered
    /\ Detach(c, l, "stopping")
    /\ UNCHANGED <<up, label, todo>>

Stopped(c) ==
    /\ pc[c] = "stopping"
    /\ up' = up \ {drv[c]}
    /\ Await(c, "idle", None)
    /\ UNCHANGED <<entries, publishing, label, todo>>

(* teardown captures the labels, then detaches and stops them one by one;    *)
(* a label that has gone meanwhile is skipped.                               *)
Teardown(c) ==
    /\ CanCall(c)
    /\ \E l \in Registered :
         /\ Detach(c, l, "tearing")
         /\ todo' = [todo EXCEPT ![c] = Registered \ {l}]
    /\ UNCHANGED <<up, label>>

TornDownOne(c) ==
    /\ pc[c] = "tearing"
    /\ up' = up \ {drv[c]}
    /\ \E l \in todo[c] \cap Registered :
         /\ Detach(c, l, "tearing")
         /\ todo' = [todo EXCEPT ![c] = @ \ {l}]
    /\ UNCHANGED label

TornDown(c) ==
    /\ pc[c] = "tearing"
    /\ todo[c] \cap Registered = {}
    /\ up' = up \ {drv[c]}
    /\ todo' = [todo EXCEPT ![c] = {}]
    /\ Await(c, "idle", None)
    /\ UNCHANGED <<entries, publishing, label>>

(* A stop() that rejects is the caller's error; a teardown ends there. *)
StopFailed(c) ==
    /\ pc[c] \in {"stopping", "tearing"}
    /\ "stop" \in Faulty
    /\ todo' = [todo EXCEPT ![c] = {}]
    /\ Await(c, "idle", None)
    /\ UNCHANGED <<entries, publishing, up, label>>

HubNext ==
    /\ \E c \in Callers :
         \/ \E l \in Labels : AddDriver(c, l) \/ RemoveDriver(c, l)
         \/ Teardown(c)
         \/ Started(c) \/ StartFailed(c)
         \/ Stopped(c) \/ TornDownOne(c) \/ TornDown(c) \/ StopFailed(c)
    /\ UNCHANGED inTurn

HubSpec == HubInit /\ [][HubNext]_hubVars

---------------------------------------------------------------------------------
(* A label in the map always means a driver that is up and on the bus, and   *)
(* no other label has it.                                                    *)
RegisteredOnBus ==
    \A l \in Registered :
        /\ entries[l] \in publishing \cap up
        /\ \A k \in Labels \ {l} : entries[k] # entries[l]

(* What publishes is up.  A driver that fails to start leaves no             *)
(* subscription behind (lines 190-192), and one that is being stopped has    *)
(* none any more (lines 201-202).                                            *)
NothingPublishesHalfUp ==
    /\ publishing \subseteq up
    /\ \A c \in Callers : pc[c] # "idle" => drv[c] \notin publishing

(* Labels are unique: a driver on the bus is the one its label finds, so a   *)
(* later removeDriver or teardown reaches it (doc comment, lines 26-28:      *)
(* "addDriver rejects duplicates so a misbehaving caller can't silently      *)
(* shadow an existing driver"), as long as calls do not overlap: two that do *)
(* both pass the duplicate check before either sets the entry.               *)
NoShadow == inTurn => \A d \in publishing : \E l \in Labels : entries[l] = d
=================================================================================
