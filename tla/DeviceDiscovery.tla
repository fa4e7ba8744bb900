------------------------------ MODULE DeviceDiscovery ------------------------------
(***************************************************************************)
(* Device discovery (apps/g5000/src/device-discovery.ts) over the device   *)
(* registry (packages/bridge/src/devices/device-registry.ts): a source of  *)
(* frames that has not told its model is asked for it, after a delay in    *)
(* which it may do so by itself, and not more often than the interval.     *)
(* A request is two frames with an await between them, written through the *)
(* transmitter of the live source that installed the discovery.            *)
(***************************************************************************)
EXTENDS Naturals

CONSTANTS
    Sources,    \* N2K source addresses
    Delay,      \* initialDelayMs, in ticks
    Interval    \* refreshIntervalMs, in ticks

ASSUME DiscoveryAssumption == Delay \in Nat \ {0} /\ Interval \in Nat \ {0}

VARIABLES
    installed,      \* between installDeviceDiscovery and its teardown; the registry has a transmitter
    identified,     \* the sources with a modelId in the registry
    pendingTimer,   \* ticks until the timer of a source fires; NoTimer without one
    lastRequest,    \* ticks since the last request; Interval for longer, or never
    half,           \* the sources whose second frame is still to be written
    asking,         \* history: the source asked in the last step
    gap             \* history: ticks since a source was asked by this installation, up to Interval

discoveryVars == <<installed, identified, pendingTimer, lastRequest, half, asking, gap>>

NoTimer == Delay + 1

DiscoveryTypeOK ==
    /\ installed \in BOOLEAN
    /\ identified \subseteq Sources
    /\ pendingTimer \in [Sources -> 0 .. NoTimer]
    /\ lastRequest \in [Sources -> 0 .. Interval]
    /\ half \subseteq Sources
    /\ asking \subseteq Sources
    /\ gap \in [Sources -> 0 .. Interval]

Never == [s \in Sources |-> Interval]
NoTimers == [s \in Sources |-> NoTimer]

DiscoveryInit ==
    /\ installed = FALSE
    /\ identified = {}
    /\ pendingTimer = NoTimers
    /\ lastRequest = Never
    /\ half = {}
    /\ asking = {}
    /\ gap = Never

---------------------------------------------------------------------------------
InstallDiscovery ==
    /\ ~installed
    /\ installed' = TRUE
    /\ gap' = Never
    /\ asking' = {}
    /\ UNCHANGED <<identified, pendingTimer, lastRequest, half>>

(* Mutant: the pending timers survive the teardown. *)
UninstallKeepsTimers ==
    /\ installed
    /\ installed' = FALSE
    /\ lastRequest' = Never
    /\ asking' = {}
    /\ UNCHANGED <<identified, pendingTimer, half, gap>>

UninstallDiscovery ==
    /\ installed
    /\ installed' = FALSE
    /\ pendingTimer' = NoTimers
    /\ lastRequest' = Never
    /\ asking' = {}
    /\ UNCHANGED <<identified, half, gap>>

(* queueRequest, on a sample of the source. *)
QueueRequest(s) ==
    /\ installed
    /\ lastRequest[s] = Interval
    /\ pendingTimer[s] = NoTimer
    /\ s \notin identified
    /\ pendingTimer' = [pendingTimer EXCEPT ![s] = Delay]
    /\ asking' = {}
    /\ UNCHANGED <<installed, identified, lastRequest, half, gap>>

(* The timer fires: the first frame of refresh(s), which may reject. *)
Ask(s) ==
    /\ pendingTimer[s] = 0
    /\ s \notin identified
    /\ pendingTimer' = [pendingTimer EXCEPT ![s] = NoTimer]
    /\ lastRequest' = [lastRequest EXCEPT ![s] = 0]
    /\ gap' = [gap EXCEPT ![s] = 0]
    /\ asking' = {s}
    /\ half' \in {half \cup {s}, half}
    /\ UNCHANGED <<installed, identified>>

(* The timer fires and the source has told its model meanwhile. *)
NoNeed(s) ==
    /\ pendingTimer[s] = 0
    /\ s \in identified
    /\ pendingTimer' = [pendingTimer EXCEPT ![s] = NoTimer]
    /\ asking' = {}
    /\ UNCHANGED <<installed, identified, lastRequest, half, gap>>

(* refresh after its first await: this.txer is read again, and may be null *)
(* by now; the caller of refresh catches that.                             *)
SecondFrame(s) ==
    /\ s \in half
    /\ half' = half \ {s}
    /\ asking' = {}
    /\ UNCHANGED <<installed, identified, pendingTimer, lastRequest, gap>>

(* observe: product information arrives, asked for or not. *)
Observe(s) ==
    /\ s \notin identified
    /\ identified' = identified \cup {s}
    /\ asking' = {}
    /\ UNCHANGED <<installed, pendingTimer, lastRequest, half, gap>>

DiscoveryTick ==
    /\ \A s \in Sources : pendingTimer[s] # 0
    /\ pendingTimer' = [s \in Sources |-> IF pendingTimer[s] = NoTimer THEN NoTimer ELSE pendingTimer[s] - 1]
    /\ lastRequest' = [s \in Sources |-> IF lastRequest[s] = Interval THEN Interval ELSE lastRequest[s] + 1]
    /\ gap' = [s \in Sources |-> IF gap[s] = Interval THEN Interval ELSE gap[s] + 1]
    /\ asking' = {}
    /\ UNCHANGED <<installed, identified, half>>

DiscoveryNext ==
    \/ InstallDiscovery \/ UninstallDiscovery \/ DiscoveryTick
    \/ \E s \in Sources : QueueRequest(s) \/ Ask(s) \/ NoNeed(s) \/ SecondFrame(s) \/ Observe(s)

DiscoverySpec == DiscoveryInit /\ [][DiscoveryNext]_discoveryVars

---------------------------------------------------------------------------------
(* No source is asked twice within the interval, nor after it told its     *)
(* model, whenever that came, nor once the discovery was torn down         *)
(* (device-discovery.ts:13, 53, 75).                                       *)
AsksAreDue ==
    [][\A s \in asking' : s \in asking \/ (installed /\ gap[s] = Interval /\ s \notin identified)]_discoveryVars
=================================================================================
