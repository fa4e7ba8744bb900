--------------------------------- MODULE Replay ---------------------------------
(***************************************************************************)
(* A recorded session on the bus: ReplayDriver                             *)
(* (packages/bridge/src/persistence/replay-driver.ts), put on a hub by     *)
(* runBridge, which calls its start().  Every call of start() begins a     *)
(* loop of its own over the file.  The session is the list of the recorded *)
(* offsets, in ticks, of its frames.                                       *)
(***************************************************************************)
EXTENDS Naturals, Sequences

CONSTANTS
    Offsets,    \* the offset of each frame from the first one
    Realtime,   \* opts.mode = 'realtime'
    Starts,     \* how many times start() is called
    MaxClock    \* bound on the clock

ASSUME OffsetsAssumption == Offsets \in Seq(Nat) /\ Len(Offsets) > 0
ASSUME RealtimeAssumption == Realtime \in BOOLEAN
ASSUME StartsAssumption == Starts \in Nat \ {0}
ASSUME MaxClockAssumption == MaxClock \in Nat

VARIABLES
    clock,        \* Date.now()
    loop,         \* what each run() is doing
    line,         \* the frame each run() reads or holds
    began,        \* wallStart of each run()
    due,          \* when the timer of each run() fires
    aborted,      \* stop() was called
    subscribed,   \* the hub's pipelines are subscribed to the driver
    bus           \* the frames published

replayVars == <<clock, loop, line, began, due, aborted, subscribed, bus>>

Loops == 1 .. Starts
Recorded == 1 .. Len(Offsets)

ReplayTypeOK ==
    /\ clock \in 0 .. MaxClock
    /\ loop \in [Loops -> {"off", "reading", "waiting", "done"}]
    /\ line \in [Loops -> 1 .. Len(Offsets) + 1]
    /\ began \in [Loops -> 0 .. MaxClock]
    /\ due \in [Loops -> Nat]
    /\ aborted \in BOOLEAN
    /\ subscribed \in BOOLEAN
    /\ bus \in Seq(Recorded)

ReplayInit ==
    /\ clock = 0
    /\ loop = [l \in Loops |-> "off"]
    /\ line = [l \in Loops |-> 1]
    /\ began = [l \in Loops |-> 0]
    /\ due = [l \in Loops |-> 0]
    /\ aborted = FALSE
    /\ subscribed = FALSE
    /\ bus = <<>>

---------------------------------------------------------------------------------
(* start(): the first call is addDriver's, which subscribes the pipelines  *)
(* before any line can have been read; a second one follows it.            *)
StartLoop(l) ==
    /\ loop[l] = "off"
    /\ \A k \in 1 .. l - 1 : loop[k] # "off"
    /\ ~aborted
    /\ loop' = [loop EXCEPT ![l] = "reading"]
    /\ began' = [began EXCEPT ![l] = clock]
    /\ subscribed' = TRUE
    /\ UNCHANGED <<clock, line, due, aborted, bus>>

(* The subject reaches the bus through the hub's subscriptions. *)
Publish(frame) ==
    bus' = IF subscribed THEN Append(bus, frame) ELSE bus

Due(l) == began[l] + Offsets[line[l]] - Offsets[1]

Emit(l) ==
    /\ Publish(line[l])
    /\ line' = [line EXCEPT ![l] = @ + 1]
    /\ loop' = [loop EXCEPT ![l] = "reading"]

CanRead(l) ==
    /\ loop[l] = "reading"
    /\ ~aborted
    /\ line[l] \in Recorded

(* The next line: published at once when unpaced or late... *)
Read(l) ==
    /\ CanRead(l)
    /\ Realtime => Due(l) <= clock
    /\ Emit(l)
    /\ UNCHANGED <<clock, began, due, aborted, subscribed>>

(* ...or held until its time. *)
Sleep(l) ==
    /\ CanRead(l)
    /\ Realtime
    /\ Due(l) > clock
    /\ loop' = [loop EXCEPT ![l] = "waiting"]
    /\ due' = [due EXCEPT ![l] = Due(l)]
    /\ UNCHANGED <<clock, line, began, aborted, subscribed, bus>>

(* Mutant: a frame whose timer fires late is skipped. *)
WakeSkipsLate(l) ==
    /\ loop[l] = "waiting"
    /\ due[l] <= clock
    /\ IF due[l] < clock
       THEN /\ line' = [line EXCEPT ![l] = @ + 1]
            /\ loop' = [loop EXCEPT ![l] = "reading"]
            /\ UNCHANGED bus
       ELSE Emit(l)
    /\ UNCHANGED <<clock, began, due, aborted, subscribed>>

(* The timer fires: the frame is emitted without a look at `aborted'. *)
Wake(l) ==
    /\ loop[l] = "waiting"
    /\ due[l] <= clock
    /\ Emit(l)
    /\ UNCHANGED <<clock, began, due, aborted, subscribed>>

Finish(l) ==
    /\ loop[l] = "reading"
    /\ aborted \/ line[l] \notin Recorded
    /\ loop' = [loop EXCEPT ![l] = "done"]
    /\ UNCHANGED <<clock, line, began, due, aborted, subscribed, bus>>

(* stopReplay: stop() and then the bridge's teardown, in the same tick. *)
StopReplay ==
    /\ \A l \in Loops : loop[l] # "off"
    /\ ~aborted
    /\ aborted' = TRUE
    /\ subscribed' = FALSE
    /\ UNCHANGED <<clock, loop, line, began, due, bus>>

(* Time passes; before the first start() it does not matter. *)
ReplayTick ==
    /\ \E l \in Loops : loop[l] # "off"
    /\ clock < MaxClock
    /\ clock' = clock + 1
    /\ UNCHANGED <<loop, line, began, due, aborted, subscribed, bus>>

ReplayNext ==
    \/ \E l \in Loops : StartLoop(l) \/ Read(l) \/ Sleep(l) \/ Wake(l) \/ Finish(l)
    \/ StopReplay
    \/ ReplayTick

ReplayFairness ==
    /\ \A l \in Loops : WF_replayVars(StartLoop(l)) /\ WF_replayVars(Read(l) \/ Sleep(l) \/ Wake(l))
    /\ WF_replayVars(ReplayTick)

ReplaySpec == ReplayInit /\ [][ReplayNext]_replayVars /\ ReplayFairness

---------------------------------------------------------------------------------
(* A replay that was started and nobody stops publishes the whole session, *)
(* in recorded order and each frame once, also those stamped before their  *)
(* predecessor and those whose timer is late (replay-driver.ts:105-110;    *)
(* MaxClock is beyond the last offset).                                    *)
WholeSession == (loop[1] # "off") ~> (aborted \/ bus = [i \in Recorded |-> i])

(* Refuted with two starts.  Each recorded frame is published once (the    *)
(* round-trip test of the replay driver, lines 91 and 98).                 *)
EachFrameOnce ==
    \A i, j \in 1 .. Len(bus) : bus[i] = bus[j] => i = j
=================================================================================
