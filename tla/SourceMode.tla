------------------------------- MODULE SourceMode -------------------------------
(***************************************************************************)
(* The source-mode controller (apps/g5000/src/source-mode-controller.ts):  *)
(* which source feeds the bus, the live drivers, the demo injector or a    *)
(* recorded session.                                                       *)
(*                                                                         *)
(* Its three operations are async functions reached from HTTP handlers.    *)
(* Between two awaits the code runs alone; at an await anything else may   *)
(* run.  An action here is what runs from one await to the next, and a     *)
(* caller's program counter names the await it is suspended at.            *)
(*                                                                         *)
(* A source is a slot that is "off" or runs as one of the three kinds; the *)
(* closures the code keeps (handles and teardowns) are the slots they act  *)
(* on.  Init is the state after the boot call of index.ts, which is        *)
(* awaited before the web server accepts a request.                        *)
(***************************************************************************)
EXTENDS Sequences, SourceKinds

CONSTANTS
    Callers,     \* HTTP requests that can be in flight at once
    Slots,       \* sources that can be open at once (bounds the leaks a run can show)
    None,        \* no slot: null in the code
    Usages       \* the ways the controller may be used

AllOps == {"setLiveOrDemo", "startReplay", "stopReplay"}
AllFaults == {"teardown", "factory", "halfOpen", "replayTeardown"}

ASSUME NoneAssumption == None \notin Slots

(* Which operations are issued, by how many callers, whether each waits for  *)
(* the answer of the one before, and which awaited steps may reject.         *)
ASSUME UsagesAssumption ==
    Usages \subseteq [ops : SUBSET AllOps, callers : SUBSET Callers, inTurn : BOOLEAN,
                      faulty : SUBSET AllFaults]

VARIABLES
    baseMode,              \* let baseMode
    status,                \* let status: its mode, and whether it has an errorMessage
    baseHandle,            \* let baseHandle
    stashedRestart,        \* the factory prev.restart names, or "none"
    activeReplayTeardown,  \* let activeReplayTeardown
    setLiveOrDemoQueue,    \* callers chained on the promise queue; its head runs
    pc,                    \* the await each caller is suspended at
    mode,                  \* the mode argument of each setLiveOrDemo call
    src,                   \* the slot captured by each caller (prev, driver, t)
    runs,                  \* what each slot runs
    usage                  \* chosen at first

controller == <<baseMode, status, baseHandle, stashedRestart, activeReplayTeardown>>
vars == <<controller, setLiveOrDemoQueue, pc, mode, src, runs, usage>>

Tearing == {"setTeardown", "startTeardown", "stopTeardown"}
Opening == {"setFactory", "startBridge", "stopRestart"}
Setting == {"setTeardown", "setFactory"}
Awaits == {"idle", "queued"} \cup Tearing \cup Opening

Status(m, e) == [mode |-> m, error |-> e]

TypeOK ==
    /\ baseMode \in Base
    /\ status \in [mode : Kinds, error : BOOLEAN]
    /\ baseHandle \in Slots \cup {None}
    /\ stashedRestart \in Base \cup {"none"}
    /\ activeReplayTeardown \in Slots \cup {None}
    /\ setLiveOrDemoQueue \in Seq(Callers)
    /\ pc \in [Callers -> Awaits]
    /\ mode \in [Callers -> Base]
    /\ src \in [Callers -> Slots \cup {None}]
    /\ runs \in [Slots -> Kinds \cup {"off"}]
    /\ usage \in Usages

(* After boot: the requested base runs, or its factory rejected. *)
Init ==
    /\ usage \in Usages
    /\ baseMode \in Base
    /\ \E s \in Slots :
         \/ /\ baseHandle = s
            /\ status = Status(baseMode, FALSE)
            /\ runs = [x \in Slots |-> IF x = s THEN baseMode ELSE "off"]
         \/ /\ "factory" \in usage.faulty
            /\ baseHandle = None
            /\ status = Status(baseMode, TRUE)
            /\ runs = [x \in Slots |-> "off"]
    /\ stashedRestart = "none"
    /\ activeReplayTeardown = None
    /\ setLiveOrDemoQueue = <<>>
    /\ pc = [c \in Callers |-> "idle"]
    /\ mode = [c \in Callers |-> "live"]
    /\ src = [c \in Callers |-> None]

---------------------------------------------------------------------------------
(* Steps the operations share. *)

CanCall(c, op) ==
    /\ op \in usage.ops
    /\ c \in usage.callers
    /\ pc[c] = "idle"
    /\ usage.inTurn => \A d \in Callers : pc[d] = "idle"

Goto(c, await) == pc' = [pc EXCEPT ![c] = await]
Capture(c, slot) == src' = [src EXCEPT ![c] = slot]

(* What a settled teardown leaves of the slot: a rejected one may leave it running. *)
AfterTeardown(slot, fault) ==
    {"off"} \cup (IF fault \in usage.faulty THEN {runs[slot]} ELSE {})

(* A factory that rejects may have opened drivers it does not close again. *)
AfterFailedFactory(slot) ==
    {"off"} \cup (IF "halfOpen" \in usage.faulty THEN {runs[slot]} ELSE {})

(* Caller c opens a new source of the given kind and awaits it; released is  *)
(* the slot whose teardown has just settled, left as "left" (None: no slot). *)
Open(c, kind, await, released, left) ==
    \E s \in Slots :
        /\ runs[s] = "off"
        /\ runs' = [x \in Slots |-> IF x = s THEN kind
                                    ELSE IF x = released THEN left ELSE runs[x]]
        /\ Capture(c, s)
        /\ Goto(c, await)

---------------------------------------------------------------------------------
(* setLiveOrDemo: calls run one after the other, in the order they came. *)

SetLiveOrDemo(c) ==
    /\ CanCall(c, "setLiveOrDemo")
    /\ \E m \in Base : mode' = [mode EXCEPT ![c] = m]
    /\ setLiveOrDemoQueue' = Append(setLiveOrDemoQueue, c)
    /\ Goto(c, "queued")
    /\ UNCHANGED <<controller, src, runs>>

(* Mutant: the queue does not hold a call back. *)
TurnUnserialised(c) == pc[c] = "queued"

Turn(c) ==
    /\ pc[c] = "queued"
    /\ setLiveOrDemoQueue # <<>>
    /\ Head(setLiveOrDemoQueue) = c

(* Mutant: any running base will do. *)
AlreadyThereAnyMode(m) == baseHandle # None

(* The target mode already runs without an error to clear. *)
AlreadyThere(m) ==
    /\ baseMode = m
    /\ status = Status(m, FALSE)
    /\ baseHandle # None

Refused(c) == status.mode = "replay" \/ AlreadyThere(mode[c])

SetAnswer(c) ==
    /\ setLiveOrDemoQueue' = Tail(setLiveOrDemoQueue)
    /\ Goto(c, "idle")
    /\ Capture(c, None)
    /\ UNCHANGED <<stashedRestart, activeReplayTeardown, mode>>

(* Mutant: a refused call poisons the queue. *)
SetRefusedPoisons(c) ==
    /\ Turn(c)
    /\ Refused(c)
    /\ Goto(c, "idle")
    /\ UNCHANGED <<controller, setLiveOrDemoQueue, mode, src, runs>>

(* Rejected while replay is active, or nothing to do. *)
SetRefused(c) ==
    /\ Turn(c)
    /\ Refused(c)
    /\ SetAnswer(c)
    /\ UNCHANGED <<baseMode, status, baseHandle, runs>>

(* Mutant: the handle is kept while its teardown is awaited. *)
SetTeardownKeepsHandle(c) ==
    /\ Turn(c)
    /\ ~Refused(c)
    /\ baseHandle # None
    /\ Capture(c, baseHandle)
    /\ Goto(c, "setTeardown")
    /\ UNCHANGED <<controller, setLiveOrDemoQueue, mode, runs>>

SetTeardown(c) ==
    /\ Turn(c)
    /\ ~Refused(c)
    /\ baseHandle # None
    /\ baseHandle' = None
    /\ Capture(c, baseHandle)
    /\ Goto(c, "setTeardown")
    /\ UNCHANGED <<baseMode, status, stashedRestart, activeReplayTeardown,
                   setLiveOrDemoQueue, mode, runs>>

SetOpen(c) ==
    /\ Turn(c)
    /\ ~Refused(c)
    /\ baseHandle = None
    /\ baseMode' = mode[c]
    /\ Open(c, mode[c], "setFactory", None, "off")
    /\ UNCHANGED <<status, baseHandle, stashedRestart, activeReplayTeardown,
                   setLiveOrDemoQueue, mode>>

(* The teardown settled; a rejection is logged and the swap goes on. *)
SetTornDown(c) ==
    /\ pc[c] = "setTeardown"
    /\ baseMode' = mode[c]
    /\ \E left \in AfterTeardown(src[c], "teardown") :
         Open(c, mode[c], "setFactory", src[c], left)
    /\ UNCHANGED <<status, baseHandle, stashedRestart, activeReplayTeardown,
                   setLiveOrDemoQueue, mode>>

SetOpened(c) ==
    /\ pc[c] = "setFactory"
    /\ baseHandle' = src[c]
    /\ status' = Status(mode[c], FALSE)
    /\ SetAnswer(c)
    /\ UNCHANGED <<baseMode, runs>>

(* Mutant: a failed factory leaves no error message. *)
SetFailedSilently(c) ==
    /\ pc[c] = "setFactory"
    /\ "factory" \in usage.faulty
    /\ runs' = [runs EXCEPT ![src[c]] = "off"]
    /\ status' = Status(mode[c], FALSE)
    /\ SetAnswer(c)
    /\ UNCHANGED <<baseMode, baseHandle>>

SetFailed(c) ==
    /\ pc[c] = "setFactory"
    /\ "factory" \in usage.faulty
    /\ \E left \in AfterFailedFactory(src[c]) : runs' = [runs EXCEPT ![src[c]] = left]
    /\ status' = Status(mode[c], TRUE)
    /\ SetAnswer(c)
    /\ UNCHANGED <<baseMode, baseHandle>>

---------------------------------------------------------------------------------
(* startReplay.  A refused call (a replay runs, or the session file is      *)
(* missing) leaves no trace and is no step.                                 *)

MayStart(c) ==
    /\ CanCall(c, "startReplay")
    /\ status.mode # "replay"

(* Mutant: the base that is restarted is always the demo's. *)
StartTeardownRestartsDemo(c) ==
    /\ MayStart(c)
    /\ baseHandle # None
    /\ baseHandle' = None
    /\ stashedRestart' = "demo"
    /\ Capture(c, baseHandle)
    /\ Goto(c, "startTeardown")
    /\ UNCHANGED <<baseMode, status, activeReplayTeardown, setLiveOrDemoQueue, mode, runs>>

StartTeardown(c) ==
    /\ MayStart(c)
    /\ baseHandle # None
    /\ baseHandle' = None
    /\ stashedRestart' = runs[baseHandle]
    /\ Capture(c, baseHandle)
    /\ Goto(c, "startTeardown")
    /\ UNCHANGED <<baseMode, status, activeReplayTeardown, setLiveOrDemoQueue, mode, runs>>

StartBridge(c) ==
    /\ MayStart(c)
    /\ baseHandle = None
    /\ stashedRestart' = "none"
    /\ Open(c, "replay", "startBridge", None, "off")
    /\ UNCHANGED <<baseMode, status, baseHandle, activeReplayTeardown,
                   setLiveOrDemoQueue, mode>>

StartTornDown(c) ==
    /\ pc[c] = "startTeardown"
    /\ Open(c, "replay", "startBridge", src[c], "off")
    /\ UNCHANGED <<controller, setLiveOrDemoQueue, mode>>

(* The base's teardown rejects: so does startReplay, with nothing restored. *)
StartTeardownFailed(c) ==
    /\ pc[c] = "startTeardown"
    /\ "teardown" \in usage.faulty
    /\ \E left \in AfterTeardown(src[c], "teardown") :
         runs' = [runs EXCEPT ![src[c]] = left]
    /\ Goto(c, "idle")
    /\ Capture(c, None)
    /\ UNCHANGED <<controller, setLiveOrDemoQueue, mode>>

Started(c) ==
    /\ pc[c] = "startBridge"
    /\ activeReplayTeardown' = src[c]
    /\ status' = Status("replay", FALSE)
    /\ Goto(c, "idle")
    /\ Capture(c, None)
    /\ UNCHANGED <<baseMode, baseHandle, stashedRestart, setLiveOrDemoQueue, mode, runs>>

---------------------------------------------------------------------------------
(* stopReplay: end the replay, then re-arm the stashed base if there is one. *)

StopTeardown(c) ==
    /\ CanCall(c, "stopReplay")
    /\ activeReplayTeardown # None
    /\ activeReplayTeardown' = None
    /\ Capture(c, activeReplayTeardown)
    /\ Goto(c, "stopTeardown")
    /\ UNCHANGED <<baseMode, status, baseHandle, stashedRestart, setLiveOrDemoQueue,
                   mode, runs>>

StopRestart(c) ==
    /\ CanCall(c, "stopReplay")
    /\ activeReplayTeardown = None
    /\ stashedRestart # "none"
    /\ Open(c, stashedRestart, "stopRestart", None, "off")
    /\ UNCHANGED <<controller, setLiveOrDemoQueue, mode>>

(* Nothing to stop, nothing to re-arm: the call only resets the status. *)
StopNothing(c) ==
    /\ CanCall(c, "stopReplay")
    /\ activeReplayTeardown = None
    /\ stashedRestart = "none"
    /\ status' = Status(baseMode, FALSE)
    /\ UNCHANGED <<baseMode, baseHandle, stashedRestart, activeReplayTeardown,
                   setLiveOrDemoQueue, pc, mode, src, runs>>

StopTornDown(c) ==
    /\ pc[c] = "stopTeardown"
    /\ stashedRestart # "none"
    /\ Open(c, stashedRestart, "stopRestart", src[c], "off")
    /\ UNCHANGED <<controller, setLiveOrDemoQueue, mode>>

StopAnswer(c, failed) ==
    /\ status' = Status(baseMode, failed)
    /\ Goto(c, "idle")
    /\ Capture(c, None)
    /\ UNCHANGED <<baseMode, activeReplayTeardown, setLiveOrDemoQueue, mode>>

StopTornDownNoBase(c) ==
    /\ pc[c] = "stopTeardown"
    /\ stashedRestart = "none"
    /\ runs' = [runs EXCEPT ![src[c]] = "off"]
    /\ StopAnswer(c, FALSE)
    /\ UNCHANGED <<baseHandle, stashedRestart>>

StopTeardownFailed(c) ==
    /\ pc[c] = "stopTeardown"
    /\ "replayTeardown" \in usage.faulty
    /\ \E left \in AfterTeardown(src[c], "replayTeardown") :
         runs' = [runs EXCEPT ![src[c]] = left]
    /\ StopAnswer(c, TRUE)
    /\ UNCHANGED <<baseHandle, stashedRestart>>

StopRestarted(c) ==
    /\ pc[c] = "stopRestart"
    /\ baseHandle' = src[c]
    /\ stashedRestart' = "none"
    /\ StopAnswer(c, FALSE)
    /\ UNCHANGED runs

StopRestartFailed(c) ==
    /\ pc[c] = "stopRestart"
    /\ "factory" \in usage.faulty
    /\ \E left \in AfterFailedFactory(src[c]) : runs' = [runs EXCEPT ![src[c]] = left]
    /\ stashedRestart' = "none"
    /\ StopAnswer(c, TRUE)
    /\ UNCHANGED baseHandle

---------------------------------------------------------------------------------
Call(c) ==
    /\ \/ SetLiveOrDemo(c)
       \/ StartTeardown(c) \/ StartBridge(c)
       \/ StopTeardown(c) \/ StopRestart(c) \/ StopNothing(c)
    /\ UNCHANGED usage

(* A caller's operation goes on: its turn came, or what it awaited settled. *)
Resume(c) ==
    /\ \/ SetRefused(c) \/ SetTeardown(c) \/ SetOpen(c) \/ SetTornDown(c)
       \/ SetOpened(c) \/ SetFailed(c)
       \/ StartTornDown(c) \/ StartTeardownFailed(c) \/ Started(c)
       \/ StopTornDown(c) \/ StopTornDownNoBase(c) \/ StopTeardownFailed(c)
       \/ StopRestarted(c) \/ StopRestartFailed(c)
    /\ UNCHANGED usage

Next == \E c \in Callers : Call(c) \/ Resume(c)

Spec == Init /\ [][Next]_vars

(* Everything awaited settles, and the event loop then runs the continuation. *)
FairSpec == Spec /\ \A c \in Callers : WF_vars(Resume(c))

---------------------------------------------------------------------------------
(* Properties. *)

Idle == \A c \in Callers : pc[c] = "idle"

(* A source is never torn down twice: whoever tears a slot down is the only  *)
(* one to hold it, in the controller or in flight, and the slot still runs.  *)
(* (Handles are nulled before the await: baseHandle = null, lines 48-51 and  *)
(* 108-111, activeReplayTeardown = null, line 134.)                          *)
NoDoubleTeardown ==
    \A c \in Callers : pc[c] \in Tearing =>
        /\ src[c] # None
        /\ runs[src[c]] # "off"
        /\ src[c] \notin {baseHandle, activeReplayTeardown}
        /\ \A d \in Callers \ {c} : src[d] # src[c]

(* The two ways of using the controller that keep the bus to one source:     *)
(* swaps alone, however many overlap, and all the operations one at a time.  *)
SwapsOnly == usage.ops = {"setLiveOrDemo"} /\ usage.faulty \subseteq {"factory"}
InTurn == usage.inTurn /\ usage.faulty = {}

(* The bus never has two sources.  (The comment on setLiveOrDemoQueue, lines *)
(* 29-32, and the design: "replay is mutually exclusive with live and demo".)*)
Exclusive ==
    SwapsOnly \/ InTurn =>
        \A s, t \in Slots : runs[s] # "off" /\ runs[t] # "off" => s = t

(* Refuted when startReplay or stopReplay overlap anything: with every       *)
(* request answered, the bus has at most one source.  ("Replay drives the    *)
(* bus and the live NGT-1 simultaneously, doubling values" is mitigated by   *)
(* "make mode exclusive".)                                                   *)
ModesExclusive ==
    Idle => \A s, t \in Slots : runs[s] # "off" /\ runs[t] # "off" => s = t

(* What getStatus reports at rest is what runs: without an error message the *)
(* source of the reported mode, with one nothing.                            *)
StatusTruthful ==
    (SwapsOnly \/ InTurn) /\ Idle =>
      /\ ~status.error => \E s \in Slots : runs[s] = status.mode
      /\ status.error => \A s \in Slots : runs[s] = "off"

(* The last request wins: once the queue has drained, the mode is the one    *)
(* the caller that was last in the queue asked for, whatever came before it. *)
LastRequestWins ==
    [][SwapsOnly /\ setLiveOrDemoQueue # <<>> /\ setLiveOrDemoQueue' = <<>> =>
          /\ status'.mode = mode[Head(setLiveOrDemoQueue)]
          /\ \A s \in Slots : runs'[s] \in {"off", status'.mode}]_vars

(* Used in turn and without faults the controller implements the switch of   *)
(* SourceSwitch, the slot that runs being the source that is on.  (Used any  *)
(* other way it is not held to it: the mapping then stands still.)           *)
Active == runs[CHOOSE s \in Slots : runs[s] # "off"]

Switch == INSTANCE SourceSwitch WITH
    active <- IF InTurn THEN Active ELSE "live",
    shown <- IF InTurn THEN status.mode ELSE "live",
    home <- IF InTurn THEN baseMode ELSE "live"

ImplementsSwitch == Switch!Spec

(* Every request is answered.  (Stated of the two disciplined usages, in     *)
(* which a slot is free for every source that opens.)                        *)
EveryCallAnswered ==
    \A c \in Callers :
        (SwapsOnly \/ InTurn) /\ pc[c] # "idle" ~> pc[c] = "idle"
=================================================================================
