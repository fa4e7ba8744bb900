---------------------------- MODULE SourceModeProofs ----------------------------
(***************************************************************************)
(* Proofs about SourceMode, for any callers, slots and usages.             *)
(***************************************************************************)
EXTENDS SourceMode, Integers, TLAPS

(* Whoever refers to a slot is the only one to, and the slot runs: the       *)
(* baseHandle a base, activeReplayTeardown a replay, and each call in flight *)
(* the slot it is tearing down or opening.                                   *)
InFlight == Tearing \cup Opening

HandlesRun ==
    /\ baseHandle # None => runs[baseHandle] \in Base
    /\ activeReplayTeardown # None => runs[activeReplayTeardown] = "replay"
    /\ \A c \in Callers : src[c] # None => runs[src[c]] # "off"

HeldOnce ==
    /\ baseHandle # None => baseHandle # activeReplayTeardown
    /\ \A c \in Callers : src[c] # None => src[c] \notin {baseHandle, activeReplayTeardown}
    /\ \A c, d \in Callers : c # d /\ src[c] # None => src[c] # src[d]

InFlightHolds ==
    \A c \in Callers :
        /\ pc[c] \in InFlight <=> src[c] # None
        /\ pc[c] \in {"setFactory", "stopRestart"} => runs[src[c]] \in Base
        /\ pc[c] = "startBridge" => runs[src[c]] = "replay"

(* Only the head of the queue is past its turn. *)
QueueHeadRuns ==
    \A c \in Callers : pc[c] \in Setting =>
        setLiveOrDemoQueue # <<>> /\ Head(setLiveOrDemoQueue) = c

Inv == TypeOK /\ HandlesRun /\ HeldOnce /\ InFlightHolds /\ QueueHeadRuns

LEMMA InitInv == Init => Inv
<1> USE NoneAssumption DEF Base, Kinds, Awaits, InFlight, Tearing, Opening
<1> SUFFICES ASSUME Init PROVE Inv
  OBVIOUS
<1>1. TypeOK
  <2>1. PICK s \in Slots :
           \/ /\ baseHandle = s
              /\ status = Status(baseMode, FALSE)
              /\ runs = [x \in Slots |-> IF x = s THEN baseMode ELSE "off"]
           \/ /\ baseHandle = None
              /\ status = Status(baseMode, TRUE)
              /\ runs = [x \in Slots |-> "off"]
    BY DEF Init
  <2>2. /\ baseHandle \in Slots \cup {None}
        /\ runs \in [Slots -> Kinds \cup {"off"}]
    BY <2>1 DEF Init
  <2>5. status \in [mode : Kinds, error : BOOLEAN]
    <3>1. baseMode \in Kinds
      BY DEF Init
    <3>2. \E e \in BOOLEAN : status = Status(baseMode, e)
      BY <2>1, Zenon
    <3> QED
      BY <3>1, <3>2 DEF Status
  <2>3. /\ baseMode \in Base
        /\ stashedRestart \in Base \cup {"none"}
        /\ activeReplayTeardown \in Slots \cup {None}
        /\ setLiveOrDemoQueue \in Seq(Callers)
        /\ usage \in Usages
    BY DEF Init
  <2>4. /\ pc \in [Callers -> Awaits]
        /\ mode \in [Callers -> Base]
        /\ src \in [Callers -> Slots \cup {None}]
    BY DEF Init
  <2> QED
    BY <2>2, <2>3, <2>4, <2>5 DEF TypeOK
<1>2. HandlesRun /\ HeldOnce /\ InFlightHolds /\ QueueHeadRuns
  BY DEF Init, HandlesRun, HeldOnce, InFlightHolds, QueueHeadRuns, Setting, Status
<1> QED
  BY <1>1, <1>2 DEF Inv

USE DEF Status, Base, Kinds, Awaits, InFlight, Tearing, Opening, Goto, Capture, CanCall,
        MayStart, Turn, SetAnswer, StopAnswer, AfterTeardown,
        AfterFailedFactory, controller

(* Opening a slot that is off, after releasing at most the slot the caller   *)
(* holds, keeps the invariant.                                               *)
LEMMA CallInv ==
    ASSUME Inv, NEW c \in Callers, Call(c)
    PROVE  Inv'
<1> USE NoneAssumption DEF Inv, TypeOK, HandlesRun, HeldOnce, InFlightHolds, QueueHeadRuns, Setting
<1>0. usage' = usage
  BY DEF Call
<1>1. CASE SetLiveOrDemo(c)
  BY <1>0, <1>1 DEF SetLiveOrDemo
<1>2. CASE StartTeardown(c)
  BY <1>0, <1>2 DEF StartTeardown
<1>3. CASE StartBridge(c)
  BY <1>0, <1>3 DEF StartBridge, Open
<1>4. CASE StopTeardown(c)
  BY <1>0, <1>4 DEF StopTeardown
<1>5. CASE StopRestart(c)
  BY <1>0, <1>5 DEF StopRestart, Open
<1>6. CASE StopNothing(c)
  BY <1>0, <1>6 DEF StopNothing
<1> QED
  BY <1>1, <1>2, <1>3, <1>4, <1>5, <1>6 DEF Call

LEMMA ResumeInv ==
    ASSUME Inv, NEW c \in Callers, Resume(c)
    PROVE  Inv'
<1> USE NoneAssumption DEF Inv, TypeOK, HandlesRun, HeldOnce, InFlightHolds, QueueHeadRuns, Setting
<1>0. usage' = usage
  BY DEF Resume
<1>1. CASE SetRefused(c)
  BY <1>0, <1>1 DEF SetRefused
<1>2. CASE SetTeardown(c)
  BY <1>0, <1>2 DEF SetTeardown
<1>3. CASE SetOpen(c)
  BY <1>0, <1>3 DEF SetOpen, Open
<1>4. CASE SetTornDown(c)
  BY <1>0, <1>4 DEF SetTornDown, Open
<1>5. CASE SetOpened(c)
  BY <1>0, <1>5 DEF SetOpened
<1>6. CASE SetFailed(c)
  BY <1>0, <1>6 DEF SetFailed
<1>7. CASE StartTornDown(c)
  BY <1>0, <1>7 DEF StartTornDown, Open
<1>8. CASE StartTeardownFailed(c)
  BY <1>0, <1>8 DEF StartTeardownFailed
<1>9. CASE Started(c)
  BY <1>0, <1>9 DEF Started
<1>10. CASE StopTornDown(c)
  BY <1>0, <1>10 DEF StopTornDown, Open
<1>11. CASE StopTornDownNoBase(c)
  BY <1>0, <1>11 DEF StopTornDownNoBase
<1>12. CASE StopTeardownFailed(c)
  BY <1>0, <1>12 DEF StopTeardownFailed
<1>13. CASE StopRestarted(c)
  BY <1>0, <1>13 DEF StopRestarted
<1>14. CASE StopRestartFailed(c)
  BY <1>0, <1>14 DEF StopRestartFailed
<1> QED
  BY <1>1, <1>2, <1>3, <1>4, <1>5, <1>6, <1>7, <1>8, <1>9, <1>10, <1>11, <1>12,
     <1>13, <1>14 DEF Resume

LEMMA StepInv == Inv /\ [Next]_vars => Inv'
<1> SUFFICES ASSUME Inv, [Next]_vars PROVE Inv'
  OBVIOUS
<1>1. CASE Next
  BY <1>1, CallInv, ResumeInv DEF Next
<1>2. CASE UNCHANGED vars
  BY <1>2 DEF vars, Inv, TypeOK, HandlesRun, HeldOnce, InFlightHolds, QueueHeadRuns, Setting
<1> QED
  BY <1>1, <1>2

LEMMA Invariance == Spec => []Inv
  BY InitInv, StepInv, PTL DEF Spec

(* Type correctness, whatever operations overlap and whatever rejects. *)
THEOREM TypeCorrect == Spec => []TypeOK
  BY Invariance, PTL DEF Inv

(* No interleaving of the three operations tears a source down twice, or     *)
(* lets a second operation reach a source that is being torn down.           *)
THEOREM TornDownOnce == Spec => []NoDoubleTeardown
<1>1. Inv => NoDoubleTeardown
  BY NoneAssumption DEF Inv, TypeOK, HandlesRun, HeldOnce, InFlightHolds, NoDoubleTeardown
<1> QED
  BY <1>1, Invariance, PTL

---------------------------------------------------------------------------------
(* The promise queue makes setLiveOrDemo exclusive by itself: no replay, and *)
(* factories that clean up behind them when they reject.                     *)

NoReplay ==
    /\ status.mode # "replay"
    /\ \A c \in Callers : pc[c] \in {"idle", "queued"} \cup Setting

(* No source leaks: what runs is the base, or held by the call in flight,    *)
(* while which there is no base.                                             *)
NoLeak ==
    /\ \A s \in Slots : runs[s] # "off" =>
          s = baseHandle \/ \E c \in Callers : pc[c] \in Setting /\ src[c] = s
    /\ \A c \in Callers : pc[c] \in Setting => baseHandle = None

SwapInv == Inv /\ NoReplay /\ NoLeak

LEMMA SwapStep ==
    ASSUME SwapsOnly, SwapInv, [Next]_vars
    PROVE  SwapInv'
<1> USE NoneAssumption DEF Setting
<1>1. Inv'
  BY StepInv DEF SwapInv
<1>2. ASSUME NEW c \in Callers, Call(c)
      PROVE  (NoReplay /\ NoLeak)'
  <2>1. SetLiveOrDemo(c)
    BY <1>2 DEF SwapsOnly, Call, StartTeardown, StartBridge, StopTeardown, StopRestart, StopNothing
  <2> QED
    BY <2>1 DEF SetLiveOrDemo, SwapInv, Inv, TypeOK, NoReplay, NoLeak
<1>3. ASSUME NEW c \in Callers, Resume(c)
      PROVE  (NoReplay /\ NoLeak)'
  <2> USE DEF SwapInv, Inv, TypeOK, HandlesRun, HeldOnce, InFlightHolds, QueueHeadRuns,
              NoReplay, NoLeak, SwapsOnly
  <2>1. CASE SetRefused(c)
    BY <2>1 DEF SetRefused
  <2>2. CASE SetTeardown(c)
    BY <2>2 DEF SetTeardown
  <2>3. CASE SetOpen(c)
    BY <2>3 DEF SetOpen, Open
  <2>4. CASE SetTornDown(c)
    BY <2>4 DEF SetTornDown, Open
  <2>5. CASE SetOpened(c)
    <3>1. NoReplay'
      <4>1. status'.mode = mode[c] /\ mode[c] \in Base
        BY <2>5 DEF SetOpened
      <4>2. pc' = [pc EXCEPT ![c] = "idle"]
        BY <2>5 DEF SetOpened
      <4> QED
        BY <4>1, <4>2
    <3>2. NoLeak'
      <4>1. /\ pc' = [pc EXCEPT ![c] = "idle"]
            /\ baseHandle' = src[c]
            /\ runs' = runs
        BY <2>5 DEF SetOpened
      <4>2. \A d \in Callers : pc[d] \in Setting => d = c
        BY <2>5 DEF SetOpened
      <4>3. \A s \in Slots : runs[s] # "off" => s = src[c]
        BY <2>5, <4>2 DEF SetOpened
      <4> QED
        BY <4>1, <4>2, <4>3
    <3> QED
      BY <3>1, <3>2
  <2>6. CASE SetFailed(c)
    BY <2>6 DEF SetFailed
  <2> QED
    BY <1>3, <2>1, <2>2, <2>3, <2>4, <2>5, <2>6
    DEF Resume, StartTornDown, StartTeardownFailed, Started, StopTornDown,
        StopTornDownNoBase, StopTeardownFailed, StopRestarted, StopRestartFailed
<1>4. ASSUME UNCHANGED vars
      PROVE  (NoReplay /\ NoLeak)'
  BY <1>4 DEF vars, SwapInv, NoReplay, NoLeak
<1> QED
  BY <1>1, <1>2, <1>3, <1>4 DEF SwapInv, Next

LEMMA SwapInvariance == Spec => [](SwapsOnly => SwapInv)
<1> DEFINE Swaps == Inv /\ (SwapsOnly => SwapInv)
<1>1. Init => Swaps
  <2>1. Init => NoReplay /\ NoLeak
    BY NoneAssumption DEF Init, NoReplay, NoLeak, Setting
  <2> QED
    BY <2>1, InitInv DEF SwapInv
<1>2. Swaps /\ [Next]_vars => Swaps'
  <2>1. ASSUME [Next]_vars PROVE SwapsOnly' <=> SwapsOnly
    BY <2>1 DEF Next, Call, Resume, vars, SwapsOnly
  <2> QED
    BY <2>1, StepInv, SwapStep
<1> QED
  BY <1>1, <1>2, PTL DEF Spec

---------------------------------------------------------------------------------
(* All the operations in turn and without faults.  One call is in flight,    *)
(* and then nothing else is held; a replay excludes a base handle; a stashed *)
(* base waits for the replay that runs.                                      *)
OneInFlight ==
    \A c, d \in Callers : pc[c] # "idle" /\ pc[d] # "idle" => c = d

AllHeld ==
    \A s \in Slots : runs[s] # "off" =>
        s \in {baseHandle, activeReplayTeardown} \/ \E c \in Callers : src[c] = s

Alone ==
    /\ baseHandle = None \/ activeReplayTeardown = None
    /\ \A c \in Callers : pc[c] \in InFlight =>
          baseHandle = None /\ activeReplayTeardown = None

StashWaits ==
    /\ activeReplayTeardown # None => status.mode = "replay"
    /\ stashedRestart # "none" =>
          \/ activeReplayTeardown # None
          \/ \E c \in Callers : pc[c] \in InFlight \ Setting

TurnsInv == Inv /\ OneInFlight /\ AllHeld /\ Alone /\ StashWaits

LEMMA TurnsStep ==
    ASSUME InTurn, TurnsInv, [Next]_vars
    PROVE  TurnsInv'
<1> USE NoneAssumption DEF Setting
<1>1. Inv'
  BY StepInv DEF TurnsInv
<1> SUFFICES (OneInFlight /\ AllHeld /\ Alone /\ StashWaits)'
  BY <1>1 DEF TurnsInv
<1> USE DEF TurnsInv, Inv, TypeOK, HandlesRun, HeldOnce, InFlightHolds, OneInFlight, AllHeld,
            Alone, StashWaits, InTurn
<1>2. ASSUME NEW c \in Callers, Call(c)
      PROVE  (OneInFlight /\ AllHeld /\ Alone /\ StashWaits)'
  <2>1. CASE SetLiveOrDemo(c)
    BY <2>1 DEF SetLiveOrDemo
  <2>2. CASE StartTeardown(c)
    BY <2>2 DEF StartTeardown
  <2>3. CASE StartBridge(c)
    BY <2>3 DEF StartBridge, Open
  <2>4. CASE StopTeardown(c)
    BY <2>4 DEF StopTeardown
  <2>5. CASE StopRestart(c)
    BY <2>5 DEF StopRestart, Open
  <2>6. CASE StopNothing(c)
    BY <2>6 DEF StopNothing
  <2> QED
    BY <1>2, <2>1, <2>2, <2>3, <2>4, <2>5, <2>6 DEF Call
<1>3. ASSUME NEW c \in Callers, Resume(c)
      PROVE  (OneInFlight /\ AllHeld /\ Alone /\ StashWaits)'
  <2>1. CASE SetRefused(c)
    BY <2>1 DEF SetRefused
  <2>2. CASE SetTeardown(c)
    BY <2>2 DEF SetTeardown, Refused
  <2>3. CASE SetOpen(c)
    BY <2>3 DEF SetOpen, Open, Refused
  <2>4. CASE SetTornDown(c)
    BY <2>4 DEF SetTornDown, Open
  <2>5. CASE SetOpened(c)
    BY <2>5 DEF SetOpened
  <2>6. CASE StartTornDown(c)
    BY <2>6 DEF StartTornDown, Open
  <2>7. CASE Started(c)
    BY <2>7 DEF Started
  <2>8. CASE StopTornDown(c)
    BY <2>8 DEF StopTornDown, Open
  <2>9. CASE StopTornDownNoBase(c)
    BY <2>9 DEF StopTornDownNoBase
  <2>10. CASE StopRestarted(c)
    BY <2>10 DEF StopRestarted
  <2> QED
    BY <1>3, <2>1, <2>2, <2>3, <2>4, <2>5, <2>6, <2>7, <2>8, <2>9, <2>10
    DEF Resume, SetFailed, StartTeardownFailed, StopTeardownFailed, StopRestartFailed
<1>4. CASE UNCHANGED vars
  BY <1>4 DEF vars
<1> QED
  BY <1>2, <1>3, <1>4 DEF Next

LEMMA TurnsInvariance == Spec => [](InTurn => TurnsInv)
<1> DEFINE Turns == InTurn => TurnsInv
<1>1. Init => Turns
  <2>1. Init /\ InTurn => OneInFlight /\ AllHeld /\ Alone /\ StashWaits
    BY NoneAssumption DEF Init, InTurn, OneInFlight, AllHeld, Alone, StashWaits, Setting
  <2> QED
    BY <2>1, InitInv DEF TurnsInv
<1>2. Turns /\ [Next]_vars => Turns'
  <2>1. ASSUME [Next]_vars PROVE InTurn' <=> InTurn
    BY <2>1 DEF Next, Call, Resume, vars, InTurn
  <2> QED
    BY <2>1, TurnsStep
<1> QED
  BY <1>1, <1>2, PTL DEF Spec

---------------------------------------------------------------------------------
(* The bus never has two sources, however many setLiveOrDemo calls overlap   *)
(* (the claim of the comment on setLiveOrDemoQueue), and however the three   *)
(* operations follow one another.                                            *)
THEOREM SourcesExclusive == Spec => []Exclusive
<1>1. (SwapsOnly => SwapInv) /\ SwapsOnly => Exclusive
  BY NoneAssumption
  DEF SwapInv, Inv, TypeOK, HeldOnce, QueueHeadRuns, NoLeak, Exclusive, Setting
<1>2. (InTurn => TurnsInv) /\ InTurn => Exclusive
  BY NoneAssumption
  DEF TurnsInv, Inv, TypeOK, InFlightHolds, OneInFlight, AllHeld, Alone, Exclusive
<1>3. ~SwapsOnly /\ ~InTurn => Exclusive
  BY DEF Exclusive
<1> QED
  BY <1>1, <1>2, <1>3, SwapInvariance, TurnsInvariance, PTL

---------------------------------------------------------------------------------
(* What the status says of what runs, when swaps overlap: between two        *)
(* swaps a mode without an error has its source running, one with an error   *)
(* has none.                                                                 *)
SwapTruth ==
    /\ \A c \in Callers : pc[c] = "setFactory" => runs[src[c]] = mode[c]
    /\ (\A c \in Callers : pc[c] \notin Setting) =>
          \/ status = Status(status.mode, FALSE) /\ baseHandle # None /\ runs[baseHandle] = status.mode
          \/ status = Status(status.mode, TRUE) /\ baseHandle = None

LEMMA SwapTruthStep ==
    ASSUME SwapsOnly, SwapInv, SwapTruth, [Next]_vars
    PROVE  SwapTruth'
<1> USE NoneAssumption DEF Setting
<1>1. ASSUME NEW c \in Callers, Call(c)
      PROVE  SwapTruth'
  <2>1. SetLiveOrDemo(c)
    BY <1>1 DEF SwapsOnly, Call, StartTeardown, StartBridge, StopTeardown, StopRestart, StopNothing
  <2> QED
    BY <2>1 DEF SetLiveOrDemo, SwapInv, Inv, TypeOK, SwapTruth
<1>2. ASSUME NEW c \in Callers, Resume(c)
      PROVE  SwapTruth'
  <2> USE DEF SwapInv, Inv, TypeOK, HandlesRun, HeldOnce, InFlightHolds, QueueHeadRuns,
              NoReplay, NoLeak, SwapTruth, SwapsOnly
  <2>1. CASE SetRefused(c)
    BY <2>1 DEF SetRefused
  <2>2. CASE SetTeardown(c)
    BY <2>2 DEF SetTeardown
  <2>3. CASE SetOpen(c)
    BY <2>3 DEF SetOpen, Open
  <2>4. CASE SetTornDown(c)
    BY <2>4 DEF SetTornDown, Open
  <2>5. CASE SetOpened(c)
    BY <2>5 DEF SetOpened
  <2>6. CASE SetFailed(c)
    BY <2>6 DEF SetFailed
  <2> QED
    BY <1>2, <2>1, <2>2, <2>3, <2>4, <2>5, <2>6
    DEF Resume, StartTornDown, StartTeardownFailed, Started, StopTornDown,
        StopTornDownNoBase, StopTeardownFailed, StopRestarted, StopRestartFailed
<1>3. ASSUME UNCHANGED vars
      PROVE  SwapTruth'
  BY <1>3 DEF vars, SwapTruth
<1> QED
  BY <1>1, <1>2, <1>3 DEF Next

LEMMA SwapTruthInvariance == Spec => [](SwapsOnly => SwapInv /\ SwapTruth)
<1> DEFINE Truth == SwapsOnly => SwapInv /\ SwapTruth
           Known == SwapsOnly => SwapInv
<1>1. Init /\ Known => Truth
  <2>1. Init => SwapTruth
    BY NoneAssumption DEF Init, SwapTruth, Setting
  <2> QED
    BY <2>1
<1>2. Truth /\ [Next]_vars /\ Known' => Truth'
  <2>1. ASSUME [Next]_vars PROVE SwapsOnly' <=> SwapsOnly
    BY <2>1 DEF Next, Call, Resume, vars, SwapsOnly
  <2> QED
    BY <2>1, SwapTruthStep
<1> QED
  BY <1>1, <1>2, SwapInvariance, PTL DEF Spec

(* The last request wins, however many overlap and whichever factories       *)
(* reject: when the queue drains, the mode is that of the call it drains of. *)
THEOREM LastCallDecides == Spec => LastRequestWins
<1> USE NoneAssumption DEF Setting
<1> DEFINE Drains == setLiveOrDemoQueue # <<>> /\ setLiveOrDemoQueue' = <<>>
           Decided == /\ status'.mode = mode[Head(setLiveOrDemoQueue)]
                      /\ \A s \in Slots : runs'[s] \in {"off", status'.mode}
<1>1. ASSUME SwapsOnly, SwapInv, SwapTruth, [Next]_vars, Drains
      PROVE  Decided
  <2> USE DEF SwapInv, Inv, TypeOK, HandlesRun, HeldOnce, InFlightHolds, QueueHeadRuns,
              NoReplay, NoLeak, SwapTruth, SwapsOnly
  <2>1. PICK c \in Callers : SetRefused(c) \/ SetOpened(c) \/ SetFailed(c)
    <3>1. ASSUME NEW c \in Callers, Call(c) PROVE FALSE
      <4>1. SetLiveOrDemo(c)
        BY <1>1, <3>1 DEF Call, StartTeardown, StartBridge, StopTeardown, StopRestart, StopNothing
      <4>2. setLiveOrDemoQueue' = Append(setLiveOrDemoQueue, c)
        BY <4>1 DEF SetLiveOrDemo
      <4>3. Len(setLiveOrDemoQueue') = Len(setLiveOrDemoQueue) + 1
        BY <1>1, <4>2
      <4>4. Len(<<>>) = 0 /\ Len(setLiveOrDemoQueue) \in Nat
        BY <1>1
      <4>5. setLiveOrDemoQueue' # <<>>
        BY <4>3, <4>4
      <4> QED
        BY <1>1, <4>5
    <3>2. ASSUME NEW c \in Callers, Resume(c)
          PROVE SetRefused(c) \/ SetOpened(c) \/ SetFailed(c)
      BY <1>1, <3>2 DEF Resume, SetTeardown, SetOpen, SetTornDown, StartTornDown, StartTeardownFailed,
          Started, StopTornDown, StopTornDownNoBase, StopTeardownFailed, StopRestarted, StopRestartFailed
    <3> QED
      BY <1>1, <3>1, <3>2 DEF Next, vars
  <2>2. CASE SetRefused(c)
    <3>1. \A d \in Callers : pc[d] \notin Setting
      BY <1>1, <2>2 DEF SetRefused
    <3>2. /\ c = Head(setLiveOrDemoQueue)
          /\ status = Status(mode[c], FALSE) /\ baseHandle # None
          /\ status' = status /\ runs' = runs
      BY <1>1, <2>2 DEF SetRefused, Refused, AlreadyThere
    <3>3. status.mode = mode[c] /\ status.error = FALSE
      BY <3>2
    <3>4. runs[baseHandle] = status.mode
      BY <1>1, <3>1, <3>2, <3>3
    <3>5. \A s \in Slots : runs[s] # "off" => s = baseHandle
      BY <1>1, <3>1
    <3> QED
      BY <3>2, <3>3, <3>4, <3>5
  <2>3. CASE SetOpened(c)
    BY <1>1, <2>3 DEF SetOpened
  <2>4. CASE SetFailed(c)
    BY <1>1, <2>4 DEF SetFailed
  <2> QED
    BY <2>1, <2>2, <2>3, <2>4
<1>2. (SwapsOnly => SwapInv /\ SwapTruth) /\ [Next]_vars =>
          [SwapsOnly /\ setLiveOrDemoQueue # <<>> /\ setLiveOrDemoQueue' = <<>> =>
              /\ status'.mode = mode[Head(setLiveOrDemoQueue)]
              /\ \A s \in Slots : runs'[s] \in {"off", status'.mode}]_vars
  BY <1>1
<1> QED
  BY <1>2, SwapTruthInvariance, PTL DEF Spec, LastRequestWins

---------------------------------------------------------------------------------
(* What the status says of what runs, when the operations are used in turn.  *)
(* Between two calls the base that runs is baseMode and shown, or a replay   *)
(* is shown and the stash names the base it interrupted.                     *)
Settled == \A c \in Callers : pc[c] \notin InFlight
Replaying == {"startTeardown", "startBridge", "stopTeardown", "stopRestart"}

TurnsTruth ==
    /\ status.error = FALSE
    /\ status.mode = "replay" =>
          activeReplayTeardown # None \/ \E c \in Callers : pc[c] \in {"stopTeardown", "stopRestart"}
    /\ activeReplayTeardown # None => stashedRestart = baseMode
    /\ (Settled /\ activeReplayTeardown = None) =>
          /\ status.mode = baseMode
          /\ baseHandle # None
          /\ runs[baseHandle] = baseMode
    /\ \A c \in Callers :
          /\ pc[c] \in Replaying => stashedRestart = baseMode
          /\ pc[c] = "startTeardown" => runs[src[c]] = baseMode
          /\ pc[c] \in {"startTeardown", "startBridge"} => status.mode = baseMode
          /\ pc[c] = "stopTeardown" => runs[src[c]] = "replay"
          /\ pc[c] \in {"stopTeardown", "stopRestart"} => status.mode = "replay"
          /\ pc[c] = "stopRestart" => runs[src[c]] = baseMode
          /\ pc[c] = "setTeardown" => runs[src[c]] \in Base
          /\ pc[c] = "setFactory" => runs[src[c]] = baseMode /\ mode[c] = baseMode
          /\ pc[c] \in Setting => status.mode # "replay"

LEMMA TurnsTruthStep ==
    ASSUME InTurn, TurnsInv, TurnsTruth, [Next]_vars
    PROVE  TurnsTruth'
<1> USE NoneAssumption DEF Setting, Settled, Replaying
<1> USE DEF TurnsInv, Inv, TypeOK, HandlesRun, HeldOnce, InFlightHolds, OneInFlight, AllHeld,
            Alone, StashWaits, InTurn, TurnsTruth
<1>1. ASSUME NEW c \in Callers, Call(c)
      PROVE  TurnsTruth'
  <2>1. CASE SetLiveOrDemo(c)
    BY <2>1 DEF SetLiveOrDemo
  <2>2. CASE StartTeardown(c)
    BY <2>2 DEF StartTeardown
  <2>3. CASE StartBridge(c)
    BY <2>3 DEF StartBridge, Open
  <2>4. CASE StopTeardown(c)
    BY <2>4 DEF StopTeardown
  <2>5. CASE StopRestart(c)
    BY <2>5 DEF StopRestart, Open
  <2>6. CASE StopNothing(c)
    BY <2>6 DEF StopNothing
  <2> QED
    BY <1>1, <2>1, <2>2, <2>3, <2>4, <2>5, <2>6 DEF Call
<1>2. ASSUME NEW c \in Callers, Resume(c)
      PROVE  TurnsTruth'
  <2>1. CASE SetRefused(c)
    BY <2>1 DEF SetRefused
  <2>2. CASE SetTeardown(c)
    BY <2>2 DEF SetTeardown, Refused
  <2>3. CASE SetOpen(c)
    BY <2>3 DEF SetOpen, Open, Refused
  <2>4. CASE SetTornDown(c)
    BY <2>4 DEF SetTornDown, Open
  <2>5. CASE SetOpened(c)
    BY <2>5 DEF SetOpened
  <2>6. CASE StartTornDown(c)
    BY <2>6 DEF StartTornDown, Open
  <2>7. CASE Started(c)
    BY <2>7 DEF Started
  <2>8. CASE StopTornDown(c)
    BY <2>8 DEF StopTornDown, Open
  <2>9. CASE StopTornDownNoBase(c)
    BY <2>9 DEF StopTornDownNoBase
  <2>10. CASE StopRestarted(c)
    BY <2>10 DEF StopRestarted
  <2> QED
    BY <1>2, <2>1, <2>2, <2>3, <2>4, <2>5, <2>6, <2>7, <2>8, <2>9, <2>10
    DEF Resume, SetFailed, StartTeardownFailed, StopTeardownFailed, StopRestartFailed
<1>3. CASE UNCHANGED vars
  BY <1>3 DEF vars
<1> QED
  BY <1>1, <1>2, <1>3 DEF Next

LEMMA TurnsTruthInit == Init /\ InTurn => TurnsTruth
  BY NoneAssumption DEF Init, InTurn, TurnsTruth, Settled, Setting, Replaying

LEMMA TurnsTruthInvariance == Spec => [](InTurn => TurnsInv /\ TurnsTruth)
<1> DEFINE Truth == InTurn => TurnsInv /\ TurnsTruth
           Known == InTurn => TurnsInv
<1>1. Init /\ Known => Truth
  BY TurnsTruthInit
<1>2. Truth /\ [Next]_vars /\ Known' => Truth'
  <2>1. ASSUME [Next]_vars PROVE InTurn' <=> InTurn
    BY <2>1 DEF Next, Call, Resume, vars, InTurn
  <2> QED
    BY <2>1, TurnsTruthStep
<1> QED
  BY <1>1, <1>2, TurnsInvariance, PTL DEF Spec

(* The status at rest is what runs, under both ways of using the controller  *)
(* that keep the bus to one source, whichever factories reject a swap.       *)
THEOREM StatusIsTrue == Spec => []StatusTruthful
<1> USE NoneAssumption DEF Setting
<1>1. (SwapsOnly => SwapInv /\ SwapTruth) /\ SwapsOnly => StatusTruthful
  <2> SUFFICES ASSUME SwapsOnly, SwapInv, SwapTruth, Idle
               PROVE  /\ ~status.error => \E s \in Slots : runs[s] = status.mode
                      /\ status.error => \A s \in Slots : runs[s] = "off"
    BY DEF StatusTruthful
  <2>1. \A c \in Callers : pc[c] \notin Setting
    BY DEF Idle
  <2>2. CASE status = Status(status.mode, FALSE) /\ baseHandle # None /\ runs[baseHandle] = status.mode
    BY <2>2 DEF SwapInv, Inv, TypeOK
  <2>3. CASE status = Status(status.mode, TRUE) /\ baseHandle = None
    BY <2>1, <2>3 DEF SwapInv, Inv, TypeOK, NoLeak
  <2> QED
    BY <2>1, <2>2, <2>3 DEF SwapTruth
<1>2. (InTurn => TurnsInv /\ TurnsTruth) /\ InTurn => StatusTruthful
  BY DEF StatusTruthful, TurnsInv, Inv, TypeOK, HandlesRun, StashWaits, TurnsTruth, Settled, Idle
<1>3. ~SwapsOnly /\ ~InTurn => StatusTruthful
  BY DEF StatusTruthful
<1> QED
  BY <1>1, <1>2, <1>3, SwapTruthInvariance, TurnsTruthInvariance, PTL

---------------------------------------------------------------------------------
(* The controller, used in turn, implements the switch.  One slot runs at    *)
(* any time, so that Active is what it runs.                                 *)
OnSlot(s) == runs[s] # "off" /\ \A t \in Slots : runs[t] # "off" => t = s

LEMMA ActiveIsOn ==
    ASSUME NEW s \in Slots, OnSlot(s)
    PROVE  Active = runs[s]
<1>1. (CHOOSE t \in Slots : runs[t] # "off") = s
  BY DEF OnSlot
<1> QED
  BY <1>1 DEF Active

(* The same of the next state. *)
LEMMA ActiveIsOnNext ==
    ASSUME NEW s \in Slots, runs'[s] # "off", \A t \in Slots : runs'[t] # "off" => t = s
    PROVE  Active' = runs'[s]
<1>1. (CHOOSE t \in Slots : runs'[t] # "off") = s
  OBVIOUS
<1> QED
  BY <1>1 DEF Active

(* The slot that runs is the one a call in flight holds, or the one of the   *)
(* handles.                                                                  *)
LEMMA HeldIsOn ==
    ASSUME InTurn, TurnsInv, TurnsTruth
    PROVE  /\ \A c \in Callers : pc[c] \in InFlight => src[c] \in Slots /\ OnSlot(src[c])
           /\ activeReplayTeardown # None => activeReplayTeardown \in Slots /\ OnSlot(activeReplayTeardown)
           /\ (Settled /\ activeReplayTeardown = None) => baseHandle \in Slots /\ OnSlot(baseHandle)
  BY NoneAssumption
  DEF TurnsInv, Inv, TypeOK, HandlesRun, HeldOnce, InFlightHolds, OneInFlight, AllHeld, Alone,
      TurnsTruth, Settled, OnSlot, Setting

(* What a step of the controller is to the switch. *)
Stays == Active' = Active /\ status'.mode = status.mode /\ baseMode' = baseMode
Swaps == /\ Active \in Base /\ status.mode # "replay" /\ baseMode' \in Base
         /\ Active' = baseMode' /\ status'.mode = status.mode
Enters == /\ Active = baseMode /\ status.mode = baseMode
          /\ Active' = "replay" /\ status'.mode = status.mode /\ baseMode' = baseMode
Leaves == /\ status.mode = "replay" /\ Active = "replay"
          /\ Active' = baseMode /\ status'.mode = status.mode /\ baseMode' = baseMode
Shows == status'.mode = Active /\ Active' = Active /\ baseMode' = baseMode

LEMMA StepIsSwitch ==
    ASSUME InTurn, TurnsInv, TurnsTruth, [Next]_vars
    PROVE  Stays \/ Swaps \/ Enters \/ Leaves \/ Shows
<1> USE NoneAssumption DEF Setting
<1>0. TurnsInv' /\ TurnsTruth' /\ InTurn'
  <2>1. InTurn'
    BY DEF InTurn, Next, Call, Resume, vars
  <2> QED
    BY <2>1, TurnsStep, TurnsTruthStep
<1>1. ASSUME runs' = runs PROVE Active' = Active
  BY <1>1 DEF Active
<1>2. /\ \A c \in Callers : pc[c] \in InFlight => src[c] \in Slots /\ Active = runs[src[c]]
      /\ activeReplayTeardown # None =>
            activeReplayTeardown \in Slots /\ Active = runs[activeReplayTeardown]
      /\ (Settled /\ activeReplayTeardown = None) => baseHandle \in Slots /\ Active = runs[baseHandle]
  BY HeldIsOn, ActiveIsOn
<1>3. \A c \in Callers : pc'[c] \in InFlight => src'[c] \in Slots /\ Active' = runs'[src'[c]]
  <2> SUFFICES ASSUME NEW c \in Callers, pc'[c] \in InFlight
               PROVE  src'[c] \in Slots /\ Active' = runs'[src'[c]]
    OBVIOUS
  <2>1. /\ src'[c] \in Slots
        /\ runs'[src'[c]] # "off"
        /\ \A t \in Slots : runs'[t] # "off" => t = src'[c]
    BY <1>0, NoneAssumption
    DEF TurnsInv, Inv, TypeOK, HandlesRun, HeldOnce, InFlightHolds, OneInFlight, AllHeld, Alone
  <2> QED
    BY <2>1, ActiveIsOnNext
<1> USE DEF TurnsInv, Inv, TypeOK, HandlesRun, HeldOnce, InFlightHolds, OneInFlight, AllHeld,
            Alone, StashWaits, InTurn, TurnsTruth, Settled, Replaying
<1>4. ASSUME NEW c \in Callers, Call(c)
      PROVE  Stays \/ Shows
  <2>1. CASE SetLiveOrDemo(c)
    BY <1>1, <2>1 DEF SetLiveOrDemo, Stays
  <2>2. CASE StartTeardown(c)
    BY <1>1, <2>2 DEF StartTeardown, Stays
  <2>3. CASE StartBridge(c)
    BY <2>3 DEF StartBridge
  <2>4. CASE StopTeardown(c)
    BY <1>1, <2>4 DEF StopTeardown, Stays
  <2>5. CASE StopRestart(c)
    BY <2>5 DEF StopRestart
  <2>6. CASE StopNothing(c)
    BY <1>1, <1>2, <2>6 DEF StopNothing, Shows
  <2> QED
    BY <1>4, <2>1, <2>2, <2>3, <2>4, <2>5, <2>6 DEF Call
<1>5. ASSUME NEW c \in Callers, Resume(c)
      PROVE  Stays \/ Swaps \/ Enters \/ Leaves \/ Shows
  <2>1. CASE SetRefused(c)
    BY <1>1, <2>1 DEF SetRefused, Stays
  <2>2. CASE SetTeardown(c)
    BY <1>1, <2>2 DEF SetTeardown, Stays
  <2>3. CASE SetOpen(c)
    BY <2>3 DEF SetOpen, Refused
  <2>4. CASE SetTornDown(c)
    BY <1>0, <1>2, <1>3, <2>4 DEF SetTornDown, Open, Swaps
  <2>5. CASE SetOpened(c)
    BY <1>1, <1>2, <2>5 DEF SetOpened, Shows
  <2>6. CASE StartTornDown(c)
    BY <1>0, <1>2, <1>3, <2>6 DEF StartTornDown, Open, Enters
  <2>7. CASE Started(c)
    BY <1>1, <1>2, <2>7 DEF Started, Shows
  <2>8. CASE StopTornDown(c)
    BY <1>0, <1>2, <1>3, <2>8 DEF StopTornDown, Open, Leaves
  <2>9. CASE StopTornDownNoBase(c)
    BY <2>9 DEF StopTornDownNoBase
  <2>10. CASE StopRestarted(c)
    BY <1>1, <1>2, <2>10 DEF StopRestarted, Shows
  <2> QED
    BY <1>5, <2>1, <2>2, <2>3, <2>4, <2>5, <2>6, <2>7, <2>8, <2>9, <2>10
    DEF Resume, SetFailed, StartTeardownFailed, StopTeardownFailed, StopRestartFailed
<1>6. CASE UNCHANGED vars
  BY <1>1, <1>6 DEF vars, Stays
<1> QED
  BY <1>4, <1>5, <1>6 DEF Next

LEMMA InitIsSwitch == Init /\ InTurn => Active = baseMode /\ status.mode = baseMode /\ baseMode \in Base
<1> SUFFICES ASSUME Init, InTurn PROVE Active = baseMode /\ status.mode = baseMode /\ baseMode \in Base
  OBVIOUS
<1>1. PICK s \in Slots : /\ status = Status(baseMode, FALSE)
                         /\ runs = [x \in Slots |-> IF x = s THEN baseMode ELSE "off"]
  BY DEF Init, InTurn
<1>2. baseMode \in Base
  BY DEF Init
<1>3. OnSlot(s)
  BY <1>1, <1>2 DEF OnSlot
<1> QED
  BY <1>1, <1>2, <1>3, ActiveIsOn

(* Refinement: the controller used in turn is the switch of SourceSwitch,    *)
(* for any callers and slots.                                                *)
THEOREM ControllerIsSwitch == Spec => ImplementsSwitch
<1>1. Init => Switch!Init
  <2>1. CASE InTurn
    BY <2>1, InitIsSwitch DEF Switch!Init, Switch!Base
  <2>2. CASE ~InTurn
    BY <2>2 DEF Switch!Init, Switch!Base
  <2> QED
    BY <2>1, <2>2
<1>2. (InTurn => TurnsInv /\ TurnsTruth) /\ [Next]_vars => [Switch!Next]_(Switch!vars)
  <2> SUFFICES ASSUME InTurn => TurnsInv /\ TurnsTruth, [Next]_vars
               PROVE  [Switch!Next]_(Switch!vars)
    OBVIOUS
  <2>0. InTurn' <=> InTurn
    BY DEF InTurn, Next, Call, Resume, vars
  <2>1. CASE InTurn
    <3>1. Stays \/ Swaps \/ Enters \/ Leaves \/ Shows
      BY <2>1, StepIsSwitch
    <3>2. CASE Stays
      BY <2>0, <2>1, <3>2 DEF Stays, Switch!vars
    <3>3. CASE Swaps
      BY <2>0, <2>1, <3>3 DEF Swaps, Switch!Next, Switch!SwapBase, Switch!Base
    <3>4. CASE Enters
      BY <2>0, <2>1, <3>4 DEF Enters, Switch!Next, Switch!EnterReplay
    <3>5. CASE Leaves
      BY <2>0, <2>1, <3>5 DEF Leaves, Switch!Next, Switch!LeaveReplay
    <3>6. CASE Shows
      BY <2>0, <2>1, <3>6 DEF Shows, Switch!Next, Switch!Show
    <3> QED
      BY <3>1, <3>2, <3>3, <3>4, <3>5, <3>6
  <2>2. CASE ~InTurn
    BY <2>0, <2>2 DEF Switch!vars
  <2> QED
    BY <2>1, <2>2
<1> QED
  BY <1>1, <1>2, TurnsTruthInvariance, PTL DEF Spec, ImplementsSwitch, Switch!Spec
=================================================================================
