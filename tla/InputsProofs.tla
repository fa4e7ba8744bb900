---------------------------- MODULE InputsProofs ----------------------------
(* Safety proofs about what the process exchanges with the network: the    *)
(* gateway driver and the autopilot's transmitter over it, the discovery,  *)
(* the selection between sources, the replay, and Inputs as a whole, for   *)
(* every value of their constants.                                         *)
EXTENDS Inputs, WellFoundedInduction, TLAPS

(* Every set of natural numbers that is not empty has a least element, by  *)
(* the well-foundedness of their order.                                    *)
LEMMA Least ==
    ASSUME NEW S \in SUBSET Nat, S # {}
    PROVE  \E m \in S : \A n \in S : m <= n
<1>1. \E x \in S : \A y \in S : ~(<<y, x>> \in OpToRel(<, Nat))
    BY NatLessThanWellFounded, WFMin
<1>2. PICK x \in S : \A y \in S : ~(<<y, x>> \in OpToRel(<, Nat))
    BY <1>1
<1>3. \A y \in S : ~(y < x)
    BY <1>2 DEF OpToRel
<1> QED
    BY <1>3

LEMMA MinIsLeast ==
    ASSUME NEW S \in SUBSET Nat, S # {}
    PROVE  Min(S) \in S /\ \A n \in S : Min(S) <= n
BY Least DEF Min

(* The invariant: with no socket there is no connection and no partial     *)
(* line.                                                                   *)
Inv ==
    /\ TypeOK
    /\ OneWayForward
    /\ sock = "none" => ~connected /\ buffer = "empty"
    /\ sock = "connecting" => ~connected
    /\ NoSplicedLines

LEMMA DoubleType ==
    ASSUME NEW ms \in InitialMs .. MaxMs
    PROVE  Double(ms) \in InitialMs .. MaxMs
BY BackoffAssumption DEF Double

LEMMA InvInit == Init => Inv
<1>1. InitialMs \in InitialMs .. MaxMs /\ 0 \in 0 .. MaxMs
    BY BackoffAssumption
<1> SUFFICES ASSUME Init PROVE Inv
    OBVIOUS
<1>2. TypeOK
    BY <1>1 DEF Init, TypeOK
<1> QED
    BY <1>2 DEF Init, Inv, OneWayForward, NoSplicedLines

LEMMA InvNext == Inv /\ [Next]_vars => Inv'
<1> SUFFICES ASSUME Inv, [Next]_vars PROVE Inv'
    OBVIOUS
<1> USE BackoffAssumption DEF Inv, TypeOK, OneWayForward, NoSplicedLines
<1>0. /\ Double(backoff) \in InitialMs .. MaxMs
      /\ backoff \in 0 .. MaxMs
    BY DoubleType
<1>1. ASSUME Start PROVE Inv'
    <2>1. CASE NewSocket /\ UNCHANGED timer
        BY <1>1, <2>1 DEF Start, NewSocket
    <2>2. CASE NoSocket
        BY <1>0, <1>1, <2>2 DEF Start, NoSocket, ScheduleReconnect
    <2> QED
        BY <1>1, <2>1, <2>2 DEF Start
<1>2. ASSUME Stop PROVE Inv'
    BY <1>2 DEF Stop
<1>3. ASSUME Reconnect PROVE Inv'
    BY <1>0, <1>3 DEF Reconnect, NewSocket
<1>4. ASSUME Connect PROVE Inv'
    BY <1>4 DEF Connect
<1>5. ASSUME Data PROVE Inv'
    BY <1>5 DEF Data
<1>6. ASSUME IdleTimeout \/ Drop PROVE Inv'
    BY <1>6 DEF IdleTimeout, Drop
<1>7. ASSUME Close PROVE Inv'
    BY <1>0, <1>7 DEF Close, ScheduleReconnect
<1>8. ASSUME Gateway PROVE Inv'
    BY <1>8 DEF Gateway
<1>9. CASE UNCHANGED vars
    BY <1>9 DEF vars
<1> QED
    BY <1>1, <1>2, <1>3, <1>4, <1>5, <1>6, <1>7, <1>8, <1>9 DEF Next

(* An active driver has a socket or a timer and never both; a stopped one  *)
(* has neither.                                                            *)
THEOREM AlwaysOneWayForward == Spec => []OneWayForward
<1>1. Inv => OneWayForward
    BY DEF Inv
<1> QED
    BY InvInit, InvNext, <1>1, PTL DEF Spec

(* No frame is put together from the bytes of two connections. *)
THEOREM NeverSplicesLines == Spec => []NoSplicedLines
<1>1. Inv => NoSplicedLines
    BY DEF Inv
<1> QED
    BY InvInit, InvNext, <1>1, PTL DEF Spec

(* The health says connected only while there is a socket that connected. *)
THEOREM HealthTruthful == Spec => []ConnectedHasSocket
<1>1. Inv => ConnectedHasSocket
    BY DEF Inv, TypeOK, ConnectedHasSocket
<1> QED
    BY InvInit, InvNext, <1>1, PTL DEF Spec

---------------------------------------------------------------------------------
(* A write that waits for its callback is on the present driver's socket:  *)
(* a stopped driver has none (OneWayForward), so that a new one comes only *)
(* after the writes on the old one have failed.                            *)
WritingOnPresent ==
    \A c \in Commands :
        phase[c] = "writing" => sock \in {"open", "dead"} /\ boundTo[c] = driver

TxInv ==
    /\ Inv
    /\ WritingOnPresent
    /\ DOMAIN phase = Commands
    /\ DOMAIN boundTo = Commands
    /\ wire \in Seq(Commands \X Nat)
    /\ frame \in [Commands -> Nat]

LEMMA TxInvInit == TxInit => TxInv
<1> SUFFICES ASSUME TxInit PROVE TxInv
    OBVIOUS
<1>1. Inv
    BY InvInit DEF TxInit
<1> QED
    BY <1>1 DEF TxInit, TxInv, WritingOnPresent

(* The steps of the driver leave what is bound and written as it is. *)
LEMMA DriverStepInv == TxInv /\ DriverStep => TxInv'
<1> SUFFICES ASSUME TxInv, DriverStep PROVE TxInv'
    OBVIOUS
<1>1. Inv'
    BY InvNext DEF TxInv, DriverStep
<1>2. WritingOnPresent'
    BY DEF TxInv, DriverStep, WritingOnPresent
<1> QED
    BY <1>1, <1>2 DEF TxInv, DriverStep

LEMMA NewDriverInv == TxInv /\ NewDriver => TxInv'
<1> SUFFICES ASSUME TxInv, NewDriver PROVE TxInv'
    OBVIOUS
<1>1. sock = "none"
    BY DEF NewDriver, TxInv, Inv, OneWayForward
<1>2. Inv'
    BY BackoffAssumption DEF TxInv, NewDriver, Inv, TypeOK, OneWayForward, NoSplicedLines
<1>3. WritingOnPresent'
    BY <1>1 DEF TxInv, NewDriver, WritingOnPresent
<1> QED
    BY <1>2, <1>3 DEF TxInv, NewDriver

(* The steps of a command leave the driver as it is. *)
LEMMA CommandInv ==
    ASSUME NEW c \in Commands, TxInv,
           SendCommand(c) \/ Resolve(c) \/ TxCan(c) \/ Written(c) \/ TxError(c)
    PROVE  TxInv'
<1>1. UNCHANGED <<vars, driver>>
    BY DEF SendCommand, Resolve, TxCan, Written, TxError
<1>2. Inv'
    BY <1>1, InvNext DEF TxInv
<1>3. CASE SendCommand(c)
    BY <1>2, <1>3 DEF SendCommand, Phase, TxInv, WritingOnPresent, vars
<1>4. CASE Resolve(c)
    BY <1>2, <1>4 DEF Resolve, Phase, TxInv, WritingOnPresent, vars
<1>5. CASE TxCan(c)
    BY <1>2, <1>5 DEF TxCan, CanWrite, Phase, TxInv, WritingOnPresent, vars
<1>6. CASE Written(c)
    BY <1>2, <1>6 DEF Written, Phase, TxInv, WritingOnPresent, vars
<1>7. CASE TxError(c)
    BY <1>2, <1>7 DEF TxError, Phase, TxInv, WritingOnPresent, vars
<1> QED
    BY <1>3, <1>4, <1>5, <1>6, <1>7

LEMMA TxInvNext == TxInv /\ [TxNext]_allVars => TxInv'
<1> SUFFICES ASSUME TxInv, [TxNext]_allVars PROVE TxInv'
    OBVIOUS
<1>1. CASE UNCHANGED allVars
    <2>1. Inv'
        BY <1>1, InvNext DEF TxInv, allVars
    <2> QED
        BY <1>1, <2>1 DEF TxInv, WritingOnPresent, allVars, vars, txVars
<1> QED
    BY <1>1, DriverStepInv, NewDriverInv, CommandInv DEF TxNext

(* Only the callback of a write puts a frame on the wire. *)
LEMMA OnlyWrittenSends ==
    ASSUME TxInv, TxNext, wire' # wire
    PROVE  boundTo[Last(wire')[1]] = driver
<1>1. PICK c \in Commands : Written(c)
    BY DEF TxNext, DriverStep, NewDriver, SendCommand, Resolve, TxCan, TxError
<1>2. wire' = Append(wire, <<c, frame[c] + 1>>) /\ <<c, frame[c] + 1>> \in Commands \X Nat
    BY <1>1 DEF Written, TxInv
<1>3. Last(wire') = <<c, frame[c] + 1>>
    BY <1>2 DEF Last, TxInv
<1> QED
    BY <1>1, <1>3 DEF Written, TxInv, WritingOnPresent

LEMMA WritesArePresent ==
    TxInv /\ [TxNext]_allVars => [wire' # wire => boundTo[Last(wire')[1]] = driver]_allVars
BY OnlyWrittenSends DEF allVars, txVars

(* A command of a source that was swapped away is never written on the     *)
(* next one, for any commands, frames and number of sources.               *)
THEOREM StaleIsNeverSent == TxSpec => NothingStaleIsSent
BY WritesArePresent, TxInvInit, TxInvNext, PTL DEF TxSpec, NothingStaleIsSent

---------------------------------------------------------------------------------
(* The order of the chain and of the wire.                                 *)

Started(c) == phase[c] \notin {"new", "chained"}

(* The chain holds each command that was given, once; a later one is not   *)
(* bound to an earlier source.                                             *)
ChainInv ==
    /\ chain \in Seq(Commands)
    /\ driver \in Nat
    /\ boundTo \in [Commands -> Nat]
    /\ \A i, j \in 1 .. Len(chain) : chain[i] = chain[j] => i = j
    /\ \A c \in Commands : phase[c] # "new" => \E i \in 1 .. Len(chain) : chain[i] = c
    /\ \A i \in 1 .. Len(chain) : phase[chain[i]] # "new"
    /\ \A c \in Commands : boundTo[c] <= driver
    /\ \A i, j \in 1 .. Len(chain) : i < j => boundTo[chain[i]] <= boundTo[chain[j]]

(* Of one transmitter's commands, those given before one that started were *)
(* answered.                                                               *)
TurnInv ==
    \A c, d \in Commands :
        c \in Before(d) /\ boundTo[c] = boundTo[d] /\ Started(d) => Answered(c)

(* What is on the wire was started; the last frame on it is that of the    *)
(* command under way, if it has written any.                               *)
WireInv ==
    /\ \A c \in Commands : frame[c] > 0 => Started(c)
    /\ \A i \in 1 .. Len(wire) : frame[wire[i][1]] > 0
    /\ \A c \in Commands :
           phase[c] \in {"read", "writing"} /\ boundTo[c] = driver /\ frame[c] > 0
               => wire # <<>> /\ wire[Len(wire)] = <<c, frame[c]>>

OrderInv == TxInv /\ ChainInv /\ TurnInv /\ WireInv /\ FramesInOrder

LEMMA OrderInvInit == TxInit => OrderInv
<1> SUFFICES ASSUME TxInit PROVE OrderInv
    OBVIOUS
<1>1. TxInv
    BY TxInvInit
<1>2. ChainInv
    BY DEF TxInit, ChainInv
<1>3. TurnInv
    BY DEF TxInit, TurnInv, Before
<1>4. WireInv
    BY DEF TxInit, WireInv
<1>5. FramesInOrder
    BY DEF TxInit, FramesInOrder
<1> QED
    BY <1>1, <1>2, <1>3, <1>4, <1>5 DEF OrderInv

(* A step that keeps the chain, the wire and the phases but for failures.  *)
LEMMA DriverStepOrder == OrderInv /\ DriverStep => OrderInv'
<1> SUFFICES ASSUME OrderInv, DriverStep PROVE OrderInv'
    OBVIOUS
<1>1. TxInv'
    BY DriverStepInv DEF OrderInv
<1>2. \A c \in Commands : phase'[c] = phase[c] \/ (phase[c] = "writing" /\ phase'[c] = "failed")
    BY DEF DriverStep
<1>3. UNCHANGED <<chain, frame, boundTo, driver, wire>>
    BY DEF DriverStep
<1>4. ChainInv'
    <2>1. \A c \in Commands : phase'[c] = "new" <=> phase[c] = "new"
        BY <1>2
    <2>2. \A i \in 1 .. Len(chain) : chain[i] \in Commands
        BY DEF OrderInv, ChainInv
    <2> QED
        BY <1>3, <2>1, <2>2 DEF OrderInv, ChainInv
<1>5. TurnInv'
    BY <1>2, <1>3 DEF OrderInv, TurnInv, Before, Started, Answered
<1>6. WireInv'
    BY <1>2, <1>3 DEF OrderInv, WireInv, Started
<1>7. FramesInOrder'
    BY <1>3 DEF OrderInv, FramesInOrder, Before
<1> QED
    BY <1>1, <1>4, <1>5, <1>6, <1>7 DEF OrderInv

LEMMA NewDriverOrder == OrderInv /\ NewDriver => OrderInv'
<1> SUFFICES ASSUME OrderInv, NewDriver PROVE OrderInv'
    OBVIOUS
<1>1. TxInv'
    BY NewDriverInv DEF OrderInv
<1>2. driver' = driver + 1 /\ UNCHANGED <<chain, phase, frame, boundTo, wire>>
    BY DEF NewDriver
<1>3. \A c \in Commands : boundTo'[c] # driver' /\ boundTo'[c] <= driver'
    BY <1>2 DEF OrderInv, ChainInv
<1>4. ChainInv'
    BY <1>2, <1>3 DEF OrderInv, ChainInv
<1>5. TurnInv'
    BY <1>2 DEF OrderInv, TurnInv, Before, Started, Answered
<1>6. WireInv'
    BY <1>2, <1>3 DEF OrderInv, WireInv, Started
<1>7. FramesInOrder'
    BY <1>2 DEF OrderInv, FramesInOrder, Before
<1> QED
    BY <1>1, <1>4, <1>5, <1>6, <1>7 DEF OrderInv

(* A command that is given comes last; nothing else moves. *)
LEMMA SendCommandOrder ==
    ASSUME NEW c \in Commands, OrderInv, SendCommand(c)
    PROVE  OrderInv'
<1> USE DEF OrderInv
<1>1. TxInv'
    BY CommandInv
<1>2. /\ chain' = Append(chain, c)
      /\ phase[c] = "new"
      /\ phase' = [phase EXCEPT ![c] = "chained"]
      /\ boundTo' = [boundTo EXCEPT ![c] = driver]
      /\ UNCHANGED <<frame, driver, wire>>
    BY DEF SendCommand, Phase
<1>3. /\ chain \in Seq(Commands)
      /\ DOMAIN phase = Commands
      /\ boundTo \in [Commands -> Nat]
      /\ driver \in Nat
    BY DEF TxInv, ChainInv
<1>4. /\ Len(chain') = Len(chain) + 1 /\ Len(chain) \in Nat
      /\ chain' \in Seq(Commands)
      /\ chain'[Len(chain) + 1] = c
      /\ \A i \in 1 .. Len(chain) : chain'[i] = chain[i] /\ chain[i] \in Commands /\ chain[i] # c
    BY <1>2, <1>3 DEF ChainInv
<1>4a. \A i \in 1 .. Len(chain') : i \in 1 .. Len(chain) \/ i = Len(chain) + 1
    BY <1>4
<1>4b. 1 .. Len(chain) \subseteq 1 .. Len(chain') /\ Len(chain) + 1 \in 1 .. Len(chain')
    BY <1>4
<1>5. \A d \in Commands \ {c} : phase'[d] = phase[d] /\ boundTo'[d] = boundTo[d]
    BY <1>2, <1>3
<1>6. phase'[c] = "chained" /\ boundTo'[c] = driver
    BY <1>2, <1>3
<1>7. ChainInv'
    <2>0. ChainInv
        OBVIOUS
    <2>1. \A i, j \in 1 .. Len(chain') : chain'[i] = chain'[j] => i = j
        <3> TAKE i, j \in 1 .. Len(chain')
        <3>1. \A k, l \in 1 .. Len(chain) : chain[k] = chain[l] => k = l
            BY <2>0 DEF ChainInv
        <3>2. CASE i \in 1 .. Len(chain) /\ j \in 1 .. Len(chain)
            <4>1. chain'[i] = chain[i] /\ chain'[j] = chain[j]
                BY <1>4, <3>2
            <4> QED
                BY <3>1, <3>2, <4>1
        <3>3. CASE i = Len(chain) + 1 /\ j \in 1 .. Len(chain)
            BY <1>4, <3>3
        <3>4. CASE i \in 1 .. Len(chain) /\ j = Len(chain) + 1
            BY <1>4, <3>4
        <3> QED
            BY <1>4a, <3>2, <3>3, <3>4
    <2>2. \A d \in Commands : phase'[d] # "new" => \E i \in 1 .. Len(chain') : chain'[i] = d
        <3> TAKE d \in Commands
        <3> HAVE phase'[d] # "new"
        <3>1. CASE d = c
            BY <1>4, <1>4b, <3>1
        <3>2. CASE d # c
            <4>1. phase[d] # "new"
                BY <1>5, <3>2
            <4>2. PICK i \in 1 .. Len(chain) : chain[i] = d
                BY <2>0, <4>1 DEF ChainInv
            <4> QED
                BY <1>4, <1>4b, <4>2
        <3> QED
            BY <3>1, <3>2
    <2>3. \A i \in 1 .. Len(chain') : phase'[chain'[i]] # "new"
        <3> TAKE i \in 1 .. Len(chain')
        <3>1. CASE i \in 1 .. Len(chain)
            <4>1. chain'[i] = chain[i] /\ chain[i] \in Commands \ {c}
                BY <1>4, <3>1
            <4>2. phase[chain[i]] # "new"
                BY <2>0, <3>1 DEF ChainInv
            <4> QED
                BY <1>5, <4>1, <4>2
        <3>2. CASE i = Len(chain) + 1
            BY <1>4, <1>6, <3>2
        <3> QED
            BY <1>4a, <3>1, <3>2
    <2>4. boundTo' \in [Commands -> Nat] /\ driver' = driver
        BY <1>2, <1>3
    <2>5. \A d \in Commands : boundTo'[d] <= driver
        BY <1>3, <1>5, <1>6 DEF ChainInv
    <2>6. \A i, j \in 1 .. Len(chain') : i < j => boundTo'[chain'[i]] <= boundTo'[chain'[j]]
        <3> TAKE i, j \in 1 .. Len(chain')
        <3> HAVE i < j
        <3>1. i \in 1 .. Len(chain)
            BY <1>4
        <3>2. chain'[i] = chain[i] /\ chain[i] \in Commands \ {c}
            BY <1>4, <3>1
        <3>3. boundTo'[chain'[i]] = boundTo[chain[i]]
            BY <1>5, <3>2
        <3>4. CASE j \in 1 .. Len(chain)
            <4>1. chain'[j] = chain[j] /\ chain[j] \in Commands \ {c}
                BY <1>4, <3>4
            <4>2. boundTo'[chain'[j]] = boundTo[chain[j]]
                BY <1>5, <4>1
            <4>3. boundTo[chain[i]] <= boundTo[chain[j]]
                BY <2>0, <3>1, <3>4 DEF ChainInv
            <4> QED
                BY <3>3, <4>2, <4>3
        <3>5. CASE j = Len(chain) + 1
            <4>1. boundTo'[chain'[j]] = driver
                BY <1>4, <1>6, <3>5
            <4>2. boundTo'[chain'[i]] <= driver
                BY <2>5, <3>2
            <4> QED
                BY <4>1, <4>2
        <3> QED
            BY <1>4a, <3>4, <3>5
    <2> QED
        BY <1>4, <2>1, <2>2, <2>3, <2>4, <2>5, <2>6, <1>3 DEF ChainInv
<1>8. \A d \in Commands \ {c} : Before(d)' = Before(d)
    BY <1>4 DEF Before
<1>9. TurnInv'
    <2> SUFFICES ASSUME NEW d \in Commands, NEW e \in Commands,
                        e \in Before(d)', boundTo'[e] = boundTo'[d], Started(d)'
                 PROVE  Answered(e)'
        BY DEF TurnInv
    <2>1. d # c
        BY <1>6 DEF Started
    <2>2. e # c
        <3>1. e \in Before(d)
            BY <1>8, <2>1
        <3>2. PICK i \in 1 .. Len(chain) : chain[i] = e
            BY <3>1 DEF Before
        <3> QED
            BY <1>4, <3>2
    <2> QED
        BY <1>5, <1>8, <2>1, <2>2 DEF TurnInv, Started, Answered
<1>10. WireInv'
    <2>1. ~(frame[c] > 0)
        BY <1>2 DEF WireInv, Started
    <2> QED
        BY <1>2, <1>5, <1>6, <2>1 DEF WireInv, Started
<1>11. FramesInOrder'
    <2>1. \A d \in Commands : Before(d) \subseteq Before(d)'
        BY <1>4 DEF Before
    <2>2. wire \in Seq(Commands \X Nat) /\ wire' = wire
        BY <1>2 DEF TxInv
    <2>3. \A i \in 1 .. Len(wire) - 1 : wire[i + 1][1] \in Commands
        BY <2>2
    <2> QED
        BY <2>1, <2>2, <2>3 DEF FramesInOrder
<1> QED
    BY <1>1, <1>7, <1>9, <1>10, <1>11

(* What follows if a step moves the phase of one started or due command    *)
(* and leaves the chain.                                                   *)
LEMMA PhaseMoves ==
    ASSUME NEW c \in Commands, OrderInv,
           UNCHANGED <<chain, boundTo, driver>>,
           phase' = [phase EXCEPT ![c] = phase'[c]],
           phase[c] \in {"chained", "read", "writing", "failed"},
           Started(c)',
           \A d \in Before(c) : boundTo[d] = boundTo[c] => Answered(d)
    PROVE  ChainInv' /\ TurnInv'
<1>1. \A d \in Commands \ {c} : phase'[d] = phase[d]
    BY DEF OrderInv, TxInv
<1>2. ChainInv'
    <2>1. \A d \in Commands : phase'[d] = "new" <=> phase[d] = "new"
        BY <1>1 DEF Started
    <2>2. \A i \in 1 .. Len(chain) : chain[i] \in Commands
        BY DEF OrderInv, ChainInv
    <2> QED
        BY <2>1, <2>2 DEF OrderInv, ChainInv
<1>3. TurnInv'
    <2> SUFFICES ASSUME NEW e \in Commands, NEW d \in Commands,
                        e \in Before(d), boundTo[e] = boundTo[d], Started(d)'
                 PROVE  Answered(e)'
        BY DEF TurnInv, Before
    <2>1. Answered(e)
        <3>1. CASE d = c
            BY <3>1
        <3>2. CASE d # c
            BY <1>1, <3>2 DEF OrderInv, TurnInv, Started
        <3> QED
            BY <3>1, <3>2
    <2>2. e # c
        BY <2>1 DEF Answered
    <2> QED
        BY <1>1, <2>1, <2>2 DEF Answered
<1> QED
    BY <1>2, <1>3

(* Steps of a command that write nothing. *)
LEMMA QuietOrder ==
    ASSUME NEW c \in Commands, OrderInv, Resolve(c) \/ TxCan(c) \/ TxError(c)
    PROVE  OrderInv'
<1>1. TxInv'
    BY CommandInv DEF OrderInv
<1>2. UNCHANGED <<chain, frame, boundTo, driver, wire>>
    BY DEF Resolve, TxCan, TxError
<1>3. DOMAIN phase = Commands
    BY DEF OrderInv, TxInv
<1>4. \/ phase[c] = "chained" /\ phase'[c] \in {"read", "error"}
      \/ phase[c] = "read" /\ phase'[c] \in {"writing", "failed"}
      \/ phase[c] = "failed" /\ phase'[c] = "error"
    BY <1>3 DEF Resolve, MyTurn, TxCan, TxError, Phase
<1>5. phase' = [phase EXCEPT ![c] = phase'[c]]
    BY <1>3 DEF Resolve, TxCan, TxError, Phase
<1>6. \A d \in Before(c) : boundTo[d] = boundTo[c] => Answered(d)
    <2>1. CASE Resolve(c)
        BY <2>1 DEF Resolve, MyTurn
    <2>2. CASE TxCan(c) \/ TxError(c)
        <3>1. Started(c)
            BY <2>2 DEF TxCan, TxError, Started
        <3> QED
            BY <3>1 DEF OrderInv, TurnInv, Before
    <2> QED
        BY <2>1, <2>2
<1>7. ChainInv' /\ TurnInv'
    <2>1. Started(c)'
        BY <1>4 DEF Started
    <2>2. phase[c] \in {"chained", "read", "writing", "failed"}
        BY <1>4
    <2> QED
        BY <1>2, <1>5, <1>6, <2>1, <2>2, PhaseMoves
<1>8. WireInv'
    <2>1. \A d \in Commands \ {c} : phase'[d] = phase[d]
        BY <1>3, <1>5
    <2>2. \A d \in Commands : Started(d) => Started(d)'
        BY <1>4, <2>1 DEF Started
    <2>3. \A d \in Commands : frame[d] > 0 /\ phase'[d] \in {"read", "writing"} => phase[d] \in {"read", "writing"}
        BY <1>4, <2>1 DEF OrderInv, WireInv, Started
    <2> QED
        BY <1>2, <2>2, <2>3 DEF OrderInv, WireInv
<1>9. FramesInOrder'
    BY <1>2 DEF OrderInv, FramesInOrder, Before
<1> QED
    BY <1>1, <1>7, <1>8, <1>9 DEF OrderInv

(* A command whose frame is on the wire and another that now writes: the   *)
(* first was given before.                                                 *)
LEMMA WrittenAfter ==
    ASSUME NEW c \in Commands, NEW d \in Commands, c # d, OrderInv,
           frame[c] > 0, phase[d] = "writing", ~(d \in Before(c) /\ boundTo[c] = boundTo[d] /\ Started(c))
    PROVE  c \in Before(d)
<1>1. Started(c)
    BY DEF OrderInv, WireInv
<1>2. boundTo[d] = driver
    BY DEF OrderInv, TxInv, WritingOnPresent
<1>3. PICK i \in 1 .. Len(chain) : chain[i] = c
    BY <1>1 DEF OrderInv, ChainInv, Started
<1>4. PICK j \in 1 .. Len(chain) : chain[j] = d
    BY DEF OrderInv, ChainInv
<1>5. i < j \/ j < i
    BY <1>3, <1>4
<1>6. CASE i < j
    BY <1>3, <1>4, <1>6 DEF Before
<1>7. CASE j < i
    <2>1. d \in Before(c)
        BY <1>3, <1>4, <1>7 DEF Before
    <2>2. boundTo[d] <= boundTo[c]
        BY <1>3, <1>4, <1>7 DEF OrderInv, ChainInv
    <2>3. boundTo[c] <= driver /\ boundTo[c] \in Nat /\ driver \in Nat
        BY DEF OrderInv, ChainInv
    <2>4. boundTo[c] = boundTo[d]
        BY <1>2, <2>2, <2>3
    <2> QED
        BY <1>1, <2>1, <2>4
<1> QED
    BY <1>5, <1>6, <1>7

LEMMA WrittenOrder ==
    ASSUME NEW c \in Commands, OrderInv, Written(c)
    PROVE  OrderInv'
<1>1. TxInv'
    BY CommandInv DEF OrderInv
<1>2. /\ phase[c] = "writing"
      /\ boundTo[c] = driver
      /\ wire' = Append(wire, <<c, frame[c] + 1>>)
      /\ UNCHANGED <<chain, boundTo, driver>>
    BY DEF Written, OrderInv, TxInv, WritingOnPresent
<1>3. /\ DOMAIN phase = Commands
      /\ frame \in [Commands -> Nat]
      /\ wire \in Seq(Commands \X Nat)
    BY DEF OrderInv, TxInv
<1>4. /\ Len(wire') = Len(wire) + 1 /\ Len(wire) \in Nat
      /\ wire'[Len(wire) + 1] = <<c, frame[c] + 1>>
      /\ \A i \in 1 .. Len(wire) : wire'[i] = wire[i]
    BY <1>2, <1>3
<1>5. /\ frame'[c] = frame[c] + 1
      /\ \A d \in Commands \ {c} : frame'[d] = frame[d]
    BY <1>3 DEF Written
<1>6. /\ phase'[c] \in {"ok", "read"}
      /\ phase' = [phase EXCEPT ![c] = phase'[c]]
      /\ \A d \in Commands \ {c} : phase'[d] = phase[d]
    BY <1>3 DEF Written, Phase
<1>7. \A d \in Before(c) : boundTo[d] = boundTo[c] => Answered(d)
    BY <1>2 DEF OrderInv, TurnInv, Before, Started
<1>8. ChainInv' /\ TurnInv'
    <2>1. Started(c)'
        BY <1>6 DEF Started
    <2> QED
        BY <1>2, <1>6, <1>7, <2>1, PhaseMoves
(* No other command of the present transmitter is under way. *)
<1>9. \A d \in Commands \ {c} : boundTo[d] = driver => phase[d] \notin {"read", "writing"}
    <2> SUFFICES ASSUME NEW d \in Commands \ {c}, boundTo[d] = driver, phase[d] \in {"read", "writing"}
                 PROVE  FALSE
        OBVIOUS
    <2>1. PICK i \in 1 .. Len(chain) : chain[i] = c
        BY <1>2 DEF OrderInv, ChainInv
    <2>2. PICK j \in 1 .. Len(chain) : chain[j] = d
        BY DEF OrderInv, ChainInv
    <2>3. CASE i < j
        <3>1. c \in Before(d)
            BY <2>1, <2>2, <2>3 DEF Before
        <3>2. Answered(c)
            BY <1>2, <3>1 DEF OrderInv, TurnInv, Started
        <3> QED
            BY <1>2, <3>2 DEF Answered
    <2>4. CASE j < i
        <3>1. d \in Before(c)
            BY <2>1, <2>2, <2>4 DEF Before
        <3>2. Answered(d)
            BY <1>2, <1>7, <3>1
        <3> QED
            BY <3>2 DEF Answered
    <2>5. i < j \/ j < i
        BY <2>1, <2>2
    <2> QED
        BY <2>3, <2>4, <2>5
<1>10. WireInv'
    <2>1. \A d \in Commands : frame'[d] > 0 => Started(d)'
        BY <1>5, <1>6 DEF OrderInv, WireInv, Started
    <2>2. \A i \in 1 .. Len(wire') : frame'[wire'[i][1]] > 0
        <3> TAKE i \in 1 .. Len(wire')
        <3>1. CASE i = Len(wire) + 1
            BY <1>3, <1>4, <1>5, <3>1
        <3>2. CASE i \in 1 .. Len(wire)
            <4>1. wire'[i] = wire[i] /\ wire[i][1] \in Commands
                BY <1>3, <1>4, <3>2
            <4>2. frame[wire[i][1]] > 0
                BY <3>2 DEF OrderInv, WireInv
            <4>3. \A d \in Commands : frame[d] > 0 => frame'[d] > 0
                BY <1>3, <1>5
            <4> QED
                BY <4>1, <4>2, <4>3
        <3> QED
            BY <1>4, <3>1, <3>2
    <2>3. \A d \in Commands :
              phase'[d] \in {"read", "writing"} /\ boundTo'[d] = driver' /\ frame'[d] > 0
                  => wire' # <<>> /\ wire'[Len(wire')] = <<d, frame'[d]>>
        <3> TAKE d \in Commands
        <3>1. CASE d = c
            BY <1>4, <1>5, <3>1
        <3>2. CASE d # c
            BY <1>2, <1>6, <1>9, <3>2
        <3> QED
            BY <3>1, <3>2
    <2> QED
        BY <2>1, <2>2, <2>3 DEF WireInv
<1>11. FramesInOrder'
    <2> SUFFICES ASSUME NEW i \in 1 .. Len(wire') - 1
                 PROVE  IF wire'[i][1] = wire'[i + 1][1] THEN wire'[i + 1][2] = wire'[i][2] + 1
                        ELSE wire'[i][1] \in Before(wire'[i + 1][1]) /\ wire'[i + 1][2] = 1
        BY <1>2 DEF FramesInOrder, Before
    <2>1. CASE i \in 1 .. Len(wire) - 1
        <3>1. wire'[i] = wire[i] /\ wire'[i + 1] = wire[i + 1]
            BY <1>4, <2>1
        <3> QED
            BY <2>1, <3>1 DEF OrderInv, FramesInOrder
    <2>2. CASE i = Len(wire)
        <3>1. wire'[i] = wire[i] /\ wire'[i + 1] = <<c, frame[c] + 1>> /\ wire[i] \in Commands \X Nat
            BY <1>3, <1>4, <2>2
        <3>2. frame[wire[i][1]] > 0
            BY <1>4, <2>2 DEF OrderInv, WireInv
        <3>3. CASE wire[i][1] = c
            <4>1. wire[Len(wire)] = <<c, frame[c]>>
                BY <1>2, <3>2, <3>3 DEF OrderInv, WireInv
            <4> QED
                BY <2>2, <3>1, <3>3, <4>1
        <3>4. CASE wire[i][1] # c
            <4> DEFINE e == wire[i][1]
            <4>1. e \in Commands
                BY <3>1
            <4>2. ~(c \in Before(e) /\ boundTo[e] = boundTo[c] /\ Started(e))
                BY <1>2, <4>1 DEF OrderInv, TurnInv, Answered
            <4>3. e \in Before(c)
                <5> HIDE DEF e
                <5> QED
                    BY <1>2, <3>2, <3>4, <4>1, <4>2, WrittenAfter DEF e
            <4>4. ~(frame[c] > 0)
                BY <1>2, <2>2, <3>4 DEF OrderInv, WireInv
            <4>5. frame[c] = 0
                BY <1>3, <4>4
            <4> QED
                BY <3>1, <3>4, <4>3, <4>5
        <3> QED
            BY <3>3, <3>4
    <2> QED
        BY <1>4, <2>1, <2>2
<1> QED
    BY <1>1, <1>8, <1>10, <1>11 DEF OrderInv

LEMMA OrderInvNext == OrderInv /\ [TxNext]_allVars => OrderInv'
<1> SUFFICES ASSUME OrderInv, [TxNext]_allVars PROVE OrderInv'
    OBVIOUS
<1>1. CASE UNCHANGED allVars
    <2>1. TxInv'
        BY TxInvNext DEF OrderInv
    <2>2. UNCHANGED <<chain, phase, frame, boundTo, driver, wire>>
        BY <1>1 DEF allVars, txVars
    <2> QED
        <3>1. ChainInv'
            BY <2>2 DEF OrderInv, ChainInv
        <3>2. TurnInv'
            BY <2>2 DEF OrderInv, TurnInv, Before, Started, Answered
        <3>3. WireInv'
            BY <2>2 DEF OrderInv, WireInv, Started
        <3>4. FramesInOrder'
            BY <2>2 DEF OrderInv, FramesInOrder, Before
        <3> QED
            BY <2>1, <3>1, <3>2, <3>3, <3>4 DEF OrderInv
<1> QED
    BY <1>1, DriverStepOrder, NewDriverOrder, SendCommandOrder, QuietOrder, WrittenOrder DEF TxNext

(* On the wire the frames of a command follow one another from the first,  *)
(* no other command's between, and the commands in the order they were     *)
(* given, for any commands and frames and through failures and swaps.      *)
THEOREM FramesStayInOrder == TxSpec => []FramesInOrder
<1>1. OrderInv => FramesInOrder
    BY DEF OrderInv
<1> QED
    BY OrderInvInit, OrderInvNext, <1>1, PTL DEF TxSpec

---------------------------------------------------------------------------------
(* The device discovery.  A timer runs only for a source that is due, and  *)
(* only while the discovery is installed.                                  *)
(***************************************************************************)
DiscoveryInv ==
    /\ DiscoveryTypeOK
    /\ ~installed => lastRequest = Never /\ pendingTimer = NoTimers
    /\ installed => gap = lastRequest
    /\ \A s \in Sources : pendingTimer[s] # NoTimer => lastRequest[s] = Interval

LEMMA NothingDue ==
    /\ Never \in [Sources -> 0 .. Interval] /\ NoTimers \in [Sources -> 0 .. NoTimer]
    /\ \A s \in Sources : Never[s] = Interval /\ NoTimers[s] = NoTimer
    /\ NoTimer \in Nat /\ NoTimer > 0 /\ Delay \in 0 .. NoTimer
BY DiscoveryAssumption DEF Never, NoTimers, NoTimer

LEMMA DiscoveryInvInit == DiscoveryInit => DiscoveryInv
BY NothingDue DEF DiscoveryInit, DiscoveryInv, DiscoveryTypeOK

LEMMA DiscoveryInvNext == DiscoveryInv /\ [DiscoveryNext]_discoveryVars => DiscoveryInv'
<1> SUFFICES ASSUME DiscoveryInv, [DiscoveryNext]_discoveryVars PROVE DiscoveryInv'
    OBVIOUS
<1> USE DiscoveryAssumption, NothingDue DEF DiscoveryInv, DiscoveryTypeOK
<1>1. CASE InstallDiscovery
    BY <1>1 DEF InstallDiscovery
<1>2. CASE UninstallDiscovery
    BY <1>2 DEF UninstallDiscovery
<1>3. CASE DiscoveryTick
    <2>1. DiscoveryTypeOK'
        BY <1>3 DEF DiscoveryTick
    <2> QED
        BY <1>3, <2>1 DEF DiscoveryTick
<1>4. ASSUME NEW s \in Sources, QueueRequest(s) PROVE DiscoveryInv'
    BY <1>4 DEF QueueRequest
<1>5. ASSUME NEW s \in Sources, Ask(s) PROVE DiscoveryInv'
    <2>1. installed
        BY <1>5 DEF Ask
    <2>2. half' \subseteq Sources /\ asking' \subseteq Sources
        BY <1>5 DEF Ask
    <2>3. DiscoveryTypeOK'
        BY <1>5, <2>2 DEF Ask
    <2> QED
        BY <1>5, <2>1, <2>3 DEF Ask
<1>6. ASSUME NEW s \in Sources, NoNeed(s) PROVE DiscoveryInv'
    BY <1>6 DEF NoNeed
<1>7. ASSUME NEW s \in Sources, SecondFrame(s) PROVE DiscoveryInv'
    BY <1>7 DEF SecondFrame
<1>8. ASSUME NEW s \in Sources, Observe(s) PROVE DiscoveryInv'
    BY <1>8 DEF Observe
<1>9. CASE UNCHANGED discoveryVars
    BY <1>9 DEF discoveryVars
<1> QED
    BY <1>1, <1>2, <1>3, <1>4, <1>5, <1>6, <1>7, <1>8, <1>9 DEF DiscoveryNext

LEMMA AskedAreDue ==
    DiscoveryInv /\ [DiscoveryNext]_discoveryVars =>
        [\A s \in asking' : s \in asking \/ (installed /\ gap[s] = Interval /\ s \notin identified)]_discoveryVars
<1>1. ASSUME DiscoveryInv, [DiscoveryNext]_discoveryVars
      PROVE  \A s \in asking' : s \in asking \/ (installed /\ gap[s] = Interval /\ s \notin identified)
    <2>1. ASSUME NEW s \in Sources, Ask(s)
          PROVE  asking' = {s} /\ installed /\ gap[s] = Interval /\ s \notin identified
        <3>1. asking' = {s} /\ pendingTimer[s] # NoTimer /\ s \notin identified
            BY <2>1, NothingDue DEF Ask
        <3>2. installed
            BY <1>1, <3>1, NothingDue DEF DiscoveryInv
        <3>3. gap[s] = Interval
            BY <1>1, <3>1, <3>2 DEF DiscoveryInv
        <3> QED
            BY <3>1, <3>2, <3>3
    <2>2. ASSUME NEW s \in Sources, Ask(s)
          PROVE  \A t \in asking' : t \in asking \/ (installed /\ gap[t] = Interval /\ t \notin identified)
        BY <2>1, <2>2
    <2>3. CASE ~\E s \in Sources : Ask(s)
        <3>1. asking' = {} \/ asking' = asking
            BY <1>1, <2>3 DEF DiscoveryNext, InstallDiscovery, UninstallDiscovery, DiscoveryTick,
                              QueueRequest, NoNeed, SecondFrame, Observe, discoveryVars
        <3> QED
            BY <3>1
    <2> QED
        BY <2>2, <2>3
<1> QED
    BY <1>1

(* A source is asked only by a timer of this installation, which was set   *)
(* when it was due and which nothing has asked for since: the timers and   *)
(* the times of the last requests are given up together                    *)
(* (device-discovery.ts:43-62, 75-77).                                     *)
THEOREM SourcesAreAskedWhenDue == DiscoverySpec => AsksAreDue
BY AskedAreDue, DiscoveryInvInit, DiscoveryInvNext, PTL DEF DiscoverySpec, AsksAreDue

---------------------------------------------------------------------------------
(* The arbitration between sources.  A source that was arbitrated within   *)
(* the window is in the Map, and until the clock is set back the stamps    *)
(* tell how long ago that was.                                             *)
SelectorInv ==
    /\ SelectorTypeOK
    /\ \A t \in Tags : heard[t] < Old => t \in Range(order)
    /\ \A t \in Tags : age[t] >= -back
    /\ back = 0 => age = heard
    /\ PreferredHolds

LEMMA OldIs == Old \in Nat /\ Old > Fresh /\ Fresh \in Nat /\ MaxBack \in Nat /\ 0 \in Ages /\ Old \in Ages
BY FreshAssumption DEF Old, Ages

LEMMA PatternsAre == Patterns \subseteq Nat /\ \A t \in Tags : Pattern[t] \subseteq Patterns
BY TagsAssumption DEF Patterns

(* What is freshest of an entry matches it and is not blocked.             *)
LEMMA FreshestIs ==
    ASSUME NEW map \in Seq(Tags), NEW ages \in [Tags -> Ages], NEW p \in Nat, NEW t \in Freshest(map, ages, p)
    PROVE  /\ t \in Range(map) \ blocked /\ p \in Pattern[t]
           /\ \A u \in Range(map) \ blocked : p \in Pattern[u] => ages[t] <= ages[u]
<1> DEFINE own == {u \in Range(map) \ blocked : p \in Pattern[u]}
           best == {v \in own : \A u \in own : ages[v] <= ages[u]}
           I == {i \in 1 .. Len(map) : map[i] \in best}
<1>1. best # {} /\ t = map[SelectInSeq(map, LAMBDA v : v \in best)]
    BY DEF Freshest
<1>2. I \in SUBSET Nat /\ I # {}
    BY <1>1 DEF Range
<1>3. SelectInSeq(map, LAMBDA v : v \in best) = Min(I)
    BY <1>2 DEF SelectInSeq
<1>4. Min(I) \in I
    BY <1>2, MinIsLeast
<1>5. t \in best
    BY <1>1, <1>3, <1>4
<1> QED
    BY <1>5

(* An entry that a tag of the Map matches has a freshest.                  *)
LEMMA FreshestExists ==
    ASSUME NEW map \in Seq(Tags), NEW ages \in [Tags -> Ages], NEW u \in Range(map) \ blocked,
           NEW p \in Pattern[u]
    PROVE  Freshest(map, ages, p) # {}
<1> DEFINE own == {v \in Range(map) \ blocked : p \in Pattern[v]}
           best == {v \in own : \A w \in own : ages[v] <= ages[w]}
           S == {ages[v] + MaxBack : v \in own}
<1>1. own \subseteq Tags /\ u \in own
    BY DEF Range
<1>2. S \in SUBSET Nat /\ S # {}
    BY <1>1, OldIs DEF Ages
<1>3. PICK m \in S : \A n \in S : m <= n
    BY <1>2, Least
<1>4. PICK v \in own : m = ages[v] + MaxBack
    BY <1>3
<1>5. \A w \in own : ages[v] <= ages[w]
    <2> TAKE w \in own
    <2>1. ages[v] + MaxBack <= ages[w] + MaxBack
        BY <1>3, <1>4
    <2>2. ages[v] \in Int /\ ages[w] \in Int /\ MaxBack \in Int
        BY <1>1, OldIs DEF Ages
    <2> QED
        BY <2>1, <2>2
<1>6. best # {}
    BY <1>4, <1>5
<1> HIDE DEF best
<1> QED
    BY <1>6 DEF Freshest, best

(* The winner matches an entry no later than any that a fresh source        *)
(* matches.                                                                 *)
LEMMA WinnerIs ==
    ASSUME NEW map \in Seq(Tags), NEW ages \in [Tags -> Ages], NEW t \in Winner(map, ages)
    PROVE  /\ t \in Tags \ blocked
           /\ \E p \in Pattern[t] : \A u \in Range(map) \ blocked :
                  (\A v \in Tags : ages[v] >= 0) /\ ages[u] <= Fresh => \A q \in Pattern[u] : p <= q
<1> DEFINE fresh == {p \in Patterns : Qualifies(map, ages, p)}
<1>1. fresh # {} /\ t \in Freshest(map, ages, Min(fresh))
    BY DEF Winner
<1>2. Min(fresh) \in fresh /\ \A p \in fresh : Min(fresh) <= p
    BY <1>1, PatternsAre, MinIsLeast
<1>3. t \in Range(map) \ blocked /\ Min(fresh) \in Pattern[t]
    BY <1>1, <1>2, PatternsAre, FreshestIs
<1>4. ASSUME NEW u \in Range(map) \ blocked, \A v \in Tags : ages[v] >= 0, ages[u] <= Fresh,
             NEW q \in Pattern[u]
      PROVE  Min(fresh) <= q
    <2>1. u \in Tags /\ q \in Patterns /\ q \in Nat
        <3>1. u \in Tags
            BY DEF Range
        <3> HIDE DEF fresh
        <3> QED
            BY <3>1, PatternsAre
    <2>2. PICK v \in Freshest(map, ages, q) : TRUE
        BY FreshestExists
    <2>3. v \in Range(map) /\ ages[v] <= ages[u]
        BY <2>1, <2>2, FreshestIs
    <2>4. ages[v] \in 0 .. Fresh
        BY <1>4, <2>1, <2>3, OldIs DEF Range, Ages
    <2>5. Qualifies(map, ages, q)
        BY <2>2, <2>4 DEF Qualifies
    <2> QED
        BY <1>2, <2>1, <2>5
<1> HIDE DEF fresh
<1>5. t \in Tags \ blocked
    BY <1>3 DEF Range
<1> QED
    BY <1>3, <1>4, <1>5

LEMMA SelectorInvInit == SelectorInit => SelectorInv
BY OldIs DEF SelectorInit, SelectorInv, SelectorTypeOK, PreferredHolds

LEMMA AgedIs ==
    /\ \A a \in Ages : /\ Older(a) \in Ages /\ Older(a) >= a
                       /\ a > -MaxBack => Younger(a) \in Ages /\ Younger(a) >= a - 1
    /\ \A a \in 0 .. Old : Older(a) \in 0 .. Old /\ (Older(a) < Old => a < Old)
BY OldIs DEF Older, Younger, Ages

LEMMA SilentHolds == ASSUME Silent PROVE PreferredHolds'
BY DEF Silent, PreferredHolds

LEMMA SelectorInvNext == SelectorInv /\ [SelectorNext]_selectorVars => SelectorInv'
<1> SUFFICES ASSUME SelectorInv, [SelectorNext]_selectorVars PROVE SelectorInv'
    OBVIOUS
<1>0. SelectorTypeOK /\ rule \in BOOLEAN
    BY DEF SelectorInv, SelectorTypeOK
<1>1. CASE ConfigureSources
    BY <1>1, SilentHolds DEF ConfigureSources, Silent, SelectorInv, SelectorTypeOK
<1>2. CASE SelectorTick
    <2>1. SelectorTypeOK'
        BY <1>0, <1>2, AgedIs DEF SelectorTick, Silent, SelectorTypeOK
    <2>2. \A t \in Tags : heard'[t] < Old => t \in Range(order')
        BY <1>0, <1>2, AgedIs DEF SelectorTick, SelectorInv, SelectorTypeOK
    <2>3. \A t \in Tags : age'[t] >= -back'
        <3> TAKE t \in Tags
        <3>1. age'[t] = Older(age[t]) /\ age[t] \in Ages /\ age[t] >= -back /\ back' = back /\ back \in Nat
            BY <1>0, <1>2 DEF SelectorTick, SelectorInv, SelectorTypeOK
        <3>2. Older(age[t]) \in Int /\ Older(age[t]) >= age[t] /\ age[t] \in Int
            BY <3>1, AgedIs, OldIs DEF Ages
        <3> QED
            BY <3>1, <3>2
    <2>4. back' = 0 => age' = heard'
        BY <1>2 DEF SelectorTick, SelectorInv
    <2> QED
        BY <1>2, <2>1, <2>2, <2>3, <2>4, SilentHolds DEF SelectorTick, SelectorInv
<1>3. CASE SetBack
    <2>1. \A t \in Tags : /\ age[t] \in Ages /\ Younger(age[t]) \in Ages
                          /\ Younger(age[t]) >= age[t] - 1 /\ age'[t] = Younger(age[t])
        <3> TAKE t \in Tags
        <3>1. age[t] \in Ages /\ age[t] >= -back /\ back < MaxBack /\ back \in Nat /\ age'[t] = Younger(age[t])
            BY <1>0, <1>3 DEF SetBack, SelectorInv, SelectorTypeOK
        <3>2. age[t] > -MaxBack
            BY <3>1, OldIs DEF Ages
        <3> QED
            BY <3>1, <3>2, AgedIs
    <2>2. back \in 0 .. MaxBack /\ back < MaxBack /\ back' = back + 1 /\ back' # 0
        BY <1>0, <1>3, OldIs DEF SetBack, SelectorTypeOK
    <2>3. SelectorTypeOK'
        BY <1>0, <1>3, <2>1, <2>2, OldIs DEF SetBack, Silent, SelectorTypeOK
    <2>4. \A t \in Tags : age'[t] >= -back'
        BY <2>1, <2>2, OldIs DEF SelectorInv, Ages
    <2> QED
        BY <1>3, <2>2, <2>3, <2>4, SilentHolds DEF SetBack, SelectorInv
<1>4. ASSUME NEW t \in Tags, PublishSample(t), ~(rule /\ Pattern[t] # {}) PROVE SelectorInv'
    <2>1. UNCHANGED <<age, heard, order, rule, blocked, back>> /\ fed' = {t} /\ (emitted' = {t} \/ emitted' = {})
        BY <1>0, <1>4 DEF PublishSample, Handle, Discard
    <2>2. ~rule \/ emitted' = {}
        BY <1>0, <1>4 DEF PublishSample, Discard
    <2>3. PreferredHolds'
        BY <2>1, <2>2 DEF PreferredHolds
    <2> QED
        BY <2>1, <2>3 DEF SelectorInv, SelectorTypeOK
<1>5. ASSUME NEW t \in Tags, PublishSample(t), rule, Pattern[t] # {} PROVE SelectorInv'
    <2>1. /\ order' = IF Contains(order, t) THEN order ELSE Append(order, t)
          /\ age' = [age EXCEPT ![t] = 0] /\ heard' = [heard EXCEPT ![t] = 0]
          /\ fed' = {t} /\ UNCHANGED <<rule, blocked, back>>
          /\ emitted' = {} \/ (emitted' = {t} /\ t \in Winner(order', age'))
        BY <1>5 DEF PublishSample, Handle, Discard
    <2>2. order' \in Seq(Tags) /\ Range(order) \subseteq Range(order') /\ t \in Range(order')
        <3>1. order \in Seq(Tags)
            BY <1>0 DEF SelectorTypeOK
        <3>2. CASE Contains(order, t)
            BY <2>1, <3>1, <3>2 DEF Contains, Range
        <3>3. CASE ~Contains(order, t)
            BY <2>1, <3>1, <3>3 DEF Range
        <3> QED
            BY <3>2, <3>3
    <2>3. age' \in [Tags -> Ages] /\ heard' \in [Tags -> 0 .. Old]
        BY <1>0, <2>1, OldIs DEF SelectorTypeOK
    <2>4. SelectorTypeOK'
        BY <1>0, <2>1, <2>2, <2>3 DEF SelectorTypeOK
    <2>5. \A u \in Tags : heard'[u] < Old => u \in Range(order')
        BY <1>0, <2>1, <2>2 DEF SelectorInv, SelectorTypeOK
    <2>6. \A u \in Tags : age'[u] >= -back'
        BY <1>0, <2>1, OldIs DEF SelectorInv, SelectorTypeOK
    <2>7. back' = 0 => age' = heard'
        BY <2>1 DEF SelectorInv
    <2>8. ASSUME emitted' = {t}, t \in Winner(order', age') PROVE PreferredHolds'
        <3>1. t \in Tags \ blocked'
            BY <2>1, <2>2, <2>3, <2>8, WinnerIs
        <3>2. ASSUME back' = 0, NEW u \in Tags \ blocked', ~(heard'[u] > Fresh),
                     NEW q \in Pattern[u], \A p \in Pattern[t] : q < p
              PROVE  FALSE
            <4>1. age' = heard' /\ heard'[u] <= Fresh /\ \A v \in Tags : age'[v] >= 0
                BY <2>3, <2>7, <3>2, OldIs
            <4>2. u \in Range(order') \ blocked /\ age'[u] <= Fresh
                BY <2>1, <2>3, <2>5, <3>2, <4>1, OldIs
            <4>3. blocked' = blocked
                BY <2>1
            <4>4. PICK p \in Pattern[t] : p <= q
                BY <2>2, <2>3, <2>8, <4>1, <4>2, WinnerIs
            <4>5. p \in Nat /\ q \in Nat
                BY <3>2, <4>4, PatternsAre
            <4> QED
                BY <3>2, <4>4, <4>5
        <3> QED
            BY <2>8, <3>1, <3>2 DEF PreferredHolds
    <2>9. PreferredHolds'
        BY <2>1, <2>8 DEF PreferredHolds
    <2> QED
        BY <2>4, <2>5, <2>6, <2>7, <2>9 DEF SelectorInv
<1>6. CASE UNCHANGED selectorVars
    BY <1>6 DEF selectorVars, SelectorInv, SelectorTypeOK, PreferredHolds
<1> QED
    BY <1>1, <1>2, <1>3, <1>4, <1>5, <1>6 DEF SelectorNext

(* A channel does not alternate: while a source is heard within the        *)
(* freshness window none that matches later entries only is used, until    *)
(* the clock is set back, and a blocked source is not used at all          *)
(* (selector.ts:8-12, 76-103).                                             *)
THEOREM NoOtherWhilePreferred == SelectorSpec => []PreferredHolds
<1>1. SelectorInv => PreferredHolds
    BY DEF SelectorInv
<1> QED
    BY SelectorInvInit, SelectorInvNext, <1>1, PTL DEF SelectorSpec

-----------------------------------------------------------------------------
(* The replay.  A loop holds a frame of the session until the time the     *)
(* session gives it; what is published of a session that was started once  *)
(* is the session up to the line of its loop.                              *)
(***************************************************************************)
LoopsInv ==
    /\ ReplayTypeOK
    /\ \A l \in Loops : loop[l] = "waiting" => line[l] \in Recorded /\ due[l] = Due(l)

(* The loop of the one start(). *)
SessionSoFar == \A i \in 1 .. Len(bus) : bus[i] = i

OneLoopInv ==
    /\ SessionSoFar
    /\ loop[1] = "off" => line[1] = 1 /\ Len(bus) = 0
    /\ Len(bus) < line[1]
    /\ subscribed => Len(bus) + 1 = line[1]
    /\ ~subscribed => aborted \/ loop[1] = "off"

LEMMA SessionIs == Len(Offsets) \in Nat \ {0} /\ Loops \subseteq Nat /\ 1 \in Loops /\ MaxClock \in Nat /\ 1 \in Recorded
BY OffsetsAssumption, StartsAssumption, MaxClockAssumption DEF Loops, Recorded

LEMMA LoopsInvInit == ReplayInit => LoopsInv
<1> SUFFICES ASSUME ReplayInit PROVE LoopsInv
    OBVIOUS
<1>1. /\ clock \in 0 .. MaxClock /\ loop \in [Loops -> {"off", "reading", "waiting", "done"}]
      /\ line \in [Loops -> 1 .. Len(Offsets) + 1] /\ began \in [Loops -> 0 .. MaxClock] /\ due \in [Loops -> Nat]
    BY SessionIs DEF ReplayInit
<1>2. aborted \in BOOLEAN /\ subscribed \in BOOLEAN
    BY Zenon DEF ReplayInit
<1>3. bus \in Seq(Recorded) /\ \A l \in Loops : loop[l] = "off"
    BY DEF ReplayInit
<1> QED
    BY <1>1, <1>2, <1>3 DEF LoopsInv, ReplayTypeOK

LEMMA EmitIs ==
    ASSUME LoopsInv, NEW l \in Loops, Emit(l), line[l] \in Recorded
    PROVE  /\ bus' \in Seq(Recorded) /\ line' \in [Loops -> 1 .. Len(Offsets) + 1]
           /\ loop' = [loop EXCEPT ![l] = "reading"] /\ line' = [line EXCEPT ![l] = line[l] + 1]
           /\ bus' = IF subscribed THEN Append(bus, line[l]) ELSE bus
<1>1. /\ loop' = [loop EXCEPT ![l] = "reading"] /\ line' = [line EXCEPT ![l] = line[l] + 1]
      /\ bus' = IF subscribed THEN Append(bus, line[l]) ELSE bus
    BY DEF Emit, Publish
<1>2. bus \in Seq(Recorded) /\ line \in [Loops -> 1 .. Len(Offsets) + 1]
    BY DEF LoopsInv, ReplayTypeOK
<1>3. line[l] + 1 \in 1 .. Len(Offsets) + 1
    BY SessionIs DEF Recorded
<1> QED
    BY <1>1, <1>2, <1>3

LEMMA EmitKeeps ==
    ASSUME LoopsInv, NEW l \in Loops, Emit(l), line[l] \in Recorded,
           UNCHANGED <<clock, began, due, aborted, subscribed>>
    PROVE  LoopsInv'
<1>1. /\ loop' \in [Loops -> {"off", "reading", "waiting", "done"}]
      /\ \A k \in Loops : loop'[k] = "waiting" => k # l /\ loop[k] = "waiting" /\ line'[k] = line[k]
    BY EmitIs DEF LoopsInv, ReplayTypeOK
<1>2. \A k \in Loops : loop'[k] = "waiting" => line'[k] \in Recorded /\ due'[k] = Due(k)'
    BY <1>1 DEF LoopsInv, Due
<1> QED
    BY <1>1, <1>2, EmitIs DEF LoopsInv, ReplayTypeOK

LEMMA LoopsInvNext == LoopsInv /\ [ReplayNext]_replayVars => LoopsInv'
<1> SUFFICES ASSUME LoopsInv, [ReplayNext]_replayVars PROVE LoopsInv'
    OBVIOUS
<1>0. ReplayTypeOK
    BY DEF LoopsInv
<1>1. ASSUME NEW l \in Loops, StartLoop(l) PROVE LoopsInv'
    <2>1. ReplayTypeOK'
        BY <1>0, <1>1 DEF StartLoop, ReplayTypeOK
    <2>2. \A k \in Loops : loop'[k] = "waiting" => loop[k] = "waiting" /\ began'[k] = began[k]
        BY <1>0, <1>1 DEF StartLoop, ReplayTypeOK
    <2>3. UNCHANGED <<line, due>>
        BY <1>1 DEF StartLoop
    <2> QED
        BY <2>1, <2>2, <2>3 DEF LoopsInv, Due
<1>2. ASSUME NEW l \in Loops, Read(l) PROVE LoopsInv'
    BY <1>2, EmitKeeps DEF Read, CanRead
<1>3. ASSUME NEW l \in Loops, Sleep(l) PROVE LoopsInv'
    <2>1. /\ loop' = [loop EXCEPT ![l] = "waiting"] /\ due' = [due EXCEPT ![l] = Due(l)]
          /\ UNCHANGED <<clock, line, began, aborted, subscribed, bus>> /\ line[l] \in Recorded /\ Due(l) > clock
        BY <1>3 DEF Sleep, CanRead
    <2>2. Due(l) \in Nat
        <3>1. Offsets[line[l]] \in Nat /\ Offsets[1] \in Nat /\ began[l] \in Nat /\ clock \in Nat
            BY <1>0, <2>1, SessionIs, OffsetsAssumption DEF ReplayTypeOK, Recorded
        <3> QED
            BY <2>1, <3>1 DEF Due
    <2>3. ReplayTypeOK'
        <3>1. loop' \in [Loops -> {"off", "reading", "waiting", "done"}]
            BY <1>0, <2>1 DEF ReplayTypeOK
        <3>2. due' \in [Loops -> Nat]
            BY <1>0, <2>1, <2>2 DEF ReplayTypeOK
        <3> QED
            BY <1>0, <2>1, <3>1, <3>2 DEF ReplayTypeOK
    <2>4. \A k \in Loops : Due(k)' = Due(k)
        BY <2>1 DEF Due
    <2>5. ASSUME NEW k \in Loops, loop'[k] = "waiting" PROVE line'[k] \in Recorded /\ due'[k] = Due(k)'
        <3>1. CASE k = l
            BY <1>0, <2>1, <2>4, <3>1 DEF ReplayTypeOK
        <3>2. CASE k # l
            <4>1. loop[k] = "waiting" /\ due'[k] = due[k]
                BY <1>0, <2>1, <2>5, <3>2 DEF ReplayTypeOK
            <4> QED
                BY <2>1, <2>4, <4>1 DEF LoopsInv
        <3> QED
            BY <3>1, <3>2
    <2> QED
        BY <2>3, <2>5 DEF LoopsInv
<1>4. ASSUME NEW l \in Loops, Wake(l) PROVE LoopsInv'
    BY <1>4, EmitKeeps DEF Wake, LoopsInv
<1>5. ASSUME NEW l \in Loops, Finish(l) PROVE LoopsInv'
    <2>1. ReplayTypeOK'
        BY <1>0, <1>5 DEF Finish, ReplayTypeOK
    <2>2. \A k \in Loops : loop'[k] = "waiting" => loop[k] = "waiting"
        BY <1>0, <1>5 DEF Finish, ReplayTypeOK
    <2>3. UNCHANGED <<line, due, began>>
        BY <1>5 DEF Finish
    <2> QED
        BY <2>1, <2>2, <2>3 DEF LoopsInv, Due
<1>6. CASE StopReplay
    BY <1>6 DEF StopReplay, LoopsInv, ReplayTypeOK, Due
<1>7. CASE ReplayTick
    <2>1. clock' \in 0 .. MaxClock
        BY <1>0, <1>7, SessionIs DEF ReplayTick, ReplayTypeOK
    <2> QED
        BY <1>7, <2>1 DEF ReplayTick, LoopsInv, ReplayTypeOK, Due
<1>8. CASE UNCHANGED replayVars
    BY <1>8 DEF replayVars, LoopsInv, ReplayTypeOK, Due
<1> QED
    BY <1>1, <1>2, <1>3, <1>4, <1>5, <1>6, <1>7, <1>8 DEF ReplayNext

LEMMA PublishedAreDue ==
    LoopsInv /\ [ReplayNext]_replayVars =>
        [Realtime => \A l \in Loops : line'[l] # line[l] => Due(l) <= clock]_replayVars
<1>1. ASSUME LoopsInv, [ReplayNext]_replayVars, Realtime, NEW l \in Loops, line'[l] # line[l]
      PROVE  Due(l) <= clock
    <2>1. Read(l) \/ Wake(l)
        <3>1. line \in [Loops -> 1 .. Len(Offsets) + 1]
            BY <1>1 DEF LoopsInv, ReplayTypeOK
        <3>2. PICK k \in Loops : Read(k) \/ Wake(k)
            BY <1>1 DEF ReplayNext, StartLoop, Sleep, Finish, StopReplay, ReplayTick, replayVars
        <3>3. line' = [line EXCEPT ![k] = line[k] + 1]
            BY <3>2 DEF Read, Wake, Emit
        <3> QED
            BY <1>1, <3>1, <3>2, <3>3
    <2> QED
        BY <1>1, <2>1 DEF Read, Wake, LoopsInv
<1> QED
    BY <1>1

(* However often the replay is started, a frame is published no earlier    *)
(* than the session has it when it is replayed at its pace: a timer holds  *)
(* the frame it was set for (replay-driver.ts:105-110).                    *)
NeverEarly == [][Realtime => \A l \in Loops : line'[l] # line[l] => Due(l) <= clock]_replayVars

(* So the replay keeps the pace of the session, however often it was       *)
(* started.                                                                *)
THEOREM ReplayKeepsPace == ReplaySpec => NeverEarly
BY PublishedAreDue, LoopsInvInit, LoopsInvNext, PTL DEF ReplaySpec, NeverEarly

LEMMA OneLoopInvInit == ReplayInit => OneLoopInv
<1> SUFFICES ASSUME ReplayInit PROVE OneLoopInv
    OBVIOUS
<1>1. bus = << >> /\ line[1] = 1 /\ loop[1] = "off" /\ ~subscribed
    BY SessionIs DEF ReplayInit
<1> QED
    BY <1>1 DEF OneLoopInv, SessionSoFar

LEMMA OneLoopInvNext ==
    ASSUME Starts = 1, LoopsInv, OneLoopInv, [ReplayNext]_replayVars
    PROVE  OneLoopInv'
<1>0. Loops = {1} /\ line \in [Loops -> 1 .. Len(Offsets) + 1] /\ bus \in Seq(Recorded) /\ line[1] \in Nat
      /\ loop \in [Loops -> {"off", "reading", "waiting", "done"}] /\ Len(bus) \in Nat
    BY SessionIs DEF LoopsInv, ReplayTypeOK, Loops
<1>1. CASE StartLoop(1)
    <2>1. loop[1] = "off" /\ ~aborted /\ loop'[1] = "reading" /\ subscribed' /\ UNCHANGED <<line, bus, aborted>>
        BY <1>0, <1>1 DEF StartLoop
    <2> QED
        BY <1>0, <2>1 DEF OneLoopInv, SessionSoFar
<1>2. CASE Read(1) \/ Wake(1)
    <2>1. /\ loop[1] # "off" /\ line[1] \in Recorded /\ Emit(1) /\ UNCHANGED <<aborted, subscribed>>
        BY <1>0, <1>2 DEF Read, Wake, CanRead, LoopsInv
    <2>2. /\ loop'[1] = "reading" /\ line'[1] = line[1] + 1
          /\ bus' = IF subscribed THEN Append(bus, line[1]) ELSE bus
        BY <1>0, <2>1, EmitIs
    <2>3. CASE subscribed
        <3>1. bus' = Append(bus, line[1])
            BY <2>2, <2>3
        <3>2. Len(bus') = Len(bus) + 1 /\ bus'[Len(bus) + 1] = line[1] /\ \A i \in 1 .. Len(bus) : bus'[i] = bus[i]
            BY <1>0, <2>1, <3>1
        <3>3. Len(bus) + 1 = line[1] /\ \A i \in 1 .. Len(bus) : bus[i] = i
            BY <2>3 DEF OneLoopInv, SessionSoFar
        <3>4. \A i \in 1 .. Len(bus') : bus'[i] = i
            BY <1>0, <3>2, <3>3
        <3> QED
            BY <1>0, <2>1, <2>2, <2>3, <3>2, <3>3, <3>4 DEF OneLoopInv, SessionSoFar
    <2>4. CASE ~subscribed
        BY <1>0, <2>1, <2>2, <2>4 DEF OneLoopInv, SessionSoFar
    <2> QED
        BY <2>3, <2>4
<1>3. CASE Sleep(1) \/ Finish(1)
    <2>1. loop[1] # "off" /\ loop'[1] # "off" /\ UNCHANGED <<line, bus, aborted, subscribed>>
        BY <1>0, <1>3 DEF Sleep, CanRead, Finish
    <2> QED
        BY <2>1 DEF OneLoopInv, SessionSoFar
<1>4. CASE StopReplay
    <2>1. aborted' /\ ~subscribed' /\ UNCHANGED <<line, bus, loop>>
        BY <1>4 DEF StopReplay
    <2> QED
        BY <2>1 DEF OneLoopInv, SessionSoFar
<1>5. CASE ReplayTick \/ UNCHANGED replayVars
    BY <1>5 DEF ReplayTick, replayVars, OneLoopInv, SessionSoFar
<1> QED
    BY <1>0, <1>1, <1>2, <1>3, <1>4, <1>5 DEF ReplayNext

(* The second start() is the only thing that makes a recorded frame appear *)
(* twice: what a replay that is started once has published is the session  *)
(* so far, each frame once and in recorded order, for every session, paced *)
(* or not, stopped at any moment (replay-driver.ts:62-65, 84-128).         *)
THEOREM StartedOnceIsPublishedOnce ==
    ASSUME Starts = 1
    PROVE  ReplaySpec => []EachFrameOnce /\ []SessionSoFar
<1>1. OneLoopInv => EachFrameOnce /\ SessionSoFar
    BY DEF OneLoopInv, SessionSoFar, EachFrameOnce
<1>2. LoopsInv /\ OneLoopInv /\ [ReplayNext]_replayVars => OneLoopInv'
    BY OneLoopInvNext
<1> QED
    BY <1>1, <1>2, LoopsInvInit, LoopsInvNext, OneLoopInvInit, PTL DEF ReplaySpec

---------------------------------------------------------------------------------
(* The composition.  A step of one part leaves the others as they are, so  *)
(* that what each promises it keeps in the whole.                          *)
LEMMA OnePartMoves ==
    ASSUME [InputsNext]_inputsVars
    PROVE  /\ [TxNext]_allVars /\ [DiscoveryNext]_discoveryVars
           /\ [SelectorNext]_selectorVars /\ [ReplayNext]_replayVars
<1>1. CASE UNCHANGED inputsVars
    BY <1>1 DEF inputsVars
<1>2. CASE AutopilotStep
    BY <1>2 DEF AutopilotStep
<1>3. CASE DiscoveryStep
    BY <1>3 DEF DiscoveryStep
<1>4. CASE SelectorStep
    BY <1>4 DEF SelectorStep
<1>5. CASE ReplayStep
    BY <1>5 DEF ReplayStep
<1> QED
    BY <1>1, <1>2, <1>3, <1>4, <1>5 DEF InputsNext

(* The safety of the gateway driver, of the transmitter over it, of the    *)
(* discovery, of the selector and of the replay, of the behaviours that    *)
(* are model-checked.                                                      *)
THEOREM InputsAreSafe ==
    InputsSpec => /\ []OneWayForward /\ []NoSplicedLines /\ []FramesInOrder /\ []PreferredHolds
                  /\ NothingStaleIsSent /\ AsksAreDue /\ NeverEarly
<1>1. InputsInit => TxInv /\ OrderInv /\ DiscoveryInv /\ SelectorInv /\ LoopsInv
    BY TxInvInit, OrderInvInit, DiscoveryInvInit, SelectorInvInit, LoopsInvInit DEF InputsInit
<1>2. TxInv /\ OrderInv /\ DiscoveryInv /\ SelectorInv /\ LoopsInv /\ [InputsNext]_inputsVars =>
          (TxInv /\ OrderInv /\ DiscoveryInv /\ SelectorInv /\ LoopsInv)'
    BY OnePartMoves, TxInvNext, OrderInvNext, DiscoveryInvNext, SelectorInvNext, LoopsInvNext
<1>3. TxInv /\ OrderInv /\ SelectorInv => OneWayForward /\ NoSplicedLines /\ FramesInOrder /\ PreferredHolds
    BY DEF TxInv, Inv, OrderInv, SelectorInv
<1>4. TxInv /\ [InputsNext]_inputsVars => [wire' # wire => boundTo[Last(wire')[1]] = driver]_allVars
    BY OnePartMoves, WritesArePresent
<1>5. DiscoveryInv /\ [InputsNext]_inputsVars =>
          [\A s \in asking' : s \in asking \/ (installed /\ gap[s] = Interval /\ s \notin identified)]_discoveryVars
    BY OnePartMoves, AskedAreDue
<1>6. LoopsInv /\ [InputsNext]_inputsVars =>
          [Realtime => \A l \in Loops : line'[l] # line[l] => Due(l) <= clock]_replayVars
    BY OnePartMoves, PublishedAreDue
<1> QED
    BY <1>1, <1>2, <1>3, <1>4, <1>5, <1>6, PTL DEF InputsSpec, NothingStaleIsSent, AsksAreDue, NeverEarly
=================================================================================
