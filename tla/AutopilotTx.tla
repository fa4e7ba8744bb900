-------------------------------- MODULE AutopilotTx --------------------------------
(***************************************************************************)
(* The autopilot transmitter (packages/bridge/src/autopilot-tx-impl.ts):   *)
(* commands chained on one another, each read, resolved, split in frames   *)
(* and written one frame at a time through the driver it is bound to, here *)
(* a YDWG-02 (txCan of ydwg-raw-tcp-driver.ts).  A swap of the source      *)
(* stops the driver; the next live source brings a new one and, by         *)
(* runBridge, a new transmitter with a chain of its own.  The write        *)
(* callback comes once the bytes are with the kernel, or with an error     *)
(* once the socket is destroyed; on a half-open socket it may not come     *)
(* before that.                                                            *)
(***************************************************************************)
EXTENDS YdwgDriver, Sequences, SequencesExt

CONSTANTS
    Commands,   \* the commands of a behaviour, each given once
    Frames,     \* frames of one command (a fast packet)
    MaxDrivers  \* bound on the live sources opened

ASSUME FramesAssumption == Frames \in Nat \ {0}

VARIABLES
    chain,      \* the commands in the order they were given
    phase,      \* where each is
    frame,      \* the frames of each that were written
    boundTo,    \* the driver each is sent to: the transmitter it was given to
    driver,     \* the driver of the present live source
    wire        \* history: the frames written

txVars == <<chain, phase, frame, boundTo, driver, wire>>
allVars == <<vars, txVars>>

Answered(c) == phase[c] \in {"ok", "error"}

TxTypeOK ==
    /\ chain \in Seq(Commands)
    /\ phase \in [Commands -> {"new", "chained", "read", "writing", "failed", "ok", "error"}]
    /\ frame \in [Commands -> 0 .. Frames]
    /\ boundTo \in [Commands -> 0 .. MaxDrivers]
    /\ driver \in 1 .. MaxDrivers
    /\ wire \in Seq(Commands \X (1 .. Frames))

TxInit ==
    /\ Init
    /\ chain = <<>>
    /\ phase = [c \in Commands |-> "new"]
    /\ frame = [c \in Commands |-> 0]
    /\ boundTo = [c \in Commands |-> 0]
    /\ driver = 1
    /\ wire = <<>>

Phase(c, p) == phase' = [phase EXCEPT ![c] = p]

---------------------------------------------------------------------------------
(* sendCommand: chained on what was given to the same transmitter. *)
SendCommand(c) ==
    /\ phase[c] = "new"
    /\ Phase(c, "chained")
    /\ chain' = Append(chain, c)
    /\ boundTo' = [boundTo EXCEPT ![c] = driver]
    /\ UNCHANGED <<vars, frame, driver, wire>>

(* The commands given before c. *)
Before(c) ==
    {d \in Commands : \E i, j \in 1 .. Len(chain) : i < j /\ chain[i] = d /\ chain[j] = c}

(* Mutant: a command does not wait for the one before. *)
MyTurnAtOnce(c) == phase[c] = "chained"

MyTurn(c) ==
    /\ phase[c] = "chained"
    /\ \A d \in Before(c) : boundTo[d] = boundTo[c] => Answered(d)

(* read and resolveCommand: a command nobody captured is answered at once. *)
Resolve(c) ==
    /\ MyTurn(c)
    /\ Phase(c, "read") \/ Phase(c, "error")
    /\ UNCHANGED <<vars, chain, frame, boundTo, driver, wire>>

(* Mutant: the frame goes to whatever driver is there. *)
CanWriteAnywhere(c) == connected /\ sock \in {"open", "dead"}

(* txCan: a driver that was stopped has no socket; a destroyed socket      *)
(* refuses the write.                                                      *)
CanWrite(c) == boundTo[c] = driver /\ connected /\ sock \in {"open", "dead"}

TxCan(c) ==
    /\ phase[c] = "read"
    /\ Phase(c, IF CanWrite(c) THEN "writing" ELSE "failed")
    /\ UNCHANGED <<vars, chain, frame, boundTo, driver, wire>>

(* The callback of the write: the next frame, or the answer. *)
Written(c) ==
    /\ phase[c] = "writing"
    /\ frame' = [frame EXCEPT ![c] = @ + 1]
    /\ wire' = Append(wire, <<c, frame[c] + 1>>)
    /\ Phase(c, IF frame[c] + 1 = Frames THEN "ok" ELSE "read")
    /\ UNCHANGED <<vars, chain, boundTo, driver>>

(* txPgn rejects: the answer is tx_error. *)
TxError(c) ==
    /\ phase[c] = "failed"
    /\ Phase(c, "error")
    /\ UNCHANGED <<vars, chain, frame, boundTo, driver, wire>>

(* A step of the driver: a write that waits fails when its socket goes. *)
DriverStep ==
    /\ Next
    /\ phase' = [c \in Commands |->
           IF phase[c] = "writing" /\ sock' \notin {"open", "dead"} THEN "failed" ELSE phase[c]]
    /\ UNCHANGED <<chain, frame, boundTo, driver, wire>>

(* The source was swapped away and back: runBridge binds a new transmitter *)
(* to a new driver.                                                        *)
NewDriver ==
    /\ ~active
    /\ driver < MaxDrivers
    /\ driver' = driver + 1
    /\ backoff' = InitialMs
    /\ delay' = 0
    /\ UNCHANGED <<active, sock, timer, connected, buffer, up, chain, phase, frame, boundTo, wire>>

TxNext ==
    \/ DriverStep \/ NewDriver
    \/ \E c \in Commands : SendCommand(c) \/ Resolve(c) \/ TxCan(c) \/ Written(c) \/ TxError(c)

(* What the driver is fair about; a file is read, a write on a connection  *)
(* that works is called back, a rejection is handled.                      *)
TxSpec ==
    /\ TxInit
    /\ [][TxNext]_allVars
    /\ WF_vars(Reconnect) /\ WF_vars(Connect) /\ WF_vars(sock = "dead" /\ IdleTimeout) /\ WF_vars(Close)
    /\ \A c \in Commands :
           /\ WF_txVars(Resolve(c))
           /\ WF_txVars(TxCan(c))
           /\ WF_txVars(sock = "open" /\ Written(c))
           /\ WF_txVars(TxError(c))

---------------------------------------------------------------------------------
(* The frames of a command are written one after the other from the first, *)
(* with no other command's between and in the order the commands were      *)
(* given ("Single-in-flight serialization prevents interleaved Fast Packet *)
(* sequences", autopilot-tx-impl.ts:20), through failures and swaps.       *)
FramesInOrder ==
    \A i \in 1 .. Len(wire) - 1 :
        LET c == wire[i][1] d == wire[i + 1][1] IN
        IF c = d THEN wire[i + 1][2] = wire[i][2] + 1
        ELSE c \in Before(d) /\ wire[i + 1][2] = 1

(* A command of a source that was swapped away is never written on the     *)
(* next one, although it waited on the chain (bridge.ts:33).               *)
NothingStaleIsSent ==
    [][wire' # wire => boundTo[Last(wire')[1]] = driver]_allVars

(* Every command is answered: a connection that dies in the middle of one  *)
(* does not hold back those chained on it (autopilot-tx-impl.ts:60).       *)
CommandsAnswered ==
    \A c \in Commands : phase[c] = "chained" ~> Answered(c)
=================================================================================
