------------------------------- MODULE YdwgDriver -------------------------------
(***************************************************************************)
(* The reconnecting TCP driver of the YDWG-02 gateway                      *)
(* (packages/bridge/src/ydwg-raw-tcp-driver.ts): one socket at a time,     *)
(* a reconnect timer with exponential backoff, and the line buffer that    *)
(* cuts the received stream into frames.  A socket is destroyed first and  *)
(* reports its close later; stop() may come between.                       *)
(***************************************************************************)
EXTENDS Naturals

CONSTANTS
    InitialMs, MaxMs    \* backoffMs

ASSUME BackoffAssumption == InitialMs \in Nat \ {0} /\ MaxMs \in Nat /\ InitialMs <= MaxMs

VARIABLES
    active,      \* between start() and stop()
    sock,        \* this.socket, and what it is doing
    timer,       \* reconnectTimer is pending
    delay,       \* the delay it was set to
    backoff,     \* currentBackoffMs
    connected,   \* health.connected
    buffer,      \* lineBuffer: empty, or a part of a line received on this socket or a former one
    up           \* the gateway can be reached

vars == <<active, sock, timer, delay, backoff, connected, buffer, up>>

TypeOK ==
    /\ active \in BOOLEAN
    /\ sock \in {"none", "connecting", "open", "dead", "closing"}
    /\ timer \in BOOLEAN
    /\ delay \in 0 .. MaxMs
    /\ backoff \in InitialMs .. MaxMs
    /\ connected \in BOOLEAN
    /\ buffer \in {"empty", "current", "former"}
    /\ up \in BOOLEAN

Init ==
    /\ active = FALSE
    /\ sock = "none"
    /\ timer = FALSE
    /\ delay = 0
    /\ backoff = InitialMs
    /\ connected = FALSE
    /\ buffer = "empty"
    /\ up \in BOOLEAN

---------------------------------------------------------------------------------
Double(ms) == IF 2 * ms <= MaxMs THEN 2 * ms ELSE MaxMs

(* scheduleReconnect: nothing if a timer is pending. *)
ScheduleReconnect ==
    IF timer THEN UNCHANGED <<timer, delay, backoff>>
    ELSE /\ timer' = TRUE
         /\ delay' = backoff
         /\ backoff' = Double(backoff)

(* connect: a new socket; what the buffer holds came from a former one. *)
NewSocket ==
    /\ sock' = "connecting"
    /\ buffer' = IF buffer = "empty" THEN "empty" ELSE "former"
    /\ UNCHANGED <<delay, backoff>>

(* connect when the socket factory throws. *)
NoSocket ==
    /\ ScheduleReconnect
    /\ UNCHANGED <<sock, buffer>>

(* start(): when active already, no step. *)
Start ==
    /\ ~active
    /\ active' = TRUE
    /\ \/ NewSocket /\ UNCHANGED timer
       \/ ~up /\ NoSocket
    /\ UNCHANGED <<connected, up>>

(* Mutant: stop() leaves the timer pending. *)
StopLeavesTimer ==
    /\ active' = FALSE
    /\ sock' = "none"
    /\ buffer' = "empty"
    /\ connected' = FALSE
    /\ UNCHANGED <<timer, delay, backoff, up>>

Stop ==
    /\ active' = FALSE
    /\ timer' = FALSE
    /\ sock' = "none"
    /\ buffer' = "empty"
    /\ connected' = FALSE
    /\ UNCHANGED <<delay, backoff, up>>

(* The timer fires. *)
Reconnect ==
    /\ timer
    /\ IF ~active
       THEN timer' = FALSE /\ UNCHANGED <<sock, buffer, delay, backoff>>
       ELSE \/ NewSocket /\ timer' = FALSE
            \/ /\ ~up
               /\ delay' = backoff
               /\ backoff' = Double(backoff)
               /\ UNCHANGED <<timer, sock, buffer>>
    /\ UNCHANGED <<active, connected, up>>

(* The 'connect' event. *)
Connect ==
    /\ sock = "connecting"
    /\ up
    /\ sock' = "open"
    /\ connected' = TRUE
    /\ backoff' = InitialMs
    /\ UNCHANGED <<active, timer, delay, buffer, up>>

(* The 'data' event: whole lines are taken, a last partial one stays. *)
Data ==
    /\ sock = "open"
    /\ buffer' \in {"empty", "current"}
    /\ UNCHANGED <<active, sock, timer, delay, backoff, connected, up>>

(* Mutant: the timeout is counted, the socket left alone. *)
IdleTimeoutCounted ==
    /\ sock \in {"open", "dead"} \/ (sock = "connecting" /\ ~up)
    /\ UNCHANGED vars

(* The 'timeout' event, on any silent socket: it is destroyed. *)
IdleTimeout ==
    /\ sock \in {"open", "dead"} \/ (sock = "connecting" /\ ~up)
    /\ sock' = "closing"
    /\ UNCHANGED <<active, timer, delay, backoff, connected, buffer, up>>

(* The peer closes the connection, or an 'error' is followed by its close. *)
Drop ==
    /\ sock = "open" \/ (sock = "connecting" /\ ~up)
    /\ sock' = "closing"
    /\ UNCHANGED <<active, timer, delay, backoff, connected, buffer, up>>

(* Mutant: a close does not empty the line buffer. *)
CloseKeepsBuffer ==
    /\ sock = "closing"
    /\ sock' = "none"
    /\ connected' = FALSE
    /\ ScheduleReconnect
    /\ UNCHANGED <<active, buffer, up>>

(* The 'close' event. *)
Close ==
    /\ sock = "closing"
    /\ sock' = "none"
    /\ buffer' = "empty"
    /\ connected' = FALSE
    /\ ScheduleReconnect
    /\ UNCHANGED <<active, up>>

(* The gateway comes and goes; an open connection may die unnoticed. *)
Gateway ==
    /\ up' = ~up
    /\ sock' = IF up /\ sock = "open" THEN "dead" ELSE sock
    /\ UNCHANGED <<active, timer, delay, backoff, connected, buffer>>

Next ==
    \/ Start \/ Stop \/ Reconnect
    \/ Connect \/ Data \/ IdleTimeout \/ Drop \/ Close
    \/ Gateway

(* Timers fire and socket events are delivered. *)
Fairness ==
    /\ WF_vars(Reconnect)
    /\ WF_vars(Connect)
    /\ WF_vars(sock = "dead" /\ IdleTimeout)
    /\ WF_vars(Close)

Spec == Init /\ [][Next]_vars /\ Fairness

---------------------------------------------------------------------------------
(* An active driver is never stuck: it has a socket or a timer that will   *)
(* make one; and never both, so no socket is overwritten by another and    *)
(* lost.  A stopped one has neither: nothing connects after stop().        *)
OneWayForward ==
    IF active THEN timer <=> (sock = "none") ELSE ~timer /\ sock = "none"

(* A frame is never put together from the bytes of two connections: what   *)
(* the buffer holds was received on the socket of now (lines 121, 198).    *)
NoSplicedLines == buffer # "former"

(* The health shown to the user says connected only while the driver has   *)
(* a socket that once connected.                                           *)
ConnectedHasSocket == connected => sock \in {"open", "dead", "closing"}

(* A driver left running always gets a live connection again, if the       *)
(* gateway can be reached from some time on: also when its socket died     *)
(* unnoticed and the health still says connected (lines 182-189).          *)
Reconnects == <>[](active /\ up) => []<>(sock = "open")
=================================================================================
