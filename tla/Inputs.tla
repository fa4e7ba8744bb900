----------------------------------- MODULE Inputs -----------------------------------
(***************************************************************************)
(* What the process exchanges with the boat's network, over time: the      *)
(* reconnecting gateway driver under the autopilot's transmitter, the      *)
(* discovery that asks devices what they are, the selection between the    *)
(* sources of a channel, and a recorded session in place of them all.      *)
(* None reads what another keeps, so that a behaviour is that of one,      *)
(* `part', with the others at rest.                                        *)
(***************************************************************************)
EXTENDS AutopilotTx, DeviceDiscovery, SourceSelector, Replay

VARIABLE part

inputsVars == <<part, allVars, discoveryVars, selectorVars, replayVars>>

InputsInit ==
    /\ part \in {"autopilot", "discovery", "selector", "replay"}
    /\ TxInit /\ DiscoveryInit /\ SelectorInit /\ ReplayInit
    /\ part # "autopilot" => ~up
    /\ part # "selector" => ~rule

AutopilotStep == part = "autopilot" /\ TxNext /\ UNCHANGED <<discoveryVars, selectorVars, replayVars>>
DiscoveryStep == part = "discovery" /\ DiscoveryNext /\ UNCHANGED <<allVars, selectorVars, replayVars>>
SelectorStep == part = "selector" /\ SelectorNext /\ UNCHANGED <<allVars, discoveryVars, replayVars>>
ReplayStep == part = "replay" /\ ReplayNext /\ UNCHANGED <<allVars, discoveryVars, selectorVars>>

InputsNext == (AutopilotStep \/ DiscoveryStep \/ SelectorStep \/ ReplayStep) /\ UNCHANGED part

(* The fairness of each part, when it is the one in play. *)
AutopilotFairness ==
    /\ WF_vars(part = "autopilot" /\ Reconnect)
    /\ WF_vars(part = "autopilot" /\ Connect)
    /\ WF_vars(part = "autopilot" /\ sock = "dead" /\ IdleTimeout)
    /\ WF_vars(part = "autopilot" /\ Close)
    /\ \A c \in Commands :
           /\ WF_txVars(part = "autopilot" /\ Resolve(c))
           /\ WF_txVars(part = "autopilot" /\ TxCan(c))
           /\ WF_txVars(part = "autopilot" /\ sock = "open" /\ Written(c))
           /\ WF_txVars(part = "autopilot" /\ TxError(c))

ReplayPartFairness ==
    /\ \A l \in Loops :
           /\ WF_replayVars(part = "replay" /\ StartLoop(l))
           /\ WF_replayVars(part = "replay" /\ (Read(l) \/ Sleep(l) \/ Wake(l)))
    /\ WF_replayVars(part = "replay" /\ ReplayTick)

InputsSpec ==
    /\ InputsInit
    /\ [][InputsNext]_inputsVars
    /\ AutopilotFairness
    /\ WF_selectorVars(part = "selector" /\ SelectorTick)
    /\ ReplayPartFairness
=================================================================================
