------------------------------- MODULE AlarmsPipeline -------------------------------
(***************************************************************************)
(* startAlarmsPipeline (packages/compute/src/alarms/index.ts): the anchor  *)
(* watch, the alarms with a hold and the collision monitor over one        *)
(* registry.  Each writes the entry of its own id and reads no other, so   *)
(* that nothing one does is seen by another: a behaviour is that of one    *)
(* predicate, `part', with the others at rest.                             *)
(***************************************************************************)
EXTENDS AnchorWatch, HoldAlarm, CpaMonitor

VARIABLE part

pipelineVars == <<part, vars, HoldVars, CpaVars>>

PipelineInit ==
    /\ part \in {"anchor", "hold", "cpa"}
    /\ Init
    /\ HoldInit
    /\ CpaInit
    /\ part # "anchor" => usage = "plain"
    /\ part # "hold" => ~banded

AnchorStep == part = "anchor" /\ Next /\ UNCHANGED <<part, HoldVars, CpaVars>>
HoldStep == part = "hold" /\ HoldNext /\ UNCHANGED <<part, vars, CpaVars>>
CpaStep == part = "cpa" /\ CpaNext /\ UNCHANGED <<part, vars, HoldVars>>

PipelineNext == AnchorStep \/ HoldStep \/ CpaStep

(* The fairness of each predicate, when it is the one in play. *)
PipelineFairness ==
    /\ WF_vars(part = "anchor" /\ Sample /\ UNCHANGED usage)
    /\ WF_vars(part = "anchor" /\ Tick /\ UNCHANGED usage)
    /\ WF_HoldVars(part = "hold" /\ Timely)
    /\ WF_CpaVars(part = "cpa" /\ Check)
    /\ \A v \in Vessels : WF_CpaVars(part = "cpa" /\ Report(v))

PipelineSpec == PipelineInit /\ [][PipelineNext]_pipelineVars /\ PipelineFairness

---------------------------------------------------------------------------------
(* Every predicate implements the life of an alarm (AlarmLife): it sounds  *)
(* only when it is due, and once answered it stays silent until its        *)
(* condition has gone or something worse comes that the answer does not    *)
(* cover (anchor-watch.ts:22, high-wind.ts:52, cpa-monitor.ts:154).        *)
EachIsAnAlarm == WatchIsAnAlarm /\ HoldIsAnAlarm /\ CpaIsAnAlarm
=================================================================================
