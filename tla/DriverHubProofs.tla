---------------------------- MODULE DriverHubProofs -----------------------------
(***************************************************************************)
(* Proofs about DriverHub, for any labels, drivers and callers, any overlap *)
(* of calls and any failing start or stop.                                 *)
(***************************************************************************)
EXTENDS DriverHub, TLAPS

(* The driver a caller starts or stops belongs to no label, and to no other  *)
(* caller; one being started is up already.                                  *)
InFlight ==
    \A c \in Callers :
        /\ pc[c] = "idle" <=> drv[c] = None
        /\ pc[c] = "starting" => drv[c] \in up
        /\ drv[c] # None =>
             /\ \A l \in Labels : entries[l] # drv[c]
             /\ \A d \in Callers \ {c} : drv[d] # drv[c]

HubInv == HubTypeOK /\ RegisteredOnBus /\ NothingPublishesHalfUp /\ InFlight

LEMMA FreshDriver ==
    ASSUME HubTypeOK, NEW d \in Fresh
    PROVE  /\ d \in Drivers /\ d \notin up /\ d \notin publishing
           /\ \A c \in Callers : drv[c] # d
           /\ \A l \in Labels : entries[l] # d
  BY DEF Fresh, HubTypeOK, Range

LEMMA HubInvInit == HubInit => HubInv
  BY NoneAssumption
  DEF HubInit, HubInv, HubTypeOK, RegisteredOnBus, NothingPublishesHalfUp, InFlight, Registered

LEMMA HubInvNext == HubInv /\ [HubNext]_hubVars => HubInv'
<1> SUFFICES ASSUME HubInv, [HubNext]_hubVars PROVE HubInv'
  OBVIOUS
<1> USE NoneAssumption
    DEF HubInv, HubTypeOK, RegisteredOnBus, NothingPublishesHalfUp, InFlight, Registered, Await, Detach
<1>0. inTurn' = inTurn
  BY DEF HubNext, hubVars
<1>1. ASSUME NEW c \in Callers, NEW l \in Labels, AddDriver(c, l)
      PROVE  HubInv'
  <2>1. PICK d \in Fresh : up' = up \cup {d} /\ Await(c, "starting", d)
    BY <1>1 DEF AddDriver
  <2>2. /\ d \in Drivers /\ d \notin up /\ d \notin publishing
        /\ \A b \in Callers : drv[b] # d
        /\ \A k \in Labels : entries[k] # d
    BY FreshDriver
  <2> QED
    BY <1>0, <1>1, <2>1, <2>2 DEF AddDriver, CanCall
<1>2. ASSUME NEW c \in Callers, NEW l \in Labels, RemoveDriver(c, l)
      PROVE  HubInv'
  BY <1>0, <1>2 DEF RemoveDriver, CanCall
<1>3. ASSUME NEW c \in Callers, Teardown(c)
      PROVE  HubInv'
  BY <1>0, <1>3 DEF Teardown, CanCall
<1>4. ASSUME NEW c \in Callers, Started(c)
      PROVE  HubInv'
  BY <1>0, <1>4 DEF Started
<1>5. ASSUME NEW c \in Callers, StartFailed(c)
      PROVE  HubInv'
  BY <1>0, <1>5 DEF StartFailed
<1>6. ASSUME NEW c \in Callers, Stopped(c)
      PROVE  HubInv'
  BY <1>0, <1>6 DEF Stopped
<1>7. ASSUME NEW c \in Callers, TornDownOne(c)
      PROVE  HubInv'
  BY <1>0, <1>7 DEF TornDownOne
<1>8. ASSUME NEW c \in Callers, TornDown(c)
      PROVE  HubInv'
  BY <1>0, <1>8 DEF TornDown
<1>9. ASSUME NEW c \in Callers, StopFailed(c)
      PROVE  HubInv'
  BY <1>0, <1>9 DEF StopFailed
<1>10. CASE UNCHANGED hubVars
  BY <1>10 DEF hubVars
<1> QED
  BY <1>1, <1>2, <1>3, <1>4, <1>5, <1>6, <1>7, <1>8, <1>9, <1>10 DEF HubNext

LEMMA HubInvHolds == HubSpec => []HubInv
  BY HubInvInit, HubInvNext, PTL DEF HubSpec

(* A registered driver is up, on the bus, and under one label only, at every *)
(* point of every overlap of addDriver, removeDriver and teardown.           *)
THEOREM RegisteredAlwaysOnBus == HubSpec => []RegisteredOnBus
  BY HubInvHolds, PTL DEF HubInv

(* No driver publishes while it starts or stops, or after it has stopped,    *)
(* also when its start() or stop() rejects.                                  *)
THEOREM PublishingIsUp == HubSpec => []NothingPublishesHalfUp
  BY HubInvHolds, PTL DEF HubInv

---------------------------------------------------------------------------------
(* Calls in turn: one caller at most is inside the hub, and the label it adds *)
(* under is still free.                                                      *)
OneInside ==
    /\ \A c, d \in Callers : pc[c] # "idle" /\ pc[d] # "idle" => c = d
    /\ \A c \in Callers : pc[c] = "starting" => label[c] \notin Registered

InTurnInv == HubInv /\ (inTurn => OneInside) /\ NoShadow

LEMMA InTurnStep == InTurnInv /\ [HubNext]_hubVars => InTurnInv'
<1> SUFFICES ASSUME InTurnInv, [HubNext]_hubVars PROVE InTurnInv'
  OBVIOUS
<1>1. HubInv' /\ inTurn' = inTurn
  BY HubInvNext DEF InTurnInv, HubNext, hubVars
<1>2. CASE ~inTurn
  BY <1>1, <1>2 DEF InTurnInv, NoShadow
<1>3. CASE inTurn
  <2> SUFFICES (OneInside /\ NoShadow)'
    BY <1>1, <1>3 DEF InTurnInv
  <2> USE <1>1, <1>3, NoneAssumption
      DEF InTurnInv, HubInv, HubTypeOK, RegisteredOnBus, InFlight, OneInside, NoShadow, Registered,
          CanCall, Await, Detach
  <2>1. ASSUME NEW c \in Callers, NEW l \in Labels, AddDriver(c, l)
        PROVE  (OneInside /\ NoShadow)'
    BY <2>1 DEF AddDriver
  <2>2. ASSUME NEW c \in Callers, NEW l \in Labels, RemoveDriver(c, l)
        PROVE  (OneInside /\ NoShadow)'
    BY <2>2 DEF RemoveDriver
  <2>3. ASSUME NEW c \in Callers, Teardown(c)
        PROVE  (OneInside /\ NoShadow)'
    BY <2>3 DEF Teardown
  <2>4. ASSUME NEW c \in Callers, Started(c)
        PROVE  (OneInside /\ NoShadow)'
    BY <2>4 DEF Started
  <2>5. ASSUME NEW c \in Callers, StartFailed(c) \/ Stopped(c) \/ TornDown(c) \/ StopFailed(c)
        PROVE  (OneInside /\ NoShadow)'
    BY <2>5 DEF StartFailed, Stopped, TornDown, StopFailed
  <2>6. ASSUME NEW c \in Callers, TornDownOne(c)
        PROVE  (OneInside /\ NoShadow)'
    BY <2>6 DEF TornDownOne
  <2>7. CASE UNCHANGED hubVars
    BY <2>7 DEF hubVars
  <2> QED
    BY <2>1, <2>2, <2>3, <2>4, <2>5, <2>6, <2>7 DEF HubNext
<1> QED
  BY <1>2, <1>3

(* As long as calls do not overlap, every driver on the bus is found under   *)
(* its label, so removeDriver and teardown reach it: no sequence of adds,    *)
(* removes, teardowns and failures shadows one.                              *)
THEOREM NoneShadowed == HubSpec => []NoShadow
<1>1. HubInit => InTurnInv
  BY HubInvInit DEF HubInit, InTurnInv, OneInside, NoShadow
<1>2. InTurnInv => NoShadow
  BY DEF InTurnInv
<1> QED
  BY <1>1, <1>2, InTurnStep, PTL DEF HubSpec
=================================================================================
